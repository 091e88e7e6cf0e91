SPECIFICATION CaptchaSpec
CONSTANTS
  Captchas = {1, 2}
  MaxPicture = 2
  MaxCaptchaPosts = 1
  MaxCaptchaFailures = 0
INVARIANT
  PictureIsCurrent
CHECK_DEADLOCK FALSE
