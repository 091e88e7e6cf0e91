SPECIFICATION PagesSpec
CONSTANTS
  Forms = {f1}
  Drafts = {d1}
  Questions = {q1}
  Tasks = {t1}
  Late = {t1}
  MaxPosts = 1
  MaxFetches = 1
  ChatIds = {1, 2}
  ReadOnly = {2}
  Matching = {2}
  Beyond = {}
  DeepLinks = {0, 2}
  NoChat = 0
  MaxRequests = 2
  MaxSends = 1
  MaxListLoads = 2
  LoginJobs = {1}
  MaxPolls = 2
  Vacancies = {1}
  InitStatuses = {"letter_draft"}
  UsedTabs = {"review", "selected"}
  PageSize = 1
  MaxAsks = 2
  MaxLoads = 2
  MaxBackground = 1
  Jobs = {1}
  MaxRuns = 1
  MaxRunPolls = 1
  MaxLost = 1
  MaxClicks = 1
  Switches = {"worker", "real_apply"}
  SendingAllowed = TRUE
  MaxChanges = 2
  MaxReloads = 1
  MaxMissed = 1
  Captchas = {1, 2}
  MaxPicture = 1
  MaxCaptchaPosts = 1
  MaxCaptchaFailures = 1
INVARIANTS
  PagesTypeOK
  GoneMeansResolved
  WindowIsCurrent
PROPERTIES
  MessagesNeverGoBack
  DecisionsSpareApproved
  JobEndIsShown
  RunEndIsShown
  BarSettles
CHECK_DEADLOCK FALSE
