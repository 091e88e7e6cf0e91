SPECIFICATION ExtensionSpec
CONSTANTS
  Pages <- AllForms
  Budget = 1
  MaxFills = 2
  MaxEdits = 1
  MaxSaves = 1
  SignIns = {1}
  MaxGeneration = 1
  BackgroundCalls = {c1, c2}
  Panels = {t1, t2}
  MaxHistory = 2
  MaxTurns = 2
INVARIANT
  UnchangedTeachesNothing
CHECK_DEADLOCK FALSE
