SPECIFICATION MCSpec
CONSTANTS
  NumDirs = 2
  MaxMail = 3
  ProjectDir = 1
  Matching <- MCMatching
  PrimaryDir = 1
  Confirm = 2
  MaxPosted = 4
  MaxStamp = 3
  Limit = 2
  NumProjects = 3
  Linked = {2}
  MaxFanout = 2
INVARIANTS MonitorPromise CodexPromise
CHECK_DEADLOCK FALSE
