SPECIFICATION MCSpec
CONSTANTS
  EventKinds <- MCEventKinds
  MaxEvents = 3
  MaxBytes = 12
  Overhead = 2
  LineCost = 1
  Frame = 2
  WindowMs = 2
  MaxAdded = 4
  MaxNow = 3
  MaxAttempts <- MCMaxAttempts
  MaxElapsed <- MCMaxElapsed
  BaseDelay <- MCBaseDelay
  MaxDelay <- MCMaxDelay
  MaxDeliveries = 2
  MaxOutages = 3
  MaxTime = 3
  ConnectCap = 2
  ReplayCap = 2
  MaxMail = 4
  Owners = {"a", "b"}
  Hashes = {"h1", "h2"}
  MaxBatchId = 1
  MaxClock = 3
  LeaseTtl = 1
  MaxOpens = 3
  Migrators = {m1, m2}
  MaxVersion = 3
  Destructive = {2, 3}
  MaxCrashes = 1
  Operators = {o1, o2}
  BatchNames = {b1}
  Threads = {t1}
  MaxCursor = 1
  MaxAudit = 2
  SeedRows <- MCSeedRows
  CommandLines = {c1}
  Turns = {u1}
  Requests = {r1}
  MaxMailId = 2
  MaxEnqueued = 2
  ThreadIds = {t1}
INVARIANTS BatcherPromise ReconnectPromise TestsCarryOver MigrationPromise OperatorPromise ComponentsInv
SYMMETRY Symmetry
CHECK_DEADLOCK FALSE
