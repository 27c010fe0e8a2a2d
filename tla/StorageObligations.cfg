SPECIFICATION Spec
CONSTANTS
  a = a
  b = b
  s = s
  Obligation = {a, b}
  Renewal = {b}
  Sector = {s}
  WindowStart <- MCWindowStart
  WindowEnd <- MCWindowEnd
  SubmissionBuffer = 1
  Resubmission = 1
  BlocksPerDay = 1
  RespendTimeout = 1
  MaxHeight = 6
  MaxRevision = 2
  MaxTries = 2
  MaxHandlers = 1
  MaxFaults = 1
CHECK_DEADLOCK FALSE
INVARIANTS
    RecordsSound
    
    
PROPERTIES
    ResolvedOnce
