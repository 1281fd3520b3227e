CONSTANTS
  j1 = j1
  j2 = j2
\* AutoType
  Job = {j1, j2}
  TypedScan <- ShiftAndAfter
  Shift = 2
  Strokes <- BothPlain
  Lapses = TRUE
\* InputProxy
  TickWrap = 14
  Timeout = 2
  RetryAfter = 1
  StableFrames = 2
  FirstClock = 11
  MaxClock = 17
  MaxSwitches = 4
\* CharacterIdentity
  Identity <- SomeIdentities
  MaxAttempts = 2
  MaxLogins = 3
SPECIFICATION SuiteSpec
INVARIANTS
  IdentityWhole
PROPERTIES
  KeysLetGo
  ProxyHolds
  IdentityArrives
\* Jobs, clocks, edges and logins run out.
CHECK_DEADLOCK FALSE
