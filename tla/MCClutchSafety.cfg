CONSTANTS
  p1 = p1
  p2 = p2
  k1 = k1
  s1 = s1
  NoPid = NoPid
  NoVk = NoVk
  NoPending = NoPending
  Pid = {p1, p2}
  Vk = {k1}
  Button = {1}
  Session = {s1}
  HoldId = {1}
  PidReports <- BothClients
  MayFocus = {p1, p2}
  MayExit = {}
  EligibleReports <- BothClients
  Drain = 1
  Lease = 1
  QueueCap = 1
  ClosedCap = 1
  MaxSeq = 2
  HookFaults = FALSE
  BroadcastChoices = {}
SYMMETRY ClientSymmetry
SPECIFICATION SuiteSpec
INVARIANTS
  TypeOK
  OwnersMatchPhase
  SelectionSound
  HooksSound
  StatusPublished
PROPERTIES
  HandoverSteps
