CONSTANTS
  p1 = p1
  p2 = p2
  s1 = s1
  NoPid = NoPid
  Pid = {p1, p2}
  QueueCap = 1
\* MouseClutch
  NoVk = NoVk
  NoPending = NoPending
  Vk = {}
  Button = {1}
  Session = {s1}
  HoldId = {1}
  PidReports <- BothClients
  MayFocus = {p1}
  MayExit = {}
  EligibleReports <- BothClients
  Drain = 1
  Lease = 1
  ClosedCap = 1
  MaxSeq = 1
  HookFaults = FALSE
  BroadcastChoices = {}
\* KeyDelivery
  ctrl = ctrl
  key = key
  r2 = r2
  Local = Local
SPECIFICATION SuiteSpec
PROPERTIES
  ClutchLetsGo
  InputsLetGo
\* The program ends: after Stop nothing is left to happen.
CHECK_DEADLOCK FALSE
