CONSTANTS
  p1 = p1
  p2 = p2
  ctrl = ctrl
  key = key
  r1 = r1
  r2 = r2
  NoPid = NoPid
  Local = Local
  Pid = {p1, p2}
  Scan = {ctrl, key}
  Modifier = {ctrl}
  Req = {r1, r2}
  Job <- Jobs
  LocalProg <- Invite
  QueueCap = 1
  PidReports <- AnyButP2
  MayFocus = {}
  Typeable = {}
  Filters <- NoFilter
  Faults = TRUE
SPECIFICATION SuiteSpec
INVARIANTS
  AnswersTruthful
  MappingSound
PROPERTIES
  KeysOwned
\* The program ends: after Stop nothing is left to happen here.
CHECK_DEADLOCK FALSE
