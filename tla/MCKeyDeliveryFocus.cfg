SPECIFICATION Spec
CONSTANTS
  Pid = {p1, p2}
  NoPid = NoPid
  Scan = {ctrl, key}
  Modifier = {ctrl}
  Req = {}
  Job <- NoJobs
  Local = Local
  LocalProg <- Invite
  QueueCap = 2
  PidReports <- OnlyBoth
  MayFocus = {p1, p2}
  Typeable = {key}
  Filters <- NoFilter
  Faults = FALSE
  p1 = p1
  p2 = p2
  ctrl = ctrl
  key = key
INVARIANT FocusLossReleases
