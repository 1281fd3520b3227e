CONSTANTS
  eqA = eqA
  eqB = eqB
  eqC = eqC
\* PipWindows
  Client = {eqA, eqB, eqC}
  MaxPips = 2
  MaxChanges = 2
  MaxGestures = 1
  MaxPipFaults = 1
\* Compositor
  Pips = 1
  MaxScene = 2
  MaxMoves = 2
  MaxFaults = 1
\* TriggerEngine
  Key = {k1}
  Line <- SomeLines
  Variable = {"v"}
  Library <- SomeTriggers
  ActiveFor <- AllActive
  MaxTime = 4
  MaxLinesRead = 3
  MaxReloads = 1
\* Notices
  Box = {eqA, eqB}
  Namesakes = {eqA, eqB}
  Sources = {eqA, "named"}
  Roomy = {eqA}
  AnimationDuration = 1
  PreviewDuration = 2
  MaxUnread = 2
  AaLevels = {1, 2}
  MaxEvents = 2
  MaxInputs = 1
  MaxPolicies = 1
  Nobody = none
SPECIFICATION SuiteSpec
PROPERTIES
  PipsHold
  SurfacesHold
  TimersHold
  NoticesHold
\* Changes, faults, lines, events and time run out.
CHECK_DEADLOCK FALSE
