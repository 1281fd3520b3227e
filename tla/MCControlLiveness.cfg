CONSTANTS
  p1 = p1
  p2 = p2
  p3 = p3
  x = x
  y = y
\* ControlServer
  Conn = {c1}
  StateData = {d1, d2}
  MaxRevision = 3
  MaxRequests = 2
  MaxInFlight = 1
  UiCapacity = 1
\* ClientSet
  Nobody = none
  Pid <- Three
  Character = {x, y}
  Plays <- OnePersona
  Preferred <- OrderX
  Cycle <- CycleYX
  MaxPips = 1
  MaxRetired = 1
  MaxLaunches = 3
  MaxEdits = 0
\* DeckClient
  MaxCommands = 1
  MaxPresses = 1
  MaxUpsets = 1
  MaxRevisions = 2
\* XTargetDial
  Slots = {1, 2}
  MaxTurns = 2
  MaxPushes = 1
  MaxTroubles = 2
SPECIFICATION SuiteSpec
INVARIANTS
  SrvSound
  DeckSound
PROPERTIES
  FeedImplemented
  ServerSettles
  ClientsReconcile
  DeckReturns
  DialHolds
\* The program ends, and launches, commands and turns run out.
CHECK_DEADLOCK FALSE
