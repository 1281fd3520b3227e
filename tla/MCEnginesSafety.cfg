CONSTANTS
  p2 = p2
  x = x
  y = y
  t2 = t2
\* CombatEngine
  Source = {1, 2}
  Mob = {11, 12}
  Pet = {21}
  Inactivity = 2
  EndingGrace = 1
  HeldFor = 1
  StableEof = 1
  LagSeconds = 2
  LagReceipt = 1
  BridgeSeconds = 1
  MaxEncounters = 2
  MaxLedger = 4
  Scripts <- Fights
  MaxNow = 2
  MaxFaults <- OneForKill
\* Pairing
  Device = {a, b}
  MaxAttempts = 2
  MaxSessions = 2
  MaxTries = 3
\* MemoryController
  Thread = {t1, t2}
  MaxId = 2
  Number = {1, 2}
  Owner = {o1}
  MaxSequence = 1
  MaxPrepared = 1
  MaxClosed = 1
\* ClientSet
  Nobody = Nobody
  Pid = {p1, p2, p3}
  Character = {x, y}
  Plays <- OnlyP2
  Preferred <- OrderX
  Cycle <- CycleYX
  MaxPips = 2
  MaxRetired = 1
  MaxLaunches = 3
  MaxEdits = 1
SPECIFICATION SuiteSpec
INVARIANTS
  ClientSetSound
  PairingSound
PROPERTIES
  ControllerHolds
  CombatHolds
  NoCredentialForDeadCode
\* Scripts, attempts and bounds run out.
CHECK_DEADLOCK FALSE
