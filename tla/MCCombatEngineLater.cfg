CONSTANTS
  Source = {1, 2}
  Mob = {11, 12}
  Pet = {21}
  Inactivity = 2
  EndingGrace = 1
  HeldFor = 1
  StableEof = 1
  LagSeconds = 2
  LagReceipt = 1
  BridgeSeconds = 1
  MaxEncounters = 2
  MaxLedger = 4
  Scripts <- TwoFights
  MaxNow = 2
  MaxFaults <- NoFault
SPECIFICATION CombatSpec
INVARIANT LaterCombatCounts
\* The script runs out.
CHECK_DEADLOCK FALSE
