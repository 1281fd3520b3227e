CONSTANTS
\* LogWorker
  Path = {a}
  ReadLimit = 1
  QueueCap = 2
  DrainMax = 1
  MaxChanged = 1
  MaxLines = 2
  MaxWorkerFaults = 1
  MaxSyncs = 2
\* LogTail
  MaxLine = 1
  SigBytes = 2
  ChunkBytes = 2
  BudgetBytes = 3
  BudgetRecords = 2
  FileId = {a, b}
  MaxBytes = 4
  MaxFileFaults = 2
\* CombatBadges
  Fighter = {a}
  HitDurations = {1, 2}
  FlashMs = 1
  FlashInterval = 2
  ImpactMs = 1
  DecayMs = 2
  DamageMs = 3
  IssueMs = 2
  MaxLog = 3
  MaxRebuilds = 2
\* CastBars
  Caster = {a}
  Character = {a, b}
  SpellName <- SomeSpells
  Class = {"CLR", "WIZ", "BRD"}
  Bard = "BRD"
  BardTime = 2
  Grace = 1
  Linger = 1
  MaxSample = 2
  MaxLag = 1
  MaxCasts = 2
  MaxUpsets = 2
  Catalog <- SomeCatalog
  LegacyTimes <- OldTimes
SPECIFICATION SuiteSpec
INVARIANTS
  WorkerSound
PROPERTIES
  WorkerDelivers
  
  BadgesHold
  CastsHold
\* Lines, files, fights and casts run out, and the worker may be stopped.
CHECK_DEADLOCK FALSE
