CONSTANTS
  j1 = j1
  j2 = j2
\* KeyEdges
  Scan <- TwoKeys
  AutoScan <- OneKey
  Cap = 2
  Wrap = 4
  Tries = 2
  MaxEdges = 4
  MaxSeq = 10
  MaxFaults = 0
\* AutoType
  Job = {j1, j2}
  TypedScan <- ShiftAndAfter
  Shift = 2
  Strokes <- ShiftAndPlain
  Lapses = TRUE
SPECIFICATION SuiteSpec
INVARIANTS
  TypeOK
  StrokesExact
PROPERTIES
  LevelsSound
  AutoTypeSound
