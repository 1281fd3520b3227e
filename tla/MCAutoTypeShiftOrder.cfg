CONSTANTS
  j1 = j1
  Job = {j1}
  TypedScan <- Keys
  Shift = 2
  Strokes <- OneShifted
  Lapses = FALSE
SPECIFICATION JobsSpec
INVARIANT ShiftHeld
