SPECIFICATION Spec
CONSTANTS
  Files = {f1, f2}
  PAGE_SIZE = 2
  LEN = 4
  MaxPages = 5
INVARIANT MapsItsArea
\* The module may stay unloaded.
CHECK_DEADLOCK FALSE
