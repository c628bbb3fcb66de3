SPECIFICATION Spec
CONSTANTS
  MaxLeaks = 2
INVARIANT ChipOwnsMemory
INVARIANT HandlerSafe
INVARIANT IrqBalance
INVARIANT LossExplained
INVARIANT NullRingExplained
