SPECIFICATION LifeFairSpec
CONSTANTS
  NUM_TX_DESC = 2
  SMP = FALSE
  MaxPkts = 3
  MaxOpens = 2
INVARIANT WireInOrder
PROPERTY CountsOnceWhileUp
PROPERTY UpStopEnds
\* The last opening may be closed for good.
CHECK_DEADLOCK FALSE
