SPECIFICATION FairSpec
CONSTANTS
  NUM_TX_DESC = 2
  SMP = FALSE
  MaxPkts = 4
PROPERTY StopEnds
\* The network core may have no packet left to send.
CHECK_DEADLOCK FALSE
