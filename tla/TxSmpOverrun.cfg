SPECIFICATION Spec
CONSTANTS
  NUM_TX_DESC = 2
  SMP = TRUE
  MaxPkts = 4
INVARIANT CopyTargetFree
\* The network core may have no packet left to send.
CHECK_DEADLOCK FALSE
