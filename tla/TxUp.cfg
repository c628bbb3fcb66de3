SPECIFICATION FairSpec
CONSTANTS
  NUM_TX_DESC = 3
  SMP = FALSE
  MaxPkts = 5
INVARIANT CopyTargetFree
INVARIANT FullRingIsStopped
INVARIANT StoppedHasWork
INVARIANT NothingLeftBehind
PROPERTY RefinesTxRing
PROPERTY CompletionReported
\* The network core may have no packet left to send.
CHECK_DEADLOCK FALSE
