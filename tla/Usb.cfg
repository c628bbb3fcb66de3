SPECIFICATION Spec
CONSTANTS
  MaxOpens = 2
  MaxPkts = 2
INVARIANT ReceivedGoesUp
INVARIANT SentIsFreed
INVARIANT StoppedIsCarried
INVARIANT FreedOrFailed
INVARIANT DownIsQuiet
INVARIANT ListensWhileUp
INVARIANT PrivOutlives
\* The interface may stay down when no open is left.
CHECK_DEADLOCK FALSE
