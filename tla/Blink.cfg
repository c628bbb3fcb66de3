SPECIFICATION FairSpec
CONSTANTS
  Callers = {c1, c2}
  LedArgs = {1, 15}
  MaxSets = 3
INVARIANT AddedTwiceExplained
INVARIANT RestExplained
PROPERTY Blinks
\* The kernel stops at an oops, and an unloaded module stays away.
CHECK_DEADLOCK FALSE
