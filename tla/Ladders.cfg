SPECIFICATION LadderSpec
INVARIANT LeftExplained
INVARIANT StopsExplained
\* A module that was loaded and unloaded, or refused, is done.
CHECK_DEADLOCK FALSE
