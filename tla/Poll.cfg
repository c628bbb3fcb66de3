SPECIFICATION FairSpec
CONSTANTS
  N = 3
  Proc = {p1, p2}
  NonBlocking = {p2}
  MaxLen = 3
  MaxBytes = 4
INVARIANT NoLostWakeup
PROPERTY RefinesByteQueue
PROPERTY WriterSleepsWhenFull
PROPERTY ReaderServed
PROPERTY CallFinishes
