SPECIFICATION EitherSpec
CONSTANTS
  capacity = 2
  Value = {v1, v2}
  Req = {r1, r2}
  None = None
PROPERTY RefinesDisk
PROPERTY RefinesDisk26
INVARIANT Undivided
PROPERTY EitherServed
