SPECIFICATION Spec
CONSTANTS
  RX_BUF_LEN = 7
  MaxSize = 3
  Sizes = {2, 3}
  MaxFrames = 5
  MaxErrs = 1
INVARIANT LostOnlyAtEnd
INVARIANT EmptyMeansHandled
INVARIANT LeftOnlyIfSwallowed
PROPERTY RefinesFrameStream
\* The chip may have no frame left to receive.
CHECK_DEADLOCK FALSE
