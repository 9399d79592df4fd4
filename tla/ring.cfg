\* A ring with room for three frames, less than a read of four; its indices wrap
\* after eight.  At most seven frames are on their way at once, which eight, of
\* two samples each, tell apart.
SPECIFICATION FairSpec
CONSTANTS
  Capacity = 4
  IndexSpan = 8
  Channels = 2
  ReadFrames = 4
  MaxWant = 2
  PipeSize = 8
  Positions = 16
  PartialReads = FALSE
INVARIANT
  RingInv
PROPERTIES
  FifoSpec
  QuietShutdown
  StdinIsTaken
CHECK_DEADLOCK FALSE
