\* A start, two restarts, the first child may hang, one answer may be late.
SPECIFICATION FairSpec
CONSTANTS
  MaxChildren = 3
  Voices = {rock, pop}
  FirstVoice = rock
  MaxUnread = 1
  Hanging = {1}
INVARIANTS
  IpcInv
  SwapsTakeHold
  CleanStop
PROPERTIES
  StopFreesEngine
  ChildrenEnd
CHECK_DEADLOCK FALSE
