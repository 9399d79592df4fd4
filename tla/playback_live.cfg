\* One run at a time, helpers that die but do not stick.
SPECIFICATION FairSpec
CONSTANTS
  Runs = {r1}
  Procs = {p1, p2}
  r1 = r1
  p1 = p1
  p2 = p2
  NoProc = NoProc
  QueueSize = 2
  RespawnCap = 2
  HelperMayStick = FALSE
PROPERTIES
  OnlyDeadReplaced
  RunsEnd
  NotSilent
  RespawnsEnd
