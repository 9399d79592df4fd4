\* Two runs whose threads overlap, two helper processes.
SPECIFICATION Spec
CONSTANTS
  Runs = {r1, r2}
  Procs = {p1, p2}
  r1 = r1
  r2 = r2
  p1 = p1
  p2 = p2
  NoProc = NoProc
  QueueSize = 1
  RespawnCap = 1
  HelperMayStick = TRUE
SYMMETRY Symmetry
INVARIANT
  PlaybackInv
