\* Two callers, two runs that may have threads at the same time, the
\* inference child process; the GPU clock lock is off.
SPECIFICATION Spec
CONSTANTS
  Callers = {main, bg}
  MainThread = main
  Runs = {r1, r2}
  NoRun = NoRun
  HostGc = TRUE
  ClockLock = FALSE
  Inference = {"child"}
VIEW SafetyView
SYMMETRY Symmetry
INVARIANTS
  IndInv
  OneWorker
  StoppedIsReleased
