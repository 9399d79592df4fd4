\* Two requests; start() and stop() by one thread, signals and aborts by
\* others; inference in a child process or in this one.
SPECIFICATION SwapSpec
CONSTANTS
  Callers = {main}
  MainThread = main
  Runs = {r1}
  NoRun = NoRun
  HostGc = TRUE
  ClockLock = FALSE
  Inference = {"child", "in-process"}
  Requests = {q1, q2}
  NoRequest = NoRequest
SYMMETRY Symmetry
INVARIANTS
  SwapInv
  StoppedResolvesAll
PROPERTIES
  DoneIsApplied
  LifecycleSpec
