\* Fair scheduling; one caller, one run at a time; inference in a child,
\* the GPU clock lock at will, and a host program that runs with
\* its garbage collector off.
SPECIFICATION FairSpec
CONSTANTS
  Callers = {main}
  MainThread = main
  Runs = {r1}
  NoRun = NoRun
  HostGc = FALSE
  ClockLock = TRUE
  Inference = {"child"}
INVARIANT
  HostRestored
PROPERTIES
  StopEndsRun
  CallsReturn
