\* One request, fair scheduling, the inference child.
SPECIFICATION SwapFairSpec
CONSTANTS
  Callers = {main}
  MainThread = main
  Runs = {r1}
  NoRun = NoRun
  HostGc = TRUE
  ClockLock = FALSE
  Inference = {"child"}
  Requests = {q1}
  NoRequest = NoRequest
PROPERTIES
  LoopAnswers
