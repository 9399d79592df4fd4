-------------------------- MODULE EngineLifecycle --------------------------
(***************************************************************************)
(* The life cycle of RealtimeEngine (src/audio/engine.py): start(), stop() *)
(* and its teardown, the engine thread from its cold-start preamble to the *)
(* end of its chunk loop, the two helper threads the preamble spawns, the  *)
(* SIGTERM/SIGINT handler, and the host state a run borrows and must give  *)
(* back: the garbage collector, the signal handlers, the GPU clock lock,   *)
(* the inference child process and the cached ONNX sessions.               *)
(*                                                                         *)
(* A run is named by the identity of its engine thread.  The identity of a *)
(* run of which nothing is left may be used again, so a finite set Runs    *)
(* does not bound the number of start/stop cycles, only how many runs can  *)
(* have threads or children alive at the same time.                        *)
(*                                                                         *)
(* A definition that no other one uses, just before the one it varies, is  *)
(* a plausible bug that the properties below must be able to see.          *)
(***************************************************************************)
EXTENDS Naturals

CONSTANTS Callers,      \* threads that call start() and stop()
          MainThread,   \* the one on which Python delivers signals
          Runs,         \* identities of engine threads
          NoRun,        \* the value None of a thread or client handle
          HostGc,       \* is the garbage collector on in the host program
          ClockLock,    \* may a configuration ask for the GPU clock lock
          Inference     \* where inference may be configured to run

ASSUME MainThreadAssumption == MainThread \in Callers
ASSUME NoRunAssumption == NoRun \notin Runs
ASSUME ConfigAssumption == /\ HostGc \in BOOLEAN /\ ClockLock \in BOOLEAN
                           /\ Inference \subseteq {"child", "in-process"}

(***************************************************************************)
(* The helper threads of the preamble: the owner of the monitor stream and *)
(* the preloader of swap targets.                                          *)
(***************************************************************************)
Kinds == {"monitor", "preloader"}

VARIABLES
  lockHeld,        \* _lifecycle_lock
  stopEvent,       \* _stop_event
  stopped,         \* _stopped
  thread,          \* _thread
  running,         \* stats.running
  crashed,         \* stats.crashed
  gcEnabled,       \* gc.isenabled()
  gcSaved,         \* _gc_was_enabled_before_start
  handler,         \* who handles SIGTERM/SIGINT now
  prior,           \* _prior_signal_handlers
  signalReceived,  \* _signal_received
  clocks,          \* of the GPU: free, locked, or locked by a call that failed
  clockActive,     \* stats.gpu_clock_lock_active
  revertFailed,    \* stats.gpu_clock_lock_revert_failed
  client,          \* _inf_client, by the run that made it
  children,        \* runs whose inference child process is alive
  pool,            \* _rvc_pool (or _cv/_rmvpe/_rvc) holds sessions
  worker,          \* where each run's engine thread is
  helper,          \* where each run's helper threads are
  handle,          \* _monitor_thread and _swap_preload_thread
  pc,              \* where each caller is
  forStart         \* the teardown under way was begun by start()

controlVars == <<lockHeld, stopEvent, stopped, thread>>
statVars    == <<running, crashed>>
gcVars      == <<gcEnabled, gcSaved>>
signalVars  == <<handler, prior, signalReceived>>
clockVars   == <<clocks, clockActive, revertFailed>>
modelVars   == <<client, children, pool>>
helperVars  == <<helper, handle>>
callVars    == <<pc, forStart>>
vars == <<controlVars, statVars, gcVars, signalVars, clockVars, modelVars,
          worker, helperVars, callVars>>

TeardownPcs == {"tdEvent", "tdFail", "tdWorker", "tdMonitor", "tdPreloader",
                "tdClient", "tdRelease", "tdFinish"}
LockedPcs   == TeardownPcs \cup {"clear", "spawn"}
PreamblePcs == {"preClock", "preModel", "preThreads"}
WorkerPcs   == PreamblePcs \cup
               {"dead", "spawned", "warmupFailed", "ready", "entering", "loop",
                "chunk", "hung", "restarting", "failing", "crashing", "flushing", "closing",
                "wedged", "resolving", "ending"}

FlagsTyped ==
  /\ lockHeld \in BOOLEAN /\ stopEvent \in BOOLEAN /\ stopped \in BOOLEAN
  /\ running \in BOOLEAN /\ crashed \in BOOLEAN
  /\ gcEnabled \in BOOLEAN /\ gcSaved \in BOOLEAN
  /\ signalReceived \in BOOLEAN
  /\ clocks \in {"free", "locked", "stray"} /\ clockActive \in BOOLEAN
  /\ revertFailed \in BOOLEAN
  /\ pool \in BOOLEAN
  /\ forStart \in BOOLEAN

ThreadsTyped ==
  /\ thread \in Runs \cup {NoRun}
  /\ handler \in {"host", "engine", "default"}
  /\ prior \in {"none", "host", "engine", "default"}
  /\ client \in Runs \cup {NoRun}
  /\ children \subseteq Runs
  /\ worker \in [Runs -> WorkerPcs]
  /\ helper \in [Kinds -> [Runs -> {"none", "poll", "busy"}]]
  /\ handle \in [Kinds -> Runs \cup {NoRun}]
  /\ pc \in [Callers -> LockedPcs \cup {"idle", "start", "stop"}]

TypeOK == FlagsTyped /\ ThreadsTyped

Init ==
  /\ lockHeld = FALSE /\ stopEvent = FALSE /\ stopped = FALSE
  /\ thread = NoRun
  /\ running = FALSE /\ crashed = FALSE
  /\ gcEnabled = HostGc /\ gcSaved = FALSE
  /\ handler = "host" /\ prior = "none" /\ signalReceived = FALSE
  /\ clocks = "free" /\ clockActive = FALSE /\ revertFailed = FALSE
  /\ client = NoRun /\ children = {} /\ pool = FALSE
  /\ worker = [r \in Runs |-> "dead"]
  /\ helper = [k \in Kinds |-> [r \in Runs |-> "none"]]
  /\ handle = [k \in Kinds |-> NoRun]
  /\ pc = [c \in Callers |-> "idle"]
  /\ forStart = FALSE

(***************************************************************************)
(* Thread.is_alive() of the current engine thread.                         *)
(***************************************************************************)
ThreadAliveInLoopOnly == thread # NoRun /\ worker[thread] \in {"loop", "chunk"}
ThreadAlive == thread # NoRun /\ worker[thread] # "dead"

Goto(c, label) == pc' = [pc EXCEPT ![c] = label]
WorkerGoto(r, label) == worker' = [worker EXCEPT ![r] = label]

(***************************************************************************)
(* start().  A caller waits for the lock, then takes one of three ways.    *)
(***************************************************************************)
CallStart(c) ==
  /\ pc[c] = "idle"
  /\ Goto(c, "start")
  /\ UNCHANGED <<controlVars, statVars, gcVars, signalVars, clockVars,
                 modelVars, worker, helperVars, forStart>>

\* The previous engine thread is still alive: return at once.
StartReturnsEarly(c) ==
  /\ pc[c] = "start" /\ ~lockHeld
  /\ ThreadAlive
  /\ Goto(c, "idle")
  /\ UNCHANGED <<controlVars, statVars, gcVars, signalVars, clockVars,
                 modelVars, worker, helperVars, forStart>>

\* The previous run ended without stop(): its teardown has to come first.
NeverStale == FALSE
StaleRun == thread # NoRun /\ ~stopped

StartTearsDown(c) ==
  /\ pc[c] = "start" /\ ~lockHeld
  /\ ~ThreadAlive /\ StaleRun
  /\ lockHeld' = TRUE
  /\ Goto(c, "tdEvent")
  /\ forStart' = TRUE
  /\ UNCHANGED <<stopEvent, stopped, thread, statVars, gcVars, signalVars,
                 clockVars, modelVars, worker, helperVars>>

StartDirectly(c) ==
  /\ pc[c] = "start" /\ ~lockHeld
  /\ ~ThreadAlive /\ ~StaleRun
  /\ lockHeld' = TRUE
  /\ Goto(c, "clear")
  /\ UNCHANGED <<stopEvent, stopped, thread, statVars, gcVars, signalVars,
                 clockVars, modelVars, worker, helperVars, forStart>>

\* The bound on Runs: a new run waits, before it clears the event, until an
\* earlier one of the same identity has left nothing behind.
FreeRuns == {r \in Runs : /\ worker[r] = "dead" /\ r \notin children
                          /\ \A k \in Kinds : helper[k][r] = "none"}

StartClear(c) ==
  /\ pc[c] = "clear" /\ FreeRuns # {}
  /\ stopEvent' = FALSE
  /\ stopped' = FALSE
  /\ running' = FALSE           \* _reset_session_stats()
  /\ crashed' = FALSE
  /\ signalReceived' = FALSE
  /\ Goto(c, "spawn")
  /\ UNCHANGED <<lockHeld, thread, gcVars, handler, prior, clockVars,
                 modelVars, worker, helperVars, forStart>>

(***************************************************************************)
(* _install_signal_handlers(): on the main thread only, and a handler of   *)
(* our own that is still in place is never saved as the one to restore.    *)
(***************************************************************************)
InstallSavingAny(c) ==
  IF c # MainThread THEN UNCHANGED <<handler, prior>>
  ELSE /\ handler' = "engine"
       /\ prior' = handler
InstallHandlers(c) ==
  IF c # MainThread THEN UNCHANGED <<handler, prior>>
  ELSE /\ handler' = "engine"
       /\ prior' = IF handler = "engine" THEN prior ELSE handler

StartSpawn(c) ==
  /\ pc[c] = "spawn"
  /\ gcSaved' = gcEnabled
  /\ gcEnabled' = FALSE
  /\ InstallHandlers(c)
  /\ running' = TRUE
  /\ \E r \in FreeRuns : thread' = r /\ WorkerGoto(r, "spawned")
  /\ lockHeld' = FALSE
  /\ Goto(c, "idle")
  /\ UNCHANGED <<stopEvent, stopped, crashed, signalReceived,
                 clockVars, modelVars, helperVars, forStart>>

(***************************************************************************)
(* stop() and _teardown_locked(), which start() runs as well for a run     *)
(* that ended by itself.                                                   *)
(***************************************************************************)
CallStop(c) ==
  /\ pc[c] = "idle"
  /\ Goto(c, "stop")
  /\ UNCHANGED <<controlVars, statVars, gcVars, signalVars, clockVars,
                 modelVars, worker, helperVars, forStart>>

StopReturnsEarly(c) ==
  /\ pc[c] = "stop" /\ ~lockHeld
  /\ stopped
  /\ Goto(c, "idle")
  /\ UNCHANGED <<controlVars, statVars, gcVars, signalVars, clockVars,
                 modelVars, worker, helperVars, forStart>>

StopTearsDown(c) ==
  /\ pc[c] = "stop" /\ ~lockHeld
  /\ ~stopped
  /\ lockHeld' = TRUE
  /\ Goto(c, "tdEvent")
  /\ forStart' = FALSE
  /\ UNCHANGED <<stopEvent, stopped, thread, statVars, gcVars, signalVars,
                 clockVars, modelVars, worker, helperVars>>

TeardownWithoutEvent(c) ==
  /\ pc[c] = "tdEvent"
  /\ Goto(c, "tdFail")
  /\ UNCHANGED <<controlVars, statVars, gcVars, signalVars,
                 clockVars, modelVars, worker, helperVars, forStart>>
TeardownEvent(c) ==
  /\ pc[c] = "tdEvent"
  /\ stopEvent' = TRUE
  /\ Goto(c, "tdFail")
  /\ UNCHANGED <<lockHeld, stopped, thread, statVars, gcVars, signalVars,
                 clockVars, modelVars, worker, helperVars, forStart>>

\* _fail_pending_swaps(); the requests it resolves are in module ModelSwap.
TeardownFail(c) ==
  /\ pc[c] = "tdFail"
  /\ Goto(c, "tdWorker")
  /\ UNCHANGED <<controlVars, statVars, gcVars, signalVars, clockVars,
                 modelVars, worker, helperVars, forStart>>

\* The join of the engine thread gives up after its timeout, so the caller
\* goes on wherever that thread is: in a device call, in its own slow
\* cleanup, or waiting for the very lock this caller holds.
TeardownJoinWorker(c) ==
  /\ pc[c] = "tdWorker"
  /\ running' = FALSE
  /\ Goto(c, "tdMonitor")
  /\ UNCHANGED <<controlVars, crashed, gcVars, signalVars, clockVars,
                 modelVars, worker, helperVars, forStart>>

\* A helper that polls _stop_event is gone well within the join's 1 s; only
\* one that is blocked in a device write or in loading a model outlives it.
Joined(k) ==
  handle[k] # NoRun => helper[k][handle[k]] \in {"none", "busy"}

TeardownJoinMonitor(c) ==
  /\ pc[c] = "tdMonitor" /\ Joined("monitor")
  /\ handle' = [handle EXCEPT !["monitor"] = NoRun]
  /\ Goto(c, "tdPreloader")
  /\ UNCHANGED <<controlVars, statVars, gcVars, signalVars, clockVars,
                 modelVars, worker, helper, forStart>>

TeardownJoinPreloader(c) ==
  /\ pc[c] = "tdPreloader" /\ Joined("preloader")
  /\ handle' = [handle EXCEPT !["preloader"] = NoRun]
  /\ Goto(c, "tdClient")
  /\ UNCHANGED <<controlVars, statVars, gcVars, signalVars, clockVars,
                 modelVars, worker, helper, forStart>>

(***************************************************************************)
(* InferenceClient.stop().  While the engine thread is restarting the      *)
(* child there may be no handle yet, and then nothing is stopped.          *)
(***************************************************************************)
TeardownStopClient(c) ==
  /\ pc[c] = "tdClient"
  /\ \/ children' = children \ {client}
     \/ client # NoRun /\ worker[client] = "restarting" /\ UNCHANGED children
  /\ Goto(c, "tdRelease")
  /\ UNCHANGED <<controlVars, statVars, gcVars, signalVars, clockVars, client,
                 pool, worker, helperVars, forStart>>

\* A child ends when nobody refers to its client any more, because then the
\* pipes to it are closed.  The engine thread does while it is in a call.
InClientCall == {r \in Runs : worker[r] \in {"chunk", "hung", "restarting"}}

(***************************************************************************)
(* nvidia-smi -rgc at teardown; what the flags remember when it fails.  A  *)
(* call that fails, or is given up, may have taken effect all the same.    *)
(***************************************************************************)
RevertForgetsFailure ==
  IF ~clockActive THEN UNCHANGED clockVars
  ELSE /\ clockActive' = FALSE
       /\ UNCHANGED revertFailed
       /\ clocks' \in {"free", clocks}
RevertGpuClock ==
  IF ~clockActive THEN UNCHANGED clockVars
  ELSE \/ clocks' = "free" /\ clockActive' = FALSE /\ revertFailed' = FALSE
       \/ revertFailed' = TRUE /\ clocks' \in {"free", clocks} /\ UNCHANGED clockActive

TeardownRelease(c) ==
  /\ pc[c] = "tdRelease"
  /\ client' = NoRun
  /\ children' = children \cap InClientCall
  /\ pool' = FALSE
  /\ gcEnabled' = (gcEnabled \/ gcSaved)
  /\ gcSaved' = FALSE
  /\ RevertGpuClock
  /\ Goto(c, "tdFinish")
  /\ UNCHANGED <<controlVars, statVars, signalVars, worker,
                 helperVars, forStart>>

\* _restore_prior_signal_handlers() puts back what was saved, if anything.
RestoredHandler == IF prior = "none" THEN handler ELSE prior

TeardownFinish(c) ==
  /\ pc[c] = "tdFinish"
  /\ IF c = MainThread THEN handler' = RestoredHandler /\ prior' = "none"
                       ELSE UNCHANGED <<handler, prior>>
  /\ stopped' = TRUE
  /\ lockHeld' = forStart
  /\ Goto(c, IF forStart THEN "clear" ELSE "idle")
  /\ forStart' = FALSE
  /\ UNCHANGED <<stopEvent, thread, statVars, gcVars, signalReceived,
                 clockVars, modelVars, worker, helperVars>>

CallerStep(c) ==
  \/ StartReturnsEarly(c) \/ StartTearsDown(c) \/ StartDirectly(c)
  \/ StartClear(c) \/ StartSpawn(c)
  \/ StopReturnsEarly(c) \/ StopTearsDown(c)
  \/ TeardownEvent(c) \/ TeardownFail(c) \/ TeardownJoinWorker(c)
  \/ TeardownJoinMonitor(c) \/ TeardownJoinPreloader(c)
  \/ TeardownStopClient(c) \/ TeardownRelease(c) \/ TeardownFinish(c)

(***************************************************************************)
(* _worker_main(): the preamble runs under the lock, after a second look   *)
(* at _stop_event for a stop() that got the lock first.                    *)
(***************************************************************************)
StopNeverSeen == FALSE
StopBeatWorker == stopEvent

WorkerBail(r) ==
  /\ worker[r] = "spawned" /\ ~lockHeld
  /\ StopBeatWorker
  /\ running' = FALSE
  /\ WorkerGoto(r, "ending")
  /\ UNCHANGED <<controlVars, crashed, gcVars, signalVars, clockVars,
                 modelVars, helperVars, callVars>>

WorkerEnterPreamble(r) ==
  /\ worker[r] = "spawned" /\ ~lockHeld
  /\ ~StopBeatWorker
  /\ lockHeld' = TRUE
  /\ WorkerGoto(r, "preClock")
  /\ UNCHANGED <<stopEvent, stopped, thread, statVars, gcVars,
                 signalVars, clockVars, modelVars, helperVars, callVars>>

\* An exception in the preamble releases the lock before it is recorded.
FailWarmup(r) ==
  /\ lockHeld' = FALSE
  /\ WorkerGoto(r, "warmupFailed")

\* nvidia-smi -rgc first, if it failed at an earlier stop; then -lgc, which
\* locks the clocks, or fails and ends the start.  One that is given up after
\* its time, or reports an error, may have locked them; no flag says so.
PreambleClock(r) ==
  /\ worker[r] = "preClock"
  /\ \/ WorkerGoto(r, "preModel") /\ UNCHANGED <<lockHeld, clockVars>>
     \/ /\ ClockLock
        /\ WorkerGoto(r, "preModel")
        /\ clocks' = "locked" /\ clockActive' = TRUE
        /\ revertFailed' \in {FALSE, revertFailed}
        /\ UNCHANGED lockHeld
     \/ /\ ClockLock
        /\ FailWarmup(r)
        /\ revertFailed' \in {FALSE, revertFailed}
        /\ \/ revertFailed /\ clocks' = "free"
           \/ (revertFailed => revertFailed') /\ UNCHANGED clocks
           \/ clocks' = "stray"
        /\ UNCHANGED clockActive
  /\ UNCHANGED <<stopEvent, stopped, thread, statVars, gcVars, signalVars,
                 modelVars, helperVars, callVars>>

\* Either the inference child process or the sessions of this process.
PreambleModel(r) ==
  /\ worker[r] = "preModel"
  /\ \/ /\ "child" \in Inference
        /\ client' = r /\ children' = children \cup {r} /\ UNCHANGED pool
     \/ /\ "in-process" \in Inference
        /\ pool' = TRUE /\ UNCHANGED <<client, children>>
  /\ WorkerGoto(r, "preThreads")
  /\ UNCHANGED <<controlVars, statVars, gcVars, signalVars, clockVars,
                 helperVars, callVars>>

\* The client is assigned before its start() fails; sessions may be loaded
\* before the warm-up of the pipeline fails.
PreambleModelFails(r) ==
  /\ worker[r] = "preModel"
  /\ \/ "child" \in Inference /\ client' = r /\ UNCHANGED pool
     \/ "in-process" \in Inference /\ pool' = TRUE /\ UNCHANGED client
     \/ "in-process" \in Inference /\ UNCHANGED <<client, pool>>
  /\ UNCHANGED children
  /\ FailWarmup(r)
  /\ UNCHANGED <<stopEvent, stopped, thread, statVars, gcVars, signalVars,
                 clockVars, helperVars, callVars>>

PreambleThreads(r) ==
  /\ worker[r] = "preThreads"
  /\ helper' = [k \in Kinds |-> [helper[k] EXCEPT ![r] = "poll"]]
  /\ handle' = [k \in Kinds |-> r]
  /\ lockHeld' = FALSE
  /\ WorkerGoto(r, "ready")
  /\ UNCHANGED <<stopEvent, stopped, thread, statVars, gcVars, signalVars,
                 clockVars, modelVars, callVars>>

WarmupFailed(r) ==
  /\ worker[r] = "warmupFailed"
  /\ crashed' = TRUE /\ running' = FALSE
  /\ WorkerGoto(r, "ending")
  /\ UNCHANGED <<controlVars, gcVars, signalVars, clockVars, modelVars,
                 helperVars, callVars>>

WarmupDone(r) ==
  /\ worker[r] = "ready"
  /\ WorkerGoto(r, "entering")
  /\ UNCHANGED <<controlVars, statVars, gcVars, signalVars, clockVars,
                 modelVars, helperVars, callVars>>

(***************************************************************************)
(* _run_loop().  What precedes its try block (importing sounddevice,       *)
(* building the resamplers) can raise as well, and nothing catches that;   *)
(* opening the player or the microphone raises inside the try block.       *)
(***************************************************************************)
EnterLoop(r) ==
  /\ worker[r] = "entering"
  /\ \E next \in {"loop", "failing", "ending"} : WorkerGoto(r, next)
  /\ UNCHANGED <<controlVars, statVars, gcVars, signalVars, clockVars,
                 modelVars, helperVars, callVars>>

LoopIgnoresEvent(r) ==
  /\ worker[r] = "loop"
  /\ WorkerGoto(r, "chunk")
  /\ UNCHANGED <<controlVars, statVars, gcVars, signalVars, clockVars,
                 modelVars, helperVars, callVars>>
LoopCheck(r) ==
  /\ worker[r] = "loop"
  /\ WorkerGoto(r, IF stopEvent THEN "flushing" ELSE "chunk")
  /\ UNCHANGED <<controlVars, statVars, gcVars, signalVars, clockVars,
                 modelVars, helperVars, callVars>>

\* Applying a swap (module ModelSwap) loads a session into this process,
\* unless an inference client is there to do it.
ChunkLoads(r) ==
  /\ worker[r] = "chunk" /\ client = NoRun
  /\ pool' = TRUE
  /\ UNCHANGED <<controlVars, statVars, gcVars, signalVars, clockVars, client,
                 children, worker, helperVars, callVars>>

ClientNeverLetGo(r) == UNCHANGED children
ClientLetGo(r) == children' = IF client = r THEN children ELSE children \ {r}

ChunkDone(r) ==
  /\ worker[r] = "chunk"
  /\ ClientLetGo(r)
  /\ WorkerGoto(r, "loop")
  /\ UNCHANGED <<controlVars, statVars, gcVars, signalVars, clockVars, client,
                 pool, helperVars, callVars>>

ChunkRaises(r) ==
  /\ worker[r] = "chunk"
  /\ ClientLetGo(r)
  /\ WorkerGoto(r, "failing")
  /\ UNCHANGED <<controlVars, statVars, gcVars, signalVars, clockVars, client,
                 pool, helperVars, callVars>>

(***************************************************************************)
(* _infer() takes any failure of the child, also one it owes to stop(),    *)
(* for a reason to restart it: the old process is ended and a new one      *)
(* spawned, which takes up to 30 s and holds no lock.  Then it tries once  *)
(* more, unless stop() has dropped the client meanwhile.                   *)
(***************************************************************************)
RestartChild(r) ==
  /\ worker[r] = "chunk" /\ client # NoRun
  /\ children' = children \cup {r}
  /\ WorkerGoto(r, "restarting")
  /\ UNCHANGED <<controlVars, statVars, gcVars, signalVars, clockVars, client,
                 pool, helperVars, callVars>>

RestartEnds(r) ==
  /\ worker[r] = "restarting"
  /\ \/ ClientLetGo(r)
     \/ children' = children \ {r}
  /\ WorkerGoto(r, "loop")
  /\ UNCHANGED <<controlVars, statVars, gcVars, signalVars, clockVars, client,
                 pool, helperVars, callVars>>

\* infer() waits for its answer without a timeout: a child that hangs keeps
\* the engine thread until it answers or is ended, as stop() does.
InferHangs(r) ==
  /\ worker[r] \in {"chunk", "restarting"} /\ client # NoRun /\ r \in children
  /\ WorkerGoto(r, "hung")
  /\ UNCHANGED <<controlVars, statVars, gcVars, signalVars, clockVars,
                 modelVars, helperVars, callVars>>

InferAnswered(r) ==
  /\ worker[r] = "hung"
  /\ ClientLetGo(r)
  /\ WorkerGoto(r, "loop")
  /\ UNCHANGED <<controlVars, statVars, gcVars, signalVars, clockVars, client,
                 pool, helperVars, callVars>>

\* The pipe breaks: restart the child, or drop the chunk.
InferBroken(r) ==
  /\ worker[r] = "hung" /\ r \notin children
  /\ \/ client # NoRun /\ children' = children \cup {r} /\ WorkerGoto(r, "restarting")
     \/ ClientLetGo(r) /\ WorkerGoto(r, "loop")
  /\ UNCHANGED <<controlVars, statVars, gcVars, signalVars, clockVars, client,
                 pool, helperVars, callVars>>

LoopFailing(r) ==
  /\ worker[r] = "failing"
  /\ running' = FALSE
  /\ WorkerGoto(r, "crashing")
  /\ UNCHANGED <<controlVars, crashed, gcVars, signalVars, clockVars,
                 modelVars, helperVars, callVars>>

LoopCrashing(r) ==
  /\ worker[r] = "crashing"
  /\ crashed' = TRUE
  /\ WorkerGoto(r, "flushing")
  /\ UNCHANGED <<controlVars, running, gcVars, signalVars, clockVars,
                 modelVars, helperVars, callVars>>

LoopFlush(r) ==
  /\ worker[r] = "flushing"
  /\ stopEvent' = TRUE
  /\ WorkerGoto(r, "closing")
  /\ UNCHANGED <<lockHeld, stopped, thread, statVars, gcVars, signalVars,
                 clockVars, modelVars, helperVars, callVars>>

\* Closing the player and joining the playback threads: module Playback.
LoopClose(r) ==
  /\ worker[r] = "closing"
  /\ WorkerGoto(r, "resolving")
  /\ UNCHANGED <<controlVars, statVars, gcVars, signalVars, clockVars,
                 modelVars, helperVars, callVars>>

\* Closing the helper's stdin waits for a writer that is blocked in writing
\* to it: until the helper reads on or dies, maybe for ever.
CloseBlocks(r) ==
  /\ worker[r] = "closing"
  /\ WorkerGoto(r, "wedged")
  /\ UNCHANGED <<controlVars, statVars, gcVars, signalVars, clockVars,
                 modelVars, helperVars, callVars>>
CloseGoesOn(r) ==
  /\ worker[r] = "wedged"
  /\ WorkerGoto(r, "resolving")
  /\ UNCHANGED <<controlVars, statVars, gcVars, signalVars, clockVars,
                 modelVars, helperVars, callVars>>

RunningAsBefore == running
RunningAtLoopEnd == running /\ ~crashed
LoopResolve(r) ==
  /\ worker[r] = "resolving"
  /\ running' = RunningAtLoopEnd
  /\ WorkerGoto(r, "ending")
  /\ UNCHANGED <<controlVars, crashed, gcVars, signalVars, clockVars,
                 modelVars, helperVars, callVars>>

WorkerEnds(r) ==
  /\ worker[r] = "ending"
  /\ WorkerGoto(r, "dead")
  /\ UNCHANGED <<controlVars, statVars, gcVars, signalVars, clockVars,
                 modelVars, helperVars, callVars>>

WorkerStep(r) ==
  \/ WorkerBail(r) \/ WorkerEnterPreamble(r)
  \/ PreambleClock(r) \/ PreambleModel(r) \/ PreambleModelFails(r)
  \/ PreambleThreads(r) \/ WarmupFailed(r) \/ WarmupDone(r)
  \/ EnterLoop(r) \/ LoopCheck(r) \/ ChunkDone(r) \/ ChunkRaises(r)
  \/ RestartChild(r) \/ RestartEnds(r) \/ InferBroken(r)
  \/ LoopFailing(r) \/ LoopCrashing(r) \/ LoopFlush(r) \/ LoopClose(r)
  \/ LoopResolve(r) \/ WorkerEnds(r)

\* What a process outside the engine does: it answers late, or not at all.
Waits(r) == InferHangs(r) \/ CloseBlocks(r)
Relieved(r) == InferAnswered(r) \/ CloseGoesOn(r)

\* _self_abort(): the engine thread (50 failed chunks, a failed subprocess
\* swap) or its player watchdog (respawn cap) stops the engine.
SelfAbort(r) ==
  /\ worker[r] \in {"loop", "chunk", "hung", "restarting", "failing", "crashing",
                  "flushing", "closing", "wedged"}
  /\ crashed' = TRUE
  /\ stopEvent' = TRUE
  /\ UNCHANGED <<lockHeld, stopped, thread, running, gcVars, signalVars,
                 clockVars, modelVars, worker, helperVars, callVars>>

(***************************************************************************)
(* _monitor_writer_loop() and _swap_preloader_loop() look at _stop_event,  *)
(* wait a moment for an item and block on it.  A helper that was waiting   *)
(* when the event was set may still take one item first.                   *)
(***************************************************************************)
HelperGoto(k, r, label) == helper' = [helper EXCEPT ![k][r] = label]

HelperStops(k, r) ==
  /\ helper[k][r] = "poll"
  /\ stopEvent
  /\ HelperGoto(k, r, "none")
  /\ UNCHANGED <<controlVars, statVars, gcVars, signalVars, clockVars,
                 modelVars, worker, handle, callVars>>

HelperTakes(k, r) ==
  /\ helper[k][r] = "poll"
  /\ HelperGoto(k, r, "busy")
  /\ UNCHANGED <<controlVars, statVars, gcVars, signalVars, clockVars,
                 modelVars, worker, handle, callVars>>

\* The preloader's get_or_create() caches the session unless loading fails.
HelperDone(k, r) ==
  /\ helper[k][r] = "busy"
  /\ HelperGoto(k, r, "poll")
  /\ \/ UNCHANGED pool
     \/ k = "preloader" /\ pool' = TRUE
  /\ UNCHANGED <<controlVars, statVars, gcVars, signalVars, clockVars, client,
                 children, worker, handle, callVars>>

HelperStep(k, r) == HelperStops(k, r) \/ HelperTakes(k, r) \/ HelperDone(k, r)

(***************************************************************************)
(* _signal_handler_revert_lock(), on the main thread at any moment.        *)
(***************************************************************************)
FirstSignal ==
  /\ handler = "engine" /\ ~signalReceived
  /\ signalReceived' = TRUE
  /\ stopEvent' = TRUE
  /\ handler' = IF RestoredHandler = "engine" THEN "default" ELSE RestoredHandler
  /\ prior' = "none"
  /\ UNCHANGED <<lockHeld, stopped, thread, statVars, gcVars, clockVars,
                 modelVars, worker, helperVars, callVars>>

SignalAgain ==
  /\ handler = "engine" /\ signalReceived
  /\ handler' = "default"
  /\ UNCHANGED <<controlVars, statVars, gcVars, prior, signalReceived,
                 clockVars, modelVars, worker, helperVars, callVars>>

Next ==
  \/ \E c \in Callers : CallStart(c) \/ CallStop(c) \/ CallerStep(c)
  \/ \E r \in Runs : WorkerStep(r) \/ Waits(r) \/ Relieved(r) \/ ChunkLoads(r) \/ SelfAbort(r)
  \/ \E k \in Kinds, r \in Runs : HelperStep(k, r)
  \/ FirstSignal
  \/ SignalAgain

Spec == Init /\ [][Next]_vars

(***************************************************************************)
(* Every thread that can take a step takes one.  A thread that waits for   *)
(* the lock gets it if it is free again and again: the other contenders    *)
(* are key presses and socket commands, not loops.  Nobody is obliged to   *)
(* call start() or stop(), to send a signal, or to abort; and nothing      *)
(* obliges a child to answer an inference, or a helper to read its stdin.  *)
(***************************************************************************)
Fairness ==
  /\ \A c \in Callers : SF_vars(CallerStep(c))
  /\ \A r \in Runs : SF_vars(WorkerStep(r))
  /\ \A k \in Kinds, r \in Runs :
       SF_vars(HelperStops(k, r)) /\ WF_vars(HelperDone(k, r))

FairSpec == Spec /\ Fairness
(***************************************************************************)
(* Safety.                                                                 *)
(***************************************************************************)

\* At most one engine thread lives, and it is the one _thread names: a
\* start() never leaves an older thread behind that a cleared _stop_event
\* would let run on.
OneWorker == \A r \in Runs : worker[r] # "dead" => r = thread

\* Once stop() has completed and until the next start(), nothing reports the
\* engine as running and no inference child is left, even if the join of the
\* engine thread timed out and that thread goes on by itself: but for a child
\* which that very thread is in the middle of calling or of restarting.
StoppedIsReleased ==
  stopped => ~running /\ client = NoRun /\ children \subseteq InClientCall

\* An inference child process that is alive is the one _inf_client stops, or
\* one whose client goes away with the call the engine thread is in.
ChildOwned == children \subseteq {client} \cup InClientCall

\* stop() gives the host its garbage collector back as it was before the
\* first of any number of runs, crashed ones included, and leaves the GPU
\* locked only where the flags make a later start() or stop() try again, or
\* where the -lgc that locked it was reported as failed.
HostRestored ==
  /\ stopped => gcEnabled = HostGc
  /\ stopped /\ clocks # "free" => IF clockActive THEN revertFailed ELSE clocks = "stray"

\* While the engine handles the signals there is somebody else's handler to
\* hand them on to, so the re-raise never lands in the engine again.
PriorIsSomeoneElses == handler = "engine" => prior \in {"host", "default"}

\* An engine thread that is past its cleanup after a crash or an abort is
\* not reported as running.
CrashIsNotRunning ==
  \A r \in Runs :
    thread = r /\ worker[r] \in {"ending", "dead"} /\ crashed => ~running

(***************************************************************************)
(* Liveness, under FairSpec.                                               *)
(***************************************************************************)

\* A run that was told to stop, by whomever, ends, unless it waits for ever
\* for an inference child that is alive and does not answer, or for a helper
\* that does not read.
WaitsOn(r) == worker[r] = "wedged" \/ (worker[r] = "hung" /\ r \in children)
StopEndsRun ==
  \A r \in Runs : (thread = r /\ stopEvent) ~> (worker[r] = "dead" \/ []WaitsOn(r))

\* start() and stop() return, whatever state the engine is in.
CallsReturn ==
  \A c \in Callers : (pc[c] \in {"start", "stop"}) ~> (pc[c] = "idle")

(***************************************************************************)
(* What comments and docstrings say and the code does not do.              *)
(***************************************************************************)

\* "start() returns promptly after spawning the worker thread": when it
\* returns without spawning one, the engine is running already.  (A thread
\* that is at its very last instructions is let pass.)
StartedOrRunning ==
  [][\A c \in Callers :
       StartReturnsEarly(c) => running \/ worker[thread] = "ending"]_vars

\* Uncaught exceptions of _run_loop set running=False, so an engine that
\* nobody told to stop does not report a dead thread as running.
RunningIsAlive ==
  \A r \in Runs : thread = r /\ worker[r] = "dead" /\ running => stopEvent

\* "tear down the inference subprocess after the engine thread has stopped
\* sending it work": a stopped engine has no inference child.
StoppedHasNoChild == stopped => children = {}

\* The monitor queue and the preload queue are each drained by one thread.
OneConsumer ==
  \A k \in Kinds, r, s \in Runs :
    ~stopEvent /\ helper[k][r] = "poll" /\ helper[k][s] = "poll" => r = s

\* stop() releases the ONNX sessions.
SessionsReleased == stopped => ~pool

\* "The lock is reverted automatically on engine.stop()", or the stop's -rgc
\* failed and the flags say so.
LockIsNoticed == stopped /\ clocks # "free" => clockActive
(***************************************************************************)
(* The inductive invariant behind the safety properties.                   *)
(***************************************************************************)

\* No run is under way: a complete teardown came last, or nothing at all.
NoRunUnderWay == \/ stopped
                 \/ thread = NoRun
                 \/ \E c \in Callers : pc[c] \in {"tdFinish", "clear", "spawn"}

NoClientYet == \E r \in Runs : worker[r] \in {"spawned", "preClock", "preModel"}

\* _lifecycle_lock excludes callers and preambles from one another.
LockExclusive ==
  /\ \A c \in Callers : pc[c] \in LockedPcs =>
       /\ lockHeld
       /\ \A d \in Callers : (pc[d] \in LockedPcs => c = d)
       /\ \A r \in Runs : worker[r] \notin PreamblePcs
  /\ \A r \in Runs : worker[r] \in PreamblePcs => lockHeld

\* The event stays set from the beginning of a teardown to the next start().
EventHolds ==
  /\ stopped => stopEvent
  /\ \A c \in Callers : pc[c] \in TeardownPcs \ {"tdEvent"} => stopEvent

\* What a start() past its checks, and a fresh engine thread, can count on.
FreshStart ==
  /\ thread = NoRun => ~running
  /\ \A c \in Callers :
       /\ (\/ pc[c] \in {"clear", "spawn"}
           \/ pc[c] \in TeardownPcs /\ forStart)
          => \A r \in Runs : worker[r] = "dead"
       /\ pc[c] \in {"tdMonitor", "tdPreloader", "tdClient", "tdRelease",
                    "tdFinish"} => ~running
       /\ pc[c] = "spawn" => ~stopped /\ ~crashed
  /\ \A r \in Runs :
       /\ worker[r] \in PreamblePcs => ~stopped
       /\ worker[r] \in PreamblePcs \cup {"spawned", "ready", "entering"} => ~crashed

\* Nothing of an earlier run is borrowed or alive when a new one begins.
NothingBorrowed ==
  /\ NoRunUnderWay => ~gcSaved
  /\ NoRunUnderWay \/ NoClientYet => client = NoRun

HostTracked ==
  /\ HostGc = (gcEnabled \/ gcSaved)
  /\ clocks = "locked" => clockActive
  /\ clocks # "free" /\ clockActive /\ (stopped \/ \E c \in Callers : pc[c] = "tdFinish")
       => revertFailed
  /\ prior # "engine"

ControlInv == LockExclusive /\ OneWorker /\ EventHolds /\ FreshStart
BorrowInv  == NothingBorrowed /\ ChildOwned /\ HostTracked /\ PriorIsSomeoneElses
ReportInv  == CrashIsNotRunning /\ (stopped => ~running)

\* Holds initially, is preserved by every step, and implies the invariants.
IndInv == TypeOK /\ ControlInv /\ BorrowInv /\ ReportInv
=============================================================================
