----------------------- MODULE EngineLifecycleProofs -----------------------
(***************************************************************************)
(* Type correctness and the safety invariants of EngineLifecycle, for any  *)
(* number of callers and of engine threads and any configuration.  IndInv  *)
(* is shown to be inductive one group of its conjuncts at a time; each     *)
(* lemma has one step per action.                                          *)
(***************************************************************************)
EXTENDS EngineLifecycle, TLAPS

USE MainThreadAssumption, NoRunAssumption, ConfigAssumption
    DEF Kinds, TeardownPcs, LockedPcs, PreamblePcs, WorkerPcs

\* A constructed engine that was never started satisfies the invariant.
LEMMA InitEstablishes == Init => IndInv
  <1> SUFFICES ASSUME Init PROVE IndInv
    OBVIOUS
  <1> USE DEF Init
  <1>1. TypeOK
    BY DEF TypeOK, FlagsTyped, ThreadsTyped
  <1>2. ControlInv
    BY DEF ControlInv, LockExclusive, OneWorker, EventHolds, FreshStart
  <1>3. BorrowInv
    BY DEF BorrowInv, NothingBorrowed, NoRunUnderWay, NoClientYet, ChildOwned, InClientCall,
           HostTracked, PriorIsSomeoneElses
  <1>4. ReportInv
    BY DEF ReportInv, CrashIsNotRunning
  <1> QED
    BY <1>1, <1>2, <1>3, <1>4 DEF IndInv

\* The flags stay Boolean.
LEMMA FlagsPreserved == TypeOK /\ [Next]_vars => FlagsTyped'
  <1> SUFFICES ASSUME TypeOK, [Next]_vars PROVE FlagsTyped'
    OBVIOUS
  <1> USE DEF TypeOK, FlagsTyped, statVars, controlVars, gcVars, signalVars,
              clockVars, modelVars, helperVars, callVars
  <1>CallStart. ASSUME NEW c \in Callers, CallStart(c) PROVE FlagsTyped'
    BY <1>CallStart DEF CallStart, Goto
  <1>CallStop. ASSUME NEW c \in Callers, CallStop(c) PROVE FlagsTyped'
    BY <1>CallStop DEF CallStop, Goto
  <1>StartReturnsEarly. ASSUME NEW c \in Callers, StartReturnsEarly(c) PROVE FlagsTyped'
    BY <1>StartReturnsEarly DEF StartReturnsEarly, Goto, ThreadAlive
  <1>StartTearsDown. ASSUME NEW c \in Callers, StartTearsDown(c) PROVE FlagsTyped'
    BY <1>StartTearsDown DEF StartTearsDown, Goto, ThreadAlive, StaleRun
  <1>StartDirectly. ASSUME NEW c \in Callers, StartDirectly(c) PROVE FlagsTyped'
    BY <1>StartDirectly DEF StartDirectly, Goto, ThreadAlive, StaleRun
  <1>StartClear. ASSUME NEW c \in Callers, StartClear(c) PROVE FlagsTyped'
    BY <1>StartClear DEF StartClear, Goto, FreeRuns
  <1>StartSpawn. ASSUME NEW c \in Callers, StartSpawn(c) PROVE FlagsTyped'
    BY <1>StartSpawn DEF StartSpawn, Goto, WorkerGoto, InstallHandlers,
                         FreeRuns
  <1>StopReturnsEarly. ASSUME NEW c \in Callers, StopReturnsEarly(c) PROVE FlagsTyped'
    BY <1>StopReturnsEarly DEF StopReturnsEarly, Goto
  <1>StopTearsDown. ASSUME NEW c \in Callers, StopTearsDown(c) PROVE FlagsTyped'
    BY <1>StopTearsDown DEF StopTearsDown, Goto
  <1>TeardownEvent. ASSUME NEW c \in Callers, TeardownEvent(c) PROVE FlagsTyped'
    BY <1>TeardownEvent DEF TeardownEvent, Goto
  <1>TeardownFail. ASSUME NEW c \in Callers, TeardownFail(c) PROVE FlagsTyped'
    BY <1>TeardownFail DEF TeardownFail, Goto
  <1>TeardownJoinWorker. ASSUME NEW c \in Callers, TeardownJoinWorker(c) PROVE FlagsTyped'
    BY <1>TeardownJoinWorker DEF TeardownJoinWorker, Goto
  <1>TeardownJoinMonitor. ASSUME NEW c \in Callers, TeardownJoinMonitor(c) PROVE FlagsTyped'
    BY <1>TeardownJoinMonitor DEF TeardownJoinMonitor, Goto, Joined
  <1>TeardownJoinPreloader. ASSUME NEW c \in Callers, TeardownJoinPreloader(c) PROVE FlagsTyped'
    BY <1>TeardownJoinPreloader DEF TeardownJoinPreloader, Goto, Joined
  <1>TeardownStopClient. ASSUME NEW c \in Callers, TeardownStopClient(c) PROVE FlagsTyped'
    BY <1>TeardownStopClient DEF TeardownStopClient, Goto
  <1>TeardownRelease. ASSUME NEW c \in Callers, TeardownRelease(c) PROVE FlagsTyped'
    BY <1>TeardownRelease DEF TeardownRelease, Goto, RevertGpuClock,
                            InClientCall
  <1>TeardownFinish. ASSUME NEW c \in Callers, TeardownFinish(c) PROVE FlagsTyped'
    BY <1>TeardownFinish DEF TeardownFinish, Goto, RestoredHandler
  <1>WorkerBail. ASSUME NEW r \in Runs, WorkerBail(r) PROVE FlagsTyped'
    BY <1>WorkerBail DEF WorkerBail, WorkerGoto, StopBeatWorker
  <1>WorkerEnterPreamble. ASSUME NEW r \in Runs, WorkerEnterPreamble(r) PROVE FlagsTyped'
    BY <1>WorkerEnterPreamble DEF WorkerEnterPreamble, WorkerGoto,
                                  StopBeatWorker
  <1>PreambleClock. ASSUME NEW r \in Runs, PreambleClock(r) PROVE FlagsTyped'
    <2> USE <1>PreambleClock DEF PreambleClock, FailWarmup
    <2>1. lockHeld' \in BOOLEAN /\ clockActive' \in BOOLEAN
      OBVIOUS
    <2>2. clocks' \in {"free", "locked", "stray"} /\ revertFailed' \in BOOLEAN
      OBVIOUS
    <2> QED
      BY <2>1, <2>2
  <1>PreambleModel. ASSUME NEW r \in Runs, PreambleModel(r) PROVE FlagsTyped'
    <2>1. pool' \in BOOLEAN
      BY <1>PreambleModel DEF PreambleModel
    <2> QED
      BY <1>PreambleModel, <2>1 DEF PreambleModel, WorkerGoto
  <1>PreambleModelFails. ASSUME NEW r \in Runs, PreambleModelFails(r) PROVE FlagsTyped'
    <2>1. pool' \in BOOLEAN
      BY <1>PreambleModelFails DEF PreambleModelFails
    <2> QED
      BY <1>PreambleModelFails, <2>1 DEF PreambleModelFails, WorkerGoto, FailWarmup
  <1>PreambleThreads. ASSUME NEW r \in Runs, PreambleThreads(r) PROVE FlagsTyped'
    BY <1>PreambleThreads DEF PreambleThreads, WorkerGoto
  <1>WarmupFailed. ASSUME NEW r \in Runs, WarmupFailed(r) PROVE FlagsTyped'
    BY <1>WarmupFailed DEF WarmupFailed, WorkerGoto
  <1>WarmupDone. ASSUME NEW r \in Runs, WarmupDone(r) PROVE FlagsTyped'
    BY <1>WarmupDone DEF WarmupDone, WorkerGoto
  <1>EnterLoop. ASSUME NEW r \in Runs, EnterLoop(r) PROVE FlagsTyped'
    BY <1>EnterLoop DEF EnterLoop, WorkerGoto
  <1>LoopCheck. ASSUME NEW r \in Runs, LoopCheck(r) PROVE FlagsTyped'
    BY <1>LoopCheck DEF LoopCheck, WorkerGoto
  <1>ChunkLoads. ASSUME NEW r \in Runs, ChunkLoads(r) PROVE FlagsTyped'
    <2>1. pool' \in BOOLEAN
      BY <1>ChunkLoads DEF ChunkLoads
    <2> QED
      BY <1>ChunkLoads, <2>1 DEF ChunkLoads, WorkerGoto
  <1>ChunkDone. ASSUME NEW r \in Runs, ChunkDone(r) PROVE FlagsTyped'
    BY <1>ChunkDone DEF ChunkDone, ClientLetGo, WorkerGoto
  <1>ChunkRaises. ASSUME NEW r \in Runs, ChunkRaises(r) PROVE FlagsTyped'
    BY <1>ChunkRaises DEF ChunkRaises, ClientLetGo, WorkerGoto
  <1>RestartChild. ASSUME NEW r \in Runs, RestartChild(r) PROVE FlagsTyped'
    BY <1>RestartChild DEF RestartChild, WorkerGoto
  <1>RestartEnds. ASSUME NEW r \in Runs, RestartEnds(r) PROVE FlagsTyped'
    BY <1>RestartEnds DEF RestartEnds, ClientLetGo, WorkerGoto
  <1>InferHangs. ASSUME NEW r \in Runs, InferHangs(r) PROVE FlagsTyped'
    BY <1>InferHangs DEF InferHangs, WorkerGoto
  <1>InferAnswered. ASSUME NEW r \in Runs, InferAnswered(r) PROVE FlagsTyped'
    BY <1>InferAnswered DEF InferAnswered, ClientLetGo, WorkerGoto
  <1>InferBroken. ASSUME NEW r \in Runs, InferBroken(r) PROVE FlagsTyped'
    BY <1>InferBroken DEF InferBroken, ClientLetGo, WorkerGoto
  <1>CloseBlocks. ASSUME NEW r \in Runs, CloseBlocks(r) PROVE FlagsTyped'
    BY <1>CloseBlocks DEF CloseBlocks, WorkerGoto
  <1>CloseGoesOn. ASSUME NEW r \in Runs, CloseGoesOn(r) PROVE FlagsTyped'
    BY <1>CloseGoesOn DEF CloseGoesOn, WorkerGoto
  <1>LoopFailing. ASSUME NEW r \in Runs, LoopFailing(r) PROVE FlagsTyped'
    BY <1>LoopFailing DEF LoopFailing, WorkerGoto
  <1>LoopCrashing. ASSUME NEW r \in Runs, LoopCrashing(r) PROVE FlagsTyped'
    BY <1>LoopCrashing DEF LoopCrashing, WorkerGoto
  <1>LoopFlush. ASSUME NEW r \in Runs, LoopFlush(r) PROVE FlagsTyped'
    BY <1>LoopFlush DEF LoopFlush, WorkerGoto
  <1>LoopClose. ASSUME NEW r \in Runs, LoopClose(r) PROVE FlagsTyped'
    BY <1>LoopClose DEF LoopClose, WorkerGoto
  <1>LoopResolve. ASSUME NEW r \in Runs, LoopResolve(r) PROVE FlagsTyped'
    BY <1>LoopResolve DEF LoopResolve, WorkerGoto, RunningAtLoopEnd
  <1>WorkerEnds. ASSUME NEW r \in Runs, WorkerEnds(r) PROVE FlagsTyped'
    BY <1>WorkerEnds DEF WorkerEnds, WorkerGoto
  <1>SelfAbort. ASSUME NEW r \in Runs, SelfAbort(r) PROVE FlagsTyped'
    BY <1>SelfAbort DEF SelfAbort
  <1>HelperStops. ASSUME NEW k \in Kinds, NEW r \in Runs, HelperStops(k, r) PROVE FlagsTyped'
    BY <1>HelperStops DEF HelperStops, HelperGoto
  <1>HelperTakes. ASSUME NEW k \in Kinds, NEW r \in Runs, HelperTakes(k, r) PROVE FlagsTyped'
    BY <1>HelperTakes DEF HelperTakes, HelperGoto
  <1>HelperDone. ASSUME NEW k \in Kinds, NEW r \in Runs, HelperDone(k, r) PROVE FlagsTyped'
    <2>1. pool' \in BOOLEAN
      BY <1>HelperDone DEF HelperDone
    <2> QED
      BY <1>HelperDone, <2>1 DEF HelperDone, HelperGoto
  <1>FirstSignal. CASE FirstSignal
    BY <1>FirstSignal DEF FirstSignal, RestoredHandler
  <1>SignalAgain. CASE SignalAgain
    BY <1>SignalAgain DEF SignalAgain
  <1>Stutter. CASE UNCHANGED vars
    BY <1>Stutter DEF vars
  <1> QED
    BY <1>CallStart, <1>CallStop, <1>StartReturnsEarly, <1>StartTearsDown,
       <1>StartDirectly, <1>StartClear, <1>StartSpawn, <1>StopReturnsEarly,
       <1>StopTearsDown, <1>TeardownEvent, <1>TeardownFail,
       <1>TeardownJoinWorker, <1>TeardownJoinMonitor,
       <1>TeardownJoinPreloader, <1>TeardownStopClient,
       <1>TeardownRelease, <1>TeardownFinish,
       <1>WorkerBail, <1>WorkerEnterPreamble, <1>PreambleClock,
       <1>PreambleModel, <1>PreambleModelFails, <1>PreambleThreads,
       <1>WarmupFailed, <1>WarmupDone, <1>EnterLoop, <1>LoopCheck,
       <1>ChunkLoads, <1>ChunkDone, <1>ChunkRaises, <1>RestartChild,
       <1>RestartEnds, <1>InferHangs, <1>InferAnswered, <1>InferBroken,
       <1>CloseBlocks, <1>CloseGoesOn, <1>LoopFailing,
       <1>LoopCrashing, <1>LoopFlush, <1>LoopClose, <1>LoopResolve,
       <1>WorkerEnds, <1>SelfAbort, <1>HelperStops, <1>HelperTakes,
       <1>HelperDone, <1>FirstSignal, <1>SignalAgain, <1>Stutter
       DEF Next, CallerStep, WorkerStep, Waits, Relieved, HelperStep

\* Handles, threads and calls stay within their types.
LEMMA ThreadsPreserved == TypeOK /\ [Next]_vars => ThreadsTyped'
  <1> SUFFICES ASSUME TypeOK, [Next]_vars PROVE ThreadsTyped'
    OBVIOUS
  <1> USE DEF TypeOK, FlagsTyped, ThreadsTyped, statVars, controlVars,
              gcVars, signalVars, clockVars, modelVars, helperVars, callVars
  <1>CallStart. ASSUME NEW c \in Callers, CallStart(c) PROVE ThreadsTyped'
    BY <1>CallStart DEF CallStart, Goto
  <1>CallStop. ASSUME NEW c \in Callers, CallStop(c) PROVE ThreadsTyped'
    BY <1>CallStop DEF CallStop, Goto
  <1>StartReturnsEarly. ASSUME NEW c \in Callers, StartReturnsEarly(c) PROVE ThreadsTyped'
    BY <1>StartReturnsEarly DEF StartReturnsEarly, Goto, ThreadAlive
  <1>StartTearsDown. ASSUME NEW c \in Callers, StartTearsDown(c) PROVE ThreadsTyped'
    BY <1>StartTearsDown DEF StartTearsDown, Goto, ThreadAlive, StaleRun
  <1>StartDirectly. ASSUME NEW c \in Callers, StartDirectly(c) PROVE ThreadsTyped'
    BY <1>StartDirectly DEF StartDirectly, Goto, ThreadAlive, StaleRun
  <1>StartClear. ASSUME NEW c \in Callers, StartClear(c) PROVE ThreadsTyped'
    BY <1>StartClear DEF StartClear, Goto, FreeRuns
  <1>StartSpawn. ASSUME NEW c \in Callers, StartSpawn(c) PROVE ThreadsTyped'
    BY <1>StartSpawn DEF StartSpawn, Goto, WorkerGoto, InstallHandlers,
                         FreeRuns
  <1>StopReturnsEarly. ASSUME NEW c \in Callers, StopReturnsEarly(c) PROVE ThreadsTyped'
    BY <1>StopReturnsEarly DEF StopReturnsEarly, Goto
  <1>StopTearsDown. ASSUME NEW c \in Callers, StopTearsDown(c) PROVE ThreadsTyped'
    BY <1>StopTearsDown DEF StopTearsDown, Goto
  <1>TeardownEvent. ASSUME NEW c \in Callers, TeardownEvent(c) PROVE ThreadsTyped'
    BY <1>TeardownEvent DEF TeardownEvent, Goto
  <1>TeardownFail. ASSUME NEW c \in Callers, TeardownFail(c) PROVE ThreadsTyped'
    BY <1>TeardownFail DEF TeardownFail, Goto
  <1>TeardownJoinWorker. ASSUME NEW c \in Callers, TeardownJoinWorker(c) PROVE ThreadsTyped'
    BY <1>TeardownJoinWorker DEF TeardownJoinWorker, Goto
  <1>TeardownJoinMonitor. ASSUME NEW c \in Callers, TeardownJoinMonitor(c) PROVE ThreadsTyped'
    BY <1>TeardownJoinMonitor DEF TeardownJoinMonitor, Goto, Joined
  <1>TeardownJoinPreloader. ASSUME NEW c \in Callers, TeardownJoinPreloader(c) PROVE ThreadsTyped'
    BY <1>TeardownJoinPreloader DEF TeardownJoinPreloader, Goto, Joined
  <1>TeardownStopClient. ASSUME NEW c \in Callers, TeardownStopClient(c) PROVE ThreadsTyped'
    BY <1>TeardownStopClient DEF TeardownStopClient, Goto
  <1>TeardownRelease. ASSUME NEW c \in Callers, TeardownRelease(c) PROVE ThreadsTyped'
    BY <1>TeardownRelease DEF TeardownRelease, Goto, RevertGpuClock,
                            InClientCall
  <1>TeardownFinish. ASSUME NEW c \in Callers, TeardownFinish(c) PROVE ThreadsTyped'
    BY <1>TeardownFinish DEF TeardownFinish, Goto, RestoredHandler
  <1>WorkerBail. ASSUME NEW r \in Runs, WorkerBail(r) PROVE ThreadsTyped'
    BY <1>WorkerBail DEF WorkerBail, WorkerGoto, StopBeatWorker
  <1>WorkerEnterPreamble. ASSUME NEW r \in Runs, WorkerEnterPreamble(r) PROVE ThreadsTyped'
    BY <1>WorkerEnterPreamble DEF WorkerEnterPreamble, WorkerGoto,
                                  StopBeatWorker
  <1>PreambleClock. ASSUME NEW r \in Runs, PreambleClock(r) PROVE ThreadsTyped'
    BY <1>PreambleClock DEF PreambleClock, WorkerGoto, FailWarmup
  <1>PreambleModel. ASSUME NEW r \in Runs, PreambleModel(r) PROVE ThreadsTyped'
    BY <1>PreambleModel DEF PreambleModel, WorkerGoto
  <1>PreambleModelFails. ASSUME NEW r \in Runs, PreambleModelFails(r) PROVE ThreadsTyped'
    BY <1>PreambleModelFails DEF PreambleModelFails, FailWarmup, WorkerGoto
  <1>PreambleThreads. ASSUME NEW r \in Runs, PreambleThreads(r) PROVE ThreadsTyped'
    BY <1>PreambleThreads DEF PreambleThreads, WorkerGoto
  <1>WarmupFailed. ASSUME NEW r \in Runs, WarmupFailed(r) PROVE ThreadsTyped'
    BY <1>WarmupFailed DEF WarmupFailed, WorkerGoto
  <1>WarmupDone. ASSUME NEW r \in Runs, WarmupDone(r) PROVE ThreadsTyped'
    BY <1>WarmupDone DEF WarmupDone, WorkerGoto
  <1>EnterLoop. ASSUME NEW r \in Runs, EnterLoop(r) PROVE ThreadsTyped'
    BY <1>EnterLoop DEF EnterLoop, WorkerGoto
  <1>LoopCheck. ASSUME NEW r \in Runs, LoopCheck(r) PROVE ThreadsTyped'
    BY <1>LoopCheck DEF LoopCheck, WorkerGoto
  <1>ChunkLoads. ASSUME NEW r \in Runs, ChunkLoads(r) PROVE ThreadsTyped'
    BY <1>ChunkLoads DEF ChunkLoads
  <1>ChunkDone. ASSUME NEW r \in Runs, ChunkDone(r) PROVE ThreadsTyped'
    BY <1>ChunkDone DEF ChunkDone, ClientLetGo, WorkerGoto
  <1>ChunkRaises. ASSUME NEW r \in Runs, ChunkRaises(r) PROVE ThreadsTyped'
    BY <1>ChunkRaises DEF ChunkRaises, ClientLetGo, WorkerGoto
  <1>RestartChild. ASSUME NEW r \in Runs, RestartChild(r) PROVE ThreadsTyped'
    BY <1>RestartChild DEF RestartChild, WorkerGoto
  <1>RestartEnds. ASSUME NEW r \in Runs, RestartEnds(r) PROVE ThreadsTyped'
    BY <1>RestartEnds DEF RestartEnds, ClientLetGo, WorkerGoto
  <1>InferHangs. ASSUME NEW r \in Runs, InferHangs(r) PROVE ThreadsTyped'
    BY <1>InferHangs DEF InferHangs, WorkerGoto
  <1>InferAnswered. ASSUME NEW r \in Runs, InferAnswered(r) PROVE ThreadsTyped'
    BY <1>InferAnswered DEF InferAnswered, ClientLetGo, WorkerGoto
  <1>InferBroken. ASSUME NEW r \in Runs, InferBroken(r) PROVE ThreadsTyped'
    BY <1>InferBroken DEF InferBroken, ClientLetGo, WorkerGoto
  <1>CloseBlocks. ASSUME NEW r \in Runs, CloseBlocks(r) PROVE ThreadsTyped'
    BY <1>CloseBlocks DEF CloseBlocks, WorkerGoto
  <1>CloseGoesOn. ASSUME NEW r \in Runs, CloseGoesOn(r) PROVE ThreadsTyped'
    BY <1>CloseGoesOn DEF CloseGoesOn, WorkerGoto
  <1>LoopFailing. ASSUME NEW r \in Runs, LoopFailing(r) PROVE ThreadsTyped'
    BY <1>LoopFailing DEF LoopFailing, WorkerGoto
  <1>LoopCrashing. ASSUME NEW r \in Runs, LoopCrashing(r) PROVE ThreadsTyped'
    BY <1>LoopCrashing DEF LoopCrashing, WorkerGoto
  <1>LoopFlush. ASSUME NEW r \in Runs, LoopFlush(r) PROVE ThreadsTyped'
    BY <1>LoopFlush DEF LoopFlush, WorkerGoto
  <1>LoopClose. ASSUME NEW r \in Runs, LoopClose(r) PROVE ThreadsTyped'
    BY <1>LoopClose DEF LoopClose, WorkerGoto
  <1>LoopResolve. ASSUME NEW r \in Runs, LoopResolve(r) PROVE ThreadsTyped'
    BY <1>LoopResolve DEF LoopResolve, WorkerGoto, RunningAtLoopEnd
  <1>WorkerEnds. ASSUME NEW r \in Runs, WorkerEnds(r) PROVE ThreadsTyped'
    BY <1>WorkerEnds DEF WorkerEnds, WorkerGoto
  <1>SelfAbort. ASSUME NEW r \in Runs, SelfAbort(r) PROVE ThreadsTyped'
    BY <1>SelfAbort DEF SelfAbort
  <1>HelperStops. ASSUME NEW k \in Kinds, NEW r \in Runs, HelperStops(k, r) PROVE ThreadsTyped'
    BY <1>HelperStops DEF HelperStops, HelperGoto
  <1>HelperTakes. ASSUME NEW k \in Kinds, NEW r \in Runs, HelperTakes(k, r) PROVE ThreadsTyped'
    BY <1>HelperTakes DEF HelperTakes, HelperGoto
  <1>HelperDone. ASSUME NEW k \in Kinds, NEW r \in Runs, HelperDone(k, r) PROVE ThreadsTyped'
    BY <1>HelperDone DEF HelperDone, HelperGoto
  <1>FirstSignal. CASE FirstSignal
    BY <1>FirstSignal DEF FirstSignal, RestoredHandler
  <1>SignalAgain. CASE SignalAgain
    BY <1>SignalAgain DEF SignalAgain
  <1>Stutter. CASE UNCHANGED vars
    BY <1>Stutter DEF vars
  <1> QED
    BY <1>CallStart, <1>CallStop, <1>StartReturnsEarly, <1>StartTearsDown,
       <1>StartDirectly, <1>StartClear, <1>StartSpawn, <1>StopReturnsEarly,
       <1>StopTearsDown, <1>TeardownEvent, <1>TeardownFail,
       <1>TeardownJoinWorker, <1>TeardownJoinMonitor,
       <1>TeardownJoinPreloader, <1>TeardownStopClient,
       <1>TeardownRelease, <1>TeardownFinish,
       <1>WorkerBail, <1>WorkerEnterPreamble, <1>PreambleClock,
       <1>PreambleModel, <1>PreambleModelFails, <1>PreambleThreads,
       <1>WarmupFailed, <1>WarmupDone, <1>EnterLoop, <1>LoopCheck,
       <1>ChunkLoads, <1>ChunkDone, <1>ChunkRaises, <1>RestartChild,
       <1>RestartEnds, <1>InferHangs, <1>InferAnswered, <1>InferBroken,
       <1>CloseBlocks, <1>CloseGoesOn, <1>LoopFailing,
       <1>LoopCrashing, <1>LoopFlush, <1>LoopClose, <1>LoopResolve,
       <1>WorkerEnds, <1>SelfAbort, <1>HelperStops, <1>HelperTakes,
       <1>HelperDone, <1>FirstSignal, <1>SignalAgain, <1>Stutter
       DEF Next, CallerStep, WorkerStep, Waits, Relieved, HelperStep

\* The lock, _stop_event and the engine thread.
LEMMA ControlPreserved == IndInv /\ [Next]_vars => ControlInv'
  <1> SUFFICES ASSUME IndInv, [Next]_vars PROVE ControlInv'
    OBVIOUS
  <1> USE DEF IndInv, TypeOK, FlagsTyped, ThreadsTyped, ControlInv,
              LockExclusive, OneWorker, EventHolds, FreshStart, statVars,
              controlVars, gcVars, signalVars, clockVars, modelVars,
              helperVars, callVars
  <1>CallStart. ASSUME NEW c \in Callers, CallStart(c) PROVE ControlInv'
    BY <1>CallStart DEF CallStart, Goto
  <1>CallStop. ASSUME NEW c \in Callers, CallStop(c) PROVE ControlInv'
    BY <1>CallStop DEF CallStop, Goto
  <1>StartReturnsEarly. ASSUME NEW c \in Callers, StartReturnsEarly(c) PROVE ControlInv'
    BY <1>StartReturnsEarly DEF StartReturnsEarly, Goto, ThreadAlive
  <1>StartTearsDown. ASSUME NEW c \in Callers, StartTearsDown(c) PROVE ControlInv'
    BY <1>StartTearsDown DEF StartTearsDown, Goto, ThreadAlive, StaleRun
  <1>StartDirectly. ASSUME NEW c \in Callers, StartDirectly(c) PROVE ControlInv'
    BY <1>StartDirectly DEF StartDirectly, Goto, ThreadAlive, StaleRun
  <1>StartClear. ASSUME NEW c \in Callers, StartClear(c) PROVE ControlInv'
    BY <1>StartClear DEF StartClear, Goto, FreeRuns
  <1>StartSpawn. ASSUME NEW c \in Callers, StartSpawn(c) PROVE ControlInv'
    BY <1>StartSpawn DEF StartSpawn, Goto, WorkerGoto, InstallHandlers,
                         FreeRuns
  <1>StopReturnsEarly. ASSUME NEW c \in Callers, StopReturnsEarly(c) PROVE ControlInv'
    BY <1>StopReturnsEarly DEF StopReturnsEarly, Goto
  <1>StopTearsDown. ASSUME NEW c \in Callers, StopTearsDown(c) PROVE ControlInv'
    BY <1>StopTearsDown DEF StopTearsDown, Goto
  <1>TeardownEvent. ASSUME NEW c \in Callers, TeardownEvent(c) PROVE ControlInv'
    BY <1>TeardownEvent DEF TeardownEvent, Goto
  <1>TeardownFail. ASSUME NEW c \in Callers, TeardownFail(c) PROVE ControlInv'
    BY <1>TeardownFail DEF TeardownFail, Goto
  <1>TeardownJoinWorker. ASSUME NEW c \in Callers, TeardownJoinWorker(c) PROVE ControlInv'
    BY <1>TeardownJoinWorker DEF TeardownJoinWorker, Goto
  <1>TeardownJoinMonitor. ASSUME NEW c \in Callers, TeardownJoinMonitor(c) PROVE ControlInv'
    BY <1>TeardownJoinMonitor DEF TeardownJoinMonitor, Goto, Joined
  <1>TeardownJoinPreloader. ASSUME NEW c \in Callers, TeardownJoinPreloader(c) PROVE ControlInv'
    BY <1>TeardownJoinPreloader DEF TeardownJoinPreloader, Goto, Joined
  <1>TeardownStopClient. ASSUME NEW c \in Callers, TeardownStopClient(c) PROVE ControlInv'
    BY <1>TeardownStopClient DEF TeardownStopClient, Goto
  <1>TeardownRelease. ASSUME NEW c \in Callers, TeardownRelease(c) PROVE ControlInv'
    BY <1>TeardownRelease DEF TeardownRelease, Goto, RevertGpuClock,
                            InClientCall
  <1>TeardownFinish. ASSUME NEW c \in Callers, TeardownFinish(c) PROVE ControlInv'
    <2> USE <1>TeardownFinish DEF TeardownFinish, Goto
    <2>1. LockExclusive'
      OBVIOUS
    <2>2. OneWorker' /\ EventHolds'
      OBVIOUS
    <2>3. FreshStart'
      OBVIOUS
    <2> QED
      BY <2>1, <2>2, <2>3
  <1>WorkerBail. ASSUME NEW r \in Runs, WorkerBail(r) PROVE ControlInv'
    BY <1>WorkerBail DEF WorkerBail, WorkerGoto, StopBeatWorker
  <1>WorkerEnterPreamble. ASSUME NEW r \in Runs, WorkerEnterPreamble(r) PROVE ControlInv'
    BY <1>WorkerEnterPreamble DEF WorkerEnterPreamble, WorkerGoto,
                                  StopBeatWorker
  <1>PreambleClock. ASSUME NEW r \in Runs, PreambleClock(r) PROVE ControlInv'
    BY <1>PreambleClock DEF PreambleClock, WorkerGoto, FailWarmup
  <1>PreambleModel. ASSUME NEW r \in Runs, PreambleModel(r) PROVE ControlInv'
    BY <1>PreambleModel DEF PreambleModel, WorkerGoto
  <1>PreambleModelFails. ASSUME NEW r \in Runs, PreambleModelFails(r) PROVE ControlInv'
    BY <1>PreambleModelFails DEF PreambleModelFails, FailWarmup, WorkerGoto
  <1>PreambleThreads. ASSUME NEW r \in Runs, PreambleThreads(r) PROVE ControlInv'
    BY <1>PreambleThreads DEF PreambleThreads, WorkerGoto
  <1>WarmupFailed. ASSUME NEW r \in Runs, WarmupFailed(r) PROVE ControlInv'
    BY <1>WarmupFailed DEF WarmupFailed, WorkerGoto
  <1>WarmupDone. ASSUME NEW r \in Runs, WarmupDone(r) PROVE ControlInv'
    BY <1>WarmupDone DEF WarmupDone, WorkerGoto
  <1>EnterLoop. ASSUME NEW r \in Runs, EnterLoop(r) PROVE ControlInv'
    BY <1>EnterLoop DEF EnterLoop, WorkerGoto
  <1>LoopCheck. ASSUME NEW r \in Runs, LoopCheck(r) PROVE ControlInv'
    BY <1>LoopCheck DEF LoopCheck, WorkerGoto
  <1>ChunkLoads. ASSUME NEW r \in Runs, ChunkLoads(r) PROVE ControlInv'
    BY <1>ChunkLoads DEF ChunkLoads
  <1>ChunkDone. ASSUME NEW r \in Runs, ChunkDone(r) PROVE ControlInv'
    BY <1>ChunkDone DEF ChunkDone, ClientLetGo, WorkerGoto
  <1>ChunkRaises. ASSUME NEW r \in Runs, ChunkRaises(r) PROVE ControlInv'
    BY <1>ChunkRaises DEF ChunkRaises, ClientLetGo, WorkerGoto
  <1>RestartChild. ASSUME NEW r \in Runs, RestartChild(r) PROVE ControlInv'
    BY <1>RestartChild DEF RestartChild, WorkerGoto
  <1>RestartEnds. ASSUME NEW r \in Runs, RestartEnds(r) PROVE ControlInv'
    BY <1>RestartEnds DEF RestartEnds, ClientLetGo, WorkerGoto
  <1>InferHangs. ASSUME NEW r \in Runs, InferHangs(r) PROVE ControlInv'
    BY <1>InferHangs DEF InferHangs, WorkerGoto
  <1>InferAnswered. ASSUME NEW r \in Runs, InferAnswered(r) PROVE ControlInv'
    BY <1>InferAnswered DEF InferAnswered, ClientLetGo, WorkerGoto
  <1>InferBroken. ASSUME NEW r \in Runs, InferBroken(r) PROVE ControlInv'
    BY <1>InferBroken DEF InferBroken, ClientLetGo, WorkerGoto
  <1>CloseBlocks. ASSUME NEW r \in Runs, CloseBlocks(r) PROVE ControlInv'
    BY <1>CloseBlocks DEF CloseBlocks, WorkerGoto
  <1>CloseGoesOn. ASSUME NEW r \in Runs, CloseGoesOn(r) PROVE ControlInv'
    BY <1>CloseGoesOn DEF CloseGoesOn, WorkerGoto
  <1>LoopFailing. ASSUME NEW r \in Runs, LoopFailing(r) PROVE ControlInv'
    BY <1>LoopFailing DEF LoopFailing, WorkerGoto
  <1>LoopCrashing. ASSUME NEW r \in Runs, LoopCrashing(r) PROVE ControlInv'
    BY <1>LoopCrashing DEF LoopCrashing, WorkerGoto
  <1>LoopFlush. ASSUME NEW r \in Runs, LoopFlush(r) PROVE ControlInv'
    BY <1>LoopFlush DEF LoopFlush, WorkerGoto
  <1>LoopClose. ASSUME NEW r \in Runs, LoopClose(r) PROVE ControlInv'
    BY <1>LoopClose DEF LoopClose, WorkerGoto
  <1>LoopResolve. ASSUME NEW r \in Runs, LoopResolve(r) PROVE ControlInv'
    BY <1>LoopResolve DEF LoopResolve, WorkerGoto, RunningAtLoopEnd
  <1>WorkerEnds. ASSUME NEW r \in Runs, WorkerEnds(r) PROVE ControlInv'
    BY <1>WorkerEnds DEF WorkerEnds, WorkerGoto
  <1>SelfAbort. ASSUME NEW r \in Runs, SelfAbort(r) PROVE ControlInv'
    BY <1>SelfAbort DEF SelfAbort
  <1>HelperStops. ASSUME NEW k \in Kinds, NEW r \in Runs, HelperStops(k, r) PROVE ControlInv'
    BY <1>HelperStops DEF HelperStops, HelperGoto
  <1>HelperTakes. ASSUME NEW k \in Kinds, NEW r \in Runs, HelperTakes(k, r) PROVE ControlInv'
    BY <1>HelperTakes DEF HelperTakes, HelperGoto
  <1>HelperDone. ASSUME NEW k \in Kinds, NEW r \in Runs, HelperDone(k, r) PROVE ControlInv'
    BY <1>HelperDone DEF HelperDone, HelperGoto
  <1>FirstSignal. CASE FirstSignal
    BY <1>FirstSignal DEF FirstSignal, RestoredHandler
  <1>SignalAgain. CASE SignalAgain
    BY <1>SignalAgain DEF SignalAgain
  <1>Stutter. CASE UNCHANGED vars
    BY <1>Stutter DEF vars
  <1> QED
    BY <1>CallStart, <1>CallStop, <1>StartReturnsEarly, <1>StartTearsDown,
       <1>StartDirectly, <1>StartClear, <1>StartSpawn, <1>StopReturnsEarly,
       <1>StopTearsDown, <1>TeardownEvent, <1>TeardownFail,
       <1>TeardownJoinWorker, <1>TeardownJoinMonitor,
       <1>TeardownJoinPreloader, <1>TeardownStopClient,
       <1>TeardownRelease, <1>TeardownFinish,
       <1>WorkerBail, <1>WorkerEnterPreamble, <1>PreambleClock,
       <1>PreambleModel, <1>PreambleModelFails, <1>PreambleThreads,
       <1>WarmupFailed, <1>WarmupDone, <1>EnterLoop, <1>LoopCheck,
       <1>ChunkLoads, <1>ChunkDone, <1>ChunkRaises, <1>RestartChild,
       <1>RestartEnds, <1>InferHangs, <1>InferAnswered, <1>InferBroken,
       <1>CloseBlocks, <1>CloseGoesOn, <1>LoopFailing,
       <1>LoopCrashing, <1>LoopFlush, <1>LoopClose, <1>LoopResolve,
       <1>WorkerEnds, <1>SelfAbort, <1>HelperStops, <1>HelperTakes,
       <1>HelperDone, <1>FirstSignal, <1>SignalAgain, <1>Stutter
       DEF Next, CallerStep, WorkerStep, Waits, Relieved, HelperStep

\* What a run borrows from its host.
LEMMA BorrowPreserved == IndInv /\ [Next]_vars => BorrowInv'
  <1> SUFFICES ASSUME IndInv, [Next]_vars PROVE BorrowInv'
    OBVIOUS
  <1> USE DEF IndInv, TypeOK, FlagsTyped, ThreadsTyped, ControlInv,
              LockExclusive, OneWorker, EventHolds, FreshStart, BorrowInv,
              NothingBorrowed, NoRunUnderWay, NoClientYet, ChildOwned, InClientCall,
              HostTracked, PriorIsSomeoneElses, statVars, controlVars,
              gcVars, signalVars, clockVars, modelVars, helperVars, callVars
  <1>CallStart. ASSUME NEW c \in Callers, CallStart(c) PROVE BorrowInv'
    BY <1>CallStart DEF CallStart, Goto
  <1>CallStop. ASSUME NEW c \in Callers, CallStop(c) PROVE BorrowInv'
    BY <1>CallStop DEF CallStop, Goto
  <1>StartReturnsEarly. ASSUME NEW c \in Callers, StartReturnsEarly(c) PROVE BorrowInv'
    BY <1>StartReturnsEarly DEF StartReturnsEarly, Goto, ThreadAlive
  <1>StartTearsDown. ASSUME NEW c \in Callers, StartTearsDown(c) PROVE BorrowInv'
    BY <1>StartTearsDown DEF StartTearsDown, Goto, ThreadAlive, StaleRun
  <1>StartDirectly. ASSUME NEW c \in Callers, StartDirectly(c) PROVE BorrowInv'
    BY <1>StartDirectly DEF StartDirectly, Goto, ThreadAlive, StaleRun
  <1>StartClear. ASSUME NEW c \in Callers, StartClear(c) PROVE BorrowInv'
    BY <1>StartClear DEF StartClear, Goto, FreeRuns
  <1>StartSpawn. ASSUME NEW c \in Callers, StartSpawn(c) PROVE BorrowInv'
    BY <1>StartSpawn DEF StartSpawn, Goto, WorkerGoto, InstallHandlers,
                         FreeRuns
  <1>StopReturnsEarly. ASSUME NEW c \in Callers, StopReturnsEarly(c) PROVE BorrowInv'
    BY <1>StopReturnsEarly DEF StopReturnsEarly, Goto
  <1>StopTearsDown. ASSUME NEW c \in Callers, StopTearsDown(c) PROVE BorrowInv'
    BY <1>StopTearsDown DEF StopTearsDown, Goto
  <1>TeardownEvent. ASSUME NEW c \in Callers, TeardownEvent(c) PROVE BorrowInv'
    BY <1>TeardownEvent DEF TeardownEvent, Goto
  <1>TeardownFail. ASSUME NEW c \in Callers, TeardownFail(c) PROVE BorrowInv'
    BY <1>TeardownFail DEF TeardownFail, Goto
  <1>TeardownJoinWorker. ASSUME NEW c \in Callers, TeardownJoinWorker(c) PROVE BorrowInv'
    BY <1>TeardownJoinWorker DEF TeardownJoinWorker, Goto
  <1>TeardownJoinMonitor. ASSUME NEW c \in Callers, TeardownJoinMonitor(c) PROVE BorrowInv'
    BY <1>TeardownJoinMonitor DEF TeardownJoinMonitor, Goto, Joined
  <1>TeardownJoinPreloader. ASSUME NEW c \in Callers, TeardownJoinPreloader(c) PROVE BorrowInv'
    BY <1>TeardownJoinPreloader DEF TeardownJoinPreloader, Goto, Joined
  <1>TeardownStopClient. ASSUME NEW c \in Callers, TeardownStopClient(c) PROVE BorrowInv'
    BY <1>TeardownStopClient DEF TeardownStopClient, Goto
  <1>TeardownRelease. ASSUME NEW c \in Callers, TeardownRelease(c) PROVE BorrowInv'
    BY <1>TeardownRelease DEF TeardownRelease, Goto, RevertGpuClock,
                            InClientCall
  <1>TeardownFinish. ASSUME NEW c \in Callers, TeardownFinish(c) PROVE BorrowInv'
    <2> USE <1>TeardownFinish DEF TeardownFinish, Goto, RestoredHandler
    <2>1. NothingBorrowed' /\ ChildOwned'
      OBVIOUS
    <2>2. HostTracked'
      OBVIOUS
    <2>3. PriorIsSomeoneElses'
      OBVIOUS
    <2> QED
      BY <2>1, <2>2, <2>3
  <1>WorkerBail. ASSUME NEW r \in Runs, WorkerBail(r) PROVE BorrowInv'
    BY <1>WorkerBail DEF WorkerBail, WorkerGoto, StopBeatWorker
  <1>WorkerEnterPreamble. ASSUME NEW r \in Runs, WorkerEnterPreamble(r) PROVE BorrowInv'
    BY <1>WorkerEnterPreamble DEF WorkerEnterPreamble, WorkerGoto,
                                  StopBeatWorker
  <1>PreambleClock. ASSUME NEW r \in Runs, PreambleClock(r) PROVE BorrowInv'
    <2> USE <1>PreambleClock DEF PreambleClock, WorkerGoto, FailWarmup
    <2>1. NothingBorrowed' /\ ChildOwned' /\ PriorIsSomeoneElses'
      OBVIOUS
    <2>2. HostTracked'
      <3>1. ~stopped' /\ \A c \in Callers : pc'[c] # "tdFinish"
        OBVIOUS
      <3>2. clocks' = "locked" => clockActive'
        OBVIOUS
      <3>3. HostGc = (gcEnabled \/ gcSaved)'
        OBVIOUS
      <3> QED
        BY <3>1, <3>2, <3>3
    <2> QED
      BY <2>1, <2>2
  <1>PreambleModel. ASSUME NEW r \in Runs, PreambleModel(r) PROVE BorrowInv'
    BY <1>PreambleModel DEF PreambleModel, WorkerGoto
  <1>PreambleModelFails. ASSUME NEW r \in Runs, PreambleModelFails(r) PROVE BorrowInv'
    BY <1>PreambleModelFails DEF PreambleModelFails, FailWarmup, WorkerGoto
  <1>PreambleThreads. ASSUME NEW r \in Runs, PreambleThreads(r) PROVE BorrowInv'
    BY <1>PreambleThreads DEF PreambleThreads, WorkerGoto
  <1>WarmupFailed. ASSUME NEW r \in Runs, WarmupFailed(r) PROVE BorrowInv'
    BY <1>WarmupFailed DEF WarmupFailed, WorkerGoto
  <1>WarmupDone. ASSUME NEW r \in Runs, WarmupDone(r) PROVE BorrowInv'
    BY <1>WarmupDone DEF WarmupDone, WorkerGoto
  <1>EnterLoop. ASSUME NEW r \in Runs, EnterLoop(r) PROVE BorrowInv'
    BY <1>EnterLoop DEF EnterLoop, WorkerGoto
  <1>LoopCheck. ASSUME NEW r \in Runs, LoopCheck(r) PROVE BorrowInv'
    BY <1>LoopCheck DEF LoopCheck, WorkerGoto
  <1>ChunkLoads. ASSUME NEW r \in Runs, ChunkLoads(r) PROVE BorrowInv'
    BY <1>ChunkLoads DEF ChunkLoads
  <1>ChunkDone. ASSUME NEW r \in Runs, ChunkDone(r) PROVE BorrowInv'
    BY <1>ChunkDone DEF ChunkDone, ClientLetGo, WorkerGoto
  <1>ChunkRaises. ASSUME NEW r \in Runs, ChunkRaises(r) PROVE BorrowInv'
    BY <1>ChunkRaises DEF ChunkRaises, ClientLetGo, WorkerGoto
  <1>RestartChild. ASSUME NEW r \in Runs, RestartChild(r) PROVE BorrowInv'
    BY <1>RestartChild DEF RestartChild, WorkerGoto
  <1>RestartEnds. ASSUME NEW r \in Runs, RestartEnds(r) PROVE BorrowInv'
    BY <1>RestartEnds DEF RestartEnds, ClientLetGo, WorkerGoto
  <1>InferHangs. ASSUME NEW r \in Runs, InferHangs(r) PROVE BorrowInv'
    BY <1>InferHangs DEF InferHangs, WorkerGoto
  <1>InferAnswered. ASSUME NEW r \in Runs, InferAnswered(r) PROVE BorrowInv'
    BY <1>InferAnswered DEF InferAnswered, ClientLetGo, WorkerGoto
  <1>InferBroken. ASSUME NEW r \in Runs, InferBroken(r) PROVE BorrowInv'
    BY <1>InferBroken DEF InferBroken, ClientLetGo, WorkerGoto
  <1>CloseBlocks. ASSUME NEW r \in Runs, CloseBlocks(r) PROVE BorrowInv'
    BY <1>CloseBlocks DEF CloseBlocks, WorkerGoto
  <1>CloseGoesOn. ASSUME NEW r \in Runs, CloseGoesOn(r) PROVE BorrowInv'
    BY <1>CloseGoesOn DEF CloseGoesOn, WorkerGoto
  <1>LoopFailing. ASSUME NEW r \in Runs, LoopFailing(r) PROVE BorrowInv'
    BY <1>LoopFailing DEF LoopFailing, WorkerGoto
  <1>LoopCrashing. ASSUME NEW r \in Runs, LoopCrashing(r) PROVE BorrowInv'
    BY <1>LoopCrashing DEF LoopCrashing, WorkerGoto
  <1>LoopFlush. ASSUME NEW r \in Runs, LoopFlush(r) PROVE BorrowInv'
    BY <1>LoopFlush DEF LoopFlush, WorkerGoto
  <1>LoopClose. ASSUME NEW r \in Runs, LoopClose(r) PROVE BorrowInv'
    BY <1>LoopClose DEF LoopClose, WorkerGoto
  <1>LoopResolve. ASSUME NEW r \in Runs, LoopResolve(r) PROVE BorrowInv'
    BY <1>LoopResolve DEF LoopResolve, WorkerGoto, RunningAtLoopEnd
  <1>WorkerEnds. ASSUME NEW r \in Runs, WorkerEnds(r) PROVE BorrowInv'
    BY <1>WorkerEnds DEF WorkerEnds, WorkerGoto
  <1>SelfAbort. ASSUME NEW r \in Runs, SelfAbort(r) PROVE BorrowInv'
    BY <1>SelfAbort DEF SelfAbort
  <1>HelperStops. ASSUME NEW k \in Kinds, NEW r \in Runs, HelperStops(k, r) PROVE BorrowInv'
    BY <1>HelperStops DEF HelperStops, HelperGoto
  <1>HelperTakes. ASSUME NEW k \in Kinds, NEW r \in Runs, HelperTakes(k, r) PROVE BorrowInv'
    BY <1>HelperTakes DEF HelperTakes, HelperGoto
  <1>HelperDone. ASSUME NEW k \in Kinds, NEW r \in Runs, HelperDone(k, r) PROVE BorrowInv'
    BY <1>HelperDone DEF HelperDone, HelperGoto
  <1>FirstSignal. CASE FirstSignal
    BY <1>FirstSignal DEF FirstSignal, RestoredHandler
  <1>SignalAgain. CASE SignalAgain
    BY <1>SignalAgain DEF SignalAgain
  <1>Stutter. CASE UNCHANGED vars
    BY <1>Stutter DEF vars
  <1> QED
    BY <1>CallStart, <1>CallStop, <1>StartReturnsEarly, <1>StartTearsDown,
       <1>StartDirectly, <1>StartClear, <1>StartSpawn, <1>StopReturnsEarly,
       <1>StopTearsDown, <1>TeardownEvent, <1>TeardownFail,
       <1>TeardownJoinWorker, <1>TeardownJoinMonitor,
       <1>TeardownJoinPreloader, <1>TeardownStopClient,
       <1>TeardownRelease, <1>TeardownFinish,
       <1>WorkerBail, <1>WorkerEnterPreamble, <1>PreambleClock,
       <1>PreambleModel, <1>PreambleModelFails, <1>PreambleThreads,
       <1>WarmupFailed, <1>WarmupDone, <1>EnterLoop, <1>LoopCheck,
       <1>ChunkLoads, <1>ChunkDone, <1>ChunkRaises, <1>RestartChild,
       <1>RestartEnds, <1>InferHangs, <1>InferAnswered, <1>InferBroken,
       <1>CloseBlocks, <1>CloseGoesOn, <1>LoopFailing,
       <1>LoopCrashing, <1>LoopFlush, <1>LoopClose, <1>LoopResolve,
       <1>WorkerEnds, <1>SelfAbort, <1>HelperStops, <1>HelperTakes,
       <1>HelperDone, <1>FirstSignal, <1>SignalAgain, <1>Stutter
       DEF Next, CallerStep, WorkerStep, Waits, Relieved, HelperStep

\* What stats.running and stats.crashed report.
LEMMA ReportPreserved == IndInv /\ [Next]_vars => ReportInv'
  <1> SUFFICES ASSUME IndInv, [Next]_vars PROVE ReportInv'
    OBVIOUS
  <1> USE DEF IndInv, TypeOK, FlagsTyped, ThreadsTyped, ControlInv,
              LockExclusive, OneWorker, EventHolds, FreshStart, BorrowInv,
              NothingBorrowed, NoRunUnderWay, NoClientYet, ChildOwned, InClientCall,
              HostTracked, PriorIsSomeoneElses, ReportInv, CrashIsNotRunning,
              statVars, controlVars, gcVars, signalVars, clockVars,
              modelVars, helperVars, callVars
  <1>CallStart. ASSUME NEW c \in Callers, CallStart(c) PROVE ReportInv'
    BY <1>CallStart DEF CallStart, Goto
  <1>CallStop. ASSUME NEW c \in Callers, CallStop(c) PROVE ReportInv'
    BY <1>CallStop DEF CallStop, Goto
  <1>StartReturnsEarly. ASSUME NEW c \in Callers, StartReturnsEarly(c) PROVE ReportInv'
    BY <1>StartReturnsEarly DEF StartReturnsEarly, Goto, ThreadAlive
  <1>StartTearsDown. ASSUME NEW c \in Callers, StartTearsDown(c) PROVE ReportInv'
    BY <1>StartTearsDown DEF StartTearsDown, Goto, ThreadAlive, StaleRun
  <1>StartDirectly. ASSUME NEW c \in Callers, StartDirectly(c) PROVE ReportInv'
    BY <1>StartDirectly DEF StartDirectly, Goto, ThreadAlive, StaleRun
  <1>StartClear. ASSUME NEW c \in Callers, StartClear(c) PROVE ReportInv'
    BY <1>StartClear DEF StartClear, Goto, FreeRuns
  <1>StartSpawn. ASSUME NEW c \in Callers, StartSpawn(c) PROVE ReportInv'
    BY <1>StartSpawn DEF StartSpawn, Goto, WorkerGoto, InstallHandlers,
                         FreeRuns
  <1>StopReturnsEarly. ASSUME NEW c \in Callers, StopReturnsEarly(c) PROVE ReportInv'
    BY <1>StopReturnsEarly DEF StopReturnsEarly, Goto
  <1>StopTearsDown. ASSUME NEW c \in Callers, StopTearsDown(c) PROVE ReportInv'
    BY <1>StopTearsDown DEF StopTearsDown, Goto
  <1>TeardownEvent. ASSUME NEW c \in Callers, TeardownEvent(c) PROVE ReportInv'
    BY <1>TeardownEvent DEF TeardownEvent, Goto
  <1>TeardownFail. ASSUME NEW c \in Callers, TeardownFail(c) PROVE ReportInv'
    BY <1>TeardownFail DEF TeardownFail, Goto
  <1>TeardownJoinWorker. ASSUME NEW c \in Callers, TeardownJoinWorker(c) PROVE ReportInv'
    BY <1>TeardownJoinWorker DEF TeardownJoinWorker, Goto
  <1>TeardownJoinMonitor. ASSUME NEW c \in Callers, TeardownJoinMonitor(c) PROVE ReportInv'
    BY <1>TeardownJoinMonitor DEF TeardownJoinMonitor, Goto, Joined
  <1>TeardownJoinPreloader. ASSUME NEW c \in Callers, TeardownJoinPreloader(c) PROVE ReportInv'
    BY <1>TeardownJoinPreloader DEF TeardownJoinPreloader, Goto, Joined
  <1>TeardownStopClient. ASSUME NEW c \in Callers, TeardownStopClient(c) PROVE ReportInv'
    BY <1>TeardownStopClient DEF TeardownStopClient, Goto
  <1>TeardownRelease. ASSUME NEW c \in Callers, TeardownRelease(c) PROVE ReportInv'
    BY <1>TeardownRelease DEF TeardownRelease, Goto, RevertGpuClock,
                            InClientCall
  <1>TeardownFinish. ASSUME NEW c \in Callers, TeardownFinish(c) PROVE ReportInv'
    BY <1>TeardownFinish DEF TeardownFinish, Goto, RestoredHandler
  <1>WorkerBail. ASSUME NEW r \in Runs, WorkerBail(r) PROVE ReportInv'
    BY <1>WorkerBail DEF WorkerBail, WorkerGoto, StopBeatWorker
  <1>WorkerEnterPreamble. ASSUME NEW r \in Runs, WorkerEnterPreamble(r) PROVE ReportInv'
    BY <1>WorkerEnterPreamble DEF WorkerEnterPreamble, WorkerGoto,
                                  StopBeatWorker
  <1>PreambleClock. ASSUME NEW r \in Runs, PreambleClock(r) PROVE ReportInv'
    BY <1>PreambleClock DEF PreambleClock, WorkerGoto, FailWarmup
  <1>PreambleModel. ASSUME NEW r \in Runs, PreambleModel(r) PROVE ReportInv'
    BY <1>PreambleModel DEF PreambleModel, WorkerGoto
  <1>PreambleModelFails. ASSUME NEW r \in Runs, PreambleModelFails(r) PROVE ReportInv'
    BY <1>PreambleModelFails DEF PreambleModelFails, FailWarmup, WorkerGoto
  <1>PreambleThreads. ASSUME NEW r \in Runs, PreambleThreads(r) PROVE ReportInv'
    BY <1>PreambleThreads DEF PreambleThreads, WorkerGoto
  <1>WarmupFailed. ASSUME NEW r \in Runs, WarmupFailed(r) PROVE ReportInv'
    BY <1>WarmupFailed DEF WarmupFailed, WorkerGoto
  <1>WarmupDone. ASSUME NEW r \in Runs, WarmupDone(r) PROVE ReportInv'
    BY <1>WarmupDone DEF WarmupDone, WorkerGoto
  <1>EnterLoop. ASSUME NEW r \in Runs, EnterLoop(r) PROVE ReportInv'
    BY <1>EnterLoop DEF EnterLoop, WorkerGoto
  <1>LoopCheck. ASSUME NEW r \in Runs, LoopCheck(r) PROVE ReportInv'
    BY <1>LoopCheck DEF LoopCheck, WorkerGoto
  <1>ChunkLoads. ASSUME NEW r \in Runs, ChunkLoads(r) PROVE ReportInv'
    BY <1>ChunkLoads DEF ChunkLoads
  <1>ChunkDone. ASSUME NEW r \in Runs, ChunkDone(r) PROVE ReportInv'
    BY <1>ChunkDone DEF ChunkDone, ClientLetGo, WorkerGoto
  <1>ChunkRaises. ASSUME NEW r \in Runs, ChunkRaises(r) PROVE ReportInv'
    BY <1>ChunkRaises DEF ChunkRaises, ClientLetGo, WorkerGoto
  <1>RestartChild. ASSUME NEW r \in Runs, RestartChild(r) PROVE ReportInv'
    BY <1>RestartChild DEF RestartChild, WorkerGoto
  <1>RestartEnds. ASSUME NEW r \in Runs, RestartEnds(r) PROVE ReportInv'
    BY <1>RestartEnds DEF RestartEnds, ClientLetGo, WorkerGoto
  <1>InferHangs. ASSUME NEW r \in Runs, InferHangs(r) PROVE ReportInv'
    BY <1>InferHangs DEF InferHangs, WorkerGoto
  <1>InferAnswered. ASSUME NEW r \in Runs, InferAnswered(r) PROVE ReportInv'
    BY <1>InferAnswered DEF InferAnswered, ClientLetGo, WorkerGoto
  <1>InferBroken. ASSUME NEW r \in Runs, InferBroken(r) PROVE ReportInv'
    BY <1>InferBroken DEF InferBroken, ClientLetGo, WorkerGoto
  <1>CloseBlocks. ASSUME NEW r \in Runs, CloseBlocks(r) PROVE ReportInv'
    BY <1>CloseBlocks DEF CloseBlocks, WorkerGoto
  <1>CloseGoesOn. ASSUME NEW r \in Runs, CloseGoesOn(r) PROVE ReportInv'
    BY <1>CloseGoesOn DEF CloseGoesOn, WorkerGoto
  <1>LoopFailing. ASSUME NEW r \in Runs, LoopFailing(r) PROVE ReportInv'
    BY <1>LoopFailing DEF LoopFailing, WorkerGoto
  <1>LoopCrashing. ASSUME NEW r \in Runs, LoopCrashing(r) PROVE ReportInv'
    BY <1>LoopCrashing DEF LoopCrashing, WorkerGoto
  <1>LoopFlush. ASSUME NEW r \in Runs, LoopFlush(r) PROVE ReportInv'
    BY <1>LoopFlush DEF LoopFlush, WorkerGoto
  <1>LoopClose. ASSUME NEW r \in Runs, LoopClose(r) PROVE ReportInv'
    BY <1>LoopClose DEF LoopClose, WorkerGoto
  <1>LoopResolve. ASSUME NEW r \in Runs, LoopResolve(r) PROVE ReportInv'
    BY <1>LoopResolve DEF LoopResolve, WorkerGoto, RunningAtLoopEnd
  <1>WorkerEnds. ASSUME NEW r \in Runs, WorkerEnds(r) PROVE ReportInv'
    BY <1>WorkerEnds DEF WorkerEnds, WorkerGoto
  <1>SelfAbort. ASSUME NEW r \in Runs, SelfAbort(r) PROVE ReportInv'
    BY <1>SelfAbort DEF SelfAbort
  <1>HelperStops. ASSUME NEW k \in Kinds, NEW r \in Runs, HelperStops(k, r) PROVE ReportInv'
    BY <1>HelperStops DEF HelperStops, HelperGoto
  <1>HelperTakes. ASSUME NEW k \in Kinds, NEW r \in Runs, HelperTakes(k, r) PROVE ReportInv'
    BY <1>HelperTakes DEF HelperTakes, HelperGoto
  <1>HelperDone. ASSUME NEW k \in Kinds, NEW r \in Runs, HelperDone(k, r) PROVE ReportInv'
    BY <1>HelperDone DEF HelperDone, HelperGoto
  <1>FirstSignal. CASE FirstSignal
    BY <1>FirstSignal DEF FirstSignal, RestoredHandler
  <1>SignalAgain. CASE SignalAgain
    BY <1>SignalAgain DEF SignalAgain
  <1>Stutter. CASE UNCHANGED vars
    BY <1>Stutter DEF vars
  <1> QED
    BY <1>CallStart, <1>CallStop, <1>StartReturnsEarly, <1>StartTearsDown,
       <1>StartDirectly, <1>StartClear, <1>StartSpawn, <1>StopReturnsEarly,
       <1>StopTearsDown, <1>TeardownEvent, <1>TeardownFail,
       <1>TeardownJoinWorker, <1>TeardownJoinMonitor,
       <1>TeardownJoinPreloader, <1>TeardownStopClient,
       <1>TeardownRelease, <1>TeardownFinish,
       <1>WorkerBail, <1>WorkerEnterPreamble, <1>PreambleClock,
       <1>PreambleModel, <1>PreambleModelFails, <1>PreambleThreads,
       <1>WarmupFailed, <1>WarmupDone, <1>EnterLoop, <1>LoopCheck,
       <1>ChunkLoads, <1>ChunkDone, <1>ChunkRaises, <1>RestartChild,
       <1>RestartEnds, <1>InferHangs, <1>InferAnswered, <1>InferBroken,
       <1>CloseBlocks, <1>CloseGoesOn, <1>LoopFailing,
       <1>LoopCrashing, <1>LoopFlush, <1>LoopClose, <1>LoopResolve,
       <1>WorkerEnds, <1>SelfAbort, <1>HelperStops, <1>HelperTakes,
       <1>HelperDone, <1>FirstSignal, <1>SignalAgain, <1>Stutter
       DEF Next, CallerStep, WorkerStep, Waits, Relieved, HelperStep

\* Every step of a caller, thread or signal preserves the invariant.
LEMMA Inductive == IndInv /\ [Next]_vars => IndInv'
  BY FlagsPreserved, ThreadsPreserved, ControlPreserved, BorrowPreserved,
     ReportPreserved DEF IndInv, TypeOK

\* The inductive invariant holds in every reachable state, for every number of
\* callers and runs; the theorems below are what it implies.
THEOREM IndInvAlways == Spec => []IndInv
  BY InitEstablishes, Inductive, PTL DEF Spec

\* Every variable keeps its type.
THEOREM TypeCorrect == Spec => []TypeOK
  <1>1. IndInv => TypeOK
    BY DEF IndInv
  <1> QED
    BY <1>1, IndInvAlways, PTL

\* However start(), stop(), signals and crashes interleave, no start() leaves
\* an engine thread alive behind the one it spawns.
THEOREM OneWorkerAlways == Spec => []OneWorker
  <1>1. IndInv => OneWorker
    BY DEF IndInv, ControlInv
  <1> QED
    BY <1>1, IndInvAlways, PTL

\* A stopped engine is not reported as running and has no inference child but
\* one that a still unfinished call of the engine thread holds.
THEOREM StoppedIsReleasedAlways == Spec => []StoppedIsReleased
  <1>1. IndInv => StoppedIsReleased
    BY DEF IndInv, TypeOK, ThreadsTyped, BorrowInv, NothingBorrowed,
           NoRunUnderWay, ChildOwned, ReportInv, StoppedIsReleased
  <1> QED
    BY <1>1, IndInvAlways, PTL

\* No inference child is alive that the next teardown would not stop and that
\* does not end with the call that holds it either.
THEOREM ChildOwnedAlways == Spec => []ChildOwned
  <1>1. IndInv => ChildOwned
    BY DEF IndInv, BorrowInv
  <1> QED
    BY <1>1, IndInvAlways, PTL

\* A stopped engine has given the host its garbage collector back, and a GPU
\* that is still locked is remembered as such.
THEOREM HostRestoredAlways == Spec => []HostRestored
  <1>1. IndInv => HostRestored
    BY DEF IndInv, TypeOK, FlagsTyped, BorrowInv, NothingBorrowed,
           NoRunUnderWay, HostTracked, HostRestored
  <1> QED
    BY <1>1, IndInvAlways, PTL

\* A signal that the engine handles can always be handed on.
THEOREM PriorIsSomeoneElsesAlways == Spec => []PriorIsSomeoneElses
  <1>1. IndInv => PriorIsSomeoneElses
    BY DEF IndInv, BorrowInv
  <1> QED
    BY <1>1, IndInvAlways, PTL

\* An engine that crashed and is done with its cleanup is not shown running.
THEOREM CrashIsNotRunningAlways == Spec => []CrashIsNotRunning
  <1>1. IndInv => CrashIsNotRunning
    BY DEF IndInv, ReportInv
  <1> QED
    BY <1>1, IndInvAlways, PTL
=============================================================================
