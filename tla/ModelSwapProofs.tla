-------------------------- MODULE ModelSwapProofs --------------------------
(***************************************************************************)
(* Hot swaps for any number of requests, callers and engine threads: the   *)
(* engine with swaps in it implements the life cycle of EngineLifecycle,   *)
(* no accepted request is lost, a stopped engine has answered all but what *)
(* its ending thread is answering, and a request answered without an error *)
(* was applied.                                                            *)
(*                                                                         *)
(* The life cycle's own invariant comes with the refinement.  A step of    *)
(* the engine that leaves the swaps alone is then dealt with by what it    *)
(* must not do to them (LetsBe), a step of the swaps one by one.           *)
(***************************************************************************)
EXTENDS ModelSwap, EngineLifecycleProofs

USE NoRunAssumption, NoRequestAssumption, ThreadsAssumption DEF Threads

-----------------------------------------------------------------------------
(* Sequences without repetition.                                           *)

\* A queue gets a new element at its end: its elements are what they were and
\* the new one, and none is there twice if the new one was not there.
LEMMA AppendFresh ==
  ASSUME NEW S, NEW s \in Seq(S), IsInjective(s), NEW e \in S, e \notin ToSet(s)
  PROVE  /\ Append(s, e) \in Seq(S) /\ IsInjective(Append(s, e))
         /\ ToSet(Append(s, e)) = ToSet(s) \cup {e}
  <1>1. /\ Append(s, e) \in Seq(S)
        /\ DOMAIN s = 1 .. Len(s) /\ Len(s) \in Nat
        /\ DOMAIN Append(s, e) = 1 .. Len(s) + 1
        /\ \A i \in 1 .. Len(s) : Append(s, e)[i] = s[i]
        /\ Append(s, e)[Len(s) + 1] = e
    OBVIOUS
  <1>2. IsInjective(Append(s, e))
    BY <1>1 DEF IsInjective, ToSet
  <1>3. ToSet(Append(s, e)) = ToSet(s) \cup {e}
    BY <1>1 DEF ToSet
  <1> QED
    BY <1>1, <1>2, <1>3

\* The head of a batch is one of its elements and not one of the rest.
LEMMA HeadAndTail ==
  ASSUME NEW S, NEW s \in Seq(S), IsInjective(s), s # <<>>
  PROVE  /\ Head(s) \in S /\ Head(s) \in ToSet(s)
         /\ Tail(s) \in Seq(S) /\ IsInjective(Tail(s))
         /\ ToSet(Tail(s)) \subseteq ToSet(s)
         /\ Tail(s) = <<>> <=> Len(s) = 1
  <1>1. /\ Len(s) \in Nat \ {0} /\ DOMAIN s = 1 .. Len(s)
        /\ Head(s) = s[1] /\ Head(s) \in S
        /\ Tail(s) \in Seq(S) /\ Len(Tail(s)) = Len(s) - 1
        /\ DOMAIN Tail(s) = 1 .. Len(s) - 1
        /\ \A i \in 1 .. Len(s) - 1 : Tail(s)[i] = s[i + 1]
    OBVIOUS
  <1>2. Head(s) \in ToSet(s)
    BY <1>1 DEF ToSet
  <1>3. IsInjective(Tail(s))
    BY <1>1 DEF IsInjective
  <1>4. ToSet(Tail(s)) \subseteq ToSet(s)
    <2> SUFFICES ASSUME NEW i \in 1 .. Len(s) - 1 PROVE Tail(s)[i] \in ToSet(s)
      BY <1>1 DEF ToSet
    <2>1. i + 1 \in DOMAIN s /\ Tail(s)[i] = s[i + 1]
      BY <1>1
    <2> QED
      BY <2>1 DEF ToSet
  <1>5. Tail(s) = <<>> <=> Len(s) = 1
    <2>1. ASSUME NEW t \in Seq(S) PROVE t = <<>> <=> Len(t) = 0
      OBVIOUS
    <2>2. Len(Tail(s)) = 0 <=> Len(s) = 1
      BY <1>1
    <2>3. Tail(s) = <<>> <=> Len(Tail(s)) = 0
      BY <1>1, <2>1, Zenon
    <2> QED
      BY <2>2, <2>3, Zenon
  <1> QED
    BY <1>1, <1>2, <1>3, <1>4, <1>5

\* An empty sequence has no elements.
LEMMA NothingInEmpty == ToSet(<<>>) = {} /\ IsInjective(<<>>)
  BY DEF ToSet, IsInjective

-----------------------------------------------------------------------------
(* The refinement.                                                         *)

\* Swaps add no step to the life cycle of the engine: each of theirs is one
\* of its steps, or leaves it alone.
LEMMA StepOfLifecycle == [SwapNext]_allVars => [Next]_vars
  <1> SUFFICES ASSUME [SwapNext]_allVars PROVE [Next]_vars
    OBVIOUS
  <1>1. ASSUME NEW q \in Requests, Request(q) PROVE UNCHANGED vars
    BY <1>1 DEF Request
  <1>2. ASSUME NEW c \in Callers, SwapCall(c) PROVE Next
    BY <1>2 DEF SwapCall, Next
  <1>3. ASSUME NEW x \in Threads, FailPending(x) PROVE UNCHANGED vars
    BY <1>3 DEF FailPending, FailTake, FailLook, FailResolve
  <1>4. ASSUME NEW c \in Callers, SwapCallerStep(c) PROVE [Next]_vars
    BY <1>3, <1>4 DEF SwapCallerStep, CallerStep, Next
  <1>5. ASSUME NEW r \in Runs, SwapWorkerStep(r) PROVE [Next]_vars
    <2>1. CASE SwapLoopCheck(r)
      BY <2>1 DEF SwapLoopCheck, WorkerStep, Next
    <2>2. CASE SwapDrain(r) \/ SwapChildFails(r) \/ SwapResolve(r)
      BY <2>2 DEF SwapDrain, SwapChildFails, SwapResolve
    <2>3. CASE SwapApply(r) \/ SwapKeepsVoice(r)
      BY <2>3 DEF SwapApply, SwapKeepsVoice, Next
    <2>4. CASE SwapAbort(r)
      BY <2>4 DEF SwapAbort, AbortEngine, Next
    <2>5. CASE SwapRaises(r)
      BY <2>5 DEF SwapRaises, WorkerStep, Next
    <2>6. CASE WorkerStep(r) \/ ChunkDone(r) \/ ChunkRaises(r) \/ RestartChild(r)
               \/ LoopResolve(r)
      BY <2>6 DEF WorkerStep, Next
    <2> QED
      BY <1>3, <1>5, <2>1, <2>2, <2>3, <2>4, <2>5, <2>6 DEF SwapWorkerStep
  <1>6. CASE UNCHANGED allVars
    BY <1>6 DEF allVars
  <1> QED
    BY <1>1, <1>2, <1>4, <1>5, <1>6 DEF SwapNext, Next

\* The engine with swaps in it is an engine with the life cycle of module
\* EngineLifecycle.
THEOREM SwapsImplementLifecycle == SwapSpec => LifecycleSpec
  <1>1. SwapInit => Init
    BY DEF SwapInit
  <1> QED
    BY <1>1, StepOfLifecycle, PTL DEF SwapSpec, LifecycleSpec, Spec

\* So everything proved of the life cycle holds of the engine with swaps.
LEMMA LifecycleInvAlways == SwapSpec => []IndInv
  BY SwapsImplementLifecycle, IndInvAlways DEF LifecycleSpec

-----------------------------------------------------------------------------
(* Steps of the engine that leave the swaps alone.                         *)

TornDown == stopped \/ \E c \in Callers : pc[c] \in PastFail

\* A thread that fails requests goes on doing so, a chunk does not end in the
\* middle of a swap, and the engine is not torn down behind the requests' back.
LetsBe ==
  /\ \A x \in failing : AtFailPending(x)'
  /\ swapStep # "none" => thread' = thread /\ worker'[thread] = "chunk"
  /\ stopped' => TornDown
  /\ \A c \in Callers : pc'[c] \in PastFail => pc[c] \in PastFail

\* A fresh engine has no request anywhere.
LEMMA SwapInitEstablishes == SwapInit => SwapInv
  <1> SUFFICES ASSUME SwapInit PROVE SwapInv
    OBVIOUS
  <1> USE NothingInEmpty DEF SwapInit
  <1>1. SwapTypeOK
    BY DEF SwapTypeOK
  <1>2. NoneLost /\ NoGhostSwap /\ OnePlace /\ TakersFail
    BY DEF NoneLost, NoGhostSwap, OnePlace, TakersFail
  <1>3. SwapInChunk /\ AppliedIsSet /\ NothingAdded
    BY DEF SwapInChunk, AppliedIsSet, NothingAdded, HeldByRuns
  <1> QED
    BY <1>1, <1>2, <1>3 DEF SwapInv

\* Such a step keeps the books of the swaps in order.
LEMMA LetsBeKeeps == SwapInv /\ LetsBe /\ UNCHANGED swapVars => SwapInv'
  <1> SUFFICES ASSUME SwapInv, LetsBe, UNCHANGED swapVars PROVE SwapInv'
    OBVIOUS
  <1> USE DEF SwapInv, swapVars, requestVars, applyVars, outcomeVars, failVars
  <1>1. SwapTypeOK'
    BY DEF SwapTypeOK
  <1>2. NoneLost' /\ NoGhostSwap' /\ OnePlace' /\ AppliedIsSet'
    BY DEF NoneLost, NoGhostSwap, OnePlace, AppliedIsSet
  <1>3. TakersFail'
    BY DEF TakersFail, LetsBe
  <1>4. SwapInChunk'
    BY DEF SwapInChunk, LetsBe
  <1>5. NothingAdded'
    BY DEF NothingAdded, LetsBe, TornDown, HeldByRuns
  <1> QED
    BY <1>1, <1>2, <1>3, <1>4, <1>5

\* What a caller does outside _fail_pending_swaps() leaves the swaps alone.
LEMMA CallersLetBe ==
  ASSUME IndInv, SwapInv, NEW c \in Callers,
         CallStart(c) \/ CallStop(c) \/ CallerStep(c), pc[c] # "tdFail"
  PROVE  LetsBe
  <1>1. /\ pc \in [Callers -> LockedPcs \cup {"idle", "start", "stop"}]
        /\ worker \in [Runs -> WorkerPcs] /\ thread \in Runs \cup {NoRun}
        /\ \A x \in failing : AtFailPending(x) /\ x # c
        /\ SwapInChunk /\ FreshStart
    BY DEF IndInv, TypeOK, ThreadsTyped, ControlInv, SwapInv, SwapTypeOK, TakersFail,
           AtFailPending
  <1> USE <1>1 DEF SwapInChunk, AtFailPending, LetsBe, TornDown, PastFail, Goto, WorkerGoto,
                   controlVars, callVars
  <1>CallStart. CASE CallStart(c)
    BY <1>CallStart DEF CallStart
  <1>CallStop. CASE CallStop(c)
    BY <1>CallStop DEF CallStop
  <1>StartReturnsEarly. CASE StartReturnsEarly(c)
    BY <1>StartReturnsEarly DEF StartReturnsEarly
  <1>StartTearsDown. CASE StartTearsDown(c)
    BY <1>StartTearsDown DEF StartTearsDown
  <1>StartDirectly. CASE StartDirectly(c)
    BY <1>StartDirectly DEF StartDirectly
  <1>StartClear. CASE StartClear(c)
    BY <1>StartClear DEF StartClear
  <1>StartSpawn. CASE StartSpawn(c)
    BY <1>StartSpawn DEF StartSpawn, FreshStart, FreeRuns
  <1>StopReturnsEarly. CASE StopReturnsEarly(c)
    BY <1>StopReturnsEarly DEF StopReturnsEarly
  <1>StopTearsDown. CASE StopTearsDown(c)
    BY <1>StopTearsDown DEF StopTearsDown
  <1>TeardownEvent. CASE TeardownEvent(c)
    BY <1>TeardownEvent DEF TeardownEvent
  <1>TeardownJoinWorker. CASE TeardownJoinWorker(c)
    BY <1>TeardownJoinWorker DEF TeardownJoinWorker
  <1>TeardownJoinMonitor. CASE TeardownJoinMonitor(c)
    BY <1>TeardownJoinMonitor DEF TeardownJoinMonitor
  <1>TeardownJoinPreloader. CASE TeardownJoinPreloader(c)
    BY <1>TeardownJoinPreloader DEF TeardownJoinPreloader
  <1>TeardownStopClient. CASE TeardownStopClient(c)
    BY <1>TeardownStopClient DEF TeardownStopClient
  <1>TeardownRelease. CASE TeardownRelease(c)
    BY <1>TeardownRelease DEF TeardownRelease
  <1>TeardownFinish. CASE TeardownFinish(c)
    BY <1>TeardownFinish DEF TeardownFinish
  <1>TeardownFail. CASE TeardownFail(c)
    BY <1>TeardownFail DEF TeardownFail
  <1> QED
    BY <1>CallStart, <1>CallStop, <1>StartReturnsEarly, <1>StartTearsDown,
       <1>StartDirectly, <1>StartClear, <1>StartSpawn,
       <1>StopReturnsEarly, <1>StopTearsDown, <1>TeardownEvent,
       <1>TeardownJoinWorker, <1>TeardownJoinMonitor,
       <1>TeardownJoinPreloader, <1>TeardownStopClient,
       <1>TeardownRelease, <1>TeardownFinish, <1>TeardownFail
       DEF CallerStep

\* So does what the engine thread does outside the swaps of its chunks.
LEMMA RunsLetBe ==
  ASSUME IndInv, SwapInv, NEW r \in Runs,
         \/ WorkerStep(r) /\ worker[r] \notin {"loop", "chunk", "resolving"}
         \/ swapStep = "none" /\ (ChunkDone(r) \/ ChunkRaises(r) \/ RestartChild(r))
         \/ SelfAbort(r) \/ Relieved(r)
         \/ swapStep = "none" /\ Waits(r)
  PROVE  LetsBe
  <1>1. /\ worker \in [Runs -> WorkerPcs]
        /\ \A x \in failing : AtFailPending(x)
        /\ SwapInChunk /\ OneWorker
    BY DEF IndInv, TypeOK, ThreadsTyped, ControlInv, SwapInv, SwapTypeOK, TakersFail
  <1> USE <1>1 DEF OneWorker, SwapInChunk, AtFailPending, LetsBe, TornDown, PastFail, WorkerGoto,
                   controlVars, callVars
  <1>WorkerBail. CASE WorkerBail(r)
    BY <1>WorkerBail DEF WorkerBail
  <1>WorkerEnterPreamble. CASE WorkerEnterPreamble(r)
    BY <1>WorkerEnterPreamble DEF WorkerEnterPreamble
  <1>PreambleClock. CASE PreambleClock(r)
    BY <1>PreambleClock DEF PreambleClock, FailWarmup
  <1>PreambleModel. CASE PreambleModel(r)
    BY <1>PreambleModel DEF PreambleModel
  <1>PreambleModelFails. CASE PreambleModelFails(r)
    BY <1>PreambleModelFails DEF PreambleModelFails, FailWarmup
  <1>PreambleThreads. CASE PreambleThreads(r)
    BY <1>PreambleThreads DEF PreambleThreads
  <1>WarmupFailed. CASE WarmupFailed(r)
    BY <1>WarmupFailed DEF WarmupFailed
  <1>WarmupDone. CASE WarmupDone(r)
    BY <1>WarmupDone DEF WarmupDone
  <1>EnterLoop. CASE EnterLoop(r)
    BY <1>EnterLoop DEF EnterLoop
  <1>RestartEnds. CASE RestartEnds(r)
    BY <1>RestartEnds DEF RestartEnds
  <1>InferBroken. CASE InferBroken(r)
    BY <1>InferBroken DEF InferBroken
  <1>Relieved. CASE Relieved(r)
    BY <1>Relieved DEF Relieved, InferAnswered, CloseGoesOn
  <1>Waits. CASE swapStep = "none" /\ Waits(r)
    BY <1>Waits DEF Waits, InferHangs, CloseBlocks
  <1>LoopFailing. CASE LoopFailing(r)
    BY <1>LoopFailing DEF LoopFailing
  <1>LoopCrashing. CASE LoopCrashing(r)
    BY <1>LoopCrashing DEF LoopCrashing
  <1>LoopFlush. CASE LoopFlush(r)
    BY <1>LoopFlush DEF LoopFlush
  <1>LoopClose. CASE LoopClose(r)
    BY <1>LoopClose DEF LoopClose
  <1>WorkerEnds. CASE WorkerEnds(r)
    BY <1>WorkerEnds DEF WorkerEnds
  <1>SelfAbort. CASE SelfAbort(r)
    BY <1>SelfAbort DEF SelfAbort
  <1>ChunkDone. CASE swapStep = "none" /\ ChunkDone(r)
    BY <1>ChunkDone DEF ChunkDone
  <1>ChunkRaises. CASE swapStep = "none" /\ ChunkRaises(r)
    BY <1>ChunkRaises DEF ChunkRaises
  <1>RestartChild. CASE swapStep = "none" /\ RestartChild(r)
    BY <1>RestartChild DEF RestartChild
  <1> QED
    BY <1>WorkerBail, <1>WorkerEnterPreamble, <1>PreambleClock, <1>PreambleModel,
       <1>PreambleModelFails, <1>PreambleThreads, <1>WarmupFailed,
       <1>WarmupDone, <1>EnterLoop, <1>RestartEnds, <1>InferBroken, <1>Relieved, <1>Waits, <1>LoopFailing,
       <1>LoopCrashing, <1>LoopFlush, <1>LoopClose, <1>WorkerEnds,
       <1>SelfAbort, <1>ChunkDone, <1>ChunkRaises, <1>RestartChild
       DEF WorkerStep, LoopCheck, ChunkDone, ChunkRaises, RestartChild, LoopResolve

\* Helpers, signals and the calls that begin leave the swaps alone.
LEMMA OthersLetBe ==
  ASSUME IndInv, SwapInv,
         \/ \E k \in Kinds, r \in Runs : HelperStep(k, r)
         \/ FirstSignal \/ SignalAgain \/ UNCHANGED vars
  PROVE  LetsBe
  <1>1. /\ \A x \in failing : AtFailPending(x)
        /\ SwapInChunk
    BY DEF SwapInv, SwapTypeOK, TakersFail
  <1>2. UNCHANGED <<stopped, thread, worker, callVars>>
    BY DEF HelperStep, HelperStops, HelperTakes, HelperDone, FirstSignal, SignalAgain,
           vars, controlVars
  <1> QED
    BY <1>1, <1>2 DEF SwapInChunk, AtFailPending, LetsBe, TornDown, PastFail, callVars

-----------------------------------------------------------------------------
(* Steps of the swaps.                                                     *)

\* A request that is not refused is queued while no teardown has come past
\* the point where it fails requests.
LEMMA RequestKeeps ==
  ASSUME IndInv, SwapInv, NEW q \in Requests, Request(q)
  PROVE  SwapInv'
  <1> USE DEF SwapInv, vars, controlVars, callVars, requestVars, applyVars, outcomeVars, failVars
  <1>0. UNCHANGED <<vars, applyVars, failVars>> /\ q \notin accepted \cup done
    BY DEF Request
  <1>1. CASE Refused
    <2>1. /\ error' = [error EXCEPT ![q] = "stopped"] /\ done' = done \cup {q}
          /\ UNCHANGED requestVars
      BY <1>1 DEF Request
    <2>2. SwapTypeOK'
      BY <1>0, <2>1 DEF SwapTypeOK
    <2>3. NoneLost' /\ NoGhostSwap' /\ OnePlace'
      BY <1>0, <2>1 DEF SwapTypeOK, NoneLost, NoGhostSwap, OnePlace
    <2>4. TakersFail' /\ SwapInChunk'
      BY <1>0, <2>1 DEF TakersFail, AtFailPending, SwapInChunk
    <2>5. AppliedIsSet'
      <3>1. swapStep = "resolve" => Head(batch) \in ToSet(batch)
        BY HeadAndTail DEF SwapTypeOK
      <3> QED
        BY <1>0, <2>1, <3>1 DEF SwapTypeOK, AppliedIsSet, OnePlace
    <2>6. NothingAdded'
      BY <1>0, <2>1 DEF NothingAdded, HeldByRuns
    <2> QED
      BY <2>2, <2>3, <2>4, <2>5, <2>6
  <1>2. CASE ~Refused
    <2>1. /\ accepted' = accepted \cup {q} /\ swapQueue' = Append(swapQueue, q)
          /\ outstanding' = outstanding \cup {q} /\ UNCHANGED outcomeVars
      BY <1>2 DEF Request
    <2>2. /\ swapQueue' \in Seq(Requests) /\ IsInjective(swapQueue')
          /\ ToSet(swapQueue') = ToSet(swapQueue) \cup {q}
      BY <1>0, <2>1, AppendFresh DEF SwapTypeOK, OnePlace
    <2>3. SwapTypeOK'
      BY <1>0, <2>1, <2>2 DEF SwapTypeOK
    <2>4. NoneLost' /\ NoGhostSwap' /\ OnePlace'
      BY <1>0, <2>1, <2>2 DEF SwapTypeOK, NoneLost, NoGhostSwap, OnePlace
    <2>5. TakersFail' /\ SwapInChunk' /\ AppliedIsSet'
      BY <1>0, <2>1 DEF TakersFail, AtFailPending, SwapInChunk, AppliedIsSet
    <2>6. ~stopEvent /\ ~stopped
      BY <1>2 DEF Refused
    <2>7. \A c \in Callers : c \notin failing /\ pc[c] \notin PastFail
      BY <2>6 DEF IndInv, ControlInv, EventHolds, TeardownPcs, TakersFail, AtFailPending, PastFail
    <2>8. NothingAdded'
      BY <1>0, <2>6, <2>7 DEF NothingAdded
    <2> QED
      BY <2>3, <2>4, <2>5, <2>8
  <1> QED
    BY <1>1, <1>2

\* The engine thread drains the queue, applies the request at the head of the
\* batch, and resolves or fails it.
LEMMA SwapsKeep ==
  ASSUME IndInv, SwapInv, NEW r \in Runs,
         \/ SwapLoopCheck(r) \/ SwapDrain(r) \/ SwapApply(r) \/ SwapKeepsVoice(r)
         \/ SwapChildFails(r) \/ SwapAbort(r) \/ SwapResolve(r) \/ SwapRaises(r)
  PROVE  SwapInv'
  <1> USE NothingInEmpty DEF requestVars, applyVars, outcomeVars, failVars
  <1>0. /\ SwapTypeOK /\ NoneLost /\ NoGhostSwap
        /\ OnePlace /\ TakersFail /\ SwapInChunk /\ AppliedIsSet /\ NothingAdded
    BY DEF SwapInv
  <1>1. worker \in [Runs -> WorkerPcs] /\ (worker[r] # "dead" => r = thread)
        /\ thread \in Runs \cup {NoRun}
    BY DEF IndInv, TypeOK, ThreadsTyped, ControlInv, OneWorker
  <1>2. \A x \in failing : AtFailPending(x)
    BY <1>0 DEF SwapTypeOK, TakersFail
  <1>3. batch # <<>> =>
          /\ Head(batch) \in Requests /\ Head(batch) \in ToSet(batch)
          /\ Tail(batch) \in Seq(Requests) /\ IsInjective(Tail(batch))
          /\ ToSet(Tail(batch)) \subseteq ToSet(batch)
          /\ Tail(batch) = <<>> <=> Len(batch) = 1
    BY <1>0, HeadAndTail DEF SwapTypeOK
  <1>SwapLoopCheck. CASE SwapLoopCheck(r)
    <2>1. /\ worker[r] = "loop"
          /\ worker' = [worker EXCEPT ![r] = IF stopEvent THEN "flushing" ELSE "chunk"]
          /\ swapStep' = IF stopEvent THEN "none" ELSE "drain"
          /\ UNCHANGED <<requestVars, batch, voice, outcomeVars, failVars>>
          /\ UNCHANGED <<stopped, thread, pc>>
      BY <1>SwapLoopCheck DEF SwapLoopCheck, LoopCheck, WorkerGoto, controlVars, callVars
    <2>2. batch = <<>>
      BY <1>0, <1>1, <2>1 DEF SwapInChunk, SwapTypeOK
    <2>3. SwapTypeOK'
      BY <1>0, <2>1, <2>2 DEF SwapTypeOK
    <2>4. NoneLost' /\ NoGhostSwap' /\ OnePlace'
      BY <1>0, <2>1 DEF NoneLost, NoGhostSwap, OnePlace
    <2>5. TakersFail' /\ AppliedIsSet'
      BY <1>0, <1>1, <2>1 DEF TakersFail, AtFailPending, AppliedIsSet
    <2>6. SwapInChunk'
      BY <1>1, <2>1 DEF SwapInChunk
    <2>7. NothingAdded'
      BY <1>0, <2>1 DEF NothingAdded, HeldByRuns
    <2> QED
      BY <2>3, <2>4, <2>5, <2>6, <2>7 DEF SwapInv
  <1>SwapDrain. CASE SwapDrain(r)
    <2> USE <1>0, <1>SwapDrain DEF SwapDrain, vars, controlVars, callVars
    <2>1. SwapTypeOK' /\ AppliedIsSet'
      BY DEF SwapTypeOK, AppliedIsSet
    <2>2. NoneLost' /\ NoGhostSwap' /\ OnePlace'
      BY DEF NoneLost, NoGhostSwap, OnePlace
    <2>3. TakersFail' /\ SwapInChunk'
      BY DEF TakersFail, AtFailPending, SwapInChunk
    <2>4. NothingAdded'
      BY DEF NothingAdded, HeldByRuns
    <2> QED
      BY <2>1, <2>2, <2>3, <2>4 DEF SwapInv
  <1>SwapApply. CASE SwapApply(r) \/ SwapKeepsVoice(r)
    <2>1. UNCHANGED <<controlVars, worker, callVars>>
      BY <1>SwapApply DEF SwapApply, SwapKeepsVoice, ChunkLoads, vars
    <2>2. /\ UNCHANGED <<requestVars, batch, done, failVars>>
          /\ swapStep = "apply" /\ swapStep' = "resolve"
      BY <1>SwapApply DEF SwapApply, SwapKeepsVoice, Applying
    <2>3. \/ error' = error /\ voice' = Head(batch)
          \/ error' = [error EXCEPT ![Head(batch)] = "failed"] /\ voice' = voice
      BY <1>SwapApply DEF SwapApply, SwapKeepsVoice
    <2>4. batch # <<>>
      BY <1>0, <2>2 DEF SwapTypeOK
    <2>5. SwapTypeOK'
      BY <1>0, <1>3, <2>2, <2>3, <2>4 DEF SwapTypeOK
    <2>6. NoneLost' /\ NoGhostSwap' /\ OnePlace'
      BY <1>0, <2>2 DEF NoneLost, NoGhostSwap, OnePlace
    <2>7. TakersFail' /\ SwapInChunk'
      BY <1>0, <2>1, <2>2 DEF TakersFail, AtFailPending, SwapInChunk, callVars, controlVars
    <2>8. AppliedIsSet'
      BY <1>0, <1>3, <2>2, <2>3, <2>4 DEF AppliedIsSet, SwapTypeOK
    <2>9. NothingAdded'
      BY <1>0, <2>1, <2>2 DEF NothingAdded, HeldByRuns, callVars, controlVars
    <2> QED
      BY <2>5, <2>6, <2>7, <2>8, <2>9 DEF SwapInv
  <1>SwapChildFails. CASE SwapChildFails(r)
    <2> USE <1>0, <1>SwapChildFails DEF SwapChildFails, Applying, vars, controlVars, callVars
    <2>1. batch # <<>>
      BY DEF SwapTypeOK
    <2>2. SwapTypeOK'
      BY <1>3, <2>1 DEF SwapTypeOK
    <2>3. NoneLost' /\ NoGhostSwap' /\ OnePlace'
      BY <1>3, <2>1 DEF NoneLost, NoGhostSwap, OnePlace
    <2>4. TakersFail' /\ SwapInChunk' /\ AppliedIsSet'
      BY DEF TakersFail, AtFailPending, SwapInChunk, AppliedIsSet
    <2>5. NothingAdded'
      BY DEF NothingAdded, HeldByRuns
    <2> QED
      BY <2>2, <2>3, <2>4, <2>5 DEF SwapInv
  <1>SwapAbort. CASE SwapAbort(r)
    <2> USE <1>0, <1>SwapAbort
        DEF SwapAbort, AbortEngine, SelfAbort, NextInBatch, callVars
    <2>1. batch # <<>>
      BY DEF SwapTypeOK
    <2>2. SwapTypeOK' /\ AppliedIsSet'
      BY <1>3, <2>1 DEF SwapTypeOK, AppliedIsSet
    <2>3. NoneLost' /\ NoGhostSwap' /\ OnePlace'
      BY <1>3, <2>1 DEF NoneLost, NoGhostSwap, OnePlace
    <2>4. TakersFail' /\ SwapInChunk'
      BY DEF TakersFail, AtFailPending, SwapInChunk
    <2>5. NothingAdded'
      BY DEF NothingAdded, HeldByRuns
    <2> QED
      BY <2>2, <2>3, <2>4, <2>5 DEF SwapInv
  <1>SwapResolve. CASE SwapResolve(r)
    <2> USE <1>0, <1>SwapResolve
        DEF SwapResolve, ResolvedNow, NextInBatch, vars, controlVars, callVars
    <2>1. batch # <<>>
      BY DEF SwapTypeOK
    <2>2. SwapTypeOK' /\ AppliedIsSet'
      BY <1>3, <2>1 DEF SwapTypeOK, AppliedIsSet
    <2>3. NoneLost' /\ NoGhostSwap' /\ OnePlace'
      BY <1>3, <2>1 DEF NoneLost, NoGhostSwap, OnePlace
    <2>4. TakersFail' /\ SwapInChunk'
      BY DEF TakersFail, AtFailPending, SwapInChunk
    <2>5. NothingAdded'
      BY DEF NothingAdded, HeldByRuns
    <2> QED
      BY <2>2, <2>3, <2>4, <2>5 DEF SwapInv
  <1>SwapRaises. CASE SwapRaises(r)
    <2> USE <1>0, <1>SwapRaises
        DEF SwapRaises, FailedWithRaise, ChunkRaises, WorkerGoto, controlVars, callVars
    <2>1. ToSet(batch) \subseteq Requests
      BY DEF SwapTypeOK, ToSet
    <2>2. SwapTypeOK' /\ AppliedIsSet'
      BY <2>1 DEF SwapTypeOK, AppliedIsSet
    <2>3. NoneLost' /\ NoGhostSwap' /\ OnePlace'
      BY DEF NoneLost, NoGhostSwap, OnePlace
    <2>4. TakersFail' /\ SwapInChunk'
      BY <1>1 DEF TakersFail, AtFailPending, SwapInChunk
    <2>5. NothingAdded'
      BY DEF NothingAdded, HeldByRuns
    <2> QED
      BY <2>2, <2>3, <2>4, <2>5 DEF SwapInv
  <1> QED
    BY <1>SwapLoopCheck, <1>SwapDrain, <1>SwapApply, <1>SwapChildFails, <1>SwapAbort,
       <1>SwapResolve, <1>SwapRaises

\* _fail_pending_swaps() takes what there is and answers what is not answered.
LEMMA FailPendingKeeps ==
  ASSUME SwapInv, NEW x \in Threads, FailPending(x)
  PROVE  SwapInv'
  <1>0. /\ SwapTypeOK /\ NoneLost /\ NoGhostSwap
        /\ OnePlace /\ TakersFail /\ SwapInChunk /\ AppliedIsSet /\ NothingAdded
        /\ UNCHANGED <<vars, applyVars>>
    BY DEF SwapInv, FailPending, FailTake, FailLook, FailResolve
  <1> USE <1>0, NothingInEmpty
      DEF vars, controlVars, callVars, requestVars, applyVars, outcomeVars, failVars
  <1>1. CASE FailTake(x)
    <2> USE <1>1 DEF FailTake, OutstandingOrQueued, QueueEmptied
    <2>1. ToSet(swapQueue) \subseteq Requests
      BY DEF SwapTypeOK, ToSet
    <2>2. SwapTypeOK'
      BY <2>1 DEF SwapTypeOK
    <2>3. NoneLost' /\ NoGhostSwap' /\ OnePlace'
      BY DEF SwapTypeOK, NoneLost, NoGhostSwap, OnePlace, TakersFail
    <2>4. TakersFail' /\ SwapInChunk' /\ AppliedIsSet'
      BY DEF SwapTypeOK, TakersFail, AtFailPending, SwapInChunk, AppliedIsSet
    <2>5. HeldByRuns => HeldByRuns'
      BY DEF SwapTypeOK, TakersFail, HeldByRuns
    <2>6. NothingAdded'
      BY <2>5 DEF NothingAdded
    <2> QED
      BY <2>2, <2>3, <2>4, <2>6 DEF SwapInv
  <1>2. CASE FailLook(x)
    <2> USE <1>2 DEF FailLook
    <2>1. SwapTypeOK'
      BY DEF SwapTypeOK
    <2>2. NoneLost' /\ NoGhostSwap' /\ OnePlace'
      BY DEF SwapTypeOK, NoneLost, NoGhostSwap, OnePlace
    <2>3. TakersFail' /\ SwapInChunk' /\ AppliedIsSet'
      BY DEF SwapTypeOK, TakersFail, AtFailPending, SwapInChunk, AppliedIsSet
    <2>4. HeldByRuns => HeldByRuns'
      BY DEF SwapTypeOK, HeldByRuns
    <2>5. NothingAdded'
      BY <2>4 DEF NothingAdded
    <2> QED
      BY <2>1, <2>2, <2>3, <2>5 DEF SwapInv
  <1>3. CASE FailResolve(x)
    <2> USE <1>3 DEF FailResolve
    <2>0. doomed[x] \in pending[x] /\ doomed[x] \in Requests
      BY DEF SwapTypeOK, TakersFail
    <2>1. SwapTypeOK'
      BY <2>0 DEF SwapTypeOK
    <2>2. NoneLost' /\ NoGhostSwap' /\ OnePlace'
      BY <2>0 DEF SwapTypeOK, NoneLost, NoGhostSwap, OnePlace
    <2>3. TakersFail' /\ SwapInChunk'
      BY <2>0 DEF SwapTypeOK, TakersFail, AtFailPending, SwapInChunk
    <2>4. AppliedIsSet'
      BY <2>0 DEF SwapTypeOK, AppliedIsSet
    <2>5. HeldByRuns => HeldByRuns'
      BY <2>0 DEF SwapTypeOK, HeldByRuns
    <2>6. NothingAdded'
      BY <2>5 DEF NothingAdded
    <2> QED
      BY <2>1, <2>2, <2>3, <2>4, <2>6 DEF SwapInv
  <1> QED
    BY <1>1, <1>2, <1>3 DEF FailPending

\* A teardown goes on when it has answered what it took: what is still open
\* then is with the ending engine thread, for no other caller holds the lock.
LEMMA TeardownFailKeeps ==
  ASSUME IndInv, SwapInv, NEW c \in Callers, TeardownFail(c), FailFinished(c)
  PROVE  SwapInv'
  <1>0. /\ SwapTypeOK /\ NoneLost /\ NoGhostSwap
        /\ OnePlace /\ TakersFail /\ SwapInChunk /\ AppliedIsSet /\ NothingAdded
    BY DEF SwapInv
  <1>1. /\ failing' = failing \ {c} /\ c \in failing /\ pending[c] = {}
        /\ UNCHANGED <<requestVars, applyVars, outcomeVars, pending, doomed>>
        /\ UNCHANGED <<thread, stopped, worker>>
    BY DEF FailFinished, TeardownFail, controlVars
  <1>2. /\ pc \in [Callers -> LockedPcs \cup {"idle", "start", "stop"}]
        /\ pc[c] = "tdFail" /\ pc' = [pc EXCEPT ![c] = "tdWorker"]
        /\ \A d \in Callers : pc[d] = "tdFail" => c = d
    BY DEF TeardownFail, Goto, IndInv, TypeOK, ThreadsTyped, ControlInv, LockExclusive
  <1> USE DEF requestVars, applyVars, outcomeVars
  <1>3. SwapTypeOK'
    BY <1>0, <1>1 DEF SwapTypeOK
  <1>4. NoneLost' /\ NoGhostSwap' /\ OnePlace' /\ AppliedIsSet' /\ SwapInChunk'
    BY <1>0, <1>1 DEF NoneLost, NoGhostSwap, OnePlace, AppliedIsSet, SwapInChunk
  <1>5. TakersFail'
    BY <1>0, <1>1, <1>2 DEF TakersFail, AtFailPending
  <1>6. outstanding = {} /\ swapQueue = <<>>
    BY <1>0, <1>1 DEF NothingAdded
  <1>7. HeldByRuns
    <2> SUFFICES ASSUME NEW q \in accepted \ done PROVE \E r \in Runs : q \in pending[r]
      BY DEF HeldByRuns
    <2>1. PICK x \in Threads : q \in pending[x]
      BY <1>0, <1>6 DEF NoneLost
    <2>2. x \in failing /\ x # c
      BY <1>0, <1>1, <2>1 DEF TakersFail
    <2>3. x \notin Callers
      BY <1>0, <1>2, <2>2 DEF TakersFail, AtFailPending
    <2> QED
      BY <2>1, <2>3
  <1>8. NothingAdded'
    BY <1>1, <1>6, <1>7 DEF NothingAdded, HeldByRuns
  <1> QED
    BY <1>3, <1>4, <1>5, <1>8 DEF SwapInv

\* So does the engine thread at the end of its loop.
LEMMA LoopResolveKeeps ==
  ASSUME IndInv, SwapInv, NEW r \in Runs, LoopResolve(r), FailFinished(r)
  PROVE  SwapInv'
  <1>0. /\ SwapTypeOK /\ NoneLost /\ NoGhostSwap
        /\ OnePlace /\ TakersFail /\ SwapInChunk /\ AppliedIsSet /\ NothingAdded
    BY DEF SwapInv
  <1>1. /\ failing' = failing \ {r} /\ r \in failing /\ pending[r] = {}
        /\ UNCHANGED <<requestVars, applyVars, outcomeVars, pending, doomed>>
        /\ UNCHANGED <<thread, stopped, pc>>
    BY DEF FailFinished, LoopResolve, controlVars, callVars
  <1>2. /\ worker \in [Runs -> WorkerPcs] /\ thread \in Runs \cup {NoRun}
        /\ worker[r] = "resolving" /\ worker' = [worker EXCEPT ![r] = "ending"]
    BY DEF LoopResolve, WorkerGoto, IndInv, TypeOK, ThreadsTyped
  <1> USE DEF requestVars, applyVars, outcomeVars
  <1>3. SwapTypeOK'
    BY <1>0, <1>1 DEF SwapTypeOK
  <1>4. NoneLost' /\ NoGhostSwap' /\ OnePlace' /\ AppliedIsSet'
    BY <1>0, <1>1 DEF NoneLost, NoGhostSwap, OnePlace, AppliedIsSet
  <1>5. TakersFail'
    BY <1>0, <1>1, <1>2 DEF TakersFail, AtFailPending
  <1>6. SwapInChunk'
    BY <1>0, <1>1, <1>2 DEF SwapInChunk
  <1>7. NothingAdded'
    BY <1>0, <1>1 DEF NothingAdded, HeldByRuns
  <1> QED
    BY <1>3, <1>4, <1>5, <1>6, <1>7 DEF SwapInv

-----------------------------------------------------------------------------
(* The theorems.                                                           *)

\* Every step of the engine and its swaps preserves the invariant.
LEMMA SwapInductive == IndInv /\ SwapInv /\ [SwapNext]_allVars => SwapInv'
  <1> SUFFICES ASSUME IndInv, SwapInv, [SwapNext]_allVars PROVE SwapInv'
    OBVIOUS
  <1>1. ASSUME NEW q \in Requests, Request(q) PROVE SwapInv'
    BY <1>1, RequestKeeps
  <1>2. ASSUME NEW c \in Callers, SwapCall(c) \/ SwapCallerStep(c) PROVE SwapInv'
    <2>1. CASE SwapCall(c)
      <3>1. pc[c] # "tdFail" /\ (CallStart(c) \/ CallStop(c)) /\ UNCHANGED swapVars
        BY <2>1 DEF SwapCall, CallStart, CallStop
      <3> QED
        BY <3>1, CallersLetBe, LetsBeKeeps
    <2>2. CASE CallerStep(c) /\ pc[c] # "tdFail" /\ UNCHANGED swapVars
      BY <2>2, CallersLetBe, LetsBeKeeps
    <2>3. CASE FailPending(c)
      BY <2>3, FailPendingKeeps
    <2>4. CASE TeardownFail(c) /\ FailFinished(c)
      BY <2>4, TeardownFailKeeps
    <2> QED
      BY <1>2, <2>1, <2>2, <2>3, <2>4 DEF SwapCallerStep
  <1>3. ASSUME NEW r \in Runs, SwapWorkerStep(r) PROVE SwapInv'
    <2>1. CASE /\ UNCHANGED swapVars
               /\ \/ WorkerStep(r) /\ worker[r] \notin {"loop", "chunk", "resolving"}
                  \/ swapStep = "none" /\ (ChunkDone(r) \/ ChunkRaises(r) \/ RestartChild(r))
      BY <2>1, RunsLetBe, LetsBeKeeps
    <2>2. CASE \/ SwapLoopCheck(r) \/ SwapDrain(r) \/ SwapApply(r) \/ SwapKeepsVoice(r)
               \/ SwapChildFails(r) \/ SwapAbort(r) \/ SwapResolve(r) \/ SwapRaises(r)
      BY <2>2, SwapsKeep
    <2>3. CASE FailPending(r)
      BY <2>3, FailPendingKeeps
    <2>4. CASE LoopResolve(r) /\ FailFinished(r)
      BY <2>4, LoopResolveKeeps
    <2> QED
      BY <1>3, <2>1, <2>2, <2>3, <2>4 DEF SwapWorkerStep
  <1>4. ASSUME NEW r \in Runs, SelfAbort(r) \/ Relieved(r) \/ (swapStep = "none" /\ Waits(r)),
               UNCHANGED swapVars
        PROVE  SwapInv'
    BY <1>4, RunsLetBe, LetsBeKeeps
  <1>5. CASE /\ UNCHANGED swapVars
             /\ \/ \E k \in Kinds, r \in Runs : HelperStep(k, r)
                \/ FirstSignal \/ SignalAgain \/ UNCHANGED vars
    BY <1>5, OthersLetBe, LetsBeKeeps
  <1> QED
    BY <1>1, <1>2, <1>3, <1>4, <1>5 DEF SwapNext, allVars

\* Nobody loses an accepted request: it is queued, being applied, or held by a
\* thread that will answer it, and an answered one is in no queue.
THEOREM SwapInvAlways == SwapSpec => []SwapInv
  BY SwapInitEstablishes, SwapInductive, LifecycleInvAlways, PTL DEF SwapSpec

\* A stopped engine has answered every request it accepted, but for those the
\* ending engine thread is answering itself.
THEOREM StoppedResolvesAllAlways == SwapSpec => []StoppedResolvesAll
  <1>1. SwapInv => StoppedResolvesAll
    BY DEF SwapInv, NothingAdded, StoppedResolvesAll
  <1> QED
    BY <1>1, SwapInvAlways, PTL

\* A request that is answered without an error is answered when its voice has
\* just been loaded.
THEOREM DoneIsAppliedAlways == SwapSpec => DoneIsApplied
  <1> DEFINE Truthful == \A q \in done' \ done : error'[q] = "none" => voice = q
  <1>1. IndInv /\ SwapInv /\ [SwapNext]_allVars => [Truthful]_allVars
    <2> SUFFICES ASSUME SwapInv, [SwapNext]_allVars,
                        NEW q \in done' \ done, error'[q] = "none"
                 PROVE  voice = q
      OBVIOUS
    <2> USE DEF SwapInv, SwapTypeOK, requestVars, outcomeVars, failVars
    <2>1. ASSUME NEW p \in Requests, Request(p) PROVE FALSE
      BY <2>1 DEF Request
    <2>2. ASSUME NEW x \in Threads, FailPending(x) PROVE FALSE
      <3>1. doomed[x] # NoRequest => doomed[x] \in Requests
        OBVIOUS
      <3> QED
        BY <2>2, <3>1 DEF FailPending, FailTake, FailLook, FailResolve
    <2>3. ASSUME NEW r \in Runs, SwapResolve(r) PROVE voice = q
      BY <2>3 DEF SwapResolve, ResolvedNow, AppliedIsSet
    <2>4. ASSUME NEW r \in Runs, SwapChildFails(r) PROVE FALSE
      <3>1. Head(batch) \in Requests
        BY <2>4, HeadAndTail DEF SwapChildFails, Applying
      <3> QED
        BY <2>4, <3>1 DEF SwapChildFails
    <2>5. ASSUME NEW r \in Runs, SwapRaises(r) PROVE FALSE
      <3>1. q \in ToSet(batch) /\ q \in Requests
        BY <2>5 DEF SwapRaises, FailedWithRaise, ToSet
      <3> QED
        BY <2>5, <3>1 DEF SwapRaises, FailedWithRaise
    <2>6. done' # done
      OBVIOUS
    <2> QED
      BY <2>1, <2>2, <2>3, <2>4, <2>5, <2>6
         DEF SwapNext, SwapCall, SwapCallerStep, SwapWorkerStep, FailFinished, SwapLoopCheck,
             SwapDrain, SwapApply, SwapKeepsVoice, SwapAbort, allVars, swapVars
  <1> QED
    BY <1>1, LifecycleInvAlways, SwapInvAlways, PTL DEF SwapSpec, DoneIsApplied
=============================================================================
