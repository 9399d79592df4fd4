----------------------------- MODULE ModelSwap -----------------------------
(***************************************************************************)
(* Hot swaps of the voice model (src/audio/model_swap.py) on top of the    *)
(* life cycle of the engine: request_model_swap() queues a request, the    *)
(* engine thread drains the queue at the start of a chunk and applies each *)
(* request, and whoever tears a run down fails what is left.  A request is *)
(* resolved when its completion event is set; its error says how.          *)
(*                                                                         *)
(* Critical sections of _swap_lock are single steps.  The bound is the set *)
(* Requests: each is made at most once.                                    *)
(***************************************************************************)
EXTENDS EngineLifecycle, Sequences, SequencesExt

CONSTANTS Requests, NoRequest

ASSUME NoRequestAssumption == NoRequest \notin Requests
ASSUME ThreadsAssumption == Callers \cap Runs = {}

VARIABLES
  accepted,     \* requests that were queued
  swapQueue,    \* _swap_queue
  outstanding,  \* _outstanding_swaps
  batch,        \* requests the engine thread drained, the first in progress
  swapStep,     \* where the engine thread is in _maybe_swap_model()
  voice,        \* cfg.rvc_model, NoRequest until a swap is applied
  error,        \* each request's error
  done,         \* requests whose completion event is set
  failing,      \* threads that run _fail_pending_swaps()
  pending,      \* ... the requests each of them still has to look at
  doomed        \* ... and the one each of them found unresolved

requestVars == <<accepted, swapQueue, outstanding>>
applyVars   == <<batch, swapStep, voice>>
outcomeVars == <<error, done>>
failVars    == <<failing, pending, doomed>>
swapVars    == <<requestVars, applyVars, outcomeVars, failVars>>

Threads == Callers \cup Runs

SwapTypeOK ==
  /\ accepted \subseteq Requests
  /\ swapQueue \in Seq(Requests) /\ IsInjective(swapQueue)
  /\ outstanding \subseteq Requests
  /\ batch \in Seq(Requests) /\ IsInjective(batch)
  /\ swapStep \in {"none", "drain", "apply", "resolve", "abort"}
  /\ voice \in Requests \cup {NoRequest}
  /\ error \in [Requests -> {"none", "stopped", "failed"}]
  /\ done \subseteq Requests
  /\ failing \subseteq Threads
  /\ pending \in [Threads -> SUBSET Requests]
  /\ doomed \in [Threads -> Requests \cup {NoRequest}]
  /\ batch # <<>> <=> swapStep \in {"apply", "resolve", "abort"}

SwapInit ==
  /\ Init
  /\ accepted = {} /\ swapQueue = <<>> /\ outstanding = {}
  /\ batch = <<>> /\ swapStep = "none" /\ voice = NoRequest
  /\ error = [q \in Requests |-> "none"] /\ done = {}
  /\ failing = {}
  /\ pending = [x \in Threads |-> {}]
  /\ doomed = [x \in Threads |-> NoRequest]

(***************************************************************************)
(* request_model_swap(): refused at once by an engine that is stopped or   *)
(* told to stop.                                                           *)
(***************************************************************************)
RefusedIfStopped == stopped
Refused == stopped \/ stopEvent

Request(q) ==
  /\ q \notin accepted \cup done
  /\ IF Refused
     THEN /\ error' = [error EXCEPT ![q] = "stopped"]
          /\ done' = done \cup {q}
          /\ UNCHANGED requestVars
     ELSE /\ accepted' = accepted \cup {q}
          /\ swapQueue' = Append(swapQueue, q)
          /\ outstanding' = outstanding \cup {q}
          /\ UNCHANGED outcomeVars
  /\ UNCHANGED <<vars, applyVars, failVars>>

(***************************************************************************)
(* _maybe_swap_model() and _apply_one_swap(), at the start of a chunk.     *)
(***************************************************************************)
SwapLoopCheck(r) ==
  /\ LoopCheck(r)
  /\ swapStep' = IF stopEvent THEN "none" ELSE "drain"
  /\ UNCHANGED <<requestVars, batch, voice, outcomeVars, failVars>>

SwapDrain(r) ==
  /\ worker[r] = "chunk" /\ swapStep = "drain"
  /\ batch' = swapQueue
  /\ swapQueue' = <<>>
  /\ swapStep' = IF swapQueue = <<>> THEN "none" ELSE "apply"
  /\ UNCHANGED <<vars, accepted, outstanding, voice, outcomeVars, failVars>>

Applying(r) == worker[r] = "chunk" /\ swapStep = "apply"

\* The inference child swaps, or the session is loaded into this process.
SwapApply(r) ==
  /\ Applying(r)
  /\ IF client = NoRun THEN ChunkLoads(r) ELSE UNCHANGED vars
  /\ voice' = Head(batch)
  /\ swapStep' = "resolve"
  /\ UNCHANGED <<requestVars, batch, outcomeVars, failVars>>

\* In this process a model that does not load or probe leaves the old voice.
SwapKeepsVoice(r) ==
  /\ Applying(r) /\ client = NoRun
  /\ ChunkLoads(r) \/ UNCHANGED vars
  /\ error' = [error EXCEPT ![Head(batch)] = "failed"]
  /\ swapStep' = "resolve"
  /\ UNCHANGED <<requestVars, batch, voice, done, failVars>>

\* A child that does not swap is resolved as failed, then the engine aborts.
SwapChildFails(r) ==
  /\ Applying(r) /\ client # NoRun
  /\ error' = [error EXCEPT ![Head(batch)] = "failed"]
  /\ done' = done \cup {Head(batch)}
  /\ outstanding' = outstanding \ {Head(batch)}
  /\ swapStep' = "abort"
  /\ UNCHANGED <<vars, accepted, swapQueue, batch, voice, failVars>>

NextInBatchOffByOne ==
  /\ batch' = Tail(batch)
  /\ swapStep' = IF Len(batch) = 0 THEN "none" ELSE "apply"
NextInBatch ==
  /\ batch' = Tail(batch)
  /\ swapStep' = IF Len(batch) = 1 THEN "none" ELSE "apply"

AbortQuietly(r) ==
  /\ stopEvent' = TRUE
  /\ UNCHANGED <<lockHeld, stopped, thread, statVars, gcVars, signalVars,
                 clockVars, modelVars, worker, helperVars, callVars>>
AbortEngine(r) == SelfAbort(r)

SwapAbort(r) ==
  /\ worker[r] = "chunk" /\ swapStep = "abort"
  /\ AbortEngine(r)
  /\ NextInBatch
  /\ UNCHANGED <<requestVars, voice, outcomeVars, failVars>>

ResolvedBroadcast == ToSet(batch)
ResolvedByNobody == {}
ResolvedNow == {Head(batch)}

SwapResolve(r) ==
  /\ worker[r] = "chunk" /\ swapStep = "resolve"
  /\ done' = done \cup ResolvedNow
  /\ outstanding' = outstanding \ ResolvedNow
  /\ NextInBatch
  /\ UNCHANGED <<vars, accepted, swapQueue, voice, error, failVars>>

\* Any other exception fails the rest of the batch and ends the chunk loop.
FailedWithRaise == ToSet(batch)
SwapRaises(r) ==
  /\ Applying(r)
  /\ ChunkRaises(r)
  /\ error' = [q \in Requests |-> IF q \in FailedWithRaise THEN "failed" ELSE error[q]]
  /\ done' = done \cup FailedWithRaise
  /\ outstanding' = outstanding \ FailedWithRaise
  /\ batch' = <<>> /\ swapStep' = "none"
  /\ UNCHANGED <<accepted, swapQueue, voice, failVars>>

(***************************************************************************)
(* _fail_pending_swaps(), by a teardown or at the end of the chunk loop:   *)
(* take everything under the lock, then look at each request and fail it   *)
(* outside the lock.                                                       *)
(***************************************************************************)
AtFailPending(x) == \/ x \in Callers /\ pc[x] = "tdFail"
                    \/ x \in Runs /\ worker[x] = "resolving"

QueuedOnly == ToSet(swapQueue)
OutstandingOrQueued == outstanding \cup ToSet(swapQueue)

QueueKept == UNCHANGED swapQueue
QueueEmptied == swapQueue' = <<>>

FailTake(x) ==
  /\ AtFailPending(x) /\ x \notin failing
  /\ failing' = failing \cup {x}
  /\ pending' = [pending EXCEPT ![x] = OutstandingOrQueued]
  /\ outstanding' = {}
  /\ QueueEmptied
  /\ UNCHANGED <<vars, accepted, applyVars, outcomeVars, doomed>>

FailLook(x) ==
  /\ x \in failing /\ doomed[x] = NoRequest
  /\ \E q \in pending[x] :
       IF q \in done
       THEN pending' = [pending EXCEPT ![x] = @ \ {q}] /\ UNCHANGED doomed
       ELSE doomed' = [doomed EXCEPT ![x] = q] /\ UNCHANGED pending
  /\ UNCHANGED <<vars, requestVars, applyVars, outcomeVars, failing>>

FailResolve(x) ==
  /\ doomed[x] # NoRequest
  /\ error' = [error EXCEPT ![doomed[x]] = "stopped"]
  /\ done' = done \cup {doomed[x]}
  /\ pending' = [pending EXCEPT ![x] = @ \ {doomed[x]}]
  /\ doomed' = [doomed EXCEPT ![x] = NoRequest]
  /\ UNCHANGED <<vars, requestVars, applyVars, failing>>

FailFinished(x) ==
  /\ x \in failing /\ pending[x] = {}
  /\ failing' = failing \ {x}
  /\ UNCHANGED <<requestVars, applyVars, outcomeVars, pending, doomed>>

FailPending(x) == FailTake(x) \/ FailLook(x) \/ FailResolve(x)

(***************************************************************************)
(* The life cycle with swaps in it.                                        *)
(***************************************************************************)
SwapCall(c) ==
  /\ CallStart(c) \/ CallStop(c)
  /\ UNCHANGED swapVars

SwapCallerStep(c) ==
  \/ /\ CallerStep(c) /\ pc[c] # "tdFail"
     /\ UNCHANGED swapVars
  \/ FailPending(c)
  \/ TeardownFail(c) /\ FailFinished(c)

SwapWorkerStep(r) ==
  \/ /\ WorkerStep(r) /\ worker[r] \notin {"loop", "chunk", "resolving"}
     /\ UNCHANGED swapVars
  \/ SwapLoopCheck(r)
  \/ SwapDrain(r) \/ SwapApply(r) \/ SwapKeepsVoice(r) \/ SwapChildFails(r)
  \/ SwapAbort(r) \/ SwapResolve(r) \/ SwapRaises(r)
  \/ /\ swapStep = "none"
     /\ ChunkDone(r) \/ ChunkRaises(r) \/ RestartChild(r)
     /\ UNCHANGED swapVars
  \/ FailPending(r)
  \/ LoopResolve(r) /\ FailFinished(r)

SwapNext ==
  \/ \E q \in Requests : Request(q)
  \/ \E c \in Callers : SwapCall(c) \/ SwapCallerStep(c)
  \/ \E r \in Runs : SwapWorkerStep(r)
  \/ /\ \/ \E r \in Runs : SelfAbort(r) \/ Relieved(r) \/ (swapStep = "none" /\ Waits(r))
        \/ \E k \in Kinds, r \in Runs : HelperStep(k, r)
        \/ FirstSignal \/ SignalAgain
     /\ UNCHANGED swapVars

allVars == <<vars, swapVars>>

SwapSpec == SwapInit /\ [][SwapNext]_allVars

SwapFairness ==
  /\ \A c \in Callers : SF_allVars(SwapCallerStep(c))
  /\ \A r \in Runs : SF_allVars(SwapWorkerStep(r))
  /\ \A k \in Kinds, r \in Runs :
       /\ SF_allVars(HelperStops(k, r) /\ UNCHANGED swapVars)
       /\ WF_allVars(HelperDone(k, r) /\ UNCHANGED swapVars)

SwapFairSpec == SwapSpec /\ SwapFairness

(***************************************************************************)
(* Properties.                                                             *)
(***************************************************************************)

\* No request is lost between queue, batch and teardown: until it is
\* resolved, somebody who will resolve it still holds it.
NoneLost ==
  \A q \in accepted \ done :
    q \in outstanding \/ \E x \in Threads : q \in pending[x]

\* A stopped engine has resolved every request it ever accepted, but for
\* those the ending engine thread is resolving itself.
HeldByRuns == \A q \in accepted \ done : \E r \in Runs : q \in pending[r]
StoppedResolvesAll == stopped => HeldByRuns

\* A request that was already answered is never left in the queue for the
\* next run to apply behind the user's back.
NoGhostSwap == \A q \in ToSet(swapQueue) : q \notin done

(***************************************************************************)
(* What the properties rest on.                                            *)
(***************************************************************************)

\* A request is in one place: in the queue, in the batch, or taken by threads
\* that fail it; only accepted requests are in any.
OnePlace ==
  /\ ToSet(swapQueue) \cup ToSet(batch) \cup outstanding \subseteq accepted
  /\ ToSet(swapQueue) \cap ToSet(batch) = {}
  /\ \A x \in Threads : /\ pending[x] \subseteq accepted
                        /\ pending[x] \cap ToSet(swapQueue) = {}

\* Only a thread that is in _fail_pending_swaps() holds requests to fail.
TakersFail ==
  \A x \in Threads : /\ x \in failing => AtFailPending(x)
                     /\ x \notin failing => pending[x] = {}
                     /\ doomed[x] # NoRequest => doomed[x] \in pending[x]

\* Swaps are applied inside a chunk, and the one that is applied without an
\* error has set the voice.
SwapInChunk == swapStep # "none" => thread # NoRun /\ worker[thread] = "chunk"
AppliedIsSet == swapStep = "resolve" /\ error[Head(batch)] = "none" => voice = Head(batch)

\* Once a teardown has taken what there is, nothing is added until the next
\* start(), and what is unresolved is with the ending engine thread.
PastFail == {"tdWorker", "tdMonitor", "tdPreloader", "tdClient", "tdRelease", "tdFinish"}
NothingAdded ==
  /\ \A c \in Callers : c \in failing => outstanding = {} /\ swapQueue = <<>>
  /\ stopped \/ (\E c \in Callers : pc[c] \in PastFail) =>
       outstanding = {} /\ swapQueue = <<>> /\ HeldByRuns

SwapInv ==
  /\ SwapTypeOK /\ NoneLost /\ NoGhostSwap
  /\ OnePlace /\ TakersFail /\ SwapInChunk /\ AppliedIsSet /\ NothingAdded

\* A request that is answered without an error is answered when its own
\* voice is the one that was just loaded.
DoneIsApplied ==
  [][\A q \in done' \ done : error'[q] = "none" => voice = q]_allVars

\* The engine with swaps in it is an engine with the life cycle of module
\* EngineLifecycle: swaps add no way to start, stop or crash.
LifecycleSpec == Spec

\* While a chunk loop is there to serve it, an accepted request is answered,
\* unless that loop waits for ever for an inference that is not answered or a
\* helper that does not read.
LoopAnswers ==
  \A q \in Requests :
    (/\ q \in accepted
     /\ thread # NoRun /\ worker[thread] \in {"loop", "chunk"})
    ~> (q \in done \/ []\E r \in Runs : WaitsOn(r))

(***************************************************************************)
(* What comments and docstrings say and the code does not do.              *)
(***************************************************************************)

\* "the event is resolved immediately so the caller never parks": a request
\* made of an engine that has crashed is answered.
NeverParks ==
  \A q \in Requests : (q \in accepted /\ crashed) ~> q \in done

\* "the caller can distinguish done from failed": the voice in use is not one
\* whose request was answered with an error.
FailedIsNotApplied == voice \in done => error[voice] = "none"
=============================================================================
