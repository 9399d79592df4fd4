---------------------------- MODULE InferenceIpc ----------------------------
(***************************************************************************)
(* Inference in a child process: InferenceClient in the engine             *)
(* (src/audio/inference_client.py), child_main() in the child              *)
(* (src/audio/inference_worker.py), and the two threads that use the       *)
(* client.  The engine thread applies swaps and has chunks inferred, and   *)
(* restarts the child when that fails; the teardown stops the client,      *)
(* also while the engine thread is in a call of it, for its join of that   *)
(* thread gives up after a while.                                          *)
(*                                                                         *)
(* A child has two pipes, cmds and resps, and two blocks of shared memory, *)
(* inBuf and outBuf.  Audio is told apart from the audio of the chunk      *)
(* before it, which is what a mixed-up answer would bring.  A child ends   *)
(* when the parent's ends of its pipes are gone, closed or not: nobody     *)
(* refers to a client or to its handles any longer.                        *)
(***************************************************************************)
EXTENDS Naturals, Sequences

CONSTANTS MaxChildren,   \* bound: a further child fails to get ready
          Voices, FirstVoice,
          MaxUnread,     \* bound on the swaps whose answers were not awaited
          Hanging        \* children that may stop answering

ASSUME ChildrenAssumption == MaxChildren \in Nat \ {0} /\ MaxUnread \in Nat
ASSUME VoiceAssumption == FirstVoice \in Voices
ASSUME HangingAssumption == Hanging \subseteq 1..MaxChildren

Children == 1..MaxChildren
None == 0
Audio == {1, 2}

VARIABLES
  \* the client and its children
  handles,    \* InferenceClient._handles, by its child
  proc,       \* what each child process is doing
  cmds,       \* the pipe to the child
  resps,      \* the pipe from it
  closed,     \* children whose pipes the parent has closed
  linked,     \* children whose shared memory has a name
  inBuf, outBuf, voiceOf,
  job,        \* the command the child is working on
  \* the engine thread
  e,          \* where it is
  attempt,    \* first or second try of a chunk, or the preamble
  h,          \* the handles its call works with
  audio,      \* the chunk to infer
  target,     \* the voice it waits for
  cfgVoice,   \* cfg.rvc_model
  aborted,    \* _self_abort() was called
  result,     \* what infer() returned for this chunk
  \* the teardown
  t,          \* where it is
  th,         \* the handles its stop() works with
  joined,     \* the join of the engine thread did not time out
  dropped     \* RealtimeEngine._inf_client is None again

childVars  == <<proc, cmds, resps, inBuf, outBuf, voiceOf, job>>
clientVars == <<handles, closed, linked>>
engineVars == <<e, attempt, h, audio, target, cfgVoice, aborted, result>>
stopVars   == <<t, th, joined, dropped>>
vars == <<childVars, clientVars, engineVars, stopVars>>

Answer(audioIn, voice) == [audio |-> audioIn, voice |-> voice]
NoAnswer == Answer(None, FirstVoice)
Infer == [cmd |-> "infer"]
Swap(v) == [cmd |-> "swap_model", path |-> v]
Stop == [cmd |-> "stop"]
Idle == [cmd |-> "none"]

Commands == {Infer, Stop} \cup {Swap(v) : v \in Voices}
Jobs == {Idle} \cup {[cmd |-> "infer", audio |-> a] : a \in Audio}
               \cup {Swap(v) : v \in Voices}
Responses == {"ready", "done", "swap_done", "error"}

IpcTypeOK ==
  /\ handles \in Children \cup {None} /\ h \in Children \cup {None}
  /\ th \in Children \cup {None}
  /\ proc \in [Children -> {"unborn", "loading", "serving", "dead", "crashed"}]
  /\ cmds \in [Children -> Seq(Commands)] /\ resps \in [Children -> Seq(Responses)]
  /\ closed \subseteq Children /\ linked \subseteq Children
  /\ inBuf \in [Children -> Audio \cup {None}]
  /\ outBuf \in [Children -> [audio : Audio \cup {None}, voice : Voices]]
  /\ voiceOf \in [Children -> Voices] /\ job \in [Children -> Jobs]
  /\ e \in {"loop", "swaps", "swapWait", "infer", "inferWait", "restart",
            "spawn", "ready", "ended"}
  /\ attempt \in {"start", "first", "second"}
  /\ audio \in Audio /\ target \in Voices /\ cfgVoice \in Voices
  /\ aborted \in BOOLEAN /\ joined \in BOOLEAN /\ dropped \in BOOLEAN
  /\ result \in [audio : Audio \cup {None}, voice : Voices]
  /\ t \in {"idle", "join", "client", "ask", "wait", "clean", "forget", "drop", "done"}

Init ==
  /\ handles = None /\ closed = {} /\ linked = {}
  /\ proc = [c \in Children |-> "unborn"]
  /\ cmds = [c \in Children |-> <<>>] /\ resps = [c \in Children |-> <<>>]
  /\ inBuf = [c \in Children |-> None] /\ outBuf = [c \in Children |-> NoAnswer]
  /\ voiceOf = [c \in Children |-> FirstVoice] /\ job = [c \in Children |-> Idle]
  /\ e = "spawn" /\ attempt = "start" /\ h = None
  /\ audio = 1 /\ target = FirstVoice /\ cfgVoice = FirstVoice
  /\ aborted = FALSE /\ result = NoAnswer
  /\ t = "idle" /\ th = None /\ joined = FALSE /\ dropped = FALSE

Alive(c) == proc[c] \in {"loading", "serving"}

\* A call of the client refers to it and to the handles it works with.
InCall == e \in {"swapWait", "inferWait", "restart", "spawn", "ready"}
InStop == t \in {"ask", "wait", "clean", "forget"}
PipesOpen(c) == /\ c \notin closed
                /\ \/ InCall /\ h = c
                   \/ InStop /\ th = c
                   \/ handles = c /\ (InCall \/ ~dropped)

Reachable(c) == c # None /\ Alive(c) /\ PipesOpen(c)
Sent(c, cmd) == cmds' = [cmds EXCEPT ![c] = Append(@, cmd)]

\* A process that ends takes along what it had not read or answered yet.
Gone(c, how) ==
  /\ proc' = [proc EXCEPT ![c] = how]
  /\ cmds' = [cmds EXCEPT ![c] = <<>>]
  /\ job' = [job EXCEPT ![c] = Idle]
  /\ voiceOf' = [voiceOf EXCEPT ![c] = FirstVoice]
Ended(c) == Gone(c, "dead")

\* The parent lets go of its ends of the pipes and of the shared memory.
Disposed(c) ==
  /\ closed' = closed \cup {c}
  /\ linked' = linked \ {c}
  /\ resps' = [resps EXCEPT ![c] = <<>>]
  /\ inBuf' = [inBuf EXCEPT ![c] = None]
  /\ outBuf' = [outBuf EXCEPT ![c] = NoAnswer]
disposeVars == <<closed, linked, resps, inBuf, outBuf>>

\* The variables of a call of the client go with the call.
CallReturns == h' = None /\ target' = FirstVoice

(***************************************************************************)
(* The engine thread, from chunk to chunk.  A failed swap aborts the       *)
(* engine, but neither the rest of the batch nor the chunk is given up.    *)
(***************************************************************************)
ChunkStarts ==
  /\ e = "loop"
  /\ IF t # "idle" \/ aborted
     THEN e' = "ended" /\ UNCHANGED <<audio, attempt>>
     ELSE /\ e' = "swaps" /\ attempt' = "first" /\ audio' = 3 - audio
  /\ result' = NoAnswer
  /\ UNCHANGED <<childVars, clientVars, h, target, cfgVoice, aborted, stopVars>>

SwapFails ==
  /\ aborted' = TRUE
  /\ e' = "swaps"
  /\ UNCHANGED cfgVoice

Unread(c) == Len(cmds[c]) + Len(resps[c]) + (IF job[c] = Idle THEN 0 ELSE 1)

\* swap_model(); without a client a swap is one of this process.
SwapSend(v) ==
  /\ e = "swaps" /\ ~dropped
  /\ IF Reachable(handles)
     THEN /\ Unread(handles) <= MaxUnread
          /\ h' = handles /\ target' = v
          /\ Sent(handles, Swap(v))
          /\ e' = "swapWait" /\ UNCHANGED <<aborted, cfgVoice>>
     ELSE SwapFails /\ UNCHANGED <<h, target, cmds>>
  /\ UNCHANGED <<clientVars, proc, resps, inBuf, outBuf, voiceOf, job,
                 attempt, audio, result, stopVars>>

Received == resps' = [resps EXCEPT ![h] = Tail(@)]

\* Any "swap_done" or "error" that comes is taken for the answer, also one to
\* an earlier swap that timed out; a stray "done" is skipped.
SwapOkWhatever == Head(resps[h]) \in {"swap_done", "error"}
SwapOk == Head(resps[h]) = "swap_done"
SwapReceives ==
  /\ e = "swapWait" /\ resps[h] # <<>>
  /\ Received
  /\ IF SwapOk
     THEN cfgVoice' = target /\ e' = "swaps" /\ CallReturns /\ UNCHANGED aborted
     ELSE IF Head(resps[h]) = "error" THEN SwapFails /\ CallReturns
     ELSE UNCHANGED <<e, cfgVoice, aborted, h, target>>
  /\ UNCHANGED <<clientVars, proc, cmds, inBuf, outBuf, voiceOf, job,
                 attempt, audio, result, stopVars>>

\* No answer within 5 s, or none to come.
SwapTimesOut ==
  /\ e = "swapWait"
  /\ SwapFails /\ CallReturns
  /\ UNCHANGED <<childVars, clientVars, attempt, audio, result, stopVars>>

SwapsDone ==
  /\ e = "swaps"
  /\ e' = "infer"
  /\ UNCHANGED <<childVars, clientVars, attempt, h, audio, target, cfgVoice,
                 aborted, result, stopVars>>

(***************************************************************************)
(* _infer() and InferenceClient.infer(): the first failure restarts the    *)
(* child, a second one drops the chunk.                                    *)
(***************************************************************************)
InferFails == e' = IF attempt = "first" THEN "restart" ELSE "loop"

InferSend ==
  /\ e = "infer"
  /\ IF dropped                   \* no client and no sessions: dropped
     THEN e' = "loop" /\ UNCHANGED <<h, cmds, inBuf>>
     ELSE IF Reachable(handles)
     THEN /\ h' = handles
          /\ inBuf' = [inBuf EXCEPT ![handles] = audio]
          /\ Sent(handles, Infer)
          /\ e' = "inferWait"
     ELSE InferFails /\ UNCHANGED <<h, cmds, inBuf>>
  /\ UNCHANGED <<clientVars, proc, resps, outBuf, voiceOf, job, attempt, audio,
                 target, cfgVoice, aborted, result, stopVars>>

AnyAnswer == Head(resps[h]) # "error"
ItsAnswer == Head(resps[h]) = "done"
InferReceives ==
  /\ e = "inferWait" /\ resps[h] # <<>>
  /\ Received
  /\ IF ItsAnswer THEN e' = "loop" /\ result' = outBuf[h]
                  ELSE InferFails /\ UNCHANGED result
  /\ CallReturns
  /\ UNCHANGED <<clientVars, proc, cmds, inBuf, outBuf, voiceOf, job, attempt,
                 audio, cfgVoice, aborted, stopVars>>

\* The end of the child ends the wait; closing this end of the pipe would not.
InferEof ==
  /\ e = "inferWait" /\ resps[h] = <<>>
  /\ ~Alive(h)
  /\ InferFails /\ CallReturns
  /\ UNCHANGED <<childVars, clientVars, attempt, audio, cfgVoice, aborted,
                 result, stopVars>>

(***************************************************************************)
(* restart(): end what is left of the child, spawn another one with the    *)
(* configuration the client was built with, and wait until it is ready.    *)
(***************************************************************************)
RestartTearsDown ==
  /\ e = "restart"
  /\ IF dropped
     THEN e' = "loop" /\ UNCHANGED <<childVars, clientVars, attempt>>
     ELSE /\ e' = "spawn" /\ attempt' = "second"
          /\ IF handles = None THEN UNCHANGED <<childVars, clientVars>>
             ELSE Ended(handles) /\ Disposed(handles) /\ handles' = None
  /\ UNCHANGED <<h, audio, target, cfgVoice,
                 aborted, result, stopVars>>

AfterFailedSpawn == e' = IF attempt = "start" THEN "ended" ELSE "loop"

Spawn ==
  /\ e = "spawn"
  /\ \/ \E c \in Children :
          /\ proc[c] = "unborn" /\ \A d \in 1..(c - 1) : proc[d] # "unborn"
          /\ proc' = [proc EXCEPT ![c] = "loading"]
          /\ linked' = linked \cup {c}
          /\ h' = c
          /\ e' = "ready"
     \/ /\ \A c \in Children : proc[c] # "unborn"
        /\ AfterFailedSpawn /\ UNCHANGED <<proc, linked, h>>
  /\ UNCHANGED <<cmds, resps, inBuf, outBuf, voiceOf, job, handles, closed,
                 attempt, audio, target, cfgVoice, aborted, result, stopVars>>

ChildReady ==
  /\ e = "ready" /\ resps[h] # <<>> /\ Head(resps[h]) = "ready"
  /\ Received
  /\ handles' = h
  /\ e' = IF attempt = "start" THEN "loop" ELSE "infer"
  /\ CallReturns
  /\ UNCHANGED <<proc, cmds, inBuf, outBuf, voiceOf, job, closed, linked,
                 attempt, audio, cfgVoice, aborted, result, stopVars>>

\* It reports an error, is seen dead, or is not ready within 30 s.
UnlinkedNone == linked
UnlinkedSpawn == linked \ {h}
SpawnFails ==
  /\ e = "ready"
  /\ Ended(h)
  /\ linked' = UnlinkedSpawn
  /\ AfterFailedSpawn /\ CallReturns
  /\ UNCHANGED <<resps, inBuf, outBuf, handles, closed, attempt, audio, cfgVoice, aborted, result, stopVars>>

\* A child that dies while it is waited for leaves the end of its pipe to be
\* read: recv() raises past the clean-up, and its shared memory is nobody's.
SpawnBreaks ==
  /\ e = "ready" /\ resps[h] = <<>> /\ ~Alive(h)
  /\ AfterFailedSpawn /\ CallReturns
  /\ UNCHANGED <<childVars, clientVars, attempt, audio, cfgVoice, aborted,
                 result, stopVars>>

EngineStep ==
  \/ ChunkStarts \/ (\E v \in Voices : SwapSend(v)) \/ SwapReceives \/ SwapTimesOut
  \/ SwapsDone \/ InferSend \/ InferReceives \/ InferEof \/ RestartTearsDown
  \/ Spawn \/ ChildReady \/ SpawnFails \/ SpawnBreaks

(***************************************************************************)
(* The teardown: set the event, join the engine thread, stop the client.   *)
(***************************************************************************)
TeardownGoto(label) ==
  /\ t' = label
  /\ UNCHANGED <<engineVars>>

\* The preamble that starts the first child holds the lifecycle lock.
TeardownBegins ==
  /\ t = "idle" /\ ~(attempt = "start" /\ InCall)
  /\ TeardownGoto("join")
  /\ UNCHANGED <<childVars, clientVars, th, joined, dropped>>

TeardownJoins ==
  /\ t = "join"
  /\ joined' = (e = "ended")
  /\ TeardownGoto("client")
  /\ UNCHANGED <<childVars, clientVars, th, dropped>>

StopLooks ==
  /\ t = "client"
  /\ th' = handles
  /\ TeardownGoto(IF handles = None THEN "drop" ELSE "ask")
  /\ UNCHANGED <<childVars, clientVars, joined, dropped>>

StopAsks ==
  /\ t = "ask"
  /\ IF Reachable(th) THEN Sent(th, Stop) ELSE UNCHANGED cmds
  /\ TeardownGoto("wait")
  /\ UNCHANGED <<proc, resps, inBuf, outBuf, voiceOf, job, clientVars, th,
                 joined, dropped>>

\* The child ends by itself or, after 2 s, is terminated or killed.
StopOnlyAsks == UNCHANGED <<proc, cmds, job, voiceOf>>
StopKills == Ended(th)
StopWaits ==
  /\ t = "wait"
  /\ StopKills
  /\ TeardownGoto("clean")
  /\ UNCHANGED <<resps, inBuf, outBuf, clientVars, th, joined, dropped>>

StopCleans ==
  /\ t = "clean"
  /\ Disposed(th)
  /\ TeardownGoto("forget")
  /\ UNCHANGED <<proc, cmds, voiceOf, job, handles, th, joined, dropped>>

\* Also forgets a child that a restart may have put there meanwhile.
StopForgets ==
  /\ t = "forget"
  /\ handles' = None /\ th' = None
  /\ TeardownGoto("drop")
  /\ UNCHANGED <<childVars, closed, linked, joined, dropped>>

ClientDropped ==
  /\ t = "drop"
  /\ dropped' = TRUE
  /\ TeardownGoto("done")
  /\ UNCHANGED <<childVars, clientVars, th, joined>>

TeardownStep ==
  \/ TeardownJoins \/ StopLooks \/ StopAsks \/ StopWaits \/ StopCleans
  \/ StopForgets \/ ClientDropped

(***************************************************************************)
(* child_main().                                                           *)
(***************************************************************************)
Responds(c, resp) == resps' = [resps EXCEPT ![c] = Append(@, resp)]

ChildLoads(c) ==
  /\ proc[c] = "loading"
  /\ \/ /\ proc' = [proc EXCEPT ![c] = "serving"]
        /\ UNCHANGED <<cmds, voiceOf, job>>
        /\ Responds(c, "ready")
     \/ Ended(c) /\ Responds(c, "error")
  /\ UNCHANGED <<inBuf, outBuf>>

Serving(c) == proc[c] = "serving" /\ UNCHANGED proc
Free(c) == proc[c] = "serving" /\ job[c] = Idle

ChildStops(c) ==
  /\ Free(c) /\ cmds[c] # <<>> /\ Head(cmds[c]) = Stop
  /\ Ended(c)
  /\ UNCHANGED <<resps, inBuf, outBuf>>

AnyCommand(c) == TRUE
WorkCommand(c) == Head(cmds[c]) # Stop

\* The audio is copied out of the shared memory before it is worked on.
ChildTakes(c) ==
  /\ Free(c) /\ cmds[c] # <<>> /\ WorkCommand(c)
  /\ job' = [job EXCEPT ![c] =
       IF Head(cmds[c]) = Infer THEN [cmd |-> "infer", audio |-> inBuf[c]]
                                ELSE Head(cmds[c])]
  /\ cmds' = [cmds EXCEPT ![c] = Tail(@)]
  /\ UNCHANGED <<proc, resps, inBuf, outBuf, voiceOf>>

ChildInfers(c) ==
  /\ Serving(c) /\ job[c].cmd = "infer"
  /\ \/ /\ outBuf' = [outBuf EXCEPT ![c] = Answer(job[c].audio, voiceOf[c])]
        /\ Responds(c, "done")
     \/ Responds(c, "error") /\ UNCHANGED outBuf
  /\ job' = [job EXCEPT ![c] = Idle]
  /\ UNCHANGED <<cmds, inBuf, voiceOf>>

\* A voice that loads but does not probe is in use although the swap failed.
ChildSwaps(c) ==
  /\ Serving(c) /\ job[c].cmd = "swap_model"
  /\ \E voice \in {job[c].path, voiceOf[c]} :
       /\ voiceOf' = [voiceOf EXCEPT ![c] = voice]
       /\ \/ Responds(c, "error")
          \/ voice = job[c].path /\ Responds(c, "swap_done")
  /\ job' = [job EXCEPT ![c] = Idle]
  /\ UNCHANGED <<cmds, inBuf, outBuf>>

ParentGoneNeverSeen(c) == FALSE
ParentGone(c) == cmds[c] = <<>> /\ ~PipesOpen(c)
ChildSeesEof(c) ==
  /\ Free(c) /\ ParentGone(c)
  /\ Ended(c)
  /\ UNCHANGED <<resps, inBuf, outBuf>>

ChildStep(c) ==
  /\ \/ ChildLoads(c) \/ ChildStops(c) \/ ChildTakes(c) \/ ChildInfers(c)
     \/ ChildSwaps(c) \/ ChildSeesEof(c)
  /\ UNCHANGED <<clientVars, engineVars, stopVars>>

\* Out of memory, a CUDA fault, a signal: one that was not ready yet is told
\* apart, "crashed", for what its spawn makes of that.
ChildDies(c) ==
  /\ Alive(c)
  /\ Gone(c, IF proc[c] = "loading" THEN "crashed" ELSE "dead")
  /\ UNCHANGED <<resps, inBuf, outBuf>>
  /\ UNCHANGED <<clientVars, engineVars, stopVars>>

Next ==
  \/ EngineStep
  \/ TeardownBegins
  \/ TeardownStep
  \/ \E c \in Children : ChildStep(c) \/ ChildDies(c)

Spec == Init /\ [][Next]_vars

\* Both threads run, and so does a child unless it is one that hangs.  Nobody
\* need call stop(), no child need die.
Fairness ==
  /\ WF_vars(EngineStep) /\ WF_vars(TeardownStep)
  /\ \A c \in Children \ Hanging : WF_vars(ChildStep(c))
FairSpec == Spec /\ Fairness
-----------------------------------------------------------------------------
\* What infer() returns is the inference of the audio it was given, although
\* the two sides share one buffer and answers of earlier calls may be late.
OwnResult == result # NoAnswer => result.audio = audio

\* Shared memory keeps its name as long as its child may want to open it.
LinkedWhileAlive == \A c \in Children : Alive(c) => c \in linked

Has(seq, some) == \E i \in 1..Len(seq) : seq[i] \in some
AtMostOne(seq, some) ==
  \A i, j \in 1..Len(seq) : seq[i] \in some /\ seq[j] \in some => i = j

\* A child is born once, what is not alive has nothing more to do, and whoever
\* is asked for an inference has been given audio.
ChildrenKept ==
  \A c \in Children :
    /\ ~Alive(c) => cmds[c] = <<>> /\ job[c] = Idle /\ voiceOf[c] = FirstVoice
    /\ proc[c] = "unborn" => c \notin {handles, h, th} /\ resps[c] = <<>>
    /\ proc[c] = "loading" => e = "ready" /\ h = c
    /\ Has(cmds[c], {Infer}) => inBuf[c] # None

\* Who works with which child.
CallsRefer ==
  /\ h # None <=> e \in {"swapWait", "inferWait", "ready"}
  /\ e \in {"swapWait", "inferWait"} => handles \in {h, None}
  /\ e \in {"spawn", "ready"} => handles = None
  /\ e \in {"swaps", "swapWait", "restart"} => attempt = "first"
  /\ e = "ready" =>
       /\ th # h /\ cmds[h] = <<>> /\ job[h] = Idle /\ voiceOf[h] = FirstVoice
       /\ resps[h] \in {<<>>, <<"ready">>, <<"error">>}
       /\ proc[h] = "loading" => resps[h] = <<>>
       /\ proc[h] \in {"serving", "dead"} => resps[h] # <<>>
  /\ th # None <=> InStop
  /\ t \in {"clean", "forget"} => proc[th] = "dead"

\* No inference is asked for, under way or answered.
NoInference(asked, answers, work) ==
  /\ ~Has(asked, {Infer}) /\ ~Has(answers, {"done"})
  /\ work.cmd # "infer"

\* One inference at most is, that of the chunk.
OneInference(asked, answers, work, in, out, chunk) ==
  /\ AtMostOne(asked, {Infer}) /\ AtMostOne(answers, {"done"})
  /\ Has(asked, {Infer}) =>
       in = chunk /\ work.cmd # "infer" /\ ~Has(answers, {"done"})
  /\ work.cmd = "infer" => work.audio = chunk /\ ~Has(answers, {"done"})
  /\ Has(answers, {"done"}) => out.audio = chunk

\* A second attempt meets a child that has answered nothing yet.
OnlyInference(asked, answers, work) ==
  /\ ~Has(asked, Commands \ {Infer, Stop}) /\ work.cmd # "swap_model"
  /\ ~Has(answers, Responses \ {"done", "error"})
  /\ Has(answers, {"error"}) => NoInference(asked, answers, work)

OwnAnswers ==
  /\ e \in {"loop", "swaps", "swapWait", "infer"} /\ handles # None /\ ~dropped =>
       NoInference(cmds[handles], resps[handles], job[handles])
  /\ e = "inferWait" =>
       /\ OneInference(cmds[h], resps[h], job[h], inBuf[h], outBuf[h], audio)
       /\ attempt # "first" => OnlyInference(cmds[h], resps[h], job[h])
  /\ e = "infer" /\ attempt # "first" /\ handles # None =>
       /\ ~Has(cmds[handles], Commands \ {Stop}) /\ job[handles] = Idle
       /\ resps[handles] = <<>>

\* No swap is asked for, under way or answered as done.
NoSwap(asked, answers, work) ==
  /\ ~Has(asked, Commands \ {Infer, Stop}) /\ ~Has(answers, {"swap_done"})
  /\ work.cmd # "swap_model"

\* One swap at most is, the one that is waited for.
OneSwap(asked, answers, work, process, voice, awaited) ==
  /\ AtMostOne(asked, {Swap(awaited)}) /\ AtMostOne(answers, {"swap_done"})
  /\ ~Has(asked, Commands \ {Infer, Stop, Swap(awaited)})
  /\ Has(asked, {Swap(awaited)}) =>
       work.cmd # "swap_model" /\ ~Has(answers, {"swap_done"})
  /\ work.cmd = "swap_model" =>
       work.path = awaited /\ ~Has(answers, {"swap_done"})
  /\ Has(answers, {"swap_done"}) /\ process # "dead" => voice = awaited

\* The first child follows the configuration from swap to swap.
OwnSwaps ==
  /\ proc[1] = "unborn" => e = "spawn"
  /\ proc[1] = "unborn" \/ (e = "ready" /\ h = 1) => cfgVoice = FirstVoice
  /\ handles = 1 /\ ~aborted =>
       IF e = "swapWait"
       THEN OneSwap(cmds[1], resps[1], job[1], proc[1], voiceOf[1], target)
       ELSE /\ NoSwap(cmds[1], resps[1], job[1])
            /\ Alive(1) => voiceOf[1] = cfgVoice

\* Children that died before they were ready.
Crashed == {c \in Children : proc[c] = "crashed"}

\* What is linked belongs to the client or to a spawn, until a stop that did
\* not wait for the engine thread forgets it, or it is that of a crashed child.
StopOwns ==
  /\ joined => e = "ended" /\ t \notin {"idle", "join"}
  /\ t \in {"idle", "join", "client"} \/ joined =>
       linked \subseteq {handles} \cup Crashed \cup (IF e = "ready" THEN {h} ELSE {})
  /\ joined /\ t \in {"ask", "wait", "clean"} => handles = th
  /\ joined /\ t \in {"forget", "drop", "done"} => linked \subseteq Crashed

IpcInv == /\ IpcTypeOK /\ OwnResult /\ LinkedWhileAlive /\ ChildrenKept /\ CallsRefer
          /\ OwnAnswers /\ OwnSwaps /\ StopOwns

\* A swap that was answered as done is loaded in the child: as long as the
\* engine needed neither to restart it nor to abort, child and configuration
\* agree on the voice.
SwapsTakeHold ==
  e = "infer" /\ handles = 1 /\ Alive(1) /\ ~aborted => voiceOf[1] = cfgVoice

\* stop() leaves no process if it has joined the engine thread, whatever that
\* thread went through before, and no shared memory either, except that of
\* children that died while they were loading.
CleanStop ==
  t = "done" /\ joined => linked \subseteq Crashed /\ \A c \in Children : ~Alive(c)

\* The engine thread comes to its end once it is told to, also out of a call
\* to a child that hangs.
StopFreesEngine == (t # "idle") ~> (e = "ended")

\* Children do not outlive a stopped engine: one that a restart put in place
\* behind the back of stop() ends when the client goes.
ChildrenEnd == (t = "done") ~> [](\A c \in Children : ~Alive(c))
-----------------------------------------------------------------------------
\* "without knowing whether inference ran in-process or in a child": results
\* are in the voice that the configuration names.
VoiceFollowsConfig ==
  result # NoAnswer /\ ~aborted => result.voice = cfgVoice

\* "clean up shm + pipes": when both threads are done no shared memory is left.
ShmReleased == t = "done" /\ e = "ended" => linked = {}

\* "a crashed child can be cleanly torn down and replaced without leaking shm":
\* what is linked belongs to the client or to a spawn while it has one.
CrashLeaksNothing ==
  t = "idle" => linked \subseteq {handles, h}
=============================================================================
