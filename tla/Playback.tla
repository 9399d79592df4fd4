------------------------------ MODULE Playback ------------------------------
(***************************************************************************)
(* The playback side of a run (src/audio/playback.py and the chunk loop of *)
(* src/audio/engine.py): the engine thread opens a playback helper process *)
(* and feeds a bounded queue, the writer thread moves the queue into the   *)
(* helper's stdin, the watchdog replaces a helper that died, and the       *)
(* engine thread takes all of it down again when the loop ends.            *)
(*                                                                         *)
(* A helper may die at any time.  If HelperMayStick it may also stop       *)
(* reading without dying (its ring is full and PipeWire no longer calls    *)
(* it); a payload is larger than a pipe, so a write to it then blocks.     *)
(*                                                                         *)
(* Identities of runs and processes are used again once nothing refers to  *)
(* them.  Of the engine's life cycle (module EngineLifecycle) only the     *)
(* order start, stop event, end of the engine thread is kept.              *)
(***************************************************************************)
EXTENDS Naturals, Sequences

CONSTANTS Runs,            \* identities of runs, and of their threads
          Procs, NoProc,   \* identities of helper processes
          QueueSize,       \* cfg.pacat_writer_queue_size
          RespawnCap,      \* _PLAYER_RESPAWN_CAP
          HelperMayStick   \* may a helper stop reading without dying

ASSUME NoProcAssumption == NoProc \notin Procs
ASSUME SizesAssumption == /\ QueueSize \in Nat \ {0}
                          /\ RespawnCap \in Nat \ {0}
                          /\ HelperMayStick \in BOOLEAN

VARIABLES
  main,       \* where the engine thread is
  run,        \* the run it belongs to
  stopEvent,  \* _stop_event
  pacatProc,  \* _pacat_proc
  deadEvent,  \* _pacat_dead_event
  queue,      \* _writer_queue, a sequence of "chunk" and "tail"
  hasQueue,   \* _writer_queue is not None
  final,      \* final_proc
  proc,       \* each helper process
  told,       \* helpers that got EOF on stdin or SIGTERM
  closed,     \* helpers whose stdin was closed by the engine thread
  children,   \* the live helpers that each thread has spawned
  readers,    \* helpers whose stderr a reader thread drains
  writer,     \* where each run's writer thread is
  target,     \* the helper each writer took for its payload
  dog,        \* where each run's watchdog is
  opened,     \* the helper each watchdog has opened but not installed
  respawns    \* consecutive_respawns of each watchdog

mainVars   == <<main, run, final>>
sharedVars == <<stopEvent, pacatProc, deadEvent>>
queueVars  == <<queue, hasQueue>>
procVars   == <<proc, told, closed, children, readers>>
writerVars == <<writer, target>>
dogVars    == <<dog, opened, respawns>>
vars == <<mainVars, sharedVars, queueVars, procVars, writerVars, dogVars>>

Teardown == {"flush", "drain", "take", "close", "wait", "terminate", "join"}

PlaybackTypeOK ==
  /\ main \in {"off", "open", "prime", "spawn", "loop"} \cup Teardown
  /\ run \in Runs
  /\ stopEvent \in BOOLEAN /\ deadEvent \in BOOLEAN /\ hasQueue \in BOOLEAN
  /\ pacatProc \in Procs \cup {NoProc} /\ final \in Procs \cup {NoProc}
  /\ queue \in Seq({"chunk", "tail"}) /\ Len(queue) <= QueueSize
  /\ proc \in [Procs -> {"dead", "alive", "stuck"}]
  /\ told \subseteq Procs /\ closed \subseteq Procs /\ readers \subseteq Procs
  /\ children \in [{"main", "dog"} \X Runs -> SUBSET Procs]
  /\ writer \in [Runs -> {"none", "check", "get", "took", "write"}]
  /\ target \in [Runs -> Procs \cup {NoProc}]
  /\ dog \in [Runs -> {"none", "check", "look", "open", "opened", "install",
                       "attach"}]
  /\ opened \in [Runs -> Procs \cup {NoProc}]
  /\ respawns \in [Runs -> 0..RespawnCap]

Init ==
  /\ main = "off" /\ run \in Runs /\ final = NoProc
  /\ stopEvent = FALSE /\ pacatProc = NoProc /\ deadEvent = FALSE
  /\ queue = <<>> /\ hasQueue = FALSE
  /\ proc = [p \in Procs |-> "dead"]
  /\ told = {} /\ closed = {} /\ readers = {}
  /\ children = [thread \in {"main", "dog"} \X Runs |-> {}]
  /\ writer = [r \in Runs |-> "none"]
  /\ target = [r \in Runs |-> NoProc]
  /\ dog = [r \in Runs |-> "none"]
  /\ opened = [r \in Runs |-> NoProc]
  /\ respawns = [r \in Runs |-> 0]

MainGoto(label) == main' = label
WriterGoto(r, label) == writer' = [writer EXCEPT ![r] = label]
DogGoto(r, label) == dog' = [dog EXCEPT ![r] = label]

(***************************************************************************)
(* _open_pacat(): the helper p that a thread spawns and that is still      *)
(* alive 50 ms later.  The bound on Procs: p is one nobody refers to.      *)
(***************************************************************************)
Unreferenced(p) ==
  /\ proc[p] = "dead"
  /\ p # pacatProc /\ p # final
  /\ \A r \in Runs : p # target[r] /\ p # opened[r]

Spawns(p, thread) ==
  /\ Unreferenced(p)
  /\ proc' = [proc EXCEPT ![p] = "alive"]
  /\ told' = told \ {p} /\ closed' = closed \ {p}
  /\ children' = [children EXCEPT ![thread] = @ \cup {p}]
  /\ UNCHANGED readers

\* A helper ends; the thread that drains its stderr sees EOF and ends too.
Dies(p) ==
  /\ proc' = [proc EXCEPT ![p] = "dead"]
  /\ told' = told \ {p}
  /\ children' = [thread \in DOMAIN children |-> children[thread] \ {p}]
  /\ readers' = readers \ {p}

\* _set_pdeathsig(): the kernel sends SIGTERM when the thread that spawned
\* the helper ends, not only when the engine's process does.
NotSignalled(thread) == {}
SignalledByEnd(thread) == children[thread]

ThreadEnds(thread, terminated) ==
  /\ told' = told \cup SignalledByEnd(thread) \cup terminated
  /\ children' = [children EXCEPT ![thread] = {}]
  /\ UNCHANGED <<proc, readers>>

(***************************************************************************)
(* The engine thread: _run_loop().                                         *)
(***************************************************************************)

\* start(), which waits for nothing but the engine thread of the last run.
Begin(r) ==
  /\ main = "off" /\ writer[r] = "none" /\ dog[r] = "none"
  /\ run' = r
  /\ stopEvent' = FALSE
  /\ MainGoto("open")
  /\ UNCHANGED <<final, pacatProc, deadEvent, queueVars, procVars, writerVars,
                 dogVars>>

\* stop(), a signal, or an abort of the chunk loop.
Stop ==
  /\ main # "off" /\ ~stopEvent
  /\ stopEvent' = TRUE
  /\ UNCHANGED <<mainVars, pacatProc, deadEvent, queueVars, procVars,
                 writerVars, dogVars>>

MainOpens ==
  /\ main = "open"
  /\ \E p \in Procs : Spawns(p, <<"main", run>>) /\ pacatProc' = p
  /\ MainGoto("prime")
  /\ UNCHANGED <<run, final, stopEvent, deadEvent, queueVars, writerVars,
                 dogVars>>

MainOpenFails ==
  /\ main = "open"
  /\ MainGoto("flush")
  /\ UNCHANGED <<run, final, sharedVars, queueVars, procVars,
                 writerVars, dogVars>>

\* The priming silence is written under _pacat_lock, before the threads run.
PacatLockFree == main # "prime"

MainPrimes ==
  /\ main = "prime"
  /\ MainGoto("spawn")
  /\ UNCHANGED <<run, final, sharedVars, queueVars, procVars,
                 writerVars, dogVars>>

\* The microphone is opened after the threads are started, and may fail.
MainSpawns ==
  /\ main = "spawn"
  /\ queue' = <<>> /\ hasQueue' = TRUE
  /\ deadEvent' = FALSE
  /\ WriterGoto(run, "check")
  /\ DogGoto(run, "check")
  /\ readers' = IF proc[pacatProc] = "dead" THEN readers
                                            ELSE readers \cup {pacatProc}
  /\ main' \in {"loop", "flush"}
  /\ UNCHANGED <<run, final, stopEvent, pacatProc, proc, told, closed,
                 children, target, opened, respawns>>

\* _enqueue_chunk(): a full queue drops the payload.
EnqueuedAlways(item) == Append(queue, item)
Enqueued(item) == IF Len(queue) < QueueSize THEN Append(queue, item) ELSE queue

MainChunk ==
  /\ main = "loop" /\ ~stopEvent
  /\ queue' = Enqueued("chunk")
  /\ UNCHANGED <<mainVars, sharedVars, hasQueue, procVars, writerVars, dogVars>>

\* The loop sees the event, or a chunk raises.
MainLeavesLoop ==
  /\ main = "loop"
  /\ MainGoto("flush")
  /\ UNCHANGED <<run, final, sharedVars, queueVars, procVars, writerVars,
                 dogVars>>

\* The SOLA tail, if there is one, goes through the queue as well.
MainFlushes ==
  /\ main = "flush"
  /\ \/ /\ hasQueue
        /\ queue' = Enqueued("tail")
     \/ UNCHANGED queue
  /\ MainGoto("drain")
  /\ UNCHANGED <<run, final, sharedVars, hasQueue, procVars, writerVars, dogVars>>

\* Up to a second for the writer to empty the queue, which takes longer only
\* if the writer is blocked or gone.
JoinedBeforeTold == writer[run] = "none"
DrainOver == queue = <<>> \/ writer[run] \in {"none", "write"}

EventNotSet == UNCHANGED stopEvent
EventSetByLoop == stopEvent' = TRUE

MainDrains ==
  /\ main = "drain" /\ DrainOver
  /\ EventSetByLoop
  /\ MainGoto("take")
  /\ UNCHANGED <<run, final, pacatProc, deadEvent, queueVars, procVars,
                 writerVars, dogVars>>

MainTakes ==
  /\ main = "take"
  /\ final' = pacatProc
  /\ pacatProc' = NoProc
  /\ MainGoto(IF pacatProc = NoProc THEN "join" ELSE "close")
  /\ UNCHANGED <<run, stopEvent, deadEvent, queueVars, procVars,
                 writerVars, dogVars>>

\* stdin.close() needs the lock of the buffered stdin, which a writer holds
\* as long as its write() or flush() is blocked.
MainCloses ==
  /\ main = "close"
  /\ \A r \in Runs : ~(writer[r] = "write" /\ target[r] = final)
  /\ closed' = closed \cup {final}
  /\ told' = told \cup {final}
  /\ MainGoto("wait")
  /\ UNCHANGED <<run, final, sharedVars, queueVars, proc, children, readers,
                 writerVars, dogVars>>

\* wait(timeout=1.0), then terminate() and wait again, then kill().
MainWaits ==
  /\ main \in {"wait", "terminate"}
  /\ \/ proc[final] = "dead" /\ MainGoto("join")
        /\ UNCHANGED <<proc, told, children, readers>>
     \/ proc[final] # "dead" /\ main = "wait" /\ MainGoto("terminate")
        /\ UNCHANGED <<proc, told, children, readers>>
     \/ proc[final] # "dead" /\ main = "terminate" /\ MainGoto("join")
        /\ Dies(final)
  /\ UNCHANGED <<run, final, sharedVars, queueVars, closed, writerVars, dogVars>>

\* The joins take half a second each: once the event is set, a thread that
\* looks at it is gone by then; one that is blocked in a write, or opens a
\* helper (or backs off after it failed), may be not.
Joined(r) ==
  stopEvent => writer[r] \in {"none", "write"} /\ dog[r] \in {"none", "open"}

MainJoins ==
  /\ main = "join" /\ Joined(run)
  /\ queue' = <<>> /\ hasQueue' = FALSE
  /\ final' = NoProc
  /\ ThreadEnds(<<"main", run>>, {})
  /\ closed' = closed \cap {target[r] : r \in Runs}
  /\ MainGoto("off")
  /\ UNCHANGED <<run, sharedVars, writerVars, dogVars>>

MainStep == \/ MainOpens \/ MainOpenFails \/ MainPrimes \/ MainSpawns
            \/ MainFlushes \/ MainDrains \/ MainTakes \/ MainCloses
            \/ MainWaits \/ MainJoins
            \/ stopEvent /\ MainLeavesLoop

(***************************************************************************)
(* _writer_loop()                                                          *)
(***************************************************************************)
WriterChecks(r) ==
  /\ writer[r] = "check"
  /\ WriterGoto(r, IF stopEvent \/ ~hasQueue THEN "none" ELSE "get")
  /\ UNCHANGED <<mainVars, sharedVars, queueVars, procVars, target,
                 dogVars>>

WriterTimesOut(r) ==
  /\ writer[r] = "get" /\ queue = <<>>
  /\ WriterGoto(r, "check")
  /\ UNCHANGED <<mainVars, sharedVars, queueVars, procVars, target,
                 dogVars>>

WriterGets(r) ==
  /\ writer[r] = "get" /\ queue # <<>> /\ PacatLockFree
  /\ queue' = Tail(queue)
  /\ IF pacatProc = NoProc
     THEN WriterGoto(r, "check") /\ UNCHANGED target
     ELSE /\ WriterGoto(r, "took")
          /\ target' = [target EXCEPT ![r] = pacatProc]
  /\ UNCHANGED <<mainVars, sharedVars, hasQueue, procVars, dogVars>>

\* A stdin that was closed meanwhile raises ValueError, which ends the thread.
WriterWrites(r) ==
  /\ writer[r] = "took"
  /\ IF target[r] \in closed
     THEN /\ WriterGoto(r, "none")
          /\ target' = [target EXCEPT ![r] = NoProc]
     ELSE WriterGoto(r, "write") /\ UNCHANGED target
  /\ UNCHANGED <<mainVars, sharedVars, queueVars, procVars, dogVars>>

WriterWritten(r) ==
  /\ writer[r] = "write" /\ proc[target[r]] = "alive"
  /\ WriterGoto(r, "check")
  /\ target' = [target EXCEPT ![r] = NoProc]
  /\ UNCHANGED <<mainVars, sharedVars, queueVars, procVars, dogVars>>

AfterBrokenPipeGivesUp == "none"
AfterBrokenPipe == IF stopEvent THEN "none" ELSE "check"

WriterBrokenPipe(r) ==
  /\ writer[r] = "write" /\ proc[target[r]] = "dead"
  /\ deadEvent' = (deadEvent \/ ~stopEvent)
  /\ WriterGoto(r, AfterBrokenPipe)
  /\ target' = [target EXCEPT ![r] = NoProc]
  /\ UNCHANGED <<mainVars, stopEvent, pacatProc, queueVars, procVars, dogVars>>

WriterStep(r) == \/ WriterChecks(r) \/ WriterTimesOut(r) \/ WriterGets(r)
                 \/ WriterWrites(r) \/ WriterWritten(r) \/ WriterBrokenPipe(r)

(***************************************************************************)
(* _watchdog_loop()                                                        *)
(***************************************************************************)
DogEnds(r) ==
  /\ DogGoto(r, "none")
  /\ opened' = [opened EXCEPT ![r] = NoProc]
  /\ respawns' = [respawns EXCEPT ![r] = 0]
  /\ ThreadEnds(<<"dog", r>>, {opened[r]} \ {NoProc})
  /\ UNCHANGED closed

DogChecks(r) ==
  /\ dog[r] = "check"
  /\ IF stopEvent THEN DogEnds(r)
     ELSE DogGoto(r, "look") /\ UNCHANGED <<opened, respawns, procVars>>
  /\ UNCHANGED <<mainVars, sharedVars, queueVars, writerVars>>

\* proc.poll() says whether the helper is dead.
FoundDeadOrSignalled == proc[pacatProc] = "dead" \/ deadEvent
FoundDead == proc[pacatProc] = "dead"

DogSeesHealthy(r) ==
  /\ dog[r] = "look" /\ PacatLockFree
  /\ pacatProc # NoProc => ~FoundDead
  /\ deadEvent' = FALSE
  /\ respawns' = IF pacatProc = NoProc THEN respawns
                                       ELSE [respawns EXCEPT ![r] = 0]
  /\ DogGoto(r, "check")
  /\ UNCHANGED <<mainVars, stopEvent, pacatProc, queueVars, procVars,
                 writerVars, opened>>

CapReached(r) == respawns[r] = RespawnCap

NotCounted(r) == respawns
Counted(r) == [respawns EXCEPT ![r] = @ + 1]

DogSeesDead(r) ==
  /\ dog[r] = "look" /\ PacatLockFree
  /\ pacatProc # NoProc /\ FoundDead /\ ~CapReached(r)
  /\ deadEvent' = FALSE
  /\ respawns' = Counted(r)
  /\ DogGoto(r, "open")
  /\ UNCHANGED <<mainVars, stopEvent, pacatProc, queueVars, procVars,
                 writerVars, opened>>

\* _self_abort() at the cap: the watchdog stops the engine and ends.
DogAborts(r) ==
  /\ dog[r] = "look" /\ PacatLockFree
  /\ pacatProc # NoProc /\ FoundDead /\ CapReached(r)
  /\ deadEvent' = FALSE
  /\ stopEvent' = TRUE
  /\ DogEnds(r)
  /\ UNCHANGED <<mainVars, pacatProc, queueVars, writerVars>>

DogOpens(r) ==
  /\ dog[r] = "open"
  /\ \E p \in Procs : /\ Spawns(p, <<"dog", r>>)
                      /\ opened' = [opened EXCEPT ![r] = p]
  /\ DogGoto(r, "opened")
  /\ UNCHANGED <<mainVars, sharedVars, queueVars, writerVars, respawns>>

\* It fails, and the watchdog backs off for half a second.
DogOpenFails(r) ==
  /\ dog[r] = "open"
  /\ DogGoto(r, "check")
  /\ UNCHANGED <<mainVars, sharedVars, queueVars, procVars, writerVars, opened,
                 respawns>>

\* A second look at the event: a helper opened too late is terminated.
DogLooksAgain(r) ==
  /\ dog[r] = "opened"
  /\ IF stopEvent THEN DogEnds(r)
     ELSE DogGoto(r, "install") /\ UNCHANGED <<opened, respawns, procVars>>
  /\ UNCHANGED <<mainVars, sharedVars, queueVars, writerVars>>

AfterInstallReset(r) == [respawns EXCEPT ![r] = 0]
AfterInstall(r) == respawns

DogInstalls(r) ==
  /\ dog[r] = "install" /\ PacatLockFree
  /\ pacatProc' = opened[r]
  /\ respawns' = AfterInstall(r)
  /\ DogGoto(r, "attach")
  /\ UNCHANGED <<mainVars, stopEvent, deadEvent, queueVars, procVars,
                 writerVars, opened>>

\* The new helper gets a stderr reader of its own.
WithoutReader(r) == readers
WithReader(r) == readers \cup {p \in {opened[r]} : proc[p] # "dead"}

DogAttaches(r) ==
  /\ dog[r] = "attach"
  /\ readers' = WithReader(r)
  /\ opened' = [opened EXCEPT ![r] = NoProc]
  /\ DogGoto(r, "check")
  /\ UNCHANGED <<mainVars, sharedVars, queueVars, proc, told, closed, children,
                 writerVars, respawns>>

DogStep(r) == \/ DogChecks(r) \/ DogSeesHealthy(r) \/ DogSeesDead(r)
              \/ DogAborts(r) \/ DogOpens(r) \/ DogOpenFails(r)
              \/ DogLooksAgain(r) \/ DogInstalls(r) \/ DogAttaches(r)

(***************************************************************************)
(* The helper processes.                                                   *)
(***************************************************************************)
HelperDies(p) ==
  /\ proc[p] # "dead"
  /\ Dies(p)
  /\ UNCHANGED <<mainVars, sharedVars, queueVars, closed, writerVars, dogVars>>

\* EOF or SIGTERM ends a helper that is not stuck.
HelperObeys(p) == p \in told /\ proc[p] = "alive" /\ HelperDies(p)

\* A helper that has just been spawned still has an empty ring.
HelperSticks(p) ==
  /\ HelperMayStick /\ proc[p] = "alive" /\ p = pacatProc
  /\ main \notin {"prime", "spawn"}
  /\ proc' = [proc EXCEPT ![p] = "stuck"]
  /\ UNCHANGED <<mainVars, sharedVars, queueVars, told, closed, children,
                 readers, writerVars, dogVars>>

HelperRecovers(p) ==
  /\ proc[p] = "stuck"
  /\ proc' = [proc EXCEPT ![p] = "alive"]
  /\ UNCHANGED <<mainVars, sharedVars, queueVars, told, closed, children,
                 readers, writerVars, dogVars>>

Next ==
  \/ \E r \in Runs : Begin(r) \/ WriterStep(r) \/ DogStep(r)
  \/ Stop
  \/ MainStep \/ MainChunk \/ MainLeavesLoop
  \/ \E p \in Procs : HelperDies(p) \/ HelperSticks(p) \/ HelperRecovers(p)

Spec == Init /\ [][Next]_vars

(***************************************************************************)
(* Threads take their steps, and a helper that is told to end does.  No    *)
(* one is obliged to start, to stop, to die, to stick or to recover.  The  *)
(* watchdog's opening may fail every time.                                 *)
(***************************************************************************)
Fairness ==
  /\ WF_vars(MainStep)
  /\ \A r \in Runs : WF_vars(WriterStep(r)) /\ WF_vars(DogStep(r))
  /\ \A p \in Procs : WF_vars(HelperObeys(p))

FairSpec == Spec /\ Fairness

(***************************************************************************)
(* Safety.                                                                 *)
(***************************************************************************)

\* No helper outlives its run unnoticed: once the engine thread and every
\* watchdog are gone, each helper that is left has been told to end.  This
\* is so even where two runs' threads overlap and a handle is overwritten.
NoOrphans ==
  main = "off" /\ (\A r \in Runs : dog[r] = "none")
    => \A p \in Procs : proc[p] # "dead" => p \in told

\* While the chunk loop runs and nobody has stopped it, its writer thread is
\* there to drain the queue, however many helpers have died under it.
WriterServes == main = "loop" /\ ~stopEvent => writer[run] # "none"

\* A live helper in use has a reader that drains its stderr, or a full pipe
\* would block it; only the thread that is just installing it has not got
\* round to it.
StderrIsDrained ==
  main = "loop" /\ pacatProc # NoProc /\ proc[pacatProc] # "dead"
    => \/ pacatProc \in readers
       \/ \E r \in Runs : opened[r] = pacatProc

\* Which helpers the threads hold at each of their stages.
HandlesKept ==
  /\ main \in {"prime", "spawn", "loop"} => pacatProc \in Procs
  /\ main \in {"close", "wait", "terminate"} => final \in Procs
  /\ main \in {"open", "prime", "spawn"} => writer[run] = "none" /\ dog[run] = "none"
  /\ main = "loop" => hasQueue
  /\ pacatProc # NoProc => pacatProc # final
  /\ \A r \in Runs :
       /\ target[r] # NoProc <=> writer[r] \in {"took", "write"}
       /\ opened[r] # NoProc <=> dog[r] \in {"opened", "install", "attach"}

\* A helper that a watchdog has opened and not installed is nobody else's.
OpenedAreFresh ==
  \A r \in Runs : dog[r] \in {"opened", "install"} =>
    /\ opened[r] \notin closed \cup {pacatProc, final}
    /\ \A s \in Runs : opened[r] # target[s] /\ (s # r => opened[r] # opened[s])

\* Nothing in use, or taken by the writer of this run, has its stdin closed
\* before the engine thread has closed its last helper.
StdinsOpen ==
  /\ pacatProc \notin closed
  /\ main \notin {"off", "wait", "terminate", "join"} => target[run] \notin closed

\* A live helper has been told to end, or the thread that has spawned it lives.
HelpersOwned ==
  \A p \in Procs : proc[p] # "dead" =>
    \/ p \in told
    \/ main # "off" /\ p \in children[<<"main", run>>]
    \/ \E r \in Runs : dog[r] # "none" /\ p \in children[<<"dog", r>>]

PlaybackInv == /\ PlaybackTypeOK /\ NoOrphans /\ WriterServes /\ StderrIsDrained
               /\ HandlesKept /\ OpenedAreFresh /\ StdinsOpen /\ HelpersOwned

\* Within one run a live helper is never displaced by another: a writer's late
\* signal about the previous helper does not cost the new one its place.
OnlyDeadReplaced ==
  [][ main = "loop" /\ pacatProc' # pacatProc => proc[pacatProc] = "dead" ]_vars

(***************************************************************************)
(* Liveness, under FairSpec.                                               *)
(***************************************************************************)

\* A run that is told to stop, or whose loop raises, comes to its end.
TeardownEnds ==
  (main = "loop" /\ stopEvent) \/ main \in Teardown ~> main = "off"

\* The writer and the watchdog of a run end with it.
ThreadsEnd ==
  \A r \in Runs :
    main = "off" /\ run = r
      ~> main # "off" \/ (writer[r] = "none" /\ dog[r] = "none")

RunsEnd == TeardownEnds /\ ThreadsEnd

\* A run whose helper is dead gets a helper again or is stopped: it does not
\* go on in silence.
NotSilent ==
  main = "loop" /\ proc[pacatProc] = "dead"
    ~> stopEvent \/ main # "loop" \/ proc[pacatProc] = "alive"

\* A helper that never stays alive is not replaced for ever: a watchdog that
\* installs again and again, in one run, also sees healthy helpers between.
RespawnsEnd ==
  \A r \in Runs :
    []<><<DogInstalls(r)>>_vars
      => []<><<DogSeesHealthy(r)>>_vars \/ []<>(main = "off")

(***************************************************************************)
(* What comments and tests say and the code does not do.                   *)
(***************************************************************************)

\* "Join helper threads so a fast restart sees a clean slate."
CleanSlate == main = "loop" => \A r \in Runs \ {run} : dog[r] = "none"

\* "do NOT install the new handle ... so the engine's finally-block teardown
\* sees a stable _pacat_proc": once it has taken the handle, there is none.
StableHandle == main \in {"close", "wait", "terminate", "join"} => pacatProc = NoProc

\* "flush SOLA tail through the writer queue, then drain the queue": a tail
\* that fitted into the queue and has a live helper to go to gets there.
TailIsPlayed ==
  [][ main = "drain" /\ main' = "take"
      => \A i \in DOMAIN queue :
           queue[i] = "tail" => proc[pacatProc] # "alive" ]_vars

\* "A crash inside _run_loop must take its helper threads down with it."
CrashTakesThreadsDown ==
  \A r \in Runs :
    main \in Teardown /\ run = r ~> writer[r] = "none" /\ dog[r] = "none"
=============================================================================
