----------------------------- MODULE TuiControl -----------------------------
(***************************************************************************)
(* The TUI process around the engine: its event loop (src/tui/app.py), the *)
(* control socket with its listener and worker pool, the table of jobs     *)
(* (src/tui/control.py), and the single-instance lock.                     *)
(*                                                                         *)
(* The event loop runs one callback at a time: a key press, a callback     *)
(* that a thread has posted with call_from_thread() and waits for, or the  *)
(* next part of action_quit().  Workers answer one connection each; jobs   *)
(* run on threads of their own.  The engine is what these threads see of   *)
(* it: the calls start() and stop(), whether it runs, its swap queue and   *)
(* its staged configuration.  EngineLifecycle and ModelSwap are its inside.*)
(***************************************************************************)
EXTENDS Integers, Sequences, FiniteSets, SequencesExt

CONSTANTS
  Clients,        \* connections, one command each; a slow command is then polled
  KeyJob,         \* the job that the key "p" submits
  Commands,       \* what each client may send: <<operation, argument>>
  Keys,           \* the keys that may be pressed
  Voices, Profiles,
  ProfileVoice,   \* the voice and
  ProfilePitch,   \* the pitch a profile has saved
  FirstVoice,
  MaxPitch,       \* _PITCH_WARN_ST
  MaxPresses,     \* how many keys are pressed in all
  PoolSize,       \* _WORKER_POOL_SIZE
  NoVoice         \* "nothing", where a voice or a staged value may be missing

ASSUME ControlAssumption ==
  /\ KeyJob \notin Clients
  /\ PoolSize \in Nat \ {0} /\ MaxPresses \in Nat /\ MaxPitch \in Nat
  /\ FirstVoice \in Voices
  /\ ProfileVoice \in [Profiles -> Voices]
  /\ ProfilePitch \in [Profiles -> -MaxPitch..MaxPitch]
  /\ NoVoice \notin Voices \cup Int
  /\ "key" \notin Clients /\ "nobody" \notin Clients
  /\ \A c \in Clients : \A m \in Commands[c] : m[1] = "PITCH" => m[2] \in Int

Jobs == Clients \cup {KeyJob}
Pitches == -MaxPitch..MaxPitch

VARIABLES
  app,        \* "new", "up", then the parts of action_quit(): "stopping",
              \* "closing", "saving"; "exited": instance lock released; "gone"
  inbox,      \* callbacks posted to the event loop, in order
  presses,    \* keys pressed so far: a bound, not state of the code
  starter,    \* who has the loop inside engine.start(), or "nobody"
  listener, pool,   \* "off", "on", "done"
  file,       \* whose socket the path leads to: "none", "this", "next"
  successor,  \* a second instance has got the instance lock and listens
  conn, cmd,  \* per client: stage of its connection, command
  polling,    \* clients whose slow command has been accepted, until it is over
  job,        \* where the thread of a job is
  entry,      \* the job's state in JobRegistry._jobs
  work,       \* what a job does: <<"MODEL", voice>> or <<"PROFILE", profile>>
  inFlight,   \* _swaps_in_flight
  running, stopEvent, stopping,  \* stats.running; _stop_event; stop() calls
  swapQ, req, \* swap queue, and per job its _SwapRequest
  pitch,      \* WoysApp.pitch, also cfg.f0_up_key
  enginePitch, staged,  \* engine.cfg.f0_up_key, _pending_cfg_updates
  drained,    \* what the engine thread has taken from them and not applied yet
  overtaken,  \* history: the pitch was written past a staged or a drained one
  engineVoice \* engine.cfg.rvc_model

appVars == <<app, inbox, starter, presses>>
socketVars == <<listener, pool, file, successor>>
clientVars == <<conn, cmd, polling>>
jobVars == <<job, entry, work, inFlight>>
engineVars == <<running, stopEvent, stopping>>
swapVars == <<swapQ, req>>
pitchVars == <<pitch, enginePitch, staged, drained, overtaken>>
vars == <<appVars, socketVars, clientVars, jobVars, engineVars, swapVars, pitchVars, engineVoice>>

Quitting == app \notin {"new", "up"}
Alive == app \notin {"exited", "gone"}
LoopFree == app \notin {"new", "exited", "gone"} /\ starter = "nobody"

Init ==
  /\ app = "new" /\ inbox = <<>> /\ starter = "nobody" /\ presses = 0
  /\ listener = "off" /\ pool = "off" /\ file = "none" /\ successor = FALSE
  /\ conn = [c \in Clients |-> "idle"]
  /\ cmd = [c \in Clients |-> <<"none", NoVoice>>]
  /\ polling = {}
  /\ job = [j \in Jobs |-> "none"] /\ entry = [j \in Jobs |-> "none"]
  /\ work = [j \in Jobs |-> <<"none", NoVoice>>] /\ inFlight = <<>>
  /\ running = FALSE /\ stopEvent = FALSE
  /\ stopping = [s \in {"toggle", "quit"} |-> "idle"]
  /\ swapQ = <<>> /\ req = [j \in Jobs |-> "none"]
  /\ pitch = 0 /\ enginePitch = 0 /\ staged = NoVoice /\ drained = NoVoice
  /\ overtaken = FALSE
  /\ engineVoice = FirstVoice

-----------------------------------------------------------------------------
(* The engine, as its callers see it.                                      *)

LockFree == \A s \in DOMAIN stopping : stopping[s] \notin {"joining", "joined"}

\* stop() asked for by a toggle's background thread or by action_quit.
StopReturnsEarly(s) ==
  /\ stopping[s] = "asked" /\ LockFree
  /\ stopEvent /\ ~running
  /\ stopping' = [stopping EXCEPT ![s] = "returned"]
  /\ UNCHANGED <<appVars, socketVars, clientVars, jobVars, running, stopEvent, swapVars,
                 pitchVars, engineVoice>>

\* _fail_pending_swaps: every request not answered yet gets an error.
SwapsFail ==
  /\ swapQ' = <<>>
  /\ req' = [j \in Jobs |-> IF req[j] = "queued" THEN "failed" ELSE req[j]]

StopTakesLock(s) ==
  /\ stopping[s] = "asked" /\ LockFree
  /\ ~(stopEvent /\ ~running)
  /\ stopping' = [stopping EXCEPT ![s] = "joining"]
  /\ stopEvent' = TRUE
  /\ SwapsFail
  /\ UNCHANGED <<appVars, socketVars, clientVars, jobVars, running, pitchVars, engineVoice>>

\* A join that times out over a chunk is one of EngineLifecycle; the engine
\* thread is not held up between taking the staged fields and writing them.
StopJoined(s) ==
  /\ stopping[s] = "joining" /\ drained = NoVoice
  /\ stopping' = [stopping EXCEPT ![s] = "joined"]
  /\ running' = FALSE
  /\ UNCHANGED <<appVars, socketVars, clientVars, jobVars, stopEvent, swapVars, pitchVars,
                 engineVoice>>

StopReturns(s) ==
  /\ stopping[s] = "joined"
  /\ stopping' = [stopping EXCEPT ![s] = "returned"]
  /\ UNCHANGED <<appVars, socketVars, clientVars, jobVars, running, stopEvent, swapVars,
                 pitchVars, engineVoice>>

\* A crash or an abort of the engine thread.
EngineDies ==
  /\ running
  /\ running' = FALSE /\ stopEvent' = TRUE
  /\ SwapsFail
  /\ UNCHANGED <<appVars, socketVars, clientVars, jobVars, stopping, pitchVars, engineVoice>>

\* The top of a chunk: _maybe_swap_model, then _maybe_apply_pending_cfg.
EngineSwaps ==
  /\ running /\ ~stopEvent /\ swapQ # <<>> /\ drained = NoVoice
  /\ swapQ' = Tail(swapQ)
  /\ LET j == Head(swapQ) IN
     \/ /\ req' = [req EXCEPT ![j] = "ok"]
        /\ engineVoice' = IF work[j][1] = "MODEL" THEN work[j][2] ELSE ProfileVoice[work[j][2]]
     \/ /\ req' = [req EXCEPT ![j] = "failed"]
        /\ UNCHANGED engineVoice
  /\ UNCHANGED <<appVars, socketVars, clientVars, jobVars, engineVars, pitchVars>>

\* _cfg_lock is held for the taking only, not for the writing.
EngineTakesStaged ==
  /\ running /\ ~stopEvent /\ staged # NoVoice /\ drained = NoVoice
  /\ drained' = staged /\ staged' = NoVoice
  /\ UNCHANGED <<appVars, socketVars, clientVars, jobVars, engineVars, swapVars, pitch,
                 enginePitch, overtaken, engineVoice>>

EngineAppliesTaken ==
  /\ drained # NoVoice
  /\ enginePitch' = drained /\ drained' = NoVoice
  /\ UNCHANGED <<appVars, socketVars, clientVars, jobVars, engineVars, swapVars, pitch,
                 staged, overtaken, engineVoice>>

\* request_model_swap(): queued, or refused by an engine that has stopped.
\* An engine that was never started queues.
RequestSwap(j) ==
  IF stopEvent THEN req' = [req EXCEPT ![j] = "failed"] /\ UNCHANGED swapQ
  ELSE req' = [req EXCEPT ![j] = "queued"] /\ swapQ' = Append(swapQ, j)

-----------------------------------------------------------------------------
(* The event loop.                                                         *)

\* on_mount: a virtual microphone that cannot be made suppresses autostart;
\* then the control socket, whatever a previous instance left at its path.
Mount ==
  /\ app = "new"
  /\ app' = "up"
  /\ listener' = "on" /\ pool' = "on" /\ file' = "this"
  /\ \E auto \in BOOLEAN : running' = auto
  /\ UNCHANGED <<presses, inbox, starter, successor, clientVars, jobVars, stopEvent, stopping, swapVars,
                 pitchVars, engineVoice>>

Clamped(p) == IF p > MaxPitch THEN MaxPitch ELSE IF p < -MaxPitch THEN -MaxPitch ELSE p

UpdateUnderWay == staged # NoVoice \/ drained # NoVoice

\* _apply_pitch
ApplyPitch(p) ==
  /\ pitch' = Clamped(p) /\ enginePitch' = Clamped(p)
  /\ overtaken' = UpdateUnderWay
  /\ UNCHANGED <<staged, drained>>

\* The reply is sent and the connection closed; "job" makes the client poll,
\* "pending" makes it poll again, anything else it takes as final.
Answer(c, r) ==
  /\ conn' = [conn EXCEPT ![c] = "closed"]
  /\ cmd' = [cmd EXCEPT ![c] = <<"none", NoVoice>>]
  /\ polling' = IF r \in {"job", "pending"} THEN polling \cup {c} ELSE polling \ {c}

AnswerIfClient(who, r) == IF who \in Clients THEN Answer(who, r) ELSE UNCHANGED clientVars

\* A bug: the worker has looked at _quitting before it posted this.
ToggleUnlooked == FALSE
\* _toggle_engine looks at _quitting again, on the event loop.
ToggleRefused == Quitting

\* _toggle_engine, for a key ("key") or for a client's posted callback.
Toggle(who) ==
  \/ /\ ToggleRefused
     /\ AnswerIfClient(who, "err")
     /\ UNCHANGED <<starter, stopping, pitchVars>>
  \/ /\ ~ToggleRefused /\ running
     /\ stopping' = IF stopping["toggle"] = "idle" THEN [stopping EXCEPT !["toggle"] = "asked"]
                    ELSE stopping   \* a second background thread would find nothing to do
     /\ AnswerIfClient(who, "ok")
     /\ UNCHANGED <<starter, pitchVars>>
  \/ /\ ~ToggleRefused /\ ~running
     /\ starter' = who           \* _start_engine: the pitch, then engine.start()
     /\ enginePitch' = pitch
     /\ overtaken' = UpdateUnderWay
     /\ UNCHANGED <<pitch, staged, drained, stopping, clientVars>>

\* engine.start() gets the lifecycle lock and joins what is left of a run that
\* has crashed; it may raise.
StartReturns ==
  /\ Alive /\ starter # "nobody" /\ LockFree /\ drained = NoVoice
  /\ starter' = "nobody"
  /\ \/ running' = TRUE /\ stopEvent' = FALSE /\ AnswerIfClient(starter, "ok")
     \/ UNCHANGED <<running, stopEvent>> /\ AnswerIfClient(starter, "err")
  /\ UNCHANGED <<presses, app, inbox, socketVars, jobVars, stopping, swapVars, pitchVars, engineVoice>>

\* The callback of a MODEL job: do_swap.apply_main.  What it saves is in
\* module ConfigStore.
ApplyModel(j) == RequestSwap(j) /\ UNCHANGED pitchVars

\* A bug: an engine that does not run is given no update.
StagingIfRunning(p) == IF running THEN p ELSE staged
\* request_cfg_update: merged into what is staged already, the later wins.
Staging(p) == p

\* _apply_profile_named: fields are staged; a swap is requested if the engine's
\* voice is another one, and the file of the profile's model is there.
NoSwapFor(j, why) == req' = [req EXCEPT ![j] = why] /\ UNCHANGED swapQ
ApplyProfile(j, p) ==
  /\ staged' = Staging(ProfilePitch[p]) /\ pitch' = ProfilePitch[p] /\ overtaken' = FALSE
  /\ UNCHANGED <<enginePitch, drained>>
  /\ \/ NoSwapFor(j, "missing")     \* a warning, and the voice stays what it is
     \/ IF ProfileVoice[p] # engineVoice THEN RequestSwap(j) ELSE NoSwapFor(j, "unneeded")

PostedToggle ==
  /\ LoopFree /\ inbox # <<>> /\ Head(inbox)[1] = "TOGGLE"
  /\ inbox' = Tail(inbox)
  /\ Toggle(Head(inbox)[2])
  /\ UNCHANGED <<presses, app, socketVars, jobVars, running, stopEvent, swapVars, engineVoice>>

PostedPitch ==
  /\ LoopFree /\ inbox # <<>> /\ Head(inbox)[1] = "PITCH"
  /\ inbox' = Tail(inbox)
  /\ LET c == Head(inbox)[2] IN
     /\ ApplyPitch(IF cmd[c][2] = 0 THEN 0 ELSE pitch + cmd[c][2])
     /\ Answer(c, "ok")
  /\ UNCHANGED <<presses, app, starter, socketVars, jobVars, engineVars, swapVars, engineVoice>>

\* A profile that exists neither in memory nor on disk raises in the job.
PostedApply ==
  /\ LoopFree /\ inbox # <<>> /\ Head(inbox)[1] = "APPLY"
  /\ inbox' = Tail(inbox)
  /\ LET j == Head(inbox)[2] IN
     /\ \/ work[j][1] = "MODEL" /\ ApplyModel(j)
        \/ work[j][1] = "PROFILE" /\ work[j][2] \in Profiles /\ ApplyProfile(j, work[j][2])
        \/ /\ work[j][1] = "PROFILE" /\ work[j][2] \notin Profiles
           /\ req' = [req EXCEPT ![j] = "failed"]
           /\ UNCHANGED <<swapQ, pitchVars>>
     /\ job' = [job EXCEPT ![j] = "awaiting"]
  /\ UNCHANGED <<presses, app, starter, socketVars, clientVars, entry, work, inFlight, engineVars, engineVoice>>

\* The toast of the background stop, and the QUIT command: call_later only
\* schedules action_quit, and the handler answers at once.
PostedNotify ==
  /\ LoopFree /\ inbox # <<>> /\ Head(inbox)[1] = "STOPPED"
  /\ inbox' = Tail(inbox)
  /\ stopping' = [stopping EXCEPT !["toggle"] = "idle"]
  /\ UNCHANGED <<presses, app, starter, socketVars, clientVars, jobVars, running, stopEvent, swapVars,
                 pitchVars, engineVoice>>

\* A bug: the handler waits until action_quit is over.
QuitAwaited(c) == UNCHANGED clientVars
QuitAnswered(c) == Answer(c, "ok")

PostedQuit ==
  /\ LoopFree /\ inbox # <<>> /\ Head(inbox)[1] = "QUIT"
  /\ inbox' = Append(Tail(inbox), <<"LATER", Head(inbox)[2]>>)
  /\ QuitAnswered(Head(inbox)[2])
  /\ UNCHANGED <<presses, app, starter, socketVars, jobVars, engineVars, swapVars, pitchVars, engineVoice>>

\* action_quit up to its first await; a second one returns.
BeginQuit ==
  IF Quitting THEN UNCHANGED <<app, stopping>>
  ELSE app' = "stopping" /\ stopping' = [stopping EXCEPT !["quit"] = "asked"]

LaterQuit ==
  /\ LoopFree /\ inbox # <<>> /\ Head(inbox)[1] = "LATER"
  /\ inbox' = Tail(inbox)
  /\ BeginQuit
  /\ UNCHANGED <<presses, starter, socketVars, clientVars, jobVars, running, stopEvent, swapVars,
                 pitchVars, engineVoice>>

Pressed == LoopFree /\ presses < MaxPresses /\ presses' = presses + 1

\* Keys.  "m" toggles the self-monitor and "s" saves: neither concerns the rest.
KeyToggle ==
  /\ "t" \in Keys /\ Pressed
  /\ Toggle("key")
  /\ UNCHANGED <<app, inbox, socketVars, jobVars, running, stopEvent, swapVars, engineVoice>>

KeyPitch ==
  /\ Pressed
  /\ \E k \in Keys \cap {"+", "-", "0"} :
       ApplyPitch(CASE k = "+" -> pitch + 1 [] k = "-" -> pitch - 1 [] OTHER -> 0)
  /\ UNCHANGED <<app, inbox, starter, socketVars, clientVars, jobVars, engineVars, swapVars, engineVoice>>

KeyQuit ==
  /\ "q" \in Keys /\ Pressed
  /\ BeginQuit
  /\ UNCHANGED <<inbox, starter, socketVars, clientVars, jobVars, running, stopEvent, swapVars,
                 pitchVars, engineVoice>>

\* action_cycle_profile submits a job; nobody polls it, so that its entry may
\* be used again when it has ended.
KeyProfile ==
  /\ "p" \in Keys /\ Pressed /\ ~Quitting
  /\ job[KeyJob] \in {"none", "ended"} /\ req[KeyJob] # "queued"
  /\ \E p \in Profiles :
       /\ work' = [work EXCEPT ![KeyJob] = <<"PROFILE", p>>]
       /\ job' = [job EXCEPT ![KeyJob] = "submitted"]
       /\ entry' = [entry EXCEPT ![KeyJob] = "pending"]
       /\ req' = [req EXCEPT ![KeyJob] = "none"]
  /\ UNCHANGED <<app, inbox, starter, socketVars, clientVars, inFlight, engineVars, swapQ, pitchVars,
                 engineVoice>>

\* action_quit after each of its awaits.
QuitStopped ==
  /\ app = "stopping" /\ LoopFree /\ stopping["quit"] = "returned"
  /\ app' = "closing"
  /\ UNCHANGED <<presses, inbox, starter, socketVars, clientVars, jobVars, engineVars, swapVars,
                 pitchVars, engineVoice>>

QuitClosed ==
  /\ app = "closing" /\ LoopFree /\ pool = "done"
  /\ app' = "saving"
  /\ UNCHANGED <<presses, inbox, starter, socketVars, clientVars, jobVars, engineVars, swapVars,
                 pitchVars, engineVoice>>

\* _write_cfg in a thread, whether it fails or not; then exit(), and run_tui
\* leaves the instance lock.
QuitExits ==
  /\ app = "saving" /\ LoopFree
  /\ app' = "exited"
  /\ UNCHANGED <<presses, inbox, starter, socketVars, clientVars, jobVars, engineVars, swapVars,
                 pitchVars, engineVoice>>

-----------------------------------------------------------------------------
(* Threads of the process: background stop, listener, workers, jobs.       *)

\* _stop_in_background: stop() has returned, the toast is posted.
BackgroundStopped ==
  /\ Alive /\ stopping["toggle"] = "returned"
  /\ stopping' = [stopping EXCEPT !["toggle"] = "posted"]
  /\ inbox' = Append(inbox, <<"STOPPED", "toggle">>)
  /\ UNCHANGED <<presses, app, starter, socketVars, clientVars, jobVars, running, stopEvent, swapVars,
                 pitchVars, engineVoice>>

\* send_command: no file and a file nobody listens behind are errors at once.
Connect(c) ==
  /\ conn[c] = "idle" /\ app # "new" /\ ~successor
  /\ \E m \in Commands[c] : cmd' = [cmd EXCEPT ![c] = m]
  /\ UNCHANGED polling
  /\ IF file = "this" /\ listener # "done" /\ Alive
     THEN conn' = [conn EXCEPT ![c] = "backlog"]
     ELSE conn' = [conn EXCEPT ![c] = "closed"]
  /\ UNCHANGED <<appVars, socketVars, jobVars, engineVars, swapVars, pitchVars, engineVoice>>

\* submit_and_wait polls JOB until the state is final or the answer an error.
Poll(c) ==
  /\ conn[c] = "closed" /\ ~successor
  /\ c \in polling
  /\ cmd' = [cmd EXCEPT ![c] = <<"JOB", NoVoice>>]
  /\ IF file = "this" /\ listener # "done" /\ Alive
     THEN conn' = [conn EXCEPT ![c] = "backlog"] /\ UNCHANGED polling
     ELSE UNCHANGED conn /\ polling' = polling \ {c}
  /\ UNCHANGED <<appVars, socketVars, jobVars, engineVars, swapVars, pitchVars, engineVoice>>

\* _loop: a connection is handed to the pool.
Accept(c) ==
  /\ listener = "on" /\ conn[c] = "backlog"
  /\ conn' = [conn EXCEPT ![c] = "queued"]
  /\ UNCHANGED <<appVars, socketVars, cmd, polling, jobVars, engineVars, swapVars, pitchVars,
                 engineVoice>>

\* Handlers that wait for the event loop hold a worker of the pool.
WorkerFree == pool # "done" /\ Cardinality({c \in Clients : conn[c] = "waiting"}) < PoolSize
Taken(c) == conn[c] = "queued" /\ WorkerFree

\* JobRegistry._gc: entries whose job ended longer ago than the TTL.  A job
\* lasts at most _SWAP_WAIT_S and what the event loop takes, far less than that.
Finished == {j \in Jobs : entry[j] \in {"done", "error"}}

SlowOps == {"MODEL", "PROFILE"}

\* _serve_one and _handle_control on a worker, by command.  A command that
\* does not arrive before the deadline closes the connection unanswered.
ServeBad(c) ==
  /\ Taken(c)
  /\ Answer(c, "none")
  /\ UNCHANGED <<appVars, socketVars, jobVars, engineVars, swapVars, pitchVars, engineVoice>>

ServeQuitting(c) ==
  /\ Taken(c)
  /\ Quitting /\ cmd[c][1] \in SlowOps \cup {"TOGGLE"}
  /\ Answer(c, "err")
  /\ UNCHANGED <<appVars, socketVars, jobVars, engineVars, swapVars, pitchVars, engineVoice>>

\* call_from_thread: post, and wait for the result.
ServePosts(c) ==
  /\ Taken(c)
  /\ \/ cmd[c][1] \in {"PITCH", "QUIT"}
     \/ cmd[c][1] = "TOGGLE" /\ ~Quitting
  /\ conn' = [conn EXCEPT ![c] = "waiting"]
  /\ inbox' = Append(inbox, <<cmd[c][1], c>>)
  /\ UNCHANGED <<presses, app, starter, socketVars, cmd, polling, jobVars, engineVars, swapVars,
                 pitchVars, engineVoice>>

\* MODEL with a voice that is not in the library.
ServeUnknownModel(c) ==
  /\ Taken(c)
  /\ ~Quitting /\ cmd[c][1] = "MODEL" /\ cmd[c][2] \notin Voices
  /\ Answer(c, "err")
  /\ UNCHANGED <<appVars, socketVars, jobVars, engineVars, swapVars, pitchVars, engineVoice>>

ServeSlow(c) ==
  /\ Taken(c)
  /\ ~Quitting /\ cmd[c][1] \in SlowOps
  /\ cmd[c][1] = "MODEL" => cmd[c][2] \in Voices
  /\ \E old \in SUBSET Finished :
       entry' = [j \in Jobs |-> IF j = c THEN "pending" ELSE IF j \in old THEN "none" ELSE entry[j]]
  /\ job' = [job EXCEPT ![c] = "submitted"]
  /\ work' = [work EXCEPT ![c] = cmd[c]]
  /\ Answer(c, "job")
  /\ UNCHANGED <<appVars, socketVars, inFlight, engineVars, swapVars, pitchVars, engineVoice>>

\* STATUS and JOB only read.
ServeRead(c) ==
  /\ Taken(c) /\ cmd[c][1] \in {"STATUS", "JOB"}
  /\ Answer(c, IF cmd[c][1] = "STATUS" THEN "ok"
               ELSE CASE entry[c] = "none" -> "err"
                      [] entry[c] \in {"pending", "running"} -> "pending"
                      [] OTHER -> entry[c])
  /\ UNCHANGED <<appVars, socketVars, jobVars, engineVars, swapVars, pitchVars, engineVoice>>

\* JobRegistry.submit.runner up to call_from_thread.
Target(j) == work[j][2]

JobBegins(j) ==
  /\ Alive /\ job[j] = "submitted"
  /\ job' = [job EXCEPT ![j] = "posted"]
  /\ entry' = [entry EXCEPT ![j] = "running"]
  /\ inFlight' = Append(inFlight, Target(j))
  /\ inbox' = Append(inbox, <<"APPLY", j>>)
  /\ UNCHANGED <<presses, app, starter, socketVars, clientVars, work, engineVars, swapVars, pitchVars,
                 engineVoice>>

\* A bug: the job takes its end of waiting for success.
AwaitedWhatever(j) == {"done"}
\* _await_swap: a request that failed, or was not answered in _SWAP_WAIT_S,
\* raises.
Awaited(j) ==
  CASE req[j] \in {"ok", "unneeded", "missing"} -> {"done"}
    [] OTHER -> {"error"}

\* A bug: one slot instead of a list.
WithoutLast(s, t) == <<>>
\* list.remove: the first of equals.
WithoutTarget(s, t) ==
  LET i == CHOOSE k \in 1..Len(s) : s[k] = t /\ \A l \in 1..(k - 1) : s[l] # t
  IN  RemoveAt(s, i)

\* A bug: a wait without a time-out.
AwaitAnswered(j) == req[j] # "queued"
\* _await_swap gives up after _SWAP_WAIT_S.
AwaitOver(j) == TRUE

JobEnds(j) ==
  /\ Alive /\ job[j] = "awaiting" /\ AwaitOver(j)
  /\ job' = [job EXCEPT ![j] = "ended"]
  /\ \E r \in Awaited(j) : entry' = [entry EXCEPT ![j] = r]
  /\ inFlight' = WithoutTarget(inFlight, Target(j))
  /\ UNCHANGED <<appVars, socketVars, clientVars, work, engineVars, swapVars, pitchVars,
                 engineVoice>>

\* ControlServer.stop, in the thread of action_quit: the event; the
\* listener's join; the socket is closed, which resets the connections that
\* wait to be accepted; the pool is drained; the file goes.
ListenerEnds ==
  /\ app = "closing" /\ listener = "on"
  /\ listener' = "done"
  /\ conn' = [c \in Clients |-> IF conn[c] = "backlog" THEN "closed" ELSE conn[c]]
  /\ polling' = {c \in polling : conn[c] # "backlog"}
  /\ UNCHANGED <<appVars, pool, file, successor, cmd, jobVars, engineVars, swapVars, pitchVars,
                 engineVoice>>

PoolDrains ==
  /\ app = "closing" /\ listener = "done" /\ pool = "on"
  /\ \A c \in Clients : conn[c] \notin {"queued", "waiting"}
  /\ pool' = "done" /\ file' = "none"
  /\ UNCHANGED <<appVars, listener, successor, clientVars, jobVars, engineVars, swapVars,
                 pitchVars, engineVoice>>

\* What the process held in memory is gone with it, its connections closed.
MemoryGoes ==
  /\ inbox' = <<>> /\ starter' = "nobody" /\ listener' = "done" /\ pool' = "done"
  /\ conn' = [c \in Clients |-> IF conn[c] = "idle" THEN "idle" ELSE "closed"]
  /\ cmd' = [c \in Clients |-> <<"none", NoVoice>>] /\ polling' = {}
  /\ job' = [j \in Jobs |-> "none"] /\ entry' = [j \in Jobs |-> "none"]
  /\ work' = [j \in Jobs |-> <<"none", NoVoice>>] /\ inFlight' = <<>>
  /\ running' = FALSE /\ stopEvent' = TRUE
  /\ stopping' = [s \in DOMAIN stopping |-> "idle"]
  /\ swapQ' = <<>> /\ req' = [j \in Jobs |-> "none"]
  /\ pitch' = 0 /\ enginePitch' = 0 /\ staged' = NoVoice
  /\ drained' = NoVoice /\ overtaken' = FALSE
  /\ engineVoice' = FirstVoice
  /\ UNCHANGED <<successor, presses>>

\* atexit: _unlink_path once more, whosever socket is there by now.
ProcessEnds ==
  /\ app = "exited"
  /\ app' = "gone" /\ file' = "none"
  /\ MemoryGoes

\* SIGKILL at any time: the kernel closes connections and the lock's
\* descriptor, the socket's file stays.
Killed ==
  /\ app \notin {"new", "gone"}
  /\ app' = "gone"
  /\ MemoryGoes /\ UNCHANGED file

\* Another instance finds the instance lock free; it removes what is at the
\* path and binds its own socket there.
NextInstance ==
  /\ ~Alive /\ ~successor
  /\ successor' = TRUE /\ file' = "next"
  /\ UNCHANGED <<appVars, listener, pool, clientVars, jobVars, engineVars, swapVars, pitchVars,
                 engineVoice>>

-----------------------------------------------------------------------------
StopStep(s) ==
  Alive /\ (StopReturnsEarly(s) \/ StopTakesLock(s) \/ StopJoined(s) \/ StopReturns(s))
Posted == PostedToggle \/ PostedPitch \/ PostedApply \/ PostedNotify \/ PostedQuit \/ LaterQuit
Serve(c) ==
  Alive /\ (ServeQuitting(c) \/ ServePosts(c) \/ ServeUnknownModel(c) \/ ServeSlow(c)
            \/ ServeRead(c))
Next ==
  \/ Mount \/ StartReturns \/ Posted
  \/ KeyToggle \/ KeyPitch \/ KeyQuit \/ KeyProfile
  \/ QuitStopped \/ QuitClosed \/ QuitExits
  \/ \E s \in DOMAIN stopping : StopStep(s)
  \/ EngineDies \/ EngineSwaps \/ EngineTakesStaged \/ EngineAppliesTaken
  \/ BackgroundStopped
  \/ \E c \in Clients : Connect(c) \/ Poll(c) \/ Accept(c) \/ ServeBad(c) \/ Serve(c)
  \/ \E j \in Jobs : JobBegins(j) \/ JobEnds(j)
  \/ ListenerEnds \/ PoolDrains \/ ProcessEnds \/ Killed \/ NextInstance

Spec == Init /\ [][Next]_vars

\* The operating system runs the threads and the event loop runs callbacks: of
\* each group some thread that can go on does.  Presses, connections and
\* therefore toggles, stops and jobs being bounded, that weak form is enough.
\* Nobody has to press a key, connect, poll, crash or kill.
LoopStep == StartReturns \/ Posted \/ QuitStopped \/ QuitClosed \/ QuitExits
StopThreads ==
  \/ \E s \in DOMAIN stopping : StopStep(s)
  \/ BackgroundStopped \/ ListenerEnds \/ PoolDrains
FairSpec ==
  /\ Spec
  /\ WF_vars(LoopStep)
  /\ WF_vars(EngineAppliesTaken)
  /\ WF_vars(StopThreads)
  /\ WF_vars(\E c \in Clients : Accept(c) \/ ServeBad(c) \/ Serve(c))
  /\ WF_vars(\E j \in Jobs : JobBegins(j) \/ JobEnds(j))

-----------------------------------------------------------------------------
(* Properties.                                                             *)

Posts == ({"TOGGLE", "PITCH", "QUIT", "LATER"} \X Clients) \cup ({"APPLY"} \X Jobs)
         \cup {<<"STOPPED", "toggle">>}
TypeOK ==
  /\ app \in {"new", "up", "stopping", "closing", "saving", "exited", "gone"}
  /\ starter \in Clients \cup {"nobody", "key"}
  /\ listener \in {"off", "on", "done"} /\ pool \in {"off", "on", "done"}
  /\ file \in {"none", "this", "next"}
  /\ conn \in [Clients -> {"idle", "backlog", "queued", "waiting", "closed"}]
  /\ job \in [Jobs -> {"none", "submitted", "posted", "awaiting", "ended"}]
  /\ entry \in [Jobs -> {"none", "pending", "running", "done", "error"}]
  /\ req \in [Jobs -> {"none", "queued", "ok", "failed", "unneeded", "missing"}]
  /\ pitch \in Pitches /\ enginePitch \in Pitches /\ staged \in Pitches \cup {NoVoice}
  /\ drained \in Pitches \cup {NoVoice}
  /\ engineVoice \in Voices /\ inbox \in Seq(Posts) /\ swapQ \in Seq(Jobs)
  /\ running \in BOOLEAN /\ stopEvent \in BOOLEAN /\ overtaken \in BOOLEAN
  /\ stopping \in [{"toggle", "quit"} -> {"idle", "asked", "joining", "joined", "returned", "posted"}]
  /\ DOMAIN cmd = Clients /\ DOMAIN work = Jobs

\* The status panel shows a swap as loading exactly while its job is between
\* _swap_begin and _swap_end, also when jobs overlap or have one target.
SwapsShown ==
  \A t \in {Target(j) : j \in Jobs} :
    Cardinality({k \in 1..Len(inFlight) : inFlight[k] = t})
      = Cardinality({j \in Jobs : job[j] \in {"posted", "awaiting"} /\ Target(j) = t})

\* A thread that waits for the event loop is in the loop's queue, or the
\* loop is starting the engine for it: no answer can be forgotten.
WaitersArePosted ==
  Alive =>
    \A c \in Clients : conn[c] = "waiting" =>
      starter = c \/ \E k \in 1..Len(inbox) : inbox[k] = <<cmd[c][1], c>>

\* A job reported as done has had its voice loaded, or is one of a profile that
\* needs no other voice, or whose model has no file.
DoneMeansApplied ==
  \A j \in Jobs : entry[j] = "done" =>
    req[j] = "ok" \/ (work[j][1] = "PROFILE" /\ req[j] \in {"unneeded", "missing"})

\* The engine does not run when quit is over, whatever was toggled meanwhile.
ExitsStopped == app \in {"closing", "saving", "exited", "gone"} => ~running

\* The engine's pitch is the TUI's, unless an update is still staged or being
\* applied, or the pitch was written past such an update.
PitchReachesEngine == ~UpdateUnderWay /\ ~overtaken => enginePitch = pitch

\* Every callback that a worker has posted is the one it waits for, and
\* nothing is posted twice; a job posts one callback.
Awaiting == {"TOGGLE", "PITCH", "QUIT"}
PostsKept ==
  /\ \A k \in 1..Len(inbox) :
       /\ inbox[k][1] \in Awaiting =>
            conn[inbox[k][2]] = "waiting" /\ cmd[inbox[k][2]][1] = inbox[k][1]
       /\ inbox[k][1] = "APPLY" => job[inbox[k][2]] = "posted"
       /\ starter \in Clients => inbox[k] # <<"TOGGLE", starter>>
  /\ \A k, l \in 1..Len(inbox) :
       k # l /\ inbox[k][1] \in Awaiting \cup {"APPLY"} => inbox[k] # inbox[l]
  /\ starter \in Clients => conn[starter] = "waiting" /\ cmd[starter][1] = "TOGGLE"
  /\ \A c \in Clients : /\ conn[c] = "waiting" => cmd[c][1] \in Awaiting
                        /\ conn[c] # "idle" /\ cmd[c][1] = "PITCH" => cmd[c][2] \in Int

\* A client has one job, and asks for it once; what is queued can be loaded,
\* and is queued once.
JobsKept ==
  /\ \A c \in Clients :
       conn[c] = "idle" \/ (conn[c] # "closed" /\ cmd[c][1] \in SlowOps) => job[c] = "none"
  /\ \A j \in Jobs :
       /\ job[j] = "none" => entry[j] = "none"
       /\ job[j] \in {"none", "submitted", "posted"} => req[j] = "none"
       /\ entry[j] = "done" => job[j] = "ended"
       /\ job[j] \in {"submitted", "posted"} /\ work[j][1] = "MODEL" => work[j][2] \in Voices
       /\ req[j] = "queued" => \/ work[j][1] = "MODEL" /\ work[j][2] \in Voices
                               \/ work[j][1] = "PROFILE" /\ work[j][2] \in Profiles
       /\ req[j] \in {"unneeded", "missing"} => work[j][1] = "PROFILE"
  /\ \A k \in 1..Len(swapQ) : req[swapQ[k]] = "queued"
  /\ \A k, l \in 1..Len(swapQ) : k # l => swapQ[k] # swapQ[l]

\* Once action_quit has begun nobody starts the engine, and its stop() has
\* returned only when the engine is down.
QuitKept ==
  /\ Quitting => starter = "nobody"
  /\ stopping["quit"] # "idle" => Quitting
  /\ stopping["quit"] \in {"joined", "returned"} => ~running

\* What is staged last is what the TUI shows.
StagedIsShown ==
  ~overtaken => /\ staged # NoVoice => staged = pitch
                /\ staged = NoVoice /\ drained # NoVoice => drained = pitch

ControlInv == /\ TypeOK /\ SwapsShown /\ WaitersArePosted
              /\ PostsKept /\ JobsKept /\ QuitKept /\ StagedIsShown

\* Again and again everything asked of the process is over: no client waits
\* for an answer, nothing is shown as loading, and a quit that was begun, by
\* key or by command, has ended the process.
AtRest ==
  /\ app \in {"new", "up", "exited", "gone"}
  /\ \A c \in Clients : conn[c] \in {"idle", "closed"}
  /\ inFlight = <<>> \/ ~Alive
Served == []<>AtRest

\* Refuted: a second instance that has been told it is alone can be reached.
\* The first one's atexit handler unlinks the socket of the second.
SuccessorReachable == successor => file = "next"

\* Refuted: "callers who write single fields directly are unaffected" by
\* staged updates (engine.py:421): the staged pitch is applied over theirs.
DirectWriteStays == ~UpdateUnderWay => enginePitch = pitch

\* Refuted: the job is "done only when the swap actually completes", and no swap
\* means that "the profile didn't change the active model" (app.py:880-885).
DoneHasItsVoice == \A j \in Jobs : entry[j] = "done" => req[j] \in {"ok", "unneeded"}

\* Refuted: a profile takes the voice that the engine has for the one it will
\* have; a swap still queued then loads another voice under that profile.
ComparedWithLatest ==
  [][\A j \in Jobs : req'[j] = "unneeded" /\ req[j] # "unneeded" => swapQ = <<>>]_vars
=============================================================================
