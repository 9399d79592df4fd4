# woys: a TLA+ model of the voice changer

woys changes a voice while somebody speaks: it reads the microphone, runs each
chunk of audio through three neural networks and plays the result into a virtual
microphone of PipeWire. The networks are numerical code that libraries run. What
the repository itself adds, and what is hard to get right in it, is the machinery
around one chunk loop: threads, child processes, a lock, an event, queues, pipes
and shared memory, started and stopped by key presses, socket commands and signals;
the stitching of chunks into one stream; and the files, profiles, models and audio
modules that several processes share and that a crash may leave half-way.

This directory models that machinery in TLA+, checks the models with TLC and
proves their safety properties with TLAPS. Paths below
are relative to the repository's root; `PROJECT.json` maps every definition to the
lines it stands for, lists every run, and lists the hazards the properties aim at.

## 1. Inventory

| component | source | state | operations |
|---|---|---|---|
| Engine life cycle | `src/audio/engine.py`, `gpu_tuning.py` | lifecycle lock, `_stop_event`, `_stopped`, thread handles, `stats.running/crashed`, saved collector state and signal handlers, GPU clock lock flags, inference client, cached sessions | `start`, `stop`, `_teardown_locked`, `_worker_main`, `_worker_preamble`, `_run_loop`, `_self_abort`, signal handler |
| Model swap | `src/audio/model_swap.py` | swap queue, outstanding requests, per-request event and error, `cfg.rvc_model` | `request_model_swap`, `_maybe_swap_model`, `_apply_one_swap`, `_fail_pending_swaps`, preloader |
| Inference child | `src/audio/inference_client.py`, `inference_worker.py`, `inference.py` | handles of the child (process, two pipes, two blocks of shared memory), voice loaded in the child | spawn, `infer`, `swap_model`, `restart`, `stop`; the child's command loop |
| Playback | `src/audio/playback.py`, end of `_run_loop` | player process, writer queue, dead event, respawn count | open, write, respawn, drain, close, wait, terminate, join |
| Native helper | `bin/woys-pw-out.c` | ring and its two atomic indices, stream state, `should_exit` | read stdin, push, pop in `on_process`, stream state changes, signals |
| Session pool | `src/audio/sessions.py` | LRU cache of sessions, access order | `get_or_create`, `evict_all` |
| Inference pipeline, SOLA | `inference.py`, `pitch.py`, `resample.py`, `sola.py` | history, held tail, resampler, rate, pitch carry, consecutive failures | process a chunk, flush, reset, rebuild for a rate |
| TUI | `src/tui/app.py` | pitch, active profile, staged settings, swaps in flight, `_quitting` | keys, socket commands, quit |
| Control socket | `src/tui/control.py` | listener, worker pool, job table, socket file | accept, serve, submit, poll, stop |
| Configuration store | `src/tui/config.py`, `src/woys/profiles.py`, `vcprofile.py` | `config.toml`, its lock and temporary file, profiles table | load, migrate, validate, save, profile save/use/delete/import |
| PipeWire chain | `src/woys/chain.py`, `src/audio/pipewire.py` | loaded PipeWire modules, a systemd unit | setup, teardown, enable, disable, relabel |
| Model library | `src/woys/models.py`, `convert.py`, `fp16_convert.py`, `scripts/download_weights.py` | the models directory, the download cache and hard links into it | download, convert, fp16-convert, fetch weights |
| Migration | `scripts/migrate_to_woys.py` | old and new directories, `config.toml` | move, merge, rewrite |
| Others | CLI, tray, logging, instance lock, vendored RVC server, other scripts | | |

How they interact. The TUI's event loop, its background threads and the control
socket's workers call `start()`, `stop()` and `request_model_swap()`. `start()`
spawns the engine thread; that thread spawns the monitor and preloader threads and
the inference child in its preamble, and the player with its writer, watchdog and
stderr threads in `_run_loop`. All of them share one `_stop_event`, which the
*next* `start()` clears. The engine thread sends chunks to the child over a pipe
and shared memory, and to the player over a bounded queue that the writer thread
empties into the stdin of the native helper, whose ring PipeWire's data thread
drains. The CLI reaches a running TUI over the control socket, and otherwise
rewrites the same configuration file, under a lock. Every join in the shutdown has a timeout, so every pair of a tear-down and
a thread it gave up on can overlap.

What is hard:

* a tear-down that goes on while the thread it joined is still running, and that
  thread waking up in the next run, whose `start()` has cleared the event;
* runs that end by themselves (crash, abort, failed warm-up, signal) with no
  `stop()`, followed by `start()`;
* host state that has to be given back once, however runs overlap or fail;
* a request that is queued while the queue is being failed;
* a child process that dies, hangs or answers late, and one being restarted while
  `stop()` is ending it;
* a player that dies under a write, a watchdog that replaces it while the loop
  ends, and a player that stops reading;
* a lock-free ring whose indices wrap around;
* an event loop that waits for threads which wait for it;
* chunks of varying size whose search ranges, tails and rates must add up;
* two processes rewriting one file of which each owns a part;
* sequences of external calls any of which fails, hangs or is the last one.

What makes each part correct is stated as its properties, below.

## 2. Modules

| module | models | used by |
|---|---|---|
| `EngineLifecycle` | start, stop, the engine thread, helpers, signals | `ModelSwap` extends it |
| `ModelSwap` | hot swaps on top of the life cycle, and its refinement | |
| `InferenceIpc` | engine thread, teardown and child around `InferenceClient` | |
| `Playback` | player, writer, watchdog, tear-down of the chunk loop | |
| `FrameFifo` | what the helper's ring promises | `PwRing` implements it |
| `PwRing` | the helper: reader, ring, data thread, stream states | |
| `TuiControl` | the TUI's event loop, control socket, jobs, staged settings, quit | |
| `ConfigStore` | `config.toml` under the TUI and two commands | |
| `ChunkPath` | a chunk's way: history, SOLA, resampler, rates, breaker | `Components` |
| `PitchGaps` | bridged gaps in the pitch against a whole-signal definition | `Components` |
| `SessionPool` | the cache of sessions | `Components` |
| `Chain` | PipeWire modules, one call at a time | `Components` |
| `ModelLibrary` | the models directory, one step at a time | `Components` |
| `Migration` | moving an installation of the old name | `Components` |
| `Components` | the last six side by side | |
| `MC*` | instances for TLC: symmetry sets, commands, bounds | |
| `EngineLifecycleProofs`, `ModelSwapProofs`, `InferenceIpcProofs`, `PlaybackProofs`, `PwRingProofs`, `TuiControlProofs`, `ConfigStoreProofs`, `ComponentsProofs` | theorems, section 4 | |

A definition that nothing uses and that stands just before the one it varies
(`NeverStale` before `StaleRun`) is a plausible bug of that code. Each property of
a passing run was seen to be violated with one such definition in place.

### EngineLifecycle

A variable per attribute that steers the life cycle (the declaration names it), a
program counter per thread: `pc` for callers of `start()`/`stop()`, `worker` for
engine threads, `helper` for monitor and preloader threads. An action is the code
between two points at which another thread can intervene: acquiring or releasing
the lifecycle lock, setting or reading the event, a join, a call into a device or
a child.

* `start()`: `CallStart`, then one of `StartReturnsEarly` (the old thread lives),
  `StartTearsDown` (the old run ended without a stop: `_teardown_locked` first) or
  `StartDirectly`; `StartClear`; `StartSpawn`.
* `stop()`: `StopReturnsEarly`, or `StopTearsDown` and the teardown's steps in
  order: event, failing of swaps, three joins, `InferenceClient.stop()`, release of
  client, sessions, collector and clock lock, signal handlers.
* the engine thread: preamble under the lock (`PreambleClock`, `PreambleModel`,
  `PreambleThreads`, each can fail), `LoopCheck`, chunks, a restart of the child,
  crash, flush, close, `WorkerEnds`. An `-lgc` that fails, or is given up after its
  six seconds, may have locked the clocks all the same; no flag says so, and
  `clocks` is "stray" then.
* the two calls of that thread that have no timeout: `infer()` of a child that does
  not answer (`InferHangs`), and closing the stdin of a helper that does not read
  (`CloseBlocks`). They may come to an end (`Relieved`), but need not.
* `SelfAbort`, `FirstSignal`, `SignalAgain` at any moment the code allows.

Joins: that of the engine thread may give up anywhere (`TeardownJoinWorker` has no
guard on it). A monitor or preloader thread that polls the event is gone within
its join, one that is blocked in a device write or a model load is not.

A run is named by its engine thread, and a name is used again once nothing of the
run is left (`FreeRuns`). `Runs` therefore bounds how many runs overlap, not how
many there are.

### ModelSwap

Extends the life cycle by the swap queue, `_outstanding_swaps`, the drained batch
and the threads in `_fail_pending_swaps()`. `Request` is the critical section of
`request_model_swap()`. The engine thread's `SwapLoopCheck`, `SwapDrain`,
`SwapApply`, `SwapKeepsVoice`, `SwapChildFails`, `SwapAbort`, `SwapResolve` and
`SwapRaises` replace the part of a chunk in front of the inference; teardown and
loop end fail pending requests in steps (`FailTake`, `FailLook`, `FailResolve`),
because the code looks at each request outside the lock. Refinement: the
life-cycle variables are the module's own, and `LifecycleSpec` says that every
behaviour with swaps in it is one of `EngineLifecycle`.

### InferenceIpc

Two threads use one `InferenceClient`, which its docstring calls not thread-safe:
the engine thread (`e`) and the teardown (`t`), which comes in when its join gave
up. Children are numbered in the order in which they are spawned; each has two
pipes and two blocks of shared memory. Audio is 1 or 2, alternating from chunk to
chunk, which is all that a mixed-up answer needs. A child loads, takes commands,
answers or fails, may die at any time, and ends when the parent's ends of its pipes
are gone, by `close()` or because nothing refers to them any more (`PipesOpen`).
`Hanging` children need not answer. A spawn fails in two ways: with the clean-up
(`SpawnFails`: an error message, or no message in time), or past it (`SpawnBreaks`):
a child that dies while it is waited for leaves the end of its pipe to be read,
`recv()` raises `EOFError` at `inference_client.py:201`, and the shared memory stays.
A child that has died like that is "crashed" instead of "dead".

### Playback

`main` is the engine thread around and after its chunk loop, `writer` and `dog` are
the writer and watchdog threads of each run, `proc` the helper processes. A helper
may die at any time and, if `HelperMayStick`, stop reading while it lives; a
payload is larger than a pipe, so that a write to it then blocks. `told` are
helpers that have seen EOF or SIGTERM; the end of the thread that spawned a helper
counts, because of `PR_SET_PDEATHSIG`.

### PwRing and FrameFifo

Both threads copy slot by slot and publish their index last; the other's index is
read once. Indices start at 0 and wrap at `IndexSpan`, a multiple of the capacity.
Frames are named by their position in stdin, modulo `Positions`. The
refinement maps the slots between the published indices to `FrameFifo`'s queue.
Acquire and release on the indices is modelled as plain interleaving; that is sound
as long as the two threads never touch one slot at the same time, which is what
`SlotsApart` checks.

### TuiControl

The event loop runs one callback at a time: a key, what a thread has posted with
`call_from_thread()`, or the next part of `action_quit()`. `inbox` is its queue;
a socket worker or a job thread that has posted waits. Workers serve one connection
each; a slow command (`MODEL`, `PROFILE`) becomes a job, `entry` is its state in the
job table and `req` its swap request. The engine is what these threads see of it:
whether it runs, `start()` and `stop()` with their points of waiting, the swap queue
and the staged fields of `request_cfg_update()`, which the engine thread drains
under `_cfg_lock` (`EngineTakesStaged`) and applies outside it (`EngineAppliesTaken`).
A profile asks for a swap if its voice is not the engine's and its file exists; with
no file it warns and keeps the voice it has (`"missing"`, which
`tests/test_tui_missing_model.py:44-55` asserts). A second instance may start once
the instance lock is released.

### ConfigStore

One action per step of `load_config` and `save_config` of the TUI and two commands:
lock, reload, open the temporary file, write, replace, unlock. A process may be
killed between any two. `knob` stands for the fields which a migration bumps, a key
sets and pins, a flag overrides and validation resets; profiles have a voice and a
knob. A load that makes the file, or migrates it, saves outside the lock
(`config.py:593-604`): the start of the TUI (`app.py:354`) and the commands that look
before they lock. `raced` records that two processes have been saving at the same
time, which is possible in this way only (`LockKept`); `renamed` are processes whose
open temporary file another one has renamed onto `config.toml` then.

### ChunkPath and PitchGaps

In `ChunkPath` a sample is where it comes from (this voice, before the reset,
silence): `history` is the context in front of a chunk, `tail` what SOLA holds back,
`lag` how far the output is behind the input, `short` how much less a chunk put out
than it took in. Inference leaves out up to `Trim` samples at the boundaries, any
share of them at the end; the context is cut off in proportion to what came out,
rounded either way (`Cuts`); and the offset that wins the correlation is any in the
range. `Crossfade` is at least one sample: `config.py:176` allows 0, but then
`new_audio[-cf:]` is the whole block (`sola.py:393`, `435`), which the crossfade of the
next chunk cannot take (line 427). Rates are of the voice, the
stitcher, the inference and the resampler, which swaps, failures, restarts of the
child and new runs change at their own steps. `PitchGaps` extends a signal of
voiced and unvoiced frames chunk by chunk, and bridges gaps as
`interpolate_voiced_gaps_np` does in each window; `Sung` says the same of the whole
signal, and `PitchKept` that the two agree in the part of the window that is kept.

### SessionPool, Chain, ModelLibrary, Migration

`SessionPool`: two threads between the two critical sections of `get_or_create()`,
with providers that raise or bind to what they like. `Chain`: each `pactl`, `pw-cli` or
`systemctl` call works, fails, or ends the command; `loaded` is the audio server's
list. `pw setup` looks (`PwState`), destroys the nodes of the microphone by their
names, live ones too (`PwSweep`, `PwDestroy`), loads what it had not seen before the
sweep (`PwLoadSink`, `PwLoadMic`) and looks again (`PwReady`); `pw teardown` sweeps in
the same way after its unloads. That a module goes with the node it has made is
PipeWire's and an assumption of the model. `ModelLibrary`: what is under each name of the models directory after each
step of a download or a conversion, and in the cache file it may be a link to.
`Migration`: a rename or a copy per entry, then the rewriting of `config.toml`; a
directory that exists on both sides and is a link on one (`links`) is passed over; a
run may be cut off anywhere, woys started in between, and another run follow.

`Components` instantiates these six parts. They share no state, so a behaviour
moves one part and leaves the others at their beginnings: the state space is their
sum and every part is explored completely.

## 3. Runs

| run | shows | bounds |
|---|---|---|
| `lifecycle_safety` | `IndInv` and the invariants below | two callers, one of them the main thread; two overlapping runs; child inference |
| `lifecycle_live` | a run told to stop ends, unless it waits for ever for a child or a helper; `start`/`stop` return even then; a GPU lock that was reported is never forgotten | one caller, one run, both kinds of inference, clock lock, host without collector |
| `swap_safety` | no request lost, none left in the queue after it was answered, none answered before its own voice is loaded; refinement of the life cycle | two requests, one caller, one run |
| `swap_live` | a request a chunk loop accepts is answered, unless the loop waits for ever | one request |
| `playback_safety` | no helper unnoticed, writer there, stderr drained | two runs, two helpers, queue of one, one respawn |
| `playback_live` | tear-down and threads end, dead helpers are replaced or the run stops, respawning ends | one run, two helpers, queue of two, two respawns |
| `ring` | slots apart, FIFO, quiet shutdown, no lasting back-pressure, EOF ends the helper | capacity 4 (room for 3 frames), indices wrap at 8, reads of up to 4 frames, requests of up to 2 |
| `ipc_stop` | own results, linked memory, swaps that hold, clean stop, everything ends | three children, the first may hang; one late answer |
| `tui` | jobs, panel, settings and quit, below | two clients with one command each (one slow, one short), one key press, two voices and two profiles, a pool of one worker |
| `store` | the file under crashes, flags, profiles and pins, below | two commands of any kind, the TUI started twice, one key, one kill, one of each name |
| `components` | the six parts of `Components`, below | two commands, one killed (library); two processes, three commands, two calls that fail, one of which may hang, be cut off or be a restart of the server (chain); two threads, three models, cache of two (pool); three voices, chunks of none, one or three samples (chunks); a window of seven frames, gaps of two (pitch); two runs, one cut off (migration) |
| `store_unchecked` | a violation, section 6 | one command, no kill |

A name such as `SwapInv`, `PlaybackInv`, `RingInv` or `IpcInv` is the conjunction of
its module's type invariant, its named invariants (`NoneLost`, `NoGhostSwap`;
`NoOrphans`, `WriterServes`, `StderrIsDrained`; `SlotsApart`; `OwnResult`,
`LinkedWhileAlive`) and what the proofs need besides (section 4); `RunsEnd` is that of
`TeardownEnds` and `ThreadsEnd`, and `StdinIsTaken` of `BackpressureEnds` and `EofEnds`.

The properties of the life cycle:

* `OneWorker`: at most one engine thread lives, and `_thread` names it. Fails if
  `start()` mistakes a thread that is slow to end for a dead one.
* `StoppedIsReleased`: after `stop()` nothing reports "running" and no child is
  left but one which the engine thread, whose join timed out, is in the middle of
  calling or restarting. Fails without the second look at `_stop_event` in
  `_worker_main` (`engine.py:546`).
* `ChildOwned`: a child that lives is the one the next teardown stops, or goes
  with the unfinished call.
* `HostRestored`: the collector is as the host had it, after any number of runs
  that crashed, aborted or failed to warm up; a GPU left locked is remembered by the
  flags that make the next `start()` try again, unless the `-lgc` that locked it was
  reported as failed (section 6).
* `PriorIsSomeoneElses`: the engine's signal handler is never saved as the handler
  to restore, which would make the re-raised signal come back for ever.
* `CrashIsNotRunning`: a crashed or aborted run past its cleanup is not shown as
  running.

`ChildOwned`, `PriorIsSomeoneElses` and `CrashIsNotRunning` are parts of `IndInv`.

The properties of the TUI:

* `ControlInv`: the panel shows a voice as loading exactly while jobs for it are
  between begin and end, and every thread that waits for the event loop is in its
  queue or is what the loop is busy with.
* `DoneMeansApplied`: a job that reports done has had its voice loaded, although
  several are in the swap queue, some are refused and the engine stops meanwhile; or
  it is that of a profile which needs no other voice, or whose model has no file.
* `ExitsStopped`: whatever was toggled while the TUI was quitting, the engine does
  not run when the process is gone.
* `PitchReachesEngine`: a pitch set by key, command or profile is the engine's
  once nothing is staged or being applied (a direct write past an update excepted,
  section 6).
* `Served`: again and again, no client waits and no quit is unfinished.

Of the configuration:

* `StoreInv`: flags of a session are never saved, at top level or in a profile, and
  commands work with checked values; until two saves have met (`raced`), the file is
  whole whenever somebody is killed.
* `ProfilesKept`: until then, a save of the TUI or of a load never undoes a command's
  change to profiles.
* `UsersStay`: a file that did not load is not overwritten with defaults; until then,
  a migration does not bump what the user has pinned.

What happens when two saves do meet is in section 6 (`Whole`, `NoEditIsLost`).

Of the components:

* `ChainInv`: a setup that reports success has loaded one of each module whatever
  half-finished commands had left; one failing call leaves no half of a chain
  behind a setup, and does not cost the microphone (of `pw setup` see section 6).
* `ChunkInv`: stitching, resampler and inference agree on the rate of the voice,
  nothing of the previous voice or run is left in the history, and the breaker trips.
* `Stitched`: output neither runs ahead of the input nor drifts, whatever inference
  leaves out; a chunk puts out what it took in but for that; and a held tail is
  played before it is dropped, except in the last iteration of an abort (section 6).
* `PitchKept`: a gap is bridged exactly when it is short in the whole signal,
  wherever chunks begin and end.
* `LibrarySafe`: a successful download has what its hash pins, also through hard
  links; foundation weights are whole and pinned at every moment.
* `PoolSafe`: cache and access order agree and are bounded, nothing runs on the CPU,
  and of two threads that build one model the second takes the first's session.
* `MigrationSafe`: every file of the user is whole under one of its two names at
  any moment; what woys or the user has made since is not overwritten; a run that
  ends has moved everything that is not in the way, nor in a directory that is a link.

`lifecycle_safety` has 1.7 million states after two sound reductions: the runs are
interchangeable (`Symmetry`), and `pool`, which no guard reads and none of these
invariants is about beyond its type, is left out of the fingerprint (`SafetyView`).
In `ring` a read of four frames never fits the ring as a whole, which has room for
three, so that it is pushed in parts.

Why the bounds are enough. Interference in the life cycle is between the current
run, one older run and two callers: locks, handles and flags are single, and a
third run would meet the same single ones. Two requests are what a batch needs to
have one in progress and one behind it. Two helpers are an old and a new one.
Three children are a start and two restarts, one hung and one good. In the ring, a
capacity of four with reads of four frames and requests of two has full, empty and
wrapped states with both threads in the middle of a copy, and `IndexSpan` of twice the
capacity makes indices wrap often. Two commands and the TUI are one more than a lock has holders;
one kill leaves one stale temporary file, which the next save has to deal with. In
`ChunkPath` chunks are empty, as long as and longer than the crossfade, a chunk may
miss one sample, and three
voices are a pair of one rate and a third of another. In `PitchGaps` the window is
the default's in proportion: a gap of two frames, a carried frame that may lie
inside it, and three new frames a chunk. A migration that was cut off twice meets
the same two sets of files as after one cut. Bounds by name: `Runs`, `Requests`, `Procs`, `MaxChildren`,
`MaxUnread` (swaps whose answers were not awaited), `Positions`, `QueueSize`,
`RespawnCap`, `PoolSize` and `DropLimit` (the code's own, made small), `MaxPresses`,
`MaxStarts`, `MaxKeys`, `MaxKills`, `MaxRuns`, `MaxFails` (calls that fail, hang or
are cut off), `MaxDeaths` (those that hang or are cut off), `MaxCommands`, `MaxKilled`, `MaxMigrations`, `MaxCuts`.

### Fairness

* Life cycle and swaps: a thread that can go on goes on; one that waits for the
  lock gets it if it is free again and again (strong fairness), because the other
  contenders are key presses and socket commands, not loops. Nobody has to call
  `start()` or `stop()`, send a signal, abort or take an item from a queue. Nothing
  obliges a child to answer `infer()` or a helper to read its stdin: the code waits
  for both without a timeout, so `StopEndsRun` and `LoopAnswers` except a run that
  waits there for ever (`WaitsOn`). The microphone is assumed to deliver.
* Playback: threads go on, and a helper that was told to end does so, unless it
  is stuck. No helper has to die, stick or recover; opening one may fail always.
* Ring: the main thread runs and PipeWire calls a stream that streams. Liveness is
  claimed only while the stream streams.
* TUI: the event loop, its workers, jobs and the engine thread go on. Nobody has to
  send a command, press a key or quit. `ConfigStore` and `Components` state safety
  only: their processes are commands, which may be killed at any step.
* Inference child: both threads of the engine run; a child answers unless it is
  `Hanging`. Nothing obliges anybody to stop, to swap or to die.

`CHECK_DEADLOCK FALSE` is set where the system ends: a helper that has exited
(`ring`), a stopped client (`ipc_stop`), a TUI that was quit (`tui`), and commands
that are over (`store`, `components`). An engine can always be started again.

## 4. Proofs

Every safety invariant and every safety action property that a passing run checks
is also a theorem, for every value of the constants, and so are
both refinements. A theorem assumes what its module states as a named assumption
about its constants (`ThreadsAssumption`, `ChunkAssumption`, ...) and nothing else,
but for four hypotheses that stand in the statement of the theorem:

| theorem | hypothesis | without it |
|---|---|---|
| `RingIsFifo` | `~PartialReads` | a read that ends inside a frame drops bytes, and TLC refutes `FramesAreWhole` (section 6) |
| `OnlyDeadReplacedAlways` | one run at a time | the watchdog of an older run may displace the helper of the next; the run's own invariants (`PlaybackInv`) need no such hypothesis |
| `StitchedAlways` | `Search <= Context`, and a chunk with the search range is no shorter than what inference leaves out (`Trim`) | chunks put out less than they take in by more than what is left out (end of section 6); a block with no room for the tail starts the stitching anew |
| the theorems of `ComponentsProofs` | the assumption of the part | a module that is instantiated brings its assumptions as hypotheses |

Hardly any of the properties is inductive. What had to be added, and why:

| module | inductive invariant | why |
|---|---|---|
| `EngineLifecycleProofs` | `IndInv` | below |
| `ModelSwapProofs` | `SwapInv`: `OnePlace`, `TakersFail`, `SwapInChunk`, `AppliedIsSet`, `NothingAdded` | a request is in one of queue, batch and the hands of one thread that fails it, so that what one place loses another has; the voice applied is still set when its request is resolved. The life cycle's `IndInv` comes with the refinement |
| `InferenceIpcProofs` | `IpcInv`: `ChildrenKept`, `CallsRefer`, `OwnAnswers`, `OwnSwaps`, `StopOwns` | between client and child at most one inference and one swap are unanswered, in pipes or in work; a late answer can only be that of a swap that was given up, which `infer()` tells from its own |
| `PlaybackProofs` | `PlaybackInv`: `HandlesKept`, `OpenedAreFresh`, `StdinsOpen`, `HelpersOwned` | a live helper is in use, in the hands of the thread that opened it, or told to end; what is being opened is nobody else's |
| `PwRingProofs` | `RingInv`: `RoomKept`, `CopiesTrue`, `InputTracked`, `ExitMarked` | the room a thread has read stays room while the other moves its own index; what is copied is what was read. Before it: that reducing indices modulo a multiple of the capacity changes no slot and no distance |
| `TuiControlProofs` | `ControlInv`: `PostsKept`, `JobsKept`, `QuitKept`, `StagedIsShown` | every waiting client has just one callback in the loop's queue or is the one that starts the engine (`LoopFits`, a relation between queue, connections and jobs); "shown as loading" is a list with repetitions, compared with the jobs by counting (`Lists`) |
| `ConfigStoreProofs` | `StoreInv`: `LockKept`, `AskKept`, `TmpKept`, `FlagKept`, `BrokenKept`, `TableKept`, `OldKept` | in two parts: `Always` holds whatever overlaps, `Apart` until two processes have been saving at the same time (`raced`). Until then there is one writer, under the lock or a load; so the temporary file is its writer's, and what a writer has in memory follows the file it replaces. `OldKept` has two worlds, an old pinned value and one that migrates, and no step leads from one to the other |
| `ComponentsProofs` | `ChunkIInv`, `SteadyIInv` | the breaker has counted at least the run's failures; no tail outside the loop; lag and tail move together |
| | `MigrIInv` | what is under way is one entry, what is past is moved or in the way, `config.toml` is the last; a run that was not cut off leaves nothing torn |
| | `LibIInv` | a link and the cache file it links to have one content; what a job is about follows from its step |
| | `PoolIInv` | the order lists the cached voices once each, and a session on its way in is of the voice that was wanted |
| | `ServerIInv`: `ServerTypes`, `Steady`, `InPlace`, `Turns`, `Content`, `Answers`, `MicKept`, `Reported` | below |
| | `PitchIInv` | only the signal's type. The argument is in `ShortGapsAreInTheWindow`: a short gap that ends in the part that is kept begins in the window, because `MaxGap <= Dropped`; so neither older frames nor the carried one matter there |

TLC checks each strengthening in the run of its module (`IndInv`, `SwapInv`, ... are
the invariants in the configurations; those of the components were checked the same
way while they were found).

Refinements: `SwapsImplementLifecycle` (each step of a swap is a step of
`EngineLifecycle` or leaves it alone; this needs no invariant), and `RingIsFifo` (the
slots between the published indices are `FrameFifo`'s queue; a push appends to it, a
pop takes from its front).

The life cycle's `IndInv` is `TypeOK` and

* `ControlInv`: `LockExclusive` (whoever is between acquiring and releasing the
  lock holds it alone, preambles included), `OneWorker`, `EventHolds` (the event
  stays set from a teardown's first step to the next `start()`), and `FreshStart`
  (what a `start()` past its checks and a fresh thread can count on: everything
  dead, not stopped, not crashed);
* `BorrowInv`: `NothingBorrowed` (when no run is under way the collector's saved
  state and the client are back at their defaults), `ChildOwned`, `HostTracked`
  (collector on or saved; a locked clock is flagged; our own handler is never
  saved), `PriorIsSomeoneElses`;
* `ReportInv`: `CrashIsNotRunning`, and a stopped engine is not running.

`OneWorker` needs `LockExclusive` and `FreshStart`, or a spawn could follow a check
made before another caller's spawn; `StoppedIsReleased` needs `EventHolds`, which
is why a thread that wakes up after a stop does not enter its preamble.

`ServerIInv`, of the chain, says at each call of a command what the audio server has
loaded then. `Content`: a command that is alone, or any while nothing has hung, has
loaded exactly the kinds before the one it is about to load, has in its list all of
the chain that it is still to unload, and relabels a chain that is complete or gone.
It rests on `Turns`: of two commands under way one is `pw setup`, which does not
touch the chain. It may take the microphone away, so `MicKept` is about commands that
are alone and neither set the microphone up nor take it away. `Steady` (the chain is whole or
absent while nobody is between its first unload and its last load) is what a command
finds when it begins; `Answers` and `MicKept` follow a failed call through the
rollback and the relabel to the end of the command, and through `enable`, which runs
the setup on behalf of systemd; `Reported` is `ActiveIsWhole` with single modules in
place of cardinalities. That the ids the server hands out are numbers needs the sets
of modules to be finite. Looking for this invariant showed that `NoHalfChain` had
claimed too much: an `enable` of a unit already started reports success without
looking at the chain (`EnabledIsWhole`, section 6), and the property now names the
commands that answer for it (`HasSetUp`).

Each proof is laid out alike: the types and parts of the invariant, a lemma that it
holds at first, one lemma per action (or per group of actions that touch the same
variables), one that combines them over the next-state relation, and the theorem.
What steps have in common is a lemma about sequences, counting or remainders at the
top of the module.

Only model-checked:

* liveness (`StopEndsRun`, `Served` and the like): fairness and ENABLED
  are out of the prover's reach;
* what section 6 refutes.

## 5. What the models abstract

* What a chunk contains and what inference computes; statistics, logging, wording.
* Time: a timeout may or may not expire whenever it could. The exceptions are
  named at the actions (a helper thread that polls every 0.1 s is gone within 1 s).
* `_resolve_swap` sets error and event in one step; the critical sections of
  `_swap_lock` are one step each.
* `kill()` and `terminate()` followed by a join end a child. A process in an
  uninterruptible system call is not modelled.
* Objects go when nothing refers to them, and close their pipes. This is CPython's
  reference counting; the collector that the engine turns off plays no part in it.
* Signals reach the main thread between any two steps.
* The writer of a run is not told apart by which queue object it took: each run
  makes a queue and the old writer ends on the event or on its closed helper.
* In the life cycle the 50-failures circuit breaker is an abort at any moment of the
  loop; when it trips is in `ChunkPath`. `SelfAbort` is taken by a run that is in its
  loop, which by `OneWorker` is the only one; a playback watchdog that outlives both
  joins and aborts the next run is seen in `Playback` (`CleanSlate`) only.
* That the context in front of a chunk is no shorter than the longest gap that is
  bridged (`MaxGap <= Dropped` in `PitchGaps`) holds of the defaults; `config.py:178`
  allows a context for which it does not.
* An `unlink` of an intermediate file of a conversion that fails is suppressed
  (`convert.py:550-561`) and leaves that file; the model's unlinks work.
* Network, conversion and what PipeWire, systemd or ONNX Runtime make of a call are
  choices of outcome.
* Two commands of `Chain` overlap only if one is the `pw setup` that the TUI runs.
* Validation and migrations of the configuration are those of one field.
* `restart()` gives up the old child in one step; `_spawn_child()` spawns in one
  and waits in another. An unexpected first message of the child cannot occur.

## 6. Where the code does not do what it says

`store_unchecked` is a run whose one property TLC refutes: `read_disk_profiles()`
(`profiles.py:113-131`) hands the TUI the table of the file as it is, before every save
(`app.py:975-976`) and when a profile is not in memory (`app.py:888-890`). In the run
the file has a bad value in a profile; the TUI starts and resets it, in memory only;
a key saves, and with the save's reload the bad value is back; the next `PROFILE`
command applies it unchecked, contrary to `config.py:283-285`.

Further statements of this kind stand in their modules. TLC refutes each of them
when it is put as the one property of a configuration.

| module!property | instance | what happens |
|---|---|---|
| `EngineLifecycle!StoppedHasNoChild` | one run, child inference | `stop()` completes while the engine thread is restarting the child (`inference.py:119`), contrary to `engine.py:740`. |
| `ModelSwap!NeverParks` | one run, one request | a swap requested of an engine whose warm-up failed is answered only by the next `start()` or `stop()` (`engine.py:564`), contrary to `model_swap.py:383` and `402`. |
| `Playback!CrashTakesThreadsDown` | one run, `HelperMayStick` | with a helper that does not read, `stdin.close()` at `engine.py:1309` waits for the writer's lock and `terminate()` is never reached, contrary to `tests/test_engine_crash_teardown.py:1`. |
| `InferenceIpc!VoiceFollowsConfig` | two children | after a swap, a restarted child serves the voice of the start of the run (`inference_client.py:439`), contrary to lines 4-5. |
| `EngineLifecycle!StartedOrRunning` | one run | `engine.py:485`: `start()` during the cleanup of a crashed run returns without starting or raising; the TUI answers "starting" (`app.py:477`). |
| `EngineLifecycle!RunningIsAlive` | one run | `engine.py:567` promises that uncaught exceptions clear `running`; what precedes the `try` at 898 is outside it, and the engine stays "running" with no thread. |
| `EngineLifecycle!OneConsumer` | two runs | `engine.py:494` clears the event before a monitor thread blocked through its join has seen it; two threads then drain one queue. |
| `EngineLifecycle!LockIsNoticed` | as `lifecycle_safety`, `ClockLock = TRUE` | "the lock is reverted automatically on `engine.stop()`" (`docs/22-gpu-clock-lock.md:46-48`): an `-lgc` that timed out or reported an error after it had locked the clocks sets no flag, and neither `stop()` nor the next `start()` sends `-rgc` (`gpu_tuning.py:163-174`, `195-198`). |
| `EngineLifecycle!SessionsReleased` | in-process | a preload that outlives its join caches its session after `evict_all()` (`model_swap.py:651`). |
| `ModelSwap!FailedIsNotApplied` | as `swap_safety` | `stop()` answers a swap in progress with an error, and the engine thread then applies it (`model_swap.py:618`). |
| `Playback!CleanSlate` | as `playback_safety` | a watchdog that is opening a player outlives its 0.5 s join (`engine.py:1329`) and goes on in the next run. |
| `Playback!StableHandle` | as `playback_safety` | the watchdog looks at the event outside the lock (`playback.py:640`) and may install a helper after the tear-down has taken the handle. |
| `Playback!TailIsPlayed` | as `playback_live` | on an ordinary stop the writer is gone before the tail of the last chunk is queued (`engine.py:1288`). |
| `PwRing!ExitIsObeyed` | as `ring` | a reader with a full ring under a stream that has stopped never looks at `should_exit` (`woys-pw-out.c:317`). |
| `PwRing!FramesAreWhole` | 3 channels, `PartialReads`, pipe of 6, 18 positions | a read that ends inside a frame drops its bytes (line 312) although line 306 says it keeps them. |
| `InferenceIpc!ShmReleased` | as `ipc_stop` | a restart that finishes after `stop()` has looked leaves its shared memory to the resource tracker (`inference_client.py:285`). |
| `InferenceIpc!CrashLeaksNothing` | as `ipc_stop` | "cleanly torn down and replaced without leaking shm" (`inference_client.py:103-104`): a child that dies while it loads makes `recv()` raise `EOFError` (line 201) past the clean-up, and its shared memory has no owner. |
| `TuiControl!SuccessorReachable` | as `tui` | the `atexit` handler of a TUI that has released the instance lock unlinks the socket of the next one (`control.py:330`). |
| `TuiControl!DirectWriteStays` | as `tui` | "callers who write single fields directly are unaffected" (`engine.py:421`): a pitch that is staged, or drained and being applied outside the lock (`engine.py:440-442`), goes over a later direct one. |
| `TuiControl!DoneHasItsVoice` | as `tui` | "done only when the swap actually completes", and no swap "if the profile didn't change the active model" (`app.py:880-885`): a profile whose model has no file swaps nothing, and its job is done with the old voice (`app.py:933-950`). |
| `TuiControl!ComparedWithLatest` | as `tui` | a profile compares its voice with the one the engine has (`app.py:942`); a swap still queued then loads another under it. |
| `ConfigStore!AppliesSaved` | as `store` | `profile use` is answered with the profile that the TUI read before another command saved it anew. |
| `ConfigStore!Whole` | as `store` | two loads that save, first runs or migrations, do so without the lock; one renames the file the other is still writing. |
| `ConfigStore!NoEditIsLost` | as `store` | the lock "keeps one writer from saving over an edit the other made" (`profiles.py:93-97`): a migration is saved without it (`config.py:593-604`, from `app.py:354` and `profiles.py:234`), over a `profile save` that came in between. |
| `ModelLibrary!NothingLeft` | as `components` | a conversion that fails in its validation leaves `<voice>_simple.onnx`, which "confuses `woys models list`" (`convert.py:555`). |
| `Chain!DisabledIsShown` | as `components` | `disable` unloads a chain that no unit has loaded, and `woys-mic` keeps its internal label. |
| `Chain!EnabledIsWhole` | as `components` | `enable` of a started unit answers "enabled + started" (`chain.py:831`) although a teardown has unloaded part of its chain: `enable --now` starts nothing then. |
| `Chain!SetupKeepsMic` | as `components` | "idempotent", "load both modules if they aren't already present" (`pipewire.py:249`, `262`): where `WoysSink` is missing, the sweep for orphans destroys the live `woys-mic`, which is not loaded again, since it was there when `pw setup` looked. |
| `Chain!ReadyIsThere` | as `components` | the same `pw setup` answers "woys-mic ready" (`cli.py:394`) without a microphone. |
| `Chain!RelabelIsAtomic` | as `components` | "the rollback below guarantees the end state" (`pipewire.py:423-425`): a `pactl` that times out raises past it. |
| `SessionPool!CappedBySize` | as `components` | the running voice may have been evicted, and two threads build at once: memory holds more voices than `max_size` (`sessions.py:298`). |
| `SessionPool!TrtIsTrue` | as `components` | a session that TensorRT left to CUDA counts as TensorRT's. |
| `ChunkPath!TrippedByARow` | as `components` | `_consecutive_drops` is set in the constructor only (`engine.py:361`): a new run goes on counting where the last was stopped. |
| `ChunkPath!HeardAtItsRate` | as `components` | a child restarted after a swap answers at the rate of the first voice. |
| `ChunkPath!Seamless` | as `components` | the tail is the end of the block, not what follows the samples put out: up to the search range is left out at a seam. |
| `ChunkPath!EmitsTheChunk` | as `components` | "emit length stays constant" (`inference.py:382`, `sola.py:333`): the slack is for the search, and what inference leaves out at the boundaries (`inference.py:372`) is missing from the chunk. |
| `ChunkPath!TailIsPlayed` | as `components` | "emit and clear any held-back tail" (`sola.py:440`): when a swap aborts the engine, its flush has ended the resampler, the same iteration's chunk leaves a new tail, and the resampler cannot play it. |
| `PitchGaps!CarryIsOutside` | as `components` | "the carry only fires when it's genuinely outside" (`inference.py:207-211`): it may be inside the window, in the part that is dropped. |
| `Migration!RerunRewrites` | as `components` | "safe to re-run" (`migrate_to_woys.py:5`): a run cut off between moving `config.toml` and rewriting it leaves the old sink and paths for good. |
| `Migration!PathsLead` | as `components` | "the user's models + config + systemd unit move to the new layout" (`migrate_to_woys.py:3-5`): a share directory that is a link is passed over, since `install.sh` has made the new one (lines 113-115), and `config.toml` is rewritten all the same; its paths lead to models that stayed behind. |

In words only, outside the models' bounds: without SOLA every chunk puts out a
crossfade more than it took in (`inference.py:352-354, 380-397`); with `context_ms`
below `search_ms` chunks put out less; a gap of seven or eight frames at the end of a
chunk is split, because the look-ahead is 66 ms and the gap 80 ms; the cache of
voices' rates is never invalidated; a `systemctl` that hangs for ten seconds aborts
the migration (`migrate_to_woys.py:222-237`), although "a failure shouldn't"; a copy
of the migration that is cut off leaves half a file under the new name, which the
next run keeps beside the old one.

## 7. Not modelled, and the plan

Not modelled, for good: inference itself, ONNX providers, the vendored RVC server,
network transfers and graph rewriting, the tray, logging, CLI parsing, benchmarks,
statistics. They are numerical code, library calls or presentation. Of the modelled
parts, what only reads (`status`, health checks, listings) and what is drawn.

Left for later:

1. The statement proved of `ComponentsProofs` for each part is over the part's own
   specification; `EachPartMoves` carries it to `Components`. The same should be done
   for `TuiControl` with `ModelSwap`: its engine is an abstraction that is not yet
   shown to be one.
2. The helper's statistics thread, player selection and sink probing of playback,
   the stderr drop counters.

## 8. Running

    tlc -workers 2 -config lifecycle_safety.cfg MCEngineLifecycle
    tlapm EngineLifecycleProofs.tla

Each run takes from seconds to about four minutes. Of the proofs `ComponentsProofs`
takes about a quarter of an hour from nothing, `TuiControlProofs` three, the others one or
two.
