----------------------------- MODULE ChunkPath -----------------------------
(***************************************************************************)
(* What becomes of the microphone's chunks in the engine thread: the       *)
(* history that is put before each, inference in this process or in a      *)
(* child, the crossfade (SOLA) with the tail that was held back, and the   *)
(* output resampler; the circuit breaker; and how a change of voice and a  *)
(* new run renew that state (_run_loop of src/audio/engine.py, inference,  *)
(* sola, resample, and _apply_one_swap of model_swap).                     *)
(*                                                                         *)
(* Audio is counted in samples at the input rate, and a sample is what it  *)
(* comes from.  How much inference leaves out at the boundaries of what it *)
(* is given, and where the search for the best alignment ends, are choices.*)
(***************************************************************************)
EXTENDS Integers, Sequences, SequencesExt, FiniteSetsExt

CONSTANTS Voices, FirstVoice,
          RateOf,                   \* native output rate of a voice
          SinkRate,
          Context, Crossfade, Search,    \* sola_*_ms, in samples
          Trim,                     \* samples that inference may leave out
          ChunkSizes,               \* what the input resampler returns for a chunk
          DropLimit,                \* 50 in the code
          Modes                     \* where inference runs

ChunkAssumption ==
  /\ FirstVoice \in Voices /\ Context \in Nat /\ Crossfade \in Nat \ {0}
  /\ Search \in Nat /\ Trim \in Nat
  /\ ChunkSizes \subseteq Nat /\ DropLimit \in Nat \ {0} /\ Modes \subseteq {"in-process", "child"}

HistoryLen == Context + Crossfade
NoTail == -1

VARIABLES
  mode,        \* cfg.inference_subprocess
  inLoop,      \* the thread is in _run_loop
  stop,        \* _stop_event: "clear", "set" during an iteration, or that is "over"
  cfgVoice,    \* cfg.rvc_model
  bootVoice,   \* the voice the child is spawned with
  voice,       \* the voice that answers inference
  outRate,     \* _rvc_output_sr
  solaRate,    \* _sola.cfg.rate
  tail,        \* _sola._prev_tail: how many samples ago it ended, or NoTail
  out,         \* _resampler_out: its source rate; flush() ends it
  history,     \* _input_history: samples of this voice's run, of before, or zeros
  drops,       \* _consecutive_drops, counted to DropLimit
  fails,       \* chunks that have failed in a row in this run
  heard,       \* what the loop's last step has handed to the writer
  lag,         \* how far behind the input the output is
  short        \* how much less the last chunk put out than it took in

chunkVars == <<mode, inLoop, stop, cfgVoice, bootVoice, voice, outRate, solaRate, tail, out,
               history, drops, fails, heard, lag, short>>
voiceVars == <<mode, cfgVoice, bootVoice>>

Silence == [i \in 1 .. HistoryLen |-> "zero"]
Fresh(rate) == [src |-> rate, ended |-> FALSE]
\* With equal rates there is no soxr stream that could end.
Flushed(r) == [r EXCEPT !.ended = r.src # SinkRate]

ChunkInit ==
  /\ mode \in Modes /\ inLoop = FALSE /\ stop = "clear"
  /\ cfgVoice = FirstVoice /\ bootVoice = FirstVoice /\ voice = FirstVoice
  /\ outRate = RateOf[FirstVoice] /\ solaRate = outRate
  /\ tail = NoTail /\ out = Fresh(outRate) /\ history = Silence
  /\ drops = 0 /\ fails = 0 /\ heard = "nothing" /\ lag = Crossfade /\ short = 0

-----------------------------------------------------------------------------
(* reset_streaming_state, and the end and beginning of a run.              *)

\* The history, of a voice or run that is over.
Past == [i \in 1 .. HistoryLen |-> IF history[i] = "now" THEN "before" ELSE history[i]]
\* A bug: the history of the previous voice or run stays.
ResetTailOnly == history' = Past /\ tail' = NoTail
ResetStreaming == history' = Silence /\ tail' = NoTail
Renewed == ResetStreaming /\ lag' = Crossfade /\ short' = 0

\* start(): the sessions, or the child, for cfg.rvc_model; then _run_loop.
StartRun ==
  /\ ~inLoop
  /\ inLoop' = TRUE /\ stop' = "clear"
  /\ bootVoice' = cfgVoice /\ voice' = cfgVoice
  /\ outRate' = RateOf[cfgVoice] /\ solaRate' = outRate' /\ out' = Fresh(outRate')
  /\ Renewed /\ fails' = 0 /\ heard' = "nothing"
  /\ UNCHANGED <<mode, cfgVoice, drops>>

\* SOLAStream.flush(): the tail is faded out and played, through the resampler,
\* which is flushed with it.  One that has ended takes nothing more; the error is
\* suppressed and the tail lost.
FlushedTail == tail # NoTail
\* A bug: a tail that is older than the last chunk is thrown away.
FlushRecent == heard' = IF tail = 0 /\ ~out.ended THEN "tail" ELSE "nothing"
Flush == heard' = IF FlushedTail /\ ~out.ended THEN "tail" ELSE "nothing"
OutFlushed == IF FlushedTail THEN Flushed(out) ELSE out

\* A stopped, aborted or crashed loop.
LeaveLoop ==
  /\ inLoop /\ inLoop' = FALSE
  /\ stop' = "over"
  /\ Flush /\ out' = OutFlushed /\ tail' = NoTail /\ history' = Past
  /\ UNCHANGED <<voiceVars, voice, outRate, solaRate, drops, fails, lag, short>>
StopCalled ==
  /\ inLoop /\ stop = "clear" /\ stop' = "set"
  /\ UNCHANGED <<voiceVars, inLoop, voice, outRate, solaRate, tail, out, history, drops, fails, heard, lag, short>>

-----------------------------------------------------------------------------
(* One chunk.                                                              *)

\* The loop's condition, and its body, which ends as it would when the event is
\* set meanwhile.
InChunkLoop == inLoop /\ stop = "clear"
InIteration == inLoop /\ stop # "over"
IterationEnds == stop' = IF stop = "clear" THEN "clear" ELSE "over"

\* The input gate: silence instead of the chunk.
Gated ==
  /\ InIteration /\ IterationEnds /\ heard' = "silence"
  /\ UNCHANGED <<voiceVars, inLoop, voice, outRate, solaRate, tail, out, history, drops, fails, lag, short>>

\* _infer: in this process, or in the child, which is restarted once if it
\* fails; a new child has the voice of the start of the run.
Answers == {voice} \cup IF mode = "child" THEN {bootVoice} ELSE {}

\* The history takes the chunk before inference is known to work.
Remember(n) ==
  LET longer == history \o [i \in 1 .. n |-> "now"]
  IN history' = SubSeq(longer, n + 1, n + HistoryLen)

\* Inference leaves out t samples at the boundaries of its input.
Length(n, t) == n + HistoryLen - t
\* The context, less the room for the search, is cut off in front, in proportion
\* to what came out, rounded.
InFront == Max({HistoryLen - Crossfade - Search, 0})
Cuts(n, t) ==
  {c \in 0 .. InFront :
     2 * (c * (n + HistoryLen) - InFront * Length(n, t)) \in -(n + HistoryLen) .. n + HistoryLen}
\* A bug: no room is left for the search (as before 0.7.0-rc5).
KeptWithoutSlack(n, t, c) == Max({Length(n, t) - c - Search, 0})
Kept(n, t, c) == Length(n, t) - c

\* SOLAStream.process of a block: how many samples it returns, and the tail that
\* it holds, the end of the block whichever offset has won.
Emitted(block) == Max({block - Crossfade - Search, 0})
TailAfter(block) == IF block >= Crossfade THEN 0 ELSE NoTail
\* A first chunk is not aligned.
Offsets == IF tail = NoTail THEN {0} ELSE 0 .. Search

\* e of the samples left out are the input's last.  A resampler that has ended
\* raises, and the loop crashes.
Process(n, k, v) ==
  /\ InIteration /\ IterationEnds /\ k \in Offsets /\ v \in Answers
  /\ voice' = v
  /\ Remember(n)
  /\ drops' = 0 /\ fails' = 0
  /\ \E t \in 0 .. Min({Trim, n + HistoryLen}) : \E c \in Cuts(n, t), e \in 0 .. t :
       LET block == Kept(n, t, c) IN
         /\ tail' = TailAfter(block)
         /\ IF Emitted(block) > 0 /\ ~out.ended
            THEN heard' = "chunk" /\ lag' = e + block - k - Emitted(block)
            ELSE heard' = "nothing" /\ lag' = lag
         /\ short' = n - Emitted(block)
  /\ UNCHANGED <<voiceVars, inLoop, outRate, solaRate, out>>

\* A bug: a chunk that fails later than others does not count as in a row.
TripsOnce(d) == d = DropLimit + 1
\* The circuit breaker.
Trips(d) == d >= DropLimit
\* Inference raises: the chunk is dropped, and the held tail waits.
Drop(n, v) ==
  /\ InIteration /\ v \in Answers
  /\ voice' = v
  /\ Remember(n)
  /\ tail' = IF tail = NoTail THEN tail ELSE tail + n
  /\ drops' = Min({drops + 1, DropLimit}) /\ fails' = fails + 1
  /\ stop' = IF stop = "clear" /\ ~Trips(drops + 1) THEN "clear" ELSE "over"
  /\ heard' = "nothing"
  /\ UNCHANGED <<voiceVars, inLoop, outRate, solaRate, out, lag, short>>

-----------------------------------------------------------------------------
(* _apply_one_swap                                                         *)

\* A bug: a stream that the flush has ended is kept for a voice of equal rate.
RebuiltForRate(rate, flushed) == IF rate # outRate THEN Fresh(rate) ELSE OutFlushed
Rebuilt(rate, flushed) == IF rate # outRate \/ flushed THEN Fresh(rate) ELSE OutFlushed

SwapWorks(v) ==
  /\ InIteration /\ Flush
  /\ cfgVoice' = v /\ voice' = v
  /\ outRate' = RateOf[v] /\ solaRate' = RateOf[v]
  /\ out' = Rebuilt(RateOf[v], FlushedTail)
  /\ Renewed
  /\ UNCHANGED <<mode, bootVoice, inLoop, stop, drops, fails>>
\* The model cannot be loaded or probed: the voice stays.
SwapFails ==
  /\ InIteration /\ mode = "in-process" /\ Flush
  /\ out' = Rebuilt(outRate, FlushedTail) /\ Renewed
  /\ UNCHANGED <<voiceVars, inLoop, stop, voice, outRate, solaRate, drops, fails>>
\* The child cannot swap: the engine aborts, after the swaps that were taken from
\* the queue with this one and the chunk that follows.
SwapAborts ==
  /\ InIteration /\ mode = "child" /\ Flush
  /\ out' = OutFlushed /\ tail' = NoTail
  /\ stop' = "set"
  /\ UNCHANGED <<voiceVars, inLoop, voice, outRate, solaRate, history, drops, fails, lag, short>>

ChunkNext ==
  \/ StartRun \/ LeaveLoop \/ StopCalled \/ Gated
  \/ \E n \in ChunkSizes, k \in 0 .. Search, v \in Voices : Process(n, k, v)
  \/ \E n \in ChunkSizes, v \in Voices : Drop(n, v)
  \/ \E v \in Voices : SwapWorks(v)
  \/ SwapFails \/ SwapAborts

ChunkSpec == ChunkInit /\ [][ChunkNext]_chunkVars

-----------------------------------------------------------------------------
(* Properties.                                                             *)

ChunkTypeOK ==
  /\ {cfgVoice, bootVoice, voice} \subseteq Voices /\ Len(history) = HistoryLen
  /\ drops \in 0 .. DropLimit /\ heard \in {"nothing", "silence", "chunk", "tail"}

\* Between two chunks the stages agree on one sample rate, that of the voice,
\* and the resampler still takes input, whatever swaps have worked, failed or
\* met a held tail.  (A child that was restarted after a swap is the exception:
\* it has the voice of the start of the run.)
Coherent ==
  InChunkLoop =>
    /\ solaRate = outRate /\ out = Fresh(outRate) /\ outRate = RateOf[cfgVoice]
    /\ voice = cfgVoice \/ (mode = "child" /\ voice = bootVoice)

\* Nothing of the previous voice or run is left in what inference sees.
NothingStale == inLoop => "before" \notin {history[i] : i \in 1 .. HistoryLen}

\* Whatever inference leaves out and whatever offsets win, the output neither
\* runs ahead of nor drifts away from the input; a chunk puts out what it takes
\* in, but for what inference has left out of it; and after a chunk that worked
\* the next is aligned to its end.
Steady ==
  /\ lag \in Crossfade .. Crossfade + Search + Trim
  /\ short \in 0 .. Trim
  /\ (fails = 0) => tail \in {NoTail, 0}

\* The loop does not go on after as many failures in a row as trip the breaker.
BreakerTrips == InIteration => fails < DropLimit

ChunkInv == ChunkTypeOK /\ Coherent /\ NothingStale /\ BreakerTrips

\* A held tail is played when the voice changes or the run ends, and replaced
\* only by a later one; unless the output resampler has ended, which it has only
\* in the last iteration of an engine that aborts.
HeldIsPlayed ==
  [][tail # NoTail /\ tail' = NoTail => heard' = "tail" \/ (out.ended /\ stop # "clear")]_chunkVars

\* What goes in comes out, no later, and with its last tail.
Stitched == []Steady /\ HeldIsPlayed

\* Refuted: the breaker means DropLimit failures in a row.  A new run goes on
\* counting where the last one was stopped.
TrippedByARow == inLoop /\ stop = "over" /\ drops = DropLimit => fails >= DropLimit

\* Refuted: the voice is heard at its own pitch.  A child that is restarted
\* after a swap answers at the rate of the voice of the start.
HeardAtItsRate == InChunkLoop => outRate = RateOf[voice]

\* Refuted: where two chunks meet, the second goes on where the first ended.
\* The tail is the end of the block, not what follows the samples put out, so
\* up to Search samples are left out.
Seamless == InChunkLoop /\ tail = 0 => lag \in Crossfade .. Crossfade + Trim

\* Refuted: the room for the search keeps the emitted length constant.  What
\* inference leaves out is missing from the chunk.
EmitsTheChunk == short = 0

\* Refuted: the flush at the end of a run emits any held tail.  After a swap that
\* makes the engine abort the resampler has ended: the iteration's chunk raises,
\* and the tail it leaves is not played.
TailIsPlayed == [][tail # NoTail /\ tail' = NoTail => heard' = "tail"]_chunkVars
=============================================================================
