----------------------------- MODULE PitchGaps -----------------------------
(***************************************************************************)
(* Which frames of a chunk the vocoder sings and which it takes for        *)
(* silence: short unvoiced gaps in the extractor's pitch are bridged       *)
(* between the voiced frames around them (interpolate_voiced_gaps_np of    *)
(* src/audio/pitch.py), at the beginning of the window with the last       *)
(* voiced frame carried over from the previous one (_infer), and the       *)
(* result is aligned with the content features (to_pitch_coarse).          *)
(*                                                                         *)
(* A window is the history and the new frames.  The extractor is taken to  *)
(* find the same frames voiced in every window that holds them.            *)
(***************************************************************************)
EXTENDS Integers, Sequences, SequencesExt, FiniteSetsExt

CONSTANTS History,     \* frames of context and crossfade
          New,         \* frames of a chunk
          Dropped,     \* leading frames whose output is dropped
          Surplus,     \* frames the extractor returns more than there are features
          MaxGap       \* _VOICED_GAP_MAX_FRAMES

PitchAssumption ==
  /\ {History, New, Dropped, Surplus, MaxGap} \subseteq Nat /\ New > 0
  /\ MaxGap <= Dropped /\ Dropped <= History /\ Surplus <= Dropped

Window == History + New
Older == MaxGap       \* how far before the window the properties look
NotKnown == -1

VARIABLES
  signal,     \* voiced frames: the window's, and Older ones before it
  age,        \* _pitch_carry_age_frames, or NotKnown (then _pitch_carry_f0 is 0)
  anchor,     \* where in the window the carried frame is, if it has been used; or 0
  pitch       \* pitchf_aligned: the feature frames that have a pitch

pitchVars == <<signal, age, anchor, pitch>>

Unvoiced == [i \in 1 .. Older + Window |-> FALSE]

PitchInit ==
  /\ signal = Unvoiced
  /\ age = NotKnown /\ anchor = 0 /\ pitch = {}

-----------------------------------------------------------------------------

VoicedBefore(w, i) == Max({0} \cup {k \in 1 .. i - 1 : w[k]})
VoicedAfter(w, i) == Min({Window + 1} \cup {k \in i + 1 .. Window : w[k]})

\* A bug: a gap of the longest length is left.
ShorterGap(n) == n < MaxGap
ShortGap(n) == n <= MaxGap

Bridged(w, i) ==
  LET from == VoicedBefore(w, i)
      to == VoicedAfter(w, i)
  IN from > 0 /\ to <= Window /\ ShortGap(to - from - 1)

\* The gap at the beginning of the window, of `run` frames, with the carried frame.
BridgedByCarry(w, i) ==
  LET run == VoicedAfter(w, i) - 1
  IN /\ VoicedBefore(w, i) = 0 /\ run < Window
     /\ age # NotKnown /\ age < MaxGap
     /\ ShortGap(run) /\ ShortGap(age + run)

\* A bug: the frames are aligned at their beginning.
AlignedLeft(frames) == frames \cap 1 .. Window - Surplus
\* to_pitch_coarse keeps the last of the surplus frames.
Aligned(frames) == {i - Surplus : i \in frames} \ (1 - Surplus .. 0)

\* _infer for the next chunk.
Chunk(new) ==
  LET heard == signal \o new
      w == SubSeq(heard, New + Older + 1, New + Older + Window)
      carried == {i \in 1 .. Window : ~w[i] /\ BridgedByCarry(w, i)}
      filled == {i \in 1 .. Window : w[i] \/ Bridged(w, i)} \cup carried
  IN /\ signal' = SubSeq(heard, New + 1, New + Older + Window)
     /\ pitch' = Aligned(filled)
     /\ anchor' = IF carried = {} THEN 0 ELSE History - age
     \* Counted to Window, which is too old to be used.
     /\ age' = IF filled # {} THEN Window - Max(filled)
               ELSE IF age = NotKnown THEN age ELSE Window

\* reset_streaming_state
ResetCarry == signal' = Unvoiced /\ age' = NotKnown /\ anchor' = 0 /\ pitch' = {}

PitchNext == (\E new \in [1 .. New -> BOOLEAN] : Chunk(new)) \/ ResetCarry
PitchSpec == PitchInit /\ [][PitchNext]_pitchVars

-----------------------------------------------------------------------------
(* Properties.                                                             *)

\* What a filter over the whole signal would do: a frame is sung when it is
\* voiced or in a gap of at most MaxGap frames between two voiced ones.
Sung(i) ==
  \/ signal[i]
  \/ \E a \in 1 .. i - 1, b \in i + 1 .. Len(signal) :
        signal[a] /\ signal[b] /\ b - a - 1 <= MaxGap

\* In the part of the output that is kept, chunk boundaries cannot be told from
\* the pitch: every feature frame has one just when the whole signal, up to the
\* end of the window, gives it one; neither the carried frame nor the window's
\* beginning shows there.
PitchKept ==
  \A i \in Dropped + 1 .. Window : ((i - Surplus) \in pitch) <=> Sung(Older + i)

\* What _infer's comment says of the carried frame: it is used only when it is
\* outside the window (and so nothing is bridged with a frame that is later).
CarryIsOutside == anchor < 1
=============================================================================
