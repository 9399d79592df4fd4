------------------------------ MODULE FrameFifo ------------------------------
(***************************************************************************)
(* What the ring of the playback helper promises: frames are played once   *)
(* each, in the order in which stdin brought them, and never more than     *)
(* Room of them wait.  A frame is named by the position, in samples, of    *)
(* its first sample in stdin; positions are counted modulo Positions.      *)
(***************************************************************************)
EXTENDS Naturals, Sequences

CONSTANTS Room, Channels, Positions

VARIABLES fifo,    \* the frames that wait, oldest first
          next,    \* the next frame to come
          played   \* the frames of the last buffer that was filled

Following(first, n) ==
  [i \in 1..n |-> (first + (i - 1) * Channels) % Positions]

Init == fifo = <<>> /\ next = 0 /\ played = <<>>

Push == \E n \in 1..(Room - Len(fifo)) :
          /\ fifo' = fifo \o Following(next, n)
          /\ next' = (next + n * Channels) % Positions
          /\ UNCHANGED played

Play == \E n \in 0..Len(fifo) :
          /\ played' = SubSeq(fifo, 1, n)
          /\ fifo' = SubSeq(fifo, n + 1, Len(fifo))
          /\ UNCHANGED next

Spec == Init /\ [][Push \/ Play]_<<fifo, next, played>>
==============================================================================
