-------------------------------- MODULE PwRing --------------------------------
(***************************************************************************)
(* The native playback helper (bin/woys-pw-out.c): its main thread reads   *)
(* frames from stdin and pushes them into a single-producer single-        *)
(* consumer ring, PipeWire's data thread pops them in on_process().  The   *)
(* ring is full when it holds Capacity - 1 frames; its indices are         *)
(* unsigned and wrap around at IndexSpan.                                  *)
(*                                                                         *)
(* Each thread copies slot by slot, and publishes its index after the last *)
(* slot; the other thread's index is read once, before the first.  The     *)
(* indices are atomic with acquire and release order, so that as long as   *)
(* SlotsApart holds there is no data race and interleaving is all that can *)
(* happen.  Of the frames only their place in stdin is kept.               *)
(***************************************************************************)
EXTENDS Naturals, Sequences

CONSTANTS
  Capacity,      \* ring.capacity, a power of two
  IndexSpan,     \* 2^32
  Channels,      \* samples per frame
  ReadFrames,    \* STDIN_READ_FRAMES
  MaxWant,       \* the most frames PipeWire asks for at once
  PipeSize,      \* samples the pipe holds
  Positions,     \* bound: positions in stdin are counted modulo this
  PartialReads   \* may read() end inside a frame

\* The code's assumption that Capacity is a power of two is used for this only:
\* the mask takes the same residue of an index as of the unwrapped count.
ASSUME RingAssumption ==
  /\ Capacity \in Nat \ {0, 1} /\ IndexSpan \in Nat \ {0}
  /\ IndexSpan % Capacity = 0

ASSUME SizeAssumption ==
  /\ Channels \in Nat \ {0} /\ ReadFrames \in Nat \ {0}
  /\ MaxWant \in Nat \ {0} /\ PipeSize \in Nat \ {0}
  /\ Positions \in Nat \ {0} /\ Positions % Channels = 0
  /\ PartialReads \in BOOLEAN

VARIABLES
  phase,       \* where the main thread is
  pipe,        \* samples in the pipe
  eof,         \* has the engine closed stdin
  pos,         \* the position of the next sample to be read
  frame, left, \* the frames read and not pushed: the first, and how many
  put, done,   \* ring_push(): frames it is pushing, frames copied so far
  buf, head, tail,
  take,        \* ring_pop(): frames it is popping, 0 when it is not running
  copied,      \* frames copied so far
  played,      \* the frames of the last buffer given back to PipeWire
  stream,      \* the state of the PipeWire stream
  ready, shouldExit,
  complaint    \* has "error: stream disconnected" been reported

mainVars   == <<phase, put, done>>
inputVars  == <<pipe, eof, pos, frame, left>>
ringVars   == <<buf, head, tail>>
popVars    == <<take, copied, played>>
streamVars == <<stream, ready, shouldExit, complaint>>
vars == <<mainVars, inputVars, ringVars, popVars, streamVars>>

Slots == 0..(Capacity - 1)
Places == 0..(Positions - 1)

PwRingTypeOK ==
  /\ phase \in {"connecting", "check", "read", "push", "copy", "exiting",
               "failing", "ended"}
  /\ pipe \in 0..PipeSize /\ eof \in BOOLEAN
  /\ pos \in Places /\ frame \in Places /\ left \in 0..ReadFrames
  /\ put \in 0..ReadFrames /\ done \in 0..put
  /\ buf \in [Slots -> Places]
  /\ head \in 0..(IndexSpan - 1) /\ tail \in 0..(IndexSpan - 1)
  /\ take \in 0..MaxWant
  /\ copied \in Seq(Places) /\ Len(copied) <= take
  /\ played \in Seq(Places) /\ Len(played) <= MaxWant
  /\ stream \in {"connecting", "streaming", "error", "gone"}
  /\ ready \in BOOLEAN /\ shouldExit \in BOOLEAN /\ complaint \in BOOLEAN

Init ==
  /\ phase = "connecting" /\ put = 0 /\ done = 0
  /\ pipe = 0 /\ eof = FALSE /\ pos = 0 /\ frame = 0 /\ left = 0
  /\ buf = [slot \in Slots |-> 0]
  /\ head = 0 /\ tail = 0
  /\ take = 0 /\ copied = <<>> /\ played = <<>>
  /\ stream = "connecting"
  /\ ready = FALSE /\ shouldExit = FALSE /\ complaint = FALSE

(***************************************************************************)
(* The ring.                                                               *)
(***************************************************************************)
Less(m, n) == IF m < n THEN m ELSE n

Occupied == (IndexSpan + tail - head) % IndexSpan     \* unsigned tail - head
Readable == Occupied % Capacity

WritableToTheLast == Capacity - Readable
Writable == Capacity - 1 - Readable

PopSlot(i) == (head + i) % Capacity
PushSlot(i) == (tail + i) % Capacity

(***************************************************************************)
(* The main thread: main() and stdin_reader_loop().                        *)
(***************************************************************************)

\* main() waits up to five seconds for the stream to come up.
Connected ==
  /\ phase = "connecting" /\ (ready \/ shouldExit)
  /\ phase' = IF shouldExit THEN "exiting" ELSE "check"
  /\ UNCHANGED <<put, done, inputVars, ringVars, popVars, streamVars>>

ConnectTimesOut ==
  /\ phase = "connecting" /\ ~ready /\ ~shouldExit
  /\ phase' = "failing"
  /\ UNCHANGED <<put, done, inputVars, ringVars, popVars, streamVars>>

\* A reader that returns marks the shutdown as a voluntary one.
LeftUnmarked == UNCHANGED shouldExit
LeftMarked == shouldExit' = TRUE

Leaves ==
  /\ phase' = "exiting" /\ LeftMarked
  /\ UNCHANGED <<put, done, inputVars, ringVars, popVars, stream, ready,
                 complaint>>

CheckExit ==
  \/ phase = "check" /\ shouldExit /\ Leaves
  \/ /\ phase = "check" /\ ~shouldExit
     /\ phase' = "read"
     /\ UNCHANGED <<put, done, inputVars, ringVars, popVars, streamVars>>

ReadEndsRetried ==
  /\ phase = "read" /\ pipe = 0 /\ eof
  /\ phase' = "check"
  /\ UNCHANGED <<put, done, inputVars, ringVars, popVars, streamVars>>
ReadEnds == phase = "read" /\ pipe = 0 /\ eof /\ Leaves

ReadFails == phase = "read" /\ Leaves

\* read() returns what is in the pipe, at most a buffer full.
ReadSizes ==
  {n \in 1..Less(pipe, ReadFrames * Channels) :
     PartialReads \/ n % Channels = 0}

\* The bytes of a partial frame are dropped.
Reads ==
  /\ phase = "read"
  /\ \E n \in ReadSizes :
       /\ pipe' = pipe - n
       /\ pos' = (pos + n) % Positions
       /\ left' = n \div Channels
       /\ phase' = IF n \div Channels = 0 THEN "check" ELSE "push"
  /\ frame' = pos
  /\ UNCHANGED <<put, done, eof, ringVars, popVars, streamVars>>

Pushed == Less(left, Writable)

\* When the ring is full the reader sleeps and tries again.
PushBegins ==
  /\ phase = "push" /\ Pushed > 0
  /\ put' = Pushed /\ done' = 0
  /\ phase' = "copy"
  /\ UNCHANGED <<inputVars, ringVars, popVars, streamVars>>

PushCopies ==
  /\ phase = "copy" /\ done < put
  /\ buf' = [buf EXCEPT ![PushSlot(done)] = (frame + done * Channels) % Positions]
  /\ done' = done + 1
  /\ UNCHANGED <<phase, put, inputVars, head, tail, popVars, streamVars>>

PushPublishes ==
  /\ phase = "copy" /\ done = put
  /\ tail' = (tail + put) % IndexSpan
  /\ frame' = (frame + put * Channels) % Positions
  /\ left' = left - put
  /\ put' = 0 /\ done' = 0
  /\ phase' = IF left = put THEN "check" ELSE "push"
  /\ UNCHANGED <<pipe, eof, pos, buf, head, popVars, streamVars>>

\* A stream that is not connected any more reports it, unless the helper is
\* shutting down.
Complains == complaint' = (complaint \/ (ready /\ ~shouldExit))

\* The cleanup destroys the stream, once its callback has returned.
Cleanup ==
  /\ phase \in {"exiting", "failing"} /\ take = 0
  /\ phase' = "ended"
  /\ stream' = "gone"
  /\ Complains
  /\ shouldExit' = (shouldExit \/ ready)
  /\ UNCHANGED <<put, done, inputVars, ringVars, popVars, ready>>

MainStep == \/ Connected \/ CheckExit \/ ReadEnds \/ Reads
            \/ PushBegins \/ PushCopies \/ PushPublishes \/ Cleanup

(***************************************************************************)
(* PipeWire: on_process(), which fills up what it did not get with zeros,  *)
(* and on_state_changed().                                                 *)
(***************************************************************************)
Popped(want) == Less(want, Readable)

PopBegins ==
  /\ stream = "streaming" /\ phase # "ended" /\ take = 0
  /\ \E want \in 1..MaxWant :
       /\ take' = Popped(want)
       /\ played' = IF Readable = 0 THEN <<>> ELSE played
  /\ UNCHANGED <<mainVars, inputVars, ringVars, copied, streamVars>>

PopCopies ==
  /\ take > 0 /\ Len(copied) < take
  /\ copied' = Append(copied, buf[PopSlot(Len(copied))])
  /\ UNCHANGED <<mainVars, inputVars, ringVars, take, played, streamVars>>

HeadAfterOneLess(n) == (head + n - 1) % IndexSpan
HeadAfter(n) == (head + n) % IndexSpan

PopPublishes ==
  /\ take > 0 /\ Len(copied) = take
  /\ head' = HeadAfter(take)
  /\ played' = copied
  /\ take' = 0 /\ copied' = <<>>
  /\ UNCHANGED <<mainVars, inputVars, buf, tail, streamVars>>

PopStep == PopBegins \/ PopCopies \/ PopPublishes

StreamStarts ==
  /\ stream = "connecting" /\ phase # "ended"
  /\ stream' = "streaming" /\ ready' = TRUE
  /\ UNCHANGED <<mainVars, inputVars, ringVars, popVars, shouldExit, complaint>>

StreamFails ==
  /\ stream \in {"connecting", "streaming"} /\ phase # "ended"
  /\ stream' = "error" /\ shouldExit' = TRUE
  /\ UNCHANGED <<mainVars, inputVars, ringVars, popVars, ready, complaint>>

StreamDisconnects ==
  /\ stream \in {"streaming", "error"} /\ phase # "ended"
  /\ stream' = "gone"
  /\ Complains
  /\ shouldExit' = (shouldExit \/ ready)
  /\ UNCHANGED <<mainVars, inputVars, ringVars, popVars, ready>>

(***************************************************************************)
(* The engine: it writes whole frames, closes stdin, or signals.           *)
(***************************************************************************)
EngineWrites ==
  /\ ~eof /\ phase # "ended" /\ pipe + Channels <= PipeSize
  /\ pipe' = pipe + Channels
  /\ UNCHANGED <<mainVars, eof, pos, frame, left, ringVars, popVars, streamVars>>

EngineCloses ==
  /\ ~eof /\ phase # "ended"
  /\ eof' = TRUE
  /\ UNCHANGED <<mainVars, pipe, pos, frame, left, ringVars, popVars, streamVars>>

\* exit_handler().  The signal interrupts read() only once it has begun.
Signal ==
  /\ phase # "ended"
  /\ shouldExit' = TRUE
  /\ \/ phase = "read" /\ phase' = "check"
     \/ UNCHANGED phase
  /\ UNCHANGED <<put, done, inputVars, ringVars, popVars, stream, ready,
                 complaint>>

Next ==
  \/ MainStep \/ ConnectTimesOut \/ ReadFails
  \/ PopStep \/ StreamStarts \/ StreamFails \/ StreamDisconnects
  \/ EngineWrites \/ EngineCloses \/ Signal

Spec == Init /\ [][Next]_vars

\* The main thread runs, and PipeWire calls a stream that streams.
FairSpec == Spec /\ WF_vars(MainStep) /\ WF_vars(PopStep)

(***************************************************************************)
(* Properties.                                                             *)
(***************************************************************************)

\* The main thread never writes the slot that the data thread may be reading:
\* between reading the other's index and publishing its own, each of them
\* owns its slots, also where the indices wrap around.
SlotsApart ==
  \A i \in done..(put - 1), j \in Len(copied)..(take - 1) :
    phase = "copy" => PushSlot(i) # PopSlot(j)

\* What that rests on: there is room for what is pushed behind what is in the
\* ring, and what is popped is in it.
RoomKept ==
  /\ take <= Occupied /\ Occupied + put < Capacity
  /\ put <= left /\ (put > 0 <=> phase = "copy")

\* What has been copied is what was to be copied, on both sides.
CopiesTrue ==
  /\ \A j \in 1..Len(copied) : copied[j] = buf[PopSlot(j - 1)]
  /\ \A i \in 0..(done - 1) : buf[PushSlot(i)] = (frame + i * Channels) % Positions

\* Of whole frames none is skipped between stdin and the ring.
InputTracked ==
  /\ phase \in {"connecting", "check", "read"} => left = 0
  /\ ~PartialReads => pos = (frame + left * Channels) % Positions

\* Whoever exits has said so.
ExitMarked == phase = "exiting" => shouldExit

RingInv == /\ PwRingTypeOK /\ SlotsApart /\ RoomKept /\ CopiesTrue
           /\ InputTracked /\ ExitMarked

\* The ring implements FrameFifo: what is played is what stdin brought, in
\* that order, with nothing lost, repeated or torn.
Fifo == INSTANCE FrameFifo WITH
          Room <- Capacity - 1, next <- frame,
          fifo <- [i \in 1..Readable |-> buf[PopSlot(i - 1)]]
FifoSpec == Fifo!Spec

\* A shutdown that the helper itself has decided on is not reported as a lost
\* stream: nothing is left to complain about once it is exiting.
QuietShutdown == [][ phase = "exiting" => complaint' = complaint ]_vars

\* Frames that were read get into the ring as long as PipeWire drains it.
BackpressureEnds == left > 0 ~> left = 0 \/ stream # "streaming"

\* A helper whose stdin was closed ends, unless its stream has stopped.
EofEnds == eof ~> phase = "ended" \/ stream # "streaming"

StdinIsTaken == BackpressureEnds /\ EofEnds

(***************************************************************************)
(* What comments say and the code does not do.                             *)
(***************************************************************************)

\* "The main thread reads stdin until EOF (engine shutdown) or SIGINT/SIGTERM"
ExitIsObeyed == eof /\ shouldExit ~> phase = "ended"

\* "Partial frame - coalesce into next read": frames begin where frames begin.
FramesAreWhole == \A slot \in Slots : buf[slot] % Channels = 0
===============================================================================
