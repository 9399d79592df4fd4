---------------------------- MODULE PwRingProofs ----------------------------
(***************************************************************************)
(* The ring of the playback helper for any capacity, index width, frame    *)
(* size and buffer size: the two threads never touch one slot at a time,   *)
(* also where the unsigned indices wrap around, and as long as reads end   *)
(* with frames the ring is the queue that FrameFifo describes.             *)
(*                                                                         *)
(* The arithmetic of remainders comes first, then what it says of the      *)
(* indices of the ring, then one step per action.                          *)
(***************************************************************************)
EXTENDS PwRing, Integers, SequenceTheorems, TLAPS

-----------------------------------------------------------------------------
(* Remainders.                                                             *)

\* Division with a remainder.
LEMMA DivMod ==
  ASSUME NEW a \in Int, NEW n \in Nat \ {0}
  PROVE  /\ a % n \in 0 .. n - 1 /\ a \div n \in Int
         /\ a = n * (a \div n) + (a % n)
  OBVIOUS

\* A multiple of n that is closer to 0 than n is 0.
LEMMA SmallMultiple ==
  ASSUME NEW n \in Nat \ {0}, NEW k \in Int, n * k < n, n * k > 0 - n
  PROVE  k = 0
  <1>1. k >= 1 => n * k >= n
    OBVIOUS
  <1>2. k <= -1 => n * k <= 0 - n
    OBVIOUS
  <1> QED
    BY <1>1, <1>2

\* The remainder is the only number in its range that fits.
LEMMA RemainderUnique ==
  ASSUME NEW a \in Int, NEW n \in Nat \ {0}, NEW q \in Int, NEW r \in 0 .. n - 1,
         a = n * q + r
  PROVE  a % n = r
  <1> DEFINE p == a \div n
             s == a % n
  <1>1. p \in Int /\ s \in 0 .. n - 1 /\ a = n * p + s
    BY DivMod
  <1>2. n * (p - q) = r - s
    BY <1>1
  <1> HIDE DEF p, s
  <1>3. n * (p - q) < n /\ n * (p - q) > 0 - n
    BY <1>1, <1>2
  <1>4. p - q = 0
    BY <1>1, <1>3, SmallMultiple
  <1>5. s = r
    BY <1>1, <1>4
  <1> QED
    BY <1>5 DEF s

\* Multiples of n do not change the remainder.
LEMMA ModShift ==
  ASSUME NEW a \in Int, NEW n \in Nat \ {0}, NEW k \in Int
  PROVE  (a + n * k) % n = a % n
  <1> DEFINE q == a \div n
             r == a % n
  <1>1. q \in Int /\ r \in 0 .. n - 1 /\ a = n * q + r
    BY DivMod
  <1> HIDE DEF q, r
  <1>2. a + n * k = n * (q + k) + r
    BY <1>1
  <1>3. (a + n * k) % n = r
    BY <1>1, <1>2, RemainderUnique
  <1> QED
    BY <1>3 DEF r

\* Remainders may be taken before adding.
LEMMA ModAdd ==
  ASSUME NEW n \in Nat \ {0}, NEW a \in Int, NEW b \in Int
  PROVE  ((a % n) + b) % n = (a + b) % n
  <1> DEFINE q == a \div n
             r == a % n
  <1>1. r \in Int /\ q \in Int /\ a = n * q + r
    BY DivMod
  <1> HIDE DEF q, r
  <1>2. r + b = (a + b) + n * (0 - q)
    BY <1>1
  <1>3. ASSUME NEW x \in Int, NEW k \in Int PROVE (x + n * k) % n = x % n
    BY ModShift
  <1>4. a + b \in Int /\ 0 - q \in Int
    BY <1>1
  <1>5. ((a + b) + n * (0 - q)) % n = (a + b) % n
    BY <1>3, <1>4
  <1> QED
    BY <1>2, <1>5 DEF r

\* They may also be taken before subtracting.
LEMMA ModSubtract ==
  ASSUME NEW n \in Nat \ {0}, NEW a \in Int, NEW b \in Int
  PROVE  (b - (a % n)) % n = (b - a) % n
  <1> DEFINE q == a \div n
             r == a % n
  <1>1. r \in Int /\ q \in Int /\ a = n * q + r
    BY DivMod
  <1> HIDE DEF q, r
  <1>2. b - r = (b - a) + n * q
    BY <1>1
  <1>3. ASSUME NEW x \in Int, NEW k \in Int PROVE (x + n * k) % n = x % n
    BY ModShift
  <1>4. b - a \in Int
    BY <1>1
  <1>5. ((b - a) + n * q) % n = (b - a) % n
    BY <1>1, <1>3, <1>4
  <1> QED
    BY <1>2, <1>5 DEF r

\* The remainder modulo a multiple of c keeps the remainder modulo c.
LEMMA ModMod ==
  ASSUME NEW c \in Nat \ {0}, NEW n \in Nat \ {0}, n % c = 0, NEW a \in Int
  PROVE  (a % n) % c = a % c
  <1> DEFINE k == n \div c
             q == a \div n
             r == a % n
  <1>1. n = c * k /\ k \in Int /\ r \in Int /\ q \in Int /\ r = a - n * q
    BY DivMod
  <1> HIDE DEF k, q, r
  <1>2. ASSUME NEW x \in Int PROVE a - (c * x) * q = a + c * (0 - x * q)
    BY <1>1
  <1>3. r = a + c * (0 - k * q) /\ (0 - k * q) \in Int
    BY <1>1, <1>2
  <1>4. r % c = a % c
    BY <1>3, ModShift
  <1> QED
    BY <1>4 DEF r

\* Numbers less than n apart have different remainders.
LEMMA ModApart ==
  ASSUME NEW n \in Nat \ {0}, NEW a \in Int, NEW d \in 1 .. n - 1
  PROVE  (a + d) % n # a % n
  <1> SUFFICES ASSUME (a + d) % n = a % n PROVE FALSE
    OBVIOUS
  <1> DEFINE p == (a + d) \div n
             q == a \div n
             r == a % n
  <1>1. p \in Int /\ q \in Int /\ r \in Int /\ a + d = n * p + r /\ a = n * q + r
    BY DivMod
  <1> HIDE DEF p, q, r
  <1>2. n * (p - q) = d
    BY <1>1
  <1>3. p - q = 0
    BY <1>1, <1>2, SmallMultiple
  <1> QED
    BY <1>2, <1>3

-----------------------------------------------------------------------------
(* Indices that wrap around at S, over slots that wrap around at C.        *)

\* Publishing p more frames takes the indices p further apart.
LEMMA PushApart ==
  ASSUME NEW S \in Nat \ {0}, NEW h \in 0 .. S - 1, NEW t \in 0 .. S - 1,
         NEW p \in Nat, ((S + t - h) % S) + p < S
  PROVE  (S + ((t + p) % S) - h) % S = ((S + t - h) % S) + p
  <1> DEFINE x == S + t - h
             y == t + p
             z == S - h
             o == x % S
             u == y % S
  <1>1. /\ x \in Int /\ y \in Int /\ z \in Int /\ x + p = y + z
        /\ \A v \in Int : S + v - h = v + z
    OBVIOUS
  <1>2. o + p < S
    OBVIOUS
  <1> HIDE DEF x, y, z
  <1>3. o \in 0 .. S - 1 /\ u \in 0 .. S - 1
    BY <1>1, DivMod
  <1>4. (o + p) % S = (x + p) % S
    BY <1>1, p \in Int, ModAdd
  <1>5. (u + z) % S = (y + z) % S
    BY <1>1, ModAdd
  <1> HIDE DEF o, u
  <1>6. (o + p) % S = o + p
    BY <1>2, <1>3
  <1>7. (S + u - h) % S = o + p
    BY <1>1, <1>3, <1>4, <1>5, <1>6
  <1> QED
    BY <1>7 DEF o, u, x, y

\* Taking n frames out brings them n closer.
LEMMA PopApart ==
  ASSUME NEW S \in Nat \ {0}, NEW h \in 0 .. S - 1, NEW t \in 0 .. S - 1,
         NEW n \in Nat, n <= (S + t - h) % S
  PROVE  (S + t - ((h + n) % S)) % S = ((S + t - h) % S) - n
  <1> DEFINE x == S + t - h
             y == h + n
             z == S + t
             m == 0 - n
             o == x % S
             u == y % S
  <1>1. /\ x \in Int /\ y \in Int /\ z \in Int /\ m \in Int /\ x + m = z - y
        /\ \A v \in Int : v - n = v + m /\ S + t - v = z - v
    OBVIOUS
  <1>2. n <= o
    OBVIOUS
  <1> HIDE DEF x, y, z, m
  <1>3. o \in 0 .. S - 1 /\ u \in 0 .. S - 1
    BY <1>1, DivMod
  <1>4. (o + m) % S = (x + m) % S
    BY <1>1, ModAdd
  <1>5. (z - u) % S = (z - y) % S
    BY <1>1, ModSubtract
  <1> HIDE DEF o, u
  <1>6. (o - n) % S = o - n
    BY <1>2, <1>3
  <1>7. (S + t - u) % S = o - n
    BY <1>1, <1>3, <1>4, <1>5, <1>6
  <1> QED
    BY <1>7 DEF o, u, x, y

\* Where an index wraps around the slots go on as if it did not.
LEMMA SlotShift ==
  ASSUME NEW C \in Nat \ {0}, NEW S \in Nat \ {0}, S % C = 0,
         NEW x \in Int, NEW i \in Int
  PROVE  ((x % S) + i) % C = (x + i) % C
  <1>1. x % S \in Int
    BY DivMod
  <1>2. (((x % S) % C) + i) % C = ((x % S) + i) % C
    BY <1>1, ModAdd
  <1>3. (x % S) % C = x % C
    BY ModMod
  <1>4. ((x % C) + i) % C = (x + i) % C
    BY ModAdd
  <1> QED
    BY <1>2, <1>3, <1>4

-----------------------------------------------------------------------------
(* The indices of the ring.                                                *)

\* A power of two of slots is not more than the span of the indices.
LEMMA SpanFits ==
  /\ Capacity \in Nat \ {0, 1} /\ IndexSpan \in Nat \ {0} /\ Capacity <= IndexSpan
  /\ IndexSpan % Capacity = 0
  <1>1. /\ Capacity \in Nat \ {0, 1} /\ IndexSpan \in Nat \ {0}
        /\ IndexSpan % Capacity = 0
    BY RingAssumption
  <1>2. ASSUME IndexSpan < Capacity PROVE FALSE
    <2>1. IndexSpan % Capacity = IndexSpan
      BY <1>1, <1>2
    <2> QED
      BY <1>1, <2>1
  <1> QED
    BY <1>1, <1>2

\* The slots to be written lie behind those that are taken.
LEMMA SlotBehind ==
  ASSUME NEW h \in 0 .. IndexSpan - 1, NEW t \in 0 .. IndexSpan - 1, NEW i \in Int
  PROVE  (t + i) % Capacity
           = (h + (((IndexSpan + t - h) % IndexSpan) + i)) % Capacity
  <1> DEFINE C == Capacity
             S == IndexSpan
             x == S + t - h
             y == h + i
             z == t + i
             k == S \div C
             o == x % S
  <1>0. C \in Nat \ {0} /\ S \in Nat \ {0} /\ S % C = 0
    BY SpanFits
  <1> HIDE DEF C, S
  <1>1. x \in Int /\ y \in Int /\ z \in Int /\ x + y = z + S
    BY <1>0 DEF S
  <1>2. k \in Int /\ S = C * k
    BY <1>0, DivMod
  <1>3. \A v \in Int : v + y = h + (v + i)
    OBVIOUS
  <1> HIDE DEF x, y, z, k
  <1>4. o \in Int
    BY <1>0, <1>1, DivMod
  <1>5. (o + y) % C = (x + y) % C
    BY <1>0, <1>1, SlotShift
  <1>6. (z + C * k) % C = z % C
    BY <1>0, <1>1, <1>2, ModShift
  <1> HIDE DEF o
  <1>7. (h + (o + i)) % C = z % C
    BY <1>0, <1>1, <1>2, <1>3, <1>4, <1>5, <1>6
  <1> QED
    BY <1>7 DEF o, x, z, C, S

\* What the indices say while what is in the ring fits into it.
LEMMA IndexFacts ==
  ASSUME head \in 0 .. IndexSpan - 1, tail \in 0 .. IndexSpan - 1, Occupied < Capacity
  PROVE  /\ Occupied \in 0 .. Capacity - 1 /\ Readable = Occupied
         /\ \A i \in Int : PopSlot(i) \in Slots /\ PushSlot(i) \in Slots
         /\ \A i \in Int : PushSlot(i) = PopSlot(Occupied + i)
         /\ \A i, j \in Int : i < j /\ j < i + Capacity => PopSlot(i) # PopSlot(j)
  <1>1. Occupied \in 0 .. IndexSpan - 1
    BY SpanFits, DivMod DEF Occupied
  <1>2. Occupied \in 0 .. Capacity - 1 /\ Readable = Occupied
    BY <1>1, SpanFits DEF Readable
  <1>3. ASSUME NEW i \in Int PROVE PopSlot(i) \in Slots /\ PushSlot(i) \in Slots
    <2>1. head + i \in Int /\ tail + i \in Int
      BY SpanFits
    <2>2. ASSUME NEW x \in Int PROVE x % Capacity \in Slots
      BY SpanFits, DivMod DEF Slots
    <2> QED
      BY <2>1, <2>2 DEF PopSlot, PushSlot
  <1>4. ASSUME NEW i \in Int PROVE PushSlot(i) = PopSlot(Occupied + i)
    <2>0. /\ Capacity \in Nat \ {0} /\ IndexSpan \in Nat \ {0} /\ IndexSpan % Capacity = 0
          /\ head \in 0 .. IndexSpan - 1 /\ tail \in 0 .. IndexSpan - 1 /\ i \in Int
      BY SpanFits
    <2>1. (tail + i) % Capacity
            = (head + (((IndexSpan + tail - head) % IndexSpan) + i)) % Capacity
      BY <2>0, SlotBehind, Zenon
    <2> QED
      BY <2>1 DEF PopSlot, PushSlot, Occupied
  <1>5. ASSUME NEW i \in Int, NEW j \in Int, i < j, j < i + Capacity
        PROVE  PopSlot(i) # PopSlot(j)
    <2>1. head + i \in Int /\ j - i \in 1 .. Capacity - 1
          /\ (head + i) + (j - i) = head + j
      BY <1>5, SpanFits
    <2>2. ((head + i) + (j - i)) % Capacity # (head + i) % Capacity
      BY <2>1, SpanFits, ModApart
    <2> QED
      BY <2>1, <2>2 DEF PopSlot
  <1> QED
    BY <1>2, <1>3, <1>4, <1>5

\* What both threads do to the indices stays in their range.
LEMMA IndexInRange ==
  ASSUME NEW x \in Int
  PROVE  x % IndexSpan \in 0 .. IndexSpan - 1 /\ x % Positions \in Places
  BY SpanFits, SizeAssumption, DivMod DEF Places

\* Publishing the pushed frames adds them to the ring.
LEMMA PushAdds ==
  ASSUME head \in 0 .. IndexSpan - 1, tail \in 0 .. IndexSpan - 1, put \in Nat,
         Occupied + put < Capacity,
         tail' = (tail + put) % IndexSpan, head' = head
  PROVE  Occupied' = Occupied + put
  <1> DEFINE S == IndexSpan
             h == head
             t == tail
             p == put
  <1>1. /\ S \in Nat \ {0} /\ h \in 0 .. S - 1 /\ t \in 0 .. S - 1 /\ p \in Nat
        /\ ((S + t - h) % S) + p < Capacity /\ Capacity <= S /\ Capacity \in Nat
    BY SpanFits DEF Occupied
  <1> HIDE DEF S, h, t, p
  <1>2. (S + t - h) % S \in 0 .. S - 1
    BY <1>1, DivMod
  <1>3. ((S + t - h) % S) + p < S
    BY <1>1, <1>2
  <1>4. (S + ((t + p) % S) - h) % S = ((S + t - h) % S) + p
    BY <1>1, <1>3, PushApart
  <1> QED
    BY <1>4 DEF S, h, t, p, Occupied

\* Publishing the popped frames takes them out, and the slots move up.
LEMMA PopTakes ==
  ASSUME head \in 0 .. IndexSpan - 1, tail \in 0 .. IndexSpan - 1, take \in Nat,
         take <= Occupied, head' = HeadAfter(take), tail' = tail
  PROVE  /\ Occupied' = Occupied - take
         /\ \A i \in Int : (PopSlot(i))' = PopSlot(take + i)
  <1> DEFINE S == IndexSpan
             C == Capacity
             h == head
             t == tail
             n == take
             x == head + take
  <1>1. /\ S \in Nat \ {0} /\ h \in 0 .. S - 1 /\ t \in 0 .. S - 1 /\ n \in Nat
        /\ n <= (S + t - h) % S /\ C \in Nat \ {0} /\ S % C = 0 /\ x \in Int
        /\ \A i \in Int : x + i = h + (n + i)
    BY SpanFits DEF Occupied
  <1> HIDE DEF S, h, t, n, x, C
  <1>2. (S + t - ((h + n) % S)) % S = ((S + t - h) % S) - n
    BY <1>1, PopApart
  <1>3. ASSUME NEW i \in Int PROVE ((x % S) + i) % C = (x + i) % C
    BY <1>1, SlotShift
  <1>4. ASSUME NEW i \in Int PROVE ((x % S) + i) % C = (h + (n + i)) % C
    BY <1>1, <1>3
  <1>5. Occupied' = Occupied - take
    BY <1>2 DEF S, h, t, n, Occupied, HeadAfter
  <1> QED
    BY <1>4, <1>5 DEF S, C, h, n, x, PopSlot, HeadAfter

-----------------------------------------------------------------------------
(* The invariant.                                                          *)

IInv == PwRingTypeOK /\ RoomKept /\ CopiesTrue /\ InputTracked /\ ExitMarked

\* As long as there is room for what is pushed, the threads do not meet.
LEMMA ThreadsApart == PwRingTypeOK /\ RoomKept => SlotsApart
  <1> SUFFICES ASSUME PwRingTypeOK, RoomKept,
                      NEW i \in done .. put - 1, NEW j \in Len(copied) .. take - 1
               PROVE  PushSlot(i) # PopSlot(j)
    BY DEF SlotsApart
  <1>1. /\ head \in 0 .. IndexSpan - 1 /\ tail \in 0 .. IndexSpan - 1
        /\ Occupied < Capacity /\ Occupied + put < Capacity /\ take <= Occupied
    BY SpanFits, DivMod DEF PwRingTypeOK, RoomKept, Occupied
  <1>2. /\ Occupied \in 0 .. Capacity - 1 /\ PushSlot(i) = PopSlot(Occupied + i)
        /\ \A k, l \in Int : k < l /\ l < k + Capacity => PopSlot(k) # PopSlot(l)
    BY <1>1, IndexFacts
  <1>3. j < Occupied + i /\ Occupied + i < j + Capacity /\ Occupied + i \in Int
    BY <1>1, <1>2, SpanFits DEF PwRingTypeOK
  <1> QED
    BY <1>2, <1>3

\* The type invariant, by what it is about.
NumbersOK ==
  /\ pipe \in 0..PipeSize
  /\ pos \in Places /\ frame \in Places /\ left \in 0..ReadFrames
  /\ put \in 0..ReadFrames /\ done \in 0..put
  /\ head \in 0..(IndexSpan - 1) /\ tail \in 0..(IndexSpan - 1)
  /\ take \in 0..MaxWant
FramesOK ==
  /\ buf \in [Slots -> Places]
  /\ copied \in Seq(Places) /\ Len(copied) <= take
  /\ played \in Seq(Places) /\ Len(played) <= MaxWant
FlagsOK ==
  /\ phase \in {"connecting", "check", "read", "push", "copy", "exiting",
               "failing", "ended"}
  /\ stream \in {"connecting", "streaming", "error", "gone"}
  /\ eof \in BOOLEAN /\ ready \in BOOLEAN /\ shouldExit \in BOOLEAN
  /\ complaint \in BOOLEAN

\* Sizes, as numbers.
LEMMA Sizes ==
  /\ Capacity \in Nat \ {0, 1} /\ IndexSpan \in Nat \ {0}
  /\ Channels \in Nat \ {0} /\ ReadFrames \in Nat \ {0} /\ MaxWant \in Nat \ {0}
  /\ PipeSize \in Nat \ {0} /\ Positions \in Nat \ {0}
  BY RingAssumption, SizeAssumption

\* At the start there is nothing in the ring and nothing on its way.
LEMMA InitEstablishes == Init => IInv
  <1> SUFFICES ASSUME Init PROVE IInv
    OBVIOUS
  <1>1. Occupied = 0
    BY SpanFits DEF Init, Occupied
  <1>2. PwRingTypeOK
    <2>1. 0 \in Places
      BY Sizes DEF Places
    <2>2. NumbersOK
      BY <2>1, Sizes DEF Init, NumbersOK
    <2>3. FramesOK
      BY <2>1, Sizes DEF Init, FramesOK
    <2>4. FlagsOK
      BY DEF Init, FlagsOK
    <2> QED
      BY <2>2, <2>3, <2>4 DEF PwRingTypeOK, NumbersOK, FramesOK, FlagsOK
  <1>3. RoomKept /\ CopiesTrue /\ ExitMarked
    BY <1>1, SpanFits DEF Init, RoomKept, CopiesTrue, ExitMarked
  <1>4. InputTracked
    BY SizeAssumption DEF Init, InputTracked
  <1> QED
    BY <1>2, <1>3, <1>4 DEF IInv

\* A read brings no more frames than the buffer holds.
LEMMA FramesOfRead ==
  ASSUME NEW n \in Nat, n <= ReadFrames * Channels
  PROVE  /\ n \div Channels \in 0 .. ReadFrames
         /\ n % Channels = 0 => (n \div Channels) * Channels = n
  <1> DEFINE c == Channels
             m == ReadFrames
             q == n \div c
             r == n % c
  <1>1. c \in Nat \ {0} /\ m \in Nat /\ n <= m * c
    BY SizeAssumption
  <1> HIDE DEF c, m
  <1>2. q \in Int /\ r \in 0 .. c - 1 /\ n = c * q + r
    BY <1>1, DivMod
  <1> HIDE DEF q, r
  <1>3. q >= 0
    <2>1. q <= -1 => c * q <= 0 - c
      BY <1>1, <1>2
    <2> QED
      BY <1>1, <1>2, <2>1
  <1>4. q <= m
    <2>1. q >= m + 1 => c * q >= m * c + c
      BY <1>1, <1>2
    <2> QED
      BY <1>1, <1>2, <2>1
  <1>5. r = 0 => q * c = n
    BY <1>1, <1>2
  <1> QED
    BY <1>1, <1>2, <1>3, <1>4, <1>5 DEF q, r, c, m

\* The threads leave the ring and what they have of it alone.
RingIdle == UNCHANGED <<put, done, frame, left, ringVars, take, copied>>

\* Steps that leave them alone keep what is said of them.
LEMMA IdleKeeps ==
  ASSUME IInv, RingIdle, phase' = phase \/ "copy" \notin {phase, phase'}
  PROVE  RoomKept' /\ CopiesTrue'
  <1>1. Occupied' = Occupied /\ \A i : (PopSlot(i))' = PopSlot(i) /\ (PushSlot(i))' = PushSlot(i)
    BY DEF RingIdle, ringVars, Occupied, PopSlot, PushSlot
  <1>2. RoomKept'
    BY <1>1 DEF IInv, RoomKept, RingIdle, ringVars
  <1>3. CopiesTrue'
    BY <1>1 DEF IInv, CopiesTrue, RingIdle, ringVars
  <1> QED
    BY <1>2, <1>3

\* The reader of stdin, the stream and the engine leave the ring alone.
LEMMA OthersKeep ==
  ASSUME IInv,
         \/ Connected \/ ConnectTimesOut \/ CheckExit \/ ReadEnds \/ ReadFails
         \/ Cleanup \/ StreamStarts \/ StreamFails \/ StreamDisconnects
         \/ EngineWrites \/ EngineCloses \/ Signal
  PROVE  IInv'
  <1> USE DEF ringVars, inputVars, mainVars, popVars, streamVars, Leaves, LeftMarked,
              Complains
  <1>1. RingIdle /\ (phase' = phase \/ "copy" \notin {phase, phase'})
    BY DEF Connected, ConnectTimesOut, CheckExit, ReadEnds, ReadFails, Cleanup,
           StreamStarts, StreamFails, StreamDisconnects, EngineWrites, EngineCloses,
           Signal, RingIdle
  <1>2. PwRingTypeOK'
    <2>1. NumbersOK /\ FramesOK /\ FlagsOK
      BY DEF IInv, PwRingTypeOK, NumbersOK, FramesOK, FlagsOK
    <2>2. NumbersOK'
      <3>1. pipe' \in 0 .. PipeSize
        BY <2>1, Sizes DEF NumbersOK, Connected, ConnectTimesOut, CheckExit, ReadEnds,
               ReadFails, Cleanup, StreamStarts, StreamFails, StreamDisconnects,
               EngineWrites, EngineCloses, Signal
      <3>2. pos' = pos
        BY DEF Connected, ConnectTimesOut, CheckExit, ReadEnds,
               ReadFails, Cleanup, StreamStarts, StreamFails, StreamDisconnects,
               EngineWrites, EngineCloses, Signal
      <3> QED
        BY <1>1, <2>1, <3>1, <3>2 DEF RingIdle, NumbersOK
    <2>3. FramesOK'
      <3>1. played' = played
        BY DEF Connected, ConnectTimesOut, CheckExit, ReadEnds,
               ReadFails, Cleanup, StreamStarts, StreamFails, StreamDisconnects,
               EngineWrites, EngineCloses, Signal
      <3> QED
        BY <1>1, <2>1, <3>1 DEF RingIdle, FramesOK
    <2>4. FlagsOK'
      BY <2>1 DEF FlagsOK, Connected, ConnectTimesOut, CheckExit, ReadEnds,
             ReadFails, Cleanup, StreamStarts, StreamFails, StreamDisconnects,
             EngineWrites, EngineCloses, Signal
    <2> QED
      BY <2>2, <2>3, <2>4 DEF PwRingTypeOK, NumbersOK, FramesOK, FlagsOK
  <1>3. InputTracked'
    BY DEF IInv, InputTracked, Connected, ConnectTimesOut, CheckExit, ReadEnds,
           ReadFails, Cleanup, StreamStarts, StreamFails, StreamDisconnects,
           EngineWrites, EngineCloses, Signal
  <1>4. ExitMarked'
    BY DEF IInv, PwRingTypeOK, ExitMarked, Connected, ConnectTimesOut, CheckExit, ReadEnds,
           ReadFails, Cleanup, StreamStarts, StreamFails, StreamDisconnects,
           EngineWrites, EngineCloses, Signal
  <1> QED
    BY <1>1, <1>2, <1>3, <1>4, IdleKeeps DEF IInv

\* What a read brings is in the order of stdin.
LEMMA ReadsKeep ==
  ASSUME IInv, Reads
  PROVE  IInv'
  <1> USE DEF ringVars, popVars, streamVars
  <1>1. PICK n \in ReadSizes :
          /\ pipe' = pipe - n
          /\ pos' = (pos + n) % Positions
          /\ left' = n \div Channels
          /\ phase' = IF n \div Channels = 0 THEN "check" ELSE "push"
    BY DEF Reads
  <1>2. /\ n \in Nat /\ n <= pipe /\ n <= ReadFrames * Channels
        /\ PartialReads \/ n % Channels = 0
    BY <1>1, Sizes DEF ReadSizes, Less, IInv, PwRingTypeOK
  <1>3. left' \in 0 .. ReadFrames /\ (~PartialReads => left' * Channels = n)
    BY <1>1, <1>2, FramesOfRead
  <1>4. /\ phase = "read" /\ frame' = pos
        /\ UNCHANGED <<put, done, eof, ringVars, popVars, streamVars>>
    BY DEF Reads
  <1>5. put = 0 /\ done = 0 /\ put' = 0 /\ done' = 0
    BY <1>4, Sizes DEF IInv, RoomKept, PwRingTypeOK
  <1>6. pos' \in Places /\ frame' \in Places
    <2>1. pos + n \in Int
      BY <1>2, Sizes DEF IInv, PwRingTypeOK, Places
    <2> QED
      BY <1>1, <1>4, <2>1, IndexInRange DEF IInv, PwRingTypeOK
  <1>7. PwRingTypeOK'
    <2>1. NumbersOK /\ FramesOK /\ FlagsOK
      BY DEF IInv, PwRingTypeOK, NumbersOK, FramesOK, FlagsOK
    <2>2. pipe' \in 0 .. PipeSize
      BY <1>1, <1>2, <2>1, Sizes DEF NumbersOK
    <2>3. NumbersOK'
      BY <1>3, <1>4, <1>6, <2>1, <2>2 DEF NumbersOK
    <2>4. FramesOK' /\ FlagsOK'
      BY <1>1, <1>4, <2>1 DEF FramesOK, FlagsOK
    <2> QED
      BY <2>3, <2>4 DEF PwRingTypeOK, NumbersOK, FramesOK, FlagsOK
  <1>8. RoomKept' /\ CopiesTrue'
    <2>1. /\ Occupied' = Occupied
          /\ \A i : (PopSlot(i))' = PopSlot(i)
      BY <1>4 DEF Occupied, PopSlot
    <2>2. RoomKept'
      BY <1>1, <1>3, <1>4, <1>5, <2>1, Sizes DEF IInv, RoomKept
    <2>3. CopiesTrue'
      BY <1>4, <1>5, <2>1 DEF IInv, CopiesTrue
    <2> QED
      BY <2>2, <2>3
  <1>9. InputTracked' /\ ExitMarked'
    BY <1>1, <1>3, <1>4 DEF InputTracked, ExitMarked
  <1> QED
    BY <1>7, <1>8, <1>9 DEF IInv

\* What the invariant says of the ring, as the steps below need it.
LEMMA RingFacts ==
  ASSUME IInv
  PROVE  /\ NumbersOK /\ FramesOK /\ FlagsOK
         /\ Occupied \in 0 .. Capacity - 1 /\ Readable = Occupied
         /\ \A i \in Int : PopSlot(i) \in Slots /\ PushSlot(i) \in Slots
         /\ \A i \in Int : PushSlot(i) = PopSlot(Occupied + i)
         /\ \A i, j \in Int : i < j /\ j < i + Capacity => PopSlot(i) # PopSlot(j)
         /\ \A i, j \in Int : i < j /\ j < i + Capacity => PushSlot(i) # PushSlot(j)
  <1>1. NumbersOK /\ FramesOK /\ FlagsOK
    BY DEF IInv, PwRingTypeOK, NumbersOK, FramesOK, FlagsOK
  <1>2. head \in 0 .. IndexSpan - 1 /\ tail \in 0 .. IndexSpan - 1 /\ put \in Nat
    BY <1>1 DEF NumbersOK
  <1>3. Occupied \in Int
    BY <1>2, SpanFits, DivMod DEF Occupied
  <1>4. Occupied < Capacity
    BY <1>2, <1>3, Sizes DEF IInv, RoomKept
  <1>5. /\ Occupied \in 0 .. Capacity - 1 /\ Readable = Occupied
        /\ \A i \in Int : PopSlot(i) \in Slots /\ PushSlot(i) \in Slots
        /\ \A i \in Int : PushSlot(i) = PopSlot(Occupied + i)
        /\ \A i, j \in Int : i < j /\ j < i + Capacity => PopSlot(i) # PopSlot(j)
    BY <1>2, <1>4, IndexFacts
  <1>6. ASSUME NEW i \in Int, NEW j \in Int, i < j, j < i + Capacity
        PROVE  PushSlot(i) # PushSlot(j)
    <2>1. /\ Occupied + i \in Int /\ Occupied + j \in Int
          /\ Occupied + i < Occupied + j /\ Occupied + j < (Occupied + i) + Capacity
      BY <1>3, <1>6, Sizes
    <2>2. PopSlot(Occupied + i) # PopSlot(Occupied + j)
      BY <1>5, <2>1
    <2> QED
      BY <1>5, <2>2
  <1> QED
    BY <1>1, <1>5, <1>6

\* The reader pushes no more than there is room for.
LEMMA PushBeginsKeeps ==
  ASSUME IInv, PushBegins
  PROVE  IInv'
  <1> USE DEF inputVars, ringVars, popVars, streamVars
  <1>1. /\ phase = "push" /\ phase' = "copy" /\ put' = Pushed /\ Pushed > 0 /\ done' = 0
        /\ UNCHANGED <<inputVars, ringVars, popVars, streamVars>>
    BY DEF PushBegins
  <1>2. /\ NumbersOK /\ FramesOK /\ FlagsOK
        /\ Occupied \in 0 .. Capacity - 1 /\ Readable = Occupied
    BY RingFacts
  <1>3. put' \in 0 .. left /\ Occupied + put' < Capacity
    BY <1>1, <1>2, Sizes DEF Pushed, Less, Writable, NumbersOK
  <1>4. Occupied' = Occupied /\ \A i : (PopSlot(i))' = PopSlot(i)
    BY <1>1 DEF Occupied, PopSlot
  <1>5. PwRingTypeOK'
    <2>1. NumbersOK'
      BY <1>1, <1>2, <1>3, Sizes DEF NumbersOK
    <2>2. FramesOK' /\ FlagsOK'
      BY <1>1, <1>2 DEF FramesOK, FlagsOK
    <2> QED
      BY <2>1, <2>2 DEF PwRingTypeOK, NumbersOK, FramesOK, FlagsOK
  <1>6. RoomKept'
    BY <1>1, <1>3, <1>4 DEF IInv, RoomKept
  <1>7. CopiesTrue'
    BY <1>1, <1>4 DEF IInv, CopiesTrue
  <1>8. InputTracked' /\ ExitMarked'
    BY <1>1 DEF IInv, InputTracked, ExitMarked
  <1> QED
    BY <1>5, <1>6, <1>7, <1>8 DEF IInv

\* A slot that is written holds no frame that waits, and none that was pushed
\* before it.
LEMMA PushCopiesKeeps ==
  ASSUME IInv, PushCopies
  PROVE  /\ IInv'
         /\ \A i \in 0 .. Occupied - 1 : buf'[PopSlot(i)] = buf[PopSlot(i)]
  <1> USE DEF inputVars, ringVars, popVars, streamVars
  <1> DEFINE new == (frame + done * Channels) % Positions
  <1>1. /\ phase = "copy" /\ done < put /\ done' = done + 1
        /\ buf' = [buf EXCEPT ![PushSlot(done)] = new]
        /\ UNCHANGED <<phase, put, inputVars, head, tail, popVars, streamVars>>
    BY DEF PushCopies
  <1>2. /\ NumbersOK /\ FramesOK /\ FlagsOK
        /\ Occupied \in 0 .. Capacity - 1
        /\ \A i \in Int : PopSlot(i) \in Slots /\ PushSlot(i) \in Slots
        /\ \A i \in Int : PushSlot(i) = PopSlot(Occupied + i)
        /\ \A i, j \in Int : i < j /\ j < i + Capacity => PopSlot(i) # PopSlot(j)
        /\ \A i, j \in Int : i < j /\ j < i + Capacity => PushSlot(i) # PushSlot(j)
    BY RingFacts
  <1>3. done \in Nat /\ put \in Nat /\ take \in Nat /\ Capacity \in Nat
        /\ take <= Occupied /\ Occupied + put < Capacity
    BY <1>2, Sizes DEF NumbersOK, IInv, RoomKept
  <1>4. new \in Places
    <2>1. frame + done * Channels \in Int
      BY <1>2, <1>3, Sizes DEF NumbersOK, Places
    <2> QED
      BY <2>1, IndexInRange
  <1> HIDE DEF new
  <1>5. /\ Occupied' = Occupied
        /\ \A i : (PopSlot(i))' = PopSlot(i) /\ (PushSlot(i))' = PushSlot(i)
    BY <1>1 DEF Occupied, PopSlot, PushSlot
  <1>6. ASSUME NEW i \in 0 .. Occupied - 1
        PROVE  buf'[PopSlot(i)] = buf[PopSlot(i)]
    <2>1. PopSlot(i) # PopSlot(Occupied + done)
      <3>1. i \in Int /\ Occupied + done \in Int /\ i < Occupied + done
            /\ Occupied + done < i + Capacity
        BY <1>1, <1>2, <1>3
      <3> QED
        BY <1>2, <3>1
    <2>2. PopSlot(i) # PushSlot(done) /\ PopSlot(i) \in Slots
      BY <1>2, <1>3, <2>1
    <2> QED
      BY <1>1, <1>2, <2>2 DEF FramesOK
  <1>7. ASSUME NEW i \in 0 .. done - 1
        PROVE  buf'[PushSlot(i)] = buf[PushSlot(i)]
    <2>1. PushSlot(i) # PushSlot(done) /\ PushSlot(i) \in Slots
      <3>1. i \in Int /\ i < done /\ done < i + Capacity
        BY <1>1, <1>2, <1>3
      <3> QED
        BY <1>2, <1>3, <3>1
    <2> QED
      BY <1>1, <1>2, <2>1 DEF FramesOK
  <1>8. buf'[PushSlot(done)] = new
    BY <1>1, <1>2, <1>3 DEF FramesOK
  <1>9. PwRingTypeOK'
    <2>1. NumbersOK' /\ FlagsOK'
      BY <1>1, <1>2, <1>3 DEF NumbersOK, FlagsOK
    <2>2. FramesOK'
      BY <1>1, <1>2, <1>4 DEF FramesOK
    <2> QED
      BY <2>1, <2>2 DEF PwRingTypeOK, NumbersOK, FramesOK, FlagsOK
  <1>10. RoomKept'
    BY <1>1, <1>5 DEF IInv, RoomKept
  <1>11. CopiesTrue'
    <2>1. ASSUME NEW j \in 1 .. Len(copied)
          PROVE  copied[j] = buf'[PopSlot(j - 1)]
      <3>1. j - 1 \in 0 .. Occupied - 1
        BY <1>2, <1>3, <2>1 DEF FramesOK
      <3> QED
        BY <1>6, <2>1, <3>1 DEF IInv, CopiesTrue
    <2>2. ASSUME NEW i \in 0 .. done'- 1
          PROVE  buf'[PushSlot(i)] = (frame + i * Channels) % Positions
      <3>1. CASE i = done
        BY <1>8, <3>1 DEF new
      <3>2. CASE i # done
        <4>1. i \in 0 .. done - 1
          BY <1>1, <1>3, <3>2
        <4> QED
          BY <1>7, <4>1 DEF IInv, CopiesTrue
      <3> QED
        BY <3>1, <3>2
    <2> QED
      BY <1>1, <1>5, <2>1, <2>2 DEF CopiesTrue
  <1>12. InputTracked' /\ ExitMarked'
    BY <1>1 DEF IInv, InputTracked, ExitMarked
  <1> QED
    BY <1>6, <1>9, <1>10, <1>11, <1>12 DEF IInv

\* What is published is what was read, and what is left starts behind it.
LEMMA PushPublishesKeeps ==
  ASSUME IInv, PushPublishes
  PROVE  IInv' /\ Occupied' = Occupied + put
  <1> USE DEF popVars, streamVars
  <1>1. /\ phase = "copy" /\ done = put /\ tail' = (tail + put) % IndexSpan
        /\ frame' = (frame + put * Channels) % Positions
        /\ left' = left - put /\ put' = 0 /\ done' = 0
        /\ phase' = IF left = put THEN "check" ELSE "push"
        /\ UNCHANGED <<pipe, eof, pos, buf, head, popVars, streamVars>>
    BY DEF PushPublishes
  <1>2. /\ NumbersOK /\ FramesOK /\ FlagsOK
        /\ Occupied \in 0 .. Capacity - 1
    BY RingFacts
  <1>3. /\ head \in 0 .. IndexSpan - 1 /\ tail \in 0 .. IndexSpan - 1 /\ put \in Nat
        /\ left \in Nat /\ put <= left /\ take <= Occupied /\ Occupied + put < Capacity
        /\ frame \in Nat
    BY <1>2, Sizes DEF NumbersOK, IInv, RoomKept, Places
  <1>4. Occupied' = Occupied + put
    BY <1>1, <1>3, PushAdds
  <1>5. tail' \in 0 .. IndexSpan - 1 /\ frame' \in Places
    <2>1. tail + put \in Int /\ frame + put * Channels \in Int
      BY <1>3, Sizes
    <2> QED
      BY <1>1, <2>1, IndexInRange
  <1>6. PwRingTypeOK'
    <2>1. left' \in 0 .. ReadFrames
      BY <1>1, <1>2, <1>3, Sizes DEF NumbersOK
    <2>2. NumbersOK'
      BY <1>1, <1>2, <1>5, <2>1, Sizes DEF NumbersOK
    <2>3. FramesOK' /\ FlagsOK'
      BY <1>1, <1>2 DEF FramesOK, FlagsOK
    <2> QED
      BY <2>2, <2>3 DEF PwRingTypeOK, NumbersOK, FramesOK, FlagsOK
  <1>7. RoomKept'
    <2>1. left' \in Nat /\ take' = take /\ take \in Nat
      BY <1>1, <1>2, <1>3, Sizes DEF NumbersOK
    <2> QED
      BY <1>1, <1>2, <1>3, <1>4, <2>1, Sizes DEF RoomKept
  <1>8. CopiesTrue'
    <2>1. \A i : (PopSlot(i))' = PopSlot(i)
      BY <1>1 DEF PopSlot
    <2> QED
      BY <1>1, <2>1 DEF IInv, CopiesTrue
  <1>9. InputTracked'
    <2>1. phase' \in {"connecting", "check", "read"} => left' = 0
      BY <1>1, <1>3
    <2>2. ASSUME ~PartialReads PROVE pos' = (frame' + left' * Channels) % Positions
      <3> DEFINE a == put * Channels
                 b == left' * Channels
                 f == frame + a
      <3>1. a \in Int /\ b \in Int /\ f \in Int /\ f + b = frame + left * Channels
        BY <1>1, <1>3, Sizes
      <3>2. ((f % Positions) + b) % Positions = (f + b) % Positions
        <4> HIDE DEF a, b, f
        <4> QED
          BY <3>1, Sizes, ModAdd
      <3>3. pos = (frame + left * Channels) % Positions
        BY <2>2 DEF IInv, InputTracked
      <3> QED
        BY <1>1, <3>1, <3>2, <3>3
    <2> QED
      BY <2>1, <2>2 DEF InputTracked
  <1>10. ExitMarked'
    BY <1>1 DEF ExitMarked
  <1> QED
    BY <1>4, <1>6, <1>7, <1>8, <1>9, <1>10 DEF IInv

\* What is popped is in the ring.
LEMMA PopBeginsKeeps ==
  ASSUME IInv, PopBegins
  PROVE  IInv'
  <1> USE DEF mainVars, inputVars, ringVars, streamVars
  <1>1. PICK want \in 1 .. MaxWant :
          /\ take' = Popped(want)
          /\ played' = IF Readable = 0 THEN <<>> ELSE played
    BY DEF PopBegins
  <1>2. take = 0 /\ UNCHANGED <<mainVars, inputVars, ringVars, copied, streamVars>>
    BY DEF PopBegins
  <1>3. /\ NumbersOK /\ FramesOK /\ FlagsOK
        /\ Occupied \in 0 .. Capacity - 1 /\ Readable = Occupied
    BY RingFacts
  <1>4. take' \in 0 .. MaxWant /\ take' <= Occupied
    BY <1>1, <1>3, Sizes DEF Popped, Less
  <1>5. /\ Occupied' = Occupied
        /\ \A i : (PopSlot(i))' = PopSlot(i) /\ (PushSlot(i))' = PushSlot(i)
    BY <1>2 DEF Occupied, PopSlot, PushSlot
  <1>6. PwRingTypeOK'
    <2>1. NumbersOK' /\ FlagsOK'
      BY <1>2, <1>3, <1>4 DEF NumbersOK, FlagsOK
    <2>2. played' \in Seq(Places) /\ Len(played') <= MaxWant
      BY <1>1, <1>3, Sizes DEF FramesOK
    <2>3. Len(copied) \in Nat /\ Len(copied) <= take'
      BY <1>2, <1>3, <1>4, Sizes DEF FramesOK
    <2>4. FramesOK'
      BY <1>2, <1>3, <2>2, <2>3 DEF FramesOK
    <2> QED
      BY <2>1, <2>4 DEF PwRingTypeOK, NumbersOK, FramesOK, FlagsOK
  <1>7. RoomKept'
    BY <1>2, <1>4, <1>5 DEF IInv, RoomKept
  <1>8. CopiesTrue'
    BY <1>2, <1>5 DEF IInv, CopiesTrue
  <1>9. InputTracked' /\ ExitMarked'
    BY <1>2 DEF IInv, InputTracked, ExitMarked
  <1> QED
    BY <1>6, <1>7, <1>8, <1>9 DEF IInv

\* A frame is copied from where it waits.
LEMMA PopCopiesKeeps ==
  ASSUME IInv, PopCopies
  PROVE  IInv'
  <1> USE DEF mainVars, inputVars, ringVars, streamVars
  <1> DEFINE n == Len(copied)
             new == buf[PopSlot(n)]
  <1>1. /\ take > 0 /\ n < take /\ copied' = Append(copied, new)
        /\ UNCHANGED <<mainVars, inputVars, ringVars, take, played, streamVars>>
    BY DEF PopCopies
  <1>2. /\ NumbersOK /\ FramesOK /\ FlagsOK
        /\ \A i \in Int : PopSlot(i) \in Slots
    BY RingFacts
  <1>3. n \in Nat /\ new \in Places
    BY <1>2 DEF FramesOK
  <1>4. /\ Occupied' = Occupied
        /\ \A i : (PopSlot(i))' = PopSlot(i) /\ (PushSlot(i))' = PushSlot(i)
    BY <1>1 DEF Occupied, PopSlot, PushSlot
  <1> HIDE DEF new
  <1>5. /\ copied' \in Seq(Places) /\ Len(copied') = n + 1
        /\ \A j \in 1 .. n : copied'[j] = copied[j]
        /\ copied'[n + 1] = new
    BY <1>1, <1>2, <1>3 DEF FramesOK
  <1>6. PwRingTypeOK'
    <2>1. NumbersOK' /\ FlagsOK'
      BY <1>1, <1>2 DEF NumbersOK, FlagsOK
    <2>2. Len(copied') <= take
      BY <1>1, <1>2, <1>3, <1>5 DEF NumbersOK
    <2>3. FramesOK'
      BY <1>1, <1>2, <1>5, <2>2 DEF FramesOK
    <2> QED
      BY <2>1, <2>3 DEF PwRingTypeOK, NumbersOK, FramesOK, FlagsOK
  <1>7. RoomKept'
    BY <1>1, <1>4 DEF IInv, RoomKept
  <1>8. CopiesTrue'
    <2>1. ASSUME NEW j \in 1 .. n + 1 PROVE copied'[j] = buf[PopSlot(j - 1)]
      <3>1. CASE j = n + 1
        BY <1>3, <1>5, <3>1 DEF new
      <3>2. CASE j # n + 1
        <4>1. j \in 1 .. n
          BY <1>3, <3>2
        <4> QED
          BY <1>5, <4>1 DEF IInv, CopiesTrue
      <3> QED
        BY <3>1, <3>2
    <2> QED
      BY <1>1, <1>4, <1>5, <2>1 DEF IInv, CopiesTrue
  <1>9. InputTracked' /\ ExitMarked'
    BY <1>1 DEF IInv, InputTracked, ExitMarked
  <1> QED
    BY <1>6, <1>7, <1>8, <1>9 DEF IInv

\* What was popped leaves the ring.
LEMMA PopPublishesKeeps ==
  ASSUME IInv, PopPublishes
  PROVE  IInv' /\ Occupied' = Occupied - take
  <1> USE DEF mainVars, inputVars, streamVars
  <1>1. /\ take > 0 /\ Len(copied) = take /\ head' = HeadAfter(take)
        /\ played' = copied /\ take' = 0 /\ copied' = <<>>
        /\ UNCHANGED <<mainVars, inputVars, buf, tail, streamVars>>
    BY DEF PopPublishes
  <1>2. /\ NumbersOK /\ FramesOK /\ FlagsOK
        /\ Occupied \in 0 .. Capacity - 1
    BY RingFacts
  <1>3. /\ head \in 0 .. IndexSpan - 1 /\ tail \in 0 .. IndexSpan - 1 /\ take \in Nat
        /\ put \in Nat /\ take <= Occupied /\ Occupied + put < Capacity
    BY <1>2, Sizes DEF NumbersOK, IInv, RoomKept
  <1>4. Occupied' = Occupied - take
    BY <1>1, <1>3, PopTakes
  <1>5. head' \in 0 .. IndexSpan - 1
    BY <1>1, <1>3, IndexInRange DEF HeadAfter
  <1>6. PwRingTypeOK'
    <2>1. NumbersOK' /\ FlagsOK'
      BY <1>1, <1>2, <1>5, Sizes DEF NumbersOK, FlagsOK
    <2>2. FramesOK'
      BY <1>1, <1>2, Sizes DEF FramesOK, NumbersOK
    <2> QED
      BY <2>1, <2>2 DEF PwRingTypeOK, NumbersOK, FramesOK, FlagsOK
  <1>7. RoomKept'
    BY <1>1, <1>2, <1>3, <1>4, Sizes DEF IInv, RoomKept
  <1>8. CopiesTrue'
    <2>1. \A i : (PushSlot(i))' = PushSlot(i)
      BY <1>1 DEF PushSlot
    <2> QED
      BY <1>1, <2>1 DEF IInv, CopiesTrue
  <1>9. InputTracked' /\ ExitMarked'
    BY <1>1 DEF IInv, InputTracked, ExitMarked
  <1> QED
    BY <1>4, <1>6, <1>7, <1>8, <1>9 DEF IInv

\* The invariant is inductive.
LEMMA IInvInductive == IInv /\ [Next]_vars => IInv'
  <1> SUFFICES ASSUME IInv, [Next]_vars PROVE IInv'
    OBVIOUS
  <1>1. CASE UNCHANGED vars
    <2>1. /\ RingIdle /\ phase' = phase
          /\ UNCHANGED <<pipe, eof, pos, played, stream, ready, shouldExit, complaint>>
      BY <1>1 DEF vars, mainVars, inputVars, ringVars, popVars, streamVars, RingIdle
    <2>2. PwRingTypeOK'
      BY <2>1 DEF IInv, PwRingTypeOK, RingIdle, ringVars
    <2>3. InputTracked' /\ ExitMarked'
      BY <2>1 DEF IInv, InputTracked, ExitMarked, RingIdle
    <2> QED
      BY <2>1, <2>2, <2>3, IdleKeeps DEF IInv
  <1>2. CASE MainStep
    BY <1>2, OthersKeep, ReadsKeep, PushBeginsKeeps, PushCopiesKeeps, PushPublishesKeeps
       DEF MainStep
  <1>3. CASE PopStep
    BY <1>3, PopBeginsKeeps, PopCopiesKeeps, PopPublishesKeeps DEF PopStep
  <1>4. CASE \/ ConnectTimesOut \/ ReadFails \/ StreamStarts \/ StreamFails
             \/ StreamDisconnects \/ EngineWrites \/ EngineCloses \/ Signal
    BY <1>4, OthersKeep
  <1> QED
    BY <1>1, <1>2, <1>3, <1>4 DEF Next

-----------------------------------------------------------------------------
(* What follows from it.                                                   *)

\* The inductive invariant always holds.
LEMMA IInvAlways == Spec => []IInv
  BY InitEstablishes, IInvInductive, PTL DEF Spec

\* No slot is written while it is read, there is room for what is pushed, what
\* is popped is there, and no whole frame is skipped: for any capacity, and
\* wherever the unsigned indices stand.
THEOREM RingInvAlways == Spec => []RingInv
  <1>1. IInv => RingInv
    BY ThreadsApart DEF IInv, RingInv
  <1> QED
    BY <1>1, IInvAlways, PTL

\* Once the helper exits nothing more is reported as a lost stream.
THEOREM QuietShutdownHolds == Spec => QuietShutdown
  <1>1. IInv /\ [Next]_vars => [phase = "exiting" => complaint' = complaint]_vars
    <2> SUFFICES ASSUME IInv, Next, phase = "exiting"
                 PROVE  complaint' = complaint
      BY DEF vars, streamVars
    <2>1. shouldExit /\ complaint \in BOOLEAN
      BY DEF IInv, ExitMarked, PwRingTypeOK
    <2>2. CASE MainStep \/ ConnectTimesOut \/ ReadFails
      BY <2>1, <2>2 DEF MainStep, Connected, CheckExit, ReadEnds, Leaves, Reads,
             PushBegins, PushCopies, PushPublishes, Cleanup, Complains, ConnectTimesOut,
             ReadFails, streamVars
    <2>3. CASE PopStep
      BY <2>3 DEF PopStep, PopBegins, PopCopies, PopPublishes, streamVars
    <2>4. CASE StreamStarts \/ StreamFails \/ StreamDisconnects
      BY <2>1, <2>4 DEF StreamStarts, StreamFails, StreamDisconnects, Complains
    <2>5. CASE EngineWrites \/ EngineCloses \/ Signal
      BY <2>5 DEF EngineWrites, EngineCloses, Signal, streamVars
    <2> QED
      BY <2>2, <2>3, <2>4, <2>5 DEF Next
  <1> QED
    BY <1>1, IInvAlways, PTL DEF Spec, QuietShutdown

-----------------------------------------------------------------------------
(* The ring is a queue.                                                    *)

\* A sequence that agrees with one on its first places and with another one on
\* the places after those is the two in a row.
LEMMA InARow ==
  ASSUME NEW s \in Seq(Int), NEW t \in Seq(Int), NEW u \in Seq(Int),
         Len(u) = Len(s) + Len(t),
         \A i \in 1 .. Len(s) : u[i] = s[i],
         \A k \in 1 .. Len(t) : u[Len(s) + k] = t[k]
  PROVE  u = s \o t
  <1> DEFINE v == s \o t
  <1>1. /\ v \in Seq(Int) /\ Len(v) = Len(s) + Len(t)
        /\ \A i \in 1 .. Len(s) : v[i] = s[i]
    OBVIOUS
  <1>2. \A i \in 1 .. Len(u) : i > Len(s) => v[i] = t[i - Len(s)]
    OBVIOUS
  <1>3. \A i \in 1 .. Len(u) : i > Len(s) => u[i] = t[i - Len(s)]
    <2> SUFFICES ASSUME NEW i \in 1 .. Len(u), i > Len(s) PROVE u[i] = t[i - Len(s)]
      OBVIOUS
    <2>1. i - Len(s) \in 1 .. Len(t) /\ Len(s) + (i - Len(s)) = i
      OBVIOUS
    <2> QED
      BY <2>1
  <1> HIDE DEF v
  <1>4. ASSUME NEW i \in 1 .. Len(u) PROVE u[i] = v[i]
    <2>1. CASE i > Len(s)
      BY <1>2, <1>3, <2>1
    <2>2. CASE ~(i > Len(s))
      <3>1. i \in 1 .. Len(s)
        BY <2>2
      <3> QED
        BY <1>1, <3>1
    <2> QED
      BY <2>1, <2>2
  <1>5. u = v
    BY <1>1, <1>4, SeqEqual
  <1> QED
    BY <1>5 DEF v

\* The front of a sequence, and what is behind it.
LEMMA FrontAndRest ==
  ASSUME NEW s \in Seq(Int), NEW n \in 0 .. Len(s), NEW u \in Seq(Int)
  PROVE  /\ (Len(u) = n /\ \A i \in 1 .. n : u[i] = s[i]) => u = SubSeq(s, 1, n)
         /\ (Len(u) = Len(s) - n /\ \A i \in 1 .. Len(s) - n : u[i] = s[n + i])
              => u = SubSeq(s, n + 1, Len(s))
  OBVIOUS

\* The frames that wait in the ring, oldest first.
Waiting == [i \in 1 .. Readable |-> buf[PopSlot(i - 1)]]

\* Steps that leave the ring alone leave the queue alone.
LEMMA QueueIdle ==
  ASSUME UNCHANGED <<ringVars, frame, played>>
  PROVE  UNCHANGED <<Waiting, frame, played>>
  BY DEF ringVars, Waiting, Readable, Occupied, PopSlot

\* The frames that wait are a sequence.
LEMMA WaitingIsQueue ==
  ASSUME IInv
  PROVE  /\ Waiting \in Seq(Int) /\ Len(Waiting) = Occupied
         /\ \A i \in 1 .. Occupied : Waiting[i] = buf[PopSlot(i - 1)]
  <1>1. /\ FramesOK /\ Occupied \in Nat /\ Readable = Occupied
        /\ \A i \in Int : PopSlot(i) \in Slots
    BY RingFacts, Sizes
  <1>2. ASSUME NEW i \in 1 .. Occupied PROVE buf[PopSlot(i - 1)] \in Int
    BY <1>1, Sizes DEF FramesOK, Places
  <1> QED
    BY <1>1, <1>2 DEF Waiting

\* Where reads end with frames, a read begins where the last one ended.
LEMMA ReadsContinue ==
  ASSUME IInv, ~PartialReads, Reads
  PROVE  frame' = frame
  <1>1. phase = "read" /\ frame' = pos
    BY DEF Reads
  <1>2. left = 0 /\ pos = (frame + left * Channels) % Positions
    BY <1>1 DEF IInv, InputTracked
  <1>3. frame \in 0 .. Positions - 1
    BY DEF IInv, PwRingTypeOK, Places
  <1>4. frame + left * Channels = frame
    BY <1>2, <1>3, Sizes
  <1>5. frame % Positions = frame
    BY <1>3, Sizes
  <1> QED
    BY <1>1, <1>2, <1>4, <1>5

\* Publishing what was pushed appends it to the queue.
LEMMA PushIsPush ==
  ASSUME IInv, PushPublishes
  PROVE  Fifo!Push
  <1>1. /\ phase = "copy" /\ done = put /\ UNCHANGED <<buf, head, played>>
        /\ frame' = (frame + put * Channels) % Positions
    BY DEF PushPublishes, popVars
  <1>2. /\ Occupied \in Nat /\ put \in 1 .. (Capacity - 1 - Occupied)
        /\ \A i \in Int : PushSlot(i) = PopSlot(Occupied + i)
    BY <1>1, RingFacts, Sizes DEF IInv, RoomKept, NumbersOK
  <1>3. Occupied' = Occupied + put /\ Readable' = Occupied'
    <2>1. IInv' /\ Occupied' = Occupied + put
      BY PushPublishesKeeps
    <2>2. Occupied' \in 0 .. Capacity - 1
      BY <1>2, <2>1, Sizes DEF IInv, RoomKept, PwRingTypeOK
    <2> QED
      BY <2>1, <2>2, Sizes DEF Readable
  <1>4. /\ Len(Waiting) = Occupied /\ Waiting \in Seq(Int)
        /\ \A i \in 1 .. Occupied : Waiting[i] = buf[PopSlot(i - 1)]
    BY WaitingIsQueue
  <1> DEFINE new == Fifo!Following(frame, put)
  <1>5. /\ new \in Seq(Int) /\ Len(new) = put
        /\ \A i \in 1 .. put : new[i] = (frame + (i - 1) * Channels) % Positions
    <2>1. \A i \in 1 .. put : (frame + (i - 1) * Channels) % Positions \in Int
      <3> SUFFICES ASSUME NEW i \in 1 .. put
                   PROVE  (frame + (i - 1) * Channels) % Positions \in Int
        OBVIOUS
      <3>1. frame + (i - 1) * Channels \in Int
        BY Sizes DEF IInv, PwRingTypeOK, Places
      <3> QED
        BY <3>1, Sizes, DivMod
    <2> QED
      BY <1>2, <2>1 DEF Fifo!Following
  <1>6. Waiting' = [i \in 1 .. (Occupied + put) |-> buf[PopSlot(i - 1)]]
    BY <1>1, <1>3 DEF Waiting, PopSlot
  <1>7. ASSUME NEW k \in 1 .. put
        PROVE  buf[PopSlot(Occupied + k - 1)] = new[k]
    <2>1. k - 1 \in 0 .. done - 1 /\ k - 1 \in Int
          /\ Occupied + (k - 1) = Occupied + k - 1
      BY <1>1, <1>2
    <2>2. buf[PushSlot(k - 1)] = (frame + (k - 1) * Channels) % Positions
      BY <2>1 DEF IInv, CopiesTrue
    <2> QED
      BY <1>2, <1>5, <2>1, <2>2
  <1> HIDE DEF new
  <1>8. Waiting' \in Seq(Int) /\ Len(Waiting') = Occupied + put
    <2>1. \A i \in 1 .. (Occupied + put) : buf[PopSlot(i - 1)] \in Int
      BY <1>2, RingFacts, Sizes DEF FramesOK, Places
    <2> QED
      BY <1>2, <1>6, <2>1
  <1>9. \A i \in 1 .. Occupied : (Waiting')[i] = Waiting[i]
    <2> SUFFICES ASSUME NEW i \in 1 .. Occupied PROVE (Waiting')[i] = Waiting[i]
      OBVIOUS
    <2>1. i \in 1 .. (Occupied + put)
      BY <1>2
    <2>2. (Waiting')[i] = buf[PopSlot(i - 1)]
      BY <1>6, <2>1, Zenon
    <2> QED
      BY <1>4, <2>2, Zenon
  <1>10. \A k \in 1 .. put : (Waiting')[Occupied + k] = new[k]
    BY <1>2, <1>6, <1>7
  <1>11. Waiting' = Waiting \o new
    <2> DEFINE w == Waiting'
    <2>1. w \in Seq(Int) /\ Len(w) = Len(Waiting) + Len(new)
      BY <1>4, <1>5, <1>8
    <2>2. \A i \in 1 .. Len(Waiting) : w[i] = Waiting[i]
      BY <1>4, <1>9
    <2>3. \A k \in 1 .. Len(new) : w[Len(Waiting) + k] = new[k]
      BY <1>4, <1>5, <1>10
    <2> HIDE DEF w
    <2>4. w = Waiting \o new
      BY <1>4, <1>5, <2>1, <2>2, <2>3, InARow, Zenon
    <2> QED
      BY <2>4 DEF w
  <1> QED
    BY <1>1, <1>2, <1>4, <1>11 DEF Fifo!Push, Waiting, new

\* Publishing what was popped takes it from the front of the queue.
LEMMA PopIsPlay ==
  ASSUME IInv, PopPublishes
  PROVE  Fifo!Play
  <1>1. /\ Len(copied) = take /\ head' = HeadAfter(take) /\ played' = copied
        /\ UNCHANGED <<buf, tail, frame>>
    BY DEF PopPublishes, inputVars
  <1>2. /\ FramesOK /\ take \in Nat /\ take <= Occupied /\ Occupied \in Nat
        /\ \A j \in 1 .. take : copied[j] = buf[PopSlot(j - 1)]
    BY <1>1, RingFacts, Sizes DEF IInv, RoomKept, NumbersOK, CopiesTrue
  <1>3. \A i \in Int : (PopSlot(i))' = PopSlot(take + i)
    BY <1>1, <1>2, RingFacts, PopTakes DEF NumbersOK
  <1>4. Occupied' = Occupied - take /\ Readable' = Occupied'
    <2>1. IInv' /\ Occupied' = Occupied - take
      BY PopPublishesKeeps
    <2>2. Occupied' \in 0 .. Capacity - 1
      BY <1>2, <2>1, Sizes DEF IInv, RoomKept, PwRingTypeOK
    <2> QED
      BY <2>1, <2>2, Sizes DEF Readable
  <1>5. /\ Len(Waiting) = Occupied /\ Waiting \in Seq(Int)
        /\ \A i \in 1 .. Occupied : Waiting[i] = buf[PopSlot(i - 1)]
    BY WaitingIsQueue
  <1>6. /\ copied \in Seq(Int) /\ take \in 0 .. Len(Waiting)
        /\ \A j \in 1 .. take : copied[j] = Waiting[j]
    <2>1. copied \in Seq(Int) /\ take \in 0 .. Len(Waiting)
      <3>1. Places \subseteq Int
        BY Sizes DEF Places
      <3> QED
        <4>1. copied \in Seq(Places)
          BY <1>2 DEF FramesOK
        <4>2. copied \in Seq(Int)
          BY <3>1, <4>1, SeqMonotonic, Zenon
        <4> QED
          BY <1>2, <1>5, <4>2
    <2>2. ASSUME NEW j \in 1 .. take PROVE copied[j] = Waiting[j]
      <3>1. j \in 1 .. Occupied
        BY <1>2
      <3> QED
        BY <1>2, <1>5, <3>1, Zenon
    <2> QED
      BY <2>1, <2>2
  <1>7. played' = SubSeq(Waiting, 1, take)
    BY <1>1, <1>5, <1>6, FrontAndRest
  <1>8. Waiting' = [i \in 1 .. (Occupied - take) |-> Waiting[take + i]]
    <2>1. Waiting' = [i \in 1 .. (Occupied - take) |-> buf[(PopSlot(i - 1))']]
      BY <1>1, <1>4 DEF Waiting
    <2>2. ASSUME NEW i \in 1 .. (Occupied - take)
          PROVE  buf[(PopSlot(i - 1))'] = Waiting[take + i]
      <3>1. take + i \in 1 .. Occupied /\ take + (i - 1) = take + i - 1 /\ i - 1 \in Int
        BY <1>2
      <3>2. (PopSlot(i - 1))' = PopSlot(take + (i - 1))
        BY <1>3, <3>1
      <3>3. Waiting[take + i] = buf[PopSlot(take + i - 1)]
        <4> DEFINE m == take + i
        <4>1. m \in 1 .. Occupied /\ take + i - 1 = m - 1
          BY <1>2, <3>1
        <4> HIDE DEF m
        <4>2. Waiting[m] = buf[PopSlot(m - 1)]
          BY <1>5, <4>1, Zenon
        <4> QED
          BY <4>1, <4>2, Zenon DEF m
      <3> QED
        BY <3>1, <3>2, <3>3
    <2> QED
      BY <2>1, <2>2, Zenon
  <1>9. Waiting' = SubSeq(Waiting, take + 1, Len(Waiting))
    <2> DEFINE w == Waiting'
    <2>1. \A i \in 1 .. (Occupied - take) : Waiting[take + i] \in Int
      BY <1>2, <1>5
    <2>2. w \in Seq(Int) /\ Len(w) = Len(Waiting) - take
      BY <1>2, <1>5, <1>8, <2>1
    <2>3. \A i \in 1 .. (Len(Waiting) - take) : w[i] = Waiting[take + i]
      BY <1>5, <1>8
    <2> HIDE DEF w
    <2>4. w = SubSeq(Waiting, take + 1, Len(Waiting))
      BY <1>5, <1>6, <2>2, <2>3, FrontAndRest
    <2> QED
      BY <2>4 DEF w
  <1> QED
    BY <1>1, <1>6, <1>7, <1>9 DEF Fifo!Play, Waiting

\* Every step is one of the queue, or leaves it alone.
LEMMA StepOfQueue ==
  ASSUME ~PartialReads, IInv, [Next]_vars
  PROVE  [Fifo!Push \/ Fifo!Play]_<<Waiting, frame, played>>
  <1> USE DEF ringVars, inputVars, popVars, streamVars, mainVars
  <1>1. CASE UNCHANGED vars
    BY <1>1, QueueIdle DEF vars
  <1>2. CASE MainStep
    <2>1. CASE Connected \/ CheckExit \/ ReadEnds \/ PushBegins \/ Cleanup
      BY <2>1, QueueIdle DEF Connected, CheckExit, ReadEnds, Leaves, PushBegins, Cleanup
    <2>2. CASE Reads
      <3>1. UNCHANGED <<ringVars, played>>
        BY <2>2 DEF Reads
      <3> QED
        BY <2>2, <3>1, QueueIdle, ReadsContinue
    <2>3. CASE PushCopies
      <3>1. /\ UNCHANGED <<head, tail, frame, played>>
            /\ \A i \in 0 .. Occupied - 1 : buf'[PopSlot(i)] = buf[PopSlot(i)]
        BY <2>3, PushCopiesKeeps DEF PushCopies
      <3>2. Readable = Occupied /\ Occupied \in Nat
        BY RingFacts, Sizes
      <3>3. Waiting' = [i \in 1 .. Occupied |-> buf'[PopSlot(i - 1)]]
        BY <3>1, <3>2 DEF Waiting, Readable, Occupied, PopSlot
      <3>4. \A i \in 1 .. Occupied : buf'[PopSlot(i - 1)] = buf[PopSlot(i - 1)]
        BY <3>1, <3>2
      <3>5. Waiting' = Waiting
        BY <3>2, <3>3, <3>4 DEF Waiting
      <3> QED
        BY <3>1, <3>5
    <2>4. CASE PushPublishes
      BY <2>4, PushIsPush
    <2> QED
      BY <1>2, <2>1, <2>2, <2>3, <2>4 DEF MainStep
  <1>3. CASE PopStep
    <2>1. CASE PopBegins
      <3>1. UNCHANGED <<ringVars, frame>>
            /\ played' = IF Readable = 0 THEN <<>> ELSE played
        BY <2>1 DEF PopBegins
      <3>2. CASE Readable # 0
        BY <3>1, <3>2, QueueIdle
      <3>3. CASE Readable = 0
        <4>1. /\ Waiting \in Seq(Int) /\ Len(Waiting) = 0 /\ Waiting = <<>>
          BY <3>3, RingFacts, WaitingIsQueue
        <4>2. Waiting' = Waiting
          BY <3>1 DEF Waiting, Readable, Occupied, PopSlot
        <4>3. SubSeq(Waiting, 1, 0) = <<>> /\ SubSeq(Waiting, 1, Len(Waiting)) = <<>>
          BY <4>1
        <4>4. /\ played' = SubSeq(Waiting, 1, 0) /\ 0 \in 0 .. Len(Waiting)
              /\ Waiting' = SubSeq(Waiting, 0 + 1, Len(Waiting)) /\ UNCHANGED frame
          BY <3>1, <3>3, <4>1, <4>2, <4>3
        <4> QED
          BY <4>4 DEF Fifo!Play, Waiting
      <3> QED
        BY <3>2, <3>3
    <2>2. CASE PopCopies
      BY <2>2, QueueIdle DEF PopCopies
    <2>3. CASE PopPublishes
      BY <2>3, PopIsPlay
    <2> QED
      BY <1>3, <2>1, <2>2, <2>3 DEF PopStep
  <1>4. CASE \/ ConnectTimesOut \/ ReadFails \/ StreamStarts \/ StreamFails
             \/ StreamDisconnects \/ EngineWrites \/ EngineCloses \/ Signal
    BY <1>4, QueueIdle DEF ConnectTimesOut, ReadFails, Leaves, StreamStarts, StreamFails,
       StreamDisconnects, EngineWrites, EngineCloses, Signal
  <1> QED
    BY <1>1, <1>2, <1>3, <1>4 DEF Next

\* As long as reads end with frames, what is played is what stdin brought, in
\* that order, nothing lost, repeated or torn.  (A read that ends inside a
\* frame drops its bytes, so that the frames after it are torn.)
THEOREM RingIsFifo == ASSUME ~PartialReads PROVE Spec => FifoSpec
  <1>1. Init => Fifo!Init
    <2> SUFFICES ASSUME Init PROVE Fifo!Init
      OBVIOUS
    <2>1. Readable = 0
      BY Sizes DEF Init, Readable, Occupied
    <2>2. Waiting = <<>>
      BY <2>1 DEF Waiting
    <2> QED
      BY <2>2 DEF Init, Fifo!Init, Waiting
  <1>2. IInv /\ [Next]_vars => [Fifo!Push \/ Fifo!Play]_<<Waiting, frame, played>>
    BY StepOfQueue
  <1> QED
    BY <1>1, <1>2, IInvAlways, PTL DEF Spec, FifoSpec, Fifo!Spec, Waiting
=============================================================================
