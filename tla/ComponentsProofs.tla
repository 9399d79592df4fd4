-------------------------- MODULE ComponentsProofs --------------------------
(***************************************************************************)
(* Theorems about the parts that Components puts side by side.  Each part  *)
(* is proved about as the module it is; EachPartMoves says that Components *)
(* does with it nothing else.                                              *)
(***************************************************************************)
EXTENDS Components, Sequences, FiniteSets, FiniteSetTheorems, SequenceTheorems, NaturalsInduction, WellFoundedInduction, TLAPS

-----------------------------------------------------------------------------
\* Every set of numbers that is not empty has a smallest one, and a greatest
\* if it is bounded.
LEMMA LeastNumber ==
  ASSUME NEW S \in SUBSET Nat, S # {}
  PROVE  \E n \in S : \A k \in S : n <= k
PROOF
  <1>1. PICK n \in S : \A k \in S : <<k, n>> \notin OpToRel(<, Nat)
    BY WFMin, NatLessThanWellFounded, Zenon
  <1>2. \A k \in S : ~(k < n)
    BY <1>1, Zenon DEF OpToRel
  <1>3. \A k \in S : n <= k
    BY <1>2
  <1> QED BY <1>3

LEMMA GreatestNumber ==
  ASSUME NEW m \in Nat, NEW S \in SUBSET (0 .. m), S # {}
  PROVE  \E n \in S : \A k \in S : k <= n
PROOF
  <1> DEFINE R == {m - k : k \in S}
  <1>1. R \in SUBSET Nat /\ R # {}
    <2>1. \A k \in S : k \in 0 .. m
      OBVIOUS
    <2>2. \A k \in S : m - k \in Nat
      BY <2>1
    <2> QED BY <2>2
  <1>2. PICK r \in R : \A k \in R : r <= k
    BY <1>1, LeastNumber
  <1>3. PICK n \in S : r = m - n
    OBVIOUS
  <1>4. ASSUME NEW k \in S PROVE k <= n
    <2>1. m - k \in R
      OBVIOUS
    <2>2. m - n <= m - k
      BY <1>2, <1>3, <2>1
    <2>3. k \in Int /\ n \in Int
      OBVIOUS
    <2> QED BY <2>2, <2>3
  <1> QED BY <1>4

-----------------------------------------------------------------------------
(* The chunks' way through the engine.                                     *)

\* What the stages keep beyond ChunkInv: the history has its length and, while
\* the loop runs, holds no sample of another voice or run; without a loop no tail
\* is held; the breaker has counted at least as far as the run's own failures;
\* and the resampler has ended in the last iteration only.
Samples == {"zero", "now"}
ChunkShape ==
  /\ history \in [1 .. Chunks!HistoryLen -> Samples \cup {"before"}]
  /\ inLoop => history \in [1 .. Chunks!HistoryLen -> Samples]
  /\ mode \in {"in-process", "child"} /\ inLoop \in BOOLEAN /\ stop \in {"clear", "set", "over"}
  /\ tail \in Nat \cup {Chunks!NoTail}
  /\ {cfgVoice, bootVoice, voice} \subseteq Voices
  /\ heard \in {"nothing", "silence", "chunk", "tail"}
BreakerCounts == fails \in Nat /\ drops \in 0 .. DropLimit /\ fails <= drops
TailInLoop == ~inLoop => tail = Chunks!NoTail
ChunkIInv == ChunkShape /\ BreakerCounts /\ TailInLoop /\ Chunks!Coherent /\ Chunks!BreakerTrips

LEMMA MaxOfTwo ==
  ASSUME NEW x \in Int, NEW y \in Int
  PROVE  Chunks!Max({x, y}) = IF x >= y THEN x ELSE y
PROOF
  <1>1. \E z \in {x, y} : \A w \in {x, y} : z >= w
    OBVIOUS
  <1>2. Chunks!Max({x, y}) \in {x, y} /\ \A w \in {x, y} : Chunks!Max({x, y}) >= w
    BY <1>1 DEF Chunks!Max
  <1> QED BY <1>2
LEMMA MinOfTwo ==
  ASSUME NEW x \in Int, NEW y \in Int
  PROVE  Chunks!Min({x, y}) = IF x <= y THEN x ELSE y
PROOF
  <1>1. \E z \in {x, y} : \A w \in {x, y} : z <= w
    OBVIOUS
  <1>2. Chunks!Min({x, y}) \in {x, y} /\ \A w \in {x, y} : Chunks!Min({x, y}) <= w
    BY <1>1 DEF Chunks!Min
  <1> QED BY <1>2

\* The history takes a chunk of n samples and keeps its length.
LEMMA Remembers ==
  ASSUME Chunks!ChunkAssumption, ChunkShape, inLoop, NEW n \in Nat, Chunks!Remember(n)
  PROVE  history' \in [1 .. Chunks!HistoryLen -> Samples]
PROOF
  <1> DEFINE Len0 == Chunks!HistoryLen
             Longer == history \o [i \in 1 .. n |-> "now"]
  <1>1. Len0 \in Nat
    BY DEF Chunks!ChunkAssumption, Chunks!HistoryLen
  <1>2. history \in Seq(Samples) /\ Len(history) = Len0
    BY <1>1 DEF ChunkShape
  <1>3. [i \in 1 .. n |-> "now"] \in Seq(Samples) /\ Len([i \in 1 .. n |-> "now"]) = n
    BY DEF Samples
  <1> HIDE DEF Len0
  <1>4. Longer \in Seq(Samples) /\ Len(Longer) = Len0 + n
    BY <1>1, <1>2, <1>3
  <1> HIDE DEF Longer
  <1>5. SubSeq(Longer, n + 1, n + Len0) \in [1 .. Len0 -> Samples]
    <2>1. SubSeq(Longer, n + 1, n + Len0) = [i \in 1 .. Len0 |-> Longer[i + n]]
      BY <1>1, <1>4
    <2>2. \A i \in 1 .. Len0 : Longer[i + n] \in Samples
      BY <1>1, <1>4
    <2> QED BY <2>1, <2>2
  <1> QED BY <1>5 DEF Chunks!Remember, Longer, Len0

LEMMA PastSamples ==
  ASSUME ChunkShape
  PROVE  Chunks!Past \in [1 .. Chunks!HistoryLen -> Samples \cup {"before"}]
PROOF
  <1>1. \A i \in 1 .. Chunks!HistoryLen : history[i] \in Samples \cup {"before"}
    BY DEF ChunkShape
  <1> QED BY <1>1 DEF Chunks!Past

\* What is cut off in front of l samples, in proportion and rounded, when t of them
\* are missing: between t less than the whole and the whole.
LEMMA CutInProportion ==
  ASSUME NEW f \in Nat, NEW l \in Nat, NEW t \in Nat, NEW c \in 0 .. f, f < l,
         2 * (c * l - f * (l - t)) \in -l .. l
  PROVE  c >= f - t
PROOF
  <1>1. SUFFICES ASSUME c < f - t PROVE FALSE
    OBVIOUS
  <1> DEFINE g == f - t - 1 - c
             h == l - f
  <1>2. g \in Nat /\ h \in Nat /\ h > 0 /\ c = f - t - 1 - g /\ l = h + f
    BY <1>1
  <1> HIDE DEF g, h
  <1>3. c * l - f * (l - t) = -(t * h) - l - g * l
    <2>1. c * l = f * l - t * l - l - g * l
      BY <1>2
    <2>2. f * (l - t) = f * l - f * t
      OBVIOUS
    <2>3. t * l = t * h + t * f
      BY <1>2
    <2>4. t * h \in Int /\ t * f \in Int /\ f * t = t * f /\ g * l \in Int /\ f * l \in Int /\ t * l \in Int
      BY <1>2
    <2> QED BY <2>1, <2>2, <2>3, <2>4
  <1>4. t * h \in Nat /\ g * l \in Nat
    BY <1>2
  <1> QED BY <1>2, <1>3, <1>4

\* What a chunk of n samples that works puts out, when the context is no shorter
\* than the search: what it takes in, but for the t that inference leaves out.
LEMMA EmittedIsTakenIn ==
  ASSUME Chunks!ChunkAssumption, Search <= Context, NEW n \in Nat,
         NEW t \in 0 .. Chunks!Min({Trim, n + Chunks!HistoryLen}), NEW c \in Chunks!Cuts(n, t)
  PROVE  /\ t \in 0 .. Trim
         /\ Chunks!Kept(n, t, c) \in n + Crossfade + Search - t .. n + Crossfade + Search
         /\ Chunks!Emitted(Chunks!Kept(n, t, c))
              = IF Chunks!Kept(n, t, c) >= Crossfade + Search
                THEN Chunks!Kept(n, t, c) - Crossfade - Search ELSE 0
PROOF
  <1>1. Context \in Nat /\ Crossfade \in Nat \ {0} /\ Search \in Nat /\ Trim \in Nat
    BY DEF Chunks!ChunkAssumption
  <1> DEFINE l == n + Context + Crossfade
             f == Context - Search
  <1>2. n + Chunks!HistoryLen = l /\ l \in Nat /\ f \in Nat /\ f < l
    BY <1>1 DEF Chunks!HistoryLen
  <1>3. t \in 0 .. Trim /\ t <= l
    <2>1. Chunks!Min({Trim, l}) = IF Trim <= l THEN Trim ELSE l
      BY <1>1, <1>2, MinOfTwo
    <2> QED BY <1>1, <1>2, <2>1
  <1>4. Chunks!InFront = f
    BY <1>1, MaxOfTwo DEF Chunks!HistoryLen, Chunks!InFront
  <1>5. Chunks!Length(n, t) = l - t
    BY <1>1, <1>3 DEF Chunks!Length, Chunks!HistoryLen
  <1>6. c \in 0 .. f /\ 2 * (c * l - f * (l - t)) \in -l .. l
    BY <1>2, <1>4, <1>5 DEF Chunks!Cuts
  <1>7. c >= f - t
    <2> HIDE DEF l, f
    <2>1. t \in Nat
      BY <1>1, <1>3
    <2> QED BY <1>2, <1>6, <2>1, CutInProportion
  <1>8. Chunks!Kept(n, t, c) = l - t - c
    BY <1>5 DEF Chunks!Kept
  <1>9. Chunks!Kept(n, t, c) \in n + Crossfade + Search - t .. n + Crossfade + Search
    BY <1>1, <1>3, <1>6, <1>7, <1>8
  <1>10. Chunks!Emitted(Chunks!Kept(n, t, c))
           = IF Chunks!Kept(n, t, c) >= Crossfade + Search
             THEN Chunks!Kept(n, t, c) - Crossfade - Search ELSE 0
    <2> DEFINE b == Chunks!Kept(n, t, c)
    <2>1. b \in Int
      BY <1>1, <1>3, <1>9
    <2> HIDE DEF b
    <2>2. Chunks!Max({b - Crossfade - Search, 0}) = IF b - Crossfade - Search >= 0 THEN b - Crossfade - Search ELSE 0
      BY <1>1, <2>1, MaxOfTwo
    <2>3. Chunks!Emitted(b) = IF b >= Crossfade + Search THEN b - Crossfade - Search ELSE 0
      BY <1>1, <2>1, <2>2 DEF Chunks!Emitted
    <2> QED BY <2>3 DEF b
  <1> QED BY <1>3, <1>9, <1>10

LEMMA ChunkBegins ==
  ASSUME Chunks!ChunkAssumption, Chunks!ChunkInit
  PROVE  ChunkIInv
PROOF
  <1>1. history \in [1 .. Chunks!HistoryLen -> Samples]
    BY DEF Chunks!ChunkInit, Chunks!Silence, Samples
  <1>2. ChunkShape
    BY <1>1 DEF Chunks!ChunkAssumption, Chunks!ChunkInit, ChunkShape, Samples
  <1>3. BreakerCounts
    BY DEF Chunks!ChunkAssumption, Chunks!ChunkInit, BreakerCounts
  <1>4. TailInLoop /\ Chunks!Coherent /\ Chunks!BreakerTrips
    BY DEF Chunks!ChunkInit, TailInLoop, Chunks!Coherent, Chunks!BreakerTrips, Chunks!InChunkLoop,
           Chunks!InIteration
  <1> QED BY <1>2, <1>3, <1>4 DEF ChunkIInv

LEMMA ChunkStep ==
  ASSUME Chunks!ChunkAssumption, ChunkIInv, [Chunks!ChunkNext]_Chunks!chunkVars
  PROVE  ChunkIInv'
PROOF
  <1> USE DEF ChunkIInv, BreakerCounts, TailInLoop, Chunks!Coherent, Chunks!BreakerTrips,
              Chunks!InChunkLoop, Chunks!InIteration, Chunks!IterationEnds, Chunks!voiceVars,
              Chunks!NoTail
  <1>a. FirstVoice \in Voices /\ DropLimit \in Nat \ {0} /\ ChunkSizes \subseteq Nat
    BY DEF Chunks!ChunkAssumption
  <1>b. Chunks!Silence \in [1 .. Chunks!HistoryLen -> Samples]
    BY DEF Chunks!Silence, Samples
  <1>0. /\ FirstVoice \in Voices /\ DropLimit \in Nat \ {0} /\ ChunkSizes \subseteq Nat
        /\ Chunks!Silence \in [1 .. Chunks!HistoryLen -> Samples]
    BY <1>a, <1>b
  <1>1. CASE Chunks!StartRun
    <2>1. ChunkShape'
      BY <1>0, <1>1 DEF Chunks!StartRun, Chunks!Renewed, Chunks!ResetStreaming, ChunkShape, Samples
    <2>2. BreakerCounts' /\ TailInLoop' /\ Chunks!BreakerTrips'
      BY <1>0, <1>1 DEF Chunks!StartRun
    <2>3. Chunks!Coherent'
      BY <1>1 DEF Chunks!StartRun
    <2> QED BY <2>1, <2>2, <2>3
  <1>2. CASE Chunks!LeaveLoop
    <2>1. Chunks!Past \in [1 .. Chunks!HistoryLen -> Samples \cup {"before"}]
      BY PastSamples
    <2> QED BY <1>0, <1>2, <2>1 DEF Chunks!LeaveLoop, Chunks!Flush, ChunkShape
  <1>3. CASE Chunks!StopCalled
    BY <1>0, <1>3 DEF Chunks!StopCalled, ChunkShape
  <1>4. CASE Chunks!Gated
    BY <1>0, <1>4 DEF Chunks!Gated, ChunkShape
  <1>5. ASSUME NEW n \in ChunkSizes, NEW k \in 0 .. Search, NEW v \in Voices, Chunks!Process(n, k, v)
        PROVE  ChunkIInv'
    <2>1. history' \in [1 .. Chunks!HistoryLen -> Samples]
      BY <1>0, <1>5, Remembers DEF Chunks!Process
    <2>2. heard' \in {"nothing", "silence", "chunk", "tail"} /\ tail' \in {0, -1}
      BY <1>5 DEF Chunks!Process, Chunks!TailAfter
    <2>3. /\ UNCHANGED <<mode, cfgVoice, bootVoice, inLoop, outRate, solaRate, out>>
          /\ inLoop /\ stop # "over" /\ stop' = (IF stop = "clear" THEN "clear" ELSE "over")
          /\ voice' = v /\ v \in Chunks!Answers /\ drops' = 0 /\ fails' = 0
      BY <1>5 DEF Chunks!Process
    <2>4. ChunkShape'
      BY <2>1, <2>2, <2>3 DEF ChunkShape, Samples
    <2>5. BreakerCounts' /\ TailInLoop' /\ Chunks!BreakerTrips'
      BY <1>0, <2>3
    <2>6. Chunks!Coherent'
      BY <2>3 DEF Chunks!Answers
    <2> QED BY <2>4, <2>5, <2>6
  <1>6. ASSUME NEW n \in ChunkSizes, NEW v \in Voices, Chunks!Drop(n, v)
        PROVE  ChunkIInv'
    <2>1. history' \in [1 .. Chunks!HistoryLen -> Samples]
      BY <1>0, <1>6, Remembers DEF Chunks!Drop
    <2>2. drops' = (IF drops + 1 <= DropLimit THEN drops + 1 ELSE DropLimit)
      <3>1. drops + 1 \in Int /\ DropLimit \in Int
        BY <1>0
      <3>2. drops' = Chunks!Min({drops + 1, DropLimit})
        BY <1>6 DEF Chunks!Drop
      <3> QED BY <3>1, <3>2, MinOfTwo
    <2>3. ChunkShape'
      <3>1. n \in Nat
        BY <1>0
      <3>2. tail' \in Nat \cup {-1}
        BY <1>6, <3>1 DEF Chunks!Drop, ChunkShape
      <3>3. stop' \in {"clear", "over"} /\ inLoop' = inLoop /\ heard' = "nothing" /\ voice' \in Voices
            /\ cfgVoice' = cfgVoice /\ bootVoice' = bootVoice /\ mode' = mode
        BY <1>6 DEF Chunks!Drop, Chunks!Trips
      <3> QED BY <2>1, <3>2, <3>3 DEF ChunkShape, Samples
    <2>4. BreakerCounts' /\ TailInLoop' /\ Chunks!BreakerTrips'
      <3>1. inLoop /\ fails < DropLimit /\ fails' = fails + 1 /\ inLoop' = inLoop
            /\ stop' = (IF stop = "clear" /\ ~(drops + 1 >= DropLimit) THEN "clear" ELSE "over")
        BY <1>6 DEF Chunks!Drop, Chunks!Trips
      <3>2. BreakerCounts'
        BY <1>0, <2>2, <3>1
      <3>3. TailInLoop'
        BY <3>1
      <3>4. Chunks!BreakerTrips'
        <4>1. CASE drops + 1 >= DropLimit
          <5>1. stop' = "over"
            BY <3>1, <4>1
          <5> QED BY <5>1
        <4>2. CASE ~(drops + 1 >= DropLimit)
          <5>1. fails' < DropLimit
            BY <1>0, <3>1, <4>2
          <5> QED BY <5>1
        <4> QED BY <4>1, <4>2
      <3> QED BY <3>2, <3>3, <3>4
    <2>5. Chunks!Coherent'
      BY <1>0, <1>6 DEF Chunks!Drop, Chunks!Answers
    <2> QED BY <2>3, <2>4, <2>5
  <1>7. ASSUME NEW v \in Voices, Chunks!SwapWorks(v)
        PROVE  ChunkIInv'
    BY <1>0, <1>7 DEF Chunks!SwapWorks, Chunks!Flush, Chunks!FlushedTail, Chunks!Rebuilt, Chunks!OutFlushed,
                      Chunks!Renewed, Chunks!ResetStreaming, Chunks!Fresh, ChunkShape, Samples
  <1>8. CASE Chunks!SwapFails
    BY <1>0, <1>8 DEF Chunks!SwapFails, Chunks!Flush, Chunks!FlushedTail, Chunks!Rebuilt, Chunks!OutFlushed,
                      Chunks!Renewed, Chunks!ResetStreaming, Chunks!Fresh, ChunkShape, Samples
  <1>9. CASE Chunks!SwapAborts
    BY <1>0, <1>9 DEF Chunks!SwapAborts, Chunks!Flush, ChunkShape
  <1>10. CASE UNCHANGED Chunks!chunkVars
    BY <1>10 DEF Chunks!chunkVars, ChunkShape
  <1> QED BY <1>1, <1>2, <1>3, <1>4, <1>5, <1>6, <1>7, <1>8, <1>9, <1>10 DEF Chunks!ChunkNext

\* Whatever voices, rates, chunk sizes and breaker limit: the stages of the
\* engine agree on the rate of the voice through swaps that work, fail or meet a
\* held tail; inference sees nothing of an earlier voice or run; and the loop
\* does not go on after as many failures in a row as trip the breaker.
LEMMA ChunksKeepInv ==
  ASSUME Chunks!ChunkAssumption
  PROVE  Chunks!ChunkSpec => []Chunks!ChunkInv
PROOF
  <1>1. Chunks!ChunkInit => ChunkIInv
    BY ChunkBegins
  <1>2. ChunkIInv /\ [Chunks!ChunkNext]_Chunks!chunkVars => ChunkIInv'
    BY ChunkStep
  <1>3. ChunkIInv => Chunks!ChunkInv
    <2>1. Chunks!HistoryLen \in Nat
      BY DEF Chunks!ChunkAssumption, Chunks!HistoryLen
    <2> QED BY <2>1 DEF ChunkIInv, ChunkShape, Samples, BreakerCounts, Chunks!ChunkInv,
                        Chunks!ChunkTypeOK, Chunks!NothingStale
  <1> QED BY <1>1, <1>2, <1>3, PTL DEF Chunks!ChunkSpec

-----------------------------------------------------------------------------
(* What the stitching keeps.                                               *)

\* Steady, and where the lag and the tail can be.  It asks for no less context
\* than search, without which there is no room for the search.
SteadyIInv == ChunkIInv /\ Chunks!Steady

LEMMA SteadyStep ==
  ASSUME Chunks!ChunkAssumption, Search <= Context,
         SteadyIInv, [Chunks!ChunkNext]_Chunks!chunkVars
  PROVE  Chunks!Steady'
PROOF
  <1> USE DEF SteadyIInv, Chunks!Steady, Chunks!NoTail, Chunks!voiceVars
  <1>0. Crossfade \in Nat /\ Search \in Nat /\ Trim \in Nat /\ ChunkSizes \subseteq Nat
    BY DEF Chunks!ChunkAssumption
  <1>a. fails \in Nat /\ (~inLoop => tail = -1)
    BY DEF ChunkIInv, BreakerCounts, TailInLoop
  <1>1. CASE Chunks!StartRun \/ Chunks!LeaveLoop \/ Chunks!StopCalled \/ Chunks!Gated
    BY <1>0, <1>1 DEF Chunks!StartRun, Chunks!LeaveLoop, Chunks!StopCalled, Chunks!Gated,
                      Chunks!Renewed, Chunks!ResetStreaming
  <1>2. ASSUME NEW n \in ChunkSizes, NEW k \in 0 .. Search, NEW v \in Voices, Chunks!Process(n, k, v)
        PROVE  Chunks!Steady'
    <2>0. n \in Nat /\ k \in 0 .. Search /\ Trim \in Nat
      BY <1>0 DEF Chunks!ChunkAssumption
    <2>1. PICK t \in 0 .. Chunks!Min({Trim, n + Chunks!HistoryLen}) :
            \E c \in Chunks!Cuts(n, t), e \in 0 .. t :
              /\ tail' = Chunks!TailAfter(Chunks!Kept(n, t, c))
              /\ IF Chunks!Emitted(Chunks!Kept(n, t, c)) > 0 /\ ~out.ended
                 THEN heard' = "chunk"
                      /\ lag' = e + Chunks!Kept(n, t, c) - k - Chunks!Emitted(Chunks!Kept(n, t, c))
                 ELSE heard' = "nothing" /\ lag' = lag
              /\ short' = n - Chunks!Emitted(Chunks!Kept(n, t, c))
      BY <1>2 DEF Chunks!Process
    <2>2. PICK c \in Chunks!Cuts(n, t), e \in 0 .. t :
              /\ tail' = Chunks!TailAfter(Chunks!Kept(n, t, c))
              /\ IF Chunks!Emitted(Chunks!Kept(n, t, c)) > 0 /\ ~out.ended
                 THEN heard' = "chunk"
                      /\ lag' = e + Chunks!Kept(n, t, c) - k - Chunks!Emitted(Chunks!Kept(n, t, c))
                 ELSE heard' = "nothing" /\ lag' = lag
              /\ short' = n - Chunks!Emitted(Chunks!Kept(n, t, c))
      BY <2>1
    <2> DEFINE b == Chunks!Kept(n, t, c)
    <2>3. /\ t \in 0 .. Trim
          /\ b \in n + Crossfade + Search - t .. n + Crossfade + Search
          /\ Chunks!Emitted(b) = IF b >= Crossfade + Search THEN b - Crossfade - Search ELSE 0
      BY <2>0, EmittedIsTakenIn
    <2>4. tail' = Chunks!TailAfter(b) /\ short' = n - Chunks!Emitted(b)
          /\ (lag' = lag \/ (Chunks!Emitted(b) > 0 /\ lag' = e + b - k - Chunks!Emitted(b)))
      BY <2>2
    <2> HIDE DEF b
    <2>5. short' \in 0 .. Trim
      BY <1>0, <2>0, <2>3, <2>4
    <2>6. lag' \in Crossfade .. Crossfade + Search + Trim
      BY <1>0, <2>0, <2>3, <2>4
    <2>7. tail' \in {-1, 0}
      BY <2>4 DEF Chunks!TailAfter
    <2> QED BY <2>5, <2>6, <2>7
  <1>3. ASSUME NEW n \in ChunkSizes, NEW v \in Voices, Chunks!Drop(n, v)
        PROVE  Chunks!Steady'
    BY <1>a, <1>3 DEF Chunks!Drop
  <1>4. ASSUME NEW v \in Voices, Chunks!SwapWorks(v)
        PROVE  Chunks!Steady'
    BY <1>0, <1>4 DEF Chunks!SwapWorks, Chunks!Renewed, Chunks!ResetStreaming
  <1>5. CASE Chunks!SwapFails \/ Chunks!SwapAborts
    BY <1>0, <1>5 DEF Chunks!SwapFails, Chunks!SwapAborts, Chunks!Renewed, Chunks!ResetStreaming
  <1>6. CASE UNCHANGED Chunks!chunkVars
    BY <1>6 DEF Chunks!chunkVars
  <1> QED BY <1>1, <1>2, <1>3, <1>4, <1>5, <1>6 DEF Chunks!ChunkNext

LEMMA HeldStep ==
  ASSUME Chunks!ChunkAssumption, ChunkIInv, [Chunks!ChunkNext]_Chunks!chunkVars,
         tail # Chunks!NoTail, tail' = Chunks!NoTail,
         Search <= Context, \A n \in ChunkSizes : Trim <= n + Search
  PROVE  heard' = "tail" \/ (out.ended /\ stop # "clear")
PROOF
  <1> USE DEF Chunks!NoTail
  <1>a. tail \in Nat /\ (~inLoop => tail = -1) /\ ChunkSizes \subseteq Nat
    BY DEF ChunkIInv, ChunkShape, TailInLoop, Chunks!ChunkAssumption
  <1>b. inLoop /\ stop = "clear" => ~out.ended
    BY DEF ChunkIInv, Chunks!Coherent, Chunks!InChunkLoop, Chunks!Fresh
  <1>1. CASE Chunks!StartRun \/ Chunks!LeaveLoop \/ Chunks!StopCalled \/ Chunks!Gated
    BY <1>a, <1>b, <1>1 DEF Chunks!StartRun, Chunks!LeaveLoop, Chunks!StopCalled, Chunks!Gated,
                            Chunks!Flush, Chunks!FlushedTail
  <1>2. ASSUME NEW n \in ChunkSizes, NEW k \in 0 .. Search, NEW v \in Voices, Chunks!Process(n, k, v)
        PROVE  FALSE
    <2>0. n \in Nat /\ Trim \in Nat /\ Crossfade \in Nat /\ Search \in Nat /\ Trim <= n + Search
      BY DEF Chunks!ChunkAssumption
    <2>1. PICK t \in 0 .. Chunks!Min({Trim, n + Chunks!HistoryLen}) :
            \E c \in Chunks!Cuts(n, t) : tail' = Chunks!TailAfter(Chunks!Kept(n, t, c))
      BY <1>2 DEF Chunks!Process
    <2>2. PICK c \in Chunks!Cuts(n, t) : tail' = Chunks!TailAfter(Chunks!Kept(n, t, c))
      BY <2>1
    <2>3. t \in 0 .. Trim /\ Chunks!Kept(n, t, c) \in n + Crossfade + Search - t .. n + Crossfade + Search
      BY <2>0, EmittedIsTakenIn
    <2>4. Chunks!Kept(n, t, c) >= Crossfade
      BY <2>0, <2>3
    <2> QED BY <2>2, <2>4 DEF Chunks!TailAfter
  <1>3. ASSUME NEW n \in ChunkSizes, NEW v \in Voices, Chunks!Drop(n, v)
        PROVE  FALSE
    BY <1>a, <1>3 DEF Chunks!Drop
  <1>4. ASSUME NEW v \in Voices, Chunks!SwapWorks(v)
        PROVE  heard' = "tail" \/ (out.ended /\ stop # "clear")
    BY <1>b, <1>4 DEF Chunks!SwapWorks, Chunks!Flush, Chunks!FlushedTail, Chunks!InIteration
  <1>5. CASE Chunks!SwapFails \/ Chunks!SwapAborts
    BY <1>b, <1>5 DEF Chunks!SwapFails, Chunks!SwapAborts, Chunks!Flush, Chunks!FlushedTail,
                      Chunks!InIteration
  <1>6. CASE UNCHANGED Chunks!chunkVars
    BY <1>6 DEF Chunks!chunkVars
  <1> QED BY <1>1, <1>2, <1>3, <1>4, <1>5, <1>6 DEF Chunks!ChunkNext

\* Whatever inference leaves out, whatever offsets the alignment chooses, and
\* whatever chunks fail, voices change and runs end, the output stays within the
\* search range and that much behind the input, and puts out what it takes in but
\* for that much; a held tail is played or replaced by a later one.  The context is
\* at least as long as the search, and inference leaves out no more than the
\* shortest chunk and the search.
LEMMA ChunksAreStitched ==
  ASSUME Chunks!ChunkAssumption, Search <= Context, \A n \in ChunkSizes : Trim <= n + Search
  PROVE  Chunks!ChunkSpec => Chunks!Stitched
PROOF
  <1>1. Chunks!ChunkInit => SteadyIInv
    <2>1. Crossfade \in Nat /\ Search \in Nat /\ Trim \in Nat
      BY DEF Chunks!ChunkAssumption
    <2>2. Chunks!ChunkInit => Chunks!Steady
      BY <2>1 DEF Chunks!Steady, Chunks!ChunkInit
    <2> QED BY <2>2, ChunkBegins DEF SteadyIInv
  <1>2. SteadyIInv /\ [Chunks!ChunkNext]_Chunks!chunkVars => SteadyIInv'
    BY ChunkStep, SteadyStep DEF SteadyIInv
  <1>3. SteadyIInv /\ [Chunks!ChunkNext]_Chunks!chunkVars
        => [tail # Chunks!NoTail /\ tail' = Chunks!NoTail
              => heard' = "tail" \/ (out.ended /\ stop # "clear")]_Chunks!chunkVars
    BY HeldStep DEF SteadyIInv
  <1>4. SteadyIInv => Chunks!Steady
    BY DEF SteadyIInv
  <1> QED BY <1>1, <1>2, <1>3, <1>4, PTL DEF Chunks!ChunkSpec, Chunks!Stitched, Chunks!HeldIsPlayed

-----------------------------------------------------------------------------
(* The migration of an old installation.                                   *)

\* The values that the variables have, and no others.
MigrTypes ==
  /\ first \in [Migr!Entries -> {"none", "legacy"}] /\ old \in [Migr!Entries -> {"none", "legacy"}]
  /\ new \in [Migr!Entries -> Migr!Contents] /\ tmp \in {"none", "torn", "rewritten"}
  /\ newDir \subseteq Migr!Dirs /\ links \subseteq Migr!Dirs /\ unit \in BOOLEAN
  /\ phase \in {"off", "unit", "rewrite", "write", "replace"} \cup Migr!Dirs
  /\ way \in {"none", "merge", "copy"} /\ todo \subseteq Migr!Entries
  /\ moving \in Migr!Entries \cup {"none"}
  /\ moves \in BOOLEAN /\ complete \in BOOLEAN /\ cuts \in Nat

\* What a directory that is being moved has left to do, and how far the entry
\* is that is being copied: its original is there until the copy is whole.
MoveUnderWay ==
  /\ way = "none" => todo = {} /\ moving = "none"
  /\ way # "none" => phase \in newDir /\ todo \subseteq Migr!Left(phase)
  /\ moving # "none" =>
       /\ way # "none" /\ moving \in Migr!Left(phase) \ todo
       /\ new[moving] = "torn" \/ (way = "merge" /\ new[moving] = "legacy")
\* What has been dealt with: a copy of the directory is whole, or torn only in
\* the entry under way; a merge has left only what is in the way.
MovedSoFar ==
  /\ way = "copy" =>
       /\ \A e \in todo : new[e] = "none"
       /\ \A e \in Migr!Left(phase) \ todo : e = moving \/ new[e] = "legacy"
  /\ way = "merge" =>
       \A e \in Migr!Left(phase) \ todo : e = moving \/ (new[e] # "none" /\ e # "venv")
\* A new file is in a new directory that is known to exist.
NewDirsKnown == \A d \in Migr!Dirs : \A e \in Migr!In[d] : new[e] # "none" => d \in newDir

\* A directory that has been dealt with has nothing under its old name but what
\* is in the way, unless it was passed over; and so has a run that came to its end.
Past(d) ==
  \/ phase \in {"rewrite", "write", "replace"} \/ complete
  \/ d = "share" /\ phase \in {"config", "cache"}
  \/ d = "config" /\ phase = "cache"
PastIsMoved ==
  /\ complete => phase = "off"
  /\ phase \notin {"off", "unit"} \/ complete => ~unit
  /\ \A d \in Migr!Dirs \ links : Past(d) =>
       \A e \in Migr!In[d] : old[e] # "none" => new[e] # "none" /\ e # "venv"

\* config.toml is rewritten only if this run has moved it, and then it is as the
\* old program left it; a run that may not rewrite it does not move it.
ConfigIsMoved ==
  phase # "off" =>
    /\ moves => new["config.toml"] \notin {"own", "edited"}
    /\ ~moves => old["config.toml"] = "none" \/ new["config.toml"] # "none"
    /\ moving = "config.toml" => moves
    /\ phase \in {"write", "replace"} => moves /\ new["config.toml"] = "legacy"
    /\ phase = "replace" => tmp = "rewritten"
\* As long as no run has been cut off, only the entry under way is torn, and
\* config.toml has the old names only in a run that will rewrite it.
UncutIsWhole ==
  cuts = 0 =>
    /\ \A e \in Migr!Entries : new[e] = "torn" => e = moving
    /\ new["config.toml"] = "legacy" => phase # "off" /\ moves

MigrIInv ==
  /\ MigrTypes /\ MoveUnderWay /\ MovedSoFar /\ NewDirsKnown /\ PastIsMoved
  /\ ConfigIsMoved /\ UncutIsWhole /\ Migr!NothingLost

\* What is in which directory.
LEMMA DirsAndEntries ==
  /\ Migr!Dirs = {"share", "config", "cache"}
  /\ Migr!Entries = {"model", "venv", "config.toml", "download"}
  /\ Migr!In["share"] = {"model", "venv"} /\ Migr!In["config"] = {"config.toml"}
  /\ Migr!In["cache"] = {"download"}
  /\ Migr!After["share"] = "config" /\ Migr!After["config"] = "cache" /\ Migr!After["cache"] = "rewrite"
  /\ Migr!Users = {"model", "config.toml", "download"}
PROOF
  <1>1. Migr!Dirs = {"share", "config", "cache"}
    BY DEF Migr!Dirs
  <1>2. /\ Migr!In["share"] = {"model", "venv"} /\ Migr!In["config"] = {"config.toml"}
        /\ Migr!In["cache"] = {"download"}
    BY DEF Migr!In
  <1>3. Migr!Entries = {"model", "venv", "config.toml", "download"}
    BY <1>1, <1>2 DEF Migr!Entries
  <1>4. /\ Migr!After["share"] = "config" /\ Migr!After["config"] = "cache"
        /\ Migr!After["cache"] = "rewrite"
    BY DEF Migr!After
  <1> QED BY <1>1, <1>2, <1>3, <1>4 DEF Migr!Users

LEMMA BeginMigrationKeeps ==
  ASSUME MigrIInv, Migr!BeginMigration
  PROVE  MigrIInv'
PROOF
  <1> USE DirsAndEntries DEF MigrTypes, Migr!BeginMigration, Migr!LegacyConfigMoves,
              Migr!files, Migr!bounds
  <1>1. /\ MigrTypes /\ MoveUnderWay /\ MovedSoFar /\ NewDirsKnown /\ PastIsMoved
        /\ ConfigIsMoved /\ UncutIsWhole /\ Migr!NothingLost
    BY DEF MigrIInv
  <1>2. MigrTypes'
    BY <1>1 DEF Migr!Contents
  <1>3. MoveUnderWay'
    BY <1>1 DEF MoveUnderWay, Migr!Left
  <1>4. MovedSoFar'
    BY <1>1 DEF MovedSoFar, MoveUnderWay, Migr!Left
  <1>5. NewDirsKnown'
    BY <1>1 DEF NewDirsKnown, MoveUnderWay, Migr!Left
  <1>6. PastIsMoved'
    BY <1>1 DEF PastIsMoved, Past, MoveUnderWay, MovedSoFar, Migr!Left
  <1>7. ConfigIsMoved'
    BY <1>1 DEF ConfigIsMoved, MoveUnderWay, MovedSoFar, NewDirsKnown, Migr!Left
  <1>8. UncutIsWhole'
    BY <1>1 DEF UncutIsWhole, ConfigIsMoved, MoveUnderWay, MovedSoFar, NewDirsKnown, Migr!Left
  <1>9. Migr!NothingLost'
    BY <1>1 DEF Migr!NothingLost, MoveUnderWay, MovedSoFar, NewDirsKnown, ConfigIsMoved, Migr!Left
  <1> QED BY <1>2, <1>3, <1>4, <1>5, <1>6, <1>7, <1>8, <1>9 DEF MigrIInv

LEMMA StopUnitKeeps ==
  ASSUME MigrIInv, Migr!StopUnit
  PROVE  MigrIInv'
PROOF
  <1> USE DirsAndEntries DEF MigrTypes, Migr!StopUnit,
              Migr!files, Migr!bounds
  <1>1. /\ MigrTypes /\ MoveUnderWay /\ MovedSoFar /\ NewDirsKnown /\ PastIsMoved
        /\ ConfigIsMoved /\ UncutIsWhole /\ Migr!NothingLost
    BY DEF MigrIInv
  <1>2. MigrTypes'
    BY <1>1 DEF Migr!Contents
  <1>3. MoveUnderWay'
    BY <1>1 DEF MoveUnderWay, Migr!Left
  <1>4. MovedSoFar'
    BY <1>1 DEF MovedSoFar, MoveUnderWay, Migr!Left
  <1>5. NewDirsKnown'
    BY <1>1 DEF NewDirsKnown, MoveUnderWay, Migr!Left
  <1>6. PastIsMoved'
    BY <1>1 DEF PastIsMoved, Past, MoveUnderWay, MovedSoFar, Migr!Left
  <1>7. ConfigIsMoved'
    BY <1>1 DEF ConfigIsMoved, MoveUnderWay, MovedSoFar, NewDirsKnown, Migr!Left
  <1>8. UncutIsWhole'
    BY <1>1 DEF UncutIsWhole, ConfigIsMoved, MoveUnderWay, MovedSoFar, NewDirsKnown, Migr!Left
  <1>9. Migr!NothingLost'
    BY <1>1 DEF Migr!NothingLost, MoveUnderWay, MovedSoFar, NewDirsKnown, ConfigIsMoved, Migr!Left
  <1> QED BY <1>2, <1>3, <1>4, <1>5, <1>6, <1>7, <1>8, <1>9 DEF MigrIInv

LEMMA BeginDirKeeps ==
  ASSUME MigrIInv, Migr!BeginDir
  PROVE  MigrIInv'
PROOF
  <1> USE DirsAndEntries DEF MigrTypes, Migr!BeginDir, Migr!Moving,
              Migr!files, Migr!bounds
  <1>1. /\ MigrTypes /\ MoveUnderWay /\ MovedSoFar /\ NewDirsKnown /\ PastIsMoved
        /\ ConfigIsMoved /\ UncutIsWhole /\ Migr!NothingLost
    BY DEF MigrIInv
  <1>2. MigrTypes'
    <2>1. phase' \in {phase, Migr!After[phase]} /\ Migr!Left(phase) \subseteq Migr!Entries
      BY <1>1 DEF Migr!Left
    <2>2. new' \in [Migr!Entries -> Migr!Contents] /\ old' \in [Migr!Entries -> {"none", "legacy"}]
      BY <1>1 DEF Migr!Contents, Migr!Left
    <2>3. newDir' \subseteq Migr!Dirs
      BY <1>1
    <2>4. phase' \in {"off", "unit", "rewrite", "write", "replace"} \cup Migr!Dirs
      BY <1>1, <2>1
    <2> QED BY <1>1, <2>1, <2>2, <2>3, <2>4
  <1>3. MoveUnderWay'
    BY <1>1 DEF MoveUnderWay, Migr!Left
  <1>4. MovedSoFar'
    <2>1. CASE way' = "none"
      BY <2>1 DEF MovedSoFar
    <2>2. CASE way' # "none"
      <3>1. new' = new /\ old' = old /\ moving' = "none" /\ phase' = phase /\ todo' = Migr!Left(phase)
            /\ (way' = "copy" => phase \notin newDir)
        BY <1>1, <2>2 DEF MoveUnderWay
      <3>2. way' = "copy" => \A e \in Migr!Left(phase) : new[e] = "none"
        BY <1>1, <3>1 DEF NewDirsKnown, Migr!Left
      <3> QED BY <3>1, <3>2 DEF MovedSoFar, Migr!Left
    <2> QED BY <2>1, <2>2 DEF MovedSoFar
  <1>5. NewDirsKnown'
    BY <1>1 DEF NewDirsKnown, MoveUnderWay, Migr!Left
  <1>6. PastIsMoved'
    BY <1>1 DEF PastIsMoved, Past, MoveUnderWay, MovedSoFar, Migr!Left
  <1>7. ConfigIsMoved'
    BY <1>1 DEF ConfigIsMoved, MoveUnderWay, MovedSoFar, NewDirsKnown, Migr!Left
  <1>8. UncutIsWhole'
    BY <1>1 DEF UncutIsWhole, ConfigIsMoved, MoveUnderWay, MovedSoFar, NewDirsKnown, Migr!Left
  <1>9. Migr!NothingLost'
    BY <1>1 DEF Migr!NothingLost, MoveUnderWay, MovedSoFar, NewDirsKnown, ConfigIsMoved, Migr!Left
  <1> QED BY <1>2, <1>3, <1>4, <1>5, <1>6, <1>7, <1>8, <1>9 DEF MigrIInv

LEMMA MoveEntryKeeps ==
  ASSUME MigrIInv, Migr!MoveEntry
  PROVE  MigrIInv'
PROOF
  <1> USE DirsAndEntries DEF MigrTypes, Migr!MoveEntry, Migr!Moving, Migr!Keeps, Migr!Renames, Migr!Copies, Migr!InTheWay,
              Migr!files, Migr!bounds
  <1>1. /\ MigrTypes /\ MoveUnderWay /\ MovedSoFar /\ NewDirsKnown /\ PastIsMoved
        /\ ConfigIsMoved /\ UncutIsWhole /\ Migr!NothingLost
    BY DEF MigrIInv
  <1>2. MigrTypes'
    BY <1>1 DEF Migr!Contents
  <1>3. MoveUnderWay'
    BY <1>1 DEF MoveUnderWay, Migr!Left
  <1>4. MovedSoFar'
    BY <1>1 DEF MovedSoFar, MoveUnderWay, Migr!Left
  <1>5. NewDirsKnown'
    BY <1>1 DEF NewDirsKnown, MoveUnderWay, Migr!Left
  <1>6. PastIsMoved'
    BY <1>1 DEF PastIsMoved, Past, MoveUnderWay, MovedSoFar, Migr!Left
  <1>7. ConfigIsMoved'
    BY <1>1 DEF ConfigIsMoved, MoveUnderWay, MovedSoFar, NewDirsKnown, Migr!Left
  <1>8. UncutIsWhole'
    BY <1>1 DEF UncutIsWhole, ConfigIsMoved, MoveUnderWay, MovedSoFar, NewDirsKnown, Migr!Left
  <1>9. Migr!NothingLost'
    BY <1>1 DEF Migr!NothingLost, MoveUnderWay, MovedSoFar, NewDirsKnown, ConfigIsMoved, Migr!Left
  <1> QED BY <1>2, <1>3, <1>4, <1>5, <1>6, <1>7, <1>8, <1>9 DEF MigrIInv

LEMMA CopyEndsKeeps ==
  ASSUME MigrIInv, Migr!CopyEnds
  PROVE  MigrIInv'
PROOF
  <1> USE DirsAndEntries DEF MigrTypes, Migr!CopyEnds, Migr!Copied,
              Migr!files, Migr!bounds
  <1>1. /\ MigrTypes /\ MoveUnderWay /\ MovedSoFar /\ NewDirsKnown /\ PastIsMoved
        /\ ConfigIsMoved /\ UncutIsWhole /\ Migr!NothingLost
    BY DEF MigrIInv
  <1>2. MigrTypes'
    BY <1>1 DEF Migr!Contents
  <1>3. MoveUnderWay'
    BY <1>1 DEF MoveUnderWay, Migr!Left
  <1>4. MovedSoFar'
    BY <1>1 DEF MovedSoFar, MoveUnderWay, Migr!Left
  <1>5. NewDirsKnown'
    BY <1>1 DEF NewDirsKnown, MoveUnderWay, Migr!Left
  <1>6. PastIsMoved'
    BY <1>1 DEF PastIsMoved, Past, MoveUnderWay, MovedSoFar, Migr!Left
  <1>7. ConfigIsMoved'
    BY <1>1 DEF ConfigIsMoved, MoveUnderWay, MovedSoFar, NewDirsKnown, Migr!Left
  <1>8. UncutIsWhole'
    BY <1>1 DEF UncutIsWhole, ConfigIsMoved, MoveUnderWay, MovedSoFar, NewDirsKnown, Migr!Left
  <1>9. Migr!NothingLost'
    BY <1>1 DEF Migr!NothingLost, MoveUnderWay, MovedSoFar, NewDirsKnown, ConfigIsMoved, Migr!Left
  <1> QED BY <1>2, <1>3, <1>4, <1>5, <1>6, <1>7, <1>8, <1>9 DEF MigrIInv

LEMMA RemoveCopiedKeeps ==
  ASSUME MigrIInv, Migr!RemoveCopied
  PROVE  MigrIInv'
PROOF
  <1> USE DirsAndEntries DEF MigrTypes, Migr!RemoveCopied,
              Migr!files, Migr!bounds
  <1>1. /\ MigrTypes /\ MoveUnderWay /\ MovedSoFar /\ NewDirsKnown /\ PastIsMoved
        /\ ConfigIsMoved /\ UncutIsWhole /\ Migr!NothingLost
    BY DEF MigrIInv
  <1>2. MigrTypes'
    BY <1>1 DEF Migr!Contents
  <1>3. MoveUnderWay'
    BY <1>1 DEF MoveUnderWay, Migr!Left
  <1>4. MovedSoFar'
    BY <1>1 DEF MovedSoFar, MoveUnderWay, Migr!Left
  <1>5. NewDirsKnown'
    BY <1>1 DEF NewDirsKnown, MoveUnderWay, Migr!Left
  <1>6. PastIsMoved'
    BY <1>1 DEF PastIsMoved, Past, MoveUnderWay, MovedSoFar, Migr!Left
  <1>7. ConfigIsMoved'
    BY <1>1 DEF ConfigIsMoved, MoveUnderWay, MovedSoFar, NewDirsKnown, Migr!Left
  <1>8. UncutIsWhole'
    BY <1>1 DEF UncutIsWhole, ConfigIsMoved, MoveUnderWay, MovedSoFar, NewDirsKnown, Migr!Left
  <1>9. Migr!NothingLost'
    BY <1>1 DEF Migr!NothingLost, MoveUnderWay, MovedSoFar, NewDirsKnown, ConfigIsMoved, Migr!Left
  <1> QED BY <1>2, <1>3, <1>4, <1>5, <1>6, <1>7, <1>8, <1>9 DEF MigrIInv

LEMMA RemoveTreeKeeps ==
  ASSUME MigrIInv, Migr!RemoveTree
  PROVE  MigrIInv'
PROOF
  <1> USE DirsAndEntries DEF MigrTypes, Migr!RemoveTree, Migr!TreeCopied,
              Migr!files, Migr!bounds
  <1>1. /\ MigrTypes /\ MoveUnderWay /\ MovedSoFar /\ NewDirsKnown /\ PastIsMoved
        /\ ConfigIsMoved /\ UncutIsWhole /\ Migr!NothingLost
    BY DEF MigrIInv
  <1>2. MigrTypes'
    BY <1>1 DEF Migr!Contents
  <1>3. MoveUnderWay'
    BY <1>1 DEF MoveUnderWay, Migr!Left
  <1>4. MovedSoFar'
    BY <1>1 DEF MovedSoFar, MoveUnderWay, Migr!Left
  <1>5. NewDirsKnown'
    BY <1>1 DEF NewDirsKnown, MoveUnderWay, Migr!Left
  <1>6. PastIsMoved'
    BY <1>1 DEF PastIsMoved, Past, MoveUnderWay, MovedSoFar, Migr!Left
  <1>7. ConfigIsMoved'
    BY <1>1 DEF ConfigIsMoved, MoveUnderWay, MovedSoFar, NewDirsKnown, Migr!Left
  <1>8. UncutIsWhole'
    BY <1>1 DEF UncutIsWhole, ConfigIsMoved, MoveUnderWay, MovedSoFar, NewDirsKnown, Migr!Left
  <1>9. Migr!NothingLost'
    BY <1>1 DEF Migr!NothingLost, MoveUnderWay, MovedSoFar, NewDirsKnown, ConfigIsMoved, Migr!Left
  <1> QED BY <1>2, <1>3, <1>4, <1>5, <1>6, <1>7, <1>8, <1>9 DEF MigrIInv

LEMMA EndDirKeeps ==
  ASSUME MigrIInv, Migr!EndDir
  PROVE  MigrIInv'
PROOF
  <1> USE DirsAndEntries DEF MigrTypes, Migr!EndDir,
              Migr!files, Migr!bounds
  <1>1. /\ MigrTypes /\ MoveUnderWay /\ MovedSoFar /\ NewDirsKnown /\ PastIsMoved
        /\ ConfigIsMoved /\ UncutIsWhole /\ Migr!NothingLost
    BY DEF MigrIInv
  <1>2. MigrTypes'
    <2>1. phase \in Migr!Dirs
      BY <1>1 DEF MoveUnderWay
    <2>2. phase' \in Migr!Dirs \cup {"rewrite"}
      BY <2>1
    <2> QED BY <1>1, <2>2 DEF Migr!Contents
  <1>3. MoveUnderWay'
    BY <1>1 DEF MoveUnderWay, Migr!Left
  <1>4. MovedSoFar'
    BY <1>1 DEF MovedSoFar, MoveUnderWay, Migr!Left
  <1>5. NewDirsKnown'
    BY <1>1 DEF NewDirsKnown, MoveUnderWay, Migr!Left
  <1>6. PastIsMoved'
    BY <1>1 DEF PastIsMoved, Past, MoveUnderWay, MovedSoFar, Migr!Left
  <1>7. ConfigIsMoved'
    BY <1>1 DEF ConfigIsMoved, MoveUnderWay, MovedSoFar, NewDirsKnown, Migr!Left
  <1>8. UncutIsWhole'
    BY <1>1 DEF UncutIsWhole, ConfigIsMoved, MoveUnderWay, MovedSoFar, NewDirsKnown, Migr!Left
  <1>9. Migr!NothingLost'
    BY <1>1 DEF Migr!NothingLost, MoveUnderWay, MovedSoFar, NewDirsKnown, ConfigIsMoved, Migr!Left
  <1> QED BY <1>2, <1>3, <1>4, <1>5, <1>6, <1>7, <1>8, <1>9 DEF MigrIInv

LEMMA OpenTmpKeeps ==
  ASSUME MigrIInv, Migr!OpenTmp
  PROVE  MigrIInv'
PROOF
  <1> USE DirsAndEntries DEF MigrTypes, Migr!OpenTmp, Migr!Rewrites, Migr!Rewritten,
              Migr!files, Migr!bounds
  <1>1. /\ MigrTypes /\ MoveUnderWay /\ MovedSoFar /\ NewDirsKnown /\ PastIsMoved
        /\ ConfigIsMoved /\ UncutIsWhole /\ Migr!NothingLost
    BY DEF MigrIInv
  <1>2. MigrTypes'
    BY <1>1 DEF Migr!Contents
  <1>3. MoveUnderWay'
    BY <1>1 DEF MoveUnderWay, Migr!Left
  <1>4. MovedSoFar'
    BY <1>1 DEF MovedSoFar, MoveUnderWay, Migr!Left
  <1>5. NewDirsKnown'
    BY <1>1 DEF NewDirsKnown, MoveUnderWay, Migr!Left
  <1>6. PastIsMoved'
    BY <1>1 DEF PastIsMoved, Past, MoveUnderWay, MovedSoFar, Migr!Left
  <1>7. ConfigIsMoved'
    BY <1>1 DEF ConfigIsMoved, MoveUnderWay, MovedSoFar, NewDirsKnown, Migr!Left
  <1>8. UncutIsWhole'
    BY <1>1 DEF UncutIsWhole, ConfigIsMoved, MoveUnderWay, MovedSoFar, NewDirsKnown, Migr!Left
  <1>9. Migr!NothingLost'
    BY <1>1 DEF Migr!NothingLost, MoveUnderWay, MovedSoFar, NewDirsKnown, ConfigIsMoved, Migr!Left
  <1> QED BY <1>2, <1>3, <1>4, <1>5, <1>6, <1>7, <1>8, <1>9 DEF MigrIInv

LEMMA WriteTmpKeeps ==
  ASSUME MigrIInv, Migr!WriteTmp
  PROVE  MigrIInv'
PROOF
  <1> USE DirsAndEntries DEF MigrTypes, Migr!WriteTmp, Migr!Rewritten,
              Migr!files, Migr!bounds
  <1>1. /\ MigrTypes /\ MoveUnderWay /\ MovedSoFar /\ NewDirsKnown /\ PastIsMoved
        /\ ConfigIsMoved /\ UncutIsWhole /\ Migr!NothingLost
    BY DEF MigrIInv
  <1>2. MigrTypes'
    BY <1>1 DEF Migr!Contents
  <1>3. MoveUnderWay'
    BY <1>1 DEF MoveUnderWay, Migr!Left
  <1>4. MovedSoFar'
    BY <1>1 DEF MovedSoFar, MoveUnderWay, Migr!Left
  <1>5. NewDirsKnown'
    BY <1>1 DEF NewDirsKnown, MoveUnderWay, Migr!Left
  <1>6. PastIsMoved'
    BY <1>1 DEF PastIsMoved, Past, MoveUnderWay, MovedSoFar, Migr!Left
  <1>7. ConfigIsMoved'
    BY <1>1 DEF ConfigIsMoved, MoveUnderWay, MovedSoFar, NewDirsKnown, Migr!Left
  <1>8. UncutIsWhole'
    BY <1>1 DEF UncutIsWhole, ConfigIsMoved, MoveUnderWay, MovedSoFar, NewDirsKnown, Migr!Left
  <1>9. Migr!NothingLost'
    BY <1>1 DEF Migr!NothingLost, MoveUnderWay, MovedSoFar, NewDirsKnown, ConfigIsMoved, Migr!Left
  <1> QED BY <1>2, <1>3, <1>4, <1>5, <1>6, <1>7, <1>8, <1>9 DEF MigrIInv

LEMMA ReplaceKeeps ==
  ASSUME MigrIInv, Migr!Replace
  PROVE  MigrIInv'
PROOF
  <1> USE DirsAndEntries DEF MigrTypes, Migr!Replace,
              Migr!files, Migr!bounds
  <1>1. /\ MigrTypes /\ MoveUnderWay /\ MovedSoFar /\ NewDirsKnown /\ PastIsMoved
        /\ ConfigIsMoved /\ UncutIsWhole /\ Migr!NothingLost
    BY DEF MigrIInv
  <1>2. MigrTypes'
    BY <1>1 DEF Migr!Contents
  <1>3. MoveUnderWay'
    BY <1>1 DEF MoveUnderWay, Migr!Left
  <1>4. MovedSoFar'
    BY <1>1 DEF MovedSoFar, MoveUnderWay, Migr!Left
  <1>5. NewDirsKnown'
    <2>1. \A e \in Migr!Entries : new'[e] = IF e = "config.toml" THEN "rewritten" ELSE new[e]
      BY <1>1 DEF ConfigIsMoved
    <2>2. new["config.toml"] # "none"
      BY <1>1 DEF ConfigIsMoved
    <2> QED BY <1>1, <2>1, <2>2 DEF NewDirsKnown
  <1>6. PastIsMoved'
    <2>1. \A e \in Migr!Entries : new'[e] = IF e = "config.toml" THEN "rewritten" ELSE new[e]
      BY <1>1 DEF ConfigIsMoved
    <2>2. new["config.toml"] # "none"
      BY <1>1 DEF ConfigIsMoved
    <2> QED BY <1>1, <2>1, <2>2 DEF PastIsMoved, Past
  <1>7. ConfigIsMoved'
    BY <1>1 DEF ConfigIsMoved, MoveUnderWay, MovedSoFar, NewDirsKnown, Migr!Left
  <1>8. UncutIsWhole'
    BY <1>1 DEF UncutIsWhole, ConfigIsMoved, MoveUnderWay, MovedSoFar, NewDirsKnown, Migr!Left
  <1>9. Migr!NothingLost'
    BY <1>1 DEF Migr!NothingLost, MoveUnderWay, MovedSoFar, NewDirsKnown, ConfigIsMoved, Migr!Left
  <1> QED BY <1>2, <1>3, <1>4, <1>5, <1>6, <1>7, <1>8, <1>9 DEF MigrIInv

LEMMA EndMigrationKeeps ==
  ASSUME MigrIInv, Migr!EndMigration
  PROVE  MigrIInv'
PROOF
  <1> USE DirsAndEntries DEF MigrTypes, Migr!EndMigration, Migr!Rewrites, Migr!Rewritten,
              Migr!files, Migr!bounds
  <1>1. /\ MigrTypes /\ MoveUnderWay /\ MovedSoFar /\ NewDirsKnown /\ PastIsMoved
        /\ ConfigIsMoved /\ UncutIsWhole /\ Migr!NothingLost
    BY DEF MigrIInv
  <1>2. MigrTypes'
    BY <1>1 DEF Migr!Contents
  <1>3. MoveUnderWay'
    BY <1>1 DEF MoveUnderWay, Migr!Left
  <1>4. MovedSoFar'
    BY <1>1 DEF MovedSoFar, MoveUnderWay, Migr!Left
  <1>5. NewDirsKnown'
    BY <1>1 DEF NewDirsKnown, MoveUnderWay, Migr!Left
  <1>6. PastIsMoved'
    BY <1>1 DEF PastIsMoved, Past, MoveUnderWay, MovedSoFar, Migr!Left
  <1>7. ConfigIsMoved'
    BY <1>1 DEF ConfigIsMoved, MoveUnderWay, MovedSoFar, NewDirsKnown, Migr!Left
  <1>8. UncutIsWhole'
    BY <1>1 DEF UncutIsWhole, ConfigIsMoved, MoveUnderWay, MovedSoFar, NewDirsKnown, Migr!Left
  <1>9. Migr!NothingLost'
    BY <1>1 DEF Migr!NothingLost, MoveUnderWay, MovedSoFar, NewDirsKnown, ConfigIsMoved, Migr!Left
  <1> QED BY <1>2, <1>3, <1>4, <1>5, <1>6, <1>7, <1>8, <1>9 DEF MigrIInv

LEMMA CutOffKeeps ==
  ASSUME MigrIInv, Migr!CutOff
  PROVE  MigrIInv'
PROOF
  <1> USE DirsAndEntries DEF MigrTypes, Migr!CutOff, Migr!TreeCopied,
              Migr!files, Migr!bounds
  <1>1. /\ MigrTypes /\ MoveUnderWay /\ MovedSoFar /\ NewDirsKnown /\ PastIsMoved
        /\ ConfigIsMoved /\ UncutIsWhole /\ Migr!NothingLost
    BY DEF MigrIInv
  <1>2. MigrTypes'
    BY <1>1 DEF Migr!Contents
  <1>3. MoveUnderWay'
    BY <1>1 DEF MoveUnderWay, Migr!Left
  <1>4. MovedSoFar'
    BY <1>1 DEF MovedSoFar, MoveUnderWay, Migr!Left
  <1>5. NewDirsKnown'
    BY <1>1 DEF NewDirsKnown, MoveUnderWay, Migr!Left
  <1>6. PastIsMoved'
    BY <1>1 DEF PastIsMoved, Past, MoveUnderWay, MovedSoFar, Migr!Left
  <1>7. ConfigIsMoved'
    BY <1>1 DEF ConfigIsMoved, MoveUnderWay, MovedSoFar, NewDirsKnown, Migr!Left
  <1>8. UncutIsWhole'
    BY <1>1 DEF UncutIsWhole, ConfigIsMoved, MoveUnderWay, MovedSoFar, NewDirsKnown, Migr!Left
  <1>9. Migr!NothingLost'
    BY <1>1 DEF Migr!NothingLost, MoveUnderWay, MovedSoFar, NewDirsKnown, ConfigIsMoved, Migr!Left
  <1> QED BY <1>2, <1>3, <1>4, <1>5, <1>6, <1>7, <1>8, <1>9 DEF MigrIInv

LEMMA WoysStartsKeeps ==
  ASSUME MigrIInv, Migr!WoysStarts
  PROVE  MigrIInv'
PROOF
  <1> USE DirsAndEntries DEF MigrTypes, Migr!WoysStarts,
              Migr!files, Migr!bounds
  <1>1. /\ MigrTypes /\ MoveUnderWay /\ MovedSoFar /\ NewDirsKnown /\ PastIsMoved
        /\ ConfigIsMoved /\ UncutIsWhole /\ Migr!NothingLost
    BY DEF MigrIInv
  <1>2. MigrTypes'
    BY <1>1 DEF Migr!Contents
  <1>3. MoveUnderWay'
    BY <1>1 DEF MoveUnderWay, Migr!Left
  <1>4. MovedSoFar'
    BY <1>1 DEF MovedSoFar, MoveUnderWay, Migr!Left
  <1>5. NewDirsKnown'
    BY <1>1 DEF NewDirsKnown, MoveUnderWay, Migr!Left
  <1>6. PastIsMoved'
    BY <1>1 DEF PastIsMoved, Past, MoveUnderWay, MovedSoFar, Migr!Left
  <1>7. ConfigIsMoved'
    BY <1>1 DEF ConfigIsMoved, MoveUnderWay, MovedSoFar, NewDirsKnown, Migr!Left
  <1>8. UncutIsWhole'
    BY <1>1 DEF UncutIsWhole, ConfigIsMoved, MoveUnderWay, MovedSoFar, NewDirsKnown, Migr!Left
  <1>9. Migr!NothingLost'
    BY <1>1 DEF Migr!NothingLost, MoveUnderWay, MovedSoFar, NewDirsKnown, ConfigIsMoved, Migr!Left
  <1> QED BY <1>2, <1>3, <1>4, <1>5, <1>6, <1>7, <1>8, <1>9 DEF MigrIInv

LEMMA UserEditsKeeps ==
  ASSUME MigrIInv, Migr!UserEdits
  PROVE  MigrIInv'
PROOF
  <1> USE DirsAndEntries DEF MigrTypes, Migr!UserEdits,
              Migr!files, Migr!bounds
  <1>1. /\ MigrTypes /\ MoveUnderWay /\ MovedSoFar /\ NewDirsKnown /\ PastIsMoved
        /\ ConfigIsMoved /\ UncutIsWhole /\ Migr!NothingLost
    BY DEF MigrIInv
  <1>2. MigrTypes'
    BY <1>1 DEF Migr!Contents
  <1>3. MoveUnderWay'
    BY <1>1 DEF MoveUnderWay, Migr!Left
  <1>4. MovedSoFar'
    BY <1>1 DEF MovedSoFar, MoveUnderWay, Migr!Left
  <1>5. NewDirsKnown'
    BY <1>1 DEF NewDirsKnown, MoveUnderWay, Migr!Left
  <1>6. PastIsMoved'
    BY <1>1 DEF PastIsMoved, Past, MoveUnderWay, MovedSoFar, Migr!Left
  <1>7. ConfigIsMoved'
    BY <1>1 DEF ConfigIsMoved, MoveUnderWay, MovedSoFar, NewDirsKnown, Migr!Left
  <1>8. UncutIsWhole'
    BY <1>1 DEF UncutIsWhole, ConfigIsMoved, MoveUnderWay, MovedSoFar, NewDirsKnown, Migr!Left
  <1>9. Migr!NothingLost'
    BY <1>1 DEF Migr!NothingLost, MoveUnderWay, MovedSoFar, NewDirsKnown, ConfigIsMoved, Migr!Left
  <1> QED BY <1>2, <1>3, <1>4, <1>5, <1>6, <1>7, <1>8, <1>9 DEF MigrIInv

LEMMA MigrationBegins ==
  ASSUME Migr!MigrationInit
  PROVE  MigrIInv
PROOF
  <1> USE DirsAndEntries DEF Migr!MigrationInit
  <1>1. PICK own \in SUBSET Migr!Entries : new = [e \in Migr!Entries |-> IF e \in own THEN "own" ELSE "none"]
    OBVIOUS
  <1>2. MigrTypes
    <2>1. links \subseteq Migr!Dirs /\ newDir \subseteq Migr!Dirs
      <3> DEFINE D == {d \in Migr!Dirs : \E e \in Migr!In[d] : new[e] = "own"}
      <3>1. links \in SUBSET Migr!Dirs /\ newDir \in {D \cup s : s \in {{}, links}}
        BY DEF Migr!MigrationInit
      <3>2. D \subseteq Migr!Dirs
        OBVIOUS
      <3>3. PICK s \in {{}, links} : newDir = D \cup s
        BY <3>1, Zenon
      <3>4. s \subseteq Migr!Dirs
        BY <3>1
      <3> HIDE DEF D
      <3>5. newDir \subseteq Migr!Dirs
        BY <3>2, <3>3, <3>4, Zenon
      <3> QED BY <3>1, <3>5
    <2>2. new \in [Migr!Entries -> Migr!Contents]
      BY <1>1 DEF Migr!Contents
    <2> QED BY <2>1, <2>2 DEF MigrTypes
  <1>3. MoveUnderWay /\ MovedSoFar /\ PastIsMoved /\ ConfigIsMoved
    BY DEF MoveUnderWay, MovedSoFar, PastIsMoved, Past, ConfigIsMoved
  <1>4. NewDirsKnown
    BY <1>1 DEF NewDirsKnown
  <1>5. UncutIsWhole
    BY <1>1 DEF UncutIsWhole
  <1>6. Migr!NothingLost
    BY DEF Migr!NothingLost
  <1> QED BY <1>2, <1>3, <1>4, <1>5, <1>6 DEF MigrIInv

LEMMA MigrationStep ==
  ASSUME MigrIInv, [Migr!MigrationNext]_Migr!migrationVars
  PROVE  MigrIInv'
PROOF
  <1>1. CASE UNCHANGED Migr!migrationVars
    BY <1>1 DEF Migr!migrationVars, MigrIInv, MigrTypes, MoveUnderWay, MovedSoFar, NewDirsKnown,
                PastIsMoved, Past, ConfigIsMoved, UncutIsWhole, Migr!NothingLost, Migr!Left
  <1> QED BY <1>1, BeginMigrationKeeps, StopUnitKeeps, BeginDirKeeps, MoveEntryKeeps, CopyEndsKeeps,
             RemoveCopiedKeeps, RemoveTreeKeeps, EndDirKeeps, OpenTmpKeeps, WriteTmpKeeps,
             ReplaceKeeps, EndMigrationKeeps, CutOffKeeps, WoysStartsKeeps, UserEditsKeeps DEF Migr!MigrationNext

\* No step of the migration, nor of woys, writes over a file that woys has made
\* or that the user has changed since.
LEMMA OwnStaysStep ==
  ASSUME MigrIInv, [Migr!MigrationNext]_Migr!migrationVars, NEW e \in Migr!Entries,
         new[e] \in {"own", "edited"}
  PROVE  new'[e] = new[e]
PROOF
  <1> USE DirsAndEntries DEF MigrTypes, Migr!files, Migr!bounds
  <1>0. MigrTypes /\ MoveUnderWay /\ MovedSoFar /\ NewDirsKnown /\ ConfigIsMoved
    BY DEF MigrIInv
  <1>1. CASE Migr!BeginDir
    BY <1>0, <1>1 DEF Migr!BeginDir, Migr!Moving, MoveUnderWay, MovedSoFar, NewDirsKnown, ConfigIsMoved, Migr!Left
  <1>2. CASE Migr!MoveEntry
    BY <1>0, <1>2 DEF Migr!MoveEntry, Migr!Moving, Migr!Keeps, Migr!Renames, Migr!Copies, Migr!InTheWay, MoveUnderWay, MovedSoFar, NewDirsKnown, ConfigIsMoved, Migr!Left
  <1>3. CASE Migr!CopyEnds
    BY <1>0, <1>3 DEF Migr!CopyEnds, Migr!Copied, MoveUnderWay, MovedSoFar, NewDirsKnown, ConfigIsMoved, Migr!Left
  <1>4. CASE Migr!Replace
    BY <1>0, <1>4 DEF Migr!Replace, MoveUnderWay, MovedSoFar, NewDirsKnown, ConfigIsMoved, Migr!Left
  <1>5. CASE Migr!WoysStarts
    BY <1>0, <1>5 DEF Migr!WoysStarts, MoveUnderWay, MovedSoFar, NewDirsKnown, ConfigIsMoved, Migr!Left
  <1>6. CASE Migr!UserEdits
    BY <1>0, <1>6 DEF Migr!UserEdits, MoveUnderWay, MovedSoFar, NewDirsKnown, ConfigIsMoved, Migr!Left
  <1>7. CASE Migr!BeginMigration \/ Migr!StopUnit \/ Migr!RemoveCopied \/ Migr!RemoveTree \/ Migr!EndDir
             \/ Migr!OpenTmp \/ Migr!WriteTmp \/ Migr!EndMigration \/ Migr!CutOff
             \/ UNCHANGED Migr!migrationVars
    BY <1>7 DEF Migr!BeginMigration, Migr!StopUnit, Migr!RemoveCopied, Migr!RemoveTree, Migr!EndDir,
                Migr!OpenTmp, Migr!WriteTmp, Migr!EndMigration, Migr!CutOff, Migr!migrationVars
  <1> QED BY <1>1, <1>2, <1>3, <1>4, <1>5, <1>6, <1>7 DEF Migr!MigrationNext

\* However often the migration is cut off, wherever, and however woys and the
\* user come in between: each of the user's files is whole under one of its two
\* names; a run that comes to its end leaves under the old names only what is in
\* the way; and what woys has made or the user changed is never written over.
LEMMA MigrationKeepsSafe == Migr!MigrationSpec => Migr!MigrationSafe
PROOF
  <1>1. Migr!MigrationInit => MigrIInv
    BY MigrationBegins
  <1>2. MigrIInv /\ [Migr!MigrationNext]_Migr!migrationVars => MigrIInv'
    BY MigrationStep
  <1>3. MigrIInv => Migr!MigrationInv
    <2> USE DirsAndEntries
    <2>1. MigrIInv => Migr!MigrationTypeOK
      BY DEF MigrIInv, MigrTypes, Migr!MigrationTypeOK, Migr!Contents
    <2>2. MigrIInv => Migr!CompleteIsMoved
      BY DEF MigrIInv, MigrTypes, PastIsMoved, Past, UncutIsWhole, MoveUnderWay, Migr!CompleteIsMoved
    <2> QED BY <2>1, <2>2 DEF MigrIInv, Migr!MigrationInv
  <1>4. MigrIInv /\ [Migr!MigrationNext]_Migr!migrationVars
        => [\A e \in Migr!Entries : new[e] \in {"own", "edited"} => new'[e] = new[e]]_Migr!migrationVars
    BY OwnStaysStep
  <1> QED BY <1>1, <1>2, <1>3, <1>4, PTL DEF Migr!MigrationSpec, Migr!MigrationSafe, Migr!OwnStays

-----------------------------------------------------------------------------
(* The cache of sessions.                                                  *)

\* The instance counts as this module does.
LEMMA SameCounting ==
  ASSUME NEW S
  PROVE  (Pool!IsFiniteSet(S) <=> IsFiniteSet(S)) /\ Pool!Cardinality(S) = Cardinality(S)
PROOF
  <1>1. Pool!IsFiniteSet(S) <=> IsFiniteSet(S)
    BY DEF Pool!IsFiniteSet, IsFiniteSet
  <1>2. Pool!Cardinality(S) = Cardinality(S)
    BY DEF Pool!Cardinality, Cardinality
  <1> QED BY <1>1, <1>2

LEMMA MinIsLeast ==
  ASSUME NEW S \in SUBSET Nat, S # {}
  PROVE  Pool!Min(S) \in S
PROOF
  <1>1. \E n \in S : \A k \in S : n <= k
    BY LeastNumber
  <1> QED BY <1>1 DEF Pool!Min

\* No member of a sequence occurs twice.
Distinct(s) == \A i, j \in 1 .. Len(s) : s[i] = s[j] => i = j

LEMMA DistinctCounted ==
  ASSUME NEW s \in Seq(Paths), Distinct(s)
  PROVE  IsFiniteSet(Pool!ToSet(s)) /\ Cardinality(Pool!ToSet(s)) = Len(s)
PROOF
  <1> DEFINE R == Pool!ToSet(s)
  <1>1. R = {s[i] : i \in 1 .. Len(s)}
    BY DEF Pool!ToSet
  <1>2. s \in [1 .. Len(s) -> R] /\ \A x \in R : \E i \in 1 .. Len(s) : s[i] = x
    BY <1>1
  <1>3. s \in Bijection(1 .. Len(s), R)
    <2>1. \A i, j \in 1 .. Len(s) : s[i] = s[j] => i = j
      BY DEF Distinct
    <2> QED BY <1>2, <2>1, Zenon DEF Bijection, Injection, Surjection, IsInjective
  <1>4. ExistsBijection(1 .. Len(s), R)
    BY <1>3 DEF ExistsBijection
  <1>5. IsFiniteSet(1 .. Len(s)) /\ Cardinality(1 .. Len(s)) = Len(s)
    <2>1. Len(s) \in Nat
      OBVIOUS
    <2> QED BY <2>1, FS_Interval
  <1> HIDE DEF R
  <1> QED BY <1>4, <1>5, FS_Bijection DEF R

\* A member that is used moves to the end; the others keep their order.
LEMMA MovedToEnd ==
  ASSUME NEW s \in Seq(Paths), Distinct(s), NEW p \in Pool!ToSet(s),
         NEW t, t = Append(Pool!RemoveFirst(s, p), p)
  PROVE  t \in Seq(Paths) /\ Len(t) = Len(s) /\ Distinct(t) /\ Pool!ToSet(t) = Pool!ToSet(s)
PROOF
  <1>1. PICK i \in 1 .. Len(s) : s[i] = p
    BY DEF Pool!ToSet
  <1>2. {k \in 1 .. Len(s) : s[k] = p} = {i}
    BY <1>1 DEF Distinct
  <1>3. Pool!Min({i}) = i
    BY <1>1 DEF Pool!Min
  <1>4. Pool!RemoveFirst(s, p) = SubSeq(s, 1, i - 1) \o SubSeq(s, i + 1, Len(s))
    <2>1. \E k \in 1 .. Len(s) : s[k] = p
      BY <1>1
    <2>2. Pool!SelectInSeq(s, LAMBDA v : v = p) = i
      BY <1>2, <1>3 DEF Pool!SelectInSeq
    <2> QED BY <2>1, <2>2 DEF Pool!RemoveFirst, Pool!RemoveAt
  <1> DEFINE n == Len(s)
             r == Pool!RemoveFirst(s, p)
  <1>5. n \in Nat /\ i \in 1 .. n /\ s \in [1 .. n -> Paths] /\ p \in Paths
    BY <1>1
  <1>6. /\ r \in Seq(Paths) /\ Len(r) = n - 1
        /\ \A k \in 1 .. n - 1 : r[k] = IF k < i THEN s[k] ELSE s[k + 1]
    <2> DEFINE a == SubSeq(s, 1, i - 1)
               b == SubSeq(s, i + 1, n)
    <2>0. Len(s) \in Nat /\ i \in 1 .. Len(s)
      OBVIOUS
    <2>1. a \in Seq(Paths) /\ Len(a) = i - 1 /\ \A k \in 1 .. Len(a) : a[k] = s[k]
      BY <2>0
    <2>2. b \in Seq(Paths) /\ Len(b) = n - i /\ \A k \in 1 .. Len(b) : b[k] = s[i + k]
      BY <2>0
    <2>3. r = a \o b
      BY <1>4
    <2> HIDE DEF a, b, r, n
    <2>4. r \in Seq(Paths) /\ Len(r) = Len(a) + Len(b)
          /\ \A k \in 1 .. Len(r) : r[k] = IF k <= Len(a) THEN a[k] ELSE b[k - Len(a)]
      BY <2>1, <2>2, <2>3
    <2>5. ASSUME NEW k \in 1 .. n - 1 PROVE r[k] = IF k < i THEN s[k] ELSE s[k + 1]
      <3>1. CASE k < i
        BY <1>5, <2>1, <2>2, <2>4, <3>1
      <3>2. CASE k >= i
        <4>1. k - Len(a) \in 1 .. Len(b) /\ k > Len(a) /\ k \in 1 .. Len(r)
          BY <1>5, <2>1, <2>2, <2>4, <3>2
        <4>2. r[k] = b[k - Len(a)]
          BY <1>5, <2>1, <2>2, <2>4, <4>1
        <4>3. i + (k - Len(a)) = k + 1
          BY <1>5, <2>1
        <4> QED BY <1>5, <2>2, <3>2, <4>1, <4>2, <4>3
      <3> QED BY <1>5, <3>1, <3>2
    <2> QED BY <1>5, <2>1, <2>2, <2>4, <2>5
  <1>7. t = Append(r, p)
    OBVIOUS
  <1> HIDE DEF r, n
  <1>8. t \in Seq(Paths) /\ Len(t) = n /\ t[n] = p /\ \A k \in 1 .. n - 1 : t[k] = r[k]
    BY <1>5, <1>6, <1>7
  <1>10. /\ t \in Seq(Paths) /\ Len(t) = n
         /\ \A k \in 1 .. n : t[k] = IF k < i THEN s[k] ELSE IF k < n THEN s[k + 1] ELSE s[i]
    <2>1. ASSUME NEW k \in 1 .. n
          PROVE  t[k] = IF k < i THEN s[k] ELSE IF k < n THEN s[k + 1] ELSE s[i]
      <3>1. CASE k = n
        BY <1>1, <1>5, <1>8, <3>1
      <3>2. CASE k # n
        <4>1. k \in 1 .. n - 1
          BY <1>5, <3>2
        <4> QED BY <1>5, <1>6, <1>8, <4>1
      <3> QED BY <3>1, <3>2
    <2> QED BY <1>8, <2>1
  <1> DEFINE From(k) == IF k < i THEN k ELSE IF k < n THEN k + 1 ELSE i
  <1>11. \A k \in 1 .. n : From(k) \in 1 .. n /\ t[k] = s[From(k)]
    BY <1>5, <1>10
  <1>12. \A k, l \in 1 .. n : From(k) = From(l) => k = l
    BY <1>5
  <1>13. \A l \in 1 .. n : \E k \in 1 .. n : From(k) = l
    <2> TAKE l \in 1 .. n
    <2>1. CASE l < i
      BY <1>5, <2>1
    <2>2. CASE l = i
      BY <1>5, <2>2
    <2>3. CASE l > i
      <3>1. l - 1 \in 1 .. n /\ From(l - 1) = l
        BY <1>5, <2>3
      <3> QED BY <3>1
    <2> QED BY <1>5, <2>1, <2>2, <2>3
  <1> HIDE DEF From
  <1>14. Distinct(t)
    BY <1>5, <1>10, <1>11, <1>12 DEF Distinct, n
  <1>15. Pool!ToSet(t) = Pool!ToSet(s)
    <2>1. Pool!ToSet(t) = {t[k] : k \in 1 .. n} /\ Pool!ToSet(s) = {s[k] : k \in 1 .. n}
      BY <1>5, <1>10 DEF Pool!ToSet
    <2>2. \A k \in 1 .. n : \E l \in 1 .. n : t[k] = s[l]
      BY <1>11
    <2>3. \A l \in 1 .. n : \E k \in 1 .. n : t[k] = s[l]
      BY <1>11, <1>13
    <2>4. \A x \in {t[k] : k \in 1 .. n} : x \in {s[k] : k \in 1 .. n}
      <3> TAKE x \in {t[k] : k \in 1 .. n}
      <3>1. PICK k \in 1 .. n : x = t[k]
        OBVIOUS
      <3> QED BY <2>2, <3>1
    <2>5. \A x \in {s[k] : k \in 1 .. n} : x \in {t[k] : k \in 1 .. n}
      <3> TAKE x \in {s[k] : k \in 1 .. n}
      <3>1. PICK l \in 1 .. n : x = s[l]
        OBVIOUS
      <3>2. PICK k \in 1 .. n : t[k] = s[l]
        BY <2>3
      <3> QED BY <3>1, <3>2
    <2> QED BY <2>1, <2>4, <2>5
  <1> QED BY <1>10, <1>14, <1>15 DEF n

\* The last of the models of a list without repetition that are kept.
LEMMA NewestKept ==
  ASSUME Pool!PoolAssumption, NEW s \in Seq(Paths), Distinct(s)
  PROVE  /\ Pool!Kept(s) \in Seq(Paths) /\ Distinct(Pool!Kept(s)) /\ Len(Pool!Kept(s)) <= PoolSize
         /\ Len(s) <= PoolSize => Pool!Kept(s) = s
         /\ Pool!ToSet(Pool!Kept(s)) \subseteq Pool!ToSet(s)
PROOF
  <1>1. PoolSize \in Nat \ {0} /\ Len(s) \in Nat
    BY DEF Pool!PoolAssumption
  <1>2. CASE Len(s) <= PoolSize
    BY <1>1, <1>2 DEF Pool!Kept
  <1>3. CASE Len(s) > PoolSize
    <2> DEFINE d == Len(s) - PoolSize
               t == SubSeq(s, d + 1, Len(s))
    <2>1. d \in Nat /\ Len(s) = d + PoolSize
      BY <1>1, <1>3
    <2>2. t \in Seq(Paths) /\ Len(t) = PoolSize /\ \A k \in 1 .. Len(t) : t[k] = s[d + k]
      <3>1. Len(s) \in Int /\ d + 1 \in Int /\ \A k \in d + 1 .. Len(s) : s[k] \in Paths
        BY <1>1, <2>1
      <3> HIDE DEF d
      <3>2. /\ t \in Seq(Paths) /\ Len(t) = IF d + 1 <= Len(s) THEN Len(s) - (d + 1) + 1 ELSE 0
            /\ \A k \in 1 .. Len(s) - (d + 1) + 1 : t[k] = s[d + 1 + k - 1]
        BY <3>1, SubSeqProperties
      <3> QED BY <1>1, <2>1, <3>2
    <2>3. Pool!Kept(s) = t
      BY <1>3 DEF Pool!Kept
    <2> HIDE DEF t, d
    <2>4. Distinct(t)
      <3>1. ASSUME NEW k \in 1 .. Len(t), NEW l \in 1 .. Len(t), t[k] = t[l] PROVE k = l
        <4>1. d + k \in 1 .. Len(s) /\ d + l \in 1 .. Len(s)
          BY <1>1, <2>1, <2>2
        <4>2. d + k = d + l
          BY <2>2, <3>1, <4>1 DEF Distinct
        <4> QED BY <2>1, <4>2
      <3> QED BY <3>1 DEF Distinct
    <2>5. Pool!ToSet(t) \subseteq Pool!ToSet(s)
      <3>1. ASSUME NEW x \in Pool!ToSet(t) PROVE x \in Pool!ToSet(s)
        <4>1. PICK k \in 1 .. Len(t) : x = t[k]
          BY <2>2 DEF Pool!ToSet
        <4>2. d + k \in 1 .. Len(s) /\ x = s[d + k]
          BY <1>1, <2>1, <2>2, <4>1
        <4> QED BY <4>2 DEF Pool!ToSet
      <3> QED BY <3>1
    <2> QED BY <1>1, <1>3, <2>2, <2>3, <2>4, <2>5
  <1> QED BY <1>1, <1>2, <1>3

\* A model that was not in the list is appended.
LEMMA Appended ==
  ASSUME NEW s \in Seq(Paths), Distinct(s), NEW p \in Paths \ Pool!ToSet(s), NEW t, t = Append(s, p)
  PROVE  t \in Seq(Paths) /\ Distinct(t) /\ Pool!ToSet(t) = Pool!ToSet(s) \cup {p}
PROOF
  <1>1. t \in Seq(Paths) /\ Len(t) = Len(s) + 1 /\ t[Len(s) + 1] = p /\ \A k \in 1 .. Len(s) : t[k] = s[k]
    OBVIOUS
  <1>2. Len(s) \in Nat /\ \A k \in 1 .. Len(s) : s[k] # p
    BY DEF Pool!ToSet
  <1>3. Distinct(t)
    BY <1>1, <1>2 DEF Distinct
  <1>4. Pool!ToSet(t) = Pool!ToSet(s) \cup {p}
    <2>1. ASSUME NEW x \in Pool!ToSet(t) PROVE x \in Pool!ToSet(s) \cup {p}
      <3>1. PICK k \in 1 .. Len(t) : x = t[k]
        BY <1>1 DEF Pool!ToSet
      <3>2. CASE k = Len(s) + 1
        BY <1>1, <3>1, <3>2
      <3>3. CASE k # Len(s) + 1
        <4>1. k \in 1 .. Len(s) /\ x = s[k]
          BY <1>1, <1>2, <3>1, <3>3
        <4> QED BY <4>1 DEF Pool!ToSet
      <3> QED BY <3>2, <3>3
    <2>2. ASSUME NEW x \in Pool!ToSet(s) PROVE x \in Pool!ToSet(t)
      <3>1. PICK k \in 1 .. Len(s) : x = s[k]
        BY DEF Pool!ToSet
      <3>2. k \in 1 .. Len(t) /\ x = t[k]
        BY <1>1, <1>2, <3>1
      <3> QED BY <1>1, <3>2 DEF Pool!ToSet
    <2>3. p \in Pool!ToSet(t)
      <3>1. Len(s) + 1 \in 1 .. Len(t)
        BY <1>1, <1>2
      <3> QED BY <1>1, <3>1 DEF Pool!ToSet
    <2> QED BY <2>1, <2>2, <2>3
  <1> QED BY <1>1, <1>3, <1>4

\* The sessions that a thread may refer to do not run on the CPU.
OnGpuOnly == {s \in Pool!Session : s.ep # "cpu"}

\* How far each thread is says what it has: a model while it builds, and the
\* session of that model once it is built.
ThreadsBuild ==
  /\ want \in [Pool!Users -> Paths \cup {NoSession}]
  /\ at \in [Pool!Users -> {"idle", "trt", "cuda", "insert"}]
  /\ made \in [Pool!Users -> OnGpuOnly \cup {NoSession}]
  /\ \A t \in Pool!Users :
       /\ at[t] # "idle" => want[t] \in Paths
       /\ at[t] = "insert" => made[t] # NoSession /\ made[t].path = want[t]
       /\ at[t] # "insert" => made[t] = NoSession
CacheHolds ==
  /\ cache \in [Paths -> OnGpuOnly \cup {NoSession}] /\ rvc \in OnGpuOnly \cup {NoSession}
  /\ \A p \in Pool!Cached : cache[p].path = p
OrderLists ==
  /\ order \in Seq(Paths) /\ Distinct(order) /\ Len(order) <= PoolSize
  /\ Pool!ToSet(order) = Pool!Cached
PoolIInv == ThreadsBuild /\ CacheHolds /\ OrderLists

\* An image of a finite set is finite and no larger.
LEMMA ImageBounded ==
  ASSUME NEW S, IsFiniteSet(S), NEW g
  PROVE  IsFiniteSet({g[x] : x \in S}) /\ Cardinality({g[x] : x \in S}) <= Cardinality(S)
PROOF
  <1> DEFINE T == {g[x] : x \in S}
             h == [x \in S |-> g[x]]
  <1>1. h \in Surjection(S, T)
    BY DEF Surjection
  <1> HIDE DEF T, h
  <1>2. IsFiniteSet(T) /\ Cardinality(T) <= Cardinality(S)
    BY <1>1, FS_Surjection
  <1> QED BY <1>2 DEF T

LEMMA CachedIsFinite ==
  ASSUME Pool!PoolAssumption, PoolIInv
  PROVE  /\ IsFiniteSet(Pool!Cached) /\ Cardinality(Pool!Cached) = Len(order)
         /\ IsFiniteSet(Pool!Users) /\ IsFiniteSet({t \in Pool!Users : at[t] = "insert"})
PROOF
  <1>1. order \in Seq(Paths) /\ Distinct(order) /\ Pool!ToSet(order) = Pool!Cached
    BY DEF PoolIInv, OrderLists
  <1>2. IsFiniteSet(Pool!Cached) /\ Cardinality(Pool!Cached) = Len(order)
    BY <1>1, DistinctCounted
  <1>3. IsFiniteSet(Pool!Users)
    <2>1. IsFiniteSet(Loaders)
      BY SameCounting DEF Pool!PoolAssumption
    <2> QED BY <2>1, FS_AddElement DEF Pool!Users
  <1>4. IsFiniteSet({t \in Pool!Users : at[t] = "insert"})
    BY <1>3, FS_Subset
  <1> QED BY <1>2, <1>3, <1>4

\* What takes memory is in the cache, built, or run.
LEMMA ResidentBounded ==
  ASSUME Pool!PoolAssumption, PoolIInv
  PROVE  IsFiniteSet(Pool!Resident) /\ Pool!Resident \subseteq OnGpuOnly /\ Pool!MemoryBounded
PROOF
  <1> DEFINE B == {t \in Pool!Users : at[t] = "insert"}
             C == {cache[p] : p \in Pool!Cached}
             M == {made[t] : t \in B}
             R == {rvc} \ {NoSession}
  <1>1. IsFiniteSet(Pool!Cached) /\ IsFiniteSet(B)
    BY CachedIsFinite
  <1>2. IsFiniteSet(C) /\ Cardinality(C) <= Cardinality(Pool!Cached)
    BY <1>1, ImageBounded
  <1>3. IsFiniteSet(M) /\ Cardinality(M) <= Cardinality(B)
    BY <1>1, ImageBounded
  <1>4. IsFiniteSet(R) /\ Cardinality(R) <= 1
    <2>1. IsFiniteSet({rvc}) /\ Cardinality({rvc}) = 1
      BY FS_Singleton
    <2> QED BY <2>1, FS_Subset
  <1>5. Pool!Resident = (C \cup M) \cup R
    <2>1. \A p \in Paths : p \in Pool!Cached <=> cache[p] # NoSession
      BY DEF Pool!Cached
    <2>2. \A t \in Pool!Users : t \in B <=> made[t] # NoSession
      BY DEF PoolIInv, ThreadsBuild
    <2>3. Pool!Cached \subseteq Paths /\ B \subseteq Pool!Users
      BY DEF Pool!Cached
    <2> HIDE DEF B
    <2>4. ASSUME NEW s PROVE s \in Pool!Resident <=> s \in (C \cup M) \cup R
      BY <2>1, <2>2, <2>3 DEF Pool!Resident
    <2> QED BY <2>4
  <1>6. Pool!Resident \subseteq OnGpuOnly
    <2>1. \A p \in Paths : cache[p] \in OnGpuOnly \cup {NoSession}
      BY DEF PoolIInv, CacheHolds
    <2>2. \A t \in Pool!Users : made[t] \in OnGpuOnly \cup {NoSession}
      BY DEF PoolIInv, ThreadsBuild
    <2>3. rvc \in OnGpuOnly \cup {NoSession}
      BY DEF PoolIInv, CacheHolds
    <2> QED BY <2>1, <2>2, <2>3 DEF Pool!Resident
  <1> HIDE DEF C, M, R, B
  <1>7. IsFiniteSet(C \cup M) /\ Cardinality(C \cup M) <= Cardinality(C) + Cardinality(M)
    <2>1. IsFiniteSet(C \cup M) /\ Cardinality(C \cup M) = Cardinality(C) + Cardinality(M) - Cardinality(C \cap M)
      BY <1>2, <1>3, FS_Union
    <2>2. IsFiniteSet(C \cap M)
      BY <1>2, FS_Intersection, <1>3
    <2>3. Cardinality(C) \in Nat /\ Cardinality(M) \in Nat /\ Cardinality(C \cap M) \in Nat
      BY <1>2, <1>3, <2>2, FS_CardinalityType
    <2> QED BY <2>1, <2>3
  <1>8. IsFiniteSet((C \cup M) \cup R) /\ Cardinality((C \cup M) \cup R) <= Cardinality(C \cup M) + Cardinality(R)
    <2>1. IsFiniteSet((C \cup M) \cup R)
          /\ Cardinality((C \cup M) \cup R) = Cardinality(C \cup M) + Cardinality(R) - Cardinality((C \cup M) \cap R)
      BY <1>4, <1>7, FS_Union
    <2>2. IsFiniteSet((C \cup M) \cap R)
      BY <1>4, <1>7, FS_Intersection
    <2>3. Cardinality(C \cup M) \in Nat /\ Cardinality(R) \in Nat /\ Cardinality((C \cup M) \cap R) \in Nat
      BY <1>4, <1>7, <2>2, FS_CardinalityType
    <2> QED BY <2>1, <2>3
  <1>9. Pool!MemoryBounded
    <2>1. /\ Cardinality(C) \in Nat /\ Cardinality(M) \in Nat /\ Cardinality(R) \in Nat
          /\ Cardinality(Pool!Cached) \in Nat /\ Cardinality(B) \in Nat /\ Cardinality(C \cup M) \in Nat
          /\ Cardinality(Pool!Resident) \in Nat
      BY <1>1, <1>2, <1>3, <1>4, <1>5, <1>7, <1>8, FS_CardinalityType
    <2>2. Cardinality(Pool!Resident) <= Cardinality(Pool!Cached) + 1 + Cardinality(B)
      <3>1. Cardinality(Pool!Resident) = Cardinality((C \cup M) \cup R)
        BY <1>5
      <3>2. Cardinality(Pool!Resident) <= Cardinality(C \cup M) + Cardinality(R)
        BY <1>8, <3>1
      <3>3. Cardinality(C \cup M) <= Cardinality(Pool!Cached) + Cardinality(B)
        BY <1>2, <1>3, <1>7, <2>1
      <3> QED BY <1>4, <2>1, <3>2, <3>3
    <2> QED BY <2>2, SameCounting DEF Pool!MemoryBounded, B
  <1> QED BY <1>5, <1>6, <1>8, <1>9

\* There is always a number that no session of the model has.
LEMMA FreshIdIsNumber ==
  ASSUME Pool!PoolAssumption, PoolIInv, NEW p
  PROVE  Pool!FreshId(p) \in Nat
PROOF
  <1> DEFINE Same == {r \in Pool!Resident : r.path = p}
             Ids == {s.id : s \in Same}
             n == Cardinality(Pool!Resident) + 1
  <1>1. IsFiniteSet(Pool!Resident) /\ Cardinality(Pool!Resident) \in Nat
    BY ResidentBounded, FS_CardinalityType
  <1>2. IsFiniteSet(Same) /\ Cardinality(Same) <= Cardinality(Pool!Resident)
    BY <1>1, FS_Subset
  <1>3. IsFiniteSet(Ids) /\ Cardinality(Ids) <= Cardinality(Same)
    <2> DEFINE h == [s \in Same |-> s.id]
    <2>1. h \in Surjection(Same, Ids)
      BY DEF Surjection
    <2> HIDE DEF h, Ids, Same
    <2> QED BY <1>2, <2>1, FS_Surjection
  <1> HIDE DEF Same, Ids
  <1>4. IsFiniteSet(1 .. n) /\ Cardinality(1 .. n) = n
    BY <1>1, FS_Interval
  <1>5. (1 .. n) \ Ids # {}
    <2> SUFFICES ASSUME 1 .. n \subseteq Ids PROVE FALSE
      OBVIOUS
    <2>1. Cardinality(1 .. n) <= Cardinality(Ids)
      BY <1>3, FS_Subset
    <2>2. Cardinality(Same) \in Nat /\ Cardinality(Ids) \in Nat
      BY <1>2, <1>3, FS_CardinalityType
    <2> QED BY <1>1, <1>2, <1>3, <1>4, <2>1, <2>2
  <1>6. (1 .. n) \ Ids \in SUBSET Nat
    OBVIOUS
  <1> HIDE DEF n
  <1>7. Pool!Min((1 .. n) \ Ids) \in Nat
    BY <1>5, <1>6, MinIsLeast
  <1>8. Pool!FreshId(p) = Pool!Min((1 .. n) \ Ids)
    <2>1. Pool!FreshId(p) = Pool!Min((1 .. (Pool!Cardinality(Pool!Resident) + 1)) \ Ids)
      BY Zenon DEF Pool!FreshId, Ids, Same
    <2>2. Pool!Cardinality(Pool!Resident) = Cardinality(Pool!Resident)
      BY SameCounting
    <2> QED BY <2>1, <2>2, Zenon DEF n
  <1> QED BY <1>7, <1>8

LEMMA PoolBegins ==
  ASSUME Pool!PoolAssumption, Pool!PoolInit
  PROVE  PoolIInv
PROOF
  <1> USE DEF Pool!PoolInit
  <1>1. ThreadsBuild
    BY DEF ThreadsBuild
  <1>2. Pool!Cached = {}
    BY DEF Pool!Cached
  <1>3. CacheHolds
    BY <1>2 DEF CacheHolds
  <1>4. OrderLists
    BY <1>2 DEF OrderLists, Distinct, Pool!ToSet, Pool!PoolAssumption
  <1> QED BY <1>1, <1>3, <1>4 DEF PoolIInv

\* A session that is built is not on the CPU and has the model that was wanted.
LEMMA BuildKeeps ==
  ASSUME Pool!PoolAssumption, PoolIInv, NEW t \in Pool!Users, at[t] \in {"trt", "cuda"},
         NEW eps \in SUBSET Pool!Bound, Pool!Build(t, eps)
  PROVE  PoolIInv'
PROOF
  <1>1. ThreadsBuild /\ CacheHolds /\ OrderLists
    BY DEF PoolIInv
  <1>2. PICK ep \in eps :
          /\ IF Pool!GpuBound(ep)
             THEN /\ made' = [made EXCEPT ![t] = [id |-> Pool!FreshId(want[t]), path |-> want[t], ep |-> ep]]
                  /\ at' = [at EXCEPT ![t] = "insert"] /\ want' = want
             ELSE /\ at' = [at EXCEPT ![t] = "idle"] /\ want' = [want EXCEPT ![t] = NoSession]
                  /\ made' = made
          /\ cache' = cache /\ order' = order /\ rvc' = rvc
    BY DEF Pool!Build, Pool!Goes, Pool!Ends
  <1>3. CacheHolds' /\ OrderLists'
    BY <1>1, <1>2 DEF CacheHolds, OrderLists, Pool!Cached
  <1>4. CASE ep = "cpu"
    <2>1. ~Pool!GpuBound(ep)
      BY <1>4 DEF Pool!GpuBound
    <2>2. ThreadsBuild'
      BY <1>1, <1>2, <2>1 DEF ThreadsBuild
    <2> QED BY <1>3, <2>2 DEF PoolIInv
  <1>5. CASE ep # "cpu"
    <2> DEFINE s == [id |-> Pool!FreshId(want[t]), path |-> want[t], ep |-> ep]
    <2>1. Pool!FreshId(want[t]) \in Nat /\ want[t] \in Paths /\ ep \in Pool!Bound
      BY <1>1, FreshIdIsNumber DEF ThreadsBuild
    <2>2. s \in OnGpuOnly /\ s.path = want[t]
      BY <1>5, <2>1 DEF OnGpuOnly, Pool!Session
    <2>3. s # NoSession
      BY <2>2 DEF OnGpuOnly, Pool!PoolAssumption
    <2>4. made' = [made EXCEPT ![t] = s] /\ at' = [at EXCEPT ![t] = "insert"] /\ want' = want
      BY <1>2, <1>5 DEF Pool!GpuBound
    <2> HIDE DEF s
    <2>5. ThreadsBuild'
      BY <1>1, <2>1, <2>2, <2>3, <2>4 DEF ThreadsBuild
    <2> QED BY <1>3, <2>5 DEF PoolIInv
  <1> QED BY <1>4, <1>5

\* The model is at the end of the order, or was already there; what the order
\* has dropped is dropped from the cache; and no cached session is replaced.
LEMMA InsertKeeps ==
  ASSUME Pool!PoolAssumption, PoolIInv, NEW t \in Pool!Users, Pool!Insert(t)
  PROVE  PoolIInv' /\ \A p \in Pool!Cached : cache'[p] \in {cache[p], NoSession}
PROOF
  <1> DEFINE p == want[t]
             won == Pool!FirstWins(p, made[t])
             longer == IF p \in Pool!Cached THEN order ELSE Append(order, p)
  <1>1. ThreadsBuild /\ CacheHolds /\ OrderLists
    BY DEF PoolIInv
  <1>2. /\ at[t] = "insert" /\ order' = Pool!Kept(longer)
        /\ cache' = [q \in Paths |-> IF ~Pool!Contains(order', q) THEN NoSession
                                     ELSE IF q = p THEN won ELSE cache[q]]
        /\ (rvc' = won \/ rvc' = rvc) /\ made' = [made EXCEPT ![t] = NoSession]
        /\ at' = [at EXCEPT ![t] = "idle"] /\ want' = [want EXCEPT ![t] = NoSession]
    BY DEF Pool!Insert, Pool!Gets, Pool!Goes, Pool!Ends
  <1>3. p \in Paths /\ made[t] \in OnGpuOnly /\ made[t] # NoSession /\ made[t].path = p
    BY <1>1, <1>2 DEF ThreadsBuild
  <1>4. won \in OnGpuOnly /\ won # NoSession /\ won.path = p /\ (p \in Pool!Cached => won = cache[p])
    BY <1>1, <1>3 DEF CacheHolds, Pool!FirstWins, Pool!Cached
  <1>5. longer \in Seq(Paths) /\ Distinct(longer) /\ Pool!ToSet(longer) = Pool!Cached \cup {p}
    <2>1. CASE p \in Pool!Cached
      BY <1>1, <2>1 DEF OrderLists
    <2>2. CASE p \notin Pool!Cached
      BY <1>1, <1>3, <2>2, Appended DEF OrderLists
    <2> QED BY <2>1, <2>2
  <1> HIDE DEF won, longer, p
  <1>6. /\ order' \in Seq(Paths) /\ Distinct(order') /\ Len(order') <= PoolSize
        /\ Pool!ToSet(order') \subseteq Pool!Cached \cup {p}
    BY <1>2, <1>5, NewestKept
  <1>7. \A q : Pool!Contains(order', q) <=> q \in Pool!ToSet(order')
    BY <1>6 DEF Pool!Contains, Pool!ToSet
  <1>8. \A q \in Paths : cache'[q] = IF q \in Pool!ToSet(order') THEN (IF q = p THEN won ELSE cache[q])
                                     ELSE NoSession
    BY <1>2, <1>7
  <1>9. Pool!Cached' = Pool!ToSet(order')
    <2>1. Pool!Cached' = {q \in Paths : cache'[q] # NoSession}
      BY DEF Pool!Cached
    <2>2. Pool!ToSet(order') \subseteq Paths
      BY <1>3, <1>6 DEF Pool!Cached
    <2>3. \A q \in Pool!Cached : cache[q] # NoSession
      BY DEF Pool!Cached
    <2>4. ASSUME NEW q \in Paths PROVE cache'[q] # NoSession <=> q \in Pool!ToSet(order')
      BY <1>4, <1>6, <1>8, <2>3
    <2> QED BY <2>1, <2>2, <2>4
  <1>10. OrderLists'
    <2>1. Pool!ToSet(order)' = Pool!ToSet(order')
      BY DEF Pool!ToSet
    <2>2. Distinct(order)' = Distinct(order')
      BY DEF Distinct
    <2> QED BY <1>6, <1>9, <2>1, <2>2 DEF OrderLists
  <1>11. CacheHolds'
    <2>1. cache' \in [Paths -> OnGpuOnly \cup {NoSession}]
      BY <1>1, <1>2, <1>4 DEF CacheHolds
    <2>2. rvc' \in OnGpuOnly \cup {NoSession}
      BY <1>1, <1>2, <1>4 DEF CacheHolds
    <2>3. ASSUME NEW q \in Pool!Cached' PROVE cache'[q].path = q
      <3>1. q \in Pool!ToSet(order') /\ q \in Paths
        BY <1>9 DEF Pool!Cached
      <3>2. CASE q = p
        BY <1>4, <1>8, <3>1, <3>2
      <3>3. CASE q # p
        BY <1>1, <1>6, <1>8, <3>1, <3>3 DEF CacheHolds
      <3> QED BY <3>2, <3>3
    <2> QED BY <2>1, <2>2, <2>3 DEF CacheHolds
  <1>12. ThreadsBuild'
    BY <1>1, <1>2 DEF ThreadsBuild
  <1>13. \A q \in Pool!Cached : cache'[q] \in {cache[q], NoSession}
    <2>1. Pool!Cached \subseteq Paths
      BY DEF Pool!Cached
    <2> QED BY <1>4, <1>8, <2>1
  <1> QED BY <1>10, <1>11, <1>12, <1>13 DEF PoolIInv

LEMMA PoolStep ==
  ASSUME Pool!PoolAssumption, PoolIInv, [Pool!PoolNext]_Pool!poolVars
  PROVE  PoolIInv' /\ \A p \in Pool!Cached : cache'[p] \in {cache[p], NoSession}
PROOF
  <1>0. ThreadsBuild /\ CacheHolds /\ OrderLists
    BY DEF PoolIInv
  <1>1. ASSUME NEW t \in Pool!Users, Pool!Hit(t)
        PROVE  PoolIInv' /\ cache' = cache
    <2>1. PICK p \in Pool!Cached :
            /\ order' = Append(Pool!RemoveFirst(order, p), p) /\ (rvc' = cache[p] \/ rvc' = rvc)
            /\ cache' = cache /\ want' = want /\ at' = at /\ made' = made
      BY <1>1 DEF Pool!Hit, Pool!Gets
    <2>2. p \in Pool!ToSet(order) /\ cache[p] \in OnGpuOnly \cup {NoSession}
      BY <1>0 DEF OrderLists, CacheHolds, Pool!Cached
    <2>3. order' \in Seq(Paths) /\ Len(order') = Len(order) /\ Distinct(order')
          /\ Pool!ToSet(order') = Pool!ToSet(order)
      BY <1>0, <2>1, <2>2, MovedToEnd DEF OrderLists
    <2>4. Pool!ToSet(order)' = Pool!ToSet(order') /\ Distinct(order)' = Distinct(order')
      BY DEF Pool!ToSet, Distinct
    <2>5. Pool!Cached' = Pool!Cached
      BY <2>1 DEF Pool!Cached
    <2>6. OrderLists'
      BY <1>0, <2>3, <2>4, <2>5 DEF OrderLists
    <2>7. CacheHolds'
      BY <1>0, <2>1, <2>2, <2>5 DEF CacheHolds
    <2>8. ThreadsBuild'
      BY <1>0, <2>1 DEF ThreadsBuild
    <2> QED BY <2>1, <2>6, <2>7, <2>8 DEF PoolIInv
  <1>2. ASSUME NEW t \in Pool!Users, Pool!Miss(t)
        PROVE  PoolIInv' /\ cache' = cache
    <2>1. PICK p \in Paths :
            /\ at[t] = "idle" /\ want' = [want EXCEPT ![t] = p]
            /\ at' = [at EXCEPT ![t] = IF trtOn THEN "trt" ELSE "cuda"]
            /\ cache' = cache /\ order' = order /\ made' = made /\ rvc' = rvc
      BY <1>2 DEF Pool!Miss, Pool!Goes
    <2>2. ThreadsBuild'
      BY <1>0, <2>1 DEF ThreadsBuild
    <2>3. CacheHolds' /\ OrderLists'
      BY <1>0, <2>1 DEF CacheHolds, OrderLists, Pool!Cached
    <2> QED BY <2>1, <2>2, <2>3 DEF PoolIInv
  <1>3. ASSUME NEW t \in Pool!Users, Pool!BuildTrt(t)
        PROVE  PoolIInv' /\ cache' = cache
    <2>1. CASE Pool!Build(t, IF cudaOn THEN Pool!Bound ELSE {"trt", "cpu"})
      <3>1. (IF cudaOn THEN Pool!Bound ELSE {"trt", "cpu"}) \in SUBSET Pool!Bound
        BY DEF Pool!Bound
      <3>2. at[t] = "trt"
        BY <1>3 DEF Pool!BuildTrt
      <3> QED BY <2>1, <3>1, <3>2, BuildKeeps DEF Pool!Build
    <2>2. CASE Pool!Goes(t, "cuda") /\ UNCHANGED <<cache, order, want, made, rvc>>
      <3>1. at' = [at EXCEPT ![t] = "cuda"] /\ at[t] = "trt"
        BY <1>3, <2>2 DEF Pool!Goes, Pool!BuildTrt
      <3>2. ThreadsBuild'
        BY <1>0, <2>2, <3>1 DEF ThreadsBuild
      <3>3. CacheHolds' /\ OrderLists'
        BY <1>0, <2>2 DEF CacheHolds, OrderLists, Pool!Cached
      <3> QED BY <2>2, <3>2, <3>3 DEF PoolIInv
    <2> QED BY <1>3, <2>1, <2>2 DEF Pool!BuildTrt
  <1>4. ASSUME NEW t \in Pool!Users, Pool!BuildCuda(t)
        PROVE  PoolIInv' /\ cache' = cache
    <2>1. CASE Pool!Build(t, IF cudaOn THEN {"cuda", "cpu"} ELSE {"cpu"})
      <3>1. (IF cudaOn THEN {"cuda", "cpu"} ELSE {"cpu"}) \in SUBSET Pool!Bound
        BY DEF Pool!Bound
      <3>2. at[t] = "cuda"
        BY <1>4 DEF Pool!BuildCuda
      <3> QED BY <2>1, <3>1, <3>2, BuildKeeps DEF Pool!Build
    <2>2. CASE Pool!Ends(t) /\ UNCHANGED <<cache, order, made, rvc>>
      <3>1. /\ at' = [at EXCEPT ![t] = "idle"] /\ want' = [want EXCEPT ![t] = NoSession]
            /\ at[t] = "cuda"
        BY <1>4, <2>2 DEF Pool!Goes, Pool!Ends, Pool!BuildCuda
      <3>2. ThreadsBuild'
        BY <1>0, <2>2, <3>1 DEF ThreadsBuild
      <3>3. CacheHolds' /\ OrderLists'
        BY <1>0, <2>2 DEF CacheHolds, OrderLists, Pool!Cached
      <3> QED BY <2>2, <3>2, <3>3 DEF PoolIInv
    <2> QED BY <1>4, <2>1, <2>2 DEF Pool!BuildCuda
  <1>5. CASE Pool!Evict
    <2>1. /\ cache' = [p \in Paths |-> NoSession] /\ order' = <<>> /\ rvc' = NoSession
          /\ want' = want /\ at' = at /\ made' = made
      BY <1>5 DEF Pool!Evict
    <2>2. Pool!Cached' = {}
      BY <2>1 DEF Pool!Cached
    <2>3. OrderLists'
      BY <2>1, <2>2 DEF OrderLists, Distinct, Pool!ToSet, Pool!PoolAssumption
    <2>4. CacheHolds' /\ ThreadsBuild'
      BY <1>0, <2>1, <2>2 DEF CacheHolds, ThreadsBuild
    <2>5. \A p \in Pool!Cached : cache'[p] = NoSession
      BY <2>1 DEF Pool!Cached
    <2> QED BY <2>3, <2>4, <2>5 DEF PoolIInv
  <1>6. CASE UNCHANGED Pool!poolVars
    <2>1. ThreadsBuild' /\ CacheHolds' /\ OrderLists'
      BY <1>0, <1>6 DEF Pool!poolVars, ThreadsBuild, CacheHolds, OrderLists, Pool!Cached
    <2> QED BY <1>6, <2>1 DEF Pool!poolVars, PoolIInv
  <1> QED BY <1>1, <1>2, <1>3, <1>4, <1>5, <1>6, InsertKeeps DEF Pool!PoolNext

\* Whatever the engine thread and the preloaders ask for, and whatever a build
\* comes to: the cache and its order hold the same models, each once and no more
\* than fit, none of them bound to the CPU; memory holds no more than that, the
\* voice that runs and one build per thread; and a cached session is dropped but
\* never replaced.
LEMMA PoolKeepsSafe ==
  ASSUME Pool!PoolAssumption
  PROVE  Pool!PoolSpec => Pool!PoolSafe
PROOF
  <1>1. Pool!PoolInit => PoolIInv
    BY PoolBegins
  <1>2. PoolIInv /\ [Pool!PoolNext]_Pool!poolVars
        => PoolIInv' /\ [\A p \in Pool!Cached : cache'[p] \in {cache[p], NoSession}]_Pool!poolVars
    BY PoolStep
  <1>3. PoolIInv => Pool!PoolInv
    <2> SUFFICES ASSUME PoolIInv PROVE Pool!PoolInv
      OBVIOUS
    <2>1. ThreadsBuild /\ CacheHolds /\ OrderLists
      BY DEF PoolIInv
    <2>2. Pool!Resident \subseteq OnGpuOnly /\ Pool!MemoryBounded
      BY ResidentBounded
    <2>3. Pool!PoolTypeOK
      BY <2>1, <2>2 DEF Pool!PoolTypeOK, ThreadsBuild, OnGpuOnly
    <2>4. Pool!InStep
      BY <2>1, CachedIsFinite, SameCounting DEF Pool!InStep, OrderLists, CacheHolds
    <2>5. Pool!OnGpu
      BY <2>2 DEF Pool!OnGpu, OnGpuOnly
    <2> QED BY <2>2, <2>3, <2>4, <2>5 DEF Pool!PoolInv
  <1> QED BY <1>1, <1>2, <1>3, PTL DEF Pool!PoolSpec, Pool!PoolSafe, Pool!NeverReplaced

-----------------------------------------------------------------------------
(* The model library.                                                      *)

\* The steps of a download, of a conversion once the model is exported, and of
\* what goes through a .part file.
Downloading == {"fetch", "verify", "unlink", "link", "copy"}
Exported == {"simplify", "simplifying", "validate", "reference", "gate", "tidy"}
Converting == {"probe", "export", "exporting"} \cup Exported
Parting == {"fp16", "saving", "weights", "getting", "hashing", "checked"}

LibTypes ==
  /\ dir \in [Library!Files -> {"torn", "pinned", "other", "none"}]
  /\ part \in {"torn", "pinned", "other", "none"} /\ hub \in {"torn", "pinned", "other", "none"}
  /\ linked \in BOOLEAN /\ step \in {"idle"} \cup Downloading \cup Converting \cup Parting
  /\ job \in [file : Library!Files, hashed : BOOLEAN, trusting : BOOLEAN, force : BOOLEAN, fp16 : BOOLEAN]
  /\ outcome \in {"none", "landed", "converted", "present", "installed", "error", "killed"}
  /\ outcome # "none" => step = "idle"

\* A linked voice is the cache's file, so that a write in place changes both.
LinkedIsSame ==
  /\ linked => hub # "none" /\ dir["voice"] = hub
  /\ step \in {"link", "copy"} => ~linked

\* What a command works on: a download and a conversion only on a voice; and
\* what it has made sure of before it goes on.
JobsKnown ==
  /\ step \in Downloading \cup Converting => job.file = "voice"
  /\ step \in {"verify", "unlink", "link", "copy"} => hub # "none"
  /\ step \in {"unlink", "link", "copy"} => (job.hashed => hub = "pinned")
  /\ step \in Exported => dir["voice"] = "other"
  /\ step = "tidy" => (job.fp16 => dir["voice_fp32_ref"] = "none")
  /\ step \in {"fp16", "saving"} => job.file = "rmvpe-fp16"
  /\ step \in {"weights", "getting", "hashing"} => job.file \in {"rmvpe", "voice"}
  /\ step \in {"hashing", "checked"} => part \in {"pinned", "other"}
  /\ step = "checked" => (job.file = "rmvpe" => part = "pinned" \/ job.trusting)

LibIInv ==
  LibTypes /\ LinkedIsSame /\ JobsKnown /\ Library!LandedIsPinned /\ Library!ConvertedIsAlone

LEMMA LibraryBegins ==
  ASSUME Library!LibInit
  PROVE  LibIInv
PROOF
  <1> USE DEF Library!LibInit, Library!NoJob, Library!Dir, Library!Contents, Library!Files, Library!Weights
  <1>1. LibTypes
    BY DEF LibTypes
  <1>2. LinkedIsSame /\ JobsKnown
    BY DEF LinkedIsSame, JobsKnown, Downloading, Converting, Exported
  <1>3. Library!LandedIsPinned /\ Library!ConvertedIsAlone
    BY DEF Library!LandedIsPinned, Library!ConvertedIsAlone
  <1> QED BY <1>1, <1>2, <1>3 DEF LibIInv

LEMMA StartDownloadSafe ==
  ASSUME LibIInv, Library!StartDownload
  PROVE  LibIInv'
PROOF
  <1> USE DEF LibTypes, Downloading, Exported, Converting, Parting, Library!Files, Library!Weights,
              Library!StartDownload, Library!Start, Library!Entries, Library!AnyEntry, Library!NoJob
  <1>1. LibTypes /\ LinkedIsSame /\ JobsKnown /\ Library!LandedIsPinned /\ Library!ConvertedIsAlone
    BY DEF LibIInv
  <1>2. LibTypes'
    BY <1>1 DEF LibTypes
  <1>3. LinkedIsSame'
    BY <1>1 DEF LinkedIsSame, JobsKnown
  <1>4. JobsKnown'
    BY <1>1 DEF JobsKnown
  <1>5. Library!LandedIsPinned'
    BY <1>1 DEF Library!LandedIsPinned, LinkedIsSame, JobsKnown
  <1>6. Library!ConvertedIsAlone'
    BY <1>1 DEF Library!ConvertedIsAlone, JobsKnown
  <1> QED BY <1>2, <1>3, <1>4, <1>5, <1>6 DEF LibIInv

LEMMA FetchedSafe ==
  ASSUME LibIInv, Library!Fetched
  PROVE  LibIInv'
PROOF
  <1> USE DEF LibTypes, Downloading, Exported, Converting, Parting, Library!Files, Library!Weights,
              Library!Fetched, Library!Goes, Library!Ends
  <1>1. LibTypes /\ LinkedIsSame /\ JobsKnown /\ Library!LandedIsPinned /\ Library!ConvertedIsAlone
    BY DEF LibIInv
  <1>2. LibTypes'
    BY <1>1 DEF LibTypes
  <1>3. LinkedIsSame'
    BY <1>1 DEF LinkedIsSame, JobsKnown
  <1>4. JobsKnown'
    BY <1>1 DEF JobsKnown
  <1>5. Library!LandedIsPinned'
    BY <1>1 DEF Library!LandedIsPinned, LinkedIsSame, JobsKnown
  <1>6. Library!ConvertedIsAlone'
    BY <1>1 DEF Library!ConvertedIsAlone, JobsKnown
  <1> QED BY <1>2, <1>3, <1>4, <1>5, <1>6 DEF LibIInv

LEMMA VerifySafe ==
  ASSUME LibIInv, Library!Verify
  PROVE  LibIInv'
PROOF
  <1> USE DEF LibTypes, Downloading, Exported, Converting, Parting, Library!Files, Library!Weights,
              Library!Verify, Library!Verified, Library!SameContent, Library!Goes, Library!Ends
  <1>1. LibTypes /\ LinkedIsSame /\ JobsKnown /\ Library!LandedIsPinned /\ Library!ConvertedIsAlone
    BY DEF LibIInv
  <1>2. LibTypes'
    BY <1>1 DEF LibTypes
  <1>3. LinkedIsSame'
    BY <1>1 DEF LinkedIsSame, JobsKnown
  <1>4. JobsKnown'
    BY <1>1 DEF JobsKnown
  <1>5. Library!LandedIsPinned'
    BY <1>1 DEF Library!LandedIsPinned, LinkedIsSame, JobsKnown
  <1>6. Library!ConvertedIsAlone'
    BY <1>1 DEF Library!ConvertedIsAlone, JobsKnown
  <1> QED BY <1>2, <1>3, <1>4, <1>5, <1>6 DEF LibIInv

LEMMA UnlinkSafe ==
  ASSUME LibIInv, Library!Unlink
  PROVE  LibIInv'
PROOF
  <1> USE DEF LibTypes, Downloading, Exported, Converting, Parting, Library!Files, Library!Weights,
              Library!Unlink, Library!Put, Library!Goes
  <1>1. LibTypes /\ LinkedIsSame /\ JobsKnown /\ Library!LandedIsPinned /\ Library!ConvertedIsAlone
    BY DEF LibIInv
  <1>2. LibTypes'
    BY <1>1 DEF LibTypes
  <1>3. LinkedIsSame'
    BY <1>1 DEF LinkedIsSame, JobsKnown
  <1>4. JobsKnown'
    BY <1>1 DEF JobsKnown
  <1>5. Library!LandedIsPinned'
    BY <1>1 DEF Library!LandedIsPinned, LinkedIsSame, JobsKnown
  <1>6. Library!ConvertedIsAlone'
    BY <1>1 DEF Library!ConvertedIsAlone, JobsKnown
  <1> QED BY <1>2, <1>3, <1>4, <1>5, <1>6 DEF LibIInv

LEMMA LinkSafe ==
  ASSUME LibIInv, Library!Link
  PROVE  LibIInv'
PROOF
  <1> USE DEF LibTypes, Downloading, Exported, Converting, Parting, Library!Files, Library!Weights,
              Library!Link, Library!Put, Library!Goes, Library!Ends
  <1>1. LibTypes /\ LinkedIsSame /\ JobsKnown /\ Library!LandedIsPinned /\ Library!ConvertedIsAlone
    BY DEF LibIInv
  <1>2. LibTypes'
    BY <1>1 DEF LibTypes
  <1>3. LinkedIsSame'
    BY <1>1 DEF LinkedIsSame, JobsKnown
  <1>4. JobsKnown'
    BY <1>1 DEF JobsKnown
  <1>5. Library!LandedIsPinned'
    BY <1>1 DEF Library!LandedIsPinned, LinkedIsSame, JobsKnown
  <1>6. Library!ConvertedIsAlone'
    BY <1>1 DEF Library!ConvertedIsAlone, JobsKnown
  <1> QED BY <1>2, <1>3, <1>4, <1>5, <1>6 DEF LibIInv

LEMMA CopySafe ==
  ASSUME LibIInv, Library!Copy
  PROVE  LibIInv'
PROOF
  <1> USE DEF LibTypes, Downloading, Exported, Converting, Parting, Library!Files, Library!Weights,
              Library!Copy, Library!Put, Library!Ends
  <1>1. LibTypes /\ LinkedIsSame /\ JobsKnown /\ Library!LandedIsPinned /\ Library!ConvertedIsAlone
    BY DEF LibIInv
  <1>2. LibTypes'
    BY <1>1 DEF LibTypes
  <1>3. LinkedIsSame'
    BY <1>1 DEF LinkedIsSame, JobsKnown
  <1>4. JobsKnown'
    BY <1>1 DEF JobsKnown
  <1>5. Library!LandedIsPinned'
    BY <1>1 DEF Library!LandedIsPinned, LinkedIsSame, JobsKnown
  <1>6. Library!ConvertedIsAlone'
    BY <1>1 DEF Library!ConvertedIsAlone, JobsKnown
  <1> QED BY <1>2, <1>3, <1>4, <1>5, <1>6 DEF LibIInv

LEMMA StartConvertSafe ==
  ASSUME LibIInv, Library!StartConvert
  PROVE  LibIInv'
PROOF
  <1> USE DEF LibTypes, Downloading, Exported, Converting, Parting, Library!Files, Library!Weights,
              Library!StartConvert, Library!Start, Library!NoJob
  <1>1. LibTypes /\ LinkedIsSame /\ JobsKnown /\ Library!LandedIsPinned /\ Library!ConvertedIsAlone
    BY DEF LibIInv
  <1>2. LibTypes'
    BY <1>1 DEF LibTypes
  <1>3. LinkedIsSame'
    BY <1>1 DEF LinkedIsSame, JobsKnown
  <1>4. JobsKnown'
    BY <1>1 DEF JobsKnown
  <1>5. Library!LandedIsPinned'
    BY <1>1 DEF Library!LandedIsPinned, LinkedIsSame, JobsKnown
  <1>6. Library!ConvertedIsAlone'
    BY <1>1 DEF Library!ConvertedIsAlone, JobsKnown
  <1> QED BY <1>2, <1>3, <1>4, <1>5, <1>6 DEF LibIInv

LEMMA ProbeSafe ==
  ASSUME LibIInv, Library!Probe
  PROVE  LibIInv'
PROOF
  <1> USE DEF LibTypes, Downloading, Exported, Converting, Parting, Library!Files, Library!Weights,
              Library!Probe, Library!Goes, Library!Ends
  <1>1. LibTypes /\ LinkedIsSame /\ JobsKnown /\ Library!LandedIsPinned /\ Library!ConvertedIsAlone
    BY DEF LibIInv
  <1>2. LibTypes'
    BY <1>1 DEF LibTypes
  <1>3. LinkedIsSame'
    BY <1>1 DEF LinkedIsSame, JobsKnown
  <1>4. JobsKnown'
    BY <1>1 DEF JobsKnown
  <1>5. Library!LandedIsPinned'
    BY <1>1 DEF Library!LandedIsPinned, LinkedIsSame, JobsKnown
  <1>6. Library!ConvertedIsAlone'
    BY <1>1 DEF Library!ConvertedIsAlone, JobsKnown
  <1> QED BY <1>2, <1>3, <1>4, <1>5, <1>6 DEF LibIInv

LEMMA ExportSafe ==
  ASSUME LibIInv, Library!Export
  PROVE  LibIInv'
PROOF
  <1> USE DEF LibTypes, Downloading, Exported, Converting, Parting, Library!Files, Library!Weights,
              Library!Export, Library!PutInPlace, Library!Put, Library!Goes
  <1>1. LibTypes /\ LinkedIsSame /\ JobsKnown /\ Library!LandedIsPinned /\ Library!ConvertedIsAlone
    BY DEF LibIInv
  <1>2. LibTypes'
    BY <1>1 DEF LibTypes
  <1>3. LinkedIsSame'
    BY <1>1 DEF LinkedIsSame, JobsKnown
  <1>4. JobsKnown'
    BY <1>1 DEF JobsKnown
  <1>5. Library!LandedIsPinned'
    BY <1>1 DEF Library!LandedIsPinned, LinkedIsSame, JobsKnown
  <1>6. Library!ConvertedIsAlone'
    BY <1>1 DEF Library!ConvertedIsAlone, JobsKnown
  <1> QED BY <1>2, <1>3, <1>4, <1>5, <1>6 DEF LibIInv

LEMMA ExportEndsSafe ==
  ASSUME LibIInv, Library!Exported
  PROVE  LibIInv'
PROOF
  <1> USE DEF LibTypes, Downloading, Exported, Converting, Parting, Library!Files, Library!Weights,
              Library!Exported, Library!PutInPlace, Library!Put, Library!Goes, Library!Ends
  <1>1. LibTypes /\ LinkedIsSame /\ JobsKnown /\ Library!LandedIsPinned /\ Library!ConvertedIsAlone
    BY DEF LibIInv
  <1>2. LibTypes'
    BY <1>1 DEF LibTypes
  <1>3. LinkedIsSame'
    BY <1>1 DEF LinkedIsSame, JobsKnown
  <1>4. JobsKnown'
    BY <1>1 DEF JobsKnown
  <1>5. Library!LandedIsPinned'
    BY <1>1 DEF Library!LandedIsPinned, LinkedIsSame, JobsKnown
  <1>6. Library!ConvertedIsAlone'
    BY <1>1 DEF Library!ConvertedIsAlone, JobsKnown
  <1> QED BY <1>2, <1>3, <1>4, <1>5, <1>6 DEF LibIInv

LEMMA SimplifySafe ==
  ASSUME LibIInv, Library!Simplify
  PROVE  LibIInv'
PROOF
  <1> USE DEF LibTypes, Downloading, Exported, Converting, Parting, Library!Files, Library!Weights,
              Library!Simplify, Library!Put, Library!Goes, Library!Ends
  <1>1. LibTypes /\ LinkedIsSame /\ JobsKnown /\ Library!LandedIsPinned /\ Library!ConvertedIsAlone
    BY DEF LibIInv
  <1>2. LibTypes'
    BY <1>1 DEF LibTypes
  <1>3. LinkedIsSame'
    BY <1>1 DEF LinkedIsSame, JobsKnown
  <1>4. JobsKnown'
    BY <1>1 DEF JobsKnown
  <1>5. Library!LandedIsPinned'
    BY <1>1 DEF Library!LandedIsPinned, LinkedIsSame, JobsKnown
  <1>6. Library!ConvertedIsAlone'
    BY <1>1 DEF Library!ConvertedIsAlone, JobsKnown
  <1> QED BY <1>2, <1>3, <1>4, <1>5, <1>6 DEF LibIInv

LEMMA SimplifiedSafe ==
  ASSUME LibIInv, Library!Simplified
  PROVE  LibIInv'
PROOF
  <1> USE DEF LibTypes, Downloading, Exported, Converting, Parting, Library!Files, Library!Weights,
              Library!Simplified, Library!Put, Library!Goes, Library!Ends
  <1>1. LibTypes /\ LinkedIsSame /\ JobsKnown /\ Library!LandedIsPinned /\ Library!ConvertedIsAlone
    BY DEF LibIInv
  <1>2. LibTypes'
    BY <1>1 DEF LibTypes
  <1>3. LinkedIsSame'
    BY <1>1 DEF LinkedIsSame, JobsKnown
  <1>4. JobsKnown'
    BY <1>1 DEF JobsKnown
  <1>5. Library!LandedIsPinned'
    BY <1>1 DEF Library!LandedIsPinned, LinkedIsSame, JobsKnown
  <1>6. Library!ConvertedIsAlone'
    BY <1>1 DEF Library!ConvertedIsAlone, JobsKnown
  <1> QED BY <1>2, <1>3, <1>4, <1>5, <1>6 DEF LibIInv

LEMMA ValidateSafe ==
  ASSUME LibIInv, Library!Validate
  PROVE  LibIInv'
PROOF
  <1> USE DEF LibTypes, Downloading, Exported, Converting, Parting, Library!Files, Library!Weights,
              Library!Validate, Library!Goes, Library!Ends
  <1>1. LibTypes /\ LinkedIsSame /\ JobsKnown /\ Library!LandedIsPinned /\ Library!ConvertedIsAlone
    BY DEF LibIInv
  <1>2. LibTypes'
    BY <1>1 DEF LibTypes
  <1>3. LinkedIsSame'
    BY <1>1 DEF LinkedIsSame, JobsKnown
  <1>4. JobsKnown'
    BY <1>1 DEF JobsKnown
  <1>5. Library!LandedIsPinned'
    BY <1>1 DEF Library!LandedIsPinned, LinkedIsSame, JobsKnown
  <1>6. Library!ConvertedIsAlone'
    BY <1>1 DEF Library!ConvertedIsAlone, JobsKnown
  <1> QED BY <1>2, <1>3, <1>4, <1>5, <1>6 DEF LibIInv

LEMMA ReferenceSafe ==
  ASSUME LibIInv, Library!Reference
  PROVE  LibIInv'
PROOF
  <1> USE DEF LibTypes, Downloading, Exported, Converting, Parting, Library!Files, Library!Weights,
              Library!Reference, Library!Put, Library!Goes
  <1>1. LibTypes /\ LinkedIsSame /\ JobsKnown /\ Library!LandedIsPinned /\ Library!ConvertedIsAlone
    BY DEF LibIInv
  <1>2. LibTypes'
    BY <1>1 DEF LibTypes
  <1>3. LinkedIsSame'
    BY <1>1 DEF LinkedIsSame, JobsKnown
  <1>4. JobsKnown'
    BY <1>1 DEF JobsKnown
  <1>5. Library!LandedIsPinned'
    BY <1>1 DEF Library!LandedIsPinned, LinkedIsSame, JobsKnown
  <1>6. Library!ConvertedIsAlone'
    BY <1>1 DEF Library!ConvertedIsAlone, JobsKnown
  <1> QED BY <1>2, <1>3, <1>4, <1>5, <1>6 DEF LibIInv

LEMMA GateSafe ==
  ASSUME LibIInv, Library!Gate
  PROVE  LibIInv'
PROOF
  <1> USE DEF LibTypes, Downloading, Exported, Converting, Parting, Library!Files, Library!Weights,
              Library!Gate, Library!Put, Library!Goes
  <1>1. LibTypes /\ LinkedIsSame /\ JobsKnown /\ Library!LandedIsPinned /\ Library!ConvertedIsAlone
    BY DEF LibIInv
  <1>2. LibTypes'
    BY <1>1 DEF LibTypes
  <1>3. LinkedIsSame'
    BY <1>1 DEF LinkedIsSame, JobsKnown
  <1>4. JobsKnown'
    BY <1>1 DEF JobsKnown
  <1>5. Library!LandedIsPinned'
    BY <1>1 DEF Library!LandedIsPinned, LinkedIsSame, JobsKnown
  <1>6. Library!ConvertedIsAlone'
    BY <1>1 DEF Library!ConvertedIsAlone, JobsKnown
  <1> QED BY <1>2, <1>3, <1>4, <1>5, <1>6 DEF LibIInv

LEMMA TidySafe ==
  ASSUME LibIInv, Library!Tidy
  PROVE  LibIInv'
PROOF
  <1> USE DEF LibTypes, Downloading, Exported, Converting, Parting, Library!Files, Library!Weights,
              Library!Tidy, Library!Put, Library!Ends
  <1>1. LibTypes /\ LinkedIsSame /\ JobsKnown /\ Library!LandedIsPinned /\ Library!ConvertedIsAlone
    BY DEF LibIInv
  <1>2. LibTypes'
    BY <1>1 DEF LibTypes
  <1>3. LinkedIsSame'
    BY <1>1 DEF LinkedIsSame, JobsKnown
  <1>4. JobsKnown'
    BY <1>1 DEF JobsKnown
  <1>5. Library!LandedIsPinned'
    BY <1>1 DEF Library!LandedIsPinned, LinkedIsSame, JobsKnown
  <1>6. Library!ConvertedIsAlone'
    BY <1>1 DEF Library!ConvertedIsAlone, JobsKnown
  <1> QED BY <1>2, <1>3, <1>4, <1>5, <1>6 DEF LibIInv

LEMMA StartFp16Safe ==
  ASSUME LibIInv, Library!StartFp16
  PROVE  LibIInv'
PROOF
  <1> USE DEF LibTypes, Downloading, Exported, Converting, Parting, Library!Files, Library!Weights,
              Library!StartFp16, Library!Start, Library!NoJob
  <1>1. LibTypes /\ LinkedIsSame /\ JobsKnown /\ Library!LandedIsPinned /\ Library!ConvertedIsAlone
    BY DEF LibIInv
  <1>2. LibTypes'
    BY <1>1 DEF LibTypes
  <1>3. LinkedIsSame'
    BY <1>1 DEF LinkedIsSame, JobsKnown
  <1>4. JobsKnown'
    BY <1>1 DEF JobsKnown
  <1>5. Library!LandedIsPinned'
    BY <1>1 DEF Library!LandedIsPinned, LinkedIsSame, JobsKnown
  <1>6. Library!ConvertedIsAlone'
    BY <1>1 DEF Library!ConvertedIsAlone, JobsKnown
  <1> QED BY <1>2, <1>3, <1>4, <1>5, <1>6 DEF LibIInv

LEMMA StartWeightsSafe ==
  ASSUME LibIInv, Library!StartWeights
  PROVE  LibIInv'
PROOF
  <1> USE DEF LibTypes, Downloading, Exported, Converting, Parting, Library!Files, Library!Weights,
              Library!StartWeights, Library!Start, Library!NoJob
  <1>1. LibTypes /\ LinkedIsSame /\ JobsKnown /\ Library!LandedIsPinned /\ Library!ConvertedIsAlone
    BY DEF LibIInv
  <1>2. LibTypes'
    BY <1>1 DEF LibTypes
  <1>3. LinkedIsSame'
    BY <1>1 DEF LinkedIsSame, JobsKnown
  <1>4. JobsKnown'
    BY <1>1 DEF JobsKnown
  <1>5. Library!LandedIsPinned'
    BY <1>1 DEF Library!LandedIsPinned, LinkedIsSame, JobsKnown
  <1>6. Library!ConvertedIsAlone'
    BY <1>1 DEF Library!ConvertedIsAlone, JobsKnown
  <1> QED BY <1>2, <1>3, <1>4, <1>5, <1>6 DEF LibIInv

LEMMA LookSafe ==
  ASSUME LibIInv, Library!Look
  PROVE  LibIInv'
PROOF
  <1> USE DEF LibTypes, Downloading, Exported, Converting, Parting, Library!Files, Library!Weights,
              Library!Look, Library!Kept, Library!Goes, Library!Ends
  <1>1. LibTypes /\ LinkedIsSame /\ JobsKnown /\ Library!LandedIsPinned /\ Library!ConvertedIsAlone
    BY DEF LibIInv
  <1>2. LibTypes'
    BY <1>1 DEF LibTypes
  <1>3. LinkedIsSame'
    BY <1>1 DEF LinkedIsSame, JobsKnown
  <1>4. JobsKnown'
    BY <1>1 DEF JobsKnown
  <1>5. Library!LandedIsPinned'
    BY <1>1 DEF Library!LandedIsPinned, LinkedIsSame, JobsKnown
  <1>6. Library!ConvertedIsAlone'
    BY <1>1 DEF Library!ConvertedIsAlone, JobsKnown
  <1> QED BY <1>2, <1>3, <1>4, <1>5, <1>6 DEF LibIInv

LEMMA SavedSafe ==
  ASSUME LibIInv, Library!Saved
  PROVE  LibIInv'
PROOF
  <1> USE DEF LibTypes, Downloading, Exported, Converting, Parting, Library!Files, Library!Weights,
              Library!Saved, Library!Aborted, Library!Goes, Library!Ends
  <1>1. LibTypes /\ LinkedIsSame /\ JobsKnown /\ Library!LandedIsPinned /\ Library!ConvertedIsAlone
    BY DEF LibIInv
  <1>2. LibTypes'
    BY <1>1 DEF LibTypes
  <1>3. LinkedIsSame'
    BY <1>1 DEF LinkedIsSame, JobsKnown
  <1>4. JobsKnown'
    BY <1>1 DEF JobsKnown
  <1>5. Library!LandedIsPinned'
    BY <1>1 DEF Library!LandedIsPinned, LinkedIsSame, JobsKnown
  <1>6. Library!ConvertedIsAlone'
    BY <1>1 DEF Library!ConvertedIsAlone, JobsKnown
  <1> QED BY <1>2, <1>3, <1>4, <1>5, <1>6 DEF LibIInv

LEMMA HashedSafe ==
  ASSUME LibIInv, Library!Hashed
  PROVE  LibIInv'
PROOF
  <1> USE DEF LibTypes, Downloading, Exported, Converting, Parting, Library!Files, Library!Weights,
              Library!Hashed, Library!Aborted, Library!Goes, Library!Ends
  <1>1. LibTypes /\ LinkedIsSame /\ JobsKnown /\ Library!LandedIsPinned /\ Library!ConvertedIsAlone
    BY DEF LibIInv
  <1>2. LibTypes'
    BY <1>1 DEF LibTypes
  <1>3. LinkedIsSame'
    BY <1>1 DEF LinkedIsSame, JobsKnown
  <1>4. JobsKnown'
    BY <1>1 DEF JobsKnown
  <1>5. Library!LandedIsPinned'
    BY <1>1 DEF Library!LandedIsPinned, LinkedIsSame, JobsKnown
  <1>6. Library!ConvertedIsAlone'
    BY <1>1 DEF Library!ConvertedIsAlone, JobsKnown
  <1> QED BY <1>2, <1>3, <1>4, <1>5, <1>6 DEF LibIInv

LEMMA RenameSafe ==
  ASSUME LibIInv, Library!Rename
  PROVE  LibIInv'
PROOF
  <1> USE DEF LibTypes, Downloading, Exported, Converting, Parting, Library!Files, Library!Weights,
              Library!Rename, Library!Renamed, Library!Put, Library!Ends
  <1>1. LibTypes /\ LinkedIsSame /\ JobsKnown /\ Library!LandedIsPinned /\ Library!ConvertedIsAlone
    BY DEF LibIInv
  <1>2. LibTypes'
    BY <1>1 DEF LibTypes
  <1>3. LinkedIsSame'
    BY <1>1 DEF LinkedIsSame, JobsKnown
  <1>4. JobsKnown'
    BY <1>1 DEF JobsKnown
  <1>5. Library!LandedIsPinned'
    BY <1>1 DEF Library!LandedIsPinned, LinkedIsSame, JobsKnown
  <1>6. Library!ConvertedIsAlone'
    BY <1>1 DEF Library!ConvertedIsAlone, JobsKnown
  <1> QED BY <1>2, <1>3, <1>4, <1>5, <1>6 DEF LibIInv

LEMMA KilledSafe ==
  ASSUME LibIInv, Library!Killed
  PROVE  LibIInv'
PROOF
  <1> USE DEF LibTypes, Downloading, Exported, Converting, Parting, Library!Files, Library!Weights,
              Library!Killed
  <1>1. LibTypes /\ LinkedIsSame /\ JobsKnown /\ Library!LandedIsPinned /\ Library!ConvertedIsAlone
    BY DEF LibIInv
  <1>2. LibTypes'
    BY <1>1 DEF LibTypes
  <1>3. LinkedIsSame'
    BY <1>1 DEF LinkedIsSame, JobsKnown
  <1>4. JobsKnown'
    BY <1>1 DEF JobsKnown
  <1>5. Library!LandedIsPinned'
    BY <1>1 DEF Library!LandedIsPinned, LinkedIsSame, JobsKnown
  <1>6. Library!ConvertedIsAlone'
    BY <1>1 DEF Library!ConvertedIsAlone, JobsKnown
  <1> QED BY <1>2, <1>3, <1>4, <1>5, <1>6 DEF LibIInv

LEMMA LibraryStep ==
  ASSUME LibIInv, [Library!LibNext]_Library!libVars
  PROVE  LibIInv'
PROOF
  <1>1. CASE UNCHANGED Library!libVars
    BY <1>1 DEF Library!libVars, LibIInv, LibTypes, LinkedIsSame, JobsKnown, Library!LandedIsPinned,
                Library!ConvertedIsAlone
  <1> QED BY <1>1, StartDownloadSafe, FetchedSafe, VerifySafe, UnlinkSafe, LinkSafe, CopySafe,
             StartConvertSafe, ProbeSafe, ExportSafe, ExportEndsSafe, SimplifySafe, SimplifiedSafe,
             ValidateSafe, ReferenceSafe, GateSafe, TidySafe, StartFp16Safe, StartWeightsSafe,
             LookSafe, SavedSafe, HashedSafe, RenameSafe, KilledSafe DEF Library!LibNext

\* Only a .part file that has been checked is put under a weight's name.
LEMMA WeightsStayStep ==
  ASSUME LibIInv, [Library!LibNext]_Library!libVars, NEW f \in Library!Weights, dir'[f] # dir[f]
  PROVE  /\ dir'[f] \notin {"torn", "none"}
         /\ f = "rmvpe" => dir'[f] = "pinned" \/ job.trusting
PROOF
  <1> USE DEF LibTypes, Library!Weights, Library!Files, Downloading, Exported, Converting, Parting, Library!Put
  <1>0. LibTypes /\ JobsKnown
    BY DEF LibIInv
  <1>1. CASE Library!Rename
    BY <1>0, <1>1 DEF Library!Rename, Library!Renamed, Library!Ends, JobsKnown
  <1>2. CASE \/ Library!Unlink \/ Library!Link \/ Library!Copy \/ Library!Export
             \/ Library!Exported \/ Library!Simplify \/ Library!Simplified \/ Library!Reference
             \/ Library!Gate \/ Library!Tidy
    <2>1. dir'[f] = dir[f]
      BY <1>0, <1>2 DEF JobsKnown, Library!PutInPlace, Library!Unlink, Library!Link, Library!Copy, Library!Export,
                        Library!Exported, Library!Simplify, Library!Simplified, Library!Reference,
                        Library!Gate, Library!Tidy
    <2> QED BY <2>1
  <1>3. CASE \/ Library!StartDownload \/ Library!Fetched \/ Library!Verify \/ Library!StartConvert
             \/ Library!Probe \/ Library!Validate \/ Library!StartFp16 \/ Library!StartWeights
             \/ Library!Look \/ Library!Saved \/ Library!Hashed \/ Library!Killed
             \/ UNCHANGED Library!libVars
    BY <1>3 DEF Library!Start, Library!Aborted, Library!libVars, Library!StartDownload, Library!Fetched, Library!Verify, Library!StartConvert,
                Library!Probe, Library!Validate, Library!StartFp16, Library!StartWeights,
                Library!Look, Library!Saved, Library!Hashed, Library!Killed
  <1> QED BY <1>1, <1>2, <1>3 DEF Library!LibNext

\* Whatever commands run, fail or are killed, on whatever library: what a
\* download says is there is what its hash pins, also after conversions wrote
\* through a hard link into the cache; a conversion that succeeds leaves nothing
\* else; and a foundation weight is never torn, missing or of the wrong hash.
LEMMA LibraryKeepsSafe == Library!LibSpec => Library!LibrarySafe
PROOF
  <1>1. Library!LibInit => LibIInv
    BY LibraryBegins
  <1>2. LibIInv /\ [Library!LibNext]_Library!libVars => LibIInv'
    BY LibraryStep
  <1>3. LibIInv => Library!LibraryInv
    BY DEF LibIInv, LibTypes, Library!LibraryInv, Library!LibTypeOK, Library!Dir, Library!Contents
  <1>4. LibIInv /\ [Library!LibNext]_Library!libVars
        => [\A f \in Library!Weights : dir'[f] # dir[f] =>
              /\ dir'[f] \notin {"torn", "none"}
              /\ f = "rmvpe" => dir'[f] = "pinned" \/ job.trusting]_Library!libVars
    BY WeightsStayStep
  <1> QED BY <1>1, <1>2, <1>3, <1>4, PTL DEF Library!LibSpec, Library!LibrarySafe, Library!WeightsStay

-----------------------------------------------------------------------------
(* Gaps in the pitch.                                                      *)

\* Where the voiced frames around a frame are; 0 and Window + 1 are none.
LEMMA VoicedBeforeIs ==
  ASSUME Pitch!PitchAssumption, NEW w, NEW i \in 1 .. Pitch!Window
  PROVE  /\ Pitch!VoicedBefore(w, i) \in 0 .. i - 1
         /\ Pitch!VoicedBefore(w, i) > 0 => w[Pitch!VoicedBefore(w, i)]
         /\ \A k \in 1 .. i - 1 : w[k] => k <= Pitch!VoicedBefore(w, i)
PROOF
  <1> DEFINE S == {0} \cup {k \in 1 .. i - 1 : w[k]}
  <1>1. Pitch!Window \in Nat
    BY DEF Pitch!PitchAssumption, Pitch!Window
  <1>2. i - 1 \in Nat /\ S \in SUBSET (0 .. i - 1) /\ S # {}
    BY <1>1
  <1> HIDE DEF S
  <1>3. \E n \in S : \A k \in S : n >= k
    <2>1. PICK n \in S : \A k \in S : k <= n
      BY <1>2, GreatestNumber
    <2>2. \A k \in S : k \in Int
      BY <1>2
    <2> QED BY <2>1, <2>2
  <1>4. Pitch!Max(S) \in S /\ \A k \in S : Pitch!Max(S) >= k
    BY <1>3 DEF Pitch!Max
  <1>5. Pitch!VoicedBefore(w, i) = Pitch!Max(S)
    BY DEF Pitch!VoicedBefore, S
  <1>6. \A k \in S : k \in 0 .. i - 1 /\ (k > 0 => w[k])
    BY <1>1 DEF S
  <1>7. \A k \in 1 .. i - 1 : w[k] => k \in S
    BY DEF S
  <1> QED BY <1>1, <1>4, <1>5, <1>6, <1>7

LEMMA VoicedAfterIs ==
  ASSUME Pitch!PitchAssumption, NEW w, NEW i \in 1 .. Pitch!Window
  PROVE  /\ Pitch!VoicedAfter(w, i) \in i + 1 .. Pitch!Window + 1
         /\ Pitch!VoicedAfter(w, i) <= Pitch!Window => w[Pitch!VoicedAfter(w, i)]
         /\ \A k \in i + 1 .. Pitch!Window : w[k] => Pitch!VoicedAfter(w, i) <= k
PROOF
  <1> DEFINE S == {Pitch!Window + 1} \cup {k \in i + 1 .. Pitch!Window : w[k]}
  <1>1. Pitch!Window \in Nat
    BY DEF Pitch!PitchAssumption, Pitch!Window
  <1>2. S \in SUBSET Nat /\ S # {}
    BY <1>1
  <1> HIDE DEF S
  <1>3. \E n \in S : \A k \in S : n <= k
    BY <1>2, LeastNumber
  <1>4. Pitch!Min(S) \in S /\ \A k \in S : Pitch!Min(S) <= k
    BY <1>3 DEF Pitch!Min
  <1>5. Pitch!VoicedAfter(w, i) = Pitch!Min(S)
    BY DEF Pitch!VoicedAfter, S
  <1>6. \A k \in S : k \in i + 1 .. Pitch!Window + 1 /\ (k <= Pitch!Window => w[k])
    BY <1>1 DEF S
  <1>7. \A k \in i + 1 .. Pitch!Window : w[k] => k \in S
    BY DEF S
  <1> QED BY <1>1, <1>4, <1>5, <1>6, <1>7

\* What a stretch of a sequence is.
LEMMA Stretch ==
  ASSUME NEW S, NEW h \in Seq(S), NEW m \in Nat, NEW n \in Nat, m + n <= Len(h)
  PROVE  SubSeq(h, m + 1, m + n) = [i \in 1 .. n |-> h[m + i]]
PROOF
  OBVIOUS

SungIn(sig, i) ==
  \/ sig[i]
  \/ \E a \in 1 .. i - 1, b \in i + 1 .. Pitch!Older + Pitch!Window :
        sig[a] /\ sig[b] /\ b - a - 1 <= MaxGap

\* Frames that nobody has voiced are not sung.
LEMMA UnvoicedIsNotSung ==
  ASSUME Pitch!PitchAssumption, NEW i \in 1 .. Pitch!Window
  PROVE  ~SungIn(Pitch!Unvoiced, Pitch!Older + i)
PROOF
  <1>1. Pitch!Older \in Nat /\ Pitch!Window \in Nat
    BY DEF Pitch!PitchAssumption, Pitch!Window, Pitch!Older
  <1>2. \A k \in 1 .. Pitch!Older + Pitch!Window : ~Pitch!Unvoiced[k]
    BY DEF Pitch!Unvoiced
  <1>3. /\ Pitch!Older + i \in 1 .. Pitch!Older + Pitch!Window
        /\ \A k \in 1 .. Pitch!Older + i - 1 : k \in 1 .. Pitch!Older + Pitch!Window
    BY <1>1
  <1> QED BY <1>2, <1>3 DEF SungIn

KeptFrom(sig, sung) ==
  /\ sig \in [1 .. Pitch!Older + Pitch!Window -> BOOLEAN]
  /\ \A i \in Dropped + 1 .. Pitch!Window : (i - Surplus) \in sung <=> SungIn(sig, Pitch!Older + i)

PitchIInv == KeptFrom(signal, pitch)

\* A gap that ends in the part that is kept begins in the window if it is short
\* enough to be bridged; so neither the frames before the window nor the carried
\* frame, which only bridges a short gap at the beginning, can make a difference.
LEMMA ShortGapsAreInTheWindow ==
  ASSUME Pitch!PitchAssumption,
         NEW sig \in [1 .. Pitch!Older + Pitch!Window -> BOOLEAN], NEW w,
         \A k \in 1 .. Pitch!Window : w[k] = sig[Pitch!Older + k] /\ w[k] \in BOOLEAN,
         NEW i \in Dropped + 1 .. Pitch!Window
  PROVE  /\ ~Pitch!BridgedByCarry(w, i)
         /\ w[i] \/ Pitch!Bridged(w, i) <=> SungIn(sig, Pitch!Older + i)
PROOF
  <1> DEFINE W == Pitch!Window
  <1>0. /\ W \in Nat /\ MaxGap \in Nat /\ Dropped \in Nat
        /\ MaxGap <= Dropped /\ Pitch!Older = MaxGap /\ Pitch!Older \in Nat
        /\ \A k \in 1 .. W : w[k] = sig[Pitch!Older + k] /\ w[k] \in BOOLEAN
    <2>1. /\ W \in Nat /\ MaxGap \in Nat /\ Dropped \in Nat
          /\ MaxGap <= Dropped /\ Pitch!Older = MaxGap
      BY DEF Pitch!PitchAssumption, Pitch!Window, Pitch!Older
    <2>2. \A k \in 1 .. W : w[k] = sig[Pitch!Older + k] /\ w[k] \in BOOLEAN
      BY Zenon
    <2> QED BY <2>1, <2>2
  <1> DEFINE from == Pitch!VoicedBefore(w, i)
             to == Pitch!VoicedAfter(w, i)
  <1>1. i \in 1 .. W /\ i > MaxGap
    BY <1>0
  <1>2. /\ from \in 0 .. i - 1 /\ (from > 0 => w[from]) /\ \A k \in 1 .. i - 1 : w[k] => k <= from
        /\ to \in i + 1 .. W + 1 /\ (to <= W => w[to]) /\ \A k \in i + 1 .. W : w[k] => to <= k
    BY <1>1, VoicedBeforeIs, VoicedAfterIs
  <1>3. Pitch!Bridged(w, i) <=> from > 0 /\ to <= W /\ to - from - 1 <= MaxGap
    BY DEF Pitch!Bridged, Pitch!ShortGap
  <1>4. ~Pitch!BridgedByCarry(w, i)
    <2>1. Pitch!BridgedByCarry(w, i) => to - 1 <= MaxGap
      BY DEF Pitch!BridgedByCarry, Pitch!ShortGap
    <2> QED BY <1>0, <1>1, <1>2, <2>1
  <1>5. w[i] \in BOOLEAN
    BY <1>1
  <1>6. SungIn(sig, Pitch!Older + i)
        <=> \/ sig[Pitch!Older + i]
            \/ \E a \in 1 .. (Pitch!Older + i) - 1, b \in (Pitch!Older + i) + 1 .. Pitch!Older + W :
                  sig[a] /\ sig[b] /\ b - a - 1 <= MaxGap
    BY Zenon DEF SungIn
  <1>7. w[i] <=> sig[Pitch!Older + i]
    BY <1>1
  <1> HIDE DEF from, to, W
  <1>8. ASSUME from > 0, to <= W, to - from - 1 <= MaxGap
        PROVE  \E a \in 1 .. (Pitch!Older + i) - 1, b \in (Pitch!Older + i) + 1 .. Pitch!Older + W :
                  sig[a] /\ sig[b] /\ b - a - 1 <= MaxGap
    <2>1. Pitch!Older + from \in 1 .. (Pitch!Older + i) - 1 /\ Pitch!Older + to \in (Pitch!Older + i) + 1 .. Pitch!Older + W
      BY <1>0, <1>1, <1>2, <1>8
    <2>2. sig[Pitch!Older + from] /\ sig[Pitch!Older + to]
      BY <1>0, <1>0, <1>1, <1>2, <1>8
    <2>3. (Pitch!Older + to) - (Pitch!Older + from) - 1 <= MaxGap
      BY <1>0, <1>1, <1>2, <1>8
    <2> QED BY <2>1, <2>2, <2>3
  <1>9. ASSUME NEW a \in 1 .. (Pitch!Older + i) - 1, NEW b \in (Pitch!Older + i) + 1 .. Pitch!Older + W,
               sig[a], sig[b], b - a - 1 <= MaxGap
        PROVE  from > 0 /\ to <= W /\ to - from - 1 <= MaxGap
    <2> DEFINE c == a - Pitch!Older
               d == b - Pitch!Older
    <2>1. d \in i + 1 .. W /\ c \in Int /\ d - c - 1 <= MaxGap
      BY <1>0, <1>1, <1>9
    <2>2. c \in 1 .. i - 1
      BY <1>0, <1>1, <2>1
    <2>3. Pitch!Older + c = a /\ Pitch!Older + d = b
      BY <1>0, <1>1
    <2> HIDE DEF c, d
    <2>4. w[c] /\ w[d]
      BY <1>0, <1>0, <1>1, <1>9, <2>1, <2>2, <2>3
    <2>5. c <= from /\ to <= d
      BY <1>2, <2>1, <2>2, <2>4
    <2> QED BY <1>0, <1>1, <1>2, <2>1, <2>2, <2>5
  <1> QED BY <1>3, <1>4, <1>5, <1>6, <1>7, <1>8, <1>9

\* What the next chunk makes of the pitch is kept from its own signal.
LEMMA ChunkKeepsPitch ==
  ASSUME Pitch!PitchAssumption, PitchIInv,
         NEW fresh \in [1 .. New -> BOOLEAN], Pitch!Chunk(fresh)
  PROVE  PitchIInv'
PROOF
  <1> DEFINE W == Pitch!Window
             sound == signal \o fresh
             w == SubSeq(sound, New + Pitch!Older + 1, New + Pitch!Older + Pitch!Window)
             carried == {i \in 1 .. Pitch!Window : ~w[i] /\ Pitch!BridgedByCarry(w, i)}
             filled == {i \in 1 .. Pitch!Window : w[i] \/ Pitch!Bridged(w, i)} \cup carried
  <1>1. /\ W \in Nat /\ New \in Nat /\ MaxGap \in Nat /\ Dropped \in Nat /\ Surplus \in Nat
        /\ MaxGap <= Dropped /\ Surplus <= Dropped /\ New > 0 /\ Pitch!Older = MaxGap
        /\ Pitch!Older \in Nat
    BY DEF Pitch!PitchAssumption, Pitch!Window, Pitch!Older
  <1>2. /\ signal' = SubSeq(sound, New + 1, New + Pitch!Older + Pitch!Window)
        /\ pitch' = Pitch!Aligned(filled)
    BY Zenon DEF Pitch!Chunk
  <1>3. sound \in Seq(BOOLEAN) /\ Len(sound) = Pitch!Older + W + New
    <2>1. signal \in Seq(BOOLEAN) /\ Len(signal) = Pitch!Older + W
      BY <1>1 DEF PitchIInv, KeptFrom
    <2>2. fresh \in Seq(BOOLEAN) /\ Len(fresh) = New
      BY <1>1
    <2> QED BY <2>1, <2>2
  <1> HIDE DEF sound
  <1>4. signal' \in [1 .. Pitch!Older + W -> BOOLEAN] /\ \A i \in 1 .. Pitch!Older + W : signal'[i] = sound[New + i]
    <2>1. Pitch!Older + W \in Nat /\ New + (Pitch!Older + W) <= Len(sound)
      BY <1>1, <1>3
    <2>2. signal' = SubSeq(sound, New + 1, New + (Pitch!Older + W))
      BY <1>1, <1>2
    <2> DEFINE n == Pitch!Older + W
    <2> HIDE DEF n
    <2>3. SubSeq(sound, New + 1, New + n) = [i \in 1 .. n |-> sound[New + i]]
      BY <1>1, <1>3, <2>1, Stretch DEF n
    <2>4. \A i \in 1 .. n : sound[New + i] \in BOOLEAN
      BY <1>1, <1>3, <2>1 DEF n
    <2> QED BY <2>2, <2>3, <2>4 DEF n
  <1>5. \A i \in 1 .. W : w[i] = signal'[Pitch!Older + i] /\ w[i] \in BOOLEAN
    <2>1. New + Pitch!Older \in Nat /\ (New + Pitch!Older) + W <= Len(sound)
      BY <1>1, <1>3
    <2>2. w = SubSeq(sound, (New + Pitch!Older) + 1, (New + Pitch!Older) + W)
      BY <1>1
    <2> HIDE DEF W, w
    <2>3. \A i \in 1 .. W : w[i] = sound[(New + Pitch!Older) + i]
      <3> DEFINE m == New + Pitch!Older
      <3> HIDE DEF m
      <3>1. m \in Nat /\ m + W <= Len(sound)
        BY <2>1 DEF m
      <3>2. SubSeq(sound, m + 1, m + W) = [i \in 1 .. W |-> sound[m + i]]
        BY <1>1, <1>3, <3>1, Stretch
      <3> QED BY <2>2, <3>2 DEF m
    <2>4. ASSUME NEW i \in 1 .. W
          PROVE  signal'[Pitch!Older + i] = w[i] /\ signal'[Pitch!Older + i] \in BOOLEAN
      <3>1. Pitch!Older + i \in 1 .. Pitch!Older + W /\ New + (Pitch!Older + i) = (New + Pitch!Older) + i
        BY <1>1
      <3> QED BY <1>4, <2>3, <3>1
    <2> QED BY <2>4
  <1> HIDE DEF w
  <1>6. \A i \in Dropped + 1 .. W : i \in filled <=> SungIn(signal', Pitch!Older + i)
    <2>1. signal' \in [1 .. Pitch!Older + Pitch!Window -> BOOLEAN]
      BY <1>4
    <2>2. \A i \in 1 .. Pitch!Window : w[i] = signal'[Pitch!Older + i] /\ w[i] \in BOOLEAN
      BY <1>5
    <2> HIDE DEF W
    <2> TAKE i \in Dropped + 1 .. W
    <2>3. /\ ~Pitch!BridgedByCarry(w, i)
          /\ w[i] \/ Pitch!Bridged(w, i) <=> SungIn(signal', Pitch!Older + i)
      BY <2>1, <2>2, ShortGapsAreInTheWindow DEF W
    <2>4. i \in 1 .. W
      BY <1>1
    <2>5. w[i] \in BOOLEAN
      BY <2>2, <2>4 DEF W
    <2> QED BY <2>3, <2>4, <2>5 DEF W
  <1>7. \A i \in Dropped + 1 .. W : (i - Surplus) \in pitch' <=> i \in filled
    <2>1. pitch' = {i - Surplus : i \in filled} \ (1 - Surplus .. 0)
      BY <1>2 DEF Pitch!Aligned
    <2>2. filled \subseteq 1 .. W
      OBVIOUS
    <2> HIDE DEF filled
    <2> TAKE i \in Dropped + 1 .. W
    <2>3. i \in Int /\ i - Surplus \notin 1 - Surplus .. 0
      BY <1>1
    <2>4. (i - Surplus) \in {k - Surplus : k \in filled} <=> i \in filled
      <3>1. ASSUME NEW k \in filled, i - Surplus = k - Surplus PROVE i = k
        BY <1>1, <2>2, <2>3, <3>1
      <3> QED BY <3>1
    <2> QED BY <2>1, <2>3, <2>4
  <1>8. KeptFrom(signal', pitch')
    BY <1>4, <1>6, <1>7 DEF KeptFrom
  <1> QED BY <1>8 DEF PitchIInv

\* For every window, chunk and longest gap, whatever frames are voiced: in the
\* part of the output that is kept, each frame has a pitch just when it is
\* voiced or in a short gap of the whole signal, as if there were no chunks.
LEMMA PitchIsKept ==
  ASSUME Pitch!PitchAssumption
  PROVE  Pitch!PitchSpec => []Pitch!PitchKept
PROOF
  <1>1. KeptFrom(Pitch!Unvoiced, {})
    <2>1. Pitch!Unvoiced \in [1 .. Pitch!Older + Pitch!Window -> BOOLEAN]
      BY DEF Pitch!Unvoiced
    <2>2. Dropped + 1 .. Pitch!Window \subseteq 1 .. Pitch!Window
      BY DEF Pitch!PitchAssumption, Pitch!Window
    <2> QED BY <2>1, <2>2, UnvoicedIsNotSung DEF KeptFrom
  <1>2. Pitch!PitchInit => PitchIInv
    BY <1>1, Zenon DEF Pitch!PitchInit, PitchIInv
  <1>3. PitchIInv /\ [Pitch!PitchNext]_Pitch!pitchVars => PitchIInv'
    <2> SUFFICES ASSUME PitchIInv, [Pitch!PitchNext]_Pitch!pitchVars PROVE PitchIInv'
      OBVIOUS
    <2>1. CASE Pitch!ResetCarry
      BY <1>1, <2>1, Zenon DEF Pitch!ResetCarry, PitchIInv
    <2>2. CASE UNCHANGED Pitch!pitchVars
      BY <2>2 DEF Pitch!pitchVars, PitchIInv
    <2> QED BY <2>1, <2>2, ChunkKeepsPitch DEF Pitch!PitchNext
  <1>4. PitchIInv => Pitch!PitchKept
    <2> SUFFICES ASSUME PitchIInv PROVE Pitch!PitchKept
      OBVIOUS
    <2>1. Pitch!Older \in Nat /\ Pitch!Window \in Nat
      BY DEF Pitch!PitchAssumption, Pitch!Window, Pitch!Older
    <2>2. Len(signal) = Pitch!Older + Pitch!Window
      BY <2>1 DEF PitchIInv, KeptFrom
    <2>3. \A i : Pitch!Sung(i) <=> SungIn(signal, i)
      BY <2>2 DEF Pitch!Sung, SungIn
    <2> QED BY <2>3, Zenon DEF PitchIInv, KeptFrom, Pitch!PitchKept
  <1> QED BY <1>2, <1>3, <1>4, PTL DEF Pitch!PitchSpec


-----------------------------------------------------------------------------
(* The virtual microphone and the chain.                                   *)

\* The chain's instances of library operators are the library's.
LEMMA CountingHere ==
  ASSUME NEW S
  PROVE  (Setups!IsFiniteSet(S) <=> IsFiniteSet(S)) /\ Setups!Cardinality(S) = Cardinality(S)
PROOF
  <1>1. Setups!IsFiniteSet(S) <=> IsFiniteSet(S)
    BY DEF Setups!IsFiniteSet, IsFiniteSet
  <1>2. Setups!Cardinality(S) = Cardinality(S)
    BY DEF Setups!Cardinality, Cardinality
  <1> QED BY <1>1, <1>2

LEMMA LeastHere ==
  ASSUME NEW S \in SUBSET Nat, S # {}
  PROVE  Setups!Min(S) \in S
PROOF
  <1>1. \E n \in S : \A k \in S : n <= k
    BY LeastNumber
  <1> QED BY <1>1 DEF Setups!Min

-----------------------------------------------------------------------------
(* The modules of the audio server.                                        *)

PwKinds == {"mic", "sink", "legacy"}
RelabelCalls == {"relabel", "relabel-unload", "relabel-load", "relabel-back"}
ClearCalls == {"list", "unload", "cleared"}
CallsOf == [o \in Setups!Ops |->
  CASE o = "setup" -> {"idle", "check", "rollback", "rolling"} \cup ClearCalls \cup Setups!ChainKinds \cup RelabelCalls
    [] o = "teardown" -> {"idle"} \cup ClearCalls \cup RelabelCalls
    [] o = "enable" -> {"idle", "unit", "started"}
    [] o = "disable" -> {"idle", "unit", "stopped"} \cup ClearCalls
    [] o = "pw-setup" -> {"idle", "legacy", "state", "sweep", "sweeping", "mic", "ready"}
    [] o = "pw-teardown" -> {"idle", "pw-list", "pw-unload", "sweeping"}]
CallNames == UNION {CallsOf[o] : o \in Setups!Ops}

Chained == Setups!OfKind(Setups!ChainKinds)
Mics == Setups!OfKind({"mic"})
Busy(p) == callAt[p] # "idle"

ServerTypes ==
  /\ loaded \in SUBSET Setups!Modules /\ IsFiniteSet(loaded)
  /\ op \in [Cmds -> Setups!Ops] /\ callAt \in [Cmds -> CallNames]
  /\ via \in [Cmds -> {"cli", "enable", "disable"}]
  /\ pending \in [Cmds -> SUBSET Setups!Modules] /\ oldMic \in [Cmds -> SUBSET Setups!Modules]
  /\ \A p \in Cmds : IsFiniteSet(pending[p]) /\ IsFiniteSet(oldMic[p])
  /\ stuck \in [Cmds -> BOOLEAN] /\ alone \in [Cmds -> BOOLEAN] /\ had \in [Cmds -> BOOLEAN]
  /\ result \in [Cmds -> {0, 1, 2, 9}]
  /\ faults \in Nat /\ deaths \in Nat
  /\ \A m, n \in Mics : m = n

\* A command is at one of its calls, and remembers what that call is about.
InPlace(p) ==
  /\ callAt[p] \in CallsOf[op[p]]
  /\ via[p] = "enable" => op[p] = "setup" /\ Busy(p)
  /\ via[p] = "disable" => op[p] = "teardown" /\ Busy(p)
  /\ callAt[p] \in {"unload", "rolling"} => \A m \in pending[p] : m.kind \in Setups!ChainKinds
  /\ callAt[p] \in {"pw-unload", "sweeping"} => \A m \in pending[p] : m.kind \in PwKinds
  /\ callAt[p] \in {"relabel-unload", "relabel-load", "relabel-back"} => \E m \in Setups!Modules : oldMic[p] = {m} /\ m.kind = "mic"
  /\ stuck[p] => faults > 0

\* Of two commands at once one is `pw setup`, also when one has ended since the
\* other began; and a command is alone only while nothing else runs.
Turns(p, q) ==
  /\ Busy(p) /\ Busy(q) => op[p] = "pw-setup" \/ op[q] = "pw-setup"
  /\ ~Busy(p) /\ Busy(q) /\ result[p] # 9 => op[p] = "pw-setup" \/ op[q] = "pw-setup"
  /\ alone[p] => ~Busy(q)

One(k) == \E m \in loaded : Setups!OfKind({k}) = {m}
\* The modules before k are loaded, once each, and no others.
LoadedUpTo(k) ==
  \A j \in Setups!ChainKinds : IF Setups!LoadOrder[j] < Setups!LoadOrder[k] THEN One(j) ELSE Setups!OfKind({j}) = {}
Complete == (\A k \in Setups!ChainKinds : One(k)) /\ \A m \in Setups!OfKind({"user-source"}) : m.label = "daily"

\* What of the chain is loaded at each call of setup and teardown.
Calm(p) == alone[p] \/ deaths = 0
Content(p) ==
  Calm(p) =>
    /\ callAt[p] = "unload" => stuck[p] \/ Chained \subseteq pending[p]
    /\ callAt[p] = "cleared" => stuck[p] \/ Chained = {}
    /\ \A k \in Setups!ChainKinds : callAt[p] = k => LoadedUpTo(k)
    /\ callAt[p] = "rollback" => faults > 0
    /\ callAt[p] = "rolling" => faults > 0 /\ (faults > 1 \/ Chained \subseteq pending[p])
    /\ callAt[p] \in RelabelCalls => IF op[p] = "setup" THEN Complete ELSE Chained = {}

\* Between calls that change the chain it is whole or not there, until a call
\* fails; a setup answers for it.
Inside(p) == callAt[p] \in {"unload", "cleared", "rollback", "rolling"} \cup Setups!ChainKinds
Steady == faults = 0 /\ deaths = 0 /\ (\A p \in Cmds : ~Inside(p)) => Setups!AllOrNothing
Sound(p) == faults > 1 \/ stuck[p] \/ Setups!AllOrNothing
Answers(p) ==
  deaths = 0 =>
    /\ callAt[p] = "started" => result[p] # 9 /\ (had[p] => Sound(p))
    /\ Setups!HasSetUp(p) => Sound(p)

\* But for `pw setup` and `pw teardown`, woys-mic is there but between the unload and the load of a relabel.
MicKept(p) ==
  alone[p] /\ had[p] /\ op[p] \notin {"pw-setup", "pw-teardown"} /\ deaths = 0 =>
    /\ callAt[p] \notin {"relabel-load", "relabel-back"} => faults > 1 \/ Mics # {}
    /\ callAt[p] = "relabel-back" => faults > 0 \/ Mics # {}

\* ActiveIsWhole, of one command.
Whole == Complete /\ \A m \in Mics : m.label # "daily"
Reported(p) ==
  /\ Setups!Says(p, "setup", 0) => Whole
  /\ Setups!Says(p, "teardown", 0) => Chained = {} /\ \A m \in Mics : m.label = "daily"
  /\ Setups!Says(p, "teardown", 1) \/ Setups!Says(p, "disable", 0) => Chained = {}
  /\ Setups!Says(p, "pw-teardown", 0) => Setups!OfKind(PwKinds) = {}

Own(p) == InPlace(p) /\ Content(p) /\ Answers(p) /\ MicKept(p) /\ Reported(p)
ServerIInv ==
  /\ ServerTypes /\ Steady
  /\ \A p \in Cmds : Own(p) /\ \A q \in Cmds \ {p} : Turns(p, q)

-----------------------------------------------------------------------------
(* What one call may change.                                               *)

\* What a call of p changes is its own affair, but for what is loaded; and
\* `pw setup` does not touch the chain.
Touches(p) ==
  /\ \A q \in Cmds \ {p} :
       /\ callAt'[q] = callAt[q] /\ op'[q] = op[q] /\ via'[q] = via[q] /\ pending'[q] = pending[q]
       /\ stuck'[q] = stuck[q] /\ oldMic'[q] = oldMic[q] /\ result'[q] = result[q]
  /\ alone' = alone /\ (\A q \in Cmds : had'[q] => had[q]) /\ faults' >= faults /\ deaths' >= deaths
  /\ Busy(p) /\ (op'[p] = "pw-setup" <=> op[p] = "pw-setup")
  /\ op[p] = "pw-setup" => Chained' = Chained

SteadyStays(p) ==
  \/ Chained' = Chained /\ ~Inside(p)
  \/ Inside(p)'
  \/ faults' > 0 \/ deaths' > 0 \/ Setups!AllOrNothing'

Kept(p) == ServerTypes' /\ Touches(p) /\ SteadyStays(p) /\ Own(p)'

ServerStep ==
  /\ loaded' \in SUBSET Setups!Modules /\ IsFiniteSet(loaded') /\ \A m, n \in Mics' : m = n
  /\ faults' \in Nat /\ faults' >= faults /\ deaths' \in Nat /\ deaths' >= deaths
  /\ alone' = alone /\ (had' = had \/ \E q \in Cmds : had' = [had EXCEPT ![q] = FALSE])

Becomes(p, a, o, v, t, s, m, r) ==
  /\ callAt' = [callAt EXCEPT ![p] = a] /\ op' = [op EXCEPT ![p] = o] /\ via' = [via EXCEPT ![p] = v]
  /\ pending' = [pending EXCEPT ![p] = t] /\ stuck' = [stuck EXCEPT ![p] = s]
  /\ oldMic' = [oldMic EXCEPT ![p] = m] /\ result' = [result EXCEPT ![p] = r]

LEMMA Became ==
  ASSUME ServerTypes, ServerStep, NEW p \in Cmds,
         NEW a \in CallNames, NEW o \in Setups!Ops, NEW v \in {"cli", "enable", "disable"},
         NEW t \in SUBSET Setups!Modules, IsFiniteSet(t), NEW s \in BOOLEAN,
         NEW m \in SUBSET Setups!Modules, IsFiniteSet(m), NEW r \in {0, 1, 2, 9},
         Becomes(p, a, o, v, t, s, m, r)
  PROVE  /\ ServerTypes'
         /\ callAt'[p] = a /\ op'[p] = o /\ via'[p] = v /\ pending'[p] = t /\ stuck'[p] = s
         /\ oldMic'[p] = m /\ result'[p] = r /\ alone'[p] = alone[p] /\ (\A q \in Cmds : had'[q] => had[q])
         /\ \A q \in Cmds \ {p} :
              /\ callAt'[q] = callAt[q] /\ op'[q] = op[q] /\ via'[q] = via[q] /\ pending'[q] = pending[q]
              /\ stuck'[q] = stuck[q] /\ oldMic'[q] = oldMic[q] /\ result'[q] = result[q]
PROOF
  <1>1. /\ callAt \in [Cmds -> CallNames] /\ op \in [Cmds -> Setups!Ops]
        /\ via \in [Cmds -> {"cli", "enable", "disable"}]
        /\ pending \in [Cmds -> SUBSET Setups!Modules] /\ oldMic \in [Cmds -> SUBSET Setups!Modules]
        /\ stuck \in [Cmds -> BOOLEAN] /\ result \in [Cmds -> {0, 1, 2, 9}]
        /\ \A q \in Cmds : IsFiniteSet(pending[q]) /\ IsFiniteSet(oldMic[q])
    BY DEF ServerTypes
  <1>2. /\ callAt' \in [Cmds -> CallNames] /\ op' \in [Cmds -> Setups!Ops]
        /\ via' \in [Cmds -> {"cli", "enable", "disable"}]
        /\ pending' \in [Cmds -> SUBSET Setups!Modules] /\ oldMic' \in [Cmds -> SUBSET Setups!Modules]
        /\ stuck' \in [Cmds -> BOOLEAN] /\ result' \in [Cmds -> {0, 1, 2, 9}]
    BY <1>1 DEF Becomes
  <1>3. /\ callAt'[p] = a /\ op'[p] = o /\ via'[p] = v /\ pending'[p] = t /\ stuck'[p] = s
        /\ oldMic'[p] = m /\ result'[p] = r
        /\ \A q \in Cmds \ {p} :
             /\ callAt'[q] = callAt[q] /\ op'[q] = op[q] /\ via'[q] = via[q] /\ pending'[q] = pending[q]
             /\ stuck'[q] = stuck[q] /\ oldMic'[q] = oldMic[q] /\ result'[q] = result[q]
    BY <1>1 DEF Becomes
  <1>4. \A q \in Cmds : IsFiniteSet(pending'[q]) /\ IsFiniteSet(oldMic'[q])
    BY <1>1, <1>3
  <1>5. /\ alone' = alone /\ alone' \in [Cmds -> BOOLEAN] /\ had' \in [Cmds -> BOOLEAN]
        /\ \A q \in Cmds : had'[q] => had[q]
    BY DEF ServerStep, ServerTypes
  <1>6. ServerTypes'
    BY <1>2, <1>4, <1>5 DEF ServerTypes, ServerStep
  <1> QED BY <1>3, <1>5, <1>6

\* Each command is as it was, for its calls to start from.
LEMMA TypesOf ==
  ASSUME ServerTypes, NEW p \in Cmds
  PROVE  /\ callAt[p] \in CallNames /\ op[p] \in Setups!Ops /\ via[p] \in {"cli", "enable", "disable"}
         /\ pending[p] \in SUBSET Setups!Modules /\ IsFiniteSet(pending[p]) /\ stuck[p] \in BOOLEAN
         /\ oldMic[p] \in SUBSET Setups!Modules /\ IsFiniteSet(oldMic[p]) /\ result[p] \in {0, 1, 2, 9}
         /\ alone[p] \in BOOLEAN /\ had[p] \in BOOLEAN
         /\ op = [op EXCEPT ![p] = op[p]] /\ via = [via EXCEPT ![p] = via[p]]
         /\ pending = [pending EXCEPT ![p] = pending[p]] /\ stuck = [stuck EXCEPT ![p] = stuck[p]]
         /\ oldMic = [oldMic EXCEPT ![p] = oldMic[p]] /\ result = [result EXCEPT ![p] = result[p]]
         /\ callAt = [callAt EXCEPT ![p] = callAt[p]]
PROOF
  <1>1. /\ callAt[p] \in CallNames /\ op[p] \in Setups!Ops /\ via[p] \in {"cli", "enable", "disable"}
        /\ pending[p] \in SUBSET Setups!Modules /\ IsFiniteSet(pending[p]) /\ stuck[p] \in BOOLEAN
        /\ oldMic[p] \in SUBSET Setups!Modules /\ IsFiniteSet(oldMic[p]) /\ result[p] \in {0, 1, 2, 9}
        /\ alone[p] \in BOOLEAN /\ had[p] \in BOOLEAN
    BY DEF ServerTypes
  <1>2. /\ op = [op EXCEPT ![p] = op[p]] /\ via = [via EXCEPT ![p] = via[p]]
        /\ pending = [pending EXCEPT ![p] = pending[p]] /\ stuck = [stuck EXCEPT ![p] = stuck[p]]
        /\ oldMic = [oldMic EXCEPT ![p] = oldMic[p]] /\ result = [result EXCEPT ![p] = result[p]]
        /\ callAt = [callAt EXCEPT ![p] = callAt[p]]
    BY DEF ServerTypes
  <1> QED BY <1>1, <1>2

-----------------------------------------------------------------------------
(* Modules that come and go.                                               *)

SameChain ==
  /\ Chained' = Chained /\ (Complete' <=> Complete) /\ (Setups!AllOrNothing' <=> Setups!AllOrNothing)
  /\ \A k \in Setups!ChainKinds : LoadedUpTo(k)' <=> LoadedUpTo(k)

\* What is said of the chain is said of its modules.
LEMMA ChainIsSame ==
  ASSUME Chained' = Chained
  PROVE  SameChain
PROOF
  <1>1. \A k \in Setups!ChainKinds : Setups!OfKind({k}) = {m \in Chained : m.kind = k}
    BY DEF Setups!OfKind, Chained
  <1>2. \A k \in Setups!ChainKinds : Setups!OfKind({k})' = {m \in Chained' : m.kind = k}
    BY DEF Setups!OfKind, Chained
  <1>3. \A k \in Setups!ChainKinds : Setups!OfKind({k})' = Setups!OfKind({k})
    BY <1>1, <1>2
  <1>4. \A k \in Setups!ChainKinds : One(k)' <=> One(k)
    <2> SUFFICES ASSUME NEW k \in Setups!ChainKinds PROVE One(k)' <=> One(k)
      OBVIOUS
    <2>1. Setups!OfKind({k}) \subseteq loaded /\ Setups!OfKind({k})' \subseteq loaded'
      BY DEF Setups!OfKind
    <2> QED BY <1>3, <2>1 DEF One
  <1>5. Complete' <=> Complete
    <2>1. Setups!OfKind({"user-source"})' = Setups!OfKind({"user-source"})
      BY <1>3 DEF Setups!ChainKinds
    <2> QED BY <1>4, <2>1 DEF Complete
  <1>6. Setups!AllOrNothing' <=> Setups!AllOrNothing
    BY DEF Setups!AllOrNothing, Chained
  <1>7. \A k \in Setups!ChainKinds : LoadedUpTo(k)' <=> LoadedUpTo(k)
    <2> SUFFICES ASSUME NEW k \in Setups!ChainKinds PROVE LoadedUpTo(k)' <=> LoadedUpTo(k)
      OBVIOUS
    <2>1. LoadedUpTo(k) <=> \A j \in Setups!ChainKinds : IF Setups!LoadOrder[j] < Setups!LoadOrder[k] THEN One(j) ELSE Setups!OfKind({j}) = {}
      BY DEF LoadedUpTo
    <2>2. LoadedUpTo(k)' <=> \A j \in Setups!ChainKinds : IF Setups!LoadOrder[j] < Setups!LoadOrder[k] THEN One(j)' ELSE Setups!OfKind({j})' = {}
      BY DEF LoadedUpTo
    <2> QED BY <1>3, <1>4, <2>1, <2>2
  <1> QED BY <1>5, <1>6, <1>7 DEF SameChain

\* Nothing of the chain is loaded, or all of it.
LEMMA NoneIsSound == Chained = {} => Setups!AllOrNothing
  BY DEF Setups!AllOrNothing, Chained

LEMMA CompleteIsSound == Complete => Setups!AllOrNothing
PROOF
  <1> SUFFICES ASSUME Complete PROVE Setups!AllOrNothing
    OBVIOUS
  <1>1. \A k \in Setups!ChainKinds : \E m \in loaded : m.kind = k
    <2> TAKE k \in Setups!ChainKinds
    <2>1. PICK m \in loaded : Setups!OfKind({k}) = {m}
      BY DEF Complete, One
    <2>2. m \in Setups!OfKind({k})
      BY <2>1
    <2> QED BY <2>2 DEF Setups!OfKind
  <1>2. {m.kind : m \in Setups!OfKind(Setups!ChainKinds)} = Setups!ChainKinds
    BY <1>1 DEF Setups!OfKind
  <1> QED BY <1>2 DEF Setups!AllOrNothing

LEMMA NothingMoved ==
  ASSUME ServerTypes, loaded' = loaded
  PROVE  /\ SameChain /\ Chained' = Chained /\ Mics' = Mics /\ Setups!OfKind(PwKinds)' = Setups!OfKind(PwKinds)
         /\ loaded' \in SUBSET Setups!Modules /\ IsFiniteSet(loaded') /\ \A m, n \in Mics' : m = n
PROOF
  <1>1. Chained' = Chained /\ Mics' = Mics /\ Setups!OfKind(PwKinds)' = Setups!OfKind(PwKinds)
    BY DEF Chained, Mics, Setups!OfKind
  <1> QED BY <1>1, ChainIsSame DEF ServerTypes

LEMMA ModulesGone ==
  ASSUME ServerTypes, NEW S, loaded' = loaded \ S
  PROVE  /\ \A ks : Setups!OfKind(ks)' = Setups!OfKind(ks) \ S
         /\ Chained' = Chained \ S /\ Mics' = Mics \ S
         /\ loaded' \in SUBSET Setups!Modules /\ IsFiniteSet(loaded') /\ \A m, n \in Mics' : m = n
PROOF
  <1>1. \A ks : Setups!OfKind(ks)' = Setups!OfKind(ks) \ S
    BY DEF Setups!OfKind
  <1>2. Chained' = Chained \ S /\ Mics' = Mics \ S
    BY <1>1 DEF Chained, Mics
  <1>3. IsFiniteSet(loaded) /\ loaded \in SUBSET Setups!Modules
    BY DEF ServerTypes
  <1>4. IsFiniteSet(loaded')
    BY <1>3, FS_Subset
  <1>5. \A m, n \in Mics' : m = n
    BY <1>2 DEF ServerTypes
  <1> QED BY <1>1, <1>2, <1>3, <1>4, <1>5

\* The next id is a number.
LEMMA NextIdIsNumber ==
  ASSUME Setups!ChainAssumption, ServerTypes
  PROVE  Setups!FreshId \in Nat
PROOF
  <1> DEFINE Held == loaded \cup UNION {pending[p] \cup oldMic[p] : p \in Cmds}
             n == Cardinality(Setups!Remembered) + 1
  <1>1. IsFiniteSet(Held)
    <2>1. IsFiniteSet(Cmds)
      BY CountingHere DEF Setups!ChainAssumption
    <2>2. IsFiniteSet({pending[p] \cup oldMic[p] : p \in Cmds})
      <3> DEFINE f == [p \in Cmds |-> pending[p] \cup oldMic[p]]
      <3>1. f \in Surjection(Cmds, {pending[p] \cup oldMic[p] : p \in Cmds})
        BY DEF Surjection
      <3> HIDE DEF f
      <3> QED BY <2>1, <3>1, FS_Surjection
    <2>3. \A S \in {pending[p] \cup oldMic[p] : p \in Cmds} : IsFiniteSet(S)
      <3> SUFFICES ASSUME NEW p \in Cmds PROVE IsFiniteSet(pending[p] \cup oldMic[p])
        OBVIOUS
      <3>1. IsFiniteSet(pending[p]) /\ IsFiniteSet(oldMic[p])
        BY TypesOf
      <3> QED BY <3>1, FS_Union
    <2>4. IsFiniteSet(UNION {pending[p] \cup oldMic[p] : p \in Cmds})
      BY <2>2, <2>3, FS_UNION
    <2>5. IsFiniteSet(loaded)
      BY DEF ServerTypes
    <2> QED BY <2>4, <2>5, FS_Union
  <1>2. IsFiniteSet(Setups!Remembered) /\ Cardinality(Setups!Remembered) \in Nat
    <2>1. Setups!Remembered = {m.id : m \in Held}
      BY DEF Setups!Remembered
    <2> DEFINE f == [m \in Held |-> m.id]
    <2>2. f \in Surjection(Held, Setups!Remembered)
      BY <2>1 DEF Surjection
    <2> HIDE DEF f, Held
    <2>3. IsFiniteSet(Setups!Remembered)
      BY <1>1, <2>2, FS_Surjection
    <2> QED BY <2>3, FS_CardinalityType
  <1> HIDE DEF Held
  <1>3. IsFiniteSet(1 .. n) /\ Cardinality(1 .. n) = n
    BY <1>2, FS_Interval
  <1>4. (1 .. n) \ Setups!Remembered # {}
    <2> SUFFICES ASSUME 1 .. n \subseteq Setups!Remembered PROVE FALSE
      OBVIOUS
    <2>1. Cardinality(1 .. n) <= Cardinality(Setups!Remembered)
      BY <1>2, FS_Subset
    <2> QED BY <1>2, <1>3, <2>1
  <1>5. (1 .. n) \ Setups!Remembered \in SUBSET Nat
    OBVIOUS
  <1> HIDE DEF n
  <1>6. Setups!Min((1 .. n) \ Setups!Remembered) \in Nat
    BY <1>4, <1>5, LeastHere
  <1>7. Setups!FreshId = Setups!Min((1 .. n) \ Setups!Remembered)
    BY CountingHere, Zenon DEF Setups!FreshId, n
  <1> QED BY <1>6, <1>7

LEMMA ModuleLoaded ==
  ASSUME Setups!ChainAssumption, ServerTypes, NEW k \in Setups!Kinds, NEW l \in Setups!Labels, k = "mic" => Mics = {},
         loaded' = loaded \cup {Setups!NewModule(k, l)}
  PROVE  \E m \in Setups!Modules :
         /\ m.kind = k /\ m.label = l /\ m \in loaded'
         /\ \A ks : Setups!OfKind(ks)' = IF k \in ks THEN Setups!OfKind(ks) \cup {m} ELSE Setups!OfKind(ks)
         /\ Chained' = (IF k \in Setups!ChainKinds THEN Chained \cup {m} ELSE Chained)
         /\ Mics' = (IF k = "mic" THEN {m} ELSE Mics)
         /\ loaded' \in SUBSET Setups!Modules /\ IsFiniteSet(loaded') /\ \A x, y \in Mics' : x = y
PROOF
  <1> DEFINE m == Setups!NewModule(k, l)
  <1>1. m \in Setups!Modules /\ m.kind = k /\ m.label = l
    BY NextIdIsNumber DEF Setups!NewModule, Setups!Modules
  <1>2. loaded' = loaded \cup {m}
    OBVIOUS
  <1> HIDE DEF m
  <1>3. \A ks : Setups!OfKind(ks)' = IF k \in ks THEN Setups!OfKind(ks) \cup {m} ELSE Setups!OfKind(ks)
    BY <1>1, <1>2 DEF Setups!OfKind
  <1>4. Chained' = IF k \in Setups!ChainKinds THEN Chained \cup {m} ELSE Chained
    BY <1>3 DEF Chained
  <1>5. Mics' = IF k = "mic" THEN {m} ELSE Mics
    BY <1>3 DEF Mics
  <1>6. IsFiniteSet(loaded) /\ loaded \in SUBSET Setups!Modules
    BY DEF ServerTypes
  <1>7. IsFiniteSet(loaded')
    BY <1>2, <1>6, FS_AddElement
  <1>8. \A x, y \in Mics' : x = y
    BY <1>5 DEF ServerTypes
  <1>9. m \in loaded' /\ loaded' \in SUBSET Setups!Modules
    BY <1>1, <1>2, <1>6
  <1> QED BY <1>1, <1>3, <1>4, <1>5, <1>7, <1>8, <1>9

-----------------------------------------------------------------------------
(* A call that is followed by another, and one that ends its command.      *)

\* What the next call a of p, for command o, asks of the step to it; t, s, m
\* are what p remembers from then on.
GoesOnWell(p, o, a, t, s, m) ==
  /\ a \in {"unload", "rolling"} => \A x \in t : x.kind \in Setups!ChainKinds
  /\ a \in {"pw-unload", "sweeping"} => \A x \in t : x.kind \in PwKinds
  /\ a \in {"relabel-unload", "relabel-load", "relabel-back"} => \E x \in Setups!Modules : m = {x} /\ x.kind = "mic"
  /\ s => faults' > 0
  /\ alone[p] \/ deaths' = 0 =>
       /\ a = "unload" => s \/ Chained' \subseteq t
       /\ a = "cleared" => s \/ Chained' = {}
       /\ \A k \in Setups!ChainKinds : a = k => LoadedUpTo(k)'
       /\ a = "rollback" => faults' > 0
       /\ a = "rolling" => faults' > 0 /\ (faults' > 1 \/ Chained' \subseteq t)
       /\ a \in RelabelCalls => IF o = "setup" THEN Complete' ELSE Chained' = {}
  /\ alone[p] /\ had[p] /\ o \notin {"pw-setup", "pw-teardown"} /\ deaths' = 0 =>
       /\ a \notin {"relabel-load", "relabel-back"} => faults' > 1 \/ Mics' # {}
       /\ a = "relabel-back" => faults' > 0 \/ Mics' # {}

\* What a command asks of the call it ends at with r.
EndsWell(p, r) ==
  /\ ((op[p] = "setup" /\ r # 9) \/ (op[p] = "enable" /\ r = 2)) /\ had'[p] /\ deaths' = 0 =>
       faults' > 1 \/ stuck[p] \/ Setups!AllOrNothing'
  /\ via[p] = "enable" /\ deaths' = 0 => r # 9
  /\ alone[p] /\ had[p] /\ op[p] \notin {"pw-setup", "pw-teardown"} /\ deaths' = 0 => faults' > 1 \/ Mics' # {}
  /\ alone[p] =>
       /\ op[p] = "setup" /\ r = 0 => Whole'
       /\ op[p] = "teardown" /\ r = 0 => Chained' = {} /\ \A m \in Mics' : m.label = "daily"
       /\ (op[p] = "teardown" /\ r = 1) \/ (op[p] = "disable" /\ r = 0) => Chained' = {}
       /\ op[p] = "pw-teardown" /\ r = 0 => Setups!OfKind(PwKinds)' = {}

SpareOthers(p) == op[p] = "pw-setup" => Chained' = Chained

LEMMA GoesOn ==
  ASSUME ServerTypes, ServerStep, NEW p \in Cmds, Own(p), Busy(p), SpareOthers(p),
         NEW o \in Setups!Ops, NEW v \in {"cli", "enable", "disable"},
         \/ o = op[p] /\ v = via[p]
         \/ op[p] = "enable" /\ o = "setup" /\ v = "enable"
         \/ op[p] = "disable" /\ o = "teardown" /\ v = "disable",
         NEW a \in CallsOf[o], a \notin {"idle", "started"},
         NEW t \in SUBSET Setups!Modules, IsFiniteSet(t), NEW s \in BOOLEAN,
         NEW m \in SUBSET Setups!Modules, IsFiniteSet(m), NEW r \in {0, 1, 2, 9},
         Becomes(p, a, o, v, t, s, m, r),
         \/ Chained' = Chained /\ ~Inside(p)
         \/ a \in {"unload", "cleared", "rollback", "rolling"} \cup Setups!ChainKinds
         \/ faults' > 0 \/ deaths' > 0 \/ Setups!AllOrNothing',
         GoesOnWell(p, o, a, t, s, m)
  PROVE  Kept(p)
PROOF
  <1>1. a \in CallNames
    BY DEF CallNames
  <1>2. /\ ServerTypes'
        /\ callAt'[p] = a /\ op'[p] = o /\ via'[p] = v /\ pending'[p] = t /\ stuck'[p] = s
        /\ oldMic'[p] = m /\ result'[p] = r /\ alone'[p] = alone[p] /\ (\A q \in Cmds : had'[q] => had[q])
        /\ \A q \in Cmds \ {p} :
              /\ callAt'[q] = callAt[q] /\ op'[q] = op[q] /\ via'[q] = via[q] /\ pending'[q] = pending[q]
              /\ stuck'[q] = stuck[q] /\ oldMic'[q] = oldMic[q] /\ result'[q] = result[q]
    BY <1>1, Became
  <1>3. Touches(p)
    BY <1>2 DEF Touches, ServerStep, SpareOthers
  <1>4. SteadyStays(p)
    BY <1>2 DEF SteadyStays, Inside
  <1>5. InPlace(p)'
    BY <1>2 DEF InPlace, GoesOnWell, Busy, Own
  <1>6. Content(p)'
    BY <1>2 DEF Content, Calm, GoesOnWell
  <1>7. Answers(p)'
    BY <1>2 DEF Answers, Setups!HasSetUp, GoesOnWell
  <1>8. MicKept(p)'
    BY <1>2 DEF MicKept, GoesOnWell
  <1>9. Reported(p)'
    BY <1>2 DEF Reported, Setups!Says
  <1> QED BY <1>2, <1>3, <1>4, <1>5, <1>6, <1>7, <1>8, <1>9 DEF Kept, Own

LEMMA Ends ==
  ASSUME ServerTypes, ServerStep, NEW p \in Cmds, Own(p), Busy(p), SpareOthers(p),
         NEW r \in {0, 1, 2, 9}, Setups!Finish(p, r),
         \/ Chained' = Chained /\ ~Inside(p)
         \/ faults' > 0 \/ deaths' > 0 \/ Setups!AllOrNothing',
         EndsWell(p, r)
  PROVE  Kept(p)
PROOF
  <1> DEFINE a == IF via[p] = "cli" THEN "idle" ELSE IF via[p] = "enable" THEN "started" ELSE "stopped"
             o == IF via[p] = "cli" THEN op[p] ELSE via[p]
  <1>1. /\ op[p] \in Setups!Ops /\ via[p] \in {"cli", "enable", "disable"} /\ stuck[p] \in BOOLEAN
        /\ op = [op EXCEPT ![p] = op[p]] /\ via = [via EXCEPT ![p] = via[p]]
        /\ stuck = [stuck EXCEPT ![p] = stuck[p]]
    BY TypesOf
  <1>2. Becomes(p, a, o, "cli", {}, stuck[p], {}, r)
    BY <1>1 DEF Setups!Finish, Setups!Clean, Setups!Goto, Becomes
  <1>3. a \in {"idle", "started", "stopped"} /\ o \in Setups!Ops
        /\ (via[p] = "cli" => a = "idle" /\ o = op[p])
        /\ (via[p] = "enable" => a = "started" /\ o = "enable" /\ op[p] = "setup")
        /\ (via[p] = "disable" => a = "stopped" /\ o = "disable" /\ op[p] = "teardown")
    BY <1>1 DEF Own, InPlace, Setups!Ops
  <1> HIDE DEF a, o
  <1>4. /\ ServerTypes'
        /\ callAt'[p] = a /\ op'[p] = o /\ via'[p] = "cli" /\ pending'[p] = {} /\ stuck'[p] = stuck[p]
        /\ oldMic'[p] = {} /\ result'[p] = r /\ alone'[p] = alone[p] /\ (\A q \in Cmds : had'[q] => had[q])
        /\ \A q \in Cmds \ {p} :
              /\ callAt'[q] = callAt[q] /\ op'[q] = op[q] /\ via'[q] = via[q] /\ pending'[q] = pending[q]
              /\ stuck'[q] = stuck[q] /\ oldMic'[q] = oldMic[q] /\ result'[q] = result[q]
    <2>1. a \in CallNames
      BY <1>1, <1>3 DEF CallNames, CallsOf, Setups!Ops
    <2>2. {} \in SUBSET Setups!Modules /\ IsFiniteSet({}) /\ "cli" \in {"cli", "enable", "disable"}
      BY FS_EmptySet
    <2> QED BY <1>1, <1>2, <1>3, <2>1, <2>2, Became
  <1>5. Touches(p)
    BY <1>1, <1>3, <1>4 DEF Touches, ServerStep, SpareOthers
  <1>6. SteadyStays(p)
    BY DEF SteadyStays
  <1>7. InPlace(p)'
    <2>1. faults' >= faults /\ faults \in Nat /\ faults' \in Nat /\ (stuck[p] => faults > 0)
      BY DEF ServerStep, ServerTypes, Own, InPlace
    <2>2. a \in CallsOf[o]
      BY <1>1, <1>3 DEF CallsOf, Setups!Ops, ClearCalls, Setups!ChainKinds, RelabelCalls
    <2> QED BY <1>3, <1>4, <2>1, <2>2 DEF InPlace, Busy
  <1>8. Content(p)'
    BY <1>3, <1>4 DEF Content, Setups!ChainKinds, RelabelCalls
  <1>9. Answers(p)'
    BY <1>1, <1>3, <1>4 DEF Answers, Setups!HasSetUp, Sound, EndsWell
  <1>10. MicKept(p)'
    BY <1>1, <1>3, <1>4 DEF MicKept, EndsWell
  <1>11. Reported(p)'
    <2> SUFFICES ASSUME callAt'[p] = "idle", alone'[p] PROVE Reported(p)'
      BY DEF Reported, Setups!Says
    <2>1. alone[p] /\ op'[p] = op[p] /\ result'[p] = r
      BY <1>1, <1>3, <1>4
    <2> QED BY <2>1 DEF Reported, Setups!Says, EndsWell
  <1> QED BY <1>4, <1>5, <1>6, <1>7, <1>8, <1>9, <1>10, <1>11 DEF Kept, Own

\* What a call does not touch stays as it was claimed of the other commands.
LEMMA OthersStay ==
  ASSUME ServerIInv, NEW p \in Cmds, Kept(p), NEW q \in Cmds \ {p}
  PROVE  Own(q)'
PROOF
  <1>1. /\ callAt'[q] = callAt[q] /\ op'[q] = op[q] /\ via'[q] = via[q] /\ pending'[q] = pending[q]
        /\ stuck'[q] = stuck[q] /\ oldMic'[q] = oldMic[q] /\ result'[q] = result[q]
        /\ alone'[q] = alone[q] /\ (had'[q] => had[q])
    BY DEF Kept, Touches
  <1>2. faults \in Nat /\ faults' \in Nat /\ faults' >= faults /\ deaths \in Nat /\ deaths' \in Nat /\ deaths' >= deaths
    BY DEF Kept, Touches, ServerIInv, ServerTypes
  <1>3. Busy(p) /\ Own(q) /\ Turns(q, p) /\ Turns(p, q)
    BY DEF Kept, Touches, ServerIInv
  <1>4. ~alone[q]
    BY <1>3 DEF Turns
  <1>5. op[p] = "pw-setup" => SameChain /\ Chained' = Chained
    BY ChainIsSame DEF Kept, Touches
  <1>6. op[p] # "pw-setup" /\ op[q] # "pw-setup" => ~Busy(q) /\ result[q] = 9
    BY <1>3 DEF Turns
  <1>7. op[q] \in Setups!Ops /\ callAt[q] \in CallsOf[op[q]]
    BY <1>3, TypesOf DEF Own, InPlace, ServerIInv
  <1>8. op[q] = "pw-setup" => callAt[q] \in {"idle", "legacy", "state", "sweep", "sweeping", "mic", "ready"}
    BY <1>7 DEF CallsOf, Setups!Ops
  <1>9. InPlace(q)'
    BY <1>1, <1>2, <1>3 DEF Own, InPlace, Busy
  <1>10. Content(q)'
    <2>1. CASE op[p] = "pw-setup"
      <3>1. Content(q)
        BY <1>3 DEF Own
      <3> QED BY <1>1, <1>2, <1>4, <1>5, <2>1, <3>1 DEF Content, Calm, SameChain
    <2>2. CASE op[q] = "pw-setup" \/ ~Busy(q)
      BY <1>1, <1>8, <2>2 DEF Content, Busy, Setups!ChainKinds, RelabelCalls
    <2> QED BY <1>6, <2>1, <2>2
  <1>11. Answers(q)'
    <2>1. CASE op[p] = "pw-setup"
      <3>1. Answers(q)
        BY <1>3 DEF Own
      <3> QED BY <1>1, <1>2, <1>5, <2>1, <3>1 DEF Answers, Setups!HasSetUp, Sound, SameChain
    <2>2. CASE op[q] = "pw-setup"
      BY <1>1, <1>8, <2>2 DEF Answers, Setups!HasSetUp
    <2>3. CASE ~Busy(q) /\ result[q] = 9
      BY <1>1, <2>3 DEF Answers, Setups!HasSetUp, Busy
    <2> QED BY <1>6, <2>1, <2>2, <2>3
  <1>12. MicKept(q)'
    BY <1>1, <1>4 DEF MicKept
  <1>13. Reported(q)'
    BY <1>1, <1>4 DEF Reported, Setups!Says
  <1> QED BY <1>9, <1>10, <1>11, <1>12, <1>13 DEF Own

LEMMA CallKeeps ==
  ASSUME ServerIInv, NEW p \in Cmds, Kept(p)
  PROVE  ServerIInv'
PROOF
  <1>1. ServerTypes' /\ Own(p)' /\ \A q \in Cmds \ {p} : Own(q)'
    BY OthersStay DEF Kept
  <1>2. Steady'
    <2> SUFFICES ASSUME faults' = 0, deaths' = 0, \A q \in Cmds : ~Inside(q)'
                 PROVE  Setups!AllOrNothing'
      BY DEF Steady
    <2>1. faults = 0 /\ deaths = 0
      BY DEF Kept, Touches, ServerIInv, ServerTypes
    <2>2. \A q \in Cmds \ {p} : ~Inside(q)
      BY DEF Kept, Touches, Inside
    <2>3. CASE Chained' = Chained /\ ~Inside(p)
      <3>1. Setups!AllOrNothing
        BY <2>1, <2>2, <2>3 DEF ServerIInv, Steady
      <3> QED BY <2>3, <3>1, ChainIsSame DEF SameChain
    <2> QED BY <2>3 DEF Kept, SteadyStays
  <1>3. ASSUME NEW q \in Cmds, NEW x \in Cmds \ {q} PROVE Turns(q, x)'
    <2>1. Turns(q, x) /\ Turns(x, q)
      BY <1>3 DEF ServerIInv
    <2>2. alone' = alone /\ Busy(p) /\ (op'[p] = "pw-setup" <=> op[p] = "pw-setup")
          /\ \A y \in Cmds \ {p} : callAt'[y] = callAt[y] /\ op'[y] = op[y] /\ result'[y] = result[y]
      BY DEF Kept, Touches
    <2> QED BY <2>1, <2>2 DEF Turns, Busy
  <1> QED BY <1>1, <1>2, <1>3 DEF ServerIInv

\* Where a command is, and what is known there.
LEMMA AtCall ==
  ASSUME ServerIInv, NEW p \in Cmds
  PROVE  /\ ServerTypes /\ Own(p) /\ InPlace(p) /\ Content(p) /\ Answers(p) /\ MicKept(p)
         /\ op[p] \in Setups!Ops /\ via[p] \in {"cli", "enable", "disable"}
         /\ pending[p] \in SUBSET Setups!Modules /\ IsFiniteSet(pending[p]) /\ stuck[p] \in BOOLEAN
         /\ oldMic[p] \in SUBSET Setups!Modules /\ IsFiniteSet(oldMic[p]) /\ result[p] \in {0, 1, 2, 9}
         /\ faults \in Nat /\ deaths \in Nat /\ (stuck[p] => faults > 0)
         /\ callAt[p] \in ClearCalls => op[p] \in {"setup", "teardown", "disable"}
         /\ callAt[p] \in {"check", "rollback", "rolling"} \cup Setups!ChainKinds => op[p] = "setup"
         /\ callAt[p] \in RelabelCalls => op[p] \in {"setup", "teardown"}
         /\ callAt[p] = "unit" => op[p] \in {"enable", "disable"}
         /\ callAt[p] = "started" => op[p] = "enable"
         /\ callAt[p] = "stopped" => op[p] = "disable"
         /\ callAt[p] \in {"legacy", "state", "sweep", "mic", "ready"} => op[p] = "pw-setup"
         /\ callAt[p] \in {"pw-list", "pw-unload"} => op[p] = "pw-teardown"
         /\ callAt[p] = "sweeping" => op[p] \in {"pw-setup", "pw-teardown"}
PROOF
  <1>1. ServerTypes /\ Own(p) /\ InPlace(p) /\ Content(p) /\ Answers(p) /\ MicKept(p)
    BY DEF ServerIInv, Own
  <1>2. /\ op[p] \in Setups!Ops /\ via[p] \in {"cli", "enable", "disable"}
        /\ pending[p] \in SUBSET Setups!Modules /\ IsFiniteSet(pending[p]) /\ stuck[p] \in BOOLEAN
        /\ oldMic[p] \in SUBSET Setups!Modules /\ IsFiniteSet(oldMic[p]) /\ result[p] \in {0, 1, 2, 9}
    BY <1>1, TypesOf
  <1>3. faults \in Nat /\ deaths \in Nat /\ (stuck[p] => faults > 0)
    BY <1>1 DEF ServerTypes, InPlace
  <1>4. callAt[p] \in CallsOf[op[p]]
    BY <1>1 DEF InPlace
  <1>5. \A o \in Setups!Ops : \A a \in CallsOf[o] :
         /\ a \in ClearCalls => o \in {"setup", "teardown", "disable"}
         /\ a \in {"check", "rollback", "rolling"} \cup Setups!ChainKinds => o = "setup"
         /\ a \in RelabelCalls => o \in {"setup", "teardown"}
         /\ a = "unit" => o \in {"enable", "disable"}
         /\ a = "started" => o = "enable"
         /\ a = "stopped" => o = "disable"
         /\ a \in {"legacy", "state", "sweep", "mic", "ready"} => o = "pw-setup"
         /\ a \in {"pw-list", "pw-unload"} => o = "pw-teardown"
         /\ a = "sweeping" => o \in {"pw-setup", "pw-teardown"}
    <2> TAKE o \in Setups!Ops
    <2>1. CASE o = "setup"
      BY <2>1 DEF CallsOf, Setups!Ops, ClearCalls, RelabelCalls, Setups!ChainKinds
    <2>2. CASE o = "teardown"
      BY <2>2 DEF CallsOf, Setups!Ops, ClearCalls, RelabelCalls, Setups!ChainKinds
    <2>3. CASE o = "enable"
      BY <2>3 DEF CallsOf, Setups!Ops, ClearCalls, RelabelCalls, Setups!ChainKinds
    <2>4. CASE o = "disable"
      BY <2>4 DEF CallsOf, Setups!Ops, ClearCalls, RelabelCalls, Setups!ChainKinds
    <2>5. CASE o = "pw-setup"
      BY <2>5 DEF CallsOf, Setups!Ops, ClearCalls, RelabelCalls, Setups!ChainKinds
    <2>6. CASE o = "pw-teardown"
      BY <2>6 DEF CallsOf, Setups!Ops, ClearCalls, RelabelCalls, Setups!ChainKinds
    <2> QED BY <2>1, <2>2, <2>3, <2>4, <2>5, <2>6 DEF Setups!Ops
  <1> QED BY <1>1, <1>2, <1>3, <1>4, <1>5

\* The calls of a command.
LEMMA CallsListed ==
  /\ {"check", "rollback", "rolling"} \cup ClearCalls \cup Setups!ChainKinds \cup RelabelCalls \subseteq CallsOf["setup"]
  /\ ClearCalls \cup RelabelCalls \subseteq CallsOf["teardown"]
  /\ {"unit", "started"} \subseteq CallsOf["enable"]
  /\ {"unit", "stopped"} \cup ClearCalls \subseteq CallsOf["disable"]
  /\ {"legacy", "state", "sweep", "sweeping", "mic", "ready"} \subseteq CallsOf["pw-setup"]
  /\ {"pw-list", "pw-unload", "sweeping"} \subseteq CallsOf["pw-teardown"]
PROOF
  <1>1. {"check", "rollback", "rolling"} \cup ClearCalls \cup Setups!ChainKinds \cup RelabelCalls \subseteq CallsOf["setup"]
    BY DEF CallsOf, Setups!Ops
  <1>2. ClearCalls \cup RelabelCalls \subseteq CallsOf["teardown"]
    BY DEF CallsOf, Setups!Ops
  <1>3. {"unit", "started"} \subseteq CallsOf["enable"] /\ {"unit", "stopped"} \cup ClearCalls \subseteq CallsOf["disable"]
    BY DEF CallsOf, Setups!Ops
  <1>4. {"legacy", "state", "sweep", "sweeping", "mic", "ready"} \subseteq CallsOf["pw-setup"] /\ {"pw-list", "pw-unload", "sweeping"} \subseteq CallsOf["pw-teardown"]
    BY DEF CallsOf, Setups!Ops
  <1> QED BY <1>1, <1>2, <1>3, <1>4

LEMMA Moves ==
  ASSUME ServerTypes, NEW p \in Cmds, NEW a, Setups!Goto(p, a), Setups!Keeps(p)
  PROVE  Becomes(p, a, op[p], via[p], pending[p], stuck[p], oldMic[p], result[p])
  BY TypesOf DEF Setups!Goto, Setups!Keeps, Becomes

\* A call that leaves the modules alone.
LEMMA ServerQuiet ==
  ASSUME ServerTypes, loaded' = loaded, alone' = alone, had' = had, deaths' = deaths,
         faults' = faults \/ faults' = faults + 1
  PROVE  /\ ServerStep /\ SameChain /\ Chained' = Chained /\ Mics' = Mics
         /\ Setups!OfKind(PwKinds)' = Setups!OfKind(PwKinds) /\ \A p \in Cmds : SpareOthers(p)
PROOF
  <1>1. /\ SameChain /\ Chained' = Chained /\ Mics' = Mics /\ Setups!OfKind(PwKinds)' = Setups!OfKind(PwKinds)
        /\ loaded' \in SUBSET Setups!Modules /\ IsFiniteSet(loaded') /\ \A m, n \in Mics' : m = n
    BY NothingMoved
  <1>2. faults \in Nat /\ deaths \in Nat
    BY DEF ServerTypes
  <1>3. ServerStep
    BY <1>1, <1>2 DEF ServerStep
  <1> QED BY <1>1, <1>3 DEF SpareOthers

\* A chain that is cleared, whole or not begun.
LEMMA ChainLevels ==
  /\ Chained = {} <=> LoadedUpTo("null-sink")
  /\ Chained = {} => Setups!AllOrNothing
  /\ Complete => Setups!AllOrNothing
PROOF
  <1>1. \A k \in Setups!ChainKinds : Setups!OfKind({k}) = {m \in Chained : m.kind = k}
    BY DEF Setups!OfKind, Chained
  <1>2. \A m \in Chained : m.kind \in Setups!ChainKinds
    BY DEF Setups!OfKind, Chained
  <1>3. \A j \in Setups!ChainKinds : ~(Setups!LoadOrder[j] < Setups!LoadOrder["null-sink"])
    BY DEF Setups!LoadOrder, Setups!ChainKinds
  <1>4. LoadedUpTo("null-sink") <=> \A j \in Setups!ChainKinds : Setups!OfKind({j}) = {}
    BY <1>3 DEF LoadedUpTo
  <1>5. Chained = {} <=> \A j \in Setups!ChainKinds : Setups!OfKind({j}) = {}
    BY <1>1, <1>2
  <1> QED BY <1>4, <1>5, NoneIsSound, CompleteIsSound

LEMMA SoundThen ==
  /\ Chained' = {} => Setups!AllOrNothing'
  /\ Complete' => Setups!AllOrNothing'
PROOF
  <1>1. (Chained = {} => Setups!AllOrNothing)'
    BY NoneIsSound, PTL
  <1>2. (Complete => Setups!AllOrNothing)'
    BY CompleteIsSound, PTL
  <1> QED BY <1>1, <1>2

-----------------------------------------------------------------------------
(* Clearing the chain.                                                     *)

LEMMA ListChainKeeps ==
  ASSUME ServerIInv, NEW p \in Cmds, Setups!ListChain(p)
  PROVE  Kept(p)
PROOF
  <1>1. callAt[p] = "list" /\ op[p] \in {"setup", "teardown", "disable"} /\ Busy(p) /\ ~Inside(p)
    BY AtCall DEF Setups!ListChain, ClearCalls, Busy, Inside, Setups!ChainKinds
  <1>2. {"unload", "cleared"} \subseteq CallsOf[op[p]]
    BY <1>1, CallsListed DEF ClearCalls
  <1>3. faults' = faults \/ faults' = faults + 1
    BY DEF Setups!ListChain, Setups!Works, Setups!Fails
  <1>4. /\ ServerStep /\ Chained' = Chained /\ Mics' = Mics /\ SpareOthers(p)
    BY <1>3, AtCall, ServerQuiet DEF Setups!ListChain, Setups!frame
  <1>5. faults > 1 \/ Mics # {} \/ ~(alone[p] /\ had[p] /\ op[p] \notin {"pw-setup", "pw-teardown"} /\ deaths = 0)
    BY <1>1, AtCall DEF MicKept
  <1>6. faults \in Nat /\ deaths' = deaths
    BY AtCall DEF Setups!ListChain, Setups!frame
  <1>7. CASE faults' = faults /\ pending' = [pending EXCEPT ![p] = Setups!OfKind(Setups!ChainKinds)] /\ Setups!Goto(p, "unload") /\ UNCHANGED stuck
    <2>1. Chained \in SUBSET Setups!Modules /\ IsFiniteSet(Chained) /\ \A x \in Chained : x.kind \in Setups!ChainKinds
      <3>1. Chained \subseteq loaded /\ \A x \in Chained : x.kind \in Setups!ChainKinds
        BY DEF Chained, Setups!OfKind
      <3>2. loaded \in SUBSET Setups!Modules /\ IsFiniteSet(loaded)
        BY AtCall DEF ServerTypes
      <3> QED BY <3>1, <3>2, FS_Subset
    <2>2. Becomes(p, "unload", op[p], via[p], Chained, stuck[p], oldMic[p], result[p])
      BY <1>7, AtCall, TypesOf DEF Setups!ListChain, Setups!Goto, Becomes, Chained
    <2>3. GoesOnWell(p, op[p], "unload", Chained, stuck[p], oldMic[p])
      BY <1>4, <1>5, <1>6, <1>7, <2>1, AtCall DEF GoesOnWell, Setups!ChainKinds, RelabelCalls
    <2> QED BY <1>1, <1>2, <1>4, <2>1, <2>2, <2>3, AtCall, GoesOn
  <1>8. CASE faults' = faults + 1 /\ stuck' = [stuck EXCEPT ![p] = TRUE] /\ Setups!Goto(p, "cleared") /\ UNCHANGED pending
    <2>1. Becomes(p, "cleared", op[p], via[p], pending[p], TRUE, oldMic[p], result[p])
      BY <1>8, AtCall, TypesOf DEF Setups!ListChain, Setups!Goto, Becomes
    <2>2. GoesOnWell(p, op[p], "cleared", pending[p], TRUE, oldMic[p])
      BY <1>4, <1>5, <1>6, <1>8 DEF GoesOnWell, Setups!ChainKinds, RelabelCalls
    <2>3. PICK s \in BOOLEAN : s = TRUE
      OBVIOUS
    <2>4. Becomes(p, "cleared", op[p], via[p], pending[p], s, oldMic[p], result[p])
          /\ GoesOnWell(p, op[p], "cleared", pending[p], s, oldMic[p])
      BY <2>1, <2>2, <2>3
    <2> QED BY <1>1, <1>2, <1>4, <2>4, AtCall, GoesOn
  <1> QED BY <1>7, <1>8 DEF Setups!ListChain, Setups!Works, Setups!Fails

\* A module that is unloaded or not is no longer to be unloaded.
LEMMA UnloadKeeps ==
  ASSUME ServerIInv, NEW p \in Cmds, Setups!Unload(p)
  PROVE  Kept(p)
PROOF
  <1>1. callAt[p] = "unload" /\ op[p] \in {"setup", "teardown", "disable"} /\ Busy(p)
    BY AtCall DEF Setups!Unload, ClearCalls, Busy
  <1>2. "unload" \in CallsOf[op[p]] /\ SpareOthers(p)
    BY <1>1, CallsListed DEF ClearCalls, SpareOthers
  <1>3. PICK m \in pending[p] :
          /\ pending' = [pending EXCEPT ![p] = @ \ {m}]
          /\ \/ Setups!Works /\ loaded' = loaded \ {m} /\ UNCHANGED stuck
             \/ m \in loaded /\ Setups!Fails /\ stuck' = [stuck EXCEPT ![p] = TRUE] /\ UNCHANGED loaded
    BY DEF Setups!Unload
  <1>4. \A x \in pending[p] : x.kind \in Setups!ChainKinds
    BY <1>1, AtCall DEF InPlace
  <1>5. /\ faults > 1 \/ Mics # {} \/ ~(alone[p] /\ had[p] /\ op[p] \notin {"pw-setup", "pw-teardown"} /\ deaths = 0)
        /\ alone[p] \/ deaths = 0 => stuck[p] \/ Chained \subseteq pending[p]
    BY <1>1, AtCall DEF MicKept, Content, Calm
  <1>6. faults \in Nat /\ deaths' = deaths /\ deaths \in Nat /\ alone' = alone /\ had' = had
    BY AtCall DEF Setups!Unload, Setups!frame
  <1> DEFINE t == pending[p] \ {m}
  <1>7. t \in SUBSET Setups!Modules /\ IsFiniteSet(t) /\ \A x \in t : x.kind \in Setups!ChainKinds
    BY <1>4, AtCall, FS_Subset
  <1>8. CASE faults' = faults /\ loaded' = loaded \ {m} /\ UNCHANGED stuck
    <2>1. /\ Chained' = Chained \ {m} /\ Mics' = Mics \ {m}
          /\ loaded' \in SUBSET Setups!Modules /\ IsFiniteSet(loaded') /\ \A x, y \in Mics' : x = y
      BY <1>8, AtCall, ModulesGone
    <2>2. Mics' = Mics
      <3>1. m \notin Mics
        BY <1>4 DEF Mics, Setups!OfKind, Setups!ChainKinds
      <3> QED BY <2>1, <3>1
    <2>3. ServerStep
      BY <1>6, <1>8, <2>1 DEF ServerStep
    <2>4. Becomes(p, "unload", op[p], via[p], t, stuck[p], oldMic[p], result[p])
      BY <1>1, <1>3, <1>8, AtCall, TypesOf DEF Setups!Unload, Becomes
    <2> HIDE DEF t
    <2>5. alone[p] \/ deaths = 0 => stuck[p] \/ Chained' \subseteq t
      BY <1>5, <2>1 DEF t
    <2>6. GoesOnWell(p, op[p], "unload", t, stuck[p], oldMic[p])
      BY <1>5, <1>6, <1>7, <1>8, <2>2, <2>5, AtCall DEF GoesOnWell, Setups!ChainKinds, RelabelCalls
    <2> QED BY <1>1, <1>2, <1>7, <2>3, <2>4, <2>6, AtCall, GoesOn
  <1>9. CASE faults' = faults + 1 /\ stuck' = [stuck EXCEPT ![p] = TRUE] /\ UNCHANGED loaded
    <2>1. ServerStep /\ Chained' = Chained /\ Mics' = Mics
      BY <1>6, <1>9, AtCall, ServerQuiet
    <2>2. Becomes(p, "unload", op[p], via[p], t, TRUE, oldMic[p], result[p])
      BY <1>1, <1>3, <1>9, AtCall, TypesOf DEF Setups!Unload, Becomes
    <2> HIDE DEF t
    <2>3. GoesOnWell(p, op[p], "unload", t, TRUE, oldMic[p])
      BY <1>5, <1>6, <1>7, <1>9, <2>1 DEF GoesOnWell, Setups!ChainKinds, RelabelCalls
    <2>4. PICK s \in BOOLEAN : s = TRUE
      OBVIOUS
    <2>5. Becomes(p, "unload", op[p], via[p], t, s, oldMic[p], result[p])
          /\ GoesOnWell(p, op[p], "unload", t, s, oldMic[p])
      BY <2>2, <2>3, <2>4
    <2> QED BY <1>1, <1>2, <1>7, <2>1, <2>5, AtCall, GoesOn
  <1> QED BY <1>3, <1>8, <1>9 DEF Setups!Works, Setups!Fails

LEMMA UnloadedKeeps ==
  ASSUME ServerIInv, NEW p \in Cmds, Setups!Unloaded(p)
  PROVE  Kept(p)
PROOF
  <1>1. /\ callAt[p] = "unload" /\ op[p] \in {"setup", "teardown", "disable"} /\ Busy(p)
        /\ pending[p] = {} /\ Setups!Goto(p, "cleared") /\ Setups!Keeps(p)
        /\ loaded' = loaded /\ deaths' = deaths /\ alone' = alone /\ had' = had /\ faults' = faults
    BY AtCall DEF Setups!Unloaded, ClearCalls, Busy, Setups!frame
  <1>2. "cleared" \in CallsOf[op[p]]
    BY <1>1, CallsListed DEF ClearCalls
  <1>3. ServerStep /\ Chained' = Chained /\ Mics' = Mics /\ SpareOthers(p)
    BY <1>1, AtCall, ServerQuiet
  <1>4. /\ faults > 1 \/ Mics # {} \/ ~(alone[p] /\ had[p] /\ op[p] \notin {"pw-setup", "pw-teardown"} /\ deaths = 0)
        /\ alone[p] \/ deaths = 0 => stuck[p] \/ Chained = {}
    BY <1>1, AtCall DEF MicKept, Content, Calm
  <1>5. Becomes(p, "cleared", op[p], via[p], pending[p], stuck[p], oldMic[p], result[p])
    BY <1>1, AtCall, Moves
  <1>6. GoesOnWell(p, op[p], "cleared", pending[p], stuck[p], oldMic[p])
    BY <1>1, <1>3, <1>4, AtCall DEF GoesOnWell, Setups!ChainKinds, RelabelCalls
  <1>7. ServerTypes /\ Own(p) /\ Busy(p)
    BY <1>1, AtCall
  <1> QED BY <1>2, <1>3, <1>5, <1>6, <1>7, TypesOf, GoesOn

-----------------------------------------------------------------------------
(* Setup and teardown.                                                     *)

\* While p is not at work on the chain nobody is, so that it is whole or not
\* there unless a call has failed.
LEMMA NobodyInside ==
  ASSUME ServerIInv, NEW p \in Cmds, Busy(p), op[p] # "pw-setup", ~Inside(p)
  PROVE  deaths = 0 => faults > 0 \/ Setups!AllOrNothing
PROOF
  <1>1. ASSUME NEW q \in Cmds \ {p} PROVE ~Inside(q)
    <2>1. Busy(q) => op[q] = "pw-setup"
      BY DEF ServerIInv, Turns
    <2>2. Inside(q) => Busy(q) /\ op[q] # "pw-setup"
      BY AtCall DEF Inside, Busy, ClearCalls, Setups!ChainKinds
    <2> QED BY <2>1, <2>2
  <1>2. \A q \in Cmds : ~Inside(q)
    BY <1>1
  <1>3. faults \in Nat
    BY AtCall
  <1> QED BY <1>2, <1>3 DEF ServerIInv, Steady

LEMMA SetupChecksKeeps ==
  ASSUME ServerIInv, NEW p \in Cmds, Setups!SetupChecks(p)
  PROVE  Kept(p)
PROOF
  <1>1. /\ callAt[p] = "check" /\ op[p] = "setup" /\ Busy(p) /\ ~Inside(p)
        /\ loaded' = loaded /\ deaths' = deaths /\ alone' = alone
        /\ faults' = faults \/ faults' = faults + 1
    BY AtCall DEF Setups!SetupChecks, Busy, Inside, Setups!ChainKinds, Setups!Works, Setups!Fails
  <1>2. /\ SameChain /\ Chained' = Chained /\ Mics' = Mics
        /\ loaded' \in SUBSET Setups!Modules /\ IsFiniteSet(loaded') /\ \A m, n \in Mics' : m = n
    BY <1>1, AtCall, NothingMoved
  <1>3. faults > 1 \/ Mics # {} \/ ~(alone[p] /\ had[p] /\ deaths = 0)
    BY <1>1, AtCall DEF MicKept
  <1>4. faults \in Nat /\ deaths \in Nat /\ had \in [Cmds -> BOOLEAN]
    BY AtCall DEF ServerTypes
  <1>5. SpareOthers(p)
    BY <1>1 DEF SpareOthers
  <1>6. CASE faults' = faults /\ had' = [had EXCEPT ![p] = FALSE] /\ Setups!Finish(p, 2)
    <2>1. ServerStep /\ ~had'[p]
      <3>1. \E q \in Cmds : had' = [had EXCEPT ![q] = FALSE]
        BY <1>6
      <3>2. ~had'[p]
        BY <1>4, <1>6
      <3>3. /\ faults' \in Nat /\ faults' >= faults /\ deaths' \in Nat /\ deaths' >= deaths /\ alone' = alone
            /\ loaded' \in SUBSET Setups!Modules /\ IsFiniteSet(loaded') /\ \A m, n \in Mics' : m = n
        BY <1>1, <1>2, <1>4, <1>6
      <3> QED BY <3>1, <3>2, <3>3 DEF ServerStep
    <2>2. EndsWell(p, 2)
      BY <1>1, <1>2, <1>3, <1>6, <2>1 DEF EndsWell
    <2> QED BY <1>1, <1>2, <1>5, <1>6, <2>1, <2>2, AtCall, Ends
  <1>7. CASE faults' = faults + 1 /\ had' = had /\ Setups!Finish(p, 2)
    <2>1. ServerStep
      BY <1>1, <1>2, <1>4, <1>7 DEF ServerStep
    <2>2. deaths = 0 => faults' > 1 \/ Setups!AllOrNothing'
      BY <1>1, <1>2, <1>4, <1>7, NobodyInside DEF SameChain
    <2>3. EndsWell(p, 2)
      BY <1>1, <1>2, <1>3, <1>4, <1>7, <2>2 DEF EndsWell
    <2> QED BY <1>1, <1>2, <1>5, <1>7, <2>1, <2>3, AtCall, Ends
  <1>8. CASE faults' = faults /\ had' = had /\ Setups!Goto(p, "list") /\ Setups!Keeps(p)
    <2>1. ServerStep
      BY <1>1, <1>2, <1>4, <1>8 DEF ServerStep
    <2>2. Becomes(p, "list", op[p], via[p], pending[p], stuck[p], oldMic[p], result[p])
      BY <1>8, AtCall, Moves
    <2>3. GoesOnWell(p, op[p], "list", pending[p], stuck[p], oldMic[p])
      BY <1>1, <1>2, <1>3, <1>8, AtCall DEF GoesOnWell, Setups!ChainKinds, RelabelCalls
    <2>4. "list" \in CallsOf[op[p]]
      BY <1>1, CallsListed DEF ClearCalls
    <2> QED BY <1>1, <1>2, <1>5, <2>1, <2>2, <2>3, <2>4, AtCall, GoesOn
  <1> QED BY <1>6, <1>7, <1>8 DEF Setups!SetupChecks, Setups!Works, Setups!Fails

LEMMA SetupClearedKeeps ==
  ASSUME ServerIInv, NEW p \in Cmds, Setups!SetupCleared(p)
  PROVE  Kept(p)
PROOF
  <1>1. /\ callAt[p] = "cleared" /\ op[p] = "setup" /\ Busy(p)
        /\ loaded' = loaded /\ deaths' = deaths /\ alone' = alone /\ had' = had /\ faults' = faults
    BY AtCall DEF Setups!SetupCleared, Busy, Setups!frame
  <1>2. ServerStep /\ SameChain /\ Chained' = Chained /\ Mics' = Mics /\ SpareOthers(p)
    BY <1>1, AtCall, ServerQuiet
  <1>3. /\ faults > 1 \/ Mics # {} \/ ~(alone[p] /\ had[p] /\ op[p] \notin {"pw-setup", "pw-teardown"} /\ deaths = 0)
        /\ alone[p] \/ deaths = 0 => stuck[p] \/ Chained = {}
    BY <1>1, AtCall DEF MicKept, Content, Calm
  <1>4. CASE stuck[p] /\ Setups!Finish(p, 2)
    <2>1. EndsWell(p, 2)
      BY <1>1, <1>2, <1>3, <1>4 DEF EndsWell
    <2> QED BY <1>1, <1>2, <1>4, <2>1, AtCall, Ends
  <1>5. CASE ~stuck[p] /\ Setups!Goto(p, "null-sink") /\ Setups!Keeps(p)
    <2>1. Becomes(p, "null-sink", op[p], via[p], pending[p], stuck[p], oldMic[p], result[p])
      BY <1>5, AtCall, Moves
    <2>2. alone[p] \/ deaths = 0 => LoadedUpTo("null-sink")'
      <3>1. "null-sink" \in Setups!ChainKinds
        BY DEF Setups!ChainKinds
      <3> QED BY <1>2, <1>3, <1>5, <3>1, ChainLevels DEF SameChain
    <2>3. GoesOnWell(p, op[p], "null-sink", pending[p], stuck[p], oldMic[p])
      BY <1>1, <1>2, <1>3, <1>5, <2>2 DEF GoesOnWell, RelabelCalls
    <2>4. "null-sink" \in CallsOf[op[p]] /\ "null-sink" \in Setups!ChainKinds
      BY <1>1, CallsListed DEF Setups!ChainKinds
    <2> QED BY <1>1, <1>2, <2>1, <2>3, <2>4, AtCall, GoesOn
  <1> QED BY <1>4, <1>5 DEF Setups!SetupCleared, Setups!ClearedFor

LEMMA TeardownClearedKeeps ==
  ASSUME ServerIInv, NEW p \in Cmds, Setups!TeardownCleared(p)
  PROVE  Kept(p)
PROOF
  <1>1. /\ callAt[p] = "cleared" /\ op[p] = "teardown" /\ Busy(p)
        /\ loaded' = loaded /\ deaths' = deaths /\ alone' = alone /\ had' = had /\ faults' = faults
    BY AtCall DEF Setups!TeardownCleared, Busy, Setups!frame
  <1>2. ServerStep /\ Chained' = Chained /\ Mics' = Mics /\ SpareOthers(p)
    BY <1>1, AtCall, ServerQuiet
  <1>3. /\ faults > 1 \/ Mics # {} \/ ~(alone[p] /\ had[p] /\ op[p] \notin {"pw-setup", "pw-teardown"} /\ deaths = 0)
        /\ alone[p] \/ deaths = 0 => stuck[p] \/ Chained = {}
    BY <1>1, AtCall DEF MicKept, Content, Calm
  <1>4. CASE stuck[p] /\ Setups!Finish(p, 2)
    <2>1. EndsWell(p, 2)
      BY <1>1, <1>2, <1>3, <1>4 DEF EndsWell
    <2> QED BY <1>1, <1>2, <1>4, <2>1, AtCall, Ends
  <1>5. CASE ~stuck[p] /\ Setups!Goto(p, "relabel") /\ Setups!Keeps(p)
    <2>1. Becomes(p, "relabel", op[p], via[p], pending[p], stuck[p], oldMic[p], result[p])
      BY <1>5, AtCall, Moves
    <2>2. GoesOnWell(p, op[p], "relabel", pending[p], stuck[p], oldMic[p])
      BY <1>1, <1>2, <1>3, <1>5 DEF GoesOnWell, Setups!ChainKinds, RelabelCalls
    <2>3. "relabel" \in CallsOf[op[p]]
      BY <1>1, CallsListed DEF RelabelCalls
    <2>4. deaths' > 0 \/ Setups!AllOrNothing'
      BY <1>1, <1>2, <1>3, <1>5, AtCall, SoundThen
    <2> QED BY <1>1, <1>2, <2>1, <2>2, <2>3, <2>4, AtCall, GoesOn
  <1> QED BY <1>4, <1>5 DEF Setups!TeardownCleared, Setups!ClearedFor

LEMMA DisableClearedKeeps ==
  ASSUME ServerIInv, NEW p \in Cmds, Setups!DisableCleared(p)
  PROVE  Kept(p)
PROOF
  <1>1. /\ callAt[p] = "cleared" /\ op[p] = "disable" /\ Busy(p)
        /\ loaded' = loaded /\ deaths' = deaths /\ alone' = alone /\ had' = had /\ faults' = faults
    BY AtCall DEF Setups!DisableCleared, Busy, Setups!frame
  <1>2. ServerStep /\ Chained' = Chained /\ Mics' = Mics /\ SpareOthers(p)
    BY <1>1, AtCall, ServerQuiet
  <1>3. /\ faults > 1 \/ Mics # {} \/ ~(alone[p] /\ had[p] /\ op[p] \notin {"pw-setup", "pw-teardown"} /\ deaths = 0)
        /\ alone[p] \/ deaths = 0 => stuck[p] \/ Chained = {}
    BY <1>1, AtCall DEF MicKept, Content, Calm
  <1> DEFINE r == IF ~Setups!ClearedFor(p) \/ result[p] = 2 THEN 2 ELSE 0
  <1>4. Setups!Finish(p, r) /\ r \in {0, 2} /\ (r = 0 => ~stuck[p])
    BY DEF Setups!DisableCleared, Setups!ClearedFor
  <1> HIDE DEF r
  <1>5. via[p] = "cli"
    BY <1>1, AtCall DEF InPlace
  <1>6. EndsWell(p, r)
    BY <1>1, <1>2, <1>3, <1>4, <1>5 DEF EndsWell
  <1>7. faults' > 0 \/ deaths' > 0 \/ Setups!AllOrNothing'
    BY <1>1, <1>2, <1>3, AtCall, SoundThen
  <1> QED BY <1>1, <1>2, <1>4, <1>6, <1>7, AtCall, Ends

-----------------------------------------------------------------------------
(* Loading the chain, and rolling back.                                    *)

LEMMA NextLoaded ==
  ASSUME NEW k \in Setups!ChainKinds, LoadedUpTo(k), NEW m, m.kind = k, m.label = "daily", m \in loaded',
         \A ks : Setups!OfKind(ks)' = IF k \in ks THEN Setups!OfKind(ks) \cup {m} ELSE Setups!OfKind(ks)
  PROVE  /\ k = "user-source" => Complete'
         /\ \A n \in Setups!ChainKinds : Setups!LoadOrder[n] = Setups!LoadOrder[k] + 1 => LoadedUpTo(n)'
PROOF
  <1>1. \A j \in Setups!ChainKinds : Setups!LoadOrder[j] \in 1 .. 4 /\ \A n \in Setups!ChainKinds : Setups!LoadOrder[j] = Setups!LoadOrder[n] => j = n
    BY DEF Setups!LoadOrder, Setups!ChainKinds
  <1>2. \A j \in Setups!ChainKinds : IF Setups!LoadOrder[j] < Setups!LoadOrder[k] THEN One(j) ELSE Setups!OfKind({j}) = {}
    BY DEF LoadedUpTo
  <1>3. Setups!OfKind({k})' = {m}
    BY <1>1, <1>2
  <1>4. One(k)'
    BY <1>3 DEF One
  <1>5. \A j \in Setups!ChainKinds : j # k => Setups!OfKind({j})' = Setups!OfKind({j})
    OBVIOUS
  <1>6. ASSUME NEW j \in Setups!ChainKinds, Setups!LoadOrder[j] < Setups!LoadOrder[k] PROVE One(j)'
    <2>1. PICK x \in loaded : Setups!OfKind({j}) = {x}
      BY <1>2, <1>6 DEF One
    <2>2. Setups!OfKind({j})' = {x}
      BY <1>1, <1>5, <1>6, <2>1
    <2>3. x \in loaded'
      BY <2>2 DEF Setups!OfKind
    <2> QED BY <2>2, <2>3 DEF One
  <1>7. ASSUME k = "user-source" PROVE Complete'
    <2>1. \A j \in Setups!ChainKinds : j = k \/ Setups!LoadOrder[j] < Setups!LoadOrder[k]
      BY <1>7 DEF Setups!LoadOrder, Setups!ChainKinds
    <2>2. \A j \in Setups!ChainKinds : One(j)'
      BY <1>4, <1>6, <2>1
    <2>3. \A x \in Setups!OfKind({"user-source"})' : x.label = "daily"
      BY <1>3, <1>7
    <2> QED BY <2>2, <2>3 DEF Complete
  <1>8. ASSUME NEW n \in Setups!ChainKinds, Setups!LoadOrder[n] = Setups!LoadOrder[k] + 1 PROVE LoadedUpTo(n)'
    <2>1. \A j \in Setups!ChainKinds : Setups!LoadOrder[j] < Setups!LoadOrder[n] => j = k \/ Setups!LoadOrder[j] < Setups!LoadOrder[k]
      BY <1>1, <1>8
    <2>2. \A j \in Setups!ChainKinds : ~(Setups!LoadOrder[j] < Setups!LoadOrder[n]) => j # k /\ ~(Setups!LoadOrder[j] < Setups!LoadOrder[k])
      BY <1>1, <1>8
    <2>3. \A j \in Setups!ChainKinds : IF Setups!LoadOrder[j] < Setups!LoadOrder[n] THEN One(j)' ELSE Setups!OfKind({j})' = {}
      BY <1>2, <1>4, <1>5, <1>6, <2>1, <2>2
    <2> QED BY <2>3 DEF LoadedUpTo
  <1> QED BY <1>7, <1>8

LEMMA LoadNextKeeps ==
  ASSUME Setups!ChainAssumption, ServerIInv, NEW p \in Cmds, Setups!LoadNext(p)
  PROVE  Kept(p)
PROOF
  <1>1. /\ callAt[p] \in Setups!ChainKinds /\ op[p] = "setup" /\ Busy(p)
        /\ deaths' = deaths /\ alone' = alone /\ had' = had
    BY AtCall DEF Setups!LoadNext, Busy, Setups!frame, Setups!ChainKinds
  <1>2. SpareOthers(p) /\ faults \in Nat /\ deaths \in Nat
    BY <1>1, AtCall DEF SpareOthers
  <1>3. /\ faults > 1 \/ Mics # {} \/ ~(alone[p] /\ had[p] /\ op[p] \notin {"pw-setup", "pw-teardown"} /\ deaths = 0)
        /\ alone[p] \/ deaths = 0 => LoadedUpTo(callAt[p])
    <2>1. callAt[p] \notin {"relabel-load", "relabel-back"}
      BY <1>1 DEF Setups!ChainKinds
    <2> QED BY <1>1, <2>1, AtCall DEF MicKept, Content, Calm
  <1>4. CASE Setups!Works /\ loaded' = loaded \cup {Setups!NewModule(callAt[p], "daily")}
             /\ Setups!Goto(p, IF callAt[p] = "user-source" THEN "relabel"
                        ELSE CHOOSE k \in Setups!ChainKinds : Setups!LoadOrder[k] = Setups!LoadOrder[callAt[p]] + 1)
             /\ Setups!Keeps(p)
    <2>0. PICK k \in Setups!ChainKinds : k = callAt[p]
      BY <1>1
    <2> DEFINE next == CHOOSE n \in Setups!ChainKinds : Setups!LoadOrder[n] = Setups!LoadOrder[k] + 1
    <2>1. k \in Setups!Kinds /\ k # "mic" /\ "daily" \in Setups!Labels /\ loaded' = loaded \cup {Setups!NewModule(k, "daily")}
      BY <1>4, <2>0 DEF Setups!Kinds, Setups!ChainKinds, Setups!Labels
    <2>2. PICK m \in Setups!Modules :
            /\ m.kind = k /\ m.label = "daily" /\ m \in loaded'
            /\ \A ks : Setups!OfKind(ks)' = IF k \in ks THEN Setups!OfKind(ks) \cup {m} ELSE Setups!OfKind(ks)
            /\ Mics' = Mics
            /\ loaded' \in SUBSET Setups!Modules /\ IsFiniteSet(loaded') /\ \A x, y \in Mics' : x = y
      <3>1. ServerTypes
        BY DEF ServerIInv
      <3>2. \E m \in Setups!Modules :
              /\ m.kind = k /\ m.label = "daily" /\ m \in loaded'
              /\ \A ks : Setups!OfKind(ks)' = IF k \in ks THEN Setups!OfKind(ks) \cup {m} ELSE Setups!OfKind(ks)
              /\ Chained' = (IF k \in Setups!ChainKinds THEN Chained \cup {m} ELSE Chained)
              /\ Mics' = (IF k = "mic" THEN {m} ELSE Mics)
              /\ loaded' \in SUBSET Setups!Modules /\ IsFiniteSet(loaded') /\ \A x, y \in Mics' : x = y
        BY <2>1, <3>1, ModuleLoaded, Zenon
      <3> QED BY <2>1, <3>2
    <2>3. faults' = faults
      BY <1>4 DEF Setups!Works
    <2>4. ServerStep
      BY <1>1, <1>2, <2>2, <2>3 DEF ServerStep
    <2>5. PICK a : a = IF k = "user-source" THEN "relabel" ELSE next
      OBVIOUS
    <2>6. IF k = "user-source" THEN a = "relabel" ELSE a \in Setups!ChainKinds /\ Setups!LoadOrder[a] = Setups!LoadOrder[k] + 1
      <3>1. k # "user-source" => \E n \in Setups!ChainKinds : Setups!LoadOrder[n] = Setups!LoadOrder[k] + 1
        BY DEF Setups!LoadOrder, Setups!ChainKinds
      <3> QED BY <2>5, <3>1
    <2>7. Becomes(p, a, op[p], via[p], pending[p], stuck[p], oldMic[p], result[p])
      BY <1>4, <2>0, <2>5, AtCall, Moves
    <2> HIDE DEF next
    <2>8. alone[p] \/ deaths = 0 =>
            /\ k = "user-source" => Complete'
            /\ \A n \in Setups!ChainKinds : Setups!LoadOrder[n] = Setups!LoadOrder[k] + 1 => LoadedUpTo(n)'
      <3> SUFFICES ASSUME alone[p] \/ deaths = 0
                   PROVE  /\ k = "user-source" => Complete'
                          /\ \A n \in Setups!ChainKinds : Setups!LoadOrder[n] = Setups!LoadOrder[k] + 1 => LoadedUpTo(n)'
        OBVIOUS
      <3>1. LoadedUpTo(k)
        BY <1>3, <2>0
      <3> QED BY <2>2, <3>1, NextLoaded
    <2>9. \/ a \in Setups!ChainKinds /\ (alone[p] \/ deaths = 0 => LoadedUpTo(a)')
          \/ k = "user-source" /\ a = "relabel"
      BY <2>6, <2>8
    <2>10. GoesOnWell(p, op[p], a, pending[p], stuck[p], oldMic[p])
      <3>1. CASE k = "user-source" /\ a = "relabel"
        BY <1>1, <1>3, <2>2, <2>3, <2>8, <3>1, AtCall DEF GoesOnWell, Setups!ChainKinds, RelabelCalls
      <3>2. CASE a \in Setups!ChainKinds /\ (alone[p] \/ deaths = 0 => LoadedUpTo(a)')
        <4>1. a \notin {"unload", "cleared", "rollback", "rolling", "pw-unload", "sweeping"} \cup RelabelCalls
          BY <3>2 DEF Setups!ChainKinds, RelabelCalls
        <4> QED BY <1>1, <1>3, <2>2, <2>3, <3>2, <4>1, AtCall DEF GoesOnWell, RelabelCalls
      <3> QED BY <2>9, <3>1, <3>2
    <2>11. a \in CallsOf[op[p]] /\ a \notin {"idle", "started"}
      BY <1>1, <2>9, CallsListed DEF RelabelCalls, Setups!ChainKinds
    <2>12. a \in Setups!ChainKinds \/ deaths' > 0 \/ Setups!AllOrNothing'
      BY <1>1, <1>2, <2>8, <2>9, SoundThen
    <2> QED BY <1>1, <1>2, <2>4, <2>7, <2>10, <2>11, <2>12, AtCall, GoesOn
  <1>5. CASE Setups!Fails /\ Setups!Rollback(p) /\ UNCHANGED loaded
    <2>1. faults' = faults + 1 /\ faults' > 0
      BY <1>2, <1>5 DEF Setups!Fails
    <2>2. ServerStep /\ SameChain /\ Chained' = Chained /\ Mics' = Mics
      BY <1>1, <1>5, <2>1, AtCall, ServerQuiet
    <2>3. CASE callAt[p] = "null-sink" /\ Setups!Finish(p, 2)
      <3>1. deaths = 0 => Setups!AllOrNothing'
        BY <1>3, <2>2, <2>3, ChainLevels, SoundThen
      <3>2. EndsWell(p, 2)
        BY <1>1, <1>2, <1>3, <2>1, <2>2, <3>1 DEF EndsWell
      <3> QED BY <1>1, <1>2, <2>1, <2>2, <2>3, <3>2, AtCall, Ends
    <2>4. CASE Setups!Goto(p, "rollback") /\ Setups!Keeps(p)
      <3>1. Becomes(p, "rollback", op[p], via[p], pending[p], stuck[p], oldMic[p], result[p])
        BY <2>4, AtCall, Moves
      <3>2. GoesOnWell(p, op[p], "rollback", pending[p], stuck[p], oldMic[p])
        BY <1>1, <1>2, <1>3, <2>1, <2>2 DEF GoesOnWell, Setups!ChainKinds, RelabelCalls
      <3>3. "rollback" \in CallsOf[op[p]]
        BY <1>1, CallsListed
      <3> QED BY <1>1, <1>2, <2>1, <2>2, <3>1, <3>2, <3>3, AtCall, GoesOn
    <2> QED BY <1>5, <2>3, <2>4 DEF Setups!Rollback
  <1> QED BY <1>1, <1>4, <1>5 DEF Setups!LoadNext

LEMMA RollsBackKeeps ==
  ASSUME ServerIInv, NEW p \in Cmds, Setups!RollsBack(p)
  PROVE  Kept(p)
PROOF
  <1>1. /\ callAt[p] = "rollback" /\ op[p] = "setup" /\ Busy(p)
        /\ loaded' = loaded /\ deaths' = deaths /\ alone' = alone /\ had' = had
        /\ faults' = faults \/ faults' = faults + 1
    BY AtCall DEF Setups!RollsBack, Busy, Setups!frame, Setups!Works, Setups!Fails
  <1>2. ServerStep /\ Chained' = Chained /\ Mics' = Mics /\ SpareOthers(p) /\ faults \in Nat /\ deaths \in Nat
    BY <1>1, AtCall, ServerQuiet
  <1>3. /\ faults > 1 \/ Mics # {} \/ ~(alone[p] /\ had[p] /\ op[p] \notin {"pw-setup", "pw-teardown"} /\ deaths = 0)
        /\ alone[p] \/ deaths = 0 => faults > 0
    BY <1>1, AtCall DEF MicKept, Content, Calm
  <1>4. CASE Setups!Works /\ Setups!Goto(p, "rolling") /\ pending' = [pending EXCEPT ![p] = Setups!OfKind(Setups!ChainKinds)]
             /\ UNCHANGED <<op, via, stuck, oldMic, result>>
    <2>1. Chained \in SUBSET Setups!Modules /\ IsFiniteSet(Chained) /\ \A x \in Chained : x.kind \in Setups!ChainKinds
      <3>1. Chained \subseteq loaded /\ \A x \in Chained : x.kind \in Setups!ChainKinds
        BY DEF Chained, Setups!OfKind
      <3>2. loaded \in SUBSET Setups!Modules /\ IsFiniteSet(loaded)
        BY AtCall DEF ServerTypes
      <3> QED BY <3>1, <3>2, FS_Subset
    <2>2. Becomes(p, "rolling", op[p], via[p], Chained, stuck[p], oldMic[p], result[p])
      BY <1>4, AtCall, TypesOf DEF Setups!Goto, Becomes, Chained
    <2>3. GoesOnWell(p, op[p], "rolling", Chained, stuck[p], oldMic[p])
      BY <1>1, <1>2, <1>3, <1>4, <2>1, AtCall DEF GoesOnWell, Setups!ChainKinds, RelabelCalls, Setups!Works
    <2>4. "rolling" \in CallsOf[op[p]]
      BY <1>1, CallsListed
    <2> QED BY <1>1, <1>2, <2>1, <2>2, <2>3, <2>4, AtCall, GoesOn
  <1>5. CASE faults' = faults + 1 /\ Setups!Finish(p, 2)
    <2>1. EndsWell(p, 2)
      BY <1>1, <1>2, <1>3, <1>5 DEF EndsWell
    <2>2. faults' > 0
      BY <1>2, <1>5
    <2> QED BY <1>1, <1>2, <1>5, <2>1, <2>2, AtCall, Ends
  <1> QED BY <1>4, <1>5 DEF Setups!RollsBack, Setups!Fails

LEMMA RolledBackKeeps ==
  ASSUME ServerIInv, NEW p \in Cmds, Setups!RolledBack(p)
  PROVE  Kept(p)
PROOF
  <1>1. /\ callAt[p] = "rolling" /\ op[p] = "setup" /\ Busy(p)
        /\ deaths' = deaths /\ alone' = alone /\ had' = had
    BY AtCall DEF Setups!RolledBack, Busy, Setups!frame
  <1>2. SpareOthers(p) /\ faults \in Nat /\ deaths \in Nat
    BY <1>1, AtCall DEF SpareOthers
  <1>3. /\ faults > 1 \/ Mics # {} \/ ~(alone[p] /\ had[p] /\ op[p] \notin {"pw-setup", "pw-teardown"} /\ deaths = 0)
        /\ alone[p] \/ deaths = 0 => faults > 0 /\ (faults > 1 \/ Chained \subseteq pending[p])
    BY <1>1, AtCall DEF MicKept, Content, Calm
  <1>4. CASE pending[p] = {} /\ Setups!Finish(p, 2) /\ UNCHANGED <<loaded, faults>>
    <2>1. ServerStep /\ Chained' = Chained /\ Mics' = Mics
      BY <1>1, <1>4, AtCall, ServerQuiet
    <2>2. deaths = 0 => faults' > 1 \/ Setups!AllOrNothing'
      BY <1>3, <1>4, <2>1, SoundThen
    <2>3. EndsWell(p, 2)
      BY <1>1, <1>3, <1>4, <2>1, <2>2 DEF EndsWell
    <2>4. faults' > 0 \/ deaths' > 0
      BY <1>1, <1>2, <1>3, <1>4
    <2> QED BY <1>1, <1>2, <1>4, <2>1, <2>3, <2>4, AtCall, Ends
  <1>5. CASE \E m \in pending[p] :
               /\ (Setups!Works /\ loaded' = loaded \ {m}) \/ (Setups!Fails /\ UNCHANGED loaded)
               /\ pending' = [pending EXCEPT ![p] = @ \ {m}]
               /\ UNCHANGED <<op, callAt, via, stuck, oldMic, result>>
    <2>1. PICK m \in pending[p] :
            /\ (faults' = faults /\ loaded' = loaded \ {m}) \/ (faults' = faults + 1 /\ loaded' = loaded)
            /\ pending' = [pending EXCEPT ![p] = @ \ {m}]
            /\ UNCHANGED <<op, callAt, via, stuck, oldMic, result>>
      BY <1>5 DEF Setups!Works, Setups!Fails
    <2> DEFINE t == pending[p] \ {m}
    <2>2. \A x \in pending[p] : x.kind \in Setups!ChainKinds
      BY <1>1, AtCall DEF InPlace
    <2>3. t \in SUBSET Setups!Modules /\ IsFiniteSet(t) /\ \A x \in t : x.kind \in Setups!ChainKinds
      BY <2>2, AtCall, FS_Subset
    <2>4. Becomes(p, "rolling", op[p], via[p], t, stuck[p], oldMic[p], result[p])
      BY <1>1, <2>1, AtCall, TypesOf DEF Becomes
    <2>5. "rolling" \in CallsOf[op[p]]
      BY <1>1, CallsListed
    <2>6. ServerStep /\ Mics' = Mics /\ (alone[p] \/ deaths = 0 => faults' > 0 /\ (faults' > 1 \/ Chained' \subseteq t))
      <3>1. CASE faults' = faults /\ loaded' = loaded \ {m}
        <4>1. /\ Chained' = Chained \ {m} /\ Mics' = Mics \ {m}
              /\ loaded' \in SUBSET Setups!Modules /\ IsFiniteSet(loaded') /\ \A x, y \in Mics' : x = y
          BY <3>1, AtCall, ModulesGone
        <4>2. m \notin Mics
          BY <2>2 DEF Mics, Setups!OfKind, Setups!ChainKinds
        <4>3. ServerStep
          BY <1>1, <1>2, <3>1, <4>1 DEF ServerStep
        <4>4. alone[p] \/ deaths = 0 => faults' > 0 /\ (faults' > 1 \/ Chained' \subseteq t)
          BY <1>3, <3>1, <4>1
        <4> QED BY <4>1, <4>2, <4>3, <4>4
      <3>2. CASE faults' = faults + 1 /\ loaded' = loaded
        <4>1. ServerStep /\ Mics' = Mics
          BY <1>1, <3>2, AtCall, ServerQuiet
        <4>2. alone[p] \/ deaths = 0 => faults' > 1
          BY <1>2, <1>3, <3>2
        <4> QED BY <1>2, <3>2, <4>1, <4>2
      <3> QED BY <2>1, <3>1, <3>2
    <2> HIDE DEF t
    <2>7. faults' > 1 \/ ~(faults > 1)
      BY <1>2, <2>1
    <2>8. stuck[p] => faults' > 0
      BY <1>2, <2>1, AtCall
    <2>9. GoesOnWell(p, op[p], "rolling", t, stuck[p], oldMic[p])
      BY <1>1, <1>3, <2>3, <2>6, <2>7, <2>8 DEF GoesOnWell, Setups!ChainKinds, RelabelCalls
    <2> QED BY <1>1, <1>2, <2>3, <2>4, <2>5, <2>6, <2>9, AtCall, GoesOn
  <1> QED BY <1>4, <1>5 DEF Setups!RolledBack

-----------------------------------------------------------------------------
(* relabel_source.                                                         *)

LEMMA NotRelabelledKeeps ==
  ASSUME ServerIInv, NEW p \in Cmds, callAt[p] \in RelabelCalls, Setups!NotRelabelled(p), ServerStep, Chained' = Chained,
         alone[p] /\ had[p] /\ deaths' = 0 => faults' > 1 \/ Mics' # {}
  PROVE  Kept(p)
PROOF
  <1>1. op[p] \in {"setup", "teardown"} /\ Busy(p) /\ ~Inside(p)
    BY AtCall DEF RelabelCalls, Busy, Inside, Setups!ChainKinds
  <1>2. SpareOthers(p) /\ deaths \in Nat /\ deaths' \in Nat /\ deaths' >= deaths
    BY <1>1, AtCall DEF SpareOthers, ServerStep
  <1>3. Calm(p) => IF op[p] = "setup" THEN Complete ELSE Chained = {}
    BY AtCall DEF Content
  <1>4. Calm(p) => Setups!AllOrNothing'
    BY <1>3, ChainLevels, ChainIsSame DEF SameChain
  <1>5. CASE op[p] = "setup" /\ Setups!Finish(p, 2)
    <2>1. EndsWell(p, 2)
      BY <1>2, <1>4, <1>5 DEF EndsWell, Calm
    <2> QED BY <1>1, <1>2, <1>5, <2>1, AtCall, Ends
  <1>6. CASE op[p] = "teardown" /\ Setups!Finish(p, 1)
    <2>1. via[p] # "enable"
      BY <1>6, AtCall DEF InPlace
    <2>2. EndsWell(p, 1)
      BY <1>2, <1>3, <1>6, <2>1 DEF EndsWell, Calm
    <2> QED BY <1>1, <1>2, <1>6, <2>2, AtCall, Ends
  <1> QED BY <1>1, <1>5, <1>6 DEF Setups!NotRelabelled

\* A relabel that ends well, with the label of its command on woys-mic.
LEMMA RelabelledKeeps ==
  ASSUME ServerIInv, NEW p \in Cmds, callAt[p] \in RelabelCalls, Setups!Finish(p, 0), ServerStep, Chained' = Chained,
         \A m \in Mics' : m.label = Setups!Label(p),
         alone[p] /\ had[p] /\ deaths' = 0 => faults' > 1 \/ Mics' # {}
  PROVE  Kept(p)
PROOF
  <1>1. op[p] \in {"setup", "teardown"} /\ Busy(p) /\ ~Inside(p)
    BY AtCall DEF RelabelCalls, Busy, Inside, Setups!ChainKinds
  <1>2. SpareOthers(p) /\ deaths \in Nat /\ deaths' \in Nat /\ deaths' >= deaths
    BY <1>1, AtCall DEF SpareOthers, ServerStep
  <1>3. Calm(p) => IF op[p] = "setup" THEN Complete' ELSE Chained' = {}
    BY AtCall, ChainIsSame DEF Content, SameChain
  <1>4. Calm(p) => Setups!AllOrNothing'
    BY <1>3, SoundThen
  <1>5. \A m \in Mics' : m.label = IF op[p] = "setup" THEN "internal" ELSE "daily"
    BY DEF Setups!Label
  <1>6. op[p] = "setup" /\ alone[p] => Whole'
    BY <1>3, <1>5 DEF Whole, Calm
  <1>7. EndsWell(p, 0)
    BY <1>1, <1>2, <1>3, <1>4, <1>5, <1>6 DEF EndsWell, Calm
  <1> QED BY <1>1, <1>2, <1>7, AtCall, Ends

LEMMA RelabelListKeeps ==
  ASSUME ServerIInv, NEW p \in Cmds, Setups!RelabelList(p)
  PROVE  Kept(p)
PROOF
  <1>1. /\ callAt[p] = "relabel" /\ callAt[p] \in RelabelCalls /\ Busy(p)
        /\ loaded' = loaded /\ deaths' = deaths /\ alone' = alone /\ had' = had
        /\ faults' = faults \/ faults' = faults + 1
    BY DEF Setups!RelabelList, Busy, Setups!frame, Setups!Works, Setups!Fails, RelabelCalls
  <1>2. ServerStep /\ SameChain /\ Chained' = Chained /\ Mics' = Mics /\ SpareOthers(p) /\ faults \in Nat /\ deaths \in Nat
    BY <1>1, AtCall, ServerQuiet
  <1>3. op[p] \in {"setup", "teardown"}
    BY <1>1, AtCall
  <1>4. alone[p] /\ had[p] /\ deaths = 0 => faults > 1 \/ Mics # {}
    BY <1>1, <1>3, AtCall DEF MicKept
  <1>5. alone[p] /\ had[p] /\ deaths' = 0 => faults' > 1 \/ Mics' # {}
    BY <1>1, <1>2, <1>4
  <1>6. CASE Setups!NotRelabelled(p)
    BY <1>1, <1>2, <1>5, <1>6, NotRelabelledKeeps
  <1>7. CASE Setups!OfKind({"mic"}) = {} /\ Setups!Finish(p, 0)
    <2>1. \A m \in Mics' : m.label = Setups!Label(p)
      BY <1>2, <1>7 DEF Mics
    <2> QED BY <1>1, <1>2, <1>5, <1>7, <2>1, RelabelledKeeps
  <1>8. CASE /\ Setups!Works /\ \E m \in Setups!OfKind({"mic"}) : oldMic' = [oldMic EXCEPT ![p] = {m}]
             /\ Setups!Goto(p, "relabel-unload") /\ UNCHANGED <<op, via, pending, stuck, result>>
    <2>1. PICK m \in Mics : oldMic' = [oldMic EXCEPT ![p] = {m}]
      BY <1>8 DEF Mics
    <2>2. m \in Setups!Modules /\ m.kind = "mic"
      BY <2>1, AtCall DEF Mics, Setups!OfKind, ServerTypes
    <2>3. PICK o \in SUBSET Setups!Modules : o = {m} /\ IsFiniteSet(o)
      BY <2>2, FS_Singleton
    <2>4. Becomes(p, "relabel-unload", op[p], via[p], pending[p], stuck[p], o, result[p])
      BY <1>8, <2>1, <2>3, AtCall, TypesOf DEF Setups!Goto, Becomes
    <2>5. Calm(p) => IF op[p] = "setup" THEN Complete' ELSE Chained' = {}
      BY <1>1, <1>2, AtCall DEF Content, SameChain
    <2>6. faults' = faults
      BY <1>8 DEF Setups!Works
    <2>7. GoesOnWell(p, op[p], "relabel-unload", pending[p], stuck[p], o)
      BY <1>1, <1>5, <2>2, <2>3, <2>5, <2>6, AtCall DEF GoesOnWell, Setups!ChainKinds, Calm
    <2>8. "relabel-unload" \in CallsOf[op[p]]
      BY <1>3, CallsListed DEF RelabelCalls
    <2>9. ~Inside(p)
      BY <1>1 DEF Inside, Setups!ChainKinds
    <2> QED BY <1>1, <1>2, <2>3, <2>4, <2>7, <2>8, <2>9, AtCall, GoesOn
  <1> QED BY <1>6, <1>7, <1>8 DEF Setups!RelabelList

LEMMA RelabelUnloadKeeps ==
  ASSUME ServerIInv, NEW p \in Cmds, Setups!RelabelUnload(p)
  PROVE  Kept(p)
PROOF
  <1>1. /\ callAt[p] = "relabel-unload" /\ callAt[p] \in RelabelCalls /\ Busy(p)
        /\ deaths' = deaths /\ alone' = alone /\ had' = had
    BY DEF Setups!RelabelUnload, Busy, Setups!frame, RelabelCalls
  <1>2. op[p] \in {"setup", "teardown"} /\ SpareOthers(p) /\ faults \in Nat /\ deaths \in Nat
    BY <1>1, AtCall DEF SpareOthers
  <1>3. alone[p] /\ had[p] /\ deaths = 0 => faults > 1 \/ Mics # {}
    BY <1>1, <1>2, AtCall DEF MicKept
  <1>4. \A m \in oldMic[p] : m.kind = "mic"
    BY <1>1, AtCall DEF InPlace
  <1>5. CASE Setups!Works /\ loaded' = loaded \ oldMic[p] /\ Setups!Goto(p, "relabel-load") /\ Setups!Keeps(p)
    <2>1. /\ Chained' = Chained \ oldMic[p] /\ faults' = faults
          /\ loaded' \in SUBSET Setups!Modules /\ IsFiniteSet(loaded') /\ \A x, y \in Mics' : x = y
      <3>1. PICK S : S = oldMic[p]
        OBVIOUS
      <3>2. /\ Chained' = Chained \ S
            /\ loaded' \in SUBSET Setups!Modules /\ IsFiniteSet(loaded') /\ \A x, y \in Mics' : x = y
        BY <1>5, <3>1, AtCall, ModulesGone
      <3> QED BY <1>5, <3>1, <3>2 DEF Setups!Works
    <2>2. Chained' = Chained
      <3>1. Chained \cap oldMic[p] = {}
        BY <1>4 DEF Chained, Setups!OfKind, Setups!ChainKinds
      <3> QED BY <2>1, <3>1
    <2>3. ServerStep
      BY <1>1, <1>2, <2>1 DEF ServerStep
    <2>4. Becomes(p, "relabel-load", op[p], via[p], pending[p], stuck[p], oldMic[p], result[p])
      BY <1>5, AtCall, Moves
    <2>5. Calm(p) => IF op[p] = "setup" THEN Complete' ELSE Chained' = {}
      BY <1>1, <2>2, AtCall, ChainIsSame DEF Content, SameChain
    <2>6. GoesOnWell(p, op[p], "relabel-load", pending[p], stuck[p], oldMic[p])
      BY <1>1, <2>1, <2>5, AtCall DEF GoesOnWell, Setups!ChainKinds, Calm, InPlace
    <2>7. "relabel-load" \in CallsOf[op[p]]
      BY <1>2, CallsListed DEF RelabelCalls
    <2>8. ~Inside(p)
      BY <1>1 DEF Inside, Setups!ChainKinds
    <2> QED BY <1>1, <1>2, <2>2, <2>3, <2>4, <2>6, <2>7, <2>8, AtCall, GoesOn
  <1>6. CASE Setups!NotRelabelled(p) /\ UNCHANGED loaded /\ (Setups!Works \/ Setups!Fails)
    <2>1. faults' = faults \/ faults' = faults + 1
      BY <1>6 DEF Setups!Works, Setups!Fails
    <2>2. ServerStep /\ Chained' = Chained /\ Mics' = Mics
      BY <1>1, <1>6, <2>1, AtCall, ServerQuiet
    <2>3. alone[p] /\ had[p] /\ deaths' = 0 => faults' > 1 \/ Mics' # {}
      BY <1>1, <1>2, <1>3, <2>1, <2>2
    <2> QED BY <1>1, <1>6, <2>2, <2>3, NotRelabelledKeeps
  <1> QED BY <1>5, <1>6 DEF Setups!RelabelUnload

LEMMA RelabelLoadKeeps ==
  ASSUME Setups!ChainAssumption, ServerIInv, NEW p \in Cmds, Setups!RelabelLoad(p)
  PROVE  Kept(p)
PROOF
  <1>1. /\ callAt[p] = "relabel-load" /\ callAt[p] \in RelabelCalls /\ Busy(p) /\ ~Inside(p)
        /\ deaths' = deaths /\ alone' = alone /\ had' = had
    BY DEF Setups!RelabelLoad, Busy, Setups!frame, RelabelCalls, Inside, Setups!ChainKinds
  <1>2. op[p] \in {"setup", "teardown"} /\ SpareOthers(p) /\ faults \in Nat /\ deaths \in Nat
    BY <1>1, AtCall DEF SpareOthers
  <1>3. CASE Mics = {} /\ Setups!Works /\ loaded' = loaded \cup {Setups!NewModule("mic", Setups!Label(p))} /\ Setups!Finish(p, 0)
    <2>1. PICK l \in Setups!Labels : l = Setups!Label(p)
      BY DEF Setups!Label, Setups!Labels
    <2>2. /\ Chained' = Chained /\ Mics' # {} /\ \A m \in Mics' : m.label = l
          /\ loaded' \in SUBSET Setups!Modules /\ IsFiniteSet(loaded') /\ \A x, y \in Mics' : x = y
      <3>1. loaded' = loaded \cup {Setups!NewModule("mic", l)} /\ "mic" \in Setups!Kinds /\ "mic" \notin Setups!ChainKinds /\ ServerTypes
        BY <1>3, <2>1, AtCall DEF Setups!Kinds, Setups!ChainKinds
      <3>2. \E m \in Setups!Modules :
              /\ m.kind = "mic" /\ m.label = l /\ m \in loaded'
              /\ \A ks : Setups!OfKind(ks)' = IF "mic" \in ks THEN Setups!OfKind(ks) \cup {m} ELSE Setups!OfKind(ks)
              /\ Chained' = (IF "mic" \in Setups!ChainKinds THEN Chained \cup {m} ELSE Chained)
              /\ Mics' = (IF "mic" = "mic" THEN {m} ELSE Mics)
              /\ loaded' \in SUBSET Setups!Modules /\ IsFiniteSet(loaded') /\ \A x, y \in Mics' : x = y
        BY <1>3, <3>1, ModuleLoaded
      <3> QED BY <3>1, <3>2
    <2>3. ServerStep
      BY <1>1, <1>2, <1>3, <2>2 DEF ServerStep, Setups!Works
    <2>4. \A m \in Mics' : m.label = Setups!Label(p)
      BY <2>1, <2>2
    <2> QED BY <1>1, <1>3, <2>2, <2>3, <2>4, RelabelledKeeps
  <1>4. CASE /\ (Mics = {} /\ Setups!Fails) \/ (Mics # {} /\ Setups!Works)
             /\ Setups!Goto(p, "relabel-back") /\ Setups!Keeps(p) /\ UNCHANGED loaded
    <2>1. faults' = faults \/ faults' = faults + 1
      BY <1>4 DEF Setups!Works, Setups!Fails
    <2>2. ServerStep /\ SameChain /\ Chained' = Chained /\ Mics' = Mics
      BY <1>1, <1>4, <2>1, AtCall, ServerQuiet
    <2>3. Becomes(p, "relabel-back", op[p], via[p], pending[p], stuck[p], oldMic[p], result[p])
      BY <1>4, AtCall, Moves
    <2>4. Calm(p) => IF op[p] = "setup" THEN Complete' ELSE Chained' = {}
      BY <1>1, <2>2, AtCall DEF Content, SameChain
    <2>5. (faults' > 0 \/ Mics' # {}) /\ (stuck[p] => faults' > 0)
      BY <1>2, <1>4, <2>1, <2>2, AtCall DEF Setups!Fails
    <2>6. \E x \in Setups!Modules : oldMic[p] = {x} /\ x.kind = "mic"
      BY <1>1, AtCall DEF InPlace
    <2>7. GoesOnWell(p, op[p], "relabel-back", pending[p], stuck[p], oldMic[p])
      BY <1>1, <2>4, <2>5, <2>6 DEF GoesOnWell, Setups!ChainKinds, Calm
    <2>8. "relabel-back" \in CallsOf[op[p]]
      BY <1>2, CallsListed DEF RelabelCalls
    <2> QED BY <1>1, <1>2, <2>2, <2>3, <2>7, <2>8, AtCall, GoesOn
  <1> QED BY <1>3, <1>4 DEF Setups!RelabelLoad, Mics

\* The old module is loaded again, unless that fails too.
LEMMA RelabelBackKeeps ==
  ASSUME Setups!ChainAssumption, ServerIInv, NEW p \in Cmds, Setups!RelabelBack(p)
  PROVE  Kept(p)
PROOF
  <1>1. /\ callAt[p] = "relabel-back" /\ callAt[p] \in RelabelCalls /\ Setups!NotRelabelled(p)
        /\ deaths' = deaths /\ alone' = alone /\ had' = had
    BY DEF Setups!RelabelBack, Setups!frame, RelabelCalls
  <1>2. op[p] \in {"setup", "teardown"} /\ faults \in Nat /\ deaths \in Nat
    BY <1>1, AtCall
  <1>3. alone[p] /\ had[p] /\ deaths = 0 => faults > 0 \/ Mics # {}
    BY <1>1, <1>2, AtCall DEF MicKept
  <1>4. CASE Mics = {} /\ Setups!Works /\ Setups!Restores(p)
    <2>1. PICK m \in Setups!Modules : oldMic[p] = {m} /\ m.kind = "mic"
      BY <1>1, AtCall DEF InPlace
    <2>2. PICK l \in Setups!Labels : l = m.label
      BY <2>1 DEF Setups!Modules
    <2>3. loaded' = loaded \cup {Setups!NewModule("mic", l)}
      BY <1>4, <2>1, <2>2 DEF Setups!Restores
    <2>4. Chained' = Chained /\ Mics' # {}
          /\ loaded' \in SUBSET Setups!Modules /\ IsFiniteSet(loaded') /\ \A x, y \in Mics' : x = y
      <3>1. "mic" \in Setups!Kinds /\ "mic" \notin Setups!ChainKinds /\ ServerTypes
        BY AtCall DEF Setups!Kinds, Setups!ChainKinds
      <3>2. \E x \in Setups!Modules :
              /\ x.kind = "mic" /\ x.label = l /\ x \in loaded'
              /\ \A ks : Setups!OfKind(ks)' = IF "mic" \in ks THEN Setups!OfKind(ks) \cup {x} ELSE Setups!OfKind(ks)
              /\ Chained' = (IF "mic" \in Setups!ChainKinds THEN Chained \cup {x} ELSE Chained)
              /\ Mics' = (IF "mic" = "mic" THEN {x} ELSE Mics)
              /\ loaded' \in SUBSET Setups!Modules /\ IsFiniteSet(loaded') /\ \A y, z \in Mics' : y = z
        BY <1>4, <2>3, <3>1, ModuleLoaded
      <3> QED BY <3>1, <3>2
    <2>5. ServerStep
      BY <1>1, <1>2, <1>4, <2>4 DEF ServerStep, Setups!Works
    <2> QED BY <1>1, <2>4, <2>5, NotRelabelledKeeps
  <1>5. CASE ((Mics = {} /\ Setups!Fails) \/ (Mics # {} /\ Setups!Works)) /\ UNCHANGED loaded
    <2>1. faults' = faults \/ faults' = faults + 1
      BY <1>5 DEF Setups!Works, Setups!Fails
    <2>2. ServerStep /\ Chained' = Chained /\ Mics' = Mics
      BY <1>1, <1>5, <2>1, AtCall, ServerQuiet
    <2>3. alone[p] /\ had[p] /\ deaths' = 0 => faults' > 1 \/ Mics' # {}
      BY <1>1, <1>2, <1>3, <1>5, <2>1, <2>2 DEF Setups!Fails
    <2> QED BY <1>1, <2>2, <2>3, NotRelabelledKeeps
  <1> QED BY <1>4, <1>5 DEF Setups!RelabelBack, Mics

-----------------------------------------------------------------------------
(* enable() and disable().                                                 *)

LEMMA EnableKeeps ==
  ASSUME ServerIInv, NEW p \in Cmds, Setups!Enable(p)
  PROVE  Kept(p)
PROOF
  <1>1. /\ callAt[p] = "unit" /\ op[p] = "enable" /\ Busy(p) /\ ~Inside(p)
        /\ loaded' = loaded /\ deaths' = deaths /\ alone' = alone /\ had' = had
        /\ faults' = faults \/ faults' = faults + 1
    BY DEF Setups!Enable, Busy, Inside, Setups!ChainKinds, Setups!Works, Setups!Fails
  <1>2. /\ ServerStep /\ SameChain /\ Chained' = Chained /\ Mics' = Mics /\ SpareOthers(p)
        /\ faults \in Nat /\ deaths \in Nat
    BY <1>1, AtCall, ServerQuiet
  <1>3. /\ alone[p] /\ had[p] /\ deaths = 0 => faults > 1 \/ Mics # {}
        /\ via[p] = "cli"
    BY <1>1, AtCall DEF MicKept, InPlace
  <1>4. CASE Setups!Fails /\ Setups!Finish(p, 2)
    <2>1. deaths = 0 => faults' > 1 \/ Setups!AllOrNothing'
      BY <1>1, <1>2, <1>4, NobodyInside DEF Setups!Fails, SameChain
    <2>2. EndsWell(p, 2)
      BY <1>1, <1>2, <1>3, <1>4, <2>1 DEF EndsWell, Setups!Fails
    <2> QED BY <1>1, <1>2, <1>4, <2>2, AtCall, Ends
  <1>5. CASE Setups!Works /\ Setups!Finish(p, 0)
    <2>1. EndsWell(p, 0)
      BY <1>1, <1>2, <1>3, <1>5 DEF EndsWell, Setups!Works
    <2> QED BY <1>1, <1>2, <1>5, <2>1, AtCall, Ends
  <1>6. CASE /\ Setups!Works
             /\ op' = [op EXCEPT ![p] = "setup"] /\ via' = [via EXCEPT ![p] = "enable"]
             /\ Setups!Goto(p, "check") /\ UNCHANGED <<pending, stuck, oldMic, result>>
    <2>1. Becomes(p, "check", "setup", "enable", pending[p], stuck[p], oldMic[p], result[p])
      BY <1>6, AtCall, TypesOf DEF Setups!Goto, Becomes
    <2>2. GoesOnWell(p, "setup", "check", pending[p], stuck[p], oldMic[p])
      BY <1>1, <1>2, <1>3, <1>6, AtCall DEF GoesOnWell, Setups!ChainKinds, RelabelCalls, Setups!Works
    <2>3. "check" \in CallsOf["setup"] /\ "setup" \in Setups!Ops /\ "enable" \in {"cli", "enable", "disable"}
      BY CallsListed DEF Setups!Ops
    <2> QED BY <1>1, <1>2, <2>1, <2>2, <2>3, AtCall, GoesOn
  <1> QED BY <1>4, <1>5, <1>6 DEF Setups!Enable

LEMMA StartedKeeps ==
  ASSUME ServerIInv, NEW p \in Cmds, Setups!Started(p)
  PROVE  Kept(p)
PROOF
  <1>1. /\ callAt[p] = "started" /\ op[p] = "enable" /\ Busy(p) /\ ~Inside(p)
        /\ loaded' = loaded /\ deaths' = deaths /\ alone' = alone /\ had' = had /\ faults' = faults
    BY AtCall DEF Setups!Started, Busy, Inside, Setups!ChainKinds
  <1>2. /\ ServerStep /\ SameChain /\ Chained' = Chained /\ Mics' = Mics /\ SpareOthers(p)
        /\ faults \in Nat /\ deaths \in Nat
    BY <1>1, AtCall, ServerQuiet
  <1>3. /\ alone[p] /\ had[p] /\ deaths = 0 => faults > 1 \/ Mics # {}
        /\ had[p] /\ deaths = 0 => Sound(p)
        /\ via[p] = "cli"
    BY <1>1, AtCall DEF MicKept, Answers, InPlace
  <1>4. CASE Setups!Finish(p, 0)
    <2>1. EndsWell(p, 0)
      BY <1>1, <1>2, <1>3 DEF EndsWell
    <2> QED BY <1>1, <1>2, <1>4, <2>1, AtCall, Ends
  <1>5. CASE Setups!Finish(p, 2)
    <2>1. EndsWell(p, 2)
      BY <1>1, <1>2, <1>3 DEF EndsWell, Sound, SameChain
    <2> QED BY <1>1, <1>2, <1>5, <2>1, AtCall, Ends
  <1> QED BY <1>4, <1>5 DEF Setups!Started

LEMMA DisableKeeps ==
  ASSUME ServerIInv, NEW p \in Cmds, Setups!Disable(p)
  PROVE  Kept(p)
PROOF
  <1>1. /\ callAt[p] = "unit" /\ op[p] = "disable" /\ Busy(p) /\ ~Inside(p)
        /\ loaded' = loaded /\ deaths' = deaths /\ alone' = alone /\ had' = had
        /\ faults' = faults \/ faults' = faults + 1
    BY DEF Setups!Disable, Busy, Inside, Setups!ChainKinds, Setups!Works, Setups!Fails
  <1>2. /\ ServerStep /\ Chained' = Chained /\ Mics' = Mics /\ SpareOthers(p)
        /\ faults \in Nat /\ deaths \in Nat
    BY <1>1, AtCall, ServerQuiet
  <1>3. /\ alone[p] /\ had[p] /\ deaths' = 0 => faults' > 1 \/ Mics' # {}
        /\ stuck[p] => faults' > 0
    <2>1. alone[p] /\ had[p] /\ deaths = 0 => faults > 1 \/ Mics # {}
      BY <1>1, AtCall DEF MicKept
    <2> QED BY <1>1, <1>2, <2>1, AtCall
  <1>4. {"list"} \subseteq CallsOf["disable"] \cap CallsOf["teardown"]
    BY CallsListed DEF ClearCalls
  <1>5. \A o : GoesOnWell(p, o, "list", pending[p], stuck[p], oldMic[p])
    BY <1>1, <1>3 DEF GoesOnWell, Setups!ChainKinds, RelabelCalls
  <1>6. CASE Setups!Goto(p, "list") /\ Setups!Keeps(p)
    <2>1. Becomes(p, "list", op[p], via[p], pending[p], stuck[p], oldMic[p], result[p])
      BY <1>6, AtCall, Moves
    <2> QED BY <1>1, <1>2, <1>4, <1>5, <2>1, AtCall, GoesOn
  <1>7. CASE Setups!Goto(p, "list") /\ result' = [result EXCEPT ![p] = 2] /\ UNCHANGED <<op, via, pending, stuck, oldMic>>
    <2>1. Becomes(p, "list", op[p], via[p], pending[p], stuck[p], oldMic[p], 2)
      BY <1>7, AtCall, TypesOf DEF Setups!Goto, Becomes
    <2> QED BY <1>1, <1>2, <1>4, <1>5, <2>1, AtCall, GoesOn
  <1>8. CASE /\ op' = [op EXCEPT ![p] = "teardown"] /\ via' = [via EXCEPT ![p] = "disable"]
             /\ Setups!Goto(p, "list") /\ UNCHANGED <<pending, stuck, oldMic, result, service>>
    <2>1. Becomes(p, "list", "teardown", "disable", pending[p], stuck[p], oldMic[p], result[p])
      BY <1>8, AtCall, TypesOf DEF Setups!Goto, Becomes
    <2>2. "teardown" \in Setups!Ops /\ "disable" \in {"cli", "enable", "disable"}
      BY DEF Setups!Ops
    <2> QED BY <1>1, <1>2, <1>4, <1>5, <2>1, <2>2, AtCall, GoesOn
  <1> QED BY <1>6, <1>7, <1>8 DEF Setups!Disable

LEMMA StoppedKeeps ==
  ASSUME ServerIInv, NEW p \in Cmds, Setups!Stopped(p)
  PROVE  Kept(p)
PROOF
  <1>1. /\ callAt[p] = "stopped" /\ op[p] = "disable" /\ Busy(p) /\ ~Inside(p)
        /\ loaded' = loaded /\ deaths' = deaths /\ alone' = alone /\ had' = had
        /\ faults' = faults \/ faults' = faults + 1
    BY AtCall DEF Setups!Stopped, Busy, Inside, Setups!ChainKinds, Setups!Works, Setups!Fails
  <1>2. ServerStep /\ Chained' = Chained /\ Mics' = Mics /\ SpareOthers(p) /\ faults \in Nat
    BY <1>1, AtCall, ServerQuiet
  <1>3. alone[p] /\ had[p] /\ deaths' = 0 => faults' > 1 \/ Mics' # {}
    BY <1>1, <1>2, AtCall DEF MicKept
  <1>4. PICK s \in BOOLEAN : s = FALSE
    OBVIOUS
  <1>5. PICK r \in {2, 9} : result' = [result EXCEPT ![p] = r]
    BY DEF Setups!Stopped
  <1>6. Becomes(p, "list", op[p], via[p], pending[p], s, oldMic[p], r)
    BY <1>4, <1>5, AtCall, TypesOf DEF Setups!Stopped, Setups!Goto, Becomes
  <1>7. GoesOnWell(p, op[p], "list", pending[p], s, oldMic[p])
    BY <1>1, <1>3, <1>4 DEF GoesOnWell, Setups!ChainKinds, RelabelCalls
  <1>8. "list" \in CallsOf[op[p]]
    BY <1>1, CallsListed DEF ClearCalls
  <1> QED BY <1>1, <1>2, <1>6, <1>7, <1>8, AtCall, GoesOn

-----------------------------------------------------------------------------
(* The virtual microphone.                                                 *)

\* A `pw setup` or `pw teardown` that goes on, or ends.
LEMMA PwGoesOn ==
  ASSUME ServerIInv, NEW p \in Cmds, op[p] \in {"pw-setup", "pw-teardown"}, Busy(p), ServerStep, Chained' = Chained,
         NEW a \in {"state", "sweep", "sweeping", "mic", "ready", "pw-unload"}, a \in CallsOf[op[p]],
         NEW t \in SUBSET Setups!Modules, IsFiniteSet(t),
         a \in {"sweeping", "pw-unload"} => \A x \in t : x.kind \in PwKinds,
         NEW m \in SUBSET Setups!Modules, IsFiniteSet(m),
         Becomes(p, a, op[p], via[p], t, stuck[p], m, result[p])
  PROVE  Kept(p)
PROOF
  <1>1. SpareOthers(p) /\ ~Inside(p)
    BY AtCall DEF SpareOthers, Inside, ClearCalls, Setups!ChainKinds
  <1>2. faults \in Nat /\ faults' \in Nat /\ faults' >= faults
    BY AtCall DEF ServerStep
  <1>3. stuck[p] => faults' > 0
    BY <1>2, AtCall
  <1>4. GoesOnWell(p, op[p], a, t, stuck[p], m)
    BY <1>3 DEF GoesOnWell, Setups!ChainKinds, RelabelCalls
  <1>5. a \notin {"idle", "started"}
    OBVIOUS
  <1> QED BY <1>1, <1>4, <1>5, AtCall, GoesOn

LEMMA PwSetupEnds ==
  ASSUME ServerIInv, NEW p \in Cmds, op[p] = "pw-setup", Busy(p), ServerStep,
         Chained' = Chained, NEW r \in {0, 2}, Setups!Finish(p, r)
  PROVE  Kept(p)
PROOF
  <1>1. SpareOthers(p) /\ ~Inside(p) /\ via[p] = "cli"
    BY AtCall DEF SpareOthers, Inside, ClearCalls, Setups!ChainKinds, InPlace
  <1>2. EndsWell(p, r)
    BY <1>1 DEF EndsWell
  <1> QED BY <1>1, <1>2, AtCall, Ends

\* A module of those p has listed is gone, or stays.
LEMMA PwTakes ==
  ASSUME ServerIInv, NEW p \in Cmds, callAt[p] \in {"pw-unload", "sweeping"},
         deaths' = deaths, alone' = alone, had' = had, NEW m \in pending[p],
         (faults' = faults /\ loaded' = loaded \ {m}) \/ (faults' = faults + 1 /\ loaded' = loaded),
         pending' = [pending EXCEPT ![p] = @ \ {m}], UNCHANGED <<op, callAt, via, stuck, oldMic, result>>
  PROVE  Kept(p)
PROOF
  <1>1. op[p] \in {"pw-setup", "pw-teardown"} /\ Busy(p)
    BY AtCall DEF Busy
  <1> DEFINE t == pending[p] \ {m}
  <1>2. \A x \in pending[p] : x.kind \in PwKinds
    BY AtCall DEF InPlace
  <1>3. t \in SUBSET Setups!Modules /\ IsFiniteSet(t) /\ \A x \in t : x.kind \in PwKinds
    BY <1>2, AtCall, FS_Subset
  <1>4. PICK a \in {"pw-unload", "sweeping"} : callAt[p] = a
    OBVIOUS
  <1>5. Becomes(p, a, op[p], via[p], t, stuck[p], oldMic[p], result[p])
    BY <1>4, AtCall, TypesOf DEF Becomes
  <1> HIDE DEF t
  <1>6. ServerStep /\ Chained' = Chained
    <2>1. CASE faults' = faults /\ loaded' = loaded \ {m}
      <3>1. /\ Chained' = Chained \ {m}
            /\ loaded' \in SUBSET Setups!Modules /\ IsFiniteSet(loaded') /\ \A x, y \in Mics' : x = y
        BY <2>1, AtCall, ModulesGone
      <3>2. m \notin Chained
        BY <1>2 DEF Chained, Setups!OfKind, Setups!ChainKinds, PwKinds
      <3>3. ServerStep
        BY <2>1, <3>1, AtCall DEF ServerStep
      <3> QED BY <3>1, <3>2, <3>3
    <2>2. CASE faults' = faults + 1 /\ loaded' = loaded
      BY <2>2, AtCall, ServerQuiet
    <2> QED BY <2>1, <2>2
  <1>7. a \in CallsOf[op[p]]
    BY <1>4, AtCall DEF InPlace
  <1>8. oldMic[p] \in SUBSET Setups!Modules /\ IsFiniteSet(oldMic[p])
    BY AtCall
  <1> QED BY <1>1, <1>3, <1>5, <1>6, <1>7, <1>8, PwGoesOn

\* The modules of some kinds, for p to remember.
LEMMA KindsHeld ==
  ASSUME ServerIInv, NEW ks
  PROVE  Setups!OfKind(ks) \in SUBSET Setups!Modules /\ IsFiniteSet(Setups!OfKind(ks)) /\ \A x \in Setups!OfKind(ks) : x.kind \in ks
PROOF
  <1>1. loaded \in SUBSET Setups!Modules /\ IsFiniteSet(loaded)
    BY DEF ServerIInv, ServerTypes
  <1>2. Setups!OfKind(ks) \subseteq loaded /\ \A x \in Setups!OfKind(ks) : x.kind \in ks
    BY DEF Setups!OfKind
  <1> QED BY <1>1, <1>2, FS_Subset

LEMMA PwLegacyKeeps ==
  ASSUME ServerIInv, NEW p \in Cmds, Setups!PwLegacy(p)
  PROVE  Kept(p)
PROOF
  <1>1. /\ op[p] = "pw-setup" /\ Busy(p) /\ "state" \in CallsOf[op[p]]
        /\ deaths' = deaths /\ alone' = alone /\ had' = had
        /\ faults' = faults \/ faults' = faults + 1
    BY AtCall, CallsListed DEF Setups!PwLegacy, Busy, Setups!frame, Setups!Works, Setups!Fails
  <1>2. /\ pending[p] \in SUBSET Setups!Modules /\ IsFiniteSet(pending[p])
        /\ oldMic[p] \in SUBSET Setups!Modules /\ IsFiniteSet(oldMic[p])
    BY AtCall
  <1>3. ServerStep /\ Chained' = Chained
    <2>1. CASE Setups!Works /\ loaded' = loaded \ Setups!OfKind({"legacy"})
      <3>1. PICK S : S = Setups!OfKind({"legacy"})
        OBVIOUS
      <3>2. /\ Chained' = Chained \ S
            /\ loaded' \in SUBSET Setups!Modules /\ IsFiniteSet(loaded') /\ \A x, y \in Mics' : x = y
        BY <2>1, <3>1, AtCall, ModulesGone
      <3>3. S \cap Chained = {}
        BY <3>1 DEF Chained, Setups!OfKind, Setups!ChainKinds
      <3>4. ServerStep
        BY <1>1, <2>1, <3>2, AtCall DEF ServerStep, Setups!Works
      <3> QED BY <3>2, <3>3, <3>4
    <2>2. CASE loaded' = loaded
      BY <1>1, <2>2, AtCall, ServerQuiet
    <2> QED BY <2>1, <2>2 DEF Setups!PwLegacy
  <1>4. CASE Setups!Goto(p, "state") /\ Setups!Keeps(p)
    <2>1. Becomes(p, "state", op[p], via[p], pending[p], stuck[p], oldMic[p], result[p])
      BY <1>4, AtCall, Moves
    <2> QED BY <1>1, <1>2, <1>3, <2>1, PwGoesOn
  <1>5. CASE Setups!Finish(p, 2)
    BY <1>1, <1>3, <1>5, PwSetupEnds
  <1> QED BY <1>4, <1>5 DEF Setups!PwLegacy

LEMMA PwStateKeeps ==
  ASSUME ServerIInv, NEW p \in Cmds, Setups!PwState(p)
  PROVE  Kept(p)
PROOF
  <1>1. /\ op[p] = "pw-setup" /\ Busy(p) /\ "sweep" \in CallsOf[op[p]]
        /\ loaded' = loaded /\ deaths' = deaths /\ alone' = alone /\ had' = had
        /\ faults' = faults \/ faults' = faults + 1
    BY AtCall, CallsListed DEF Setups!PwState, Busy, Setups!frame, Setups!Works, Setups!Fails
  <1>2. ServerStep /\ Chained' = Chained
    BY <1>1, AtCall, ServerQuiet
  <1>3. CASE Setups!Finish(p, 2)
    BY <1>1, <1>2, <1>3, PwSetupEnds
  <1>4. CASE Setups!Finish(p, 0)
    BY <1>1, <1>2, <1>4, PwSetupEnds
  <1>5. CASE /\ Setups!Goto(p, "sweep") /\ oldMic' = [oldMic EXCEPT ![p] = Setups!OfKind({"sink", "mic"})]
             /\ UNCHANGED <<op, via, pending, stuck, result>>
    <2>1. PICK m \in SUBSET Setups!Modules : m = Setups!OfKind({"sink", "mic"}) /\ IsFiniteSet(m)
      BY KindsHeld
    <2>2. Becomes(p, "sweep", op[p], via[p], pending[p], stuck[p], m, result[p])
      BY <1>5, <2>1, AtCall, TypesOf DEF Setups!Goto, Becomes
    <2>3. pending[p] \in SUBSET Setups!Modules /\ IsFiniteSet(pending[p])
      BY AtCall
    <2> QED BY <1>1, <1>2, <2>1, <2>2, <2>3, PwGoesOn
  <1> QED BY <1>3, <1>4, <1>5 DEF Setups!PwState

LEMMA PwSweepKeeps ==
  ASSUME ServerIInv, NEW p \in Cmds, Setups!PwSweep(p)
  PROVE  Kept(p)
PROOF
  <1>1. /\ op[p] \in {"pw-setup", "pw-teardown"} /\ Busy(p)
        /\ loaded' = loaded /\ deaths' = deaths /\ alone' = alone /\ had' = had /\ faults' = faults
    BY AtCall DEF Setups!PwSweep, Busy, Setups!frame
  <1>2. ServerStep /\ Chained' = Chained
    BY <1>1, AtCall, ServerQuiet
  <1>3. "sweeping" \in CallsOf[op[p]]
    BY <1>1, CallsListed
  <1>4. PICK t \in SUBSET Setups!Modules : /\ pending' = [pending EXCEPT ![p] = t] /\ IsFiniteSet(t)
                                    /\ \A x \in t : x.kind \in PwKinds
    <2>1. PICK t \in {{}, Setups!OfKind(PwKinds)} : pending' = [pending EXCEPT ![p] = t]
      BY DEF Setups!PwSweep, PwKinds
    <2>2. t \in SUBSET Setups!Modules /\ IsFiniteSet(t) /\ \A x \in t : x.kind \in PwKinds
      BY KindsHeld, FS_EmptySet
    <2> QED BY <2>1, <2>2
  <1>5. Becomes(p, "sweeping", op[p], via[p], t, stuck[p], oldMic[p], result[p])
    BY <1>4, AtCall, TypesOf DEF Setups!PwSweep, Setups!Goto, Becomes
  <1>6. oldMic[p] \in SUBSET Setups!Modules /\ IsFiniteSet(oldMic[p])
    BY AtCall
  <1> QED BY <1>1, <1>2, <1>3, <1>4, <1>5, <1>6, PwGoesOn

LEMMA PwDestroyKeeps ==
  ASSUME ServerIInv, NEW p \in Cmds, Setups!PwDestroy(p)
  PROVE  Kept(p)
PROOF
  <1>1. /\ callAt[p] = "sweeping" /\ deaths' = deaths /\ alone' = alone /\ had' = had
        /\ UNCHANGED <<op, callAt, via, stuck, oldMic, result>>
    BY DEF Setups!PwDestroy, Setups!frame
  <1>2. PICK m \in pending[p] :
          /\ (faults' = faults /\ loaded' = loaded \ {m}) \/ (faults' = faults + 1 /\ loaded' = loaded)
          /\ pending' = [pending EXCEPT ![p] = @ \ {m}]
    BY DEF Setups!PwDestroy, Setups!Works, Setups!Fails
  <1> QED BY <1>1, <1>2, PwTakes

\* What is loaded besides the chain.
LEMMA OtherLoaded ==
  ASSUME Setups!ChainAssumption, ServerIInv, NEW k \in {"sink", "mic"}, k = "mic" => Mics = {},
         alone' = alone, had' = had, deaths' = deaths, faults' = faults,
         loaded' = loaded \cup {Setups!NewModule(k, "daily")}
  PROVE  ServerStep /\ Chained' = Chained
PROOF
  <1>1. /\ k \in Setups!Kinds /\ k \notin Setups!ChainKinds /\ ServerTypes /\ "daily" \in Setups!Labels
        /\ (k = "mic" => Mics = {}) /\ loaded' = loaded \cup {Setups!NewModule(k, "daily")}
    BY DEF Setups!Kinds, Setups!ChainKinds, ServerIInv, Setups!Labels
  <1>2. \E m \in Setups!Modules :
          /\ m.kind = k /\ m.label = "daily" /\ m \in loaded'
          /\ \A ks : Setups!OfKind(ks)' = IF k \in ks THEN Setups!OfKind(ks) \cup {m} ELSE Setups!OfKind(ks)
          /\ Chained' = (IF k \in Setups!ChainKinds THEN Chained \cup {m} ELSE Chained)
          /\ Mics' = (IF k = "mic" THEN {m} ELSE Mics)
          /\ loaded' \in SUBSET Setups!Modules /\ IsFiniteSet(loaded') /\ \A x, y \in Mics' : x = y
    BY <1>1, ModuleLoaded
  <1>3. faults \in Nat /\ deaths \in Nat
    BY <1>1 DEF ServerTypes
  <1> QED BY <1>1, <1>2, <1>3 DEF ServerStep

LEMMA PwLoadSinkKeeps ==
  ASSUME Setups!ChainAssumption, ServerIInv, NEW p \in Cmds, Setups!PwLoadSink(p)
  PROVE  Kept(p)
PROOF
  <1>1. /\ op[p] = "pw-setup" /\ Busy(p) /\ deaths' = deaths /\ alone' = alone /\ had' = had
        /\ {"mic", "ready"} \subseteq CallsOf[op[p]]
    BY CallsListed DEF Setups!PwLoadSink, Setups!Swept, Busy, Setups!frame
  <1>2. CASE Setups!Fails /\ Setups!Finish(p, 2) /\ UNCHANGED loaded
    <2>1. ServerStep /\ Chained' = Chained
      BY <1>1, <1>2, AtCall, ServerQuiet DEF Setups!Fails
    <2> QED BY <1>1, <1>2, <2>1, PwSetupEnds
  <1>3. CASE /\ Setups!Works /\ loaded' = loaded \cup {Setups!NewModule("sink", "daily")}
             /\ Setups!Goto(p, IF "mic" \in Setups!Seen(p) THEN "ready" ELSE "mic") /\ Setups!Keeps(p)
    <2>1. ServerStep /\ Chained' = Chained
      BY <1>1, <1>3, OtherLoaded DEF Setups!Works
    <2>2. PICK a \in {"mic", "ready"} : Setups!Goto(p, a)
      BY <1>3
    <2>3. Becomes(p, a, op[p], via[p], pending[p], stuck[p], oldMic[p], result[p])
      BY <1>3, <2>2, AtCall, Moves
    <2>4. /\ pending[p] \in SUBSET Setups!Modules /\ IsFiniteSet(pending[p])
          /\ oldMic[p] \in SUBSET Setups!Modules /\ IsFiniteSet(oldMic[p])
      BY AtCall
    <2> QED BY <1>1, <2>1, <2>3, <2>4, PwGoesOn
  <1> QED BY <1>2, <1>3 DEF Setups!PwLoadSink

LEMMA PwLoadMicKeeps ==
  ASSUME Setups!ChainAssumption, ServerIInv, NEW p \in Cmds, Setups!PwLoadMic(p)
  PROVE  Kept(p)
PROOF
  <1>1. /\ op[p] = "pw-setup" /\ Busy(p) /\ deaths' = deaths /\ alone' = alone /\ had' = had
        /\ "ready" \in CallsOf[op[p]]
    BY AtCall, CallsListed DEF Setups!PwLoadMic, Setups!Swept, Busy, Setups!frame
  <1>2. CASE (Setups!Works \/ Setups!Fails) /\ Setups!Finish(p, 2) /\ UNCHANGED loaded
    <2>1. ServerStep /\ Chained' = Chained
      BY <1>1, <1>2, AtCall, ServerQuiet DEF Setups!Fails, Setups!Works
    <2> QED BY <1>1, <1>2, <2>1, PwSetupEnds
  <1>3. CASE /\ Setups!OfKind({"mic"}) = {} /\ Setups!Works /\ loaded' = loaded \cup {Setups!NewModule("mic", "daily")}
             /\ Setups!Goto(p, "ready") /\ Setups!Keeps(p)
    <2>1. ServerStep /\ Chained' = Chained
      BY <1>1, <1>3, OtherLoaded DEF Setups!Works, Mics
    <2>2. Becomes(p, "ready", op[p], via[p], pending[p], stuck[p], oldMic[p], result[p])
      BY <1>3, AtCall, Moves
    <2>3. /\ pending[p] \in SUBSET Setups!Modules /\ IsFiniteSet(pending[p])
          /\ oldMic[p] \in SUBSET Setups!Modules /\ IsFiniteSet(oldMic[p])
      BY AtCall
    <2> QED BY <1>1, <2>1, <2>2, <2>3, PwGoesOn
  <1> QED BY <1>2, <1>3 DEF Setups!PwLoadMic

LEMMA PwReadyKeeps ==
  ASSUME ServerIInv, NEW p \in Cmds, Setups!PwReady(p)
  PROVE  Kept(p)
PROOF
  <1>1. /\ op[p] = "pw-setup" /\ Busy(p)
        /\ loaded' = loaded /\ deaths' = deaths /\ alone' = alone /\ had' = had
        /\ faults' = faults \/ faults' = faults + 1
    BY AtCall DEF Setups!PwReady, Busy, Setups!frame, Setups!Works, Setups!Fails
  <1>2. ServerStep /\ Chained' = Chained
    BY <1>1, AtCall, ServerQuiet
  <1>3. PICK r \in {0, 2} : Setups!Finish(p, r)
    BY DEF Setups!PwReady
  <1> QED BY <1>1, <1>2, <1>3, PwSetupEnds

LEMMA PwListKeeps ==
  ASSUME ServerIInv, NEW p \in Cmds, Setups!PwList(p)
  PROVE  Kept(p)
PROOF
  <1>1. /\ callAt[p] = "pw-list" /\ op[p] = "pw-teardown" /\ Busy(p) /\ ~Inside(p) /\ via[p] = "cli"
        /\ loaded' = loaded /\ deaths' = deaths /\ alone' = alone /\ had' = had
        /\ faults' = faults \/ faults' = faults + 1
    BY AtCall DEF Setups!PwList, Busy, Setups!frame, Inside, Setups!ChainKinds, Setups!Works, Setups!Fails, InPlace
  <1>2. ServerStep /\ Chained' = Chained /\ SpareOthers(p)
    BY <1>1, AtCall, ServerQuiet
  <1>3. CASE Setups!Finish(p, 2)
    <2>1. EndsWell(p, 2)
      BY <1>1 DEF EndsWell
    <2> QED BY <1>1, <1>2, <1>3, <2>1, AtCall, Ends
  <1>4. CASE /\ pending' = [pending EXCEPT ![p] = Setups!OfKind(PwKinds)] /\ Setups!Goto(p, "pw-unload")
             /\ UNCHANGED <<op, via, stuck, oldMic, result>>
    <2>1. PICK t \in SUBSET Setups!Modules : t = Setups!OfKind(PwKinds) /\ IsFiniteSet(t) /\ \A x \in t : x.kind \in PwKinds
      BY KindsHeld
    <2>2. Becomes(p, "pw-unload", op[p], via[p], t, stuck[p], oldMic[p], result[p])
      BY <1>4, <2>1, AtCall, TypesOf DEF Setups!Goto, Becomes
    <2>3. "pw-unload" \in CallsOf[op[p]] /\ oldMic[p] \in SUBSET Setups!Modules /\ IsFiniteSet(oldMic[p])
      BY <1>1, AtCall, CallsListed
    <2> QED BY <1>1, <1>2, <2>1, <2>2, <2>3, PwGoesOn
  <1> QED BY <1>3, <1>4 DEF Setups!PwList, PwKinds

LEMMA PwUnloadKeeps ==
  ASSUME ServerIInv, NEW p \in Cmds, Setups!PwUnload(p)
  PROVE  Kept(p)
PROOF
  <1>1. /\ callAt[p] = "pw-unload" /\ deaths' = deaths /\ alone' = alone /\ had' = had
        /\ UNCHANGED <<op, callAt, via, stuck, oldMic, result>>
    BY DEF Setups!PwUnload, Setups!frame
  <1>2. PICK m \in pending[p] :
          /\ (faults' = faults /\ loaded' = loaded \ {m}) \/ (faults' = faults + 1 /\ loaded' = loaded)
          /\ pending' = [pending EXCEPT ![p] = @ \ {m}]
    BY DEF Setups!PwUnload, Setups!Works, Setups!Fails
  <1> QED BY <1>1, <1>2, PwTakes

\* It succeeds if nothing is left.
LEMMA PwJudgeKeeps ==
  ASSUME ServerIInv, NEW p \in Cmds, Setups!PwJudge(p)
  PROVE  Kept(p)
PROOF
  <1>1. /\ op[p] = "pw-teardown" /\ Busy(p) /\ ~Inside(p) /\ via[p] = "cli"
        /\ loaded' = loaded /\ deaths' = deaths /\ alone' = alone /\ had' = had
        /\ faults' = faults \/ faults' = faults + 1
    BY AtCall DEF Setups!PwJudge, Setups!Swept, Busy, Setups!frame, Inside, Setups!ChainKinds, Setups!Works, Setups!Fails, InPlace
  <1>2. ServerStep /\ Chained' = Chained /\ SpareOthers(p) /\ Setups!OfKind(PwKinds)' = Setups!OfKind(PwKinds)
    BY <1>1, AtCall, ServerQuiet
  <1>3. PICK r \in {0, 2} : Setups!Finish(p, r) /\ (r = 0 => Setups!OfKind(PwKinds) = {})
    BY DEF Setups!PwJudge, Setups!Judged, PwKinds
  <1>4. EndsWell(p, r)
    BY <1>1, <1>2, <1>3 DEF EndsWell
  <1> QED BY <1>1, <1>2, <1>3, <1>4, AtCall, Ends

\* After a death nothing is claimed but of later commands.
LEMMA DiesKeeps ==
  ASSUME ServerIInv, NEW p \in Cmds, Setups!Dies(p)
  PROVE  Kept(p)
PROOF
  <1>1. /\ Busy(p) /\ loaded' = loaded /\ deaths' = deaths + 1 /\ alone' = alone /\ had' = had
        /\ faults' = faults
        /\ Setups!Finish(p, 9) /\ faults \in Nat /\ deaths \in Nat
    BY AtCall DEF Setups!Dies, Busy
  <1>2. /\ Chained' = Chained /\ Mics' = Mics
        /\ loaded' \in SUBSET Setups!Modules /\ IsFiniteSet(loaded') /\ \A x, y \in Mics' : x = y
    BY <1>1, AtCall, NothingMoved
  <1>3. ServerStep /\ SpareOthers(p) /\ deaths' > 0
    BY <1>1, <1>2 DEF ServerStep, SpareOthers
  <1>4. EndsWell(p, 9)
    BY <1>3 DEF EndsWell
  <1> QED BY <1>1, <1>3, <1>4, AtCall, Ends

-----------------------------------------------------------------------------
(* The beginning of a command, and of the audio server.                    *)

LEMMA BeginKeeps ==
  ASSUME ServerIInv, NEW p \in Cmds, Setups!Begin(p)
  PROVE  ServerIInv'
PROOF
  <1>1. PICK o \in Setups!Ops :
          /\ callAt[p] = "idle" /\ Setups!Beside(p, o)
          /\ op' = [q \in Cmds |-> IF q = p THEN o ELSE IF callAt[q] = "idle" THEN "setup" ELSE op[q]]
          /\ callAt' = [callAt EXCEPT ![p] = Setups!Entry(o)]
          /\ result' = [q \in Cmds |-> IF callAt[q] = "idle" THEN 9 ELSE result[q]]
          /\ alone' = [q \in Cmds |-> q = p /\ \A x \in Cmds : callAt[x] = "idle"]
          /\ had' = [q \in Cmds |-> IF q = p THEN Setups!OfKind({"mic"}) # {} ELSE callAt[q] # "idle" /\ had[q]]
          /\ stuck' = [q \in Cmds |-> callAt[q] # "idle" /\ stuck[q]]
          /\ loaded' = loaded /\ via' = via /\ pending' = pending /\ oldMic' = oldMic
          /\ faults' = faults /\ deaths' = deaths
    BY DEF Setups!Begin, Setups!Goto
  <1>2. PICK a : a = Setups!Entry(o)
    OBVIOUS
  <1>3. a \in CallsOf[o] /\ a \in {"check", "list", "unit", "legacy", "pw-list"}
    BY <1>2, CallsListed DEF Setups!Entry, Setups!Ops, ClearCalls
  <1>4. /\ SameChain /\ Chained' = Chained /\ Mics' = Mics
        /\ loaded' \in SUBSET Setups!Modules /\ IsFiniteSet(loaded') /\ \A m, n \in Mics' : m = n
    BY <1>1, NothingMoved DEF ServerIInv
  <1>5. ServerTypes
    BY DEF ServerIInv
  <1>6. /\ callAt'[p] = a /\ op'[p] = o /\ ~stuck'[p] /\ via'[p] = via[p] /\ (had'[p] => Mics # {})
        /\ pending'[p] = pending[p] /\ oldMic'[p] = oldMic[p]
        /\ \A q \in Cmds \ {p} :
              /\ callAt'[q] = callAt[q] /\ op'[q] = (IF Busy(q) THEN op[q] ELSE "setup")
              /\ via'[q] = via[q] /\ pending'[q] = pending[q]
              /\ (Busy(q) => (stuck'[q] <=> stuck[q])) /\ (stuck'[q] => stuck[q])
              /\ oldMic'[q] = oldMic[q] /\ (had'[q] => had[q]) /\ ~alone'[q]
              /\ result'[q] = IF ~Busy(q) THEN 9 ELSE result[q]
    BY <1>1, <1>2, <1>5 DEF ServerTypes, Mics, Busy
  <1>7. ServerTypes'
    <2>1. a \in CallNames
      BY <1>3 DEF CallNames
    <2>2. op' \in [Cmds -> Setups!Ops] /\ callAt' \in [Cmds -> CallNames]
      <3>1. "setup" \in Setups!Ops
        BY DEF Setups!Ops
      <3>2. op \in [Cmds -> Setups!Ops] /\ callAt \in [Cmds -> CallNames]
        BY <1>5 DEF ServerTypes
      <3> QED BY <1>1, <1>2, <2>1, <3>1, <3>2
    <2>3. stuck' \in [Cmds -> BOOLEAN] /\ alone' \in [Cmds -> BOOLEAN] /\ had' \in [Cmds -> BOOLEAN]
      BY <1>1, <1>5 DEF ServerTypes
    <2>4. result' \in [Cmds -> {0, 1, 2, 9}]
      BY <1>1, <1>5 DEF ServerTypes
    <2> QED BY <1>1, <1>4, <1>5, <2>2, <2>3, <2>4 DEF ServerTypes
  <1>8. ~Busy(p) /\ InPlace(p) /\ via[p] = "cli"
    BY <1>1, AtCall DEF Busy, InPlace
  <1>9. Own(p)'
    <2>1. InPlace(p)'
      BY <1>3, <1>6, <1>8 DEF InPlace
    <2>2. Content(p)' /\ Reported(p)'
      BY <1>3, <1>6 DEF Content, Reported, Setups!Says, Setups!ChainKinds, RelabelCalls
    <2>3. Answers(p)' /\ MicKept(p)'
      BY <1>3, <1>4, <1>6 DEF Answers, Setups!HasSetUp, MicKept
    <2> QED BY <2>1, <2>2, <2>3 DEF Own
  <1>10. ASSUME NEW q \in Cmds \ {p} PROVE Own(q)'
    <2>1. InPlace(q) /\ Content(q) /\ Answers(q)
      BY AtCall
    <2>2. InPlace(q)'
      <3>1. ~Busy(q) => via[q] = "cli" /\ callAt[q] \in CallsOf["setup"]
        BY <2>1, AtCall, SMT DEF InPlace, Busy, CallsOf, Setups!Ops
      <3> QED BY <1>1, <1>6, <2>1, <3>1 DEF InPlace, Busy
    <2>3. Content(q)'
      <3>1. CASE ~Busy(q)
        BY <1>6, <3>1 DEF Content, Busy, Setups!ChainKinds, RelabelCalls
      <3>2. CASE Busy(q)
        BY <1>1, <1>4, <1>6, <2>1, <3>2 DEF Content, Calm, SameChain
      <3> QED BY <3>1, <3>2
    <2>4. Answers(q)'
      BY <1>1, <1>4, <1>6, <2>1 DEF Answers, Setups!HasSetUp, Sound, Busy, SameChain
    <2>5. MicKept(q)' /\ Reported(q)'
      BY <1>6 DEF MicKept, Reported, Setups!Says
    <2> QED BY <2>2, <2>3, <2>4, <2>5 DEF Own
  <1>11. ASSUME NEW q \in Cmds, NEW x \in Cmds \ {q} PROVE Turns(q, x)'
    <2>1. CASE q = p
      <3>1. Busy(x)' => o = "pw-setup" \/ op'[x] = "pw-setup"
        BY <1>1, <1>6, <2>1 DEF Setups!Beside, Busy
      <3>2. Busy(p)'
        BY <1>3, <1>6 DEF Busy
      <3>3. alone'[p] => ~Busy(x)'
        BY <1>1, <1>6, <2>1 DEF Busy
      <3> QED BY <1>6, <2>1, <3>1, <3>2, <3>3 DEF Turns
    <2>2. CASE q # p
      <3>1. Busy(q) => o = "pw-setup" \/ op[q] = "pw-setup"
        BY <1>1, <2>2 DEF Setups!Beside, Busy
      <3>2. Turns(q, x)
        BY DEF ServerIInv
      <3> QED BY <1>6, <2>2, <3>1, <3>2 DEF Turns, Busy
    <2> QED BY <2>1, <2>2
  <1>12. Steady'
    <2> SUFFICES ASSUME faults' = 0, deaths' = 0, \A q \in Cmds : ~Inside(q)'
                 PROVE  Setups!AllOrNothing'
      BY DEF Steady
    <2>1. \A q \in Cmds : ~Inside(q)
      BY <1>1, <1>6 DEF Inside, Setups!ChainKinds
    <2>2. Setups!AllOrNothing
      BY <1>1, <2>1 DEF ServerIInv, Steady
    <2> QED BY <1>4, <2>2 DEF SameChain
  <1> QED BY <1>7, <1>9, <1>10, <1>11, <1>12 DEF ServerIInv

LEMMA ServerRestartsKeeps ==
  ASSUME ServerIInv, Setups!ServerRestarts
  PROVE  ServerIInv'
PROOF
  <1>1. /\ loaded' = {} /\ alone' = [p \in Cmds |-> FALSE] /\ deaths' = deaths + 1
        /\ op' = op /\ callAt' = callAt /\ via' = via /\ pending' = pending /\ stuck' = stuck
        /\ oldMic' = oldMic
        /\ result' = result /\ had' = had /\ faults' = faults
    BY DEF Setups!ServerRestarts
  <1>2. ServerTypes /\ deaths' \in Nat /\ deaths' > 0
    BY <1>1 DEF ServerIInv, ServerTypes
  <1>3. ServerTypes'
    <2>1. IsFiniteSet(loaded') /\ loaded' \in SUBSET Setups!Modules /\ \A m, n \in Mics' : m = n
      BY <1>1, FS_EmptySet DEF Mics, Setups!OfKind
    <2>2. alone' \in [Cmds -> BOOLEAN]
      BY <1>1
    <2> QED BY <1>1, <1>2, <2>1, <2>2 DEF ServerTypes
  <1>4. Steady'
    BY <1>2 DEF Steady
  <1>5. ASSUME NEW p \in Cmds PROVE Own(p)'
    <2>1. ~alone'[p] /\ InPlace(p)
      BY <1>1, AtCall
    <2>2. InPlace(p)'
      BY <1>1, <2>1 DEF InPlace, Busy
    <2>3. Content(p)' /\ Answers(p)' /\ MicKept(p)' /\ Reported(p)'
      BY <1>2, <2>1 DEF Content, Calm, Answers, MicKept, Reported, Setups!Says
    <2> QED BY <2>2, <2>3 DEF Own
  <1>6. ASSUME NEW p \in Cmds, NEW q \in Cmds \ {p} PROVE Turns(p, q)'
    <2>1. Turns(p, q)
      BY DEF ServerIInv
    <2> QED BY <1>1, <2>1 DEF Turns, Busy
  <1> QED BY <1>3, <1>4, <1>5, <1>6 DEF ServerIInv

LEMMA ServerBegins ==
  ASSUME Setups!ChainInit
  PROVE  ServerIInv
PROOF
  <1>1. /\ op = [p \in Cmds |-> "setup"] /\ callAt = [p \in Cmds |-> "idle"] /\ via = [p \in Cmds |-> "cli"]
        /\ pending = [p \in Cmds |-> {}] /\ stuck = [p \in Cmds |-> FALSE] /\ oldMic = [p \in Cmds |-> {}]
        /\ result = [p \in Cmds |-> 9] /\ alone = [p \in Cmds |-> FALSE] /\ had = [p \in Cmds |-> FALSE]
        /\ faults = 0 /\ deaths = 0
    BY DEF Setups!ChainInit
  <1> DEFINE sink == [id |-> 1, kind |-> "sink", label |-> "daily"]
             mic == [id |-> 2, kind |-> "mic", label |-> "daily"]
             legacy == [id |-> 1, kind |-> "legacy", label |-> "daily"]
  <1>2. loaded \in {{}, {sink, mic}, {legacy}}
    BY DEF Setups!ChainInit
  <1>3. sink \in Setups!Modules /\ mic \in Setups!Modules /\ legacy \in Setups!Modules
    BY DEF Setups!Modules, Setups!Kinds, Setups!Labels
  <1>4. Chained = {} /\ \A m, n \in Mics : m = n
    BY <1>2 DEF Chained, Mics, Setups!OfKind, Setups!ChainKinds
  <1> HIDE DEF sink, mic, legacy
  <1>5. loaded \in SUBSET Setups!Modules /\ IsFiniteSet(loaded)
    <2>1. IsFiniteSet({}) /\ IsFiniteSet({sink}) /\ IsFiniteSet({legacy})
      BY FS_EmptySet, FS_Singleton
    <2>2. IsFiniteSet({sink} \cup {mic})
      BY <2>1, FS_AddElement
    <2>3. {sink, mic} = {sink} \cup {mic}
      OBVIOUS
    <2> QED BY <1>2, <1>3, <2>1, <2>2, <2>3
  <1>6. ServerTypes
    <2>1. "setup" \in Setups!Ops /\ "idle" \in CallNames
      BY DEF Setups!Ops, CallNames, CallsOf
    <2>2. op \in [Cmds -> Setups!Ops] /\ callAt \in [Cmds -> CallNames] /\ via \in [Cmds -> {"cli", "enable", "disable"}]
      BY <1>1, <2>1
    <2>3. pending \in [Cmds -> SUBSET Setups!Modules] /\ oldMic \in [Cmds -> SUBSET Setups!Modules]
          /\ \A p \in Cmds : IsFiniteSet(pending[p]) /\ IsFiniteSet(oldMic[p])
      BY <1>1, FS_EmptySet
    <2>4. stuck \in [Cmds -> BOOLEAN] /\ alone \in [Cmds -> BOOLEAN] /\ had \in [Cmds -> BOOLEAN]
      BY <1>1
    <2>5. result \in [Cmds -> {0, 1, 2, 9}] /\ faults \in Nat /\ deaths \in Nat
      BY <1>1
    <2> QED BY <1>4, <1>5, <2>2, <2>3, <2>4, <2>5 DEF ServerTypes
  <1>7. Steady
    BY <1>4, NoneIsSound DEF Steady
  <1>8. ASSUME NEW p \in Cmds PROVE Own(p)
    <2>1. callAt[p] = "idle" /\ op[p] = "setup" /\ via[p] = "cli" /\ ~stuck[p] /\ result[p] = 9 /\ ~alone[p] /\ ~had[p]
      BY <1>1
    <2>2. InPlace(p)
      BY <2>1 DEF InPlace, CallsOf, Setups!Ops
    <2>3. Content(p)
      BY <2>1 DEF Content, Setups!ChainKinds, RelabelCalls
    <2>4. Answers(p) /\ MicKept(p) /\ Reported(p)
      BY <2>1 DEF Answers, Setups!HasSetUp, MicKept, Reported, Setups!Says
    <2> QED BY <2>2, <2>3, <2>4 DEF Own
  <1>9. ASSUME NEW p \in Cmds, NEW q \in Cmds \ {p} PROVE Turns(p, q)
    BY <1>1 DEF Turns, Busy
  <1> QED BY <1>6, <1>7, <1>8, <1>9 DEF ServerIInv

LEMMA ServerStepKeeps ==
  ASSUME Setups!ChainAssumption, ServerIInv, [Setups!ChainNext]_Setups!chainVars
  PROVE  ServerIInv'
PROOF
  <1>1. ASSUME NEW p \in Cmds, Setups!Step(p) PROVE ServerIInv'
    <2>1. CASE Setups!Begin(p)
      BY <2>1, BeginKeeps
    <2>2. CASE Setups!ListChain(p) \/ Setups!Unload(p) \/ Setups!Unloaded(p)
      BY <2>2, ListChainKeeps, UnloadKeeps, UnloadedKeeps, CallKeeps
    <2>3. CASE Setups!SetupChecks(p) \/ Setups!SetupCleared(p) \/ Setups!LoadNext(p) \/ Setups!RollsBack(p) \/ Setups!RolledBack(p) \/ Setups!TeardownCleared(p)
      BY <2>3, SetupChecksKeeps, SetupClearedKeeps, LoadNextKeeps, RollsBackKeeps, RolledBackKeeps,
         TeardownClearedKeeps, CallKeeps
    <2>4. CASE Setups!RelabelList(p) \/ Setups!RelabelUnload(p) \/ Setups!RelabelLoad(p) \/ Setups!RelabelBack(p)
      BY <2>4, RelabelListKeeps, RelabelUnloadKeeps, RelabelLoadKeeps, RelabelBackKeeps, CallKeeps
    <2>5. CASE Setups!Enable(p) \/ Setups!Started(p) \/ Setups!Disable(p) \/ Setups!Stopped(p) \/ Setups!DisableCleared(p)
      BY <2>5, EnableKeeps, StartedKeeps, DisableKeeps, StoppedKeeps, DisableClearedKeeps, CallKeeps
    <2>6. CASE Setups!PwLegacy(p) \/ Setups!PwState(p) \/ Setups!PwSweep(p) \/ Setups!PwDestroy(p) \/ Setups!PwLoadSink(p) \/ Setups!PwLoadMic(p) \/ Setups!PwReady(p)
      BY <2>6, PwLegacyKeeps, PwStateKeeps, PwSweepKeeps, PwDestroyKeeps, PwLoadSinkKeeps, PwLoadMicKeeps,
         PwReadyKeeps, CallKeeps
    <2>7. CASE Setups!PwList(p) \/ Setups!PwUnload(p) \/ Setups!PwJudge(p) \/ Setups!Dies(p)
      BY <2>7, PwListKeeps, PwUnloadKeeps, PwJudgeKeeps, DiesKeeps, CallKeeps
    <2> QED BY <1>1, <2>1, <2>2, <2>3, <2>4, <2>5, <2>6, <2>7 DEF Setups!Step
  <1>2. CASE UNCHANGED Setups!chainVars
    <2>1. /\ loaded' = loaded /\ op' = op /\ callAt' = callAt /\ via' = via /\ pending' = pending
          /\ stuck' = stuck /\ oldMic' = oldMic
          /\ result' = result /\ alone' = alone /\ had' = had /\ faults' = faults /\ deaths' = deaths
      BY <1>2 DEF Setups!chainVars
    <2>2. /\ SameChain /\ Chained' = Chained /\ Mics' = Mics /\ Setups!OfKind(PwKinds)' = Setups!OfKind(PwKinds)
          /\ loaded' \in SUBSET Setups!Modules /\ IsFiniteSet(loaded') /\ \A m, n \in Mics' : m = n
      BY <2>1, NothingMoved DEF ServerIInv
    <2>3. ServerTypes' /\ Steady'
      <3>1. ServerTypes'
        BY <2>1, <2>2 DEF ServerIInv, ServerTypes
      <3>2. Steady'
        BY <2>1, <2>2 DEF ServerIInv, Steady, SameChain, Inside
      <3> QED BY <3>1, <3>2
    <2>4. ASSUME NEW p \in Cmds PROVE Own(p)'
      <3>1. Own(p)
        BY DEF ServerIInv
      <3>2. InPlace(p)' /\ Content(p)'
        BY <2>1, <2>2, <3>1 DEF Own, InPlace, Busy, Content, Calm, SameChain
      <3>3. Answers(p)' /\ MicKept(p)'
        BY <2>1, <2>2, <3>1 DEF Own, Answers, Setups!HasSetUp, Sound, MicKept, SameChain
      <3>4. Reported(p)'
        BY <2>1, <2>2, <3>1 DEF Own, Reported, Setups!Says, Whole, SameChain
      <3> QED BY <3>2, <3>3, <3>4 DEF Own
    <2>5. ASSUME NEW p \in Cmds, NEW q \in Cmds \ {p} PROVE Turns(p, q)'
      <3>1. Turns(p, q)
        BY DEF ServerIInv
      <3> QED BY <2>1, <3>1 DEF Turns, Busy
    <2> QED BY <2>3, <2>4, <2>5 DEF ServerIInv
  <1> QED BY <1>1, <1>2, ServerRestartsKeeps DEF Setups!ChainNext

\* One module is loaded once.
LEMMA OneIsCounted ==
  ASSUME NEW k, One(k)
  PROVE  Setups!Cardinality(Setups!OfKind({k})) = 1
PROOF
  <1>1. PICK m \in loaded : Setups!OfKind({k}) = {m}
    BY DEF One
  <1>2. Cardinality({m}) = 1
    BY FS_Singleton
  <1> QED BY <1>1, <1>2, CountingHere

LEMMA ServerIInvImplies ==
  ASSUME ServerIInv
  PROVE  Setups!ChainInv
PROOF
  <1>1. ServerTypes /\ \A p \in Cmds : Answers(p) /\ MicKept(p) /\ Reported(p)
    BY DEF ServerIInv, Own
  <1>2. Setups!ChainTypeOK
    <2>1. Setups!Cardinality(Setups!OfKind({"mic"})) <= 1
      <3>1. CASE Mics = {}
        <4>1. Cardinality(Mics) = 0
          BY <3>1, FS_EmptySet
        <4> QED BY <4>1, CountingHere DEF Mics
      <3>2. CASE Mics # {}
        <4>1. PICK m \in Mics : Mics = {m}
          BY <1>1, <3>2 DEF ServerTypes
        <4>2. Cardinality({m}) = 1
          BY FS_Singleton
        <4> QED BY <4>1, <4>2, CountingHere DEF Mics
      <3> QED BY <3>1, <3>2
    <2>2. \A m \in loaded : m.id \in Nat /\ m.kind \in Setups!Kinds /\ m.label \in Setups!Labels
      BY <1>1 DEF ServerTypes, Setups!Modules
    <2> QED BY <1>1, <2>1, <2>2 DEF Setups!ChainTypeOK, ServerTypes
  <1>3. Setups!ActiveIsWhole
    <2>1. ASSUME NEW p \in Cmds, Setups!Says(p, "setup", 0)
          PROVE  /\ \A k \in Setups!ChainKinds : Setups!Cardinality(Setups!OfKind({k})) = 1
                 /\ {m.kind : m \in Setups!Shown} = {"user-source"}
      <3>1. Complete /\ \A m \in Mics : m.label # "daily"
        BY <1>1, <2>1 DEF Reported, Whole
      <3>2. \A k \in Setups!ChainKinds : Setups!Cardinality(Setups!OfKind({k})) = 1
        BY <3>1, OneIsCounted DEF Complete
      <3>3. \A m \in Setups!Shown : m.kind = "user-source"
        BY <3>1 DEF Setups!Shown, Mics, Setups!OfKind
      <3>4. \E m \in Setups!Shown : m.kind = "user-source"
        <4>1. PICK m \in loaded : Setups!OfKind({"user-source"}) = {m}
          BY <3>1 DEF Complete, One, Setups!ChainKinds
        <4>2. m \in Setups!OfKind({"user-source"})
          BY <4>1
        <4>3. m.label = "daily" /\ m.kind = "user-source"
          BY <3>1, <4>2 DEF Complete, Setups!OfKind
        <4> QED BY <4>3 DEF Setups!Shown, Setups!OfKind
      <3> QED BY <3>2, <3>3, <3>4
    <2>2. ASSUME NEW p \in Cmds
          PROVE  /\ Setups!Says(p, "teardown", 0) => Setups!OfKind(Setups!ChainKinds) = {} /\ \A m \in Setups!OfKind({"mic"}) : m.label = "daily"
                 /\ Setups!Says(p, "teardown", 1) \/ Setups!Says(p, "disable", 0) => Setups!OfKind(Setups!ChainKinds) = {}
                 /\ Setups!Says(p, "pw-teardown", 0) => Setups!OfKind({"mic", "sink", "legacy"}) = {}
      BY <1>1 DEF Reported, Chained, Mics, PwKinds
    <2> QED BY <2>1, <2>2 DEF Setups!ActiveIsWhole
  <1>4. Setups!NoHalfChain
    BY <1>1 DEF Setups!NoHalfChain, Answers, Sound, ServerTypes
  <1>5. Setups!MicSurvives
    BY <1>1 DEF Setups!MicSurvives, MicKept, Mics, ServerTypes
  <1> QED BY <1>2, <1>3, <1>4, <1>5 DEF Setups!ChainInv

\* Whatever calls fail or hang and whatever else runs: a setup that says so has
\* loaded the whole chain, a teardown that succeeds has unloaded it, and one
\* failing call costs neither half a chain nor woys-mic.
LEMMA ChainKeepsInv ==
  ASSUME Setups!ChainAssumption
  PROVE  Setups!ChainSpec => []Setups!ChainInv
PROOF
  <1>1. Setups!ChainInit => ServerIInv
    BY ServerBegins
  <1>2. ServerIInv /\ [Setups!ChainNext]_Setups!chainVars => ServerIInv'
    BY ServerStepKeeps
  <1>3. ServerIInv => Setups!ChainInv
    BY ServerIInvImplies
  <1> QED BY <1>1, <1>2, <1>3, PTL DEF Setups!ChainSpec


-----------------------------------------------------------------------------
(* The parts side by side.                                                 *)

\* Whatever moves, what happens to each part is a behaviour of it.
LEMMA EachPartMoves ==
  Spec => /\ Library!LibSpec /\ Pool!PoolSpec /\ Chunks!ChunkSpec
          /\ Pitch!PitchSpec /\ Migr!MigrationSpec /\ Setups!ChainSpec
PROOF
  <1> DEFINE all == <<turn, libVars, chainVars, poolVars, chunkVars, pitchVars, migrVars>>
  <1>1. Init => /\ Library!LibInit /\ Pool!PoolInit /\ Chunks!ChunkInit
                /\ Pitch!PitchInit /\ Migr!MigrationInit /\ Setups!ChainInit
    BY Zenon DEF Init
  <1>2. [Next]_all => [Library!LibNext]_Library!libVars
    <2>1. UNCHANGED libVars => UNCHANGED Library!libVars
      BY DEF libVars, Library!libVars
    <2>2. UNCHANGED all => UNCHANGED libVars
      OBVIOUS
    <2> QED BY <2>1, <2>2, Zenon DEF Next
  <1>3. [Next]_all => [Pool!PoolNext]_Pool!poolVars
    <2>1. UNCHANGED poolVars => UNCHANGED Pool!poolVars
      BY DEF poolVars, Pool!poolVars
    <2>2. UNCHANGED all => UNCHANGED poolVars
      OBVIOUS
    <2> QED BY <2>1, <2>2, Zenon DEF Next
  <1>4. [Next]_all => [Chunks!ChunkNext]_Chunks!chunkVars
    <2>1. UNCHANGED chunkVars => UNCHANGED Chunks!chunkVars
      BY DEF chunkVars, Chunks!chunkVars
    <2>2. UNCHANGED all => UNCHANGED chunkVars
      OBVIOUS
    <2> QED BY <2>1, <2>2, Zenon DEF Next
  <1>5. [Next]_all => [Pitch!PitchNext]_Pitch!pitchVars
    <2>1. UNCHANGED pitchVars => UNCHANGED Pitch!pitchVars
      BY DEF pitchVars, Pitch!pitchVars
    <2>2. UNCHANGED all => UNCHANGED pitchVars
      OBVIOUS
    <2> QED BY <2>1, <2>2, Zenon DEF Next
  <1>6. [Next]_all => [Migr!MigrationNext]_Migr!migrationVars
    <2>1. UNCHANGED migrVars => UNCHANGED Migr!migrationVars
      BY DEF migrVars, Migr!migrationVars
    <2>2. UNCHANGED all => UNCHANGED migrVars
      OBVIOUS
    <2> QED BY <2>1, <2>2, Zenon DEF Next
  <1>7. [Next]_all => [Setups!ChainNext]_Setups!chainVars
    <2>1. UNCHANGED chainVars => UNCHANGED Setups!chainVars
      BY DEF chainVars, Setups!chainVars
    <2>2. UNCHANGED all => UNCHANGED chainVars
      OBVIOUS
    <2> QED BY <2>1, <2>2, Zenon DEF Next
  <1> QED BY <1>1, <1>2, <1>3, <1>4, <1>5, <1>6, <1>7, PTL
       DEF Spec, Library!LibSpec, Pool!PoolSpec, Chunks!ChunkSpec, Pitch!PitchSpec, Migr!MigrationSpec,
           Setups!ChainSpec

\* For any voices, rates, sizes of chunks and limit of failures: stitching,
\* resampler and inference agree on a rate, nothing of an earlier voice or run
\* is in their state, and a row of failures trips the breaker.
THEOREM ChunkInvAlways == Spec => []ChunkInv
PROOF
  <1>1. Chunks!ChunkSpec => []ChunkInv
    BY PartsAssumption, ChunksKeepInv DEF ChunkInv
  <1> QED BY <1>1, EachPartMoves, PTL

\* For any sizes, with no less context than search range, and whatever part of
\* Trim inference leaves out of each chunk: a chunk puts out what it takes in but
\* for that part, no later than the tail, the search and that part; and a tail is
\* played before it is dropped, while the resampler takes input.
THEOREM StitchedAlways ==
  ASSUME Search <= Context, \A n \in ChunkSizes : Trim <= n + Search
  PROVE  Spec => Stitched
PROOF
  <1>1. Chunks!ChunkSpec => Stitched
    BY PartsAssumption, ChunksAreStitched DEF Stitched
  <1> QED BY <1>1, EachPartMoves, PTL

\* For any number of commands and kills: what a download that succeeds leaves
\* is what its hash pins, and foundation weights are whole at any moment.
THEOREM LibrarySafeAlways == Spec => LibrarySafe
PROOF
  <1>1. Library!LibSpec => LibrarySafe
    BY LibraryKeepsSafe DEF LibrarySafe
  <1> QED BY <1>1, EachPartMoves, PTL

\* For any number of processes, commands and failing calls: a setup that says
\* so has its whole chain and one source that applications show, a teardown
\* leaves nothing; one failing call costs neither half a chain nor the
\* microphone.
THEOREM ChainInvAlways == Spec => []ChainInv
PROOF
  <1>1. Setups!ChainSpec => []ChainInv
    BY PartsAssumption, ChainKeepsInv DEF ChainInv
  <1> QED BY <1>1, EachPartMoves, PTL

\* For any voices, threads and size: the cache is bounded and in step with its
\* order, holds nothing that runs on the CPU, and of two sessions of one voice
\* keeps the first.
THEOREM PoolSafeAlways == Spec => PoolSafe
PROOF
  <1>1. Pool!PoolSpec => PoolSafe
    BY PartsAssumption, PoolKeepsSafe DEF PoolSafe
  <1> QED BY <1>1, EachPartMoves, PTL

\* For any window, chunk, surplus and longest gap, whatever is voiced: in the
\* frames that are kept, where chunks begin and end cannot be told from the pitch.
THEOREM PitchKeptAlways == Spec => []PitchKept
PROOF
  <1>1. Pitch!PitchSpec => []PitchKept
    BY PartsAssumption, PitchIsKept DEF PitchKept
  <1> QED BY <1>1, EachPartMoves, PTL

\* However often the migration is cut off and run again: every file of the user
\* is whole under one of its names at any moment, nothing newer is overwritten,
\* and a run that ends has moved what is not in the way.
THEOREM MigrationSafeAlways == Spec => MigrationSafe
PROOF
  <1>1. Migr!MigrationSpec => MigrationSafe
    BY MigrationKeepsSafe DEF MigrationSafe
  <1> QED BY <1>1, EachPartMoves, PTL
=============================================================================
