--------------------------- MODULE TuiControlProofs ---------------------------
(***************************************************************************)
(* The TUI around the engine, for any number of clients, commands, keys,   *)
(* workers and profiles: a job is reported as done only when its voice has *)
(* been loaded, the engine is down when action_quit is over, whoever waits *)
(* for the event loop is in its queue, and the panel shows as loading just *)
(* what is being loaded.                                                   *)
(*                                                                         *)
(* The last of these counts occurrences in a list against members of a     *)
(* set; the lemmas on that come first.                                     *)
(***************************************************************************)
EXTENDS TuiControl, FiniteSetTheorems, TLAPS

-----------------------------------------------------------------------------
(* Counting occurrences.                                                   *)

At(s, t) == {k \in 1..Len(s) : s[k] = t}
Having(A, f, t) == {j \in A : f[j] = t}
\* s lists the values of f on A, each as often as it occurs there.
Lists(s, A, f) ==
  /\ IsFiniteSet(A)
  /\ \A t : Cardinality(At(s, t)) = Cardinality(Having(A, f, t))

LEMMA AtFinite ==
  ASSUME NEW S, NEW s \in Seq(S), NEW t
  PROVE  IsFiniteSet(At(s, t)) /\ Cardinality(At(s, t)) \in Nat
  <1>1. IsFiniteSet(1..Len(s))
    BY FS_Interval
  <1>2. At(s, t) \in SUBSET (1..Len(s))
    BY DEF At
  <1> QED
    BY <1>1, <1>2, FS_Subset, FS_CardinalityType

LEMMA HavingFinite ==
  ASSUME NEW A, IsFiniteSet(A), NEW f, NEW t
  PROVE  IsFiniteSet(Having(A, f, t)) /\ Cardinality(Having(A, f, t)) \in Nat
  <1>1. Having(A, f, t) \in SUBSET A
    BY DEF Having
  <1> QED
    BY <1>1, FS_Subset, FS_CardinalityType

\* One more value at the end, for one more member.
LEMMA ListsAppend ==
  ASSUME NEW S, NEW s \in Seq(S), NEW A, NEW f, Lists(s, A, f), NEW j, j \notin A
  PROVE  Lists(Append(s, f[j]), A \cup {j}, f)
  <1> DEFINE r == Append(s, f[j])
             B == A \cup {j}
             n == Len(s) + 1
  <1>1. IsFiniteSet(A) /\ IsFiniteSet(B)
    BY FS_AddElement DEF Lists
  <1>2. Len(r) = n /\ Len(s) \in Nat /\ r[n] = f[j] /\ \A k \in 1..Len(s) : r[k] = s[k]
    OBVIOUS
  <1> HIDE DEF r
  <1>3. ASSUME NEW t PROVE Cardinality(At(r, t)) = Cardinality(Having(B, f, t))
    <2>1. Cardinality(At(s, t)) = Cardinality(Having(A, f, t))
      BY DEF Lists
    <2>2. IsFiniteSet(At(s, t)) /\ IsFiniteSet(Having(A, f, t))
      BY <1>1, AtFinite, HavingFinite
    <2>3. CASE f[j] = t
      <3>1. At(r, t) = At(s, t) \cup {n}
        BY <1>2, <2>3 DEF At
      <3>2. Having(B, f, t) = Having(A, f, t) \cup {j}
        BY <2>3 DEF Having
      <3>3. n \notin At(s, t) /\ j \notin Having(A, f, t)
        BY <1>2 DEF At, Having
      <3> HIDE DEF n, B
      <3>4. Cardinality(At(r, t)) = Cardinality(At(s, t)) + 1
        BY <2>2, <3>1, <3>3, FS_AddElement
      <3>5. Cardinality(Having(B, f, t)) = Cardinality(Having(A, f, t)) + 1
        BY <2>2, <3>2, <3>3, FS_AddElement
      <3> QED
        BY <2>1, <3>4, <3>5
    <2>4. CASE f[j] # t
      <3>1. At(r, t) = At(s, t)
        BY <1>2, <2>4 DEF At
      <3>2. Having(B, f, t) = Having(A, f, t)
        BY <2>4 DEF Having
      <3> QED
        BY <2>1, <3>1, <3>2
    <2> QED
      BY <2>3, <2>4
  <1> QED
    BY <1>1, <1>3 DEF r, Lists

LEMMA ConcatIs ==
  ASSUME NEW S, NEW a \in Seq(S), NEW b \in Seq(S), NEW r, r = a \o b
  PROVE  /\ r \in Seq(S) /\ Len(r) = Len(a) + Len(b)
         /\ \A k \in 1..Len(r) : r[k] = IF k <= Len(a) THEN a[k] ELSE b[k - Len(a)]
  OBVIOUS

\* The positions after the one that is taken out move up by one.
LEMMA AtRemoved ==
  ASSUME NEW S, NEW s \in Seq(S), NEW i \in 1..Len(s), NEW t
  PROVE  /\ RemoveAt(s, i) \in Seq(S)
         /\ Cardinality(At(RemoveAt(s, i), t)) =
              IF s[i] = t THEN Cardinality(At(s, t)) - 1 ELSE Cardinality(At(s, t))
  <1> DEFINE r == RemoveAt(s, i)
             up(k) == IF k < i THEN k ELSE k + 1
  <1>1. /\ r \in Seq(S) /\ Len(s) \in Nat /\ Len(r) = Len(s) - 1
        /\ \A k \in 1..Len(r) : r[k] = s[up(k)]
    <2> DEFINE a == SubSeq(s, 1, i - 1)
               b == SubSeq(s, i + 1, Len(s))
    <2>1. Len(s) \in Nat /\ i \in 1..Len(s)
      OBVIOUS
    <2>2. a \in Seq(S) /\ Len(a) = i - 1 /\ \A k \in 1..Len(a) : a[k] = s[k]
      BY <2>1
    <2>3. b \in Seq(S) /\ Len(b) = Len(s) - i /\ \A k \in 1..Len(b) : b[k] = s[i + k]
      BY <2>1
    <2>4. r = a \o b
      BY DEF RemoveAt
    <2> HIDE DEF a, b, r
    <2>5. r \in Seq(S) /\ Len(r) = Len(a) + Len(b)
          /\ \A k \in 1..Len(r) : r[k] = IF k <= Len(a) THEN a[k] ELSE b[k - Len(a)]
      <3>1. a \in Seq(S) /\ b \in Seq(S)
        BY <2>2, <2>3
      <3> QED
        BY <2>4, <3>1, ConcatIs
    <2>6. ASSUME NEW k \in 1..Len(r) PROVE r[k] = s[up(k)]
      <3>1. CASE k < i
        BY <2>1, <2>2, <2>5, <3>1
      <3>2. CASE k >= i
        <4>1. k - Len(a) \in 1..Len(b) /\ k > Len(a)
          BY <2>1, <2>2, <2>3, <2>5, <3>2
        <4>2. r[k] = b[k - Len(a)]
          BY <2>1, <2>2, <2>5, <4>1
        <4>3. i + (k - Len(a)) = k + 1
          BY <2>1, <2>2
        <4> QED
          BY <2>1, <2>3, <3>2, <4>1, <4>2, <4>3
      <3> QED
        BY <2>1, <3>1, <3>2
    <2> QED
      BY <2>1, <2>2, <2>3, <2>5, <2>6
  <1> DEFINE P == At(s, t) \ {i}
             Q == At(r, t)
             g == [k \in Q |-> up(k)]
  <1> HIDE DEF r
  <1>2. Q \subseteq 1..Len(r) /\ \A k \in 1..Len(r) : k \in Q <=> s[up(k)] = t
    BY <1>1 DEF At
  <1>3. g \in [Q -> P]
    <2>1. ASSUME NEW k \in Q PROVE up(k) \in P
      BY <1>1, <1>2 DEF At
    <2> QED
      BY <2>1
  <1>4. \A k, l \in Q : g[k] = g[l] => k = l
    BY <1>2
  <1>5. ASSUME NEW p \in P PROVE \E k \in Q : g[k] = p
    <2> DEFINE k == IF p < i THEN p ELSE p - 1
    <2>1. p \in 1..Len(s) /\ p # i /\ s[p] = t
      BY DEF At
    <2>2. k \in 1..Len(r) /\ up(k) = p
      BY <1>1, <2>1
    <2> HIDE DEF k, up
    <2>3. k \in Q
      BY <1>2, <2>1, <2>2
    <2> QED
      BY <2>2, <2>3
  <1>6. ExistsBijection(Q, P)
    <2>1. g \in Bijection(Q, P)
      BY <1>3, <1>4, <1>5, Zenon DEF Bijection, Injection, Surjection, IsInjective
    <2> QED
      BY <2>1 DEF ExistsBijection
  <1>7. IsFiniteSet(Q) /\ Cardinality(P) = Cardinality(Q)
    <2>1. IsFiniteSet(Q)
      BY <1>1, AtFinite
    <2> HIDE DEF P, Q
    <2> QED
      BY <1>6, <2>1, FS_Bijection
  <1>8. Cardinality(P) = IF i \in At(s, t) THEN Cardinality(At(s, t)) - 1 ELSE Cardinality(At(s, t))
    BY AtFinite, FS_RemoveElement
  <1>9. i \in At(s, t) <=> s[i] = t
    BY DEF At
  <1> QED
    BY <1>1, <1>7, <1>8, <1>9 DEF r

\* list.remove takes one occurrence of a value that is there.
LEMMA ListsRemove ==
  ASSUME NEW S, NEW s \in Seq(S), NEW A, NEW f, Lists(s, A, f), NEW j \in A
  PROVE  WithoutTarget(s, f[j]) \in Seq(S) /\ Lists(WithoutTarget(s, f[j]), A \ {j}, f)
  <1> DEFINE t == f[j]
             first(k) == s[k] = t /\ \A l \in 1..(k - 1) : s[l] # t
             i == CHOOSE k \in 1..Len(s) : first(k)
  <1>1. IsFiniteSet(A) /\ IsFiniteSet(A \ {j})
    BY FS_RemoveElement DEF Lists
  <1>2. \E k \in 1..Len(s) : s[k] = t
    <2>1. j \in Having(A, f, t)
      BY DEF Having
    <2>2. Cardinality(Having(A, f, t)) # 0
      BY <1>1, <2>1, HavingFinite, FS_EmptySet
    <2>3. Cardinality(At(s, t)) # 0
      BY <2>2 DEF Lists
    <2>4. At(s, t) # {}
      BY <2>3, FS_EmptySet
    <2> QED
      BY <2>4 DEF At
  <1>3. \E k \in 1..Len(s) : first(k)
    <2> DEFINE N == {k \in Nat : k \in 1..Len(s) /\ s[k] = t}
    <2>1. N # {} /\ N \subseteq Nat
      BY <1>2
    <2> DEFINE R == OpToRel(<, Nat)
    <2>2. \A k, l \in Nat : k < l => <<k, l>> \in R
      BY DEF OpToRel
    <2>3. IsWellFoundedOn(R, Nat)
      BY NatLessThanWellFounded
    <2> HIDE DEF R, N
    <2>4. PICK k \in N : \A l \in N : ~(<<l, k>> \in R)
      BY <2>1, <2>3, WFMin
    <2>5. \A l \in N : ~(l < k)
      BY <2>1, <2>2, <2>4
    <2> QED
      BY <2>5 DEF N
  <1>4. i \in 1..Len(s) /\ s[i] = t
    BY <1>3
  <1>5. WithoutTarget(s, t) = RemoveAt(s, i)
    BY DEF WithoutTarget
  <1> HIDE DEF i
  <1>6. ASSUME NEW u
        PROVE  Cardinality(At(RemoveAt(s, i), u)) = Cardinality(Having(A \ {j}, f, u))
    <2>1. Cardinality(At(s, u)) = Cardinality(Having(A, f, u))
      BY DEF Lists
    <2>2. Cardinality(At(RemoveAt(s, i), u)) =
            IF s[i] = u THEN Cardinality(At(s, u)) - 1 ELSE Cardinality(At(s, u))
      BY <1>4, AtRemoved
    <2>3. Having(A \ {j}, f, u) = Having(A, f, u) \ {j}
      BY DEF Having
    <2>4. Cardinality(Having(A, f, u) \ {j}) =
            IF j \in Having(A, f, u) THEN Cardinality(Having(A, f, u)) - 1
            ELSE Cardinality(Having(A, f, u))
      BY <1>1, HavingFinite, FS_RemoveElement
    <2>5. j \in Having(A, f, u) <=> s[i] = u
      BY <1>4 DEF Having
    <2> QED
      BY <2>1, <2>2, <2>3, <2>4, <2>5
  <1>7. RemoveAt(s, i) \in Seq(S)
    BY <1>4, AtRemoved
  <1> QED
    BY <1>1, <1>5, <1>6, <1>7 DEF Lists

\* Only what f says on A matters.
LEMMA ListsSame ==
  ASSUME NEW s, NEW A, NEW f, NEW g, Lists(s, A, f), \A j \in A : f[j] = g[j]
  PROVE  Lists(s, A, g)
  <1>1. ASSUME NEW t PROVE Having(A, f, t) = Having(A, g, t)
    BY DEF Having
  <1> QED
    BY <1>1 DEF Lists

LEMMA ListsNothing ==
  ASSUME NEW f
  PROVE  Lists(<<>>, {}, f)
  <1>1. ASSUME NEW t PROVE At(<<>>, t) = {} /\ Having({}, f, t) = {}
    BY DEF At, Having
  <1> QED
    BY <1>1, FS_EmptySet DEF Lists

-----------------------------------------------------------------------------
(* The inductive invariant.                                                *)

ActiveJobs == {j \in Jobs : job[j] \in {"posted", "awaiting"}}
TargetOf == [j \in Jobs |-> Target(j)]
ShownKept ==
  /\ \E S : inFlight \in Seq(S)
  /\ Lists(inFlight, ActiveJobs, TargetOf)

LEMMA ShownIsKept == ShownKept => SwapsShown
  <1> SUFFICES ASSUME ShownKept, NEW t
               PROVE  Cardinality({k \in 1..Len(inFlight) : inFlight[k] = t})
                        = Cardinality({j \in Jobs : job[j] \in {"posted", "awaiting"} /\ Target(j) = t})
    BY DEF SwapsShown
  <1>1. {j \in Jobs : job[j] \in {"posted", "awaiting"} /\ Target(j) = t}
          = Having(ActiveJobs, TargetOf, t)
    BY DEF Having, ActiveJobs, TargetOf
  <1> QED
    BY <1>1 DEF ShownKept, Lists, At

\* What is shown, when no job begins or ends and the active ones keep their targets.
LEMMA ShownStays ==
  ASSUME ShownKept, inFlight' = inFlight,
         \A j \in Jobs : job'[j] \in {"posted", "awaiting"} <=> job[j] \in {"posted", "awaiting"},
         \A j \in Jobs : job[j] \in {"posted", "awaiting"} => work'[j] = work[j]
  PROVE  ShownKept'
  <1>1. ActiveJobs' = ActiveJobs
    BY DEF ActiveJobs
  <1>2. \A j \in ActiveJobs : TargetOf[j] = TargetOf'[j]
    BY DEF ActiveJobs, TargetOf, Target
  <1>3. Lists(inFlight, ActiveJobs, TargetOf')
    BY <1>2, ListsSame DEF ShownKept
  <1> QED
    BY <1>1, <1>3 DEF ShownKept

\* Every part of the invariant, with what the other properties say.
LoopTypes ==
  /\ app \in {"new", "up", "stopping", "closing", "saving", "exited", "gone"}
  /\ starter \in Clients \cup {"nobody", "key"}
  /\ listener \in {"off", "on", "done"} /\ pool \in {"off", "on", "done"}
  /\ file \in {"none", "this", "next"}
  /\ running \in BOOLEAN /\ stopEvent \in BOOLEAN
  /\ stopping \in [{"toggle", "quit"} -> {"idle", "asked", "joining", "joined", "returned", "posted"}]
ClientTypes ==
  /\ conn \in [Clients -> {"idle", "backlog", "queued", "waiting", "closed"}]
  /\ DOMAIN cmd = Clients /\ inbox \in Seq(Posts)
JobTypes ==
  /\ job \in [Jobs -> {"none", "submitted", "posted", "awaiting", "ended"}]
  /\ entry \in [Jobs -> {"none", "pending", "running", "done", "error"}]
  /\ req \in [Jobs -> {"none", "queued", "ok", "failed", "unneeded", "missing"}]
  /\ engineVoice \in Voices /\ swapQ \in Seq(Jobs) /\ DOMAIN work = Jobs
PitchTypes ==
  /\ pitch \in Pitches /\ enginePitch \in Pitches /\ staged \in Pitches \cup {NoVoice}
  /\ drained \in Pitches \cup {NoVoice} /\ overtaken \in BOOLEAN

\* What is posted to the event loop, and who waits for it, as a relation
\* between the queue q, the connections, their commands, the jobs and the starter.
PostsFit(q, cn, cm, jb, st) ==
  /\ \A k \in 1..Len(q) :
       /\ q[k][1] \in Awaiting => cn[q[k][2]] = "waiting" /\ cm[q[k][2]][1] = q[k][1]
       /\ q[k][1] = "APPLY" => jb[q[k][2]] = "posted"
       /\ st \in Clients => q[k] # <<"TOGGLE", st>>
  /\ \A k, l \in 1..Len(q) : k # l /\ q[k][1] \in Awaiting \cup {"APPLY"} => q[k] # q[l]
  /\ st \in Clients => cn[st] = "waiting" /\ cm[st][1] = "TOGGLE"
WaitersFit(q, cn, cm, st) ==
  \A c \in Clients : cn[c] = "waiting" => st = c \/ \E k \in 1..Len(q) : q[k] = <<cm[c][1], c>>
CommandsFit(cn, cm) ==
  \A c \in Clients :
    /\ cn[c] = "waiting" => cm[c][1] \in Awaiting
    /\ cn[c] # "idle" /\ cm[c][1] = "PITCH" => cm[c][2] \in Int
LoopFits(q, cn, cm, jb, st) ==
  PostsFit(q, cn, cm, jb, st) /\ WaitersFit(q, cn, cm, st) /\ CommandsFit(cn, cm)
LoopKept == LoopFits(inbox, conn, cmd, job, starter)

LEMMA LoopIs == LoopKept => PostsKept /\ WaitersArePosted
  <1> SUFFICES ASSUME LoopKept PROVE PostsKept /\ WaitersArePosted
    OBVIOUS
  <1>1. PostsFit(inbox, conn, cmd, job, starter) /\ WaitersFit(inbox, conn, cmd, starter)
        /\ CommandsFit(conn, cmd)
    BY DEF LoopKept, LoopFits
  <1>2. PostsKept
    BY <1>1, Zenon DEF PostsFit, CommandsFit, PostsKept
  <1>3. WaitersArePosted
    BY <1>1, Zenon DEF WaitersFit, WaitersArePosted
  <1> QED
    BY <1>2, <1>3

Parts == /\ LoopTypes /\ ClientTypes /\ JobTypes /\ PitchTypes
         /\ LoopKept /\ JobsKept /\ QuitKept /\ StagedIsShown
         /\ DoneMeansApplied /\ ExitsStopped /\ PitchReachesEngine /\ ShownKept

LEMMA TypesAre == TypeOK <=> LoopTypes /\ ClientTypes /\ JobTypes /\ PitchTypes
  BY DEF TypeOK, LoopTypes, ClientTypes, JobTypes, PitchTypes

LEMMA PartsNext ==
  Parts' <=> /\ LoopTypes' /\ ClientTypes' /\ JobTypes' /\ PitchTypes'
             /\ LoopKept' /\ JobsKept' /\ QuitKept' /\ StagedIsShown'
             /\ DoneMeansApplied' /\ ExitsStopped' /\ PitchReachesEngine'
             /\ ShownKept'
  BY DEF Parts

\* What a step keeps that leaves its variables alone.
LEMMA QuitStays ==
  ASSUME LoopTypes, QuitKept, ExitsStopped,
         UNCHANGED <<app, starter, listener, pool, file, running, stopEvent, stopping>>
  PROVE  LoopTypes' /\ QuitKept' /\ ExitsStopped'
  BY DEF LoopTypes, QuitKept, ExitsStopped, Quitting

LEMMA LoopSame ==
  ASSUME ClientTypes, LoopKept, UNCHANGED <<inbox, conn, cmd, job, starter>>
  PROVE  ClientTypes' /\ LoopKept'
  BY DEF ClientTypes, LoopKept

LEMMA JobsStay ==
  ASSUME JobTypes, DoneMeansApplied, ShownKept,
         UNCHANGED <<job, entry, work, inFlight, req, swapQ, engineVoice>>
  PROVE  JobTypes' /\ DoneMeansApplied' /\ ShownKept'
  BY ShownStays DEF JobTypes, DoneMeansApplied

LEMMA PitchStays ==
  ASSUME PitchTypes, StagedIsShown, PitchReachesEngine, UNCHANGED pitchVars
  PROVE  PitchTypes' /\ StagedIsShown' /\ PitchReachesEngine'
  BY DEF PitchTypes, StagedIsShown, PitchReachesEngine, UpdateUnderWay, pitchVars

-----------------------------------------------------------------------------
(* The queue of the event loop, and those who wait for it.                 *)

\* c has its answer, and its connection is closed.
IsAnswered(c, cn, cm, cn1, cm1) ==
  /\ cn1[c] = "closed" /\ cm1[c] = <<"none", NoVoice>>
  /\ \A x \in Clients \ {c} : cn1[x] = cn[x] /\ cm1[x] = cm[x]

LEMMA TailIs ==
  ASSUME NEW S, NEW q \in Seq(S), q # <<>>
  PROVE  /\ Tail(q) \in Seq(S) /\ Len(q) \in Nat \ {0} /\ Head(q) = q[1] /\ q[1] \in S
         /\ Len(Tail(q)) = Len(q) - 1
         /\ \A k \in 1..Len(Tail(q)) : k + 1 \in 1..Len(q) /\ Tail(q)[k] = q[k + 1]
         /\ \A k \in 1..Len(q) : k # 1 => k - 1 \in 1..Len(Tail(q)) /\ Tail(q)[k - 1] = q[k]
  <1>1. Len(q) \in Nat \ {0} /\ Head(q) = q[1] /\ q[1] \in S
    OBVIOUS
  <1>2. Tail(q) \in Seq(S) /\ Len(Tail(q)) = Len(q) - 1
        /\ \A k \in 1..Len(Tail(q)) : Tail(q)[k] = q[k + 1]
    OBVIOUS
  <1>3. ASSUME NEW k \in 1..Len(q), k # 1
        PROVE  k - 1 \in 1..Len(Tail(q)) /\ Tail(q)[k - 1] = q[k]
    <2>1. k - 1 \in 1..Len(Tail(q)) /\ (k - 1) + 1 = k
      BY <1>1, <1>2, <1>3
    <2> QED
      BY <1>2, <2>1
  <1> QED
    BY <1>1, <1>2, <1>3

LEMMA AppendIs ==
  ASSUME NEW S, NEW q \in Seq(S), NEW p \in S
  PROVE  /\ Append(q, p) \in Seq(S) /\ Len(q) \in Nat /\ Len(Append(q, p)) = Len(q) + 1
         /\ Append(q, p)[Len(q) + 1] = p
         /\ \A k \in 1..Len(q) : k \in 1..Len(Append(q, p)) /\ Append(q, p)[k] = q[k]
         /\ \A k \in 1..Len(Append(q, p)) : k \in 1..Len(q) \/ k = Len(q) + 1
  OBVIOUS

\* Posts are pairs.
LEMMA PostIs ==
  ASSUME NEW p \in Posts
  PROVE  /\ p = <<p[1], p[2]>>
         /\ p[1] \in Awaiting \cup {"LATER"} => p[2] \in Clients
         /\ p[1] = "APPLY" => p[2] \in Jobs
         /\ p[1] \in Awaiting \cup {"LATER", "APPLY", "STOPPED"}
  BY DEF Posts, Awaiting

\* The client whose callback has run has its answer.
LEMMA LoopAnswers ==
  ASSUME NEW q \in Seq(Posts), q # <<>>, NEW cn, NEW cm, NEW jb, NEW st, NEW cn1, NEW cm1,
         LoopFits(q, cn, cm, jb, st), q[1][1] \in Awaiting,
         IsAnswered(q[1][2], cn, cm, cn1, cm1)
  PROVE  LoopFits(Tail(q), cn1, cm1, jb, st)
  <1> DEFINE r == Tail(q)
             c == q[1][2]
  <1>1. /\ r \in Seq(Posts) /\ Len(q) \in Nat \ {0} /\ q[1] \in Posts
        /\ Len(r) = Len(q) - 1
        /\ \A k \in 1..Len(r) : k + 1 \in 1..Len(q) /\ r[k] = q[k + 1]
        /\ \A k \in 1..Len(q) : k # 1 => k - 1 \in 1..Len(r) /\ r[k - 1] = q[k]
    BY TailIs
  <1> HIDE DEF r
  <1>2. \A k \in 1..Len(q) : q[k] \in Posts
    OBVIOUS
  <1>3. 1 \in 1..Len(q) /\ c \in Clients /\ q[1] = <<q[1][1], c>> /\ cm[c][1] = q[1][1]
    BY <1>1, PostIs DEF LoopFits, PostsFit
  <1>4. \A k \in 1..Len(q) : k # 1 /\ q[k][1] \in Awaiting => q[k][2] # c
    <2> SUFFICES ASSUME NEW k \in 1..Len(q), k # 1, q[k][1] \in Awaiting, q[k][2] = c PROVE FALSE
      OBVIOUS
    <2>1. q[k] = <<q[k][1], c>> /\ cm[c][1] = q[k][1]
      BY <1>2, PostIs DEF LoopFits, PostsFit
    <2> QED
      BY <1>3, <2>1 DEF LoopFits, PostsFit
  <1>5. st \in Clients => st # c
    BY <1>3 DEF LoopFits, PostsFit
  <1>6. ASSUME NEW k \in 1..Len(r)
        PROVE  /\ r[k][1] \in Awaiting => cn1[r[k][2]] = "waiting" /\ cm1[r[k][2]][1] = r[k][1]
               /\ r[k][1] = "APPLY" => jb[r[k][2]] = "posted"
               /\ st \in Clients => r[k] # <<"TOGGLE", st>>
    <2>1. k + 1 \in 1..Len(q) /\ r[k] = q[k + 1] /\ k + 1 # 1
      BY <1>1
    <2>2. r[k][1] \in Awaiting => r[k][2] \in Clients \ {c}
      BY <1>2, <1>4, <2>1, PostIs
    <2> QED
      BY <2>1, <2>2 DEF LoopFits, PostsFit, IsAnswered
  <1>7. \A k, l \in 1..Len(r) : k # l /\ r[k][1] \in Awaiting \cup {"APPLY"} => r[k] # r[l]
    BY <1>1 DEF LoopFits, PostsFit
  <1>8. PostsFit(r, cn1, cm1, jb, st)
    BY <1>5, <1>6, <1>7 DEF LoopFits, PostsFit, IsAnswered
  <1>9. WaitersFit(r, cn1, cm1, st)
    <2> SUFFICES ASSUME NEW x \in Clients, cn1[x] = "waiting", st # x
                 PROVE  \E k \in 1..Len(r) : r[k] = <<cm1[x][1], x>>
      BY DEF WaitersFit
    <2>1. x # c /\ cn[x] = "waiting" /\ cm1[x] = cm[x]
      BY DEF IsAnswered
    <2>2. PICK k \in 1..Len(q) : q[k] = <<cm[x][1], x>>
      BY <2>1 DEF LoopFits, WaitersFit
    <2>3. k # 1
      BY <1>3, <2>1, <2>2
    <2> QED
      BY <1>1, <2>1, <2>2, <2>3
  <1>10. CommandsFit(cn1, cm1)
    BY DEF LoopFits, CommandsFit, IsAnswered, Awaiting
  <1> QED
    BY <1>8, <1>9, <1>10 DEF LoopFits, r

\* The client whose toggle starts the engine waits for that.
LEMMA LoopStarts ==
  ASSUME NEW q \in Seq(Posts), q # <<>>, NEW cn, NEW cm, NEW jb, NEW st,
         LoopFits(q, cn, cm, jb, st), st \notin Clients, q[1][1] = "TOGGLE"
  PROVE  LoopFits(Tail(q), cn, cm, jb, q[1][2])
  <1> DEFINE r == Tail(q)
             c == q[1][2]
  <1>1. /\ r \in Seq(Posts) /\ Len(q) \in Nat \ {0} /\ q[1] \in Posts
        /\ Len(r) = Len(q) - 1
        /\ \A k \in 1..Len(r) : k + 1 \in 1..Len(q) /\ r[k] = q[k + 1]
        /\ \A k \in 1..Len(q) : k # 1 => k - 1 \in 1..Len(r) /\ r[k - 1] = q[k]
    BY TailIs
  <1> HIDE DEF r
  <1>2. /\ 1 \in 1..Len(q) /\ c \in Clients /\ q[1] = <<"TOGGLE", c>>
        /\ cm[c][1] = "TOGGLE" /\ cn[c] = "waiting"
    BY <1>1, PostIs DEF LoopFits, PostsFit, Awaiting
  <1>3. \A k \in 1..Len(q) : k # 1 => q[k] # <<"TOGGLE", c>>
    BY <1>2 DEF LoopFits, PostsFit, Awaiting
  <1>4. ASSUME NEW k \in 1..Len(r)
        PROVE  /\ r[k][1] \in Awaiting => cn[r[k][2]] = "waiting" /\ cm[r[k][2]][1] = r[k][1]
               /\ r[k][1] = "APPLY" => jb[r[k][2]] = "posted"
               /\ r[k] # <<"TOGGLE", c>>
    <2>1. k \in Nat \ {0} /\ k + 1 # 1
      BY <1>1
    <2>2. k + 1 \in 1..Len(q) /\ r[k] = q[k + 1]
      BY <1>1
    <2> QED
      BY <1>3, <2>1, <2>2 DEF LoopFits, PostsFit
  <1>5. ASSUME NEW k \in 1..Len(r), NEW l \in 1..Len(r), k # l, r[k][1] \in Awaiting \cup {"APPLY"}
        PROVE  r[k] # r[l]
    <2>1. k + 1 # l + 1
      BY <1>1, <1>5
    <2>2. k + 1 \in 1..Len(q) /\ l + 1 \in 1..Len(q) /\ r[k] = q[k + 1] /\ r[l] = q[l + 1]
      BY <1>1
    <2> QED
      BY <1>5, <2>1, <2>2 DEF LoopFits, PostsFit
  <1>6. PostsFit(r, cn, cm, jb, c)
    BY <1>2, <1>4, <1>5 DEF PostsFit
  <1>7. WaitersFit(r, cn, cm, c)
    <2> SUFFICES ASSUME NEW x \in Clients, cn[x] = "waiting", c # x
                 PROVE  \E k \in 1..Len(r) : r[k] = <<cm[x][1], x>>
      BY DEF WaitersFit
    <2>1. PICK k \in 1..Len(q) : q[k] = <<cm[x][1], x>>
      BY DEF LoopFits, WaitersFit
    <2>2. k # 1
      BY <1>2, <2>1
    <2> QED
      BY <1>1, <2>1, <2>2
  <1> QED
    BY <1>6, <1>7 DEF LoopFits, r

\* A callback that no client waits for has run; if it is that of a job, the
\* job goes on.
LEMMA LoopGoesOn ==
  ASSUME NEW q \in Seq(Posts), q # <<>>, NEW cn, NEW cm, NEW jb, NEW st, NEW jb1,
         LoopFits(q, cn, cm, jb, st), q[1][1] \notin Awaiting,
         \A j \in Jobs : jb1[j] = jb[j] \/ q[1] = <<"APPLY", j>>
  PROVE  LoopFits(Tail(q), cn, cm, jb1, st)
  <1> DEFINE r == Tail(q)
  <1>1. /\ r \in Seq(Posts) /\ Len(q) \in Nat \ {0} /\ q[1] \in Posts
        /\ Len(r) = Len(q) - 1
        /\ \A k \in 1..Len(r) : k + 1 \in 1..Len(q) /\ r[k] = q[k + 1]
        /\ \A k \in 1..Len(q) : k # 1 => k - 1 \in 1..Len(r) /\ r[k - 1] = q[k]
    BY TailIs
  <1> HIDE DEF r
  <1>2. \A k \in 1..Len(q) : q[k] \in Posts
    OBVIOUS
  <1>3. ASSUME NEW k \in 1..Len(r)
        PROVE  /\ r[k][1] \in Awaiting => cn[r[k][2]] = "waiting" /\ cm[r[k][2]][1] = r[k][1]
               /\ r[k][1] = "APPLY" => jb1[r[k][2]] = "posted"
               /\ st \in Clients => r[k] # <<"TOGGLE", st>>
    <2>1. k + 1 \in 1..Len(q) /\ r[k] = q[k + 1] /\ k + 1 # 1 /\ 1 \in 1..Len(q)
      BY <1>1
    <2>2. ASSUME r[k][1] = "APPLY" PROVE jb1[r[k][2]] = "posted"
      <3>1. r[k] = <<"APPLY", r[k][2]>> /\ r[k][2] \in Jobs
        BY <1>2, <2>1, <2>2, PostIs
      <3>2. q[1] # q[k + 1]
        BY <2>1, <2>2 DEF LoopFits, PostsFit
      <3>3. jb[r[k][2]] = "posted"
        BY <2>1, <2>2 DEF LoopFits, PostsFit
      <3> QED
        BY <2>1, <3>1, <3>2, <3>3
    <2> QED
      BY <2>1, <2>2 DEF LoopFits, PostsFit
  <1>4. \A k, l \in 1..Len(r) : k # l /\ r[k][1] \in Awaiting \cup {"APPLY"} => r[k] # r[l]
    BY <1>1 DEF LoopFits, PostsFit
  <1>5. PostsFit(r, cn, cm, jb1, st)
    BY <1>3, <1>4 DEF LoopFits, PostsFit
  <1>6. WaitersFit(r, cn, cm, st)
    <2> SUFFICES ASSUME NEW x \in Clients, cn[x] = "waiting", st # x
                 PROVE  \E k \in 1..Len(r) : r[k] = <<cm[x][1], x>>
      BY DEF WaitersFit
    <2>1. PICK k \in 1..Len(q) : q[k] = <<cm[x][1], x>>
      BY DEF LoopFits, WaitersFit
    <2>2. cm[x][1] \in Awaiting
      <3>1. CommandsFit(cn, cm)
        BY DEF LoopFits
      <3> QED
        BY <3>1 DEF CommandsFit
    <2>3. k # 1
      BY <2>1, <2>2
    <2> QED
      BY <1>1, <2>1, <2>3
  <1> QED
    BY <1>5, <1>6 DEF LoopFits, r

\* Another post at the end: nobody's, a waiting client's, or a job's.
LEMMA LoopPosts ==
  ASSUME NEW q \in Seq(Posts), NEW cn, NEW cm, NEW jb, NEW st, NEW cn1, NEW jb1, NEW p \in Posts,
         LoopFits(q, cn, cm, jb, st),
         \/ p[1] \in {"LATER", "STOPPED"} /\ cn1 = cn /\ jb1 = jb
         \/ /\ p[1] \in Awaiting /\ jb1 = jb /\ cm[p[2]][1] = p[1]
            /\ cn[p[2]] = "queued" /\ cn1[p[2]] = "waiting"
            /\ \A x \in Clients \ {p[2]} : cn1[x] = cn[x]
         \/ /\ p[1] = "APPLY" /\ cn1 = cn /\ jb[p[2]] = "submitted" /\ jb1[p[2]] = "posted"
            /\ \A j \in Jobs \ {p[2]} : jb1[j] = jb[j]
  PROVE  LoopFits(Append(q, p), cn1, cm, jb1, st)
  <1> DEFINE r == Append(q, p)
             n == Len(q) + 1
  <1>1. /\ r \in Seq(Posts) /\ Len(q) \in Nat /\ Len(r) = n /\ r[n] = p
        /\ \A k \in 1..Len(q) : k \in 1..Len(r) /\ r[k] = q[k]
        /\ \A k \in 1..Len(r) : k \in 1..Len(q) \/ k = n
    BY AppendIs
  <1> HIDE DEF r, n
  <1>2. \A k \in 1..Len(q) : q[k] \in Posts
    OBVIOUS
  <1>3. /\ p = <<p[1], p[2]>> /\ p[1] \in Awaiting \cup {"LATER", "APPLY", "STOPPED"}
        /\ p[1] \in Awaiting => p[2] \in Clients
        /\ p[1] = "APPLY" => p[2] \in Jobs
    BY PostIs
  <1>4. \A x \in Clients : cn1[x] = cn[x] \/ (x = p[2] /\ p[1] \in Awaiting)
    BY <1>3 DEF Awaiting
  <1>5. \A j \in Jobs : jb1[j] = jb[j] \/ (j = p[2] /\ p[1] = "APPLY")
    BY <1>3 DEF Awaiting
  <1>6. ASSUME NEW k \in 1..Len(q)
        PROVE  /\ q[k][1] \in Awaiting => cn1[q[k][2]] = "waiting" /\ cm[q[k][2]][1] = q[k][1]
               /\ q[k][1] = "APPLY" => jb1[q[k][2]] = "posted"
               /\ st \in Clients => q[k] # <<"TOGGLE", st>>
               /\ q[k][1] \in Awaiting \cup {"APPLY"} => q[k] # p
    <2>1. /\ q[k][1] \in Awaiting => cn[q[k][2]] = "waiting" /\ cm[q[k][2]][1] = q[k][1]
          /\ q[k][1] = "APPLY" => jb[q[k][2]] = "posted"
          /\ st \in Clients => q[k] # <<"TOGGLE", st>>
      BY DEF LoopFits, PostsFit
    <2>2. /\ q[k][1] \in Awaiting => q[k][2] \in Clients
          /\ q[k][1] = "APPLY" => q[k][2] \in Jobs
      BY <1>2, PostIs
    <2>3. q[k][1] \in Awaiting => ~(q[k][2] = p[2] /\ p[1] \in Awaiting)
      BY <2>1, <1>3 DEF Awaiting
    <2>4. q[k][1] = "APPLY" => ~(q[k][2] = p[2] /\ p[1] = "APPLY")
      BY <2>1, <1>3 DEF Awaiting
    <2> QED
      BY <1>4, <1>5, <2>1, <2>2, <2>3, <2>4
  <1>7. st \in Clients => cn[st] = "waiting" /\ cm[st][1] = "TOGGLE"
    BY DEF LoopFits, PostsFit
  <1>8. /\ p[1] \in Awaiting => cn1[p[2]] = "waiting" /\ cm[p[2]][1] = p[1]
        /\ p[1] = "APPLY" => jb1[p[2]] = "posted"
        /\ st \in Clients => p # <<"TOGGLE", st>>
    BY <1>3, <1>7 DEF Awaiting
  <1>9. \A k, l \in 1..Len(r) : k # l /\ r[k][1] \in Awaiting \cup {"APPLY"} => r[k] # r[l]
    <2> SUFFICES ASSUME NEW k \in 1..Len(r), NEW l \in 1..Len(r), k # l,
                        r[k][1] \in Awaiting \cup {"APPLY"}, r[k] = r[l]
                 PROVE  FALSE
      OBVIOUS
    <2>1. CASE k \in 1..Len(q) /\ l \in 1..Len(q)
      BY <1>1, <2>1 DEF LoopFits, PostsFit
    <2>2. CASE k \in 1..Len(q) /\ l = n
      BY <1>1, <1>6, <2>2
    <2>3. CASE k = n /\ l \in 1..Len(q)
      BY <1>1, <1>6, <2>3
    <2> QED
      BY <1>1, <2>1, <2>2, <2>3
  <1>10. PostsFit(r, cn1, cm, jb1, st)
    <2>1. st \in Clients => cn1[st] = "waiting" /\ cm[st][1] = "TOGGLE"
      BY <1>4, <1>7, <1>8
    <2>2. ASSUME NEW k \in 1..Len(r)
          PROVE  /\ r[k][1] \in Awaiting => cn1[r[k][2]] = "waiting" /\ cm[r[k][2]][1] = r[k][1]
                 /\ r[k][1] = "APPLY" => jb1[r[k][2]] = "posted"
                 /\ st \in Clients => r[k] # <<"TOGGLE", st>>
      <3>1. CASE k \in 1..Len(q)
        BY <1>1, <1>6, <3>1
      <3>2. CASE k = n
        BY <1>1, <1>8, <3>2
      <3> QED
        BY <1>1, <3>1, <3>2
    <2> QED
      BY <1>9, <2>1, <2>2 DEF PostsFit
  <1>11. WaitersFit(r, cn1, cm, st)
    <2> SUFFICES ASSUME NEW x \in Clients, cn1[x] = "waiting", st # x
                 PROVE  \E k \in 1..Len(r) : r[k] = <<cm[x][1], x>>
      BY DEF WaitersFit
    <2>1. CASE x = p[2] /\ p[1] \in Awaiting
      <3>1. n \in 1..Len(r) /\ r[n] = <<cm[x][1], x>>
        BY <1>1, <1>3, <1>8, <2>1 DEF n
      <3> QED
        BY <3>1
    <2>2. CASE cn1[x] = cn[x]
      <3>1. PICK k \in 1..Len(q) : q[k] = <<cm[x][1], x>>
        BY <2>2 DEF LoopFits, WaitersFit
      <3> QED
        BY <1>1, <3>1
    <2> QED
      BY <1>4, <2>1, <2>2
  <1>12. CommandsFit(cn1, cm)
    <2> SUFFICES ASSUME NEW x \in Clients
                 PROVE  /\ cn1[x] = "waiting" => cm[x][1] \in Awaiting
                        /\ cn1[x] # "idle" /\ cm[x][1] = "PITCH" => cm[x][2] \in Int
      BY DEF CommandsFit
    <2>1. /\ cn[x] = "waiting" => cm[x][1] \in Awaiting
          /\ cn[x] # "idle" /\ cm[x][1] = "PITCH" => cm[x][2] \in Int
      <3>1. CommandsFit(cn, cm)
        BY DEF LoopFits
      <3> QED
        BY <3>1 DEF CommandsFit
    <2>2. cn1[x] = cn[x] \/ (cn[x] = "queued" /\ cm[x][1] \in Awaiting)
      BY <1>3, <1>4 DEF Awaiting
    <2> QED
      BY <2>1, <2>2
  <1> QED
    BY <1>10, <1>11, <1>12 DEF LoopFits, r

\* Clients that do not wait come and go, jobs that have not posted go on.
LEMMA LoopStays ==
  ASSUME NEW q \in Seq(Posts), NEW cn, NEW cm, NEW jb, NEW st, NEW cn1, NEW cm1, NEW jb1,
         LoopFits(q, cn, cm, jb, st),
         \A x \in Clients : \/ cn1[x] = cn[x] /\ cm1[x] = cm[x]
                            \/ /\ cn[x] # "waiting" /\ cn1[x] # "waiting"
                               /\ cm1[x][1] = "PITCH" => cm1[x][2] \in Int,
         \A j \in Jobs : jb1[j] = jb[j] \/ jb[j] # "posted"
  PROVE  LoopFits(q, cn1, cm1, jb1, st)
  <1>1. \A k \in 1..Len(q) : /\ q[k][1] \in Awaiting => q[k][2] \in Clients
                             /\ q[k][1] = "APPLY" => q[k][2] \in Jobs
    BY PostIs
  <1>2. \A x \in Clients : cn[x] = "waiting" \/ cn1[x] = "waiting" => cn1[x] = cn[x] /\ cm1[x] = cm[x]
    OBVIOUS
  <1>3. PostsFit(q, cn1, cm1, jb1, st)
    <2>1. ASSUME NEW k \in 1..Len(q)
          PROVE  /\ q[k][1] \in Awaiting => cn1[q[k][2]] = "waiting" /\ cm1[q[k][2]][1] = q[k][1]
                 /\ q[k][1] = "APPLY" => jb1[q[k][2]] = "posted"
                 /\ st \in Clients => q[k] # <<"TOGGLE", st>>
      BY <1>1, <1>2 DEF LoopFits, PostsFit
    <2>2. st \in Clients => cn1[st] = "waiting" /\ cm1[st][1] = "TOGGLE"
      BY <1>2 DEF LoopFits, PostsFit
    <2> QED
      BY <2>1, <2>2 DEF LoopFits, PostsFit
  <1>4. WaitersFit(q, cn1, cm1, st)
    BY <1>2 DEF LoopFits, WaitersFit
  <1>5. CommandsFit(cn1, cm1)
    BY <1>2 DEF LoopFits, CommandsFit, Awaiting
  <1> QED
    BY <1>3, <1>4, <1>5 DEF LoopFits

\* engine.start() is over, and who asked for it has its answer.
LEMMA LoopStarted ==
  ASSUME NEW q \in Seq(Posts), NEW cn, NEW cm, NEW jb, NEW st, NEW cn1, NEW cm1, NEW st1,
         LoopFits(q, cn, cm, jb, st), st1 \notin Clients,
         IF st \in Clients THEN IsAnswered(st, cn, cm, cn1, cm1) ELSE cn1 = cn /\ cm1 = cm
  PROVE  LoopFits(q, cn1, cm1, jb, st1)
  <1>1. CASE st \notin Clients
    BY <1>1 DEF LoopFits, PostsFit, WaitersFit
  <1>2. CASE st \in Clients
    <2>1. \A k \in 1..Len(q) : q[k] \in Posts
      OBVIOUS
    <2>2. ASSUME NEW k \in 1..Len(q), q[k][1] \in Awaiting
          PROVE  q[k][2] \in Clients \ {st}
      <3>1. q[k] = <<q[k][1], q[k][2]>> /\ q[k][2] \in Clients
        BY <2>1, <2>2, PostIs
      <3>2. cm[q[k][2]][1] = q[k][1] /\ q[k] # <<"TOGGLE", st>> /\ cm[st][1] = "TOGGLE"
        BY <1>2, <2>2 DEF LoopFits, PostsFit
      <3> QED
        BY <3>1, <3>2
    <2>3. \A x \in Clients \ {st} : cn1[x] = cn[x] /\ cm1[x] = cm[x]
      BY <1>2 DEF IsAnswered
    <2>4. PostsFit(q, cn1, cm1, jb, st1)
      BY <2>2, <2>3 DEF LoopFits, PostsFit
    <2>5. cn1[st] = "closed" /\ cm1[st] = <<"none", NoVoice>>
      BY <1>2 DEF IsAnswered
    <2>6. WaitersFit(q, cn1, cm1, st1)
      BY <1>2, <2>3, <2>5 DEF LoopFits, WaitersFit
    <2>7. CommandsFit(cn1, cm1)
      BY <2>3, <2>5 DEF LoopFits, CommandsFit, Awaiting
    <2> QED
      BY <2>4, <2>6, <2>7 DEF LoopFits
  <1> QED
    BY <1>1, <1>2

-----------------------------------------------------------------------------
(* The steps.                                                              *)

\* stop() finds the engine down.
LEMMA StopReturnsEarlyKeeps ==
  ASSUME Parts, NEW s \in {"toggle", "quit"}, StopReturnsEarly(s)
  PROVE  Parts'
  <1> USE ControlAssumption DEF StopReturnsEarly, LockFree, Quitting,
      appVars, socketVars, clientVars, jobVars, engineVars, swapVars, pitchVars
  <1>1. /\ LoopTypes /\ QuitKept /\ ExitsStopped /\ ClientTypes /\ LoopKept
        /\ JobTypes /\ DoneMeansApplied /\ ShownKept /\ JobsKept
        /\ PitchTypes /\ StagedIsShown /\ PitchReachesEngine
    BY DEF Parts
  <1>2. LoopTypes'
    BY <1>1 DEF LoopTypes
  <1>3. QuitKept'
    BY <1>1 DEF QuitKept, LoopTypes
  <1>4. ExitsStopped'
    BY <1>1 DEF ExitsStopped, QuitKept, LoopTypes
  <1>5. ClientTypes' /\ LoopKept'
    BY <1>1, LoopSame
  <1>6. JobTypes' /\ DoneMeansApplied' /\ ShownKept'
    BY <1>1, JobsStay
  <1>7. JobsKept'
    BY <1>1 DEF JobsKept, JobTypes, ClientTypes, SlowOps, Jobs
  <1>8. PitchTypes' /\ StagedIsShown' /\ PitchReachesEngine'
    BY <1>1, PitchStays
  <1> QED
    BY <1>2, <1>3, <1>4, <1>5, <1>6, <1>7, <1>8, PartsNext

\* stop() sets the event; queued swaps fail.
LEMMA StopTakesLockKeeps ==
  ASSUME Parts, NEW s \in {"toggle", "quit"}, StopTakesLock(s)
  PROVE  Parts'
  <1> USE ControlAssumption DEF StopTakesLock, LockFree, SwapsFail, Quitting,
      appVars, socketVars, clientVars, jobVars, engineVars, swapVars, pitchVars
  <1>1. /\ LoopTypes /\ QuitKept /\ ExitsStopped /\ ClientTypes /\ LoopKept
        /\ JobTypes /\ DoneMeansApplied /\ ShownKept /\ JobsKept
        /\ PitchTypes /\ StagedIsShown /\ PitchReachesEngine
    BY DEF Parts
  <1>2. LoopTypes'
    BY <1>1 DEF LoopTypes
  <1>3. QuitKept'
    BY <1>1 DEF QuitKept, LoopTypes
  <1>4. ExitsStopped'
    BY <1>1 DEF ExitsStopped, QuitKept, LoopTypes
  <1>5. ClientTypes' /\ LoopKept'
    BY <1>1, LoopSame
  <1>6. JobTypes'
    BY <1>1 DEF JobTypes
  <1>7. DoneMeansApplied'
    BY <1>1 DEF DoneMeansApplied, JobsKept, JobTypes
  <1>8. ShownKept'
    BY <1>1, ShownStays DEF JobTypes, JobsKept, Jobs
  <1>9. JobsKept'
    BY <1>1 DEF JobsKept, JobTypes, ClientTypes, SlowOps, Jobs
  <1>10. PitchTypes' /\ StagedIsShown' /\ PitchReachesEngine'
    BY <1>1, PitchStays
  <1> QED
    BY <1>2, <1>3, <1>4, <1>5, <1>6, <1>7, <1>8,
       <1>9, <1>10, PartsNext

\* The engine thread has ended.
LEMMA StopJoinedKeeps ==
  ASSUME Parts, NEW s \in {"toggle", "quit"}, StopJoined(s)
  PROVE  Parts'
  <1> USE ControlAssumption DEF StopJoined, Quitting,
      appVars, socketVars, clientVars, jobVars, engineVars, swapVars, pitchVars
  <1>1. /\ LoopTypes /\ QuitKept /\ ExitsStopped /\ ClientTypes /\ LoopKept
        /\ JobTypes /\ DoneMeansApplied /\ ShownKept /\ JobsKept
        /\ PitchTypes /\ StagedIsShown /\ PitchReachesEngine
    BY DEF Parts
  <1>2. LoopTypes'
    BY <1>1 DEF LoopTypes
  <1>3. QuitKept'
    BY <1>1 DEF QuitKept, LoopTypes
  <1>4. ExitsStopped'
    BY <1>1 DEF ExitsStopped, QuitKept, LoopTypes
  <1>5. ClientTypes' /\ LoopKept'
    BY <1>1, LoopSame
  <1>6. JobTypes' /\ DoneMeansApplied' /\ ShownKept'
    BY <1>1, JobsStay
  <1>7. JobsKept'
    BY <1>1 DEF JobsKept, JobTypes, ClientTypes, SlowOps, Jobs
  <1>8. PitchTypes' /\ StagedIsShown' /\ PitchReachesEngine'
    BY <1>1, PitchStays
  <1> QED
    BY <1>2, <1>3, <1>4, <1>5, <1>6, <1>7, <1>8, PartsNext

\* stop() returns.
LEMMA StopReturnsKeeps ==
  ASSUME Parts, NEW s \in {"toggle", "quit"}, StopReturns(s)
  PROVE  Parts'
  <1> USE ControlAssumption DEF StopReturns, Quitting,
      appVars, socketVars, clientVars, jobVars, engineVars, swapVars, pitchVars
  <1>1. /\ LoopTypes /\ QuitKept /\ ExitsStopped /\ ClientTypes /\ LoopKept
        /\ JobTypes /\ DoneMeansApplied /\ ShownKept /\ JobsKept
        /\ PitchTypes /\ StagedIsShown /\ PitchReachesEngine
    BY DEF Parts
  <1>2. LoopTypes'
    BY <1>1 DEF LoopTypes
  <1>3. QuitKept'
    BY <1>1 DEF QuitKept, LoopTypes
  <1>4. ExitsStopped'
    BY <1>1 DEF ExitsStopped, QuitKept, LoopTypes
  <1>5. ClientTypes' /\ LoopKept'
    BY <1>1, LoopSame
  <1>6. JobTypes' /\ DoneMeansApplied' /\ ShownKept'
    BY <1>1, JobsStay
  <1>7. JobsKept'
    BY <1>1 DEF JobsKept, JobTypes, ClientTypes, SlowOps, Jobs
  <1>8. PitchTypes' /\ StagedIsShown' /\ PitchReachesEngine'
    BY <1>1, PitchStays
  <1> QED
    BY <1>2, <1>3, <1>4, <1>5, <1>6, <1>7, <1>8, PartsNext

\* The engine thread crashes or aborts.
LEMMA EngineDiesKeeps ==
  ASSUME Parts, EngineDies
  PROVE  Parts'
  <1> USE ControlAssumption DEF EngineDies, SwapsFail, Quitting,
      appVars, socketVars, clientVars, jobVars, engineVars, swapVars, pitchVars
  <1>1. /\ LoopTypes /\ QuitKept /\ ExitsStopped /\ ClientTypes /\ LoopKept
        /\ JobTypes /\ DoneMeansApplied /\ ShownKept /\ JobsKept
        /\ PitchTypes /\ StagedIsShown /\ PitchReachesEngine
    BY DEF Parts
  <1>2. LoopTypes'
    BY <1>1 DEF LoopTypes
  <1>3. QuitKept'
    BY <1>1 DEF QuitKept, LoopTypes
  <1>4. ExitsStopped'
    BY <1>1 DEF ExitsStopped, QuitKept, LoopTypes
  <1>5. ClientTypes' /\ LoopKept'
    BY <1>1, LoopSame
  <1>6. JobTypes'
    BY <1>1 DEF JobTypes
  <1>7. DoneMeansApplied'
    BY <1>1 DEF DoneMeansApplied, JobsKept, JobTypes
  <1>8. ShownKept'
    BY <1>1, ShownStays DEF JobTypes, JobsKept, Jobs
  <1>9. JobsKept'
    BY <1>1 DEF JobsKept, JobTypes, ClientTypes, SlowOps, Jobs
  <1>10. PitchTypes' /\ StagedIsShown' /\ PitchReachesEngine'
    BY <1>1, PitchStays
  <1> QED
    BY <1>2, <1>3, <1>4, <1>5, <1>6, <1>7, <1>8,
       <1>9, <1>10, PartsNext

\* A queued swap is done, or fails.
LEMMA EngineSwapsKeeps ==
  ASSUME Parts, EngineSwaps
  PROVE  Parts'
  <1> USE ControlAssumption DEF EngineSwaps, Quitting,
      appVars, socketVars, clientVars, jobVars, engineVars, swapVars, pitchVars
  <1>1. /\ LoopTypes /\ QuitKept /\ ExitsStopped /\ ClientTypes /\ LoopKept
        /\ JobTypes /\ DoneMeansApplied /\ ShownKept /\ JobsKept
        /\ PitchTypes /\ StagedIsShown /\ PitchReachesEngine
    BY DEF Parts
  <1>2. /\ Head(swapQ) \in Jobs /\ Head(swapQ) = swapQ[1] /\ 1 \in 1..Len(swapQ) /\ Tail(swapQ) \in Seq(Jobs)
        /\ \A k \in 1..Len(Tail(swapQ)) : k + 1 \in 1..Len(swapQ) /\ Tail(swapQ)[k] = swapQ[k + 1]
    BY <1>1, TailIs DEF JobTypes
  <1>3. /\ req[Head(swapQ)] = "queued"
        /\ \/ work[Head(swapQ)][1] = "MODEL" /\ work[Head(swapQ)][2] \in Voices
           \/ work[Head(swapQ)][1] = "PROFILE" /\ work[Head(swapQ)][2] \in Profiles
    BY <1>1, <1>2 DEF JobsKept
  <1>4. LoopTypes' /\ QuitKept' /\ ExitsStopped'
    BY <1>1, <1>2, QuitStays
  <1>5. ClientTypes' /\ LoopKept'
    BY <1>1, <1>2, LoopSame
  <1>6. JobTypes'
    <2>1. engineVoice' \in Voices
      BY <1>1, <1>3 DEF JobTypes
    <2>2. req' \in [Jobs -> {"none", "queued", "ok", "failed", "unneeded", "missing"}]
      BY <1>1, <1>2 DEF JobTypes
    <2> QED
      BY <1>1, <1>2, <2>1, <2>2 DEF JobTypes
  <1>7. DoneMeansApplied'
    <2>1. \A j \in Jobs : j # Head(swapQ) => req'[j] = req[j]
      BY <1>1 DEF JobTypes
    <2>2. entry[Head(swapQ)] # "done"
      BY <1>1, <1>2, <1>3 DEF DoneMeansApplied
    <2> QED
      BY <1>1, <2>1, <2>2 DEF DoneMeansApplied
  <1>8. ShownKept'
    BY <1>1, <1>2, ShownStays DEF JobTypes, JobsKept, Jobs
  <1>9. JobsKept'
    BY <1>1, <1>2 DEF JobsKept, JobTypes, ClientTypes, SlowOps, Jobs
  <1>10. PitchTypes' /\ StagedIsShown' /\ PitchReachesEngine'
    BY <1>1, <1>2, PitchStays
  <1> QED
    BY <1>4, <1>5, <1>6, <1>7, <1>8, <1>9, <1>10, PartsNext

\* The engine takes what is staged.
LEMMA EngineTakesStagedKeeps ==
  ASSUME Parts, EngineTakesStaged
  PROVE  Parts'
  <1> USE ControlAssumption DEF EngineTakesStaged, Quitting,
      appVars, socketVars, clientVars, jobVars, engineVars, swapVars, pitchVars
  <1>1. /\ LoopTypes /\ QuitKept /\ ExitsStopped /\ ClientTypes /\ LoopKept
        /\ JobTypes /\ DoneMeansApplied /\ ShownKept /\ JobsKept
        /\ PitchTypes /\ StagedIsShown /\ PitchReachesEngine
    BY DEF Parts
  <1>2. LoopTypes' /\ QuitKept' /\ ExitsStopped'
    BY <1>1, QuitStays
  <1>3. ClientTypes' /\ LoopKept'
    BY <1>1, LoopSame
  <1>4. JobTypes' /\ DoneMeansApplied' /\ ShownKept'
    BY <1>1, JobsStay
  <1>5. JobsKept'
    BY <1>1 DEF JobsKept, JobTypes, ClientTypes, SlowOps, Jobs
  <1>6. PitchTypes'
    BY <1>1 DEF PitchTypes, UpdateUnderWay
  <1>7. StagedIsShown'
    BY <1>1 DEF StagedIsShown, UpdateUnderWay
  <1>8. PitchReachesEngine'
    BY <1>1 DEF PitchReachesEngine, UpdateUnderWay, StagedIsShown
  <1> QED
    BY <1>2, <1>3, <1>4, <1>5, <1>6, <1>7, <1>8, PartsNext

\* The engine applies what it has taken.
LEMMA EngineAppliesTakenKeeps ==
  ASSUME Parts, EngineAppliesTaken
  PROVE  Parts'
  <1> USE ControlAssumption DEF EngineAppliesTaken, Quitting,
      appVars, socketVars, clientVars, jobVars, engineVars, swapVars, pitchVars
  <1>1. /\ LoopTypes /\ QuitKept /\ ExitsStopped /\ ClientTypes /\ LoopKept
        /\ JobTypes /\ DoneMeansApplied /\ ShownKept /\ JobsKept
        /\ PitchTypes /\ StagedIsShown /\ PitchReachesEngine
    BY DEF Parts
  <1>2. LoopTypes' /\ QuitKept' /\ ExitsStopped'
    BY <1>1, QuitStays
  <1>3. ClientTypes' /\ LoopKept'
    BY <1>1, LoopSame
  <1>4. JobTypes' /\ DoneMeansApplied' /\ ShownKept'
    BY <1>1, JobsStay
  <1>5. JobsKept'
    BY <1>1 DEF JobsKept, JobTypes, ClientTypes, SlowOps, Jobs
  <1>6. PitchTypes'
    BY <1>1 DEF PitchTypes, UpdateUnderWay
  <1>7. StagedIsShown'
    BY <1>1 DEF StagedIsShown, UpdateUnderWay
  <1>8. PitchReachesEngine'
    BY <1>1 DEF PitchReachesEngine, UpdateUnderWay, StagedIsShown
  <1> QED
    BY <1>2, <1>3, <1>4, <1>5, <1>6, <1>7, <1>8, PartsNext

\* The TUI comes up.
LEMMA MountKeeps ==
  ASSUME Parts, Mount
  PROVE  Parts'
  <1> USE ControlAssumption DEF Mount, Quitting,
      appVars, socketVars, clientVars, jobVars, engineVars, swapVars, pitchVars
  <1>1. /\ LoopTypes /\ QuitKept /\ ExitsStopped /\ ClientTypes /\ LoopKept
        /\ JobTypes /\ DoneMeansApplied /\ ShownKept /\ JobsKept
        /\ PitchTypes /\ StagedIsShown /\ PitchReachesEngine
    BY DEF Parts
  <1>2. LoopTypes'
    BY <1>1 DEF LoopTypes
  <1>3. QuitKept'
    BY <1>1 DEF QuitKept, LoopTypes
  <1>4. ExitsStopped'
    BY <1>1 DEF ExitsStopped, QuitKept, LoopTypes
  <1>5. ClientTypes' /\ LoopKept'
    BY <1>1, LoopSame
  <1>6. JobTypes' /\ DoneMeansApplied' /\ ShownKept'
    BY <1>1, JobsStay
  <1>7. JobsKept'
    BY <1>1 DEF JobsKept, JobTypes, ClientTypes, SlowOps, Jobs
  <1>8. PitchTypes' /\ StagedIsShown' /\ PitchReachesEngine'
    BY <1>1, PitchStays
  <1> QED
    BY <1>2, <1>3, <1>4, <1>5, <1>6, <1>7, <1>8, PartsNext

LEMMA AnswerIs ==
  ASSUME ClientTypes, NEW c \in Clients, NEW r, Answer(c, r)
  PROVE  /\ IsAnswered(c, conn, cmd, conn', cmd') /\ DOMAIN cmd' = Clients
         /\ conn' \in [Clients -> {"idle", "backlog", "queued", "waiting", "closed"}]
         /\ \A x \in Clients : conn'[x] = "idle" => conn[x] = "idle"
         /\ \A x \in Clients : conn'[x] # "closed" => conn[x] # "closed" /\ cmd'[x] = cmd[x]
  <1>1. cmd' = [cmd EXCEPT ![c] = <<"none", NoVoice>>] /\ conn' = [conn EXCEPT ![c] = "closed"]
    BY DEF Answer
  <1> QED
    BY <1>1 DEF ClientTypes, IsAnswered

\* engine.start() returns, or raises.
LEMMA StartReturnsKeeps ==
  ASSUME Parts, StartReturns
  PROVE  Parts'
  <1> USE ControlAssumption DEF LockFree, Alive, Quitting,
      appVars, socketVars, clientVars, jobVars, engineVars, swapVars, pitchVars
  <1>1. /\ LoopTypes /\ QuitKept /\ ExitsStopped /\ ClientTypes /\ LoopKept
        /\ JobTypes /\ DoneMeansApplied /\ ShownKept /\ JobsKept
        /\ PitchTypes /\ StagedIsShown /\ PitchReachesEngine
    BY DEF Parts
  <1>2. /\ starter # "nobody" /\ LockFree /\ starter' = "nobody" /\ app' = app /\ inbox' = inbox
        /\ UNCHANGED <<socketVars, jobVars, stopping, swapVars, pitchVars, engineVoice>>
        /\ running' \in BOOLEAN /\ stopEvent' \in BOOLEAN
    BY <1>1 DEF StartReturns, LoopTypes
  <1>3. /\ IF starter \in Clients THEN IsAnswered(starter, conn, cmd, conn', cmd')
           ELSE conn' = conn /\ cmd' = cmd
        /\ conn' \in [Clients -> {"idle", "backlog", "queued", "waiting", "closed"}] /\ DOMAIN cmd' = Clients
        /\ \A x \in Clients : conn'[x] = "idle" => conn[x] = "idle"
        /\ \A x \in Clients : conn'[x] # "closed" => conn[x] # "closed" /\ cmd'[x] = cmd[x]
    <2>1. CASE starter \in Clients
      <3>1. PICK r \in {"ok", "err"} : Answer(starter, r)
        BY <2>1 DEF StartReturns, AnswerIfClient
      <3> QED
        BY <1>1, <2>1, <3>1, AnswerIs
    <2>2. CASE starter \notin Clients
      BY <1>1, <2>2 DEF StartReturns, AnswerIfClient, ClientTypes
    <2> QED
      BY <2>1, <2>2
  <1>4. LoopTypes'
    BY <1>1, <1>2 DEF LoopTypes
  <1>5. QuitKept'
    BY <1>1, <1>2 DEF QuitKept, LoopTypes
  <1>6. ExitsStopped'
    BY <1>1, <1>2 DEF ExitsStopped, QuitKept, LoopTypes
  <1>7. ClientTypes'
    BY <1>1, <1>2, <1>3 DEF ClientTypes
  <1>8. LoopKept'
    <2>1. inbox \in Seq(Posts) /\ "nobody" \notin Clients
      BY <1>1 DEF ClientTypes
    <2>2. LoopFits(inbox, conn, cmd, job, starter)
      BY <1>1 DEF LoopKept
    <2>3. LoopFits(inbox, conn', cmd', job, "nobody")
      BY <1>3, <2>1, <2>2, LoopStarted
    <2> QED
      BY <1>2, <2>3 DEF LoopKept
  <1>9. JobTypes' /\ DoneMeansApplied' /\ ShownKept'
    BY <1>1, <1>2, JobsStay
  <1>10. JobsKept'
    BY <1>1, <1>2, <1>3 DEF JobsKept, JobTypes, ClientTypes, SlowOps, Jobs
  <1>11. PitchTypes' /\ StagedIsShown' /\ PitchReachesEngine'
    BY <1>1, <1>2, PitchStays
  <1> QED
    BY <1>4, <1>5, <1>6, <1>7, <1>8, <1>9, <1>10,
       <1>11, PartsNext

LEMMA HeadOfLoop ==
  ASSUME ClientTypes, LoopKept, inbox # <<>>
  PROVE  /\ Head(inbox) = inbox[1] /\ Tail(inbox) \in Seq(Posts) /\ 1 \in 1..Len(inbox)
         /\ inbox[1] = <<inbox[1][1], inbox[1][2]>>
         /\ LoopFits(inbox, conn, cmd, job, starter)
         /\ inbox[1][1] \in Awaiting => /\ inbox[1][2] \in Clients
                                       /\ conn[inbox[1][2]] = "waiting"
                                       /\ cmd[inbox[1][2]][1] = inbox[1][1]
         /\ inbox[1][1] = "LATER" => inbox[1][2] \in Clients
         /\ inbox[1][1] = "APPLY" => inbox[1][2] \in Jobs /\ job[inbox[1][2]] = "posted"
         /\ inbox \in Seq(Posts)
  <1>1. /\ Head(inbox) = inbox[1] /\ Tail(inbox) \in Seq(Posts) /\ Len(inbox) \in Nat \ {0}
        /\ inbox[1] \in Posts
    BY TailIs DEF ClientTypes
  <1>2. 1 \in 1..Len(inbox)
    BY <1>1
  <1>3. LoopFits(inbox, conn, cmd, job, starter)
    BY DEF LoopKept
  <1>4. /\ inbox[1] = <<inbox[1][1], inbox[1][2]>>
        /\ inbox[1][1] \in Awaiting \cup {"LATER"} => inbox[1][2] \in Clients
        /\ inbox[1][1] = "APPLY" => inbox[1][2] \in Jobs
    BY <1>1, PostIs
  <1>5. /\ inbox[1][1] \in Awaiting => conn[inbox[1][2]] = "waiting" /\ cmd[inbox[1][2]][1] = inbox[1][1]
        /\ inbox[1][1] = "APPLY" => job[inbox[1][2]] = "posted"
    BY <1>2, <1>3 DEF LoopFits, PostsFit
  <1> QED
    BY <1>1, <1>2, <1>3, <1>4, <1>5 DEF ClientTypes

\* A client's toggle is served: refused while quitting, a stop is begun in the
\* background, or the engine is started.
LEMMA PostedToggleKeeps ==
  ASSUME Parts, PostedToggle
  PROVE  Parts'
  <1> USE ControlAssumption DEF Quitting,
      appVars, socketVars, clientVars, jobVars, engineVars, swapVars, pitchVars
  <1>1. /\ LoopTypes /\ QuitKept /\ ExitsStopped /\ ClientTypes /\ LoopKept
        /\ JobTypes /\ DoneMeansApplied /\ ShownKept /\ JobsKept
        /\ PitchTypes /\ StagedIsShown /\ PitchReachesEngine
    BY DEF Parts
  <1>2. /\ Head(inbox) = inbox[1] /\ Tail(inbox) \in Seq(Posts) /\ 1 \in 1..Len(inbox)
        /\ inbox[1] = <<inbox[1][1], inbox[1][2]>>
        /\ LoopFits(inbox, conn, cmd, job, starter) /\ inbox \in Seq(Posts)
        /\ inbox[1][1] = "TOGGLE" /\ inbox[1][2] \in Clients /\ inbox' = Tail(inbox) /\ starter = "nobody"
        /\ app' = app /\ UNCHANGED <<socketVars, jobVars, running, stopEvent, swapVars, engineVoice>>
        /\ inbox # <<>> /\ "nobody" \notin Clients
        /\ Toggle(inbox[1][2])
    BY <1>1, HeadOfLoop DEF PostedToggle, LoopFree, Awaiting
  <1>3. \/ /\ \/ stopping' = stopping
              \/ stopping' = [stopping EXCEPT !["toggle"] = "asked"]
           /\ starter' = "nobody" /\ UNCHANGED pitchVars
           /\ \E r \in {"ok", "err"} : Answer(inbox[1][2], r)
        \/ /\ ~Quitting /\ ~running /\ starter' = inbox[1][2]
           /\ enginePitch' = pitch /\ overtaken' = UpdateUnderWay
           /\ UNCHANGED <<pitch, staged, drained, stopping, clientVars>>
    BY <1>2 DEF Toggle, ToggleRefused, AnswerIfClient
  <1>4. \/ /\ IsAnswered(inbox[1][2], conn, cmd, conn', cmd') /\ DOMAIN cmd' = Clients
           /\ conn' \in [Clients -> {"idle", "backlog", "queued", "waiting", "closed"}]
           /\ \A x \in Clients : conn'[x] = "idle" => conn[x] = "idle"
           /\ \A x \in Clients : conn'[x] # "closed" => conn[x] # "closed" /\ cmd'[x] = cmd[x]
           /\ starter' = "nobody"
        \/ conn' = conn /\ cmd' = cmd /\ starter' = inbox[1][2]
    <2>1. CASE \E r \in {"ok", "err"} : Answer(inbox[1][2], r) /\ starter' = "nobody"
      BY <1>1, <1>2, <2>1, AnswerIs
    <2> QED
      BY <1>3, <2>1
  <1>5. LoopTypes'
    BY <1>1, <1>2, <1>3, <1>4 DEF LoopTypes
  <1>6. QuitKept'
    BY <1>1, <1>2, <1>3, <1>4 DEF QuitKept, LoopTypes
  <1>7. ExitsStopped'
    BY <1>1, <1>2 DEF ExitsStopped, QuitKept, LoopTypes
  <1>8. ClientTypes'
    BY <1>1, <1>2, <1>3, <1>4 DEF ClientTypes
  <1>9. LoopKept'
    <2>1. CASE IsAnswered(inbox[1][2], conn, cmd, conn', cmd') /\ starter' = "nobody"
      <3>1. inbox[1][1] \in Awaiting
        BY <1>2 DEF Awaiting
      <3>2. LoopFits(Tail(inbox), conn', cmd', job, starter)
        BY <1>2, <2>1, <3>1, LoopAnswers
      <3> QED
        BY <1>2, <2>1, <3>2 DEF LoopKept
    <2>2. CASE conn' = conn /\ cmd' = cmd /\ starter' = inbox[1][2]
      <3>1. LoopFits(Tail(inbox), conn, cmd, job, inbox[1][2])
        BY <1>2, LoopStarts
      <3> QED
        BY <1>2, <2>2, <3>1 DEF LoopKept
    <2> QED
      BY <1>4, <2>1, <2>2
  <1>10. JobTypes' /\ DoneMeansApplied' /\ ShownKept'
    BY <1>1, <1>2, JobsStay
  <1>11. JobsKept'
    BY <1>1, <1>2, <1>3, <1>4 DEF JobsKept, JobTypes, ClientTypes, SlowOps, Jobs
  <1>12. PitchTypes'
    BY <1>1, <1>2, <1>3, <1>4 DEF PitchTypes, UpdateUnderWay
  <1>13. StagedIsShown'
    BY <1>1, <1>2, <1>3, <1>4 DEF StagedIsShown, UpdateUnderWay
  <1>14. PitchReachesEngine'
    BY <1>1, <1>2, <1>3, <1>4 DEF PitchReachesEngine, UpdateUnderWay, StagedIsShown
  <1> QED
    BY <1>5, <1>6, <1>7, <1>8, <1>9, <1>10, <1>11,
       <1>12, <1>13, <1>14, PartsNext

LEMMA ClampedIs == ASSUME NEW p \in Int PROVE Clamped(p) \in Pitches
  BY ControlAssumption DEF Clamped, Pitches

\* A client's change of pitch is served.
LEMMA PostedPitchKeeps ==
  ASSUME Parts, PostedPitch
  PROVE  Parts'
  <1> USE ControlAssumption DEF Quitting,
      appVars, socketVars, clientVars, jobVars, engineVars, swapVars, pitchVars
  <1>1. /\ LoopTypes /\ QuitKept /\ ExitsStopped /\ ClientTypes /\ LoopKept
        /\ JobTypes /\ DoneMeansApplied /\ ShownKept /\ JobsKept
        /\ PitchTypes /\ StagedIsShown /\ PitchReachesEngine
    BY DEF Parts
  <1>2. /\ Head(inbox) = inbox[1] /\ Tail(inbox) \in Seq(Posts) /\ 1 \in 1..Len(inbox)
        /\ inbox[1] = <<inbox[1][1], inbox[1][2]>>
        /\ LoopFits(inbox, conn, cmd, job, starter) /\ inbox \in Seq(Posts)
        /\ inbox[1][1] = "PITCH" /\ inbox[1][2] \in Clients /\ inbox' = Tail(inbox) /\ inbox # <<>>
        /\ cmd[inbox[1][2]][1] = "PITCH" /\ conn[inbox[1][2]] = "waiting"
        /\ app' = app /\ UNCHANGED <<starter, socketVars, jobVars, engineVars, swapVars, engineVoice>>
        /\ Answer(inbox[1][2], "ok")
    BY <1>1, HeadOfLoop DEF PostedPitch, LoopFree, Awaiting
  <1>3. /\ IsAnswered(inbox[1][2], conn, cmd, conn', cmd') /\ DOMAIN cmd' = Clients
        /\ conn' \in [Clients -> {"idle", "backlog", "queued", "waiting", "closed"}]
        /\ \A x \in Clients : conn'[x] = "idle" => conn[x] = "idle"
        /\ \A x \in Clients : conn'[x] # "closed" => conn[x] # "closed" /\ cmd'[x] = cmd[x]
    BY <1>1, <1>2, AnswerIs
  <1>4. /\ pitch' = enginePitch' /\ pitch' \in Pitches
        /\ overtaken' = UpdateUnderWay /\ UNCHANGED <<staged, drained>>
    <2>1. cmd[inbox[1][2]][2] \in Int
      BY <1>2 DEF LoopFits, CommandsFit
    <2>2. pitch \in Int
      BY <1>1 DEF PitchTypes, Pitches
    <2> DEFINE p == IF cmd[inbox[1][2]][2] = 0 THEN 0 ELSE pitch + cmd[inbox[1][2]][2]
    <2>3. p \in Int
      BY <2>1, <2>2
    <2>4. ApplyPitch(p)
      BY <1>2 DEF PostedPitch
    <2> QED
      BY <2>3, <2>4, ClampedIs DEF ApplyPitch
  <1>5. LoopTypes' /\ QuitKept' /\ ExitsStopped'
    BY <1>1, <1>2, QuitStays
  <1>6. ClientTypes'
    BY <1>1, <1>2, <1>3, <1>4 DEF ClientTypes
  <1>7. LoopKept'
    <2>1. inbox[1][1] \in Awaiting
      BY <1>2 DEF Awaiting
    <2>2. LoopFits(Tail(inbox), conn', cmd', job, starter)
      BY <1>2, <1>3, <2>1, LoopAnswers
    <2> QED
      BY <1>2, <2>2 DEF LoopKept
  <1>8. JobTypes' /\ DoneMeansApplied' /\ ShownKept'
    BY <1>1, <1>2, JobsStay
  <1>9. JobsKept'
    BY <1>1, <1>2, <1>3, <1>4 DEF JobsKept, JobTypes, ClientTypes, SlowOps, Jobs
  <1>10. PitchTypes'
    BY <1>1, <1>2, <1>3, <1>4 DEF PitchTypes, UpdateUnderWay
  <1>11. StagedIsShown'
    BY <1>1, <1>2, <1>3, <1>4 DEF StagedIsShown, UpdateUnderWay
  <1>12. PitchReachesEngine'
    BY <1>1, <1>2, <1>3, <1>4 DEF PitchReachesEngine, UpdateUnderWay, StagedIsShown
  <1> QED
    BY <1>5, <1>6, <1>7, <1>8, <1>9, <1>10, <1>11,
       <1>12, PartsNext

\* A queue of distinct requests, each of them queued, stays one.
LEMMA QueueGrows ==
  ASSUME NEW q \in Seq(Jobs), NEW rq, NEW j \in Jobs, rq[j] = "none", NEW rq1, rq1[j] = "queued",
         \A i \in Jobs \ {j} : rq1[i] = rq[i],
         \A k \in 1..Len(q) : rq[q[k]] = "queued",
         \A k, l \in 1..Len(q) : k # l => q[k] # q[l], NEW r, r = Append(q, j)
  PROVE  /\ r \in Seq(Jobs)
         /\ \A k \in 1..Len(r) : rq1[r[k]] = "queued"
         /\ \A k, l \in 1..Len(r) : k # l => r[k] # r[l]
  <1> DEFINE n == Len(q) + 1
  <1>1. /\ r \in Seq(Jobs) /\ Len(q) \in Nat /\ Len(r) = n /\ r[n] = j
        /\ \A k \in 1..Len(q) : k \in 1..Len(r) /\ r[k] = q[k]
        /\ \A k \in 1..Len(r) : k \in 1..Len(q) \/ k = n
    BY AppendIs
  <1>2. \A k \in 1..Len(q) : q[k] \in Jobs \ {j}
    OBVIOUS
  <1> HIDE DEF n
  <1>3. \A k \in 1..Len(r) : rq1[r[k]] = "queued"
    BY <1>1, <1>2
  <1>4. \A k, l \in 1..Len(r) : k # l => r[k] # r[l]
    BY <1>1, <1>2
  <1> QED
    BY <1>1, <1>3, <1>4

\* A job's callback: a swap is requested or refused, a profile's pitch is staged.
LEMMA PostedApplyKeeps ==
  ASSUME Parts, PostedApply
  PROVE  Parts'
  <1> USE ControlAssumption DEF Quitting,
      appVars, socketVars, clientVars, jobVars, engineVars, swapVars, pitchVars
  <1>1. /\ LoopTypes /\ QuitKept /\ ExitsStopped /\ ClientTypes /\ LoopKept
        /\ JobTypes /\ DoneMeansApplied /\ ShownKept /\ JobsKept
        /\ PitchTypes /\ StagedIsShown /\ PitchReachesEngine
    BY DEF Parts
  <1>2. /\ Head(inbox) = inbox[1] /\ Tail(inbox) \in Seq(Posts) /\ 1 \in 1..Len(inbox)
        /\ inbox[1] = <<inbox[1][1], inbox[1][2]>>
        /\ LoopFits(inbox, conn, cmd, job, starter) /\ inbox \in Seq(Posts)
        /\ inbox[1][1] = "APPLY" /\ inbox[1][2] \in Jobs /\ job[inbox[1][2]] = "posted"
        /\ inbox' = Tail(inbox) /\ inbox # <<>> /\ job' = [job EXCEPT ![inbox[1][2]] = "awaiting"]
        /\ app' = app /\ UNCHANGED <<starter, socketVars, clientVars, entry, work, inFlight, engineVars, engineVoice>>
    BY <1>1, HeadOfLoop DEF PostedApply, LoopFree
  <1>3. \/ UNCHANGED pitchVars
        \/ /\ staged' \in Pitches /\ pitch' = staged' /\ overtaken' = FALSE
           /\ UNCHANGED <<enginePitch, drained>>
    <2>1. \A p \in Profiles : ProfilePitch[p] \in Pitches
      BY DEF Pitches
    <2> QED
      BY <1>2, <2>1 DEF PostedApply, ApplyModel, ApplyProfile, Staging
  <1>4. \/ /\ req' = [req EXCEPT ![inbox[1][2]] = "queued"] /\ swapQ' = Append(swapQ, inbox[1][2])
           /\ \/ work[inbox[1][2]][1] = "MODEL" /\ work[inbox[1][2]][2] \in Voices
              \/ work[inbox[1][2]][1] = "PROFILE" /\ work[inbox[1][2]][2] \in Profiles
        \/ /\ swapQ' = swapQ
           /\ \E a \in {"failed", "unneeded", "missing"} :
                 /\ req' = [req EXCEPT ![inbox[1][2]] = a]
                 /\ a # "failed" => work[inbox[1][2]][1] = "PROFILE"
    <2> DEFINE i == inbox[1][2]
    <2>1. work[i][1] = "MODEL" => work[i][2] \in Voices
      BY <1>1, <1>2 DEF JobsKept
    <2>2. CASE work[i][1] = "MODEL" /\ RequestSwap(i)
      BY <2>1, <2>2 DEF RequestSwap
    <2>3. CASE work[i][1] = "PROFILE" /\ work[i][2] \in Profiles
               /\ \/ RequestSwap(i)
                  \/ NoSwapFor(i, "unneeded") \/ NoSwapFor(i, "missing")
      BY <2>3 DEF RequestSwap, NoSwapFor
    <2>4. CASE req' = [req EXCEPT ![i] = "failed"] /\ swapQ' = swapQ
      BY <2>4
    <2> QED
      BY <1>2, <2>2, <2>3, <2>4 DEF PostedApply, ApplyModel, ApplyProfile
  <1>5. /\ req[inbox[1][2]] = "none" /\ entry[inbox[1][2]] # "done"
        /\ job' \in [Jobs -> {"none", "submitted", "posted", "awaiting", "ended"}]
        /\ req' \in [Jobs -> {"none", "queued", "ok", "failed", "unneeded", "missing"}]
        /\ job'[inbox[1][2]] = "awaiting" /\ \A x \in Jobs \ {inbox[1][2]} : job'[x] = job[x] /\ req'[x] = req[x]
        /\ req'[inbox[1][2]] # "none"
        /\ req'[inbox[1][2]] \in {"unneeded", "missing"} => work[inbox[1][2]][1] = "PROFILE"
    <2> DEFINE i == inbox[1][2]
    <2>1. i \in Jobs /\ job[i] = "posted" /\ job' = [job EXCEPT ![i] = "awaiting"]
      BY <1>2
    <2>2. \E a \in {"queued", "failed", "unneeded", "missing"} :
             /\ req' = [req EXCEPT ![i] = a]
             /\ a \in {"unneeded", "missing"} => work[i][1] = "PROFILE"
      BY <1>4
    <2> HIDE DEF i
    <2>3. req[i] = "none" /\ entry[i] # "done"
      BY <1>1, <2>1 DEF JobsKept
    <2>4. /\ job' \in [Jobs -> {"none", "submitted", "posted", "awaiting", "ended"}]
          /\ job'[i] = "awaiting" /\ \A x \in Jobs \ {i} : job'[x] = job[x]
      BY <1>1, <2>1 DEF JobTypes
    <2>5. /\ req' \in [Jobs -> {"none", "queued", "ok", "failed", "unneeded", "missing"}]
          /\ req'[i] # "none" /\ (req'[i] \in {"unneeded", "missing"} => work[i][1] = "PROFILE")
          /\ \A x \in Jobs \ {i} : req'[x] = req[x]
      BY <1>1, <2>1, <2>2 DEF JobTypes
    <2> QED
      BY <2>3, <2>4, <2>5 DEF i
  <1>6. /\ swapQ' \in Seq(Jobs)
        /\ \A k \in 1..Len(swapQ') : req'[swapQ'[k]] = "queued"
        /\ \A k, l \in 1..Len(swapQ') : k # l => swapQ'[k] # swapQ'[l]
    <2> DEFINE i == inbox[1][2]
    <2>1. /\ swapQ \in Seq(Jobs) /\ \A k \in 1..Len(swapQ) : req[swapQ[k]] = "queued"
          /\ \A k, l \in 1..Len(swapQ) : k # l => swapQ[k] # swapQ[l]
      BY <1>1 DEF JobTypes, JobsKept
    <2>2. CASE req' = [req EXCEPT ![i] = "queued"] /\ swapQ' = Append(swapQ, i)
      <3>1. req'[i] = "queued"
        BY <1>1, <1>2, <2>2 DEF JobTypes
      <3>2. i \in Jobs
        BY <1>2
      <3>3. req[i] = "none" /\ \A x \in Jobs \ {i} : req'[x] = req[x]
        BY <1>5
      <3> HIDE DEF i
      <3> QED
        BY <2>1, <2>2, <3>1, <3>2, <3>3, QueueGrows
    <2>3. CASE swapQ' = swapQ
      <3>1. ASSUME NEW k \in 1..Len(swapQ) PROVE swapQ[k] \in Jobs \ {i}
        <4>1. swapQ[k] \in Jobs /\ req[swapQ[k]] = "queued"
          BY <2>1
        <4>2. req[i] = "none"
          BY <1>5
        <4> QED
          BY <4>1, <4>2
      <3> QED
        BY <1>5, <2>1, <2>3, <3>1
    <2> QED
      BY <1>4, <2>2, <2>3
  <1>7. LoopTypes' /\ QuitKept' /\ ExitsStopped'
    BY <1>1, <1>2, QuitStays
  <1>8. ClientTypes'
    BY <1>1, <1>2 DEF ClientTypes
  <1>9. LoopKept'
    <2>1. inbox[1][1] \notin Awaiting /\ \A x \in Jobs : job'[x] = job[x] \/ inbox[1] = <<"APPLY", x>>
      BY <1>2, <1>5 DEF Awaiting
    <2>2. LoopFits(Tail(inbox), conn, cmd, job', starter)
      BY <1>2, <2>1, LoopGoesOn
    <2> QED
      BY <1>2, <2>2 DEF LoopKept
  <1>10. JobTypes'
    BY <1>1, <1>2, <1>3, <1>4, <1>5, <1>6 DEF JobTypes
  <1>11. DoneMeansApplied'
    <2>1. \A j \in Jobs : j # inbox[1][2] =>
             entry'[j] = entry[j] /\ req'[j] = req[j] /\ work'[j] = work[j]
      BY <1>2, <1>5
    <2>2. entry'[inbox[1][2]] # "done"
      BY <1>2, <1>5
    <2>3. DoneMeansApplied
      BY <1>1
    <2> QED
      BY <2>1, <2>2, <2>3, Zenon DEF DoneMeansApplied
  <1>12. ShownKept'
    BY <1>1, <1>2, ShownStays DEF JobTypes, JobsKept, Jobs
  <1>13. JobsKept'
    BY <1>1, <1>2, <1>3, <1>4, <1>5, <1>6 DEF JobsKept, JobTypes, ClientTypes, SlowOps, Jobs
  <1>14. PitchTypes'
    BY <1>1, <1>2, <1>3, <1>4, <1>5, <1>6 DEF PitchTypes, UpdateUnderWay
  <1>15. StagedIsShown'
    BY <1>1, <1>2, <1>3, <1>4, <1>5, <1>6 DEF StagedIsShown, Pitches
  <1>16. PitchReachesEngine'
    <2>1. CASE UNCHANGED pitchVars
      BY <1>1, <2>1 DEF PitchReachesEngine, UpdateUnderWay
    <2>2. CASE staged' \in Pitches
      BY <2>2 DEF PitchReachesEngine, UpdateUnderWay, Pitches
    <2> QED
      BY <1>3, <2>1, <2>2
  <1> QED
    BY <1>7, <1>8, <1>9, <1>10, <1>11, <1>12, <1>13,
       <1>14, <1>15, <1>16, PartsNext

\* The toast of a stop in the background.
LEMMA PostedNotifyKeeps ==
  ASSUME Parts, PostedNotify
  PROVE  Parts'
  <1> USE ControlAssumption DEF Quitting,
      appVars, socketVars, clientVars, jobVars, engineVars, swapVars, pitchVars
  <1>1. /\ LoopTypes /\ QuitKept /\ ExitsStopped /\ ClientTypes /\ LoopKept
        /\ JobTypes /\ DoneMeansApplied /\ ShownKept /\ JobsKept
        /\ PitchTypes /\ StagedIsShown /\ PitchReachesEngine
    BY DEF Parts
  <1>2. /\ Head(inbox) = inbox[1] /\ Tail(inbox) \in Seq(Posts) /\ 1 \in 1..Len(inbox)
        /\ inbox[1] = <<inbox[1][1], inbox[1][2]>>
        /\ LoopFits(inbox, conn, cmd, job, starter) /\ inbox \in Seq(Posts)
        /\ inbox[1][1] = "STOPPED" /\ inbox' = Tail(inbox) /\ inbox # <<>>
        /\ stopping' = [stopping EXCEPT !["toggle"] = "idle"]
        /\ app' = app
        /\ UNCHANGED <<starter, socketVars, clientVars, jobVars, running, stopEvent, swapVars, pitchVars, engineVoice>>
    BY <1>1, HeadOfLoop DEF PostedNotify
  <1>3. LoopTypes'
    BY <1>1, <1>2 DEF LoopTypes
  <1>4. QuitKept'
    BY <1>1, <1>2 DEF QuitKept, LoopTypes
  <1>5. ExitsStopped'
    BY <1>1, <1>2 DEF ExitsStopped, QuitKept, LoopTypes
  <1>6. ClientTypes'
    BY <1>1, <1>2 DEF ClientTypes
  <1>7. LoopKept'
    <2>1. inbox[1][1] \notin Awaiting /\ \A x \in Jobs : job[x] = job[x] \/ inbox[1] = <<"APPLY", x>>
      BY <1>2 DEF Awaiting
    <2>2. LoopFits(Tail(inbox), conn, cmd, job, starter)
      BY <1>2, <2>1, LoopGoesOn
    <2> QED
      BY <1>2, <2>2 DEF LoopKept
  <1>8. JobTypes' /\ DoneMeansApplied' /\ ShownKept'
    BY <1>1, <1>2, JobsStay
  <1>9. JobsKept'
    BY <1>1, <1>2 DEF JobsKept, JobTypes, ClientTypes, SlowOps, Jobs
  <1>10. PitchTypes' /\ StagedIsShown' /\ PitchReachesEngine'
    BY <1>1, <1>2, PitchStays
  <1> QED
    BY <1>3, <1>4, <1>5, <1>6, <1>7, <1>8, <1>9,
       <1>10, PartsNext

\* action_quit begins, as a client has asked.
LEMMA LaterQuitKeeps ==
  ASSUME Parts, LaterQuit
  PROVE  Parts'
  <1> USE ControlAssumption DEF BeginQuit, Quitting,
      appVars, socketVars, clientVars, jobVars, engineVars, swapVars, pitchVars
  <1>1. /\ LoopTypes /\ QuitKept /\ ExitsStopped /\ ClientTypes /\ LoopKept
        /\ JobTypes /\ DoneMeansApplied /\ ShownKept /\ JobsKept
        /\ PitchTypes /\ StagedIsShown /\ PitchReachesEngine
    BY DEF Parts
  <1>2. /\ Head(inbox) = inbox[1] /\ Tail(inbox) \in Seq(Posts) /\ 1 \in 1..Len(inbox)
        /\ inbox[1] = <<inbox[1][1], inbox[1][2]>>
        /\ LoopFits(inbox, conn, cmd, job, starter) /\ inbox \in Seq(Posts)
        /\ inbox[1][1] = "LATER" /\ inbox' = Tail(inbox) /\ inbox # <<>>
        /\ BeginQuit /\ LoopFree
        /\ UNCHANGED <<starter, socketVars, clientVars, jobVars, running, stopEvent, swapVars, pitchVars, engineVoice>>
    BY <1>1, HeadOfLoop DEF LaterQuit
  <1>3. /\ starter = "nobody"
        /\ \/ app' = app /\ stopping' = stopping
           \/ app' = "stopping" /\ stopping' = [stopping EXCEPT !["quit"] = "asked"]
    BY <1>2 DEF BeginQuit, LoopFree
  <1>4. LoopTypes'
    BY <1>1, <1>2 DEF LoopTypes
  <1>5. QuitKept'
    BY <1>1, <1>2, <1>3 DEF QuitKept, LoopTypes
  <1>6. ExitsStopped'
    BY <1>1, <1>2 DEF ExitsStopped, QuitKept, LoopTypes
  <1>7. ClientTypes'
    BY <1>1, <1>2 DEF ClientTypes
  <1>8. LoopKept'
    <2>1. inbox[1][1] \notin Awaiting /\ \A x \in Jobs : job[x] = job[x] \/ inbox[1] = <<"APPLY", x>>
      BY <1>2 DEF Awaiting
    <2>2. LoopFits(Tail(inbox), conn, cmd, job, starter)
      BY <1>2, <2>1, LoopGoesOn
    <2> QED
      BY <1>2, <2>2 DEF LoopKept
  <1>9. JobTypes' /\ DoneMeansApplied' /\ ShownKept'
    BY <1>1, <1>2, JobsStay
  <1>10. JobsKept'
    BY <1>1, <1>2 DEF JobsKept, JobTypes, ClientTypes, SlowOps, Jobs
  <1>11. PitchTypes' /\ StagedIsShown' /\ PitchReachesEngine'
    BY <1>1, <1>2, PitchStays
  <1> QED
    BY <1>4, <1>5, <1>6, <1>7, <1>8, <1>9, <1>10,
       <1>11, PartsNext

\* Answered, and action_quit is scheduled.
LEMMA LoopAnswersLater ==
  ASSUME LoopFits(Tail(inbox), conn', cmd', job, starter), Tail(inbox) \in Seq(Posts),
         NEW c \in Clients
  PROVE  LoopFits(Append(Tail(inbox), <<"LATER", c>>), conn', cmd', job, starter)
  <1> DEFINE q == Tail(inbox)
             p == <<"LATER", c>>
             cn == conn'
             cm == cmd'
  <1>1. q \in Seq(Posts) /\ LoopFits(q, cn, cm, job, starter)
    OBVIOUS
  <1>2. p \in Posts /\ p[1] \in {"LATER", "STOPPED"}
    BY DEF Posts
  <1> HIDE DEF q, p, cn, cm
  <1>3. LoopFits(Append(q, p), cn, cm, job, starter)
    BY <1>1, <1>2, LoopPosts
  <1> QED
    BY <1>3 DEF q, p, cn, cm

\* A client's quit: its answer comes first.
LEMMA PostedQuitKeeps ==
  ASSUME Parts, PostedQuit
  PROVE  Parts'
  <1> USE ControlAssumption DEF Quitting,
      appVars, socketVars, clientVars, jobVars, engineVars, swapVars, pitchVars
  <1>1. /\ LoopTypes /\ QuitKept /\ ExitsStopped /\ ClientTypes /\ LoopKept
        /\ JobTypes /\ DoneMeansApplied /\ ShownKept /\ JobsKept
        /\ PitchTypes /\ StagedIsShown /\ PitchReachesEngine
    BY DEF Parts
  <1>2. /\ Head(inbox) = inbox[1] /\ Tail(inbox) \in Seq(Posts) /\ 1 \in 1..Len(inbox)
        /\ inbox[1] = <<inbox[1][1], inbox[1][2]>>
        /\ LoopFits(inbox, conn, cmd, job, starter) /\ inbox \in Seq(Posts)
        /\ inbox[1][1] = "QUIT" /\ inbox[1][2] \in Clients /\ inbox # <<>>
        /\ inbox' = Append(Tail(inbox), <<"LATER", inbox[1][2]>>)
        /\ app' = app /\ UNCHANGED <<starter, socketVars, jobVars, engineVars, swapVars, pitchVars, engineVoice>>
        /\ Answer(inbox[1][2], "ok")
    BY <1>1, HeadOfLoop DEF PostedQuit, QuitAnswered, LoopFree, Awaiting
  <1>3. /\ IsAnswered(inbox[1][2], conn, cmd, conn', cmd') /\ DOMAIN cmd' = Clients
        /\ conn' \in [Clients -> {"idle", "backlog", "queued", "waiting", "closed"}]
        /\ \A x \in Clients : conn'[x] = "idle" => conn[x] = "idle"
        /\ \A x \in Clients : conn'[x] # "closed" => conn[x] # "closed" /\ cmd'[x] = cmd[x]
    BY <1>1, <1>2, AnswerIs
  <1>4. LoopTypes' /\ QuitKept' /\ ExitsStopped'
    BY <1>1, <1>2, QuitStays
  <1>5. ClientTypes'
    <2>1. <<"LATER", inbox[1][2]>> \in Posts
      BY <1>2 DEF Posts
    <2>2. inbox' \in Seq(Posts)
      BY <1>2, <2>1, AppendIs
    <2> QED
      BY <1>3, <2>2 DEF ClientTypes
  <1>6. LoopKept'
    <2>1. inbox[1][1] \in Awaiting
      BY <1>2 DEF Awaiting
    <2>2. LoopFits(Tail(inbox), conn', cmd', job, starter)
      BY <1>2, <1>3, <2>1, LoopAnswers
    <2>3. LoopFits(Append(Tail(inbox), <<"LATER", inbox[1][2]>>), conn', cmd', job, starter)
      BY <1>2, <2>2, LoopAnswersLater
    <2> QED
      BY <1>2, <2>3 DEF LoopKept
  <1>7. JobTypes' /\ DoneMeansApplied' /\ ShownKept'
    BY <1>1, <1>2, JobsStay
  <1>8. JobsKept'
    BY <1>1, <1>2, <1>3 DEF JobsKept, JobTypes, ClientTypes, SlowOps, Jobs
  <1>9. PitchTypes' /\ StagedIsShown' /\ PitchReachesEngine'
    BY <1>1, <1>2, PitchStays
  <1> QED
    BY <1>4, <1>5, <1>6, <1>7, <1>8, <1>9, PartsNext

\* The key that toggles.
LEMMA KeyToggleKeeps ==
  ASSUME Parts, KeyToggle
  PROVE  Parts'
  <1> USE ControlAssumption DEF Quitting,
      appVars, socketVars, clientVars, jobVars, engineVars, swapVars, pitchVars
  <1>1. /\ LoopTypes /\ QuitKept /\ ExitsStopped /\ ClientTypes /\ LoopKept
        /\ JobTypes /\ DoneMeansApplied /\ ShownKept /\ JobsKept
        /\ PitchTypes /\ StagedIsShown /\ PitchReachesEngine
    BY DEF Parts
  <1>2. /\ starter = "nobody" /\ inbox' = inbox /\ app' = app
        /\ UNCHANGED <<socketVars, clientVars, jobVars, running, stopEvent, swapVars, engineVoice>>
        /\ \/ /\ \/ stopping' = stopping
                 \/ stopping' = [stopping EXCEPT !["toggle"] = "asked"]
              /\ starter' = "nobody" /\ UNCHANGED pitchVars
           \/ /\ ~Quitting /\ ~running /\ starter' = "key"
              /\ enginePitch' = pitch /\ overtaken' = UpdateUnderWay
              /\ UNCHANGED <<pitch, staged, drained, stopping>>
    BY DEF KeyToggle, Pressed, LoopFree, Toggle, ToggleRefused, AnswerIfClient
  <1>3. LoopTypes'
    BY <1>1, <1>2 DEF LoopTypes
  <1>4. QuitKept'
    BY <1>1, <1>2 DEF QuitKept, LoopTypes
  <1>5. ExitsStopped'
    BY <1>1, <1>2 DEF ExitsStopped, QuitKept, LoopTypes
  <1>6. ClientTypes'
    BY <1>1, <1>2 DEF ClientTypes
  <1>7. LoopKept'
    <2>1. LoopFits(inbox, conn, cmd, job, starter) /\ inbox \in Seq(Posts)
      BY <1>1 DEF LoopKept, ClientTypes
    <2>2. starter \notin Clients /\ starter' \notin Clients
      BY <1>2
    <2>3. LoopFits(inbox, conn, cmd, job, starter')
      BY <2>1, <2>2 DEF LoopFits, PostsFit, WaitersFit
    <2> QED
      BY <1>2, <2>3 DEF LoopKept
  <1>8. JobTypes' /\ DoneMeansApplied' /\ ShownKept'
    BY <1>1, <1>2, JobsStay
  <1>9. JobsKept'
    BY <1>1, <1>2 DEF JobsKept, JobTypes, ClientTypes, SlowOps, Jobs
  <1>10. PitchTypes'
    BY <1>1, <1>2 DEF PitchTypes, UpdateUnderWay
  <1>11. StagedIsShown'
    BY <1>1, <1>2 DEF StagedIsShown, UpdateUnderWay
  <1>12. PitchReachesEngine'
    BY <1>1, <1>2 DEF PitchReachesEngine, UpdateUnderWay, StagedIsShown
  <1> QED
    BY <1>3, <1>4, <1>5, <1>6, <1>7, <1>8, <1>9,
       <1>10, <1>11, <1>12, PartsNext

\* The keys that change the pitch.
LEMMA KeyPitchKeeps ==
  ASSUME Parts, KeyPitch
  PROVE  Parts'
  <1> USE ControlAssumption DEF Quitting,
      appVars, socketVars, clientVars, jobVars, engineVars, swapVars, pitchVars
  <1>1. /\ LoopTypes /\ QuitKept /\ ExitsStopped /\ ClientTypes /\ LoopKept
        /\ JobTypes /\ DoneMeansApplied /\ ShownKept /\ JobsKept
        /\ PitchTypes /\ StagedIsShown /\ PitchReachesEngine
    BY DEF Parts
  <1>2. /\ inbox' = inbox /\ app' = app
        /\ UNCHANGED <<starter, socketVars, clientVars, jobVars, engineVars, swapVars, engineVoice>>
        /\ \E p \in {pitch + 1, pitch - 1, 0} : ApplyPitch(p)
    BY DEF KeyPitch, Pressed
  <1>3. /\ pitch' = enginePitch' /\ pitch' \in Pitches
        /\ overtaken' = UpdateUnderWay /\ UNCHANGED <<staged, drained>>
    <2>1. pitch \in Int
      BY <1>1 DEF PitchTypes, Pitches
    <2> QED
      BY <1>2, <2>1, ClampedIs DEF ApplyPitch
  <1>4. LoopTypes' /\ QuitKept' /\ ExitsStopped'
    BY <1>1, <1>2, QuitStays
  <1>5. ClientTypes' /\ LoopKept'
    BY <1>1, <1>2, LoopSame
  <1>6. JobTypes' /\ DoneMeansApplied' /\ ShownKept'
    BY <1>1, <1>2, JobsStay
  <1>7. JobsKept'
    BY <1>1, <1>2 DEF JobsKept, JobTypes, ClientTypes, SlowOps, Jobs
  <1>8. PitchTypes'
    BY <1>1, <1>2, <1>3 DEF PitchTypes, UpdateUnderWay
  <1>9. StagedIsShown'
    BY <1>1, <1>2, <1>3 DEF StagedIsShown, UpdateUnderWay
  <1>10. PitchReachesEngine'
    BY <1>1, <1>2, <1>3 DEF PitchReachesEngine, UpdateUnderWay, StagedIsShown
  <1> QED
    BY <1>4, <1>5, <1>6, <1>7, <1>8, <1>9, <1>10, PartsNext

\* The key that quits.
LEMMA KeyQuitKeeps ==
  ASSUME Parts, KeyQuit
  PROVE  Parts'
  <1> USE ControlAssumption DEF Quitting,
      appVars, socketVars, clientVars, jobVars, engineVars, swapVars, pitchVars
  <1>1. /\ LoopTypes /\ QuitKept /\ ExitsStopped /\ ClientTypes /\ LoopKept
        /\ JobTypes /\ DoneMeansApplied /\ ShownKept /\ JobsKept
        /\ PitchTypes /\ StagedIsShown /\ PitchReachesEngine
    BY DEF Parts
  <1>2. /\ starter = "nobody"
        /\ \/ app' = app /\ stopping' = stopping
           \/ app' = "stopping" /\ stopping' = [stopping EXCEPT !["quit"] = "asked"]
        /\ UNCHANGED <<inbox, starter, socketVars, clientVars, jobVars, running, stopEvent, swapVars, pitchVars, engineVoice>>
    BY DEF KeyQuit, Pressed, LoopFree, BeginQuit
  <1>3. LoopTypes'
    BY <1>1, <1>2 DEF LoopTypes
  <1>4. QuitKept'
    BY <1>1, <1>2 DEF QuitKept, LoopTypes
  <1>5. ExitsStopped'
    BY <1>1, <1>2 DEF ExitsStopped, QuitKept, LoopTypes
  <1>6. ClientTypes' /\ LoopKept'
    BY <1>1, <1>2, LoopSame
  <1>7. JobTypes' /\ DoneMeansApplied' /\ ShownKept'
    BY <1>1, <1>2, JobsStay
  <1>8. JobsKept'
    BY <1>1, <1>2 DEF JobsKept, JobTypes, ClientTypes, SlowOps, Jobs
  <1>9. PitchTypes' /\ StagedIsShown' /\ PitchReachesEngine'
    BY <1>1, <1>2, PitchStays
  <1> QED
    BY <1>3, <1>4, <1>5, <1>6, <1>7, <1>8, <1>9, PartsNext

\* The key that submits a job for a profile.
LEMMA KeyProfileKeeps ==
  ASSUME Parts, KeyProfile
  PROVE  Parts'
  <1> USE ControlAssumption DEF Quitting,
      appVars, socketVars, clientVars, jobVars, engineVars, swapVars, pitchVars
  <1>1. /\ LoopTypes /\ QuitKept /\ ExitsStopped /\ ClientTypes /\ LoopKept
        /\ JobTypes /\ DoneMeansApplied /\ ShownKept /\ JobsKept
        /\ PitchTypes /\ StagedIsShown /\ PitchReachesEngine
    BY DEF Parts
  <1>2. /\ job[KeyJob] \in {"none", "ended"} /\ req[KeyJob] # "queued" /\ KeyJob \in Jobs
        /\ inbox' = inbox /\ app' = app /\ conn' = conn /\ cmd' = cmd /\ starter' = starter
        /\ UNCHANGED <<socketVars, clientVars, inFlight, engineVars, swapQ, pitchVars, engineVoice>>
        /\ \E p \in Profiles : work' = [work EXCEPT ![KeyJob] = <<"PROFILE", p>>]
        /\ job' = [job EXCEPT ![KeyJob] = "submitted"]
        /\ entry' = [entry EXCEPT ![KeyJob] = "pending"]
        /\ req' = [req EXCEPT ![KeyJob] = "none"]
    BY DEF KeyProfile, Pressed, Jobs
  <1>3. /\ job'[KeyJob] = "submitted" /\ entry'[KeyJob] = "pending" /\ req'[KeyJob] = "none"
        /\ work'[KeyJob][1] = "PROFILE"
        /\ \A x \in Jobs \ {KeyJob} : job'[x] = job[x] /\ entry'[x] = entry[x] /\ req'[x] = req[x] /\ work'[x] = work[x]
        /\ \A c \in Clients : c \in Jobs \ {KeyJob}
    BY <1>1, <1>2 DEF JobTypes, Jobs
  <1>4. LoopTypes' /\ QuitKept' /\ ExitsStopped'
    BY <1>1, <1>2, QuitStays
  <1>5. ClientTypes'
    BY <1>1, <1>2 DEF ClientTypes
  <1>6. LoopKept'
    <2>1. inbox \in Seq(Posts) /\ LoopFits(inbox, conn, cmd, job, starter)
      BY <1>1 DEF LoopKept, ClientTypes
    <2>2. \A x \in Clients : \/ conn[x] = conn[x] /\ cmd[x] = cmd[x]
                             \/ /\ conn[x] # "waiting" /\ conn[x] # "waiting"
                                /\ cmd[x][1] = "PITCH" => cmd[x][2] \in Int
      BY <1>2, <1>3
    <2>3. \A x \in Jobs : job'[x] = job[x] \/ job[x] # "posted"
      BY <1>2, <1>3
    <2>4. LoopFits(inbox, conn, cmd, job', starter)
      BY <2>1, <2>2, <2>3, LoopStays
    <2> QED
      BY <1>2, <2>4 DEF LoopKept
  <1>7. JobTypes'
    BY <1>1, <1>2 DEF JobTypes
  <1>8. DoneMeansApplied'
    BY <1>1, <1>2 DEF DoneMeansApplied, JobsKept, JobTypes
  <1>9. ShownKept'
    BY <1>1, <1>2, ShownStays DEF JobTypes, JobsKept, Jobs
  <1>10. JobsKept'
    <2>1. \A k \in 1..Len(swapQ) : swapQ[k] \in Jobs \ {KeyJob}
      BY <1>1, <1>2 DEF JobsKept, JobTypes
    <2> QED
      BY <1>1, <1>2, <1>3, <2>1 DEF JobsKept
  <1>11. PitchTypes' /\ StagedIsShown' /\ PitchReachesEngine'
    BY <1>1, <1>2, PitchStays
  <1> QED
    BY <1>4, <1>5, <1>6, <1>7, <1>8, <1>9, <1>10,
       <1>11, PartsNext

\* The thread of a toggle posts its toast.
LEMMA BackgroundStoppedKeeps ==
  ASSUME Parts, BackgroundStopped
  PROVE  Parts'
  <1> USE ControlAssumption DEF Quitting,
      appVars, socketVars, clientVars, jobVars, engineVars, swapVars, pitchVars
  <1>1. /\ LoopTypes /\ QuitKept /\ ExitsStopped /\ ClientTypes /\ LoopKept
        /\ JobTypes /\ DoneMeansApplied /\ ShownKept /\ JobsKept
        /\ PitchTypes /\ StagedIsShown /\ PitchReachesEngine
    BY DEF Parts
  <1>2. /\ stopping' = [stopping EXCEPT !["toggle"] = "posted"] /\ stopping["toggle"] = "returned"
        /\ inbox' = Append(inbox, <<"STOPPED", "toggle">>) /\ app' = app /\ conn' = conn /\ cmd' = cmd
        /\ job' = job /\ starter' = starter
        /\ UNCHANGED <<socketVars, clientVars, jobVars, running, stopEvent, swapVars, pitchVars, engineVoice>>
    BY DEF BackgroundStopped
  <1>3. <<"STOPPED", "toggle">> \in Posts
    BY DEF Posts
  <1>4. LoopTypes'
    BY <1>1, <1>2 DEF LoopTypes
  <1>5. QuitKept'
    BY <1>1, <1>2 DEF QuitKept, LoopTypes
  <1>6. ExitsStopped'
    BY <1>1, <1>2 DEF ExitsStopped, QuitKept, LoopTypes
  <1>7. ClientTypes'
    BY <1>1, <1>2, <1>3, AppendIs DEF ClientTypes
  <1>8. LoopKept'
    <2> DEFINE p == <<"STOPPED", "toggle">>
    <2>1. inbox \in Seq(Posts) /\ LoopFits(inbox, conn, cmd, job, starter)
      BY <1>1 DEF LoopKept, ClientTypes
    <2>2. p \in Posts /\ p[1] \in {"LATER", "STOPPED"}
      BY <1>3
    <2> HIDE DEF p
    <2>3. LoopFits(Append(inbox, p), conn, cmd, job, starter)
      BY <2>1, <2>2, LoopPosts
    <2> QED
      BY <1>2, <2>3 DEF LoopKept, p
  <1>9. JobTypes' /\ DoneMeansApplied' /\ ShownKept'
    BY <1>1, <1>2, JobsStay
  <1>10. JobsKept'
    BY <1>1, <1>2 DEF JobsKept, JobTypes, ClientTypes, SlowOps, Jobs
  <1>11. PitchTypes' /\ StagedIsShown' /\ PitchReachesEngine'
    BY <1>1, <1>2, PitchStays
  <1> QED
    BY <1>4, <1>5, <1>6, <1>7, <1>8, <1>9, <1>10,
       <1>11, PartsNext

\* A client connects, or finds nobody there.
LEMMA ConnectKeeps ==
  ASSUME Parts, NEW c \in Clients, Connect(c)
  PROVE  Parts'
  <1> USE ControlAssumption DEF Quitting,
      appVars, socketVars, clientVars, jobVars, engineVars, swapVars, pitchVars
  <1>1. /\ LoopTypes /\ QuitKept /\ ExitsStopped /\ ClientTypes /\ LoopKept
        /\ JobTypes /\ DoneMeansApplied /\ ShownKept /\ JobsKept
        /\ PitchTypes /\ StagedIsShown /\ PitchReachesEngine
    BY DEF Parts
  <1>2. /\ conn[c] = "idle" /\ inbox' = inbox /\ app' = app /\ job' = job /\ starter' = starter
        /\ UNCHANGED <<appVars, socketVars, jobVars, engineVars, swapVars, pitchVars, engineVoice>>
        /\ \E m \in Commands[c] : cmd' = [cmd EXCEPT ![c] = m]
        /\ \E s \in {"backlog", "closed"} : conn' = [conn EXCEPT ![c] = s]
    BY DEF Connect
  <1>3. /\ conn' \in [Clients -> {"idle", "backlog", "queued", "waiting", "closed"}] /\ DOMAIN cmd' = Clients
        /\ conn'[c] \in {"backlog", "closed"} /\ cmd'[c] \in Commands[c]
        /\ \A x \in Clients \ {c} : conn'[x] = conn[x] /\ cmd'[x] = cmd[x]
    BY <1>1, <1>2 DEF ClientTypes
  <1>4. cmd'[c][1] = "PITCH" => cmd'[c][2] \in Int
    BY <1>3
  <1>5. LoopTypes' /\ QuitKept' /\ ExitsStopped'
    BY <1>1, <1>2, QuitStays
  <1>6. ClientTypes'
    BY <1>1, <1>2 DEF ClientTypes
  <1>7. LoopKept'
    <2>1. inbox \in Seq(Posts) /\ LoopFits(inbox, conn, cmd, job, starter)
      BY <1>1 DEF LoopKept, ClientTypes
    <2>2. \A x \in Clients : \/ conn'[x] = conn[x] /\ cmd'[x] = cmd[x]
                             \/ /\ conn[x] # "waiting" /\ conn'[x] # "waiting"
                                /\ cmd'[x][1] = "PITCH" => cmd'[x][2] \in Int
      BY <1>2, <1>3, <1>4
    <2>3. \A x \in Jobs : job[x] = job[x] \/ job[x] # "posted"
      BY <1>2, <1>3, <1>4
    <2>4. LoopFits(inbox, conn', cmd', job, starter)
      BY <2>1, <2>2, <2>3, LoopStays
    <2> QED
      BY <1>2, <2>4 DEF LoopKept
  <1>8. JobTypes' /\ DoneMeansApplied' /\ ShownKept'
    BY <1>1, <1>2, JobsStay
  <1>9. JobsKept'
    BY <1>1, <1>2 DEF JobsKept, JobTypes, ClientTypes, SlowOps, Jobs
  <1>10. PitchTypes' /\ StagedIsShown' /\ PitchReachesEngine'
    BY <1>1, <1>2, PitchStays
  <1> QED
    BY <1>5, <1>6, <1>7, <1>8, <1>9, <1>10, PartsNext

\* A client asks for its job's state.
LEMMA PollKeeps ==
  ASSUME Parts, NEW c \in Clients, Poll(c)
  PROVE  Parts'
  <1> USE ControlAssumption DEF Quitting,
      appVars, socketVars, clientVars, jobVars, engineVars, swapVars, pitchVars
  <1>1. /\ LoopTypes /\ QuitKept /\ ExitsStopped /\ ClientTypes /\ LoopKept
        /\ JobTypes /\ DoneMeansApplied /\ ShownKept /\ JobsKept
        /\ PitchTypes /\ StagedIsShown /\ PitchReachesEngine
    BY DEF Parts
  <1>2. /\ conn[c] = "closed" /\ inbox' = inbox /\ app' = app /\ job' = job /\ starter' = starter
        /\ UNCHANGED <<appVars, socketVars, jobVars, engineVars, swapVars, pitchVars, engineVoice>>
        /\ cmd' = [cmd EXCEPT ![c] = <<"JOB", NoVoice>>]
        /\ \E s \in {"backlog", "closed"} : conn' = [conn EXCEPT ![c] = s]
    <2>1. conn = [conn EXCEPT ![c] = conn[c]]
      BY <1>1 DEF ClientTypes
    <2> QED
      BY <2>1 DEF Poll
  <1>3. /\ conn' \in [Clients -> {"idle", "backlog", "queued", "waiting", "closed"}] /\ DOMAIN cmd' = Clients
        /\ conn'[c] \in {"backlog", "closed"} /\ cmd'[c][1] = "JOB"
        /\ \A x \in Clients \ {c} : conn'[x] = conn[x] /\ cmd'[x] = cmd[x]
    BY <1>1, <1>2 DEF ClientTypes
  <1>4. LoopTypes' /\ QuitKept' /\ ExitsStopped'
    BY <1>1, <1>2, QuitStays
  <1>5. ClientTypes'
    BY <1>1, <1>2 DEF ClientTypes
  <1>6. LoopKept'
    <2>1. inbox \in Seq(Posts) /\ LoopFits(inbox, conn, cmd, job, starter)
      BY <1>1 DEF LoopKept, ClientTypes
    <2>2. \A x \in Clients : \/ conn'[x] = conn[x] /\ cmd'[x] = cmd[x]
                             \/ /\ conn[x] # "waiting" /\ conn'[x] # "waiting"
                                /\ cmd'[x][1] = "PITCH" => cmd'[x][2] \in Int
      BY <1>2, <1>3
    <2>3. \A x \in Jobs : job[x] = job[x] \/ job[x] # "posted"
      BY <1>2, <1>3
    <2>4. LoopFits(inbox, conn', cmd', job, starter)
      BY <2>1, <2>2, <2>3, LoopStays
    <2> QED
      BY <1>2, <2>4 DEF LoopKept
  <1>7. JobTypes' /\ DoneMeansApplied' /\ ShownKept'
    BY <1>1, <1>2, JobsStay
  <1>8. JobsKept'
    BY <1>1, <1>2 DEF JobsKept, JobTypes, ClientTypes, SlowOps, Jobs
  <1>9. PitchTypes' /\ StagedIsShown' /\ PitchReachesEngine'
    BY <1>1, <1>2, PitchStays
  <1> QED
    BY <1>4, <1>5, <1>6, <1>7, <1>8, <1>9, PartsNext

\* The listener hands a connection to the pool.
LEMMA AcceptKeeps ==
  ASSUME Parts, NEW c \in Clients, Accept(c)
  PROVE  Parts'
  <1> USE ControlAssumption DEF Quitting,
      appVars, socketVars, clientVars, jobVars, engineVars, swapVars, pitchVars
  <1>1. /\ LoopTypes /\ QuitKept /\ ExitsStopped /\ ClientTypes /\ LoopKept
        /\ JobTypes /\ DoneMeansApplied /\ ShownKept /\ JobsKept
        /\ PitchTypes /\ StagedIsShown /\ PitchReachesEngine
    BY DEF Parts
  <1>2. /\ conn[c] = "backlog" /\ inbox' = inbox /\ app' = app /\ job' = job /\ starter' = starter
        /\ UNCHANGED <<appVars, socketVars, cmd, jobVars, engineVars, swapVars, pitchVars, engineVoice>>
        /\ conn' = [conn EXCEPT ![c] = "queued"] /\ cmd' = cmd
    BY DEF Accept
  <1>3. /\ conn' \in [Clients -> {"idle", "backlog", "queued", "waiting", "closed"}]
        /\ conn'[c] = "queued" /\ \A x \in Clients \ {c} : conn'[x] = conn[x]
    BY <1>1, <1>2 DEF ClientTypes
  <1>4. LoopTypes' /\ QuitKept' /\ ExitsStopped'
    BY <1>1, <1>2, QuitStays
  <1>5. ClientTypes'
    BY <1>1, <1>2 DEF ClientTypes
  <1>6. LoopKept'
    <2>1. inbox \in Seq(Posts) /\ LoopFits(inbox, conn, cmd, job, starter)
      BY <1>1 DEF LoopKept, ClientTypes
    <2>2. \A x \in Clients : \/ conn'[x] = conn[x] /\ cmd[x] = cmd[x]
                             \/ /\ conn[x] # "waiting" /\ conn'[x] # "waiting"
                                /\ cmd[x][1] = "PITCH" => cmd[x][2] \in Int
      BY <1>1, <1>2, <1>3 DEF LoopKept, LoopFits, CommandsFit
    <2>3. \A x \in Jobs : job[x] = job[x] \/ job[x] # "posted"
      BY <1>1, <1>2, <1>3 DEF LoopKept, LoopFits, CommandsFit
    <2>4. LoopFits(inbox, conn', cmd, job, starter)
      BY <2>1, <2>2, <2>3, LoopStays
    <2> QED
      BY <1>2, <2>4 DEF LoopKept
  <1>7. JobTypes' /\ DoneMeansApplied' /\ ShownKept'
    BY <1>1, <1>2, JobsStay
  <1>8. JobsKept'
    BY <1>1, <1>2 DEF JobsKept, JobTypes, ClientTypes, SlowOps, Jobs
  <1>9. PitchTypes' /\ StagedIsShown' /\ PitchReachesEngine'
    BY <1>1, <1>2, PitchStays
  <1> QED
    BY <1>4, <1>5, <1>6, <1>7, <1>8, <1>9, PartsNext

\* action_quit goes on when the engine is down.
LEMMA QuitStoppedKeeps ==
  ASSUME Parts, QuitStopped
  PROVE  Parts'
  <1> USE ControlAssumption DEF QuitStopped, LoopFree, Quitting,
      appVars, socketVars, clientVars, jobVars, engineVars, swapVars, pitchVars
  <1>1. /\ LoopTypes /\ QuitKept /\ ExitsStopped /\ ClientTypes /\ LoopKept
        /\ JobTypes /\ DoneMeansApplied /\ ShownKept /\ JobsKept
        /\ PitchTypes /\ StagedIsShown /\ PitchReachesEngine
    BY DEF Parts
  <1>2. LoopTypes'
    BY <1>1 DEF LoopTypes
  <1>3. QuitKept'
    BY <1>1 DEF QuitKept, LoopTypes
  <1>4. ExitsStopped'
    BY <1>1 DEF ExitsStopped, QuitKept, LoopTypes
  <1>5. ClientTypes' /\ LoopKept'
    BY <1>1, LoopSame
  <1>6. JobTypes' /\ DoneMeansApplied' /\ ShownKept'
    BY <1>1, JobsStay
  <1>7. JobsKept'
    BY <1>1 DEF JobsKept, JobTypes, ClientTypes, SlowOps, Jobs
  <1>8. PitchTypes' /\ StagedIsShown' /\ PitchReachesEngine'
    BY <1>1, PitchStays
  <1> QED
    BY <1>2, <1>3, <1>4, <1>5, <1>6, <1>7, <1>8, PartsNext

\* The control socket is closed.
LEMMA QuitClosedKeeps ==
  ASSUME Parts, QuitClosed
  PROVE  Parts'
  <1> USE ControlAssumption DEF QuitClosed, LoopFree, Quitting,
      appVars, socketVars, clientVars, jobVars, engineVars, swapVars, pitchVars
  <1>1. /\ LoopTypes /\ QuitKept /\ ExitsStopped /\ ClientTypes /\ LoopKept
        /\ JobTypes /\ DoneMeansApplied /\ ShownKept /\ JobsKept
        /\ PitchTypes /\ StagedIsShown /\ PitchReachesEngine
    BY DEF Parts
  <1>2. LoopTypes'
    BY <1>1 DEF LoopTypes
  <1>3. QuitKept'
    BY <1>1 DEF QuitKept, LoopTypes
  <1>4. ExitsStopped'
    BY <1>1 DEF ExitsStopped, QuitKept, LoopTypes
  <1>5. ClientTypes' /\ LoopKept'
    BY <1>1, LoopSame
  <1>6. JobTypes' /\ DoneMeansApplied' /\ ShownKept'
    BY <1>1, JobsStay
  <1>7. JobsKept'
    BY <1>1 DEF JobsKept, JobTypes, ClientTypes, SlowOps, Jobs
  <1>8. PitchTypes' /\ StagedIsShown' /\ PitchReachesEngine'
    BY <1>1, PitchStays
  <1> QED
    BY <1>2, <1>3, <1>4, <1>5, <1>6, <1>7, <1>8, PartsNext

\* The configuration is saved, the instance lock left.
LEMMA QuitExitsKeeps ==
  ASSUME Parts, QuitExits
  PROVE  Parts'
  <1> USE ControlAssumption DEF QuitExits, LoopFree, Quitting,
      appVars, socketVars, clientVars, jobVars, engineVars, swapVars, pitchVars
  <1>1. /\ LoopTypes /\ QuitKept /\ ExitsStopped /\ ClientTypes /\ LoopKept
        /\ JobTypes /\ DoneMeansApplied /\ ShownKept /\ JobsKept
        /\ PitchTypes /\ StagedIsShown /\ PitchReachesEngine
    BY DEF Parts
  <1>2. LoopTypes'
    BY <1>1 DEF LoopTypes
  <1>3. QuitKept'
    BY <1>1 DEF QuitKept, LoopTypes
  <1>4. ExitsStopped'
    BY <1>1 DEF ExitsStopped, QuitKept, LoopTypes
  <1>5. ClientTypes' /\ LoopKept'
    BY <1>1, LoopSame
  <1>6. JobTypes' /\ DoneMeansApplied' /\ ShownKept'
    BY <1>1, JobsStay
  <1>7. JobsKept'
    BY <1>1 DEF JobsKept, JobTypes, ClientTypes, SlowOps, Jobs
  <1>8. PitchTypes' /\ StagedIsShown' /\ PitchReachesEngine'
    BY <1>1, PitchStays
  <1> QED
    BY <1>2, <1>3, <1>4, <1>5, <1>6, <1>7, <1>8, PartsNext

\* A request that is answered at once, and changes nothing else.
LEMMA AnsweredKeeps ==
  ASSUME Parts, NEW c \in Clients, NEW r, conn[c] = "queued", Answer(c, r),
         UNCHANGED <<appVars, socketVars, jobVars, engineVars, swapVars, pitchVars, engineVoice>>
  PROVE  Parts'
  <1> USE ControlAssumption DEF Quitting,
      appVars, socketVars, clientVars, jobVars, engineVars, swapVars, pitchVars
  <1>1. /\ LoopTypes /\ QuitKept /\ ExitsStopped /\ ClientTypes /\ LoopKept
        /\ JobTypes /\ DoneMeansApplied /\ ShownKept /\ JobsKept
        /\ PitchTypes /\ StagedIsShown /\ PitchReachesEngine
    BY DEF Parts
  <1>2. /\ inbox' = inbox /\ app' = app /\ job' = job /\ starter' = starter /\ conn[c] = "queued"
        /\ UNCHANGED <<appVars, socketVars, jobVars, engineVars, swapVars, pitchVars, engineVoice>>
        /\ Answer(c, r)
    OBVIOUS
  <1>3. /\ IsAnswered(c, conn, cmd, conn', cmd') /\ DOMAIN cmd' = Clients
        /\ conn' \in [Clients -> {"idle", "backlog", "queued", "waiting", "closed"}]
        /\ \A x \in Clients : conn'[x] = "idle" => conn[x] = "idle"
        /\ \A x \in Clients : conn'[x] # "closed" => conn[x] # "closed" /\ cmd'[x] = cmd[x]
    BY <1>1, <1>2, AnswerIs
  <1>4. LoopTypes' /\ QuitKept' /\ ExitsStopped'
    BY <1>1, <1>2, QuitStays
  <1>5. ClientTypes'
    BY <1>1, <1>2, <1>3 DEF ClientTypes
  <1>6. LoopKept'
    <2>1. inbox \in Seq(Posts) /\ LoopFits(inbox, conn, cmd, job, starter)
      BY <1>1 DEF LoopKept, ClientTypes
    <2>2. \A x \in Clients : \/ conn'[x] = conn[x] /\ cmd'[x] = cmd[x]
                             \/ /\ conn[x] # "waiting" /\ conn'[x] # "waiting"
                                /\ cmd'[x][1] = "PITCH" => cmd'[x][2] \in Int
      BY <1>2, <1>3 DEF IsAnswered
    <2>3. \A x \in Jobs : job[x] = job[x] \/ job[x] # "posted"
      BY <1>2, <1>3 DEF IsAnswered
    <2>4. LoopFits(inbox, conn', cmd', job, starter)
      BY <2>1, <2>2, <2>3, LoopStays
    <2> QED
      BY <1>2, <2>4 DEF LoopKept
  <1>7. JobTypes' /\ DoneMeansApplied' /\ ShownKept'
    BY <1>1, <1>2, JobsStay
  <1>8. JobsKept'
    BY <1>1, <1>2, <1>3 DEF JobsKept, JobTypes, ClientTypes, SlowOps, Jobs
  <1>9. PitchTypes' /\ StagedIsShown' /\ PitchReachesEngine'
    BY <1>1, <1>2, PitchStays
  <1> QED
    BY <1>4, <1>5, <1>6, <1>7, <1>8, <1>9, PartsNext

LEMMA ServesKeep ==
  ASSUME Parts, NEW c \in Clients, ServeBad(c) \/ ServeQuitting(c) \/ ServeUnknownModel(c) \/ ServeRead(c)
  PROVE  Parts'
  <1>1. \E r : /\ conn[c] = "queued" /\ Answer(c, r)
               /\ UNCHANGED <<appVars, socketVars, jobVars, engineVars, swapVars, pitchVars, engineVoice>>
    BY Zenon DEF ServeBad, ServeQuitting, ServeUnknownModel, ServeRead, Taken
  <1> QED
    BY <1>1, AnsweredKeeps

\* A request that the event loop has to serve.
LEMMA ServePostsKeeps ==
  ASSUME Parts, NEW c \in Clients, ServePosts(c)
  PROVE  Parts'
  <1> USE ControlAssumption DEF Quitting,
      appVars, socketVars, clientVars, jobVars, engineVars, swapVars, pitchVars
  <1>1. /\ LoopTypes /\ QuitKept /\ ExitsStopped /\ ClientTypes /\ LoopKept
        /\ JobTypes /\ DoneMeansApplied /\ ShownKept /\ JobsKept
        /\ PitchTypes /\ StagedIsShown /\ PitchReachesEngine
    BY DEF Parts
  <1>2. /\ cmd[c][1] \in Awaiting /\ conn[c] = "queued" /\ cmd' = cmd /\ job' = job
        /\ conn' = [conn EXCEPT ![c] = "waiting"] /\ inbox' = Append(inbox, <<cmd[c][1], c>>)
        /\ app' = app /\ starter' = starter
        /\ UNCHANGED <<socketVars, cmd, jobVars, engineVars, swapVars, pitchVars, engineVoice>>
    BY DEF ServePosts, Taken, Awaiting
  <1>3. <<cmd[c][1], c>> \in Posts
    BY <1>2 DEF Posts, Awaiting
  <1>4. /\ conn' \in [Clients -> {"idle", "backlog", "queued", "waiting", "closed"}]
        /\ conn'[c] = "waiting" /\ \A x \in Clients \ {c} : conn'[x] = conn[x]
    BY <1>1, <1>2 DEF ClientTypes
  <1>5. LoopTypes' /\ QuitKept' /\ ExitsStopped'
    BY <1>1, <1>2, QuitStays
  <1>6. ClientTypes'
    BY <1>1, <1>2, <1>3, <1>4, AppendIs DEF ClientTypes
  <1>7. LoopKept'
    <2> DEFINE p == <<cmd[c][1], c>>
                cn == conn'
    <2>1. inbox \in Seq(Posts) /\ LoopFits(inbox, conn, cmd, job, starter)
      BY <1>1 DEF LoopKept, ClientTypes
    <2>2. /\ p \in Posts /\ p[1] \in Awaiting /\ cmd[p[2]][1] = p[1]
          /\ conn[p[2]] = "queued" /\ cn[p[2]] = "waiting"
          /\ \A x \in Clients \ {p[2]} : cn[x] = conn[x]
      BY <1>2, <1>3, <1>4
    <2> HIDE DEF p, cn
    <2>3. LoopFits(Append(inbox, p), cn, cmd, job, starter)
      BY <2>1, <2>2, LoopPosts
    <2> QED
      BY <1>2, <2>3 DEF LoopKept, p, cn
  <1>8. JobTypes' /\ DoneMeansApplied' /\ ShownKept'
    BY <1>1, <1>2, JobsStay
  <1>9. JobsKept'
    BY <1>1, <1>2, <1>4 DEF JobsKept, SlowOps, Awaiting
  <1>10. PitchTypes' /\ StagedIsShown' /\ PitchReachesEngine'
    BY <1>1, <1>2, PitchStays
  <1> QED
    BY <1>5, <1>6, <1>7, <1>8, <1>9, <1>10, PartsNext

\* A job is submitted for a client.
LEMMA ServeSlowKeeps ==
  ASSUME Parts, NEW c \in Clients, ServeSlow(c)
  PROVE  Parts'
  <1> USE ControlAssumption DEF Quitting,
      appVars, socketVars, clientVars, jobVars, engineVars, swapVars, pitchVars
  <1>1. /\ LoopTypes /\ QuitKept /\ ExitsStopped /\ ClientTypes /\ LoopKept
        /\ JobTypes /\ DoneMeansApplied /\ ShownKept /\ JobsKept
        /\ PitchTypes /\ StagedIsShown /\ PitchReachesEngine
    BY DEF Parts
  <1>2. /\ inbox' = inbox /\ app' = app /\ starter' = starter /\ conn[c] = "queued"
        /\ cmd[c][1] \in SlowOps /\ (cmd[c][1] = "MODEL" => cmd[c][2] \in Voices) /\ Answer(c, "job")
        /\ job' = [job EXCEPT ![c] = "submitted"] /\ work' = [work EXCEPT ![c] = cmd[c]]
        /\ UNCHANGED <<appVars, socketVars, inFlight, engineVars, swapVars, pitchVars, engineVoice>>
    BY DEF ServeSlow, Taken
  <1>3. /\ IsAnswered(c, conn, cmd, conn', cmd') /\ DOMAIN cmd' = Clients
        /\ conn' \in [Clients -> {"idle", "backlog", "queued", "waiting", "closed"}]
        /\ \A x \in Clients : conn'[x] = "idle" => conn[x] = "idle"
        /\ \A x \in Clients : conn'[x] # "closed" => conn[x] # "closed" /\ cmd'[x] = cmd[x]
    BY <1>1, <1>2, AnswerIs
  <1>4. c \in Jobs /\ job[c] = "none" /\ req[c] = "none"
    BY <1>1, <1>2 DEF JobsKept, Jobs
  <1>5. /\ job' \in [Jobs -> {"none", "submitted", "posted", "awaiting", "ended"}] /\ DOMAIN work' = Jobs
        /\ entry' \in [Jobs -> {"none", "pending", "running", "done", "error"}]
        /\ job'[c] = "submitted" /\ work'[c] = cmd[c] /\ entry'[c] = "pending"
        /\ \A x \in Jobs \ {c} : /\ job'[x] = job[x] /\ work'[x] = work[x]
                                 /\ entry'[x] = entry[x] \/ entry'[x] = "none"
    <2>1. PICK old \in SUBSET Finished :
           entry' = [j \in Jobs |-> IF j = c THEN "pending" ELSE IF j \in old THEN "none" ELSE entry[j]]
      BY DEF ServeSlow
    <2>2. /\ entry' \in [Jobs -> {"none", "pending", "running", "done", "error"}] /\ entry'[c] = "pending"
          /\ \A x \in Jobs \ {c} : entry'[x] = entry[x] \/ entry'[x] = "none"
      BY <1>1, <1>4, <2>1 DEF JobTypes
    <2>3. /\ job' \in [Jobs -> {"none", "submitted", "posted", "awaiting", "ended"}] /\ DOMAIN work' = Jobs
          /\ job'[c] = "submitted" /\ work'[c] = cmd[c]
          /\ \A x \in Jobs \ {c} : job'[x] = job[x] /\ work'[x] = work[x]
      BY <1>1, <1>2, <1>4 DEF JobTypes
    <2> QED
      BY <2>2, <2>3
  <1>6. LoopTypes' /\ QuitKept' /\ ExitsStopped'
    BY <1>1, <1>2, QuitStays
  <1>7. ClientTypes'
    BY <1>1, <1>2, <1>3, <1>4, <1>5 DEF ClientTypes
  <1>8. LoopKept'
    <2>1. inbox \in Seq(Posts) /\ LoopFits(inbox, conn, cmd, job, starter)
      BY <1>1 DEF LoopKept, ClientTypes
    <2>2. \A x \in Clients : \/ conn'[x] = conn[x] /\ cmd'[x] = cmd[x]
                             \/ /\ conn[x] # "waiting" /\ conn'[x] # "waiting"
                                /\ cmd'[x][1] = "PITCH" => cmd'[x][2] \in Int
      BY <1>2, <1>3, <1>4, <1>5 DEF IsAnswered
    <2>3. \A x \in Jobs : job'[x] = job[x] \/ job[x] # "posted"
      BY <1>2, <1>3, <1>4, <1>5 DEF IsAnswered
    <2>4. LoopFits(inbox, conn', cmd', job', starter)
      BY <2>1, <2>2, <2>3, LoopStays
    <2> QED
      BY <1>2, <2>4 DEF LoopKept
  <1>9. JobTypes'
    BY <1>1, <1>2, <1>3, <1>4, <1>5 DEF JobTypes
  <1>10. DoneMeansApplied'
    BY <1>1, <1>2, <1>4, <1>5 DEF DoneMeansApplied
  <1>11. ShownKept'
    BY <1>1, <1>2, <1>4, <1>5, ShownStays
  <1>12. JobsKept'
    <2>1. \A x \in Clients : conn'[x] = "idle" \/ (conn'[x] # "closed" /\ cmd'[x][1] \in SlowOps)
                         => job'[x] = "none"
      <3>1. conn'[c] = "closed" /\ \A x \in Clients : x \in Jobs
        BY <1>3 DEF IsAnswered, Jobs
      <3>2. ASSUME NEW x \in Clients, x # c, conn'[x] = "idle" \/ (conn'[x] # "closed" /\ cmd'[x][1] \in SlowOps)
            PROVE  job'[x] = "none"
        <4>1. conn[x] = "idle" \/ (conn[x] # "closed" /\ cmd[x][1] \in SlowOps)
          BY <1>3, <3>2
        <4> QED
          BY <1>1, <1>5, <3>1, <3>2, <4>1 DEF JobsKept
      <3> QED
        BY <3>1, <3>2
    <2>2. swapQ' = swapQ /\ req' = req
      BY <1>2
    <2> QED
      BY <1>1, <1>2, <1>4, <1>5, <2>1, <2>2 DEF JobsKept
  <1>13. PitchTypes' /\ StagedIsShown' /\ PitchReachesEngine'
    BY <1>1, <1>2, PitchStays
  <1> QED
    BY <1>6, <1>7, <1>8, <1>9, <1>10, <1>11, <1>12,
       <1>13, PartsNext

\* A job shows its target and posts its callback.
LEMMA JobBeginsKeeps ==
  ASSUME Parts, NEW j \in Jobs, JobBegins(j)
  PROVE  Parts'
  <1> USE ControlAssumption DEF Quitting,
      appVars, socketVars, clientVars, jobVars, engineVars, swapVars, pitchVars
  <1>1. /\ LoopTypes /\ QuitKept /\ ExitsStopped /\ ClientTypes /\ LoopKept
        /\ JobTypes /\ DoneMeansApplied /\ ShownKept /\ JobsKept
        /\ PitchTypes /\ StagedIsShown /\ PitchReachesEngine
    BY DEF Parts
  <1>2. /\ job[j] = "submitted" /\ job' = [job EXCEPT ![j] = "posted"] /\ entry' = [entry EXCEPT ![j] = "running"]
        /\ inFlight' = Append(inFlight, Target(j)) /\ inbox' = Append(inbox, <<"APPLY", j>>)
        /\ app' = app /\ starter' = starter /\ conn' = conn /\ cmd' = cmd
        /\ UNCHANGED <<socketVars, clientVars, work, engineVars, swapVars, pitchVars, engineVoice>>
    BY DEF JobBegins
  <1>3. <<"APPLY", j>> \in Posts
    BY DEF Posts
  <1>4. /\ job' \in [Jobs -> {"none", "submitted", "posted", "awaiting", "ended"}]
        /\ entry' \in [Jobs -> {"none", "pending", "running", "done", "error"}]
        /\ job'[j] = "posted" /\ entry'[j] = "running"
        /\ \A x \in Jobs \ {j} : job'[x] = job[x] /\ entry'[x] = entry[x]
    BY <1>1, <1>2 DEF JobTypes
  <1>5. LoopTypes' /\ QuitKept' /\ ExitsStopped'
    BY <1>1, <1>2, QuitStays
  <1>6. ClientTypes'
    BY <1>1, <1>2, <1>3, AppendIs DEF ClientTypes
  <1>7. LoopKept'
    <2> DEFINE p == <<"APPLY", j>>
                jb == job'
    <2>1. inbox \in Seq(Posts) /\ LoopFits(inbox, conn, cmd, job, starter)
      BY <1>1 DEF LoopKept, ClientTypes
    <2>2. /\ p \in Posts /\ p[1] = "APPLY"
          /\ job[p[2]] = "submitted" /\ jb[p[2]] = "posted"
          /\ \A x \in Jobs \ {p[2]} : jb[x] = job[x]
      BY <1>2, <1>3, <1>4
    <2> HIDE DEF p, jb
    <2>3. LoopFits(Append(inbox, p), conn, cmd, jb, starter)
      BY <2>1, <2>2, LoopPosts
    <2> QED
      BY <1>2, <2>3 DEF LoopKept, p, jb
  <1>8. JobTypes'
    BY <1>1, <1>2 DEF JobTypes
  <1>9. DoneMeansApplied'
    BY <1>1, <1>2, <1>4 DEF DoneMeansApplied
  <1>10. ShownKept'
    <2>1. j \notin ActiveJobs /\ ActiveJobs' = ActiveJobs \cup {j}
      BY <1>1, <1>2, <1>4 DEF ActiveJobs, JobTypes
    <2>2. TargetOf' = TargetOf /\ TargetOf[j] = Target(j)
      BY <1>2 DEF TargetOf, Target
    <2>3. PICK S : inFlight \in Seq(S)
      BY <1>1 DEF ShownKept
    <2>4. inFlight \in Seq(S \cup {Target(j)})
      BY <2>3
    <2>5. Lists(Append(inFlight, TargetOf[j]), ActiveJobs \cup {j}, TargetOf)
      BY <1>1, <2>1, <2>3, ListsAppend DEF ShownKept
    <2>6. inFlight' \in Seq(S \cup {Target(j)})
      BY <1>2, <2>4
    <2> QED
      BY <1>2, <2>1, <2>2, <2>5, <2>6 DEF ShownKept
  <1>11. JobsKept'
    <2>1. \A c \in Clients : c \in Jobs
      BY DEF Jobs
    <2> QED
      BY <1>1, <1>2, <1>4, <2>1 DEF JobsKept
  <1>12. PitchTypes' /\ StagedIsShown' /\ PitchReachesEngine'
    BY <1>1, <1>2, PitchStays
  <1> QED
    BY <1>5, <1>6, <1>7, <1>8, <1>9, <1>10, <1>11,
       <1>12, PartsNext

\* A job ends, with what became of its request.
LEMMA JobEndsKeeps ==
  ASSUME Parts, NEW j \in Jobs, JobEnds(j)
  PROVE  Parts'
  <1> USE ControlAssumption DEF Quitting,
      appVars, socketVars, clientVars, jobVars, engineVars, swapVars, pitchVars
  <1>1. /\ LoopTypes /\ QuitKept /\ ExitsStopped /\ ClientTypes /\ LoopKept
        /\ JobTypes /\ DoneMeansApplied /\ ShownKept /\ JobsKept
        /\ PitchTypes /\ StagedIsShown /\ PitchReachesEngine
    BY DEF Parts
  <1>2. /\ job[j] = "awaiting" /\ job' = [job EXCEPT ![j] = "ended"]
        /\ inFlight' = WithoutTarget(inFlight, Target(j)) /\ inbox' = inbox
        /\ app' = app /\ starter' = starter /\ conn' = conn /\ cmd' = cmd
        /\ UNCHANGED <<appVars, socketVars, clientVars, work, engineVars, swapVars, pitchVars, engineVoice>>
        /\ \E r \in Awaited(j) : entry' = [entry EXCEPT ![j] = r]
    BY DEF JobEnds
  <1>3. /\ job' \in [Jobs -> {"none", "submitted", "posted", "awaiting", "ended"}]
        /\ entry' \in [Jobs -> {"none", "pending", "running", "done", "error"}]
        /\ job'[j] = "ended" /\ (entry'[j] = "done" => req[j] \in {"ok", "unneeded", "missing"})
        /\ \A x \in Jobs \ {j} : job'[x] = job[x] /\ entry'[x] = entry[x]
    <2>1. PICK r \in {"done", "error"} : /\ entry' = [entry EXCEPT ![j] = r]
                                         /\ r = "done" => req[j] \in {"ok", "unneeded", "missing"}
      BY <1>2 DEF Awaited
    <2> QED
      BY <1>1, <1>2, <2>1 DEF JobTypes
  <1>4. LoopTypes' /\ QuitKept' /\ ExitsStopped'
    BY <1>1, <1>2, QuitStays
  <1>5. ClientTypes'
    BY <1>1, <1>2 DEF ClientTypes
  <1>6. LoopKept'
    <2>1. inbox \in Seq(Posts) /\ LoopFits(inbox, conn, cmd, job, starter)
      BY <1>1 DEF LoopKept, ClientTypes
    <2>2. \A x \in Clients : \/ conn[x] = conn[x] /\ cmd[x] = cmd[x]
                             \/ /\ conn[x] # "waiting" /\ conn[x] # "waiting"
                                /\ cmd[x][1] = "PITCH" => cmd[x][2] \in Int
      BY <1>2, <1>3
    <2>3. \A x \in Jobs : job'[x] = job[x] \/ job[x] # "posted"
      BY <1>2, <1>3
    <2>4. LoopFits(inbox, conn, cmd, job', starter)
      BY <2>1, <2>2, <2>3, LoopStays
    <2> QED
      BY <1>2, <2>4 DEF LoopKept
  <1>7. JobTypes'
    BY <1>1, <1>2, <1>3 DEF JobTypes
  <1>8. DoneMeansApplied'
    BY <1>1, <1>2, <1>3 DEF DoneMeansApplied, JobsKept
  <1>9. ShownKept'
    <2>1. j \in ActiveJobs /\ ActiveJobs' = ActiveJobs \ {j}
      BY <1>1, <1>2, <1>3 DEF ActiveJobs, JobTypes
    <2>2. TargetOf' = TargetOf /\ TargetOf[j] = Target(j)
      BY <1>2 DEF TargetOf, Target
    <2>3. PICK S : inFlight \in Seq(S)
      BY <1>1 DEF ShownKept
    <2>4. /\ WithoutTarget(inFlight, TargetOf[j]) \in Seq(S)
          /\ Lists(WithoutTarget(inFlight, TargetOf[j]), ActiveJobs \ {j}, TargetOf)
      BY <1>1, <2>1, <2>3, ListsRemove DEF ShownKept
    <2> QED
      BY <1>2, <2>1, <2>2, <2>4 DEF ShownKept
  <1>10. JobsKept'
    <2>1. \A c \in Clients : c \in Jobs
      BY DEF Jobs
    <2> QED
      BY <1>1, <1>2, <1>3, <2>1 DEF JobsKept
  <1>11. PitchTypes' /\ StagedIsShown' /\ PitchReachesEngine'
    BY <1>1, <1>2, PitchStays
  <1> QED
    BY <1>4, <1>5, <1>6, <1>7, <1>8, <1>9, <1>10,
       <1>11, PartsNext

\* The listener ends, who waits behind it is turned away.
LEMMA ListenerEndsKeeps ==
  ASSUME Parts, ListenerEnds
  PROVE  Parts'
  <1> USE ControlAssumption DEF Quitting,
      appVars, socketVars, clientVars, jobVars, engineVars, swapVars, pitchVars
  <1>1. /\ LoopTypes /\ QuitKept /\ ExitsStopped /\ ClientTypes /\ LoopKept
        /\ JobTypes /\ DoneMeansApplied /\ ShownKept /\ JobsKept
        /\ PitchTypes /\ StagedIsShown /\ PitchReachesEngine
    BY DEF Parts
  <1>2. /\ app = "closing" /\ listener' = "done" /\ app' = app /\ starter' = starter /\ inbox' = inbox
        /\ conn' = [c \in Clients |-> IF conn[c] = "backlog" THEN "closed" ELSE conn[c]]
        /\ cmd' = cmd /\ job' = job
        /\ UNCHANGED <<appVars, pool, file, successor, cmd, jobVars, engineVars, swapVars, pitchVars, engineVoice>>
    BY DEF ListenerEnds
  <1>3. /\ conn' \in [Clients -> {"idle", "backlog", "queued", "waiting", "closed"}]
        /\ \A x \in Clients : conn'[x] = conn[x] \/ (conn[x] = "backlog" /\ conn'[x] = "closed")
    BY <1>1, <1>2 DEF ClientTypes
  <1>4. LoopTypes'
    BY <1>1, <1>2 DEF LoopTypes
  <1>5. QuitKept'
    BY <1>1, <1>2 DEF QuitKept, LoopTypes
  <1>6. ExitsStopped'
    BY <1>1, <1>2 DEF ExitsStopped, QuitKept, LoopTypes
  <1>7. ClientTypes'
    BY <1>1, <1>2 DEF ClientTypes
  <1>8. LoopKept'
    <2>1. inbox \in Seq(Posts) /\ LoopFits(inbox, conn, cmd, job, starter)
      BY <1>1 DEF LoopKept, ClientTypes
    <2>2. \A x \in Clients : \/ conn'[x] = conn[x] /\ cmd[x] = cmd[x]
                             \/ /\ conn[x] # "waiting" /\ conn'[x] # "waiting"
                                /\ cmd[x][1] = "PITCH" => cmd[x][2] \in Int
      BY <1>1, <1>2, <1>3 DEF LoopKept, LoopFits, CommandsFit
    <2>3. \A x \in Jobs : job[x] = job[x] \/ job[x] # "posted"
      BY <1>1, <1>2, <1>3 DEF LoopKept, LoopFits, CommandsFit
    <2>4. LoopFits(inbox, conn', cmd, job, starter)
      BY <2>1, <2>2, <2>3, LoopStays
    <2> QED
      BY <1>2, <2>4 DEF LoopKept
  <1>9. JobTypes' /\ DoneMeansApplied' /\ ShownKept'
    BY <1>1, <1>2, JobsStay
  <1>10. JobsKept'
    BY <1>1, <1>2 DEF JobsKept, JobTypes, ClientTypes, SlowOps, Jobs
  <1>11. PitchTypes' /\ StagedIsShown' /\ PitchReachesEngine'
    BY <1>1, <1>2, PitchStays
  <1> QED
    BY <1>4, <1>5, <1>6, <1>7, <1>8, <1>9, <1>10,
       <1>11, PartsNext

\* The pool is drained and the socket's file removed.
LEMMA PoolDrainsKeeps ==
  ASSUME Parts, PoolDrains
  PROVE  Parts'
  <1> USE ControlAssumption DEF PoolDrains, Quitting,
      appVars, socketVars, clientVars, jobVars, engineVars, swapVars, pitchVars
  <1>1. /\ LoopTypes /\ QuitKept /\ ExitsStopped /\ ClientTypes /\ LoopKept
        /\ JobTypes /\ DoneMeansApplied /\ ShownKept /\ JobsKept
        /\ PitchTypes /\ StagedIsShown /\ PitchReachesEngine
    BY DEF Parts
  <1>2. LoopTypes'
    BY <1>1 DEF LoopTypes
  <1>3. QuitKept'
    BY <1>1 DEF QuitKept, LoopTypes
  <1>4. ExitsStopped'
    BY <1>1 DEF ExitsStopped, QuitKept, LoopTypes
  <1>5. ClientTypes' /\ LoopKept'
    BY <1>1, LoopSame
  <1>6. JobTypes' /\ DoneMeansApplied' /\ ShownKept'
    BY <1>1, JobsStay
  <1>7. JobsKept'
    BY <1>1 DEF JobsKept, JobTypes, ClientTypes, SlowOps, Jobs
  <1>8. PitchTypes' /\ StagedIsShown' /\ PitchReachesEngine'
    BY <1>1, PitchStays
  <1> QED
    BY <1>2, <1>3, <1>4, <1>5, <1>6, <1>7, <1>8, PartsNext

\* Another instance takes the path.
LEMMA NextInstanceKeeps ==
  ASSUME Parts, NextInstance
  PROVE  Parts'
  <1> USE ControlAssumption DEF NextInstance, Quitting,
      appVars, socketVars, clientVars, jobVars, engineVars, swapVars, pitchVars
  <1>1. /\ LoopTypes /\ QuitKept /\ ExitsStopped /\ ClientTypes /\ LoopKept
        /\ JobTypes /\ DoneMeansApplied /\ ShownKept /\ JobsKept
        /\ PitchTypes /\ StagedIsShown /\ PitchReachesEngine
    BY DEF Parts
  <1>2. LoopTypes'
    BY <1>1 DEF LoopTypes
  <1>3. QuitKept'
    BY <1>1 DEF QuitKept, LoopTypes
  <1>4. ExitsStopped'
    BY <1>1 DEF ExitsStopped, QuitKept, LoopTypes
  <1>5. ClientTypes' /\ LoopKept'
    BY <1>1, LoopSame
  <1>6. JobTypes' /\ DoneMeansApplied' /\ ShownKept'
    BY <1>1, JobsStay
  <1>7. JobsKept'
    BY <1>1 DEF JobsKept, JobTypes, ClientTypes, SlowOps, Jobs
  <1>8. PitchTypes' /\ StagedIsShown' /\ PitchReachesEngine'
    BY <1>1, PitchStays
  <1> QED
    BY <1>2, <1>3, <1>4, <1>5, <1>6, <1>7, <1>8, PartsNext

\* The process is gone, and its memory with it.
LEMMA MemoryGoesKeeps ==
  ASSUME Parts, app' = "gone", file' \in {"none", "this", "next"}, MemoryGoes
  PROVE  Parts'
  <1> USE ControlAssumption DEF MemoryGoes, Quitting,
      appVars, socketVars, clientVars, jobVars, engineVars, swapVars, pitchVars
  <1>1. /\ LoopTypes /\ QuitKept /\ ExitsStopped /\ ClientTypes /\ LoopKept
        /\ JobTypes /\ DoneMeansApplied /\ ShownKept /\ JobsKept
        /\ PitchTypes /\ StagedIsShown /\ PitchReachesEngine
    BY DEF Parts
  <1>2. \A x \in Clients : conn'[x] # "waiting" /\ cmd'[x] = <<"none", NoVoice>>
    OBVIOUS
  <1>3. 0 \in Pitches
    BY DEF Pitches
  <1>4. LoopTypes'
    BY <1>1, <1>2 DEF LoopTypes
  <1>5. QuitKept'
    BY <1>1, <1>2 DEF QuitKept, LoopTypes
  <1>6. ExitsStopped'
    BY <1>1, <1>2 DEF ExitsStopped, QuitKept, LoopTypes
  <1>7. ClientTypes'
    BY <1>1, <1>2 DEF ClientTypes
  <1>8. LoopKept'
    <2>1. Len(inbox') = 0 /\ starter' = "nobody"
      OBVIOUS
    <2>2. PostsFit(inbox', conn', cmd', job', starter')
      BY <2>1 DEF PostsFit
    <2>3. WaitersFit(inbox', conn', cmd', starter')
      BY <1>2 DEF WaitersFit
    <2>4. CommandsFit(conn', cmd')
      BY <1>2 DEF CommandsFit
    <2> QED
      BY <2>2, <2>3, <2>4 DEF LoopKept, LoopFits
  <1>9. JobTypes'
    BY <1>1, <1>2 DEF JobTypes
  <1>10. DoneMeansApplied'
    BY <1>1, <1>2 DEF DoneMeansApplied, JobsKept, JobTypes
  <1>11. ShownKept'
    <2>1. ActiveJobs' = {}
      BY DEF ActiveJobs
    <2>2. Lists(<<>>, {}, TargetOf')
      BY ListsNothing
    <2>3. inFlight' = <<>> /\ <<>> \in Seq({})
      OBVIOUS
    <2> QED
      BY <2>1, <2>2, <2>3 DEF ShownKept
  <1>12. JobsKept'
    BY <1>1, <1>2 DEF JobsKept, JobTypes, ClientTypes, SlowOps, Jobs
  <1>13. PitchTypes'
    BY <1>1, <1>2, <1>3 DEF PitchTypes, UpdateUnderWay
  <1>14. StagedIsShown'
    BY <1>1, <1>2 DEF StagedIsShown, UpdateUnderWay
  <1>15. PitchReachesEngine'
    BY <1>1, <1>2 DEF PitchReachesEngine, UpdateUnderWay, StagedIsShown
  <1> QED
    BY <1>4, <1>5, <1>6, <1>7, <1>8, <1>9, <1>10,
       <1>11, <1>12, <1>13, <1>14, <1>15, PartsNext

-----------------------------------------------------------------------------
(* The induction.                                                          *)

LEMMA ZeroIsPitch == 0 \in Pitches
  BY ControlAssumption DEF Pitches

LEMMA InitParts == Init => Parts
  <1> SUFFICES ASSUME Init PROVE Parts
    OBVIOUS
  <1> USE ControlAssumption DEF Init
  <1>1. LoopTypes /\ ClientTypes
    <2>1. LoopTypes
      BY DEF LoopTypes
    <2>2. conn \in [Clients -> {"idle", "backlog", "queued", "waiting", "closed"}]
      OBVIOUS
    <2>3. DOMAIN cmd = Clients /\ inbox \in Seq(Posts)
      OBVIOUS
    <2> QED
      BY <2>1, <2>2, <2>3 DEF ClientTypes
  <1>2. JobTypes
    BY DEF JobTypes
  <1>3. PitchTypes
    BY ZeroIsPitch DEF PitchTypes, UpdateUnderWay
  <1>4. LoopKept
    <2>1. Len(inbox) = 0
      OBVIOUS
    <2>2. PostsFit(inbox, conn, cmd, job, starter)
      BY <2>1 DEF PostsFit
    <2>3. WaitersFit(inbox, conn, cmd, starter) /\ CommandsFit(conn, cmd)
      BY DEF WaitersFit, CommandsFit
    <2> QED
      BY <2>2, <2>3 DEF LoopKept, LoopFits
  <1>5. JobsKept
    BY DEF JobsKept, Jobs
  <1>6. QuitKept /\ StagedIsShown /\ DoneMeansApplied /\ ExitsStopped /\ PitchReachesEngine
    BY DEF QuitKept, Quitting, StagedIsShown, DoneMeansApplied, ExitsStopped, PitchReachesEngine, UpdateUnderWay
  <1>7. ShownKept
    <2>1. ActiveJobs = {}
      BY DEF ActiveJobs
    <2>2. Lists(<<>>, {}, TargetOf)
      BY ListsNothing
    <2>3. inFlight = <<>> /\ <<>> \in Seq({})
      OBVIOUS
    <2> QED
      BY <2>1, <2>2, <2>3 DEF ShownKept
  <1> QED
    BY <1>1, <1>2, <1>3, <1>4, <1>5, <1>6, <1>7 DEF Parts

LEMMA StutterKeeps ==
  ASSUME Parts, UNCHANGED vars
  PROVE  Parts'
  <1> USE DEF vars, appVars, socketVars, clientVars, jobVars, engineVars, swapVars, pitchVars, Quitting
  <1>1. LoopTypes' /\ ClientTypes' /\ JobTypes' /\ PitchTypes'
    BY DEF Parts, LoopTypes, ClientTypes, JobTypes, PitchTypes
  <1>2. LoopKept'
    BY DEF Parts, LoopKept
  <1>3. JobsKept'
    BY DEF Parts, JobsKept
  <1>4. QuitKept' /\ StagedIsShown' /\ DoneMeansApplied' /\ ExitsStopped' /\ PitchReachesEngine'
    BY DEF Parts, QuitKept, StagedIsShown, DoneMeansApplied, ExitsStopped, PitchReachesEngine, UpdateUnderWay
  <1>5. ShownKept'
    BY ShownStays DEF Parts
  <1> QED
    BY <1>1, <1>2, <1>3, <1>4, <1>5, PartsNext

LEMMA NextKeeps ==
  ASSUME Parts, Next
  PROVE  Parts'
  <1>1. CASE Mount \/ StartReturns
    BY <1>1, MountKeeps, StartReturnsKeeps
  <1>2. CASE Posted
    BY <1>2, PostedToggleKeeps, PostedPitchKeeps, PostedApplyKeeps, PostedNotifyKeeps,
       PostedQuitKeeps, LaterQuitKeeps DEF Posted
  <1>3. CASE KeyToggle \/ KeyPitch \/ KeyQuit \/ KeyProfile
    BY <1>3, KeyToggleKeeps, KeyPitchKeeps, KeyQuitKeeps, KeyProfileKeeps
  <1>4. CASE QuitStopped \/ QuitClosed \/ QuitExits
    BY <1>4, QuitStoppedKeeps, QuitClosedKeeps, QuitExitsKeeps
  <1>5. ASSUME NEW s \in DOMAIN stopping, StopStep(s) PROVE Parts'
    <2>1. s \in {"toggle", "quit"}
      BY DEF Parts, LoopTypes
    <2> QED
      BY <1>5, <2>1, StopReturnsEarlyKeeps, StopTakesLockKeeps, StopJoinedKeeps, StopReturnsKeeps
      DEF StopStep
  <1>6. CASE \/ EngineDies \/ EngineSwaps \/ EngineTakesStaged \/ EngineAppliesTaken
             \/ BackgroundStopped
    BY <1>6, EngineDiesKeeps, EngineSwapsKeeps, EngineTakesStagedKeeps,
       EngineAppliesTakenKeeps, BackgroundStoppedKeeps
  <1>7. ASSUME NEW c \in Clients, Connect(c) \/ Poll(c) \/ Accept(c) \/ ServeBad(c) \/ Serve(c)
        PROVE  Parts'
    BY <1>7, ConnectKeeps, PollKeeps, AcceptKeeps, ServesKeep, ServePostsKeeps, ServeSlowKeeps
    DEF Serve
  <1>8. ASSUME NEW j \in Jobs, JobBegins(j) \/ JobEnds(j) PROVE Parts'
    BY <1>8, JobBeginsKeeps, JobEndsKeeps
  <1>9. CASE ListenerEnds \/ PoolDrains \/ NextInstance
    BY <1>9, ListenerEndsKeeps, PoolDrainsKeeps, NextInstanceKeeps
  <1>10. CASE ProcessEnds \/ Killed
    <2>1. app' = "gone" /\ MemoryGoes
      BY <1>10 DEF ProcessEnds, Killed
    <2>2. file' \in {"none", "this", "next"}
      BY <1>10 DEF ProcessEnds, Killed, Parts, LoopTypes
    <2> QED
      BY <2>1, <2>2, MemoryGoesKeeps
  <1> QED
    BY <1>1, <1>2, <1>3, <1>4, <1>5, <1>6, <1>7, <1>8, <1>9, <1>10 DEF Next

LEMMA PartsAlways == Spec => []Parts
  <1>1. Parts /\ [Next]_vars => Parts'
    BY NextKeeps, StutterKeeps
  <1> QED
    BY <1>1, InitParts, PTL DEF Spec

LEMMA PartsSuffice == Parts => ControlInv
  BY ShownIsKept, LoopIs, TypesAre DEF Parts, ControlInv

\* Whoever waits for the event loop is in its queue or has the loop starting
\* the engine, no callback is posted twice, no request is queued twice, and
\* the panel shows as loading exactly the targets of the jobs under way,
\* whatever keys, commands, stops, crashes and kills interleave.
THEOREM ControlInvAlways == Spec => []ControlInv
  BY PartsAlways, PartsSuffice, PTL

\* A job that is reported as done has had its voice loaded, unless it is one of
\* a profile that needs no other voice or whose model has no file.
THEOREM DoneMeansAppliedAlways == Spec => []DoneMeansApplied
  <1>1. Parts => DoneMeansApplied
    BY DEF Parts
  <1> QED
    BY <1>1, PartsAlways, PTL

\* From the time action_quit has stopped the engine it stays down: no toggle,
\* key or late start() brings it up again before the process ends.
THEOREM ExitsStoppedAlways == Spec => []ExitsStopped
  <1>1. Parts => ExitsStopped
    BY DEF Parts
  <1> QED
    BY <1>1, PartsAlways, PTL

\* With no update staged or being applied, and nothing written past one, the
\* pitch that the TUI shows is the engine's.
THEOREM PitchReachesEngineAlways == Spec => []PitchReachesEngine
  <1>1. Parts => PitchReachesEngine
    BY DEF Parts
  <1> QED
    BY <1>1, PartsAlways, PTL
=============================================================================
