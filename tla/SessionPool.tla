---------------------------- MODULE SessionPool ----------------------------
(***************************************************************************)
(* src/audio/sessions.py: how a session for a voice is built (TensorRT,    *)
(* then CUDA, never the CPU) and the cache of them that the engine thread, *)
(* the swap preloader and the eager warm-up share.  A voice is built       *)
(* outside the lock of the cache.                                          *)
(*                                                                         *)
(* What ONNX Runtime makes of a model and a list of providers is a choice: *)
(* it raises, or binds one of them.                                        *)
(***************************************************************************)
EXTENDS Naturals, Sequences, SequencesExt, FiniteSets, FiniteSetsExt

CONSTANTS Paths,         \* models on disk
          Worker,        \* the thread that runs the model it gets
          Loaders,       \* threads that only fill the cache
          PoolSize,      \* RvcSessionPool(max_size)
          NoSession

Users == Loaders \cup {Worker}

\* A session has its model and the provider that is first in get_providers();
\* a number tells sessions of one model apart.
Bound == {"trt", "cuda", "cpu"}
Session == [id : Nat, path : Paths, ep : Bound]

PoolAssumption ==
  /\ PoolSize \in Nat \ {0} /\ Worker \notin Loaders /\ IsFiniteSet(Loaders)
  /\ NoSession \notin Session

VARIABLES
  trtOn, cudaOn,    \* providers of the installed onnxruntime; cfg.use_tensorrt
  cache, order,     \* _cache, _access_order
  want, at,         \* per thread: the model it loads, and how far it is
  made,             \* and the session it has built
  rvc,              \* the session the engine thread runs
  active            \* models for which _TRT_ACTIVE_PER_SESSION says True

poolVars == <<trtOn, cudaOn, cache, order, want, at, made, rvc, active>>

PoolInit ==
  /\ trtOn \in BOOLEAN /\ cudaOn \in BOOLEAN
  /\ cache = [p \in Paths |-> NoSession] /\ order = <<>>
  /\ want = [t \in Users |-> NoSession] /\ at = [t \in Users |-> "idle"]
  /\ made = [t \in Users |-> NoSession] /\ rvc = NoSession
  /\ active = {}

Cached == {p \in Paths : cache[p] # NoSession}
\* Sessions that something refers to, so that their memory is taken.
Resident == ({cache[p] : p \in Paths} \cup {made[t] : t \in Users} \cup {rvc}) \ {NoSession}
FreshId(p) == Min(1 .. (Cardinality(Resident) + 1) \ {s.id : s \in {r \in Resident : r.path = p}})
Goes(t, a) == at' = [at EXCEPT ![t] = a]

Ends(t) == Goes(t, "idle") /\ want' = [want EXCEPT ![t] = NoSession]

\* What a thread does with the session it gets.
Gets(t, s) == IF t = Worker THEN rvc' = s ELSE UNCHANGED rvc

-----------------------------------------------------------------------------
(* get_or_create                                                           *)

Hit(t) ==
  \E p \in Cached :
    /\ at[t] = "idle"
    /\ order' = Append(RemoveFirst(order, p), p)
    /\ Gets(t, cache[p])
    /\ UNCHANGED <<trtOn, cudaOn, cache, want, at, made, active>>
Miss(t) ==
  \E p \in Paths \ Cached :
    /\ at[t] = "idle"
    /\ want' = [want EXCEPT ![t] = p] /\ Goes(t, IF trtOn THEN "trt" ELSE "cuda")
    /\ UNCHANGED <<trtOn, cudaOn, cache, order, made, rvc, active>>

\* A bug: a session that runs on the CPU is taken.
AnyBound(ep) == TRUE
\* _assert_session_gpu_bound
GpuBound(ep) == ep # "cpu"
\* _make_session with TensorRT in front, or without.  A model that TensorRT
\* cannot take is built again without it; one that ends on the CPU raises.
Build(t, eps) ==
  \E ep \in eps :
    /\ IF GpuBound(ep)
       THEN made' = [made EXCEPT ![t] = [id |-> FreshId(want[t]), path |-> want[t], ep |-> ep]] /\ Goes(t, "insert")
            /\ UNCHANGED want
       ELSE Ends(t) /\ UNCHANGED made
    /\ active' = IF GpuBound(ep) /\ at[t] = "trt" THEN active \cup {want[t]} ELSE active
    /\ UNCHANGED <<trtOn, cudaOn, cache, order, rvc>>
BuildTrt(t) ==
  /\ at[t] = "trt"
  /\ \/ Build(t, IF cudaOn THEN Bound ELSE {"trt", "cpu"})
     \/ /\ Goes(t, "cuda") /\ active' = active \ {want[t]}
        /\ UNCHANGED <<trtOn, cudaOn, cache, order, want, made, rvc>>
BuildCuda(t) ==
  /\ at[t] = "cuda"
  /\ \/ Build(t, IF cudaOn THEN {"cuda", "cpu"} ELSE {"cpu"})
     \/ Ends(t) /\ UNCHANGED <<trtOn, cudaOn, cache, order, made, rvc, active>>

\* A bug: the later of two sessions replaces the other.
LatestWins(p, s) == s
\* Another thread may have inserted the model meanwhile.
FirstWins(p, s) == IF p \in Cached THEN cache[p] ELSE s
\* Drops the models that were not asked for the longest.
Kept(s) == IF Len(s) > PoolSize THEN SubSeq(s, Len(s) - PoolSize + 1, Len(s)) ELSE s
Insert(t) ==
  LET p == want[t]
      won == FirstWins(p, made[t])
  IN /\ at[t] = "insert"
     /\ order' = Kept(IF p \in Cached THEN order ELSE Append(order, p))
     /\ cache' = [q \in Paths |-> IF ~Contains(order', q) THEN NoSession
                                   ELSE IF q = p THEN won ELSE cache[q]]
     /\ Gets(t, won)
     /\ made' = [made EXCEPT ![t] = NoSession] /\ Ends(t)
     /\ UNCHANGED <<trtOn, cudaOn, active>>

\* stop(): drops the session that runs and evict_all().  A preloader that
\* outlasts the joins goes on.
Evict ==
  /\ at[Worker] = "idle"
  /\ cache' = [p \in Paths |-> NoSession] /\ order' = <<>> /\ rvc' = NoSession
  /\ UNCHANGED <<trtOn, cudaOn, want, at, made, active>>

PoolNext ==
  \/ \E t \in Users : Hit(t) \/ Miss(t) \/ BuildTrt(t) \/ BuildCuda(t) \/ Insert(t)
  \/ Evict

PoolSpec == PoolInit /\ [][PoolNext]_poolVars

-----------------------------------------------------------------------------
(* Properties.                                                             *)

PoolTypeOK ==
  /\ \A s \in Resident : s \in Session
  /\ \A t \in Users : at[t] \in {"idle", "trt", "cuda", "insert"} /\ want[t] \in Paths \cup {NoSession}

\* The cache and its order of access stay in step: every cached model once,
\* under its own path, and no more than fit.
InStep ==
  /\ ToSet(order) = Cached /\ Len(order) = Cardinality(Cached) /\ Len(order) <= PoolSize
  /\ \A p \in Cached : cache[p].path = p

\* Nothing that runs, or can be swapped to, is bound to the CPU.
OnGpu == \A s \in Resident : s.ep # "cpu"

\* Memory is taken by the cache, by the voice that runs though it was evicted,
\* and by one build per thread.
MemoryBounded ==
  Cardinality(Resident) <= Cardinality(Cached) + 1 + Cardinality({t \in Users : at[t] = "insert"})

PoolInv == PoolTypeOK /\ InStep /\ OnGpu /\ MemoryBounded

\* Two threads that built the same model end up with one session: a cached one
\* is dropped, never replaced.
NeverReplaced ==
  [][\A p \in Cached : cache'[p] \in {cache[p], NoSession}]_poolVars

\* The cache is in step with its order, holds nothing that runs on the CPU, and
\* of two sessions of one model keeps the first.
PoolSafe == []PoolInv /\ NeverReplaced

\* Refuted: the cache bounds the voices that take memory.  The voice that runs
\* may have been evicted, and two threads build at once.
CappedBySize == Cardinality(Resident) <= PoolSize

\* Refuted: what _TRT_ACTIVE_PER_SESSION says of a cached model is so.  A
\* session that TensorRT left to CUDA counts as TensorRT's.
TrtIsTrue == \A p \in Cached : (p \in active) <=> (cache[p].ep = "trt")
=============================================================================
