----------------------------- MODULE Components -----------------------------
(***************************************************************************)
(* The parts of the system that share no state with the others, side by    *)
(* side: the model library, the PipeWire chain, the cache of sessions, the *)
(* chunks' way through the engine, the pitch track and the migration of an *)
(* old installation.  A behaviour is one of the part that has the `turn`;  *)
(* the others stay as they are at the beginning.                           *)
(***************************************************************************)
EXTENDS Integers

CONSTANTS
  MaxCommands, MaxKilled,
  Cmds, MaxRuns, MaxFails, MaxDeaths,
  Paths, Worker, Loaders, PoolSize, NoSession,
  Voices, FirstVoice, RateOf, SinkRate, Context, Crossfade, Search, Trim, ChunkSizes, DropLimit, Modes,
  History, New, Dropped, Surplus, MaxGap,
  MaxMigrations, MaxCuts

VARIABLES
  turn,
  dir, part, hub, linked, step, job, outcome, commands, killed,
  loaded, service, enabled, op, callAt, via, pending, stuck, oldMic, result, alone, had, runs, faults, deaths,
  trtOn, cudaOn, cache, order, want, at, made, rvc, active,
  mode, inLoop, stop, cfgVoice, bootVoice, voice, outRate, solaRate, tail, out, history, drops, fails,
  heard, lag, short,
  signal, age, anchor, pitch,
  first, old, new, tmp, newDir, links, unit, phase, way, todo, moving, moves, complete,
  migrations, cuts

-----------------------------------------------------------------------------
Library == INSTANCE ModelLibrary WITH cache <- hub
Setups == INSTANCE Chain WITH
  unit <- service, active <- enabled, at <- callAt, todo <- pending, old <- oldMic, fails <- faults
Pool == INSTANCE SessionPool
Chunks == INSTANCE ChunkPath
Pitch == INSTANCE PitchGaps
Migr == INSTANCE Migration

(* What each part asks of its constants.                                    *)
ASSUME PartsAssumption ==
  /\ Library!LibraryAssumption
  /\ Setups!ChainAssumption
  /\ Pool!PoolAssumption
  /\ Chunks!ChunkAssumption
  /\ Pitch!PitchAssumption
  /\ Migr!MigrationAssumption

-----------------------------------------------------------------------------

Parts == {"library", "chain", "pool", "chunks", "pitch", "migration"}

\* A part that does not move begins in one state only.
Init ==
  /\ turn \in Parts
  /\ Library!LibInit /\ (turn # "library" => hub = "none" /\ \A f \in Library!Files : dir[f] = "none")
  /\ Setups!ChainInit /\ (turn # "chain" => loaded = {})
  /\ Pool!PoolInit /\ (turn # "pool" => trtOn /\ cudaOn)
  /\ Chunks!ChunkInit /\ (turn # "chunks" => mode = "child")
  /\ Pitch!PitchInit
  /\ Migr!MigrationInit
  /\ turn # "migration" => ~unit /\ links = {} /\ \A e \in Migr!Entries : old[e] = "none" /\ new[e] = "none"

libVars == <<dir, part, hub, linked, step, job, outcome, commands, killed>>
chainVars == <<loaded, service, enabled, op, callAt, via, pending, stuck, oldMic, result, alone, had, runs,
               faults, deaths>>
poolVars == <<trtOn, cudaOn, cache, order, want, at, made, rvc, active>>
chunkVars == <<mode, inLoop, stop, cfgVoice, bootVoice, voice, outRate, solaRate, tail, out, history,
               drops, fails, heard, lag, short>>
pitchVars == <<signal, age, anchor, pitch>>
migrVars == <<first, old, new, tmp, newDir, links, unit, phase, way, todo, moving, moves,
              complete, migrations, cuts>>

Next ==
  \/ /\ turn = "library" /\ Library!LibNext
     /\ UNCHANGED <<turn, chainVars, poolVars, chunkVars, pitchVars, migrVars>>
  \/ /\ turn = "chain" /\ Setups!ChainNext
     /\ UNCHANGED <<turn, libVars, poolVars, chunkVars, pitchVars, migrVars>>
  \/ /\ turn = "pool" /\ Pool!PoolNext
     /\ UNCHANGED <<turn, libVars, chainVars, chunkVars, pitchVars, migrVars>>
  \/ /\ turn = "chunks" /\ Chunks!ChunkNext
     /\ UNCHANGED <<turn, libVars, chainVars, poolVars, pitchVars, migrVars>>
  \/ /\ turn = "pitch" /\ Pitch!PitchNext
     /\ UNCHANGED <<turn, libVars, chainVars, poolVars, chunkVars, migrVars>>
  \/ /\ turn = "migration" /\ Migr!MigrationNext
     /\ UNCHANGED <<turn, libVars, chainVars, poolVars, chunkVars, pitchVars>>

Spec == Init /\ [][Next]_<<turn, libVars, chainVars, poolVars, chunkVars, pitchVars, migrVars>>

-----------------------------------------------------------------------------
(* Properties: each is explained in the module of its part.                *)

\* What a download or a conversion that succeeds has left in the library; and
\* foundation weights are whole, and the pinned ones, at any moment.
LibrarySafe == Library!LibrarySafe
\* What a setup and a teardown leave in the audio server; one call that fails
\* costs neither half a chain nor the microphone.
ChainInv == Setups!ChainInv
\* The cache is in step with its order, holds nothing that runs on the CPU, and
\* of two sessions of one model keeps the first.
PoolSafe == Pool!PoolSafe
\* The stages of the engine agree on a rate, nothing stale is in their state,
\* and repeated failures trip the breaker.
ChunkInv == Chunks!ChunkInv
\* What goes in comes out, no later, and with its last tail.
Stitched == Chunks!Stitched
\* Gaps in the pitch are bridged as if there were no chunks.
PitchKept == Pitch!PitchKept
\* No run of the migration, however often cut off, costs the user a file.
MigrationSafe == Migr!MigrationSafe
=============================================================================
