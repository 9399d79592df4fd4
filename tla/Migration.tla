------------------------------ MODULE Migration ------------------------------
(***************************************************************************)
(* scripts/migrate_to_woys.py, which install.sh runs: the directories of   *)
(* the program's old name are moved to those of the new one, or merged     *)
(* into them, and the moved config.toml is rewritten.  It may be cut off   *)
(* at any step and is run again; woys may be started in between.           *)
(*                                                                         *)
(* One file stands for all of a directory: a model, the virtual            *)
(* environment, config.toml and a file of the cache.                       *)
(***************************************************************************)
EXTENDS Naturals

CONSTANTS MaxMigrations, MaxCuts    \* bounds

MigrationAssumption == MaxMigrations \in Nat /\ MaxCuts \in Nat

Dirs == {"share", "config", "cache"}
In == [share |-> {"model", "venv"}, config |-> {"config.toml"}, cache |-> {"download"}]
Entries == UNION {In[d] : d \in Dirs}
Users == Entries \ {"venv"}                 \* what cannot be built again
\* Half a file; as the old program left it; with the names of the new one and
\* 300 ms of latency; with the less that the user has set since; made by woys.
Contents == {"none", "torn", "legacy", "rewritten", "edited", "own"}

VARIABLES
  first,      \* what was in the old directories
  old, new,   \* what is under the old and the new names
  tmp,        \* config.toml.tmp
  newDir,     \* the new directories that exist
  links,      \* directories whose old or new name is a symbolic link
  unit,       \* the old systemd unit is there
  phase,      \* what the run is at, or "off"
  way,        \* how its directory is moved: "merge", or "copy" as a whole
  todo,       \* entries of it still to move
  moving,     \* the entry that is being copied, or "none"
  moves,      \* legacy_config_moves
  complete,   \* the last run came to its end
  migrations, cuts    \* bounds

migrationVars == <<first, old, new, tmp, newDir, links, unit, phase, way, todo, moving, moves, complete,
                   migrations, cuts>>
files == <<first, old, new, tmp, newDir, links, unit>>
bounds == <<migrations, cuts>>

MigrationInit ==
  /\ first \in [Entries -> {"none", "legacy"}] /\ old = first
  /\ \E own \in SUBSET Entries :
       new = [e \in Entries |-> IF e \in own THEN "own" ELSE "none"]
  /\ links \in SUBSET Dirs
  /\ newDir \in {{d \in Dirs : \E e \in In[d] : new[e] = "own"} \cup s : s \in {{}, links}}
  /\ tmp = "none" /\ unit \in BOOLEAN
  /\ phase = "off" /\ way = "none" /\ todo = {} /\ moving = "none"
  /\ moves = FALSE /\ complete = FALSE /\ migrations = 0 /\ cuts = 0

Left(d) == {e \in In[d] : old[e] # "none"}

\* A bug: every config.toml is rewritten.
AlwaysMoves == TRUE
\* legacy_config_moves, looked up before anything is moved.
LegacyConfigMoves == old["config.toml"] # "none" /\ new["config.toml"] = "none"

\* Without an old directory there is nothing to do.
BeginMigration ==
  /\ phase = "off" /\ migrations < MaxMigrations
  /\ migrations' = migrations + 1
  /\ moves' = LegacyConfigMoves /\ complete' = FALSE
  /\ phase' = IF \A e \in Entries : old[e] = "none" THEN "off" ELSE "unit"
  /\ UNCHANGED <<files, way, todo, moving, cuts>>

\* _stop_old_systemd_unit: what systemctl says is not looked at.
StopUnit ==
  /\ phase = "unit" /\ unit' = FALSE /\ phase' = "share"
  /\ UNCHANGED <<first, old, new, tmp, newDir, links, way, todo, moving, moves, complete, bounds>>

Moving == phase \in Dirs
After == [share |-> "config", config |-> "cache", cache |-> "rewrite"]

\* _move_dir: nothing where there is no old directory, or both are there and one
\* is a link; a rename of the whole where there is no new one; if it fails, a
\* copy of it; otherwise a merge.
BeginDir ==
  /\ Moving /\ way = "none"
  /\ \/ /\ Left(phase) = {} \/ phase \in newDir \cap links
        /\ phase' = After[phase] /\ UNCHANGED <<old, new, newDir, way, todo>>
     \/ /\ Left(phase) # {} /\ phase \notin newDir
        /\ new' = [e \in Entries |-> IF e \in Left(phase) THEN old[e] ELSE new[e]]
        /\ old' = [e \in Entries |-> IF e \in Left(phase) THEN "none" ELSE old[e]]
        /\ newDir' = newDir \cup {phase}
        /\ phase' = After[phase] /\ UNCHANGED <<way, todo>>
     \/ /\ Left(phase) # {} /\ phase \notin newDir \cap links
        /\ way' = (IF phase \in newDir THEN "merge" ELSE "copy")
        /\ todo' = Left(phase) /\ newDir' = newDir \cup {phase}
        /\ UNCHANGED <<old, new, phase>>
  /\ UNCHANGED <<first, tmp, links, unit, moving, moves, complete, bounds>>

\* A bug: what is in the way is replaced.
InTheWayNever(e) == FALSE
InTheWay(e) == new[e] # "none"

\* An entry that is in the way stays where it was, but for the environment.
Keeps(e) ==
  /\ way = "merge" /\ InTheWay(e)
  /\ old' = IF e = "venv" THEN [old EXCEPT ![e] = "none"] ELSE old
  /\ UNCHANGED <<new, moving>>
Renames(e) ==
  /\ way = "merge" /\ ~InTheWay(e)
  /\ new' = [new EXCEPT ![e] = old[e]] /\ old' = [old EXCEPT ![e] = "none"]
  /\ UNCHANGED moving
\* On another file system it is copied.
Copies(e) ==
  /\ way = "copy" \/ ~InTheWay(e)
  /\ new' = [new EXCEPT ![e] = "torn"] /\ moving' = e /\ UNCHANGED old
MoveEntry ==
  /\ Moving /\ moving = "none"
  /\ \E e \in todo :
       /\ todo' = todo \ {e}
       /\ Keeps(e) \/ Renames(e) \/ Copies(e)
  /\ UNCHANGED <<first, tmp, newDir, links, unit, phase, way, moves, complete, bounds>>

\* A bug: the entry is removed before its copy is written.
RemovedFirst(e) == old' = [old EXCEPT ![e] = "none"] /\ UNCHANGED new
\* The copy is whole; in a merge the entry then goes, in a copy of the whole
\* directory only after the others.
Copied(e) == new' = [new EXCEPT ![e] = old[e]] /\ UNCHANGED old
CopyEnds ==
  /\ moving # "none" /\ new[moving] = "torn"
  /\ Copied(moving)
  /\ moving' = IF way = "copy" THEN "none" ELSE moving
  /\ UNCHANGED <<first, tmp, newDir, links, unit, phase, way, todo, moves, complete, bounds>>
RemoveCopied ==
  /\ moving # "none" /\ new[moving] # "torn"
  /\ old' = [old EXCEPT ![moving] = "none"] /\ moving' = "none"
  /\ UNCHANGED <<first, new, tmp, newDir, links, unit, phase, way, todo, moves, complete, bounds>>

\* Once everything is copied rmtree takes one file after the other; a link it
\* refuses, and the run fails.
TreeCopied == way = "copy" /\ todo = {} /\ moving = "none"
RemoveTree ==
  /\ TreeCopied /\ phase \notin links
  /\ \E e \in Left(phase) : old' = [old EXCEPT ![e] = "none"]
  /\ UNCHANGED <<first, new, tmp, newDir, links, unit, phase, way, todo, moving, moves, complete, bounds>>
\* rmdir leaves a merged directory that is not empty.
EndDir ==
  /\ way # "none" /\ todo = {} /\ moving = "none"
  /\ way = "copy" => Left(phase) = {}
  /\ phase' = After[phase] /\ way' = "none"
  /\ UNCHANGED <<files, todo, moving, moves, complete, bounds>>

-----------------------------------------------------------------------------
(* _rewrite_config_toml.                                                   *)

\* The old names, and a latency below 300 ms, which woys has by default.
Rewritten(c) == IF c \in {"legacy", "edited", "own"} THEN "rewritten" ELSE c

Rewrites == moves /\ Rewritten(new["config.toml"]) # new["config.toml"]

\* What a run that was cut off has left of the temporary file goes first.
OpenTmp ==
  /\ phase = "rewrite" /\ Rewrites
  /\ tmp' = "torn" /\ phase' = "write"
  /\ UNCHANGED <<first, old, new, newDir, links, unit, way, todo, moving, moves, complete, bounds>>
WriteTmp ==
  /\ phase = "write"
  /\ tmp' = Rewritten(new["config.toml"]) /\ phase' = "replace"
  /\ UNCHANGED <<first, old, new, newDir, links, unit, way, todo, moving, moves, complete, bounds>>
Replace ==
  /\ phase = "replace"
  /\ new' = [new EXCEPT !["config.toml"] = tmp] /\ tmp' = "none" /\ phase' = "rewrite"
  /\ UNCHANGED <<first, old, newDir, links, unit, way, todo, moving, moves, complete, bounds>>
EndMigration ==
  /\ phase = "rewrite" /\ ~Rewrites
  /\ phase' = "off" /\ complete' = TRUE
  /\ UNCHANGED <<files, way, todo, moving, moves, bounds>>

-----------------------------------------------------------------------------
\* Killed, a full disk, a systemctl that does not answer in ten seconds, or the
\* error of rmtree.
CutOff ==
  /\ phase # "off" /\ (cuts < MaxCuts \/ (TreeCopied /\ phase \in links))
  /\ cuts' = cuts + 1
  /\ phase' = "off" /\ way' = "none" /\ todo' = {} /\ moving' = "none"
  /\ UNCHANGED <<files, moves, complete, migrations>>

\* woys makes the files it does not find; the user edits config.toml.
WoysStarts ==
  /\ phase = "off" /\ new["config.toml"] = "none"
  /\ new' = [new EXCEPT !["config.toml"] = "own"] /\ newDir' = newDir \cup {"config"}
  /\ UNCHANGED <<first, old, tmp, links, unit, phase, way, todo, moving, moves, complete, bounds>>
UserEdits ==
  /\ phase = "off" /\ new["config.toml"] = "rewritten"
  /\ new' = [new EXCEPT !["config.toml"] = "edited"]
  /\ UNCHANGED <<first, old, tmp, newDir, links, unit, phase, way, todo, moving, moves, complete, bounds>>

MigrationNext ==
  \/ BeginMigration \/ StopUnit \/ BeginDir \/ MoveEntry \/ CopyEnds \/ RemoveCopied
  \/ RemoveTree \/ EndDir \/ OpenTmp \/ WriteTmp \/ Replace \/ EndMigration
  \/ CutOff \/ WoysStarts \/ UserEdits

MigrationSpec == MigrationInit /\ [][MigrationNext]_migrationVars

-----------------------------------------------------------------------------
(* Properties.                                                             *)

MigrationTypeOK ==
  /\ old \in [Entries -> Contents] /\ new \in [Entries -> Contents] /\ tmp \in {"none", "torn", "rewritten"}
  /\ phase \in {"off", "unit", "rewrite", "write", "replace"} \cup Dirs
  /\ way \in {"none", "merge", "copy"} /\ todo \subseteq Entries /\ moving \in Entries \cup {"none"}

\* At any moment, and after any number of runs that were cut off, each of the
\* user's files is whole under one of its two names.
NothingLost ==
  \A e \in Users : first[e] = "legacy" =>
    old[e] = "legacy" \/ new[e] \in {"legacy", "rewritten", "edited"}

\* A run that comes to its end has left under the old names only what is in the
\* way under the new ones, or in a directory that is a link on one side, and no
\* unit; if none was cut off before, what it has moved is whole and config.toml
\* has the new names.
CompleteIsMoved ==
  complete =>
    /\ ~unit
    /\ \A d \in Dirs \ links : \A e \in In[d] : old[e] # "none" => new[e] # "none" /\ e # "venv"
    /\ cuts = 0 => \A e \in Entries :
         new[e] # "torn" /\ (e = "config.toml" => new[e] # "legacy")

MigrationInv == MigrationTypeOK /\ NothingLost /\ CompleteIsMoved

\* What woys has made, and what the user has changed since, is not touched.
OwnStays ==
  [][\A e \in Entries : new[e] \in {"own", "edited"} => new'[e] = new[e]]_migrationVars

\* No run of the migration, however often cut off, costs the user a file.
MigrationSafe == []MigrationInv /\ OwnStays

\* Refuted: "safe to re-run".  A run that is cut off between moving config.toml
\* and rewriting it is not made good by the next: it finds the file in the new
\* directory and leaves it as it is, with the old program's sink and paths.
RerunRewrites == complete => new["config.toml"] # "legacy"

\* Refuted: "the user's models + config + systemd unit move to the new layout",
\* the model paths of config.toml with them.  Where the old share directory is a
\* link, the run passes over it, since install.sh has made the new one, and still
\* rewrites config.toml: its paths lead to models that stayed behind.
PathsLead ==
  complete /\ new["config.toml"] = "rewritten" => old["model"] = "none" \/ new["model"] # "none"
=============================================================================
