---------------------------- MODULE ConfigStore ----------------------------
(***************************************************************************)
(* config.toml and the processes that rewrite it: the TUI (src/tui/app.py) *)
(* and the commands `profile save/use/delete/import`, `models use` and     *)
(* those that only load it (src/woys).  Loading, migration and the atomic  *)
(* save are src/tui/config.py; the lock is config_lock() of profiles.py.   *)
(*                                                                         *)
(* A configuration has a voice (rvc_model) and one other setting, "knob",  *)
(* which stands for the fields that a migration may bump, that a key of    *)
(* the TUI sets and pins, and that a flag of `woys run` may override.      *)
(***************************************************************************)
EXTENDS Naturals, FiniteSets

CONSTANTS
  Tui, Clis,        \* the processes; each of Clis runs one command
  Names,            \* names of profiles
  Commands,         \* what they may run: <<operation, name or voice>>
  Voices, NoVoice,  \* rvc_model; "" is the engine's default
  None,             \* no such profile; no process; no temporary file
  Missing, Bad, Torn,  \* no file; one malformed by hand; one half-written
  Flagged,          \* `woys run` is given a flag for the knob
  MaxStarts, MaxKeys, MaxKills

ASSUME StoreAssumption ==
  /\ Tui \notin Clis /\ NoVoice \notin Voices
  /\ None \notin Clis \cup {Tui}
  /\ MaxStarts \in Nat /\ MaxKeys \in Nat /\ MaxKills \in Nat
  /\ Flagged \in BOOLEAN
  /\ Commands \subseteq ({"save", "use", "delete", "import"} \X Names) \cup ({"voice"} \X Voices)

Procs == Clis \cup {Tui}
\* An old default, the default it is bumped to, the user's own value, the
\* value of a flag, and one out of range or of the wrong type.
Knobs == {"old", "new", "own", "flag", "wild"}
Snapshots == [voice : Voices \cup {NoVoice}, knob : Knobs]
Configs == [legacy : BOOLEAN, voice : Voices \cup {NoVoice}, knob : Knobs, pinned : BOOLEAN,
            profiles : [Names -> Snapshots \cup {None}]]

VARIABLES
  command,  \* what each of Clis runs
  file,     \* config.toml: Missing, Bad, Torn, or a configuration
  tmp,      \* config.toml.tmp: None, or who made it and what is in it
  renamed,  \* processes whose file was renamed to config.toml before they had written it
  lock,     \* the holder of config_lock
  stage,    \* where a process is
  mem,      \* its AppConfig
  broken,   \* its _load_error
  saving,   \* what its save is part of: "load" or "command"
  known,    \* TUI: the value that the file had for an overridden knob, or None
  serving,  \* TUI: the client whose command it carries out, or None
  reply,    \* per client: what the socket answered
  starts, keys, kills,   \* bounds
  raced     \* history: two processes have been saving at the same time

vars == <<command, file, tmp, renamed, lock, stage, mem, broken, saving, known, serving, reply, starts,
          keys, kills, raced>>
diskVars == <<command, file, tmp, renamed>>
tuiVars == <<known, serving, starts, keys>>

Defaults == [legacy |-> FALSE, voice |-> NoVoice, knob |-> "new", pinned |-> FALSE,
             profiles |-> [n \in Names |-> None]]
\* What stands for no value is none.
ASSUME MarkersAssumption ==
  /\ Missing # Bad /\ Missing # Torn /\ Bad # Torn
  /\ Missing \notin Configs /\ Bad \notin Configs /\ Torn \notin Configs
  /\ None \notin Snapshots \cup Knobs
  /\ \A w \in Procs, c \in Configs \cup {Torn} : None # [by |-> w, content |-> c]

Current == [Defaults EXCEPT !.knob = "own"]
Legacy(pin) ==
  [legacy |-> TRUE, voice |-> NoVoice, knob |-> "old", pinned |-> pin,
   profiles |-> [n \in Names |-> [voice |-> NoVoice, knob |-> "old"]]]

Edited ==
  [Defaults EXCEPT !.knob = "wild",
                   !.profiles = [n \in Names |-> [voice |-> NoVoice, knob |-> "wild"]]]

Init ==
  /\ command \in [Clis -> Commands]
  /\ file \in {Missing, Bad, Edited, Legacy(FALSE), Legacy(TRUE)}
  /\ tmp = None /\ renamed = {} /\ lock = None
  /\ stage = [w \in Procs |-> "idle"] /\ mem = [w \in Procs |-> Defaults]
  /\ broken = [w \in Procs |-> FALSE] /\ saving = [w \in Procs |-> "load"]
  /\ known = None /\ serving = None /\ reply = [c \in Clis |-> "none"]
  /\ starts = 0 /\ keys = 0 /\ kills = 0 /\ raced = FALSE

\* w has no use any more for what it has loaded.
Forgets(w) ==
  /\ mem' = [mem EXCEPT ![w] = Defaults] /\ broken' = [broken EXCEPT ![w] = FALSE]
  /\ saving' = [saving EXCEPT ![w] = "load"]

-----------------------------------------------------------------------------
(* Loading.                                                                *)

\* A bug: the legs for profiles do not look at _user_overrides.
BumpAnyProfile(c, s) == IF s # None /\ s.knob = "old" THEN [s EXCEPT !.knob = "new"] ELSE s
\* _maybe_bump_profile: an old default becomes the new one, unless pinned.
BumpProfile(c, s) ==
  IF s # None /\ ~c.pinned /\ s.knob = "old" THEN [s EXCEPT !.knob = "new"] ELSE s

\* The migration legs; the result is stamped with the current schema.
Migrated(c) ==
  IF ~c.legacy THEN c
  ELSE [c EXCEPT !.legacy = FALSE,
                 !.knob = IF ~c.pinned /\ @ = "old" THEN "new" ELSE @,
                 !.profiles = [n \in Names |-> BumpProfile(c, @[n])]]

\* _validate_appconfig and _validate_profiles: an invalid value is reset to
\* the default, in memory.
ValidField(k) == k # "wild"
Reset(k) == IF ValidField(k) THEN k ELSE Defaults.knob
ResetProfile(s) == IF s = None THEN None ELSE [s EXCEPT !.knob = Reset(@)]
Checked(c) == [c EXCEPT !.knob = Reset(@), !.profiles = [n \in Names |-> ResetProfile(@[n])]]

IsConfig(f) == f \notin {Missing, Bad, Torn}
Unreadable == file \in {Bad, Torn}
\* load_config will save: a first run, or a migration that changed a value.
WillSave ==
  \/ file = Missing
  \/ IsConfig(file) /\ Migrated(file) \notin {file, [file EXCEPT !.legacy = FALSE]}

\* The lock keeps saves apart, but load_config saves without it: a first run, or
\* a migration, may meet another save.  w is about to save.
Writing(w) == stage[w] \in {"open", "write", "replace"}
MayRace(w) == raced' = (raced \/ \E x \in Procs \ {w} : Writing(x))

\* load_config without the lock: the start of the TUI and the commands that
\* look before they lock.
Locking(w) == w # Tui /\ command[w][1] \in {"save", "import"}
Begin(w) ==
  /\ stage[w] = "idle"
  /\ w = Tui => starts < MaxStarts
  /\ starts' = IF w = Tui THEN starts + 1 ELSE starts
  /\ stage' = [stage EXCEPT ![w] = IF Locking(w) THEN "lock"
                                   ELSE IF w # Tui /\ command[w][1] = "voice" THEN "ask"
                                   ELSE "load"]
  /\ UNCHANGED <<diskVars, lock, mem, broken, saving, known, serving, reply, keys, kills, raced>>

Load(w) ==
  /\ stage[w] = "load"
  /\ mem' = [mem EXCEPT ![w] = IF IsConfig(file) THEN Checked(Migrated(file)) ELSE Defaults]
  /\ broken' = [broken EXCEPT ![w] = Unreadable]
  /\ saving' = [saving EXCEPT ![w] = "load"]
  /\ IF WillSave THEN stage' = [stage EXCEPT ![w] = "open"] /\ MayRace(w)
     ELSE stage' = [stage EXCEPT ![w] = "loaded"] /\ UNCHANGED raced
  /\ UNCHANGED <<diskVars, lock, tuiVars, reply, kills>>

-----------------------------------------------------------------------------
(* save_config: a temporary file, made exclusively, written, renamed.      *)

\* A bug: config.toml itself is opened for writing.
OpensTarget(w) == file' = Torn /\ renamed' = {w} /\ UNCHANGED tmp
\* A stale temporary file is unlinked and the file made anew.
OpensTmp(w) ==
  /\ tmp' = [by |-> w, content |-> Torn] /\ renamed' = renamed \ {w}
  /\ UNCHANGED file

OpenTmp(w) ==
  /\ stage[w] = "open"
  /\ OpensTmp(w)
  /\ stage' = [stage EXCEPT ![w] = "write"]
  /\ UNCHANGED <<command, lock, mem, broken, saving, tuiVars, reply, kills, raced>>

\* A bug: the value of the flag is saved.
SavesMemory(w) == mem[w]
\* The TUI writes back the file's value of a knob that a flag has overridden.
ToSave(w) == IF w = Tui /\ saving[w] = "command" /\ known # None
             THEN [mem[w] EXCEPT !.knob = known] ELSE mem[w]

\* The write goes to the file that w made, wherever it is linked by now.
WriteThrough(w) ==
  /\ tmp' = IF tmp # None /\ tmp.by = w THEN [by |-> w, content |-> ToSave(w)] ELSE tmp
  /\ file' = IF w \in renamed THEN ToSave(w) ELSE file

WriteTmp(w) ==
  /\ stage[w] = "write"
  /\ WriteThrough(w)
  /\ renamed' = renamed \ {w}
  /\ stage' = [stage EXCEPT ![w] = "replace"]
  /\ UNCHANGED <<command, lock, mem, broken, saving, tuiVars, reply, kills, raced>>

\* After a save, whether it succeeded or not: on with the load, or unlock.
AfterSave(w) == IF saving[w] = "load" THEN "loaded" ELSE "unlock"

\* A full disk: the temporary file is unlinked, the error is reported.
WriteFails(w) ==
  /\ stage[w] \in {"open", "write"}
  /\ tmp' = IF stage[w] = "write" THEN None ELSE tmp
  /\ renamed' = renamed \ {w}
  /\ stage' = [stage EXCEPT ![w] = AfterSave(w)]
  /\ UNCHANGED <<command, file, lock, mem, broken, saving, tuiVars, reply, kills, raced>>

\* os.replace renames what is there under the name of the temporary file.
Replace(w) ==
  /\ stage[w] = "replace"
  /\ file' = IF tmp = None THEN file ELSE tmp.content
  /\ renamed' = IF tmp # None /\ tmp.content = Torn THEN {tmp.by} ELSE {}
  /\ tmp' = None
  /\ stage' = [stage EXCEPT ![w] = AfterSave(w)]
  /\ UNCHANGED <<command, lock, mem, broken, saving, tuiVars, reply, kills, raced>>

TakeLock(w) ==
  /\ stage[w] = "lock" /\ lock = None
  /\ lock' = w
  /\ stage' = [stage EXCEPT ![w] = IF w = Tui THEN "reload" ELSE "load"]
  /\ UNCHANGED <<diskVars, mem, broken, saving, tuiVars, reply, kills, raced>>

-----------------------------------------------------------------------------
(* Commands.                                                               *)

\* A profile applied to a configuration, and a configuration as a profile.
Applied(c, s) == [c EXCEPT !.voice = s.voice, !.knob = s.knob]
Snapshot(c) == [voice |-> c.voice, knob |-> c.knob]
\* A .vcprofile; its voice is bound by ModelLibrary.
Foreign(k) == [voice |-> NoVoice, knob |-> k]

Op(w) == command[w][1]
Arg(w) == command[w][2]

\* The first look, without the lock.  A profile that does not exist, and a
\* prompt answered with no, end the command.
Looked(w) ==
  /\ w \in Clis /\ stage[w] = "loaded" /\ lock # w
  /\ \/ stage' = [stage EXCEPT ![w] = "done"]
     \/ /\ Op(w) \in {"use", "delete"} /\ mem[w].profiles[Arg(w)] # None
        /\ stage' = [stage EXCEPT ![w] = IF Op(w) = "use" THEN "ask" ELSE "lock"]
  /\ Forgets(w)
  /\ UNCHANGED <<diskVars, lock, tuiVars, reply, kills, raced>>

\* The change each command makes to what it has loaded under the lock; none
\* is possible for a deletion of what is gone, and an import is refused if its
\* name or one of its values is.
Changed(w) ==
  LET c == mem[w] IN
  CASE Op(w) = "save" -> {[c EXCEPT !.profiles[Arg(w)] = Snapshot(c)]}
    [] Op(w) = "use" -> {IF c.profiles[Arg(w)] = None THEN c ELSE Applied(c, c.profiles[Arg(w)])}
    [] Op(w) = "delete" /\ c.profiles[Arg(w)] # None -> {[c EXCEPT !.profiles[Arg(w)] = None]}
    [] Op(w) = "import" ->
         {[c EXCEPT !.profiles[Arg(w)] = Foreign(k)] : k \in {"own", "wild"} \cap {x \in Knobs : ValidField(x)}}
    [] Op(w) = "voice" -> {[c EXCEPT !.voice = Arg(w)]}
    [] OTHER -> {}

\* A bug: the fallback for a file that did not load is saved over it.
NeverRefused(w) == FALSE
\* save_config raises ConfigNotSavedError.
SaveRefused(w) == broken[w]

Modify(w) ==
  /\ w \in Clis /\ stage[w] = "loaded" /\ lock = w
  /\ saving' = [saving EXCEPT ![w] = "command"]
  /\ \/ /\ Changed(w) # {} /\ ~SaveRefused(w)
        /\ \E c \in Changed(w) : mem' = [mem EXCEPT ![w] = c]
        /\ stage' = [stage EXCEPT ![w] = "open"] /\ MayRace(w)
     \/ /\ Changed(w) = {} \/ SaveRefused(w) \/ Op(w) = "import"
        /\ stage' = [stage EXCEPT ![w] = "unlock"] /\ UNCHANGED <<mem, raced>>
  /\ UNCHANGED <<diskVars, lock, broken, tuiVars, reply, kills>>

\* The lock is released.  A command is over, the TUI goes on; it is off if
\* the save was that of its quit.
Unlock(w) ==
  /\ w \in Clis /\ stage[w] = "unlock"
  /\ lock' = None
  /\ stage' = [stage EXCEPT ![w] = "done"]
  /\ Forgets(w)
  /\ UNCHANGED <<diskVars, tuiVars, reply, kills, raced>>

\* The job of a client then waits for the engine, which may fail the swap.
TuiUnlock ==
  /\ stage[Tui] = "unlock"
  /\ lock' = None /\ serving' = None
  /\ LET answered == {c \in Clis : c = serving /\ stage[c] = "asked"} IN
     /\ stage' = [w \in Procs |-> IF w \in answered THEN "replied"
                                 ELSE IF w # Tui THEN stage[w]
                                 ELSE IF serving = Tui THEN "idle" ELSE "up"]
     /\ \E r \in {"done", "error"} :
          reply' = [c \in Clis |-> IF c \in answered THEN r ELSE reply[c]]
  /\ UNCHANGED <<diskVars, mem, broken, saving, known, starts, keys, kills, raced>>

\* `profile use` and `models use` ask the TUI; without one they write.
Listening == stage[Tui] \in {"up", "lock", "reload", "open", "write", "replace", "unlock"}
             /\ saving[Tui] = "command" /\ serving # Tui
Ask(w) ==
  /\ w \in Clis /\ stage[w] = "ask"
  /\ IF Listening THEN stage' = [stage EXCEPT ![w] = "asked"] /\ UNCHANGED reply
     ELSE stage' = [stage EXCEPT ![w] = "replied"] /\ reply' = [reply EXCEPT ![w] = "unreachable"]
  /\ UNCHANGED <<diskVars, lock, mem, broken, saving, tuiVars, kills, raced>>

\* No answer in time, or the connection breaks.
AskFails(w) ==
  /\ w \in Clis /\ stage[w] = "asked"
  /\ stage' = [stage EXCEPT ![w] = "replied"]
  /\ reply' = [reply EXCEPT ![w] = "failed"]
  /\ UNCHANGED <<diskVars, lock, mem, broken, saving, tuiVars, kills, raced>>

Replied(w) ==
  /\ w \in Clis /\ stage[w] = "replied"
  /\ stage' = [stage EXCEPT ![w] =
       IF reply[w] = "done" \/ (reply[w] = "failed" /\ Op(w) = "voice") THEN "done" ELSE "lock"]
  /\ reply' = [reply EXCEPT ![w] = "none"]
  /\ UNCHANGED <<diskVars, lock, mem, broken, saving, tuiVars, kills, raced>>

-----------------------------------------------------------------------------
(* The TUI.                                                                *)

\* WoysApp.__init__: the flag of `woys run` holds for the session only.
TuiUp ==
  /\ stage[Tui] = "loaded"
  /\ stage' = [stage EXCEPT ![Tui] = "up"] /\ saving' = [saving EXCEPT ![Tui] = "command"]
  /\ known' = IF Flagged THEN mem[Tui].knob ELSE None
  /\ mem' = [mem EXCEPT ![Tui].knob = IF Flagged THEN "flag" ELSE @]
  /\ UNCHANGED <<diskVars, lock, broken, serving, starts, keys, reply, kills, raced>>

\* A bug: the table of profiles as it was loaded at the start.
TableInMemory(table) == table
\* read_disk_profiles: the table on disk, unless it cannot be read or has
\* another schema.
TableOnDisk(table) ==
  IF ~IsConfig(file) THEN table ELSE IF file.legacy THEN table ELSE file.profiles

\* _write_cfg, under the lock.
TuiReload ==
  /\ stage[Tui] = "reload"
  /\ mem' = [mem EXCEPT ![Tui].profiles = TableOnDisk(@)]
  /\ IF SaveRefused(Tui) THEN stage' = [stage EXCEPT ![Tui] = "unlock"] /\ UNCHANGED raced
     ELSE stage' = [stage EXCEPT ![Tui] = "open"] /\ MayRace(Tui)
  /\ UNCHANGED <<diskVars, lock, broken, saving, tuiVars, reply, kills>>

\* A key that sets the knob pins it, and ends the flag's override.
TuiKey ==
  /\ stage[Tui] = "up" /\ keys < MaxKeys
  /\ keys' = keys + 1 /\ known' = None
  /\ mem' = [mem EXCEPT ![Tui].knob = "own", ![Tui].pinned = TRUE]
  /\ UNCHANGED <<diskVars, lock, stage, broken, saving, serving, starts, reply, kills, raced>>

\* The key "s", and the save at the end of action_quit (serving = Tui), when
\* the control socket has gone.
TuiSaves ==
  /\ stage[Tui] = "up" /\ keys < MaxKeys
  /\ keys' = keys + 1
  /\ serving' \in {None, Tui}
  /\ stage' = [stage EXCEPT ![Tui] = "lock"]
  /\ UNCHANGED <<diskVars, lock, mem, broken, saving, known, starts, reply, kills, raced>>

\* apply_main of a MODEL or PROFILE job.  A profile the TUI has not got is
\* looked for on disk first.
Found(n) == IF mem[Tui].profiles[n] # None THEN mem[Tui].profiles
            ELSE TableOnDisk(mem[Tui].profiles)
TuiServes(c) ==
  /\ stage[Tui] = "up" /\ stage[c] = "asked"
  /\ IF Op(c) = "use" /\ Found(Arg(c))[Arg(c)] = None
     THEN /\ reply' = [reply EXCEPT ![c] = "error"]
          /\ stage' = [stage EXCEPT ![c] = "replied"]
          /\ mem' = [mem EXCEPT ![Tui].profiles = Found(Arg(c))]
          /\ UNCHANGED <<known, serving>>
     ELSE /\ stage' = [stage EXCEPT ![Tui] = "lock"]
          /\ serving' = c
          /\ mem' = [mem EXCEPT ![Tui] =
               IF Op(c) = "voice" THEN [@ EXCEPT !.voice = Arg(c)]
               ELSE Applied([@ EXCEPT !.profiles = Found(Arg(c))], Found(Arg(c))[Arg(c)])]
          /\ known' = IF Op(c) = "voice" THEN known ELSE None
          /\ UNCHANGED reply
  /\ UNCHANGED <<diskVars, lock, broken, saving, starts, keys, kills, raced>>

-----------------------------------------------------------------------------
\* The end of a process at any point: what it had written stays, the kernel
\* releases its lock.
Kill(w) ==
  /\ stage[w] \notin {"idle", "done"} /\ kills < MaxKills
  /\ kills' = kills + 1
  /\ stage' = [stage EXCEPT ![w] = IF w = Tui THEN "idle" ELSE "done"]
  /\ lock' = IF lock = w THEN None ELSE lock
  /\ known' = IF w = Tui THEN None ELSE known
  /\ serving' = IF w = Tui THEN None ELSE serving
  /\ Forgets(w)
  /\ UNCHANGED <<diskVars, starts, keys, reply, raced>>

\* The user repairs the file by hand.
UserFixes ==
  /\ file = Bad
  /\ file' = Current
  /\ UNCHANGED <<command, tmp, renamed, lock, stage, mem, broken, saving, tuiVars, reply, kills, raced>>

Process(w) ==
  \/ Begin(w) \/ Load(w) \/ OpenTmp(w) \/ WriteTmp(w) \/ WriteFails(w) \/ Replace(w)
  \/ TakeLock(w) \/ Looked(w) \/ Modify(w) \/ Unlock(w)
  \/ Ask(w) \/ AskFails(w) \/ Replied(w)
  \/ Kill(w)
Next ==
  \/ \E w \in Procs : Process(w)
  \/ TuiUp \/ TuiReload \/ TuiUnlock \/ TuiKey \/ TuiSaves \/ \E c \in Clis : TuiServes(c)
  \/ UserFixes

Spec == Init /\ [][Next]_vars

-----------------------------------------------------------------------------
(* Properties.                                                             *)

TypeOK ==
  /\ IsConfig(file) => file \in Configs
  /\ tmp # None => tmp.by \in Procs /\ (tmp.content = Torn \/ tmp.content \in Configs)
  /\ renamed \subseteq Procs /\ lock \in Procs \cup {None}
  /\ stage \in [Procs -> {"idle", "lock", "reload", "load", "loaded", "open", "write", "replace",
                         "unlock", "ask", "asked", "replied", "up", "done"}]
  /\ command \in [Clis -> Commands]
  /\ mem \in [Procs -> Configs] /\ broken \in [Procs -> BOOLEAN]
  /\ saving \in [Procs -> {"load", "command"}]
  /\ known \in Knobs \cup {None} /\ serving \in Procs \cup {None}
  /\ reply \in [Clis -> {"none", "done", "error", "unreachable", "failed"}]
  /\ raced \in BOOLEAN

\* What is under the name config.toml is a whole file at any moment, whoever
\* is killed while saving, and however often.  Refuted where two saves meet:
\* they share the name of the temporary file.
Whole == file # Torn

\* A flag of `woys run` never gets into the file, by no save of that
\* session and by no profile taken from it.
FlagIsForTheSession ==
  IsConfig(file) =>
    file.knob # "flag" /\ \A n \in Names : file.profiles[n] = None \/ file.profiles[n].knob # "flag"

\* A command works with values the engine accepts, whatever was written into
\* the file by hand.
CommandsChecked ==
  \A w \in Clis : /\ ValidField(mem[w].knob)
                  /\ \A n \in Names : mem[w].profiles[n] = None \/ ValidField(mem[w].profiles[n].knob)

HasLoaded(w) ==
  \/ stage[w] \in {"loaded", "open", "write", "replace", "unlock", "up", "reload"}
  \/ w = Tui /\ stage[w] = "lock"

\* Every save is made under the lock, but for the one of a load.
LockKept ==
  /\ \A w \in Clis :
       /\ lock = w => stage[w] \in {"load", "loaded", "open", "write", "replace", "unlock"}
       /\ stage[w] \notin {"reload", "up"}
       /\ saving[w] = "command" => stage[w] \in {"open", "write", "replace", "unlock"}
  /\ lock = Tui => stage[Tui] \in {"reload", "open", "write", "replace", "unlock"}
                   /\ saving[Tui] = "command"
  /\ stage[Tui] \in {"lock", "reload", "up", "unlock"} => saving[Tui] = "command"
  /\ stage[Tui] = "loaded" => saving[Tui] = "load"
  /\ stage[Tui] \notin {"ask", "asked", "replied", "done"}
  /\ \A w \in Procs :
       /\ stage[w] \in {"reload", "unlock"} => lock = w
       /\ Writing(w) => saving[w] = "load" \/ lock = w

\* Only these two commands ask, and nobody keeps a configuration of an old schema.
AskKept ==
  /\ \A w \in Clis : stage[w] \in {"ask", "asked"} => Op(w) \in {"use", "voice"}
  /\ \A w \in Procs : ~mem[w].legacy

\* The temporary file is the writer's own, with what it saves.
TmpKept ==
  /\ renamed = {}
  /\ \A w \in Procs :
       /\ stage[w] \in {"write", "replace"} => tmp # None /\ tmp.by = w
       /\ stage[w] = "replace" => tmp.content = ToSave(w)

\* The value of a flag is in no memory but the TUI's, which knows the file's.
NoFlag(c) == \A n \in Names : c.profiles[n] = None \/ c.profiles[n].knob # "flag"
FlagKept ==
  /\ known # "flag"
  /\ \A w \in Procs :
       /\ NoFlag(mem[w])
       /\ mem[w].knob = "flag" => w = Tui /\ known # None /\ saving[w] = "command"

\* Who has not been able to read the file does not write it.
BrokenKept ==
  /\ \A w \in Procs : broken[w] => ~Writing(w)
  /\ file = Bad => \A w \in Procs : HasLoaded(w) => broken[w]

\* The table of profiles, and the pin, as a load would bring them in.
Settled(c) == Checked(Migrated(c)).profiles
FollowsFile(w) ==
  /\ saving[w] = "load" /\ (Writing(w) \/ (stage[w] = "loaded" /\ lock = w)) =>
       mem[w].profiles = Settled(file) /\ mem[w].pinned = file.pinned
  /\ w # Tui /\ saving[w] = "command" /\ Writing(w) =>
       /\ \A n \in Names \ {Arg(w)} : mem[w].profiles[n] = Settled(file)[n]
       /\ mem[w].pinned = file.pinned
  /\ w = Tui /\ HasLoaded(w) =>
       /\ file.legacy => mem[w].profiles = Settled(file)
       /\ file.pinned => mem[w].pinned
       /\ saving[w] = "command" /\ Writing(w) =>
            mem[w].profiles \in {file.profiles, Settled(file)}
TableKept == IsConfig(file) => \A w \in Procs : broken[w] \/ FollowsFile(w)

\* Where something old is pinned, nothing was bumped, and the other way round.
HasKnob(c, ks) ==
  c.knob \in ks \/ \E n \in Names : c.profiles[n] # None /\ c.profiles[n].knob \in ks
OldKept ==
  \/ /\ IsConfig(file) /\ file.pinned /\ ~HasKnob(file, {"new", "wild"})
     /\ \A w \in Procs : HasLoaded(w) => mem[w].pinned /\ ~HasKnob(mem[w], {"new", "wild"})
     /\ known \notin {"new", "wild"}
  \/ /\ IsConfig(file) => (file.legacy /\ ~file.pinned) \/ ~HasKnob(file, {"old"})
     /\ \A w \in Procs : ~HasKnob(mem[w], {"old"})
     /\ known # "old"

\* A load saves what it has made of the file that is still there.
LoadKept ==
  \A w \in Procs :
    /\ Writing(w) /\ saving[w] = "load" => WillSave
    /\ file = Missing /\ HasLoaded(w) =>
         /\ ~broken[w] /\ (saving[w] = "load" => mem[w] = Defaults)
         /\ w # Tui => ~mem[w].pinned

\* What holds of the file however saves meet.
FlaglessTmp == tmp # None /\ tmp.content # Torn => NoFlag(tmp.content) /\ tmp.content.knob # "flag"
Always == /\ TypeOK /\ FlagIsForTheSession /\ CommandsChecked
          /\ LockKept /\ AskKept /\ FlagKept /\ BrokenKept /\ FlaglessTmp
\* What holds until two processes save at the same time, which by LockKept takes
\* a load that saves.
OneSaver == \A w, x \in Procs : Writing(w) /\ Writing(x) => w = x
Apart == OneSaver /\ Whole /\ TmpKept /\ LoadKept /\ TableKept /\ OldKept
StoreInv == Always /\ (~raced => Apart)

\* Refuted: and so does the TUI.  read_disk_profiles checks nothing, so what it
\* brings in before a save or a look for a profile can be applied unchecked.
ValuesChecked == ValidField(mem[Tui].knob)

\* The table of profiles is the CLI's: but for migration and validation, it
\* changes only when a command writes, and only at the name of that command.
ClisOwnTable ==
  \/ ~IsConfig(file) \/ ~IsConfig(file')
  \/ file'.profiles \in {file.profiles, Settled(file)}
  \/ \E w \in Clis : /\ stage[w] = "replace" /\ saving[w] = "command"
                    /\ \A n \in Names \ {Arg(w)} : file'.profiles[n] = Settled(file)[n]
ProfilesKept == [][raced \/ ClisOwnTable]_vars

\* Refuted: the lock "keeps one writer from saving over an edit the other made
\* in between" (config_lock).  The save of a load holds no lock: begun before
\* `profile save`, and over after it, it takes the profile away again.
NoEditIsLost == [][ClisOwnTable]_vars

\* A file that did not load is touched by nobody but the user.  A pin stays, and
\* what it pins is not bumped, at top level or in a profile, until two processes
\* save at the same time.
Bumped(s, t) == s # None /\ t # None /\ s.knob = "old" /\ t.knob = "new"
UsersStay ==
  [][/\ file = Bad => file' \in {Bad, Current}
     /\ ~raced /\ IsConfig(file) /\ file.pinned =>
          /\ IsConfig(file') /\ file'.pinned /\ ~Bumped(file, file')
          /\ \A n \in Names : ~Bumped(file.profiles[n], file'.profiles[n])]_vars

\* Refuted: a profile is applied as it is saved.  A TUI that has a profile of
\* that name in memory applies that one.
AppliesSaved ==
  [][\A c \in Clis : TuiServes(c) /\ Op(c) = "use" /\ serving' = c /\ IsConfig(file) =>
       file.profiles[Arg(c)] \in {None, Snapshot(mem'[Tui])}]_vars
=============================================================================
