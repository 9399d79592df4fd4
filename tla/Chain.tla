------------------------------- MODULE Chain -------------------------------
(***************************************************************************)
(* The modules that woys loads into the audio server: the virtual          *)
(* microphone (WoysSink and woys-mic, src/audio/pipewire.py) and the       *)
(* RNNoise chain behind it (src/woys/chain.py), as the commands that load  *)
(* and unload them see it.  Every step is one call of pactl or systemctl;  *)
(* each may fail, and a command may end at each: a call that takes longer  *)
(* than five seconds raises, and nothing rolls back what was done.         *)
(*                                                                         *)
(* The audio server is not part of the repository: a name is taken by one  *)
(* source at a time, a module goes with the node it has made when that     *)
(* node is destroyed, and all modules go when the server restarts.         *)
(***************************************************************************)
EXTENDS Naturals, FiniteSets, FiniteSetsExt

CONSTANTS Cmds,             \* processes that run the commands below
          MaxRuns,             \* bounds: of commands, of calls that fail, hang or
          MaxFails, MaxDeaths  \* are cut off, of those that hang or are cut off

ChainAssumption ==
  IsFiniteSet(Cmds) /\ MaxRuns \in Nat /\ MaxFails \in Nat /\ MaxDeaths \in Nat

\* Modules of the chain in the order of loading; those of the microphone; the
\* source of releases before 0.6.5.
ChainKinds == {"null-sink", "ladspa-sink", "loopback", "user-source"}
LoadOrder == [k \in ChainKinds |->
  CASE k = "null-sink" -> 1 [] k = "ladspa-sink" -> 2 [] k = "loopback" -> 3 [] k = "user-source" -> 4]
Kinds == ChainKinds \cup {"sink", "mic", "legacy"}
Labels == {"daily", "internal"}
Modules == [id : Nat, kind : Kinds, label : Labels]

Ops == {"setup", "teardown", "enable", "disable", "pw-setup", "pw-teardown"}

VARIABLES
  loaded,     \* the modules in the audio server
  unit,       \* woys-chain.service is installed
  active,     \* and has been started
  op, at,     \* per process: its command and its next call; "idle"
  via,        \* the command on whose behalf systemd runs this one, or "cli"
  todo,       \* modules it has listed and will unload, or kinds it will load
  stuck,      \* some of its unloads have failed; kept until its next command
  old,        \* the module that a relabel replaces, as a set; the modules that
              \* `pw setup` has seen
  result,     \* exit status of the last command of a process; 9 is an exception
  alone,      \* no other command and no restart of the server came in between
  had,        \* woys-mic was there when it began, and when setup looked for it
  runs, fails, deaths    \* bounds

chainVars == <<loaded, unit, active, op, at, via, todo, stuck, old, result, alone, had, runs, fails, deaths>>
unitVars == <<unit, active>>
frame == <<unitVars, alone, had, runs, deaths>>

ChainInit ==
  /\ loaded \in {{}, {[id |-> 1, kind |-> "sink", label |-> "daily"], [id |-> 2, kind |-> "mic", label |-> "daily"]},
                 {[id |-> 1, kind |-> "legacy", label |-> "daily"]}}
  /\ unit = FALSE /\ active = FALSE
  /\ op = [p \in Cmds |-> "setup"] /\ at = [p \in Cmds |-> "idle"] /\ via = [p \in Cmds |-> "cli"]
  /\ todo = [p \in Cmds |-> {}] /\ stuck = [p \in Cmds |-> FALSE] /\ old = [p \in Cmds |-> {}]
  /\ result = [p \in Cmds |-> 9] /\ alone = [p \in Cmds |-> FALSE] /\ had = alone
  /\ runs = 0 /\ fails = 0 /\ deaths = 0

OfKind(ks) == {m \in loaded : m.kind \in ks}
\* The id the server gives next: one that is neither in use nor remembered.
Remembered == {m.id : m \in loaded \cup UNION {todo[p] \cup old[p] : p \in Cmds}}
FreshId == Min(1 .. (Cardinality(Remembered) + 1) \ Remembered)
NewModule(k, l) == [id |-> FreshId, kind |-> k, label |-> l]

\* A call that fails, counted.
Fails == fails + deaths < MaxFails /\ fails' = fails + 1
Works == UNCHANGED fails

Goto(p, a) == at' = [at EXCEPT ![p] = a]
Keeps(p) == UNCHANGED <<op, via, todo, stuck, old, result>>

-----------------------------------------------------------------------------
(* Begin and end of a command.                                             *)

\* Two commands at once: one of them is the `pw setup` that the TUI runs when
\* it starts.
Beside(p, o) == \A q \in Cmds \ {p} : at[q] = "idle" \/ o = "pw-setup" \/ op[q] = "pw-setup"
Entry(o) ==
  CASE o = "setup" -> "check" [] o = "teardown" -> "list" [] o = "enable" -> "unit"
    [] o = "disable" -> "unit" [] o = "pw-setup" -> "legacy" [] o = "pw-teardown" -> "pw-list"
Begin(p) ==
  \E o \in Ops :
    /\ at[p] = "idle" /\ runs < MaxRuns /\ Beside(p, o)
    /\ runs' = runs + 1
    /\ op' = [q \in Cmds |-> IF q = p THEN o ELSE IF at[q] = "idle" THEN "setup" ELSE op[q]] /\ Goto(p, Entry(o))
    /\ result' = [q \in Cmds |-> IF at[q] = "idle" THEN 9 ELSE result[q]]
    /\ alone' = [q \in Cmds |-> q = p /\ \A x \in Cmds : at[x] = "idle"]
    /\ had' = [q \in Cmds |-> IF q = p THEN OfKind({"mic"}) # {} ELSE at[q] # "idle" /\ had[q]]
    /\ stuck' = [q \in Cmds |-> at[q] # "idle" /\ stuck[q]]
    /\ UNCHANGED <<loaded, unitVars, via, todo, old, fails, deaths>>

Clean(p) == todo' = [todo EXCEPT ![p] = {}] /\ old' = [old EXCEPT ![p] = {}] /\ UNCHANGED stuck
\* A command ends, or the one that systemd ran for another.
Finish(p, r) ==
  /\ Clean(p)
  /\ IF via[p] = "cli" THEN /\ Goto(p, "idle")
                            /\ result' = [result EXCEPT ![p] = r]
                            /\ UNCHANGED <<op, via>>
     ELSE /\ Goto(p, IF via[p] = "enable" THEN "started" ELSE "stopped")
          /\ op' = [op EXCEPT ![p] = via[p]]
          /\ result' = [result EXCEPT ![p] = r]
          /\ via' = [via EXCEPT ![p] = "cli"]

-----------------------------------------------------------------------------
(* _clear_chain: list, then unload in reverse order of loading.            *)

ListChain(p) ==
  /\ at[p] = "list"
  /\ \/ Works /\ todo' = [todo EXCEPT ![p] = OfKind(ChainKinds)] /\ Goto(p, "unload") /\ UNCHANGED stuck
     \/ Fails /\ stuck' = [stuck EXCEPT ![p] = TRUE] /\ Goto(p, "cleared") /\ UNCHANGED todo
  /\ UNCHANGED <<loaded, frame, op, via, old, result>>

\* "No such entity" is what was wanted.
Unload(p) ==
  /\ at[p] = "unload" /\ todo[p] # {}
  /\ \E m \in todo[p] :
       /\ \A n \in todo[p] : LoadOrder[n.kind] <= LoadOrder[m.kind]
       /\ todo' = [todo EXCEPT ![p] = @ \ {m}]
       /\ \/ Works /\ loaded' = loaded \ {m} /\ UNCHANGED stuck
          \/ m \in loaded /\ Fails /\ stuck' = [stuck EXCEPT ![p] = TRUE] /\ UNCHANGED loaded
  /\ UNCHANGED <<frame, op, at, via, old, result>>
Unloaded(p) ==
  /\ at[p] = "unload" /\ todo[p] = {} /\ Goto(p, "cleared")
  /\ UNCHANGED <<loaded, frame, fails>> /\ Keeps(p)

\* A bug: a stale chain that could not be cleared is ignored.
ClearedWhatever(p) == TRUE
ClearedFor(p) == ~stuck[p]

-----------------------------------------------------------------------------
(* setup() and teardown().                                                 *)

SetupChecks(p) ==
  /\ at[p] = "check"
  /\ \/ Works /\ OfKind({"mic"}) # {} /\ Goto(p, "list") /\ Keeps(p) /\ UNCHANGED had
     \/ Works /\ OfKind({"mic"}) = {} /\ Finish(p, 2) /\ had' = [had EXCEPT ![p] = FALSE]
     \/ Fails /\ Finish(p, 2) /\ UNCHANGED had
  /\ UNCHANGED <<loaded, unitVars, alone, runs, deaths>>
SetupCleared(p) ==
  /\ at[p] = "cleared" /\ op[p] = "setup" /\ old[p] = {}
  /\ IF ClearedFor(p) THEN Goto(p, "null-sink") /\ Keeps(p) ELSE Finish(p, 2)
  /\ UNCHANGED <<loaded, frame, fails>>

\* A bug: what was loaded stays.
NoRollback(p) == Finish(p, 2)
\* A load fails: clear what is there, and fail.
Rollback(p) == IF at[p] = "null-sink" THEN Finish(p, 2) ELSE Goto(p, "rollback") /\ Keeps(p)
LoadNext(p) ==
  /\ at[p] \in ChainKinds
  /\ \/ /\ Works /\ loaded' = loaded \cup {NewModule(at[p], "daily")}
        /\ Goto(p, IF at[p] = "user-source" THEN "relabel"
                   ELSE CHOOSE k \in ChainKinds : LoadOrder[k] = LoadOrder[at[p]] + 1)
        /\ Keeps(p)
     \/ Fails /\ Rollback(p) /\ UNCHANGED loaded
  /\ UNCHANGED frame

RollsBack(p) ==
  /\ at[p] = "rollback"
  /\ \/ Works /\ Goto(p, "rolling") /\ todo' = [todo EXCEPT ![p] = OfKind(ChainKinds)]
        /\ UNCHANGED <<op, via, stuck, old, result>>
     \/ Fails /\ Finish(p, 2)
  /\ UNCHANGED <<loaded, frame>>
RolledBack(p) ==
  /\ at[p] = "rolling"
  /\ IF todo[p] = {} THEN Finish(p, 2) /\ UNCHANGED <<loaded, fails>>
     ELSE \E m \in todo[p] :
            /\ \A n \in todo[p] : LoadOrder[n.kind] <= LoadOrder[m.kind]
            /\ (Works /\ loaded' = loaded \ {m}) \/ (Fails /\ UNCHANGED loaded)
            /\ todo' = [todo EXCEPT ![p] = @ \ {m}]
            /\ UNCHANGED <<op, at, via, stuck, old, result>>
  /\ UNCHANGED frame

TeardownCleared(p) ==
  /\ at[p] = "cleared" /\ op[p] = "teardown"
  /\ IF ClearedFor(p) THEN Goto(p, "relabel") /\ Keeps(p) ELSE Finish(p, 2)
  /\ UNCHANGED <<loaded, frame, fails>>

-----------------------------------------------------------------------------
(* relabel_source: woys-mic is unloaded and loaded with another label.     *)

Label(p) == IF op[p] = "setup" THEN "internal" ELSE "daily"
NotRelabelled(p) == Finish(p, IF op[p] = "setup" THEN 2 ELSE 1)

RelabelList(p) ==
  /\ at[p] = "relabel"
  /\ \/ Fails /\ NotRelabelled(p)
     \/ Works /\ OfKind({"mic"}) = {} /\ Finish(p, 0)
     \/ /\ Works /\ \E m \in OfKind({"mic"}) : old' = [old EXCEPT ![p] = {m}]
        /\ Goto(p, "relabel-unload") /\ UNCHANGED <<op, via, todo, stuck, result>>
  /\ UNCHANGED <<loaded, frame>>
RelabelUnload(p) ==
  /\ at[p] = "relabel-unload"
  /\ \/ old[p] \subseteq loaded /\ Works /\ loaded' = loaded \ old[p] /\ Goto(p, "relabel-load") /\ Keeps(p)
     \/ old[p] \subseteq loaded /\ Fails /\ NotRelabelled(p) /\ UNCHANGED loaded
     \/ ~(old[p] \subseteq loaded) /\ Works /\ NotRelabelled(p) /\ UNCHANGED loaded
  /\ UNCHANGED frame
RelabelLoad(p) ==
  /\ at[p] = "relabel-load"
  /\ \/ OfKind({"mic"}) = {} /\ Works /\ loaded' = loaded \cup {NewModule("mic", Label(p))} /\ Finish(p, 0)
     \/ OfKind({"mic"}) = {} /\ Fails /\ Goto(p, "relabel-back") /\ Keeps(p) /\ UNCHANGED loaded
     \/ OfKind({"mic"}) # {} /\ Works /\ Goto(p, "relabel-back") /\ Keeps(p) /\ UNCHANGED loaded
  /\ UNCHANGED frame
\* A bug: the old module is not put back.
RestoresNone(p) == UNCHANGED loaded
Restores(p) == loaded' = loaded \cup {NewModule("mic", m.label) : m \in old[p]}
RelabelBack(p) ==
  /\ at[p] = "relabel-back"
  /\ \/ OfKind({"mic"}) = {} /\ Works /\ Restores(p)
     \/ OfKind({"mic"}) = {} /\ Fails /\ UNCHANGED loaded
     \/ OfKind({"mic"}) # {} /\ Works /\ UNCHANGED loaded
  /\ NotRelabelled(p)
  /\ UNCHANGED frame

-----------------------------------------------------------------------------
(* enable() and disable(): the unit runs setup at login, teardown when it  *)
(* is stopped.                                                             *)

Enable(p) ==
  /\ at[p] = "unit" /\ op[p] = "enable"
  /\ unit' = TRUE
  /\ \/ Fails /\ Finish(p, 2)
     \/ Works /\ active /\ Finish(p, 0)
     \/ /\ Works /\ ~active
        /\ op' = [op EXCEPT ![p] = "setup"] /\ via' = [via EXCEPT ![p] = "enable"]
        /\ Goto(p, "check") /\ UNCHANGED <<todo, stuck, old, result>>
  /\ UNCHANGED <<loaded, active, alone, had, runs, deaths>>
\* ExecStartPost is the health check; that the default sink is no woys sink
\* and nothing leaks into ALSA is up to the host.
Started(p) ==
  /\ at[p] = "started"
  /\ \/ result[p] = 0 /\ OfKind({"mic"}) # {} /\ active' = TRUE /\ Finish(p, 0)
     \/ active' = FALSE /\ Finish(p, 2)
  /\ UNCHANGED <<loaded, unit, alone, had, runs, fails, deaths>>

Disable(p) ==
  /\ at[p] = "unit" /\ op[p] = "disable"
  /\ \/ ~unit /\ Works /\ Goto(p, "list") /\ Keeps(p) /\ UNCHANGED unit
     \/ unit /\ Fails /\ Goto(p, "list") /\ UNCHANGED unit
        /\ result' = [result EXCEPT ![p] = 2] /\ UNCHANGED <<op, via, todo, stuck, old>>
     \/ unit /\ ~active /\ Works /\ Goto(p, "list") /\ Keeps(p) /\ unit' = FALSE
     \/ unit /\ ~active /\ Fails /\ Goto(p, "list") /\ unit' = FALSE
        /\ result' = [result EXCEPT ![p] = 2] /\ UNCHANGED <<op, via, todo, stuck, old>>
     \/ /\ unit /\ active /\ Works
        /\ op' = [op EXCEPT ![p] = "teardown"] /\ via' = [via EXCEPT ![p] = "disable"]
        /\ Goto(p, "list") /\ UNCHANGED <<todo, stuck, old, result, unit>>
  /\ UNCHANGED <<loaded, active, alone, had, runs, deaths>>
\* The unit file goes once the service has been stopped; systemd may fail to
\* read its units again.
Stopped(p) ==
  /\ at[p] = "stopped"
  /\ active' = FALSE /\ unit' = FALSE /\ Goto(p, "list")
  /\ \/ Works /\ result' = [result EXCEPT ![p] = 9]
     \/ Fails /\ result' = [result EXCEPT ![p] = 2]
  /\ stuck' = [stuck EXCEPT ![p] = FALSE]
  /\ UNCHANGED <<loaded, alone, had, runs, deaths, op, via, todo, old>>
DisableCleared(p) ==
  /\ at[p] = "cleared" /\ op[p] = "disable"
  /\ Finish(p, IF ~ClearedFor(p) \/ result[p] = 2 THEN 2 ELSE 0)
  /\ UNCHANGED <<loaded, frame, fails>>

-----------------------------------------------------------------------------
(* VirtualMic.ensure() and teardown().                                     *)

\* The legacy source goes, whether or not its unloading works.
PwLegacy(p) ==
  /\ at[p] = "legacy"
  /\ \/ Works /\ loaded' = loaded \ OfKind({"legacy"}) /\ Goto(p, "state") /\ Keeps(p)
     \/ Fails /\ OfKind({"legacy"}) # {} /\ Goto(p, "state") /\ Keeps(p) /\ UNCHANGED loaded
     \/ Fails /\ Finish(p, 2) /\ UNCHANGED loaded
  /\ UNCHANGED frame

\* get_state: which of the two are there.  What it sees here is what is loaded
\* after the sweep.
PwState(p) ==
  /\ at[p] = "state"
  /\ \/ Fails /\ Finish(p, 2)
     \/ Works /\ OfKind({"sink"}) # {} /\ OfKind({"mic"}) # {} /\ Finish(p, 0)
     \/ /\ Works /\ (OfKind({"sink"}) = {} \/ OfKind({"mic"}) = {})
        /\ Goto(p, "sweep") /\ old' = [old EXCEPT ![p] = OfKind({"sink", "mic"})]
        /\ UNCHANGED <<op, via, todo, stuck, result>>
  /\ UNCHANGED <<loaded, frame>>

\* _destroy_orphan_nodes: nodes are found by their name, those of modules that
\* are loaded too.  Without pw-cli, or when it cannot list, none are.
PwSweep(p) ==
  /\ at[p] = "sweep" \/ (at[p] = "pw-unload" /\ todo[p] = {})
  /\ \E found \in {{}, OfKind({"sink", "mic", "legacy"})} : todo' = [todo EXCEPT ![p] = found]
  /\ Goto(p, "sweeping")
  /\ UNCHANGED <<loaded, frame, fails, op, via, stuck, old, result>>
PwDestroy(p) ==
  /\ at[p] = "sweeping"
  /\ \E m \in todo[p] :
       /\ (Works /\ loaded' = loaded \ {m}) \/ (m \in loaded /\ Fails /\ UNCHANGED loaded)
       /\ todo' = [todo EXCEPT ![p] = @ \ {m}]
  /\ UNCHANGED <<frame, op, at, via, stuck, old, result>>
Seen(p) == {m.kind : m \in old[p]}
Swept(p, o) == at[p] = "sweeping" /\ todo[p] = {} /\ op[p] = o

PwLoadSink(p) ==
  /\ Swept(p, "pw-setup") /\ "sink" \notin Seen(p)
  /\ \/ /\ Works /\ loaded' = loaded \cup {NewModule("sink", "daily")}
        /\ Goto(p, IF "mic" \in Seen(p) THEN "ready" ELSE "mic") /\ Keeps(p)
     \/ Fails /\ Finish(p, 2) /\ UNCHANGED loaded
  /\ UNCHANGED frame
PwLoadMic(p) ==
  /\ at[p] = "mic" \/ (Swept(p, "pw-setup") /\ "sink" \in Seen(p))
  /\ \/ /\ OfKind({"mic"}) = {} /\ Works /\ loaded' = loaded \cup {NewModule("mic", "daily")}
        /\ Goto(p, "ready") /\ Keeps(p)
     \/ OfKind({"mic"}) = {} /\ Fails /\ Finish(p, 2) /\ UNCHANGED loaded
     \/ OfKind({"mic"}) # {} /\ Works /\ Finish(p, 2) /\ UNCHANGED loaded
  /\ UNCHANGED frame

\* get_state again: that it can be asked is enough for "woys-mic ready".
PwReady(p) ==
  /\ at[p] = "ready"
  /\ (Works /\ Finish(p, 0)) \/ (Fails /\ Finish(p, 2))
  /\ UNCHANGED <<loaded, frame>>

PwList(p) ==
  /\ at[p] = "pw-list"
  /\ \/ Works /\ todo' = [todo EXCEPT ![p] = OfKind({"mic", "sink", "legacy"})] /\ Goto(p, "pw-unload")
        /\ UNCHANGED <<op, via, stuck, old, result>>
     \/ Fails /\ Finish(p, 2)
  /\ UNCHANGED <<loaded, frame>>
PwUnload(p) ==
  /\ at[p] = "pw-unload" /\ todo[p] # {}
  /\ \E m \in todo[p] :
       /\ m.kind = "mic" \/ \A n \in todo[p] : n.kind # "mic"
       /\ (Works /\ loaded' = loaded \ {m}) \/ (m \in loaded /\ Fails /\ UNCHANGED loaded)
       /\ todo' = [todo EXCEPT ![p] = @ \ {m}]
  /\ UNCHANGED <<frame, op, at, via, stuck, old, result>>
\* A bug: the exit codes of the unloads are not looked at.
JudgedGone(p) == 0
\* Judged by what is still loaded.
Judged(p) == IF OfKind({"mic", "sink", "legacy"}) = {} THEN 0 ELSE 2
PwJudge(p) ==
  /\ Swept(p, "pw-teardown")
  /\ (Works /\ Finish(p, Judged(p))) \/ (Fails /\ Finish(p, 2))
  /\ UNCHANGED <<loaded, frame>>

-----------------------------------------------------------------------------
\* A call hangs, or the process is killed: it ends where it is; systemd sees
\* the command it runs fail.
Dies(p) ==
  /\ at[p] # "idle" /\ deaths < MaxDeaths /\ fails + deaths < MaxFails
  /\ deaths' = deaths + 1
  /\ Finish(p, 9)
  /\ UNCHANGED <<loaded, unitVars, alone, had, runs, fails>>
ServerRestarts ==
  /\ loaded # {} /\ deaths < MaxDeaths /\ fails + deaths < MaxFails
  /\ deaths' = deaths + 1
  /\ loaded' = {} /\ alone' = [p \in Cmds |-> FALSE]
  /\ UNCHANGED <<unitVars, op, at, via, todo, stuck, old, result, had, runs, fails>>

Step(p) ==
  \/ Begin(p) \/ ListChain(p) \/ Unload(p) \/ Unloaded(p)
  \/ SetupChecks(p) \/ SetupCleared(p) \/ LoadNext(p) \/ RollsBack(p) \/ RolledBack(p) \/ TeardownCleared(p)
  \/ RelabelList(p) \/ RelabelUnload(p) \/ RelabelLoad(p) \/ RelabelBack(p)
  \/ Enable(p) \/ Started(p) \/ Disable(p) \/ Stopped(p) \/ DisableCleared(p)
  \/ PwLegacy(p) \/ PwState(p) \/ PwSweep(p) \/ PwDestroy(p)
  \/ PwLoadSink(p) \/ PwLoadMic(p) \/ PwReady(p)
  \/ PwList(p) \/ PwUnload(p) \/ PwJudge(p)
  \/ Dies(p)
ChainNext == (\E p \in Cmds : Step(p)) \/ ServerRestarts

ChainSpec == ChainInit /\ [][ChainNext]_chainVars

-----------------------------------------------------------------------------
(* Properties.                                                             *)

ChainTypeOK ==
  /\ \A m \in loaded : m.id \in Nat /\ m.kind \in Kinds /\ m.label \in Labels
  /\ Cardinality(OfKind({"mic"})) <= 1
  /\ op \in [Cmds -> Ops] /\ via \in [Cmds -> {"cli", "enable", "disable"}]
  /\ result \in [Cmds -> {0, 1, 2, 9}]

Says(p, o, r) == at[p] = "idle" /\ alone[p] /\ op[p] = o /\ result[p] = r
Shown == {m \in OfKind({"mic", "user-source"}) : m.label = "daily"}

\* A setup that says it is active has exactly one of each module, and one
\* source that applications show, whatever earlier commands that failed or
\* died half-way had left; a teardown that succeeds leaves none of them, and
\* woys-mic is shown again.
ActiveIsWhole ==
  \A p \in Cmds :
    /\ Says(p, "setup", 0) =>
         /\ \A k \in ChainKinds : Cardinality(OfKind({k})) = 1
         /\ {m.kind : m \in Shown} = {"user-source"}
    /\ Says(p, "teardown", 0) =>
         OfKind(ChainKinds) = {} /\ \A m \in OfKind({"mic"}) : m.label = "daily"
    /\ Says(p, "teardown", 1) \/ Says(p, "disable", 0) => OfKind(ChainKinds) = {}
    /\ Says(p, "pw-teardown", 0) => OfKind({"mic", "sink", "legacy"}) = {}

\* One load that fails does not leave a part of the chain behind a setup that
\* has ended: it rolls back.  (An unload that fails leaves what it could not
\* unload, and the setup ends there; when it finds no woys-mic it does not
\* begin; and an `enable` of a unit that has been started sets up nothing.)
Quiet == \A p \in Cmds : at[p] = "idle"
HasSetUp(p) ==
  /\ at[p] = "idle" /\ had[p]
  /\ \/ op[p] = "setup" /\ result[p] # 9
     \/ op[p] = "enable" /\ result[p] = 2
AllOrNothing == {m.kind : m \in OfKind(ChainKinds)} \in {{}, ChainKinds}
NoHalfChain ==
  Quiet /\ deaths = 0 /\ fails <= 1 /\ (\A p \in Cmds : ~stuck[p]) /\ (\E p \in Cmds : HasSetUp(p)) =>
    AllOrNothing

\* One failing call does not cost the user woys-mic: a relabel unloads it and
\* loads it again, and what was there is there when the command has ended,
\* whichever call failed (none hung).  `pw teardown` takes it away, and so may
\* `pw setup`, as SetupKeepsMic says.
MicSurvives ==
  \A p \in Cmds :
    at[p] = "idle" /\ alone[p] /\ had[p] /\ op[p] \notin {"pw-teardown", "pw-setup"} /\ deaths = 0 /\ fails <= 1 =>
      OfKind({"mic"}) # {}

ChainInv == ChainTypeOK /\ ActiveIsWhole /\ NoHalfChain /\ MicSurvives

\* Refuted: without the chain, applications are shown woys-mic.  disable()
\* unloads a chain that no unit has loaded without relabelling it.
DisabledIsShown ==
  \A p \in Cmds : Says(p, "disable", 0) => \A m \in OfKind({"mic"}) : m.label = "daily"

\* Refuted: "enabled + started" is said of a chain that is there.  A unit that
\* has been started stays so when a teardown has unloaded a part of its chain.
EnabledIsWhole ==
  \A p \in Cmds : Says(p, "enable", 0) => \A k \in ChainKinds : Cardinality(OfKind({k})) = 1

\* Refuted: `pw setup` loads what is not there and leaves a woys-mic that is.
\* The sweep for orphans destroys it when WoysSink is missing, and it is not
\* loaded again: it was there when the command looked.
SetupKeepsMic ==
  \A p \in Cmds : Says(p, "pw-setup", 0) /\ had[p] => OfKind({"mic"}) # {}

\* Refuted: "woys-mic ready" is said of a woys-mic that is there.
ReadyIsThere ==
  \A p \in Cmds : Says(p, "pw-setup", 0) => OfKind({"sink"}) # {} /\ OfKind({"mic"}) # {}

\* Refuted: a relabel that does not take effect leaves woys-mic loaded.  A
\* pactl that hangs raises in the middle of it.
RelabelIsAtomic ==
  \A p \in Cmds :
    at[p] = "idle" /\ op[p] = "setup" /\ alone[p] /\ had[p] => OfKind({"mic"}) # {}
=============================================================================
