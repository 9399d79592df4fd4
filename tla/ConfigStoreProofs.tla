------------------------- MODULE ConfigStoreProofs -------------------------
(***************************************************************************)
(* config.toml, for any commands, names, voices, number of kills and of    *)
(* starts of the TUI: it is whole at any moment, a flag of `woys run` does *)
(* not get into it, commands change no other profile than their own, and   *)
(* nobody writes over a file that did not load or bumps what is pinned.    *)
(*                                                                         *)
(* The invariant says who may be saving when, so that what a process has   *)
(* in memory can be related to the file it is about to replace.            *)
(***************************************************************************)
EXTENDS ConfigStore, TLAPS

-----------------------------------------------------------------------------
(* Configurations.                                                         *)

Tables == [Names -> Snapshots \cup {None}]
Flagless(c) == c.knob # "flag" /\ NoFlag(c)
Valid(c) ==
  /\ ValidField(c.knob)
  /\ \A n \in Names : c.profiles[n] = None \/ ValidField(c.profiles[n].knob)

\* A profile after migration and validation, one by one.
SettledProfile(c, s) == ResetProfile(IF c.legacy THEN BumpProfile(c, s) ELSE s)

LEMMA MarkersApart ==
  /\ \A c \in Configs : IsConfig(c) /\ c # Missing /\ c # Bad /\ c # Torn
  /\ ~IsConfig(Missing) /\ ~IsConfig(Bad) /\ ~IsConfig(Torn)
  /\ Missing # Bad /\ Missing # Torn /\ Bad # Torn
  /\ None \notin Knobs /\ \A s \in Snapshots : s # None
  BY MarkersAssumption DEF IsConfig

LEMMA ProcsApart ==
  Tui \in Procs /\ Tui \notin Clis /\ None \notin Procs /\ Clis \subseteq Procs
  BY StoreAssumption DEF Procs

LEMMA DefaultsAre ==
  /\ Defaults \in Configs /\ ~Defaults.legacy /\ Flagless(Defaults) /\ Valid(Defaults)
  /\ ~HasKnob(Defaults, {"old"}) /\ ~Defaults.pinned /\ Defaults.knob = "new"
  BY MarkersAssumption DEF Defaults, Configs, Snapshots, Knobs, Flagless, NoFlag, Valid,
     ValidField, HasKnob

\* The changes made to a configuration leave its other fields alone.
SameBut(c, d, fields) ==
  /\ d \in Configs /\ d.legacy = c.legacy
  /\ "voice" \in fields \/ d.voice = c.voice
  /\ "knob" \in fields \/ d.knob = c.knob
  /\ "pinned" \in fields \/ d.pinned = c.pinned
  /\ "profiles" \in fields \/ d.profiles = c.profiles

LEMMA ConfigEdits ==
  ASSUME NEW c \in Configs, NEW k \in Knobs, NEW v \in Voices \cup {NoVoice}, NEW t \in Tables
  PROVE  /\ SameBut(c, [c EXCEPT !.knob = k], {"knob"}) /\ [c EXCEPT !.knob = k].knob = k
         /\ SameBut(c, [c EXCEPT !.voice = v], {"voice"}) /\ [c EXCEPT !.voice = v].voice = v
         /\ SameBut(c, [c EXCEPT !.voice = v, !.knob = k], {"voice", "knob"})
         /\ [c EXCEPT !.voice = v, !.knob = k].voice = v
         /\ [c EXCEPT !.voice = v, !.knob = k].knob = k
         /\ SameBut(c, [c EXCEPT !.knob = k, !.pinned = TRUE], {"knob", "pinned"})
         /\ [c EXCEPT !.knob = k, !.pinned = TRUE].knob = k
         /\ [c EXCEPT !.knob = k, !.pinned = TRUE].pinned = TRUE
         /\ SameBut(c, [c EXCEPT !.profiles = t], {"profiles"})
         /\ [c EXCEPT !.profiles = t].profiles = t
  BY DEF Configs, Tables, SameBut

\* What becomes of a profile.
LEMMA ProfileSettles ==
  ASSUME NEW c \in Configs, NEW s \in Snapshots \cup {None}
  PROVE  /\ SettledProfile(c, s) \in Snapshots \cup {None}
         /\ SettledProfile(c, s) = None <=> s = None
         /\ s # None =>
              /\ ValidField(SettledProfile(c, s).knob)
              /\ SettledProfile(c, s).knob = "flag" => s.knob = "flag"
              /\ c.legacy /\ ~c.pinned => SettledProfile(c, s).knob # "old"
              /\ SettledProfile(c, s).knob = "old" => s.knob = "old"
              /\ c.pinned /\ s.knob \notin {"new", "wild"} => SettledProfile(c, s) = s
              /\ ~c.legacy /\ ValidField(s.knob) => SettledProfile(c, s) = s
  <1>1. CASE s = None
    BY <1>1 DEF SettledProfile, ResetProfile, BumpProfile
  <1>2. CASE s \in Snapshots
    <2>1. s # None /\ s.knob \in Knobs /\ s.voice \in Voices \cup {NoVoice}
      BY <1>2, MarkersApart DEF Snapshots
    <2> DEFINE b == IF c.legacy THEN BumpProfile(c, s) ELSE s
    <2>2. /\ b \in Snapshots /\ b # None /\ b.knob \in Knobs
          /\ b = s \/ (c.legacy /\ ~c.pinned /\ s.knob = "old" /\ b.knob = "new")
          /\ c.legacy /\ ~c.pinned => b.knob # "old"
      BY <1>2, <2>1, MarkersApart DEF BumpProfile, Snapshots, Knobs
    <2>3. SettledProfile(c, s) = [b EXCEPT !.knob = Reset(b.knob)]
      BY <2>2 DEF SettledProfile, ResetProfile
    <2> HIDE DEF b
    <2>4. /\ SettledProfile(c, s) \in Snapshots
          /\ SettledProfile(c, s).knob = Reset(b.knob)
          /\ b.knob # "wild" => SettledProfile(c, s) = b
      BY <2>2, <2>3 DEF Reset, ValidField, Defaults, Snapshots, Knobs
    <2>5. SettledProfile(c, s) # None
      BY <2>4, MarkersApart
    <2> QED
      BY <2>1, <2>2, <2>4, <2>5 DEF Reset, ValidField, Defaults
  <1> QED
    BY <1>1, <1>2

\* What becomes of a configuration that is loaded.
LEMMA ConfigSettles ==
  ASSUME NEW c \in Configs
  PROVE  LET d == Checked(Migrated(c)) IN
         /\ d \in Configs /\ ~d.legacy /\ d.pinned = c.pinned /\ Valid(d)
         /\ d.profiles = [n \in Names |-> SettledProfile(c, c.profiles[n])]
         /\ d.profiles = Settled(c)
         /\ Flagless(c) => Flagless(d)
         /\ (c.legacy /\ ~c.pinned) \/ ~HasKnob(c, {"old"}) => ~HasKnob(d, {"old"})
         /\ c.pinned /\ ~HasKnob(c, {"new", "wild"}) => ~HasKnob(d, {"new", "wild"})
  <1> DEFINE m == Migrated(c)
             d == Checked(m)
  <1>1. /\ c.legacy \in BOOLEAN /\ c.pinned \in BOOLEAN /\ c.knob \in Knobs
        /\ c.voice \in Voices \cup {NoVoice} /\ c.profiles \in Tables
    BY DEF Configs, Tables
  <1>2. \A n \in Names : c.profiles[n] \in Snapshots \cup {None}
    BY <1>1 DEF Tables
  <1>3. /\ m.legacy = FALSE /\ m.pinned = c.pinned /\ m.voice = c.voice
        /\ m.knob = IF c.legacy /\ ~c.pinned /\ c.knob = "old" THEN "new" ELSE c.knob
        /\ m.profiles = [n \in Names |-> IF c.legacy THEN BumpProfile(c, c.profiles[n])
                                                      ELSE c.profiles[n]]
        /\ m = [legacy |-> FALSE, voice |-> c.voice, knob |-> m.knob, pinned |-> c.pinned,
                profiles |-> m.profiles]
    BY <1>1 DEF Migrated, Configs, Tables
  <1> HIDE DEF m
  <1>4. /\ d.legacy = FALSE /\ d.pinned = c.pinned /\ d.voice = c.voice
        /\ d.knob = Reset(m.knob)
        /\ d.profiles = [n \in Names |-> ResetProfile(m.profiles[n])]
        /\ d = [legacy |-> FALSE, voice |-> c.voice, knob |-> d.knob, pinned |-> c.pinned,
                profiles |-> d.profiles]
    <2> DEFINE k == m.knob
               t == m.profiles
               r == [n \in Names |-> ResetProfile(t[n])]
    <2>1. m = [legacy |-> FALSE, voice |-> c.voice, knob |-> k, pinned |-> c.pinned,
               profiles |-> t]
      BY <1>3
    <2>2. d = [m EXCEPT !.knob = Reset(k), !.profiles = r]
      BY DEF Checked
    <2> HIDE DEF k, t, r, d
    <2>3. d = [legacy |-> FALSE, voice |-> c.voice, knob |-> Reset(k), pinned |-> c.pinned,
               profiles |-> r]
      BY <2>1, <2>2
    <2> QED
      BY <2>3 DEF k, t, r
  <1>5. d.profiles = [n \in Names |-> SettledProfile(c, c.profiles[n])]
    BY <1>3, <1>4 DEF SettledProfile
  <1> HIDE DEF d
  <1>6. /\ d.knob \in Knobs /\ ValidField(d.knob)
        /\ d.knob = "flag" => c.knob = "flag"
        /\ (c.legacy /\ ~c.pinned) \/ c.knob # "old" => d.knob # "old"
        /\ c.pinned /\ c.knob \notin {"new", "wild"} => d.knob = c.knob
    BY <1>1, <1>3, <1>4 DEF Reset, ValidField, Defaults, Knobs
  <1>7. \A n \in Names :
          /\ d.profiles[n] \in Snapshots \cup {None}
          /\ d.profiles[n] = None <=> c.profiles[n] = None
          /\ c.profiles[n] # None =>
               /\ ValidField(d.profiles[n].knob)
               /\ d.profiles[n].knob = "flag" => c.profiles[n].knob = "flag"
               /\ c.legacy /\ ~c.pinned => d.profiles[n].knob # "old"
               /\ d.profiles[n].knob = "old" => c.profiles[n].knob = "old"
               /\ c.pinned /\ c.profiles[n].knob \notin {"new", "wild"} =>
                    d.profiles[n] = c.profiles[n]
    BY <1>2, <1>5, ProfileSettles
  <1>8. d \in Configs
    BY <1>1, <1>4, <1>5, <1>6, <1>7 DEF Configs
  <1>9. Valid(d) /\ (Flagless(c) => Flagless(d))
    BY <1>6, <1>7 DEF Valid, Flagless, NoFlag
  <1>10. (c.legacy /\ ~c.pinned) \/ ~HasKnob(c, {"old"}) => ~HasKnob(d, {"old"})
    BY <1>6, <1>7 DEF HasKnob
  <1>11. c.pinned /\ ~HasKnob(c, {"new", "wild"}) => ~HasKnob(d, {"new", "wild"})
    BY <1>6, <1>7 DEF HasKnob
  <1> QED
    BY <1>4, <1>5, <1>8, <1>9, <1>10, <1>11 DEF d, m, Settled

\* What was loaded stays as it is when it is loaded again.
LEMMA SettlesOnce ==
  ASSUME NEW c \in Configs, ~c.legacy, Valid(c)
  PROVE  Settled(c) = c.profiles /\ Migrated(c) = c
  <1>1. Migrated(c) = c
    BY DEF Migrated
  <1>2. c.profiles \in Tables
    BY DEF Configs, Tables
  <1>3. Settled(c) = [n \in Names |-> SettledProfile(c, c.profiles[n])]
    BY ConfigSettles
  <1>4. ASSUME NEW n \in Names PROVE SettledProfile(c, c.profiles[n]) = c.profiles[n]
    <2>1. c.profiles[n] \in Snapshots \cup {None}
      BY <1>2 DEF Tables
    <2> QED
      BY <2>1, ProfileSettles DEF Valid
  <1> QED
    BY <1>1, <1>2, <1>3, <1>4 DEF Tables

\* A table that a load has made stays as it is.
LEMMA TableSettles ==
  ASSUME NEW c \in Configs, ~c.legacy, NEW d \in Configs, c.profiles = Settled(d)
  PROVE  Settled(c) = c.profiles
  <1>1. c.profiles \in Tables /\ d.profiles \in Tables
    BY DEF Configs, Tables
  <1>2. /\ Settled(c) = [n \in Names |-> SettledProfile(c, c.profiles[n])]
        /\ Settled(d) = [n \in Names |-> SettledProfile(d, d.profiles[n])]
    BY ConfigSettles
  <1>3. ASSUME NEW n \in Names PROVE SettledProfile(c, c.profiles[n]) = c.profiles[n]
    <2>1. d.profiles[n] \in Snapshots \cup {None} /\ c.profiles[n] \in Snapshots \cup {None}
      BY <1>1 DEF Tables
    <2>2. c.profiles[n] = SettledProfile(d, d.profiles[n])
      BY <1>2
    <2>3. c.profiles[n] # None => ValidField(c.profiles[n].knob)
      BY <2>1, <2>2, ProfileSettles
    <2>4. CASE c.profiles[n] = None
      BY <2>4 DEF SettledProfile, ResetProfile, BumpProfile
    <2>5. CASE c.profiles[n] # None
      BY <2>1, <2>3, <2>5, ProfileSettles
    <2> QED
      BY <2>4, <2>5
  <1> QED
    BY <1>1, <1>2, <1>3 DEF Tables

-----------------------------------------------------------------------------
(* The parts of the invariant.                                             *)

DiskTypes ==
  /\ IsConfig(file) => file \in Configs
  /\ tmp # None => tmp.by \in Procs /\ (tmp.content = Torn \/ tmp.content \in Configs)
  /\ renamed \subseteq Procs /\ lock \in Procs \cup {None}

ProcTypes ==
  /\ command \in [Clis -> Commands]
  /\ stage \in [Procs -> {"idle", "lock", "reload", "load", "loaded", "open", "write", "replace",
                         "unlock", "ask", "asked", "replied", "up", "done"}]
  /\ broken \in [Procs -> BOOLEAN] /\ saving \in [Procs -> {"load", "command"}]
  /\ known \in Knobs \cup {None} /\ serving \in Procs \cup {None}
  /\ reply \in [Clis -> {"none", "done", "error", "unreachable", "failed"}]
  /\ raced \in BOOLEAN

MemTypes == mem \in [Procs -> Configs]

LEMMA StoreParts ==
  StoreInv <=> /\ DiskTypes /\ ProcTypes /\ MemTypes /\ FlagIsForTheSession /\ CommandsChecked
               /\ LockKept /\ AskKept /\ FlagKept /\ BrokenKept /\ FlaglessTmp
               /\ (~raced => OneSaver /\ Whole /\ TmpKept /\ LoadKept /\ TableKept /\ OldKept)
  BY DEF StoreInv, Always, Apart, TypeOK, DiskTypes, ProcTypes, MemTypes

LEMMA StorePartsNext ==
  StoreInv' <=>
    /\ DiskTypes' /\ ProcTypes' /\ MemTypes' /\ FlagIsForTheSession' /\ CommandsChecked'
    /\ LockKept' /\ AskKept' /\ FlagKept' /\ BrokenKept' /\ FlaglessTmp'
    /\ (~raced' => OneSaver' /\ Whole' /\ TmpKept' /\ LoadKept' /\ TableKept' /\ OldKept')
  BY DEF StoreInv, Always, Apart, TypeOK, DiskTypes, ProcTypes, MemTypes

-----------------------------------------------------------------------------
(* Steps that neither load, nor change, nor replace a configuration.       *)

\* Nobody has more in memory than before, and the file is the same.
Frame ==
  /\ UNCHANGED <<command, file>>
  /\ mem' \in [Procs -> Configs]
  /\ \A w \in Procs :
       /\ \/ mem'[w] = mem[w] /\ broken'[w] = broken[w] /\ saving'[w] = saving[w]
          \/ /\ mem'[w] = Defaults /\ broken'[w] = FALSE /\ saving'[w] = "load"
             /\ ~HasLoaded(w)'
       /\ HasLoaded(w)' => HasLoaded(w)
       /\ Writing(w)' => Writing(w)
       /\ stage'[w] = "loaded" =>
            Writing(w) \/ (stage[w] = "loaded" /\ (lock' = w => lock = w))
  /\ known' = known \/ (known' = None /\ mem'[Tui] = Defaults)

\* The two ways in which OldKept may hold.
WhatIsPinnedStays ==
  /\ IsConfig(file) /\ file.pinned /\ ~HasKnob(file, {"new", "wild"})
  /\ \A w \in Procs : HasLoaded(w) => mem[w].pinned /\ ~HasKnob(mem[w], {"new", "wild"})
  /\ known \notin {"new", "wild"}
NothingOldStays ==
  /\ IsConfig(file) => (file.legacy /\ ~file.pinned) \/ ~HasKnob(file, {"old"})
  /\ \A w \in Procs : ~HasKnob(mem[w], {"old"})
  /\ known # "old"

LEMMA FrameKeeps ==
  ASSUME StoreInv, Frame, DiskTypes', ProcTypes', LockKept', AskKept', FlaglessTmp',
         ~raced' => ~raced /\ TmpKept'
  PROVE  StoreInv'
  <1> USE ProcsApart
  <1>1. DiskTypes /\ ProcTypes /\ MemTypes /\ FlagIsForTheSession /\ CommandsChecked
        /\ LockKept /\ AskKept /\ FlagKept /\ BrokenKept /\ FlaglessTmp
        /\ (~raced => OneSaver /\ Whole /\ TmpKept /\ LoadKept /\ TableKept /\ OldKept)
    BY StoreParts
  <1>2. MemTypes' /\ FlagIsForTheSession'
    BY <1>1 DEF Frame, MemTypes, FlagIsForTheSession
  <1>3. CommandsChecked'
    <2> SUFFICES ASSUME NEW w \in Clis PROVE Valid(mem'[w])
      BY DEF CommandsChecked, Valid
    <2>1. Valid(mem[w])
      BY <1>1 DEF CommandsChecked, Valid
    <2>2. CASE mem'[w] = mem[w]
      BY <2>1, <2>2 DEF Valid
    <2>3. CASE mem'[w] = Defaults
      BY <2>3, DefaultsAre DEF Valid
    <2> QED
      BY <2>2, <2>3 DEF Frame
  <1>4. FlagKept'
    <2>1. known' # "flag"
      BY <1>1, MarkersAssumption DEF Frame, FlagKept, Knobs
    <2> SUFFICES ASSUME NEW w \in Procs
                 PROVE  /\ NoFlag(mem'[w])
                        /\ mem'[w].knob = "flag" => w = Tui /\ known' # None /\ saving'[w] = "command"
      BY <2>1 DEF FlagKept, NoFlag
    <2>2. CASE mem'[w] = mem[w] /\ saving'[w] = saving[w]
      <3>1. NoFlag(mem[w]) /\ (mem[w].knob = "flag" => w = Tui /\ known # None /\ saving[w] = "command")
        BY <1>1 DEF FlagKept
      <3> QED
        BY <2>2, <3>1, DefaultsAre DEF Frame, NoFlag
    <2>3. CASE mem'[w] = Defaults
      BY <2>3, DefaultsAre DEF Flagless, NoFlag
    <2> QED
      BY <2>2, <2>3 DEF Frame
  <1>5. BrokenKept'
    BY <1>1 DEF Frame, BrokenKept
  <1>6. ASSUME ~raced' PROVE OneSaver' /\ Whole' /\ LoadKept' /\ TableKept' /\ OldKept'
    <2> USE <1>6
    <2>1. OneSaver' /\ Whole'
      BY <1>1 DEF Frame, OneSaver, Whole
    <2>2. LoadKept'
      <3>1. WillSave' = WillSave
        BY DEF Frame, WillSave
      <3> SUFFICES ASSUME NEW w \in Procs, HasLoaded(w)'
                   PROVE  /\ Writing(w)' /\ saving'[w] = "load" => WillSave
                          /\ file = Missing =>
                               /\ ~broken'[w] /\ (saving'[w] = "load" => mem'[w] = Defaults)
                               /\ w # Tui => ~mem'[w].pinned
        BY <3>1 DEF LoadKept, HasLoaded, Writing, Frame
      <3>2. /\ mem'[w] = mem[w] /\ broken'[w] = broken[w] /\ saving'[w] = saving[w]
            /\ HasLoaded(w) /\ (Writing(w)' => Writing(w))
        BY DEF Frame
      <3> QED
        BY <1>1, <3>2 DEF LoadKept
    <2>3. TableKept'
      <3> SUFFICES ASSUME NEW w \in Procs, IsConfig(file), ~broken'[w]
                   PROVE  FollowsFile(w)'
        BY DEF Frame, TableKept
      <3>1. CASE mem'[w] = mem[w] /\ broken'[w] = broken[w] /\ saving'[w] = saving[w]
        BY <1>1, <3>1 DEF Frame, TableKept, FollowsFile, Arg
      <3>2. CASE ~HasLoaded(w)'
        <4>1. ~Writing(w)' /\ stage'[w] # "loaded"
          BY <3>2 DEF HasLoaded, Writing
        <4> QED
          BY <3>2, <4>1 DEF FollowsFile
      <3> QED
        BY <3>1, <3>2 DEF Frame
    <2>4. OldKept'
      <3>1. known' \in {known, None} /\ None \notin {"new", "wild", "old"}
        BY MarkersAssumption DEF Frame, Knobs
      <3>2. \A w \in Procs : mem'[w] \in {mem[w], Defaults}
                             /\ (HasLoaded(w)' => HasLoaded(w) /\ mem'[w] = mem[w])
        BY DEF Frame
      <3>3. CASE WhatIsPinnedStays
        <4>1. \A w \in Procs : HasLoaded(w)' =>
                  mem'[w].pinned /\ ~HasKnob(mem'[w], {"new", "wild"})
          BY <3>2, <3>3 DEF WhatIsPinnedStays
        <4>2. IsConfig(file) /\ file.pinned /\ ~HasKnob(file, {"new", "wild"})
              /\ known' \notin {"new", "wild"}
          BY <3>1, <3>3 DEF WhatIsPinnedStays
        <4> QED
          BY <4>1, <4>2 DEF Frame, OldKept
      <3>4. CASE NothingOldStays
        <4>1. \A w \in Procs : ~HasKnob(mem'[w], {"old"})
          BY <3>2, <3>4, DefaultsAre DEF NothingOldStays
        <4>2. (IsConfig(file) => (file.legacy /\ ~file.pinned) \/ ~HasKnob(file, {"old"}))
              /\ known' # "old"
          BY <3>1, <3>4 DEF NothingOldStays
        <4> QED
          BY <4>1, <4>2 DEF Frame, OldKept
      <3> QED
        BY <1>1, <3>3, <3>4 DEF OldKept, WhatIsPinnedStays, NothingOldStays
    <2> QED
      BY <2>1, <2>2, <2>3, <2>4
  <1> QED
    BY <1>1, <1>2, <1>3, <1>4, <1>5, <1>6, StorePartsNext

\* A process starts.
LEMMA BeginKeeps ==
  ASSUME StoreInv, NEW w \in Procs, Begin(w)
  PROVE  StoreInv'
  <1> USE ProcsApart
  <1>1. DiskTypes /\ ProcTypes /\ MemTypes /\ FlagIsForTheSession /\ CommandsChecked
        /\ LockKept /\ AskKept /\ FlagKept /\ BrokenKept /\ FlaglessTmp
        /\ (~raced => OneSaver /\ Whole /\ TmpKept /\ LoadKept /\ TableKept /\ OldKept)
    BY StoreParts
  <1>2. /\ stage[w] = "idle"
        /\ UNCHANGED <<command, file, tmp, renamed, lock, mem, broken, saving, known, serving, reply, raced>>
    BY DEF Begin, diskVars
  <1>3. \E s \in {"lock", "ask", "load"} : stage' = [stage EXCEPT ![w] = s]
                                           /\ (w = Tui => s = "load")
                                           /\ (s = "ask" => Op(w) = "voice")
    BY <1>1 DEF Begin, Locking, Op
  <1>4. Frame
    BY <1>1, <1>2, <1>3 DEF Frame, HasLoaded, Writing, ProcTypes, MemTypes
  <1>5. DiskTypes'
    BY <1>1, <1>2, <1>3 DEF DiskTypes, ProcTypes, MemTypes
  <1>6. ProcTypes'
    BY <1>1, <1>2, <1>3 DEF ProcTypes, DiskTypes
  <1>7. LockKept'
    BY <1>1, <1>2, <1>3 DEF LockKept, Writing, ProcTypes, DiskTypes
  <1>8. AskKept'
    BY <1>1, <1>2, <1>3 DEF AskKept, Op, ProcTypes, MemTypes
  <1>9. FlaglessTmp' /\ (~raced' => ~raced /\ TmpKept')
    BY <1>1, <1>2, <1>3 DEF FlaglessTmp, TmpKept, ToSave, ProcTypes, MemTypes
  <1> QED
    BY <1>4, <1>5, <1>6, <1>7, <1>8, <1>9, FrameKeeps

\* The lock is free, and taken.
LEMMA TakeLockKeeps ==
  ASSUME StoreInv, NEW w \in Procs, TakeLock(w)
  PROVE  StoreInv'
  <1> USE ProcsApart
  <1>1. DiskTypes /\ ProcTypes /\ MemTypes /\ FlagIsForTheSession /\ CommandsChecked
        /\ LockKept /\ AskKept /\ FlagKept /\ BrokenKept /\ FlaglessTmp
        /\ (~raced => OneSaver /\ Whole /\ TmpKept /\ LoadKept /\ TableKept /\ OldKept)
    BY StoreParts
  <1>2. /\ stage[w] = "lock" /\ lock = None /\ lock' = w
        /\ stage' = [stage EXCEPT ![w] = IF w = Tui THEN "reload" ELSE "load"]
        /\ UNCHANGED <<command, file, tmp, renamed, mem, broken, saving, known, serving, reply, raced>>
    BY DEF TakeLock, diskVars, tuiVars
  <1>3. Frame
    BY <1>1, <1>2 DEF Frame, HasLoaded, Writing, ProcTypes, MemTypes
  <1>4. DiskTypes'
    BY <1>1, <1>2 DEF DiskTypes, ProcTypes, MemTypes
  <1>5. ProcTypes'
    BY <1>1, <1>2 DEF ProcTypes, DiskTypes
  <1>6. LockKept'
    BY <1>1, <1>2 DEF LockKept, Writing, ProcTypes, DiskTypes
  <1>7. AskKept'
    BY <1>1, <1>2 DEF AskKept, Op, ProcTypes, MemTypes
  <1>8. FlaglessTmp' /\ (~raced' => ~raced /\ TmpKept')
    BY <1>1, <1>2 DEF FlaglessTmp, TmpKept, ToSave, ProcTypes, MemTypes
  <1> QED
    BY <1>3, <1>4, <1>5, <1>6, <1>7, <1>8, FrameKeeps

\* The temporary file is made anew.
LEMMA OpenTmpKeeps ==
  ASSUME StoreInv, NEW w \in Procs, OpenTmp(w)
  PROVE  StoreInv'
  <1> USE ProcsApart
  <1>1. DiskTypes /\ ProcTypes /\ MemTypes /\ FlagIsForTheSession /\ CommandsChecked
        /\ LockKept /\ AskKept /\ FlagKept /\ BrokenKept /\ FlaglessTmp
        /\ (~raced => OneSaver /\ Whole /\ TmpKept /\ LoadKept /\ TableKept /\ OldKept)
    BY StoreParts
  <1>2. /\ stage[w] = "open" /\ stage' = [stage EXCEPT ![w] = "write"]
        /\ tmp' = [by |-> w, content |-> Torn] /\ renamed' = renamed \ {w}
        /\ tmp' # None /\ tmp'.by = w /\ tmp'.content = Torn
        /\ UNCHANGED <<command, file, lock, mem, broken, saving, known, serving, reply, raced>>
    BY MarkersAssumption DEF OpenTmp, OpensTmp, tuiVars
  <1>3. ~raced => \A x \in Procs \ {w} : ~Writing(x)
    BY <1>1, <1>2 DEF OneSaver, Writing
  <1>4. Frame
    BY <1>1, <1>2, <1>3 DEF Frame, HasLoaded, Writing, ProcTypes, MemTypes
  <1>5. DiskTypes'
    BY <1>1, <1>2, <1>3 DEF DiskTypes, ProcTypes, MemTypes
  <1>6. ProcTypes'
    BY <1>1, <1>2, <1>3 DEF ProcTypes, DiskTypes
  <1>7. LockKept'
    BY <1>1, <1>2, <1>3 DEF LockKept, Writing, ProcTypes, DiskTypes
  <1>8. AskKept'
    BY <1>1, <1>2, <1>3 DEF AskKept, Op, ProcTypes, MemTypes
  <1>9. FlaglessTmp' /\ (~raced' => ~raced /\ TmpKept')
    BY <1>1, <1>2, <1>3 DEF FlaglessTmp, TmpKept, ToSave, ProcTypes, MemTypes, Writing
  <1> QED
    BY <1>4, <1>5, <1>6, <1>7, <1>8, <1>9, FrameKeeps

\* What a process saves, and what is left of a flag in it: nothing.
LEMMA SavedIs ==
  ASSUME StoreInv, NEW w \in Procs
  PROVE  ToSave(w) \in Configs /\ Flagless(ToSave(w))
  <1>1. DiskTypes /\ ProcTypes /\ MemTypes /\ FlagIsForTheSession /\ CommandsChecked
        /\ LockKept /\ AskKept /\ FlagKept /\ BrokenKept /\ FlaglessTmp
    BY StoreParts
  <1>2. /\ mem[w] \in Configs /\ NoFlag(mem[w]) /\ (known # None => known \in Knobs) /\ known # "flag"
        /\ mem[w].knob = "flag" => w = Tui /\ known # None /\ saving[w] = "command"
    BY <1>1 DEF MemTypes, ProcTypes, FlagKept
  <1>3. CASE w = Tui /\ saving[w] = "command" /\ known # None
    <2> DEFINE d == [mem[w] EXCEPT !.knob = known]
    <2>1. d \in Configs /\ d.knob = known /\ d.profiles = mem[w].profiles
      <3> HIDE <1>1
      <3> QED
        BY <1>2, <1>3 DEF Configs
    <2>2. ToSave(w) = d
      BY <1>3 DEF ToSave
    <2> QED
      BY <1>2, <2>1, <2>2 DEF Flagless, NoFlag
  <1>4. CASE ~(w = Tui /\ saving[w] = "command" /\ known # None)
    BY <1>2, <1>4 DEF ToSave, Flagless
  <1> QED
    BY <1>3, <1>4

\* Where saves have met: whatever is put under the name of config.toml is Torn,
\* or what somebody saves.
LEMMA RacedKeeps ==
  ASSUME StoreInv, raced, raced', DiskTypes', ProcTypes', LockKept', FlaglessTmp',
         UNCHANGED <<command, mem, broken, saving, known>>,
         file' # Bad, IsConfig(file') => Flagless(file'),
         \A x \in Procs : (Writing(x)' => Writing(x)) /\ (stage'[x] \in {"ask", "asked"} => stage'[x] = stage[x])
  PROVE  StoreInv'
  <1>1. DiskTypes /\ ProcTypes /\ MemTypes /\ FlagIsForTheSession /\ CommandsChecked
        /\ LockKept /\ AskKept /\ FlagKept /\ BrokenKept /\ FlaglessTmp
    BY StoreParts
  <1>2. MemTypes' /\ CommandsChecked' /\ FlagKept'
    BY <1>1 DEF MemTypes, CommandsChecked, FlagKept, NoFlag
  <1>5. AskKept'
    <2>1. ASSUME NEW x \in Clis, stage'[x] \in {"ask", "asked"} PROVE Op(x)' \in {"use", "voice"}
      <3>1. stage'[x] = stage[x]
        BY <2>1, ProcsApart
      <3> QED
        BY <1>1, <2>1, <3>1 DEF AskKept, Op
    <2> QED
      BY <1>1, <2>1 DEF AskKept
  <1>3. FlagIsForTheSession'
    BY DEF FlagIsForTheSession, Flagless, NoFlag, IsConfig
  <1>4. BrokenKept'
    BY <1>1 DEF BrokenKept
  <1> QED
    BY <1>2, <1>3, <1>4, <1>5, StorePartsNext

\* The writer writes to the file that it made, by now config.toml perhaps.
LEMMA WriteTmpKeeps ==
  ASSUME StoreInv, NEW w \in Procs, WriteTmp(w)
  PROVE  StoreInv'
  <1> USE ProcsApart
  <1>1. DiskTypes /\ ProcTypes /\ MemTypes /\ FlagIsForTheSession /\ CommandsChecked
        /\ LockKept /\ AskKept /\ FlagKept /\ BrokenKept /\ FlaglessTmp
        /\ (~raced => OneSaver /\ Whole /\ TmpKept /\ LoadKept /\ TableKept /\ OldKept)
    BY StoreParts
  <1>2. /\ stage[w] = "write" /\ stage' = [stage EXCEPT ![w] = "replace"]
        /\ renamed' = renamed \ {w}
        /\ UNCHANGED <<command, lock, mem, broken, saving, known, serving, reply, raced>>
    BY DEF WriteTmp, tuiVars
  <1>3. /\ tmp' = IF tmp # None /\ tmp.by = w THEN [by |-> w, content |-> ToSave(w)] ELSE tmp
        /\ file' = IF w \in renamed THEN ToSave(w) ELSE file
    BY DEF WriteTmp, WriteThrough
  <1>4. ~raced => /\ \A x \in Procs \ {w} : ~Writing(x)
                  /\ tmp # None /\ tmp.by = w /\ renamed = {}
    BY <1>1, <1>2 DEF OneSaver, Writing, TmpKept
  <1>5. ToSave(w) \in Configs /\ ToSave(w)' = ToSave(w) /\ Flagless(ToSave(w))
    BY <1>2, SavedIs DEF ToSave
  <1>6. DiskTypes'
    BY <1>1, <1>2, <1>3, <1>5 DEF DiskTypes, IsConfig
  <1>7. ProcTypes'
    BY <1>1, <1>2 DEF ProcTypes
  <1>8. LockKept'
    BY <1>1, <1>2 DEF LockKept, Writing, ProcTypes
  <1>9. AskKept'
    BY <1>1, <1>2 DEF AskKept, Op, ProcTypes, MemTypes
  <1>10. FlaglessTmp'
    BY <1>1, <1>3, <1>5 DEF FlaglessTmp, Flagless, NoFlag
  <1>11. ~raced' => ~raced /\ TmpKept'
    <2>1. [by |-> w, content |-> ToSave(w)] # None
      BY <1>5, MarkersAssumption
    <2> QED
      BY <1>1, <1>2, <1>3, <1>4, <1>5, <2>1 DEF TmpKept, ProcTypes, Writing
  <1>12. CASE file' = file
    <2>1. Frame
      BY <1>1, <1>2, <1>12 DEF Frame, HasLoaded, Writing, ProcTypes, MemTypes
    <2> QED
      BY <1>6, <1>7, <1>8, <1>9, <1>10, <1>11, <2>1, FrameKeeps
  <1>13. CASE file' # file
    <2>1. raced /\ raced' /\ file' = ToSave(w)
      BY <1>1, <1>2, <1>3, <1>4, <1>13
    <2>2. file' # Bad /\ (IsConfig(file') => Flagless(file'))
      BY <1>5, <2>1, MarkersApart
    <2>3. \A x \in Procs : (Writing(x)' => Writing(x)) /\ (stage'[x] \in {"ask", "asked"} => stage'[x] = stage[x])
      BY <1>1, <1>2 DEF Writing, ProcTypes
    <2> QED
      BY <1>2, <1>6, <1>7, <1>8, <1>10, <2>1, <2>2, <2>3, RacedKeeps
  <1> QED
    BY <1>12, <1>13

\* The disk is full: the temporary file goes.
LEMMA WriteFailsKeeps ==
  ASSUME StoreInv, NEW w \in Procs, WriteFails(w)
  PROVE  StoreInv'
  <1> USE ProcsApart
  <1>1. DiskTypes /\ ProcTypes /\ MemTypes /\ FlagIsForTheSession /\ CommandsChecked
        /\ LockKept /\ AskKept /\ FlagKept /\ BrokenKept /\ FlaglessTmp
        /\ (~raced => OneSaver /\ Whole /\ TmpKept /\ LoadKept /\ TableKept /\ OldKept)
    BY StoreParts
  <1>2. /\ stage[w] \in {"open", "write"} /\ stage' = [stage EXCEPT ![w] = AfterSave(w)]
        /\ tmp' \in {None, tmp} /\ renamed' = renamed \ {w}
        /\ UNCHANGED <<command, file, lock, mem, broken, saving, known, serving, reply, raced>>
    BY DEF WriteFails, tuiVars
  <1>3. ~raced => \A x \in Procs \ {w} : ~Writing(x)
    BY <1>1, <1>2 DEF OneSaver, Writing
  <1>4. AfterSave(w) = (IF saving[w] = "load" THEN "loaded" ELSE "unlock")
    BY DEF AfterSave
  <1>5. Frame
    BY <1>1, <1>2, <1>3, <1>4 DEF Frame, HasLoaded, Writing, ProcTypes, MemTypes
  <1>6. DiskTypes'
    BY <1>1, <1>2, <1>3, <1>4 DEF DiskTypes, ProcTypes, MemTypes
  <1>7. ProcTypes'
    BY <1>1, <1>2, <1>3, <1>4 DEF ProcTypes, DiskTypes
  <1>8. LockKept'
    BY <1>1, <1>2, <1>3, <1>4 DEF LockKept, Writing, ProcTypes, DiskTypes
  <1>9. AskKept'
    BY <1>1, <1>2, <1>3, <1>4 DEF AskKept, Op, ProcTypes, MemTypes
  <1>10. FlaglessTmp' /\ (~raced' => ~raced /\ TmpKept')
    BY <1>1, <1>2, <1>3, <1>4 DEF FlaglessTmp, TmpKept, ToSave, ProcTypes, MemTypes, Writing
  <1> QED
    BY <1>5, <1>6, <1>7, <1>8, <1>9, <1>10, FrameKeeps

\* A command has had its look, and forgets what it has seen.
LEMMA LookedKeeps ==
  ASSUME StoreInv, NEW w \in Procs, Looked(w)
  PROVE  StoreInv'
  <1> USE ProcsApart
  <1>1. DiskTypes /\ ProcTypes /\ MemTypes /\ FlagIsForTheSession /\ CommandsChecked
        /\ LockKept /\ AskKept /\ FlagKept /\ BrokenKept /\ FlaglessTmp
        /\ (~raced => OneSaver /\ Whole /\ TmpKept /\ LoadKept /\ TableKept /\ OldKept)
    BY StoreParts
  <1>2. /\ w \in Clis /\ stage[w] = "loaded" /\ lock # w
        /\ mem' = [mem EXCEPT ![w] = Defaults] /\ broken' = [broken EXCEPT ![w] = FALSE]
        /\ saving' = [saving EXCEPT ![w] = "load"]
        /\ UNCHANGED <<command, file, tmp, renamed, lock, known, serving, reply, raced>>
    BY DEF Looked, Forgets, diskVars, tuiVars
  <1>3. \E s \in {"done", "ask", "lock"} : /\ stage' = [stage EXCEPT ![w] = s]
                                           /\ s = "ask" => Op(w) = "use"
    BY DEF Looked
  <1>4. Defaults \in Configs /\ ~Defaults.legacy
    BY DefaultsAre
  <1>5. Frame
    BY <1>1, <1>2, <1>3, <1>4 DEF Frame, HasLoaded, Writing, ProcTypes, MemTypes
  <1>6. DiskTypes'
    BY <1>1, <1>2, <1>3, <1>4 DEF DiskTypes, ProcTypes, MemTypes
  <1>7. ProcTypes'
    BY <1>1, <1>2, <1>3, <1>4 DEF ProcTypes, DiskTypes
  <1>8. LockKept'
    BY <1>1, <1>2, <1>3, <1>4 DEF LockKept, Writing, ProcTypes, DiskTypes
  <1>9. AskKept'
    BY <1>1, <1>2, <1>3, <1>4 DEF AskKept, Op, ProcTypes, MemTypes
  <1>10. FlaglessTmp' /\ (~raced' => ~raced /\ TmpKept')
    BY <1>1, <1>2, <1>3, <1>4 DEF FlaglessTmp, TmpKept, ToSave, ProcTypes, MemTypes
  <1> QED
    BY <1>5, <1>6, <1>7, <1>8, <1>9, <1>10, FrameKeeps

\* A command is over.
LEMMA UnlockKeeps ==
  ASSUME StoreInv, NEW w \in Procs, Unlock(w)
  PROVE  StoreInv'
  <1> USE ProcsApart
  <1>1. DiskTypes /\ ProcTypes /\ MemTypes /\ FlagIsForTheSession /\ CommandsChecked
        /\ LockKept /\ AskKept /\ FlagKept /\ BrokenKept /\ FlaglessTmp
        /\ (~raced => OneSaver /\ Whole /\ TmpKept /\ LoadKept /\ TableKept /\ OldKept)
    BY StoreParts
  <1>2. /\ w \in Clis /\ stage[w] = "unlock" /\ lock' = None
        /\ stage' = [stage EXCEPT ![w] = "done"]
        /\ mem' = [mem EXCEPT ![w] = Defaults] /\ broken' = [broken EXCEPT ![w] = FALSE]
        /\ saving' = [saving EXCEPT ![w] = "load"]
        /\ UNCHANGED <<command, file, tmp, renamed, known, serving, reply, raced>>
    BY DEF Unlock, Forgets, diskVars, tuiVars
  <1>3. Defaults \in Configs /\ ~Defaults.legacy
    BY DefaultsAre
  <1>4. Frame
    BY <1>1, <1>2, <1>3 DEF Frame, HasLoaded, Writing, ProcTypes, MemTypes
  <1>5. DiskTypes'
    BY <1>1, <1>2, <1>3 DEF DiskTypes, ProcTypes, MemTypes
  <1>6. ProcTypes'
    BY <1>1, <1>2, <1>3 DEF ProcTypes, DiskTypes
  <1>7. LockKept'
    BY <1>1, <1>2, <1>3 DEF LockKept, Writing, ProcTypes, DiskTypes
  <1>8. AskKept'
    BY <1>1, <1>2, <1>3 DEF AskKept, Op, ProcTypes, MemTypes
  <1>9. FlaglessTmp' /\ (~raced' => ~raced /\ TmpKept')
    BY <1>1, <1>2, <1>3 DEF FlaglessTmp, TmpKept, ToSave, ProcTypes, MemTypes
  <1> QED
    BY <1>4, <1>5, <1>6, <1>7, <1>8, <1>9, FrameKeeps

\* The TUI releases the lock, and the client that waits has its answer.
LEMMA TuiUnlockKeeps ==
  ASSUME StoreInv, TuiUnlock
  PROVE  StoreInv'
  <1> USE ProcsApart
  <1>1. DiskTypes /\ ProcTypes /\ MemTypes /\ FlagIsForTheSession /\ CommandsChecked
        /\ LockKept /\ AskKept /\ FlagKept /\ BrokenKept /\ FlaglessTmp
        /\ (~raced => OneSaver /\ Whole /\ TmpKept /\ LoadKept /\ TableKept /\ OldKept)
    BY StoreParts
  <1>2. /\ stage[Tui] = "unlock" /\ lock' = None /\ serving' = None
        /\ UNCHANGED <<command, file, tmp, renamed, mem, broken, saving, known, raced>>
    BY DEF TuiUnlock, diskVars
  <1>3. \E r \in {"done", "error"} : \A c \in Clis : reply'[c] \in {r, reply[c]}
    BY DEF TuiUnlock
  <1>4. reply' \in [Clis -> {"none", "done", "error", "unreachable", "failed"}]
    BY <1>1, <1>3 DEF TuiUnlock, ProcTypes
  <1>5. /\ stage'[Tui] \in {"idle", "up"}
        /\ \A x \in Procs \ {Tui} : \/ stage'[x] = stage[x]
                                    \/ x \in Clis /\ stage[x] = "asked" /\ stage'[x] = "replied"
    <2> DEFINE A == {c \in Clis : c = serving /\ stage[c] = "asked"}
    <2>1. stage' = [x \in Procs |-> IF x \in A THEN "replied" ELSE IF x # Tui THEN stage[x]
                                   ELSE IF serving = Tui THEN "idle" ELSE "up"]
      BY DEF TuiUnlock
    <2>2. Tui \notin A /\ \A x \in A : x \in Clis /\ stage[x] = "asked"
      OBVIOUS
    <2> HIDE DEF A
    <2>3. \A x \in Procs : stage'[x] = IF x \in A THEN "replied" ELSE IF x # Tui THEN stage[x]
                                    ELSE IF serving = Tui THEN "idle" ELSE "up"
      BY <2>1
    <2> QED
      BY <2>2, <2>3
  <1>6. stage' \in [Procs -> {"idle", "lock", "reload", "load", "loaded", "open", "write", "replace",
                            "unlock", "ask", "asked", "replied", "up", "done"}]
    BY <1>1 DEF TuiUnlock, ProcTypes
  <1>7. Frame
    BY <1>1, <1>2, <1>3, <1>4, <1>5, <1>6 DEF Frame, HasLoaded, Writing, ProcTypes, MemTypes
  <1>8. DiskTypes'
    BY <1>1, <1>2, <1>3, <1>4, <1>5, <1>6 DEF DiskTypes, ProcTypes, MemTypes
  <1>9. ProcTypes'
    BY <1>1, <1>2, <1>3, <1>4, <1>5, <1>6 DEF ProcTypes, DiskTypes
  <1>10. LockKept'
    BY <1>1, <1>2, <1>3, <1>4, <1>5, <1>6 DEF LockKept, Writing, ProcTypes, DiskTypes
  <1>11. AskKept'
    BY <1>1, <1>2, <1>3, <1>4, <1>5, <1>6 DEF AskKept, Op, ProcTypes, MemTypes
  <1>12. FlaglessTmp' /\ (~raced' => ~raced /\ TmpKept')
    BY <1>1, <1>2, <1>3, <1>4, <1>5, <1>6 DEF FlaglessTmp, TmpKept, ToSave, ProcTypes, MemTypes
  <1> QED
    BY <1>7, <1>8, <1>9, <1>10, <1>11, <1>12, FrameKeeps

\* A command asks the TUI, or finds no TUI.
LEMMA AskKeeps ==
  ASSUME StoreInv, NEW w \in Procs, Ask(w)
  PROVE  StoreInv'
  <1> USE ProcsApart
  <1>1. DiskTypes /\ ProcTypes /\ MemTypes /\ FlagIsForTheSession /\ CommandsChecked
        /\ LockKept /\ AskKept /\ FlagKept /\ BrokenKept /\ FlaglessTmp
        /\ (~raced => OneSaver /\ Whole /\ TmpKept /\ LoadKept /\ TableKept /\ OldKept)
    BY StoreParts
  <1>2. /\ w \in Clis /\ stage[w] = "ask"
        /\ \E s \in {"asked", "replied"} : stage' = [stage EXCEPT ![w] = s]
        /\ UNCHANGED <<command, file, tmp, renamed, lock, mem, broken, saving, known, serving, raced>>
    BY DEF Ask, diskVars, tuiVars
  <1>3. reply' \in [Clis -> {"none", "done", "error", "unreachable", "failed"}]
    BY <1>1 DEF Ask, ProcTypes
  <1>4. Frame
    BY <1>1, <1>2, <1>3 DEF Frame, HasLoaded, Writing, ProcTypes, MemTypes
  <1>5. DiskTypes'
    BY <1>1, <1>2, <1>3 DEF DiskTypes, ProcTypes, MemTypes
  <1>6. ProcTypes'
    BY <1>1, <1>2, <1>3 DEF ProcTypes, DiskTypes
  <1>7. LockKept'
    BY <1>1, <1>2, <1>3 DEF LockKept, Writing, ProcTypes, DiskTypes
  <1>8. AskKept'
    BY <1>1, <1>2, <1>3 DEF AskKept, Op, ProcTypes, MemTypes
  <1>9. FlaglessTmp' /\ (~raced' => ~raced /\ TmpKept')
    BY <1>1, <1>2, <1>3 DEF FlaglessTmp, TmpKept, ToSave, ProcTypes, MemTypes
  <1> QED
    BY <1>4, <1>5, <1>6, <1>7, <1>8, <1>9, FrameKeeps

\* No answer comes.
LEMMA AskFailsKeeps ==
  ASSUME StoreInv, NEW w \in Procs, AskFails(w)
  PROVE  StoreInv'
  <1> USE ProcsApart
  <1>1. DiskTypes /\ ProcTypes /\ MemTypes /\ FlagIsForTheSession /\ CommandsChecked
        /\ LockKept /\ AskKept /\ FlagKept /\ BrokenKept /\ FlaglessTmp
        /\ (~raced => OneSaver /\ Whole /\ TmpKept /\ LoadKept /\ TableKept /\ OldKept)
    BY StoreParts
  <1>2. /\ w \in Clis /\ stage[w] = "asked" /\ stage' = [stage EXCEPT ![w] = "replied"]
        /\ reply' = [reply EXCEPT ![w] = "failed"]
        /\ UNCHANGED <<command, file, tmp, renamed, lock, mem, broken, saving, known, serving, raced>>
    BY DEF AskFails, diskVars, tuiVars
  <1>3. Frame
    BY <1>1, <1>2 DEF Frame, HasLoaded, Writing, ProcTypes, MemTypes
  <1>4. DiskTypes'
    BY <1>1, <1>2 DEF DiskTypes, ProcTypes, MemTypes
  <1>5. ProcTypes'
    BY <1>1, <1>2 DEF ProcTypes, DiskTypes
  <1>6. LockKept'
    BY <1>1, <1>2 DEF LockKept, Writing, ProcTypes, DiskTypes
  <1>7. AskKept'
    BY <1>1, <1>2 DEF AskKept, Op, ProcTypes, MemTypes
  <1>8. FlaglessTmp' /\ (~raced' => ~raced /\ TmpKept')
    BY <1>1, <1>2 DEF FlaglessTmp, TmpKept, ToSave, ProcTypes, MemTypes
  <1> QED
    BY <1>3, <1>4, <1>5, <1>6, <1>7, <1>8, FrameKeeps

\* With an answer the command is over; without one it writes itself.
LEMMA RepliedKeeps ==
  ASSUME StoreInv, NEW w \in Procs, Replied(w)
  PROVE  StoreInv'
  <1> USE ProcsApart
  <1>1. DiskTypes /\ ProcTypes /\ MemTypes /\ FlagIsForTheSession /\ CommandsChecked
        /\ LockKept /\ AskKept /\ FlagKept /\ BrokenKept /\ FlaglessTmp
        /\ (~raced => OneSaver /\ Whole /\ TmpKept /\ LoadKept /\ TableKept /\ OldKept)
    BY StoreParts
  <1>2. /\ w \in Clis /\ stage[w] = "replied" /\ reply' = [reply EXCEPT ![w] = "none"]
        /\ \E s \in {"done", "lock"} : stage' = [stage EXCEPT ![w] = s]
        /\ UNCHANGED <<command, file, tmp, renamed, lock, mem, broken, saving, known, serving, raced>>
    BY DEF Replied, diskVars, tuiVars
  <1>3. Frame
    BY <1>1, <1>2 DEF Frame, HasLoaded, Writing, ProcTypes, MemTypes
  <1>4. DiskTypes'
    BY <1>1, <1>2 DEF DiskTypes, ProcTypes, MemTypes
  <1>5. ProcTypes'
    BY <1>1, <1>2 DEF ProcTypes, DiskTypes
  <1>6. LockKept'
    BY <1>1, <1>2 DEF LockKept, Writing, ProcTypes, DiskTypes
  <1>7. AskKept'
    BY <1>1, <1>2 DEF AskKept, Op, ProcTypes, MemTypes
  <1>8. FlaglessTmp' /\ (~raced' => ~raced /\ TmpKept')
    BY <1>1, <1>2 DEF FlaglessTmp, TmpKept, ToSave, ProcTypes, MemTypes
  <1> QED
    BY <1>3, <1>4, <1>5, <1>6, <1>7, <1>8, FrameKeeps

\* The TUI is about to save.
LEMMA TuiSavesKeeps ==
  ASSUME StoreInv, TuiSaves
  PROVE  StoreInv'
  <1> USE ProcsApart
  <1>1. DiskTypes /\ ProcTypes /\ MemTypes /\ FlagIsForTheSession /\ CommandsChecked
        /\ LockKept /\ AskKept /\ FlagKept /\ BrokenKept /\ FlaglessTmp
        /\ (~raced => OneSaver /\ Whole /\ TmpKept /\ LoadKept /\ TableKept /\ OldKept)
    BY StoreParts
  <1>2. /\ stage[Tui] = "up" /\ stage' = [stage EXCEPT ![Tui] = "lock"]
        /\ serving' \in Procs \cup {None}
        /\ UNCHANGED <<command, file, tmp, renamed, lock, mem, broken, saving, known, reply, raced>>
    BY DEF TuiSaves, diskVars
  <1>3. Frame
    BY <1>1, <1>2 DEF Frame, HasLoaded, Writing, ProcTypes, MemTypes
  <1>4. DiskTypes'
    BY <1>1, <1>2 DEF DiskTypes, ProcTypes, MemTypes
  <1>5. ProcTypes'
    BY <1>1, <1>2 DEF ProcTypes, DiskTypes
  <1>6. LockKept'
    BY <1>1, <1>2 DEF LockKept, Writing, ProcTypes, DiskTypes
  <1>7. AskKept'
    BY <1>1, <1>2 DEF AskKept, Op, ProcTypes, MemTypes
  <1>8. FlaglessTmp' /\ (~raced' => ~raced /\ TmpKept')
    BY <1>1, <1>2 DEF FlaglessTmp, TmpKept, ToSave, ProcTypes, MemTypes
  <1> QED
    BY <1>3, <1>4, <1>5, <1>6, <1>7, <1>8, FrameKeeps

\* A process ends: what it had in memory is gone, and its lock is free.
LEMMA KillKeeps ==
  ASSUME StoreInv, NEW w \in Procs, Kill(w)
  PROVE  StoreInv'
  <1> USE ProcsApart
  <1>1. DiskTypes /\ ProcTypes /\ MemTypes /\ FlagIsForTheSession /\ CommandsChecked
        /\ LockKept /\ AskKept /\ FlagKept /\ BrokenKept /\ FlaglessTmp
        /\ (~raced => OneSaver /\ Whole /\ TmpKept /\ LoadKept /\ TableKept /\ OldKept)
    BY StoreParts
  <1>2. /\ stage[w] \notin {"idle", "done"} /\ stage' = [stage EXCEPT ![w] = IF w = Tui THEN "idle" ELSE "done"]
        /\ lock' = (IF lock = w THEN None ELSE lock)
        /\ known' = (IF w = Tui THEN None ELSE known)
        /\ serving' \in {serving, None}
        /\ mem' = [mem EXCEPT ![w] = Defaults] /\ broken' = [broken EXCEPT ![w] = FALSE]
        /\ saving' = [saving EXCEPT ![w] = "load"]
        /\ UNCHANGED <<command, file, tmp, renamed, reply, raced>>
    BY DEF Kill, Forgets, diskVars
  <1>3. Defaults \in Configs /\ ~Defaults.legacy
    BY DefaultsAre
  <1>4. Frame
    BY <1>1, <1>2, <1>3 DEF Frame, HasLoaded, Writing, ProcTypes, MemTypes
  <1>5. DiskTypes'
    BY <1>1, <1>2, <1>3 DEF DiskTypes, ProcTypes, MemTypes
  <1>6. ProcTypes'
    BY <1>1, <1>2, <1>3 DEF ProcTypes, DiskTypes
  <1>7. LockKept'
    BY <1>1, <1>2, <1>3 DEF LockKept, Writing, ProcTypes, DiskTypes
  <1>8. AskKept'
    BY <1>1, <1>2, <1>3 DEF AskKept, Op, ProcTypes, MemTypes
  <1>9. FlaglessTmp' /\ (~raced' => ~raced /\ TmpKept')
    BY <1>1, <1>2, <1>3 DEF FlaglessTmp, TmpKept, ToSave, ProcTypes, MemTypes
  <1> QED
    BY <1>4, <1>5, <1>6, <1>7, <1>8, <1>9, FrameKeeps

-----------------------------------------------------------------------------
(* Steps in which one process changes what it has in memory.               *)

\* Nobody else's memory changes.
OnlyMemoryOf(w) ==
  /\ UNCHANGED <<command, file>>
  /\ w # Tui => known' = known
  /\ \A x \in Procs \ {w} :
       /\ mem'[x] = mem[x] /\ broken'[x] = broken[x] /\ saving'[x] = saving[x]
       /\ HasLoaded(x)' => HasLoaded(x)
       /\ Writing(x)' => Writing(x)
       /\ stage'[x] = "loaded" => stage[x] = "loaded" /\ (lock' = x => lock = x)

\* What w has then is what the invariant asks of it.
MemoryFits(w) ==
  /\ w \in Clis => Valid(mem'[w])
  /\ known' # "flag" /\ NoFlag(mem'[w])
  /\ mem'[w].knob = "flag" => w = Tui /\ known' # None /\ saving'[w] = "command"
  /\ broken'[w] => ~Writing(w)'
  /\ file = Bad /\ HasLoaded(w)' => broken'[w]

\* And as long as saves do not meet.
MemoryFollows(w) ==
  /\ Writing(w)' => \A x \in Procs \ {w} : ~Writing(x)
  /\ Writing(w)' /\ saving'[w] = "load" => WillSave
  /\ file = Missing /\ HasLoaded(w)' =>
       /\ ~broken'[w] /\ (saving'[w] = "load" => mem'[w] = Defaults)
       /\ w # Tui => ~mem'[w].pinned
  /\ IsConfig(file) => broken'[w] \/ FollowsFile(w)'
  /\ WhatIsPinnedStays =>
       /\ HasLoaded(w)' => mem'[w].pinned /\ ~HasKnob(mem'[w], {"new", "wild"})
       /\ known' \notin {"new", "wild"}
  /\ NothingOldStays => ~HasKnob(mem'[w], {"old"}) /\ known' # "old"

LEMMA MemoryKeeps ==
  ASSUME StoreInv, NEW w \in Procs, OnlyMemoryOf(w), MemoryFits(w),
         DiskTypes', ProcTypes', MemTypes', LockKept', AskKept', FlaglessTmp',
         ~raced' => ~raced /\ TmpKept' /\ MemoryFollows(w)
  PROVE  StoreInv'
  <1> USE ProcsApart
  <1>1. DiskTypes /\ ProcTypes /\ MemTypes /\ FlagIsForTheSession /\ CommandsChecked
        /\ LockKept /\ AskKept /\ FlagKept /\ BrokenKept /\ FlaglessTmp
        /\ (~raced => OneSaver /\ Whole /\ TmpKept /\ LoadKept /\ TableKept /\ OldKept)
    BY StoreParts
  <1>2. FlagIsForTheSession'
    BY <1>1 DEF OnlyMemoryOf, FlagIsForTheSession
  <1>3. CommandsChecked'
    <2> SUFFICES ASSUME NEW x \in Clis PROVE Valid(mem'[x])
      BY DEF CommandsChecked, Valid
    <2>1. Valid(mem[x])
      BY <1>1 DEF CommandsChecked, Valid
    <2>2. CASE x = w
      BY <2>2 DEF MemoryFits, Valid
    <2>3. CASE x # w
      BY <2>1, <2>3 DEF OnlyMemoryOf, Valid
    <2> QED
      BY <2>2, <2>3
  <1>4. FlagKept'
    <2>1. known' # "flag"
      BY DEF MemoryFits
    <2> SUFFICES ASSUME NEW x \in Procs
                 PROVE  /\ NoFlag(mem'[x])
                        /\ mem'[x].knob = "flag" => x = Tui /\ known' # None /\ saving'[x] = "command"
      BY <2>1 DEF FlagKept, NoFlag
    <2>2. CASE x = w
      BY <2>2 DEF MemoryFits, NoFlag
    <2>3. CASE x # w
      <3>1. NoFlag(mem[x]) /\ (mem[x].knob = "flag" => x = Tui /\ known # None /\ saving[x] = "command")
        BY <1>1 DEF FlagKept
      <3> QED
        BY <2>3, <3>1 DEF OnlyMemoryOf, NoFlag
    <2> QED
      BY <2>2, <2>3
  <1>5. BrokenKept'
    BY <1>1 DEF OnlyMemoryOf, MemoryFits, BrokenKept
  <1>6. ASSUME ~raced' PROVE OneSaver' /\ Whole' /\ LoadKept' /\ TableKept' /\ OldKept'
    <2> USE <1>6
    <2>1. OneSaver' /\ Whole'
      BY <1>1 DEF OnlyMemoryOf, MemoryFollows, OneSaver, Whole
    <2>2. LoadKept'
      <3>1. WillSave' = WillSave
        BY DEF OnlyMemoryOf, WillSave
      <3> SUFFICES ASSUME NEW x \in Procs
                   PROVE  /\ Writing(x)' /\ saving'[x] = "load" => WillSave
                          /\ file = Missing /\ HasLoaded(x)' =>
                               /\ ~broken'[x] /\ (saving'[x] = "load" => mem'[x] = Defaults)
                               /\ x # Tui => ~mem'[x].pinned
        BY <3>1 DEF LoadKept, HasLoaded, Writing, OnlyMemoryOf
      <3>2. CASE x = w
        BY <3>2 DEF MemoryFollows
      <3>3. CASE x # w
        BY <1>1, <3>3 DEF OnlyMemoryOf, LoadKept
      <3> QED
        BY <3>2, <3>3
    <2>3. TableKept'
      <3> SUFFICES ASSUME NEW x \in Procs, IsConfig(file), ~broken'[x]
                   PROVE  FollowsFile(x)'
        BY DEF OnlyMemoryOf, TableKept
      <3>1. CASE x = w
        BY <3>1 DEF MemoryFollows
      <3>2. CASE x # w
        <4>1. ~broken[x] /\ FollowsFile(x)
          BY <1>1, <3>2 DEF OnlyMemoryOf, TableKept
        <4> QED
          BY <3>2, <4>1 DEF OnlyMemoryOf, FollowsFile, Arg
      <3> QED
        BY <3>1, <3>2
    <2>4. OldKept'
      <3>1. CASE WhatIsPinnedStays
        <4>1. ASSUME NEW x \in Procs, HasLoaded(x)'
              PROVE  mem'[x].pinned /\ ~HasKnob(mem'[x], {"new", "wild"})
          <5>1. CASE x = w
            BY <3>1, <4>1, <5>1 DEF MemoryFollows
          <5>2. CASE x # w
            BY <3>1, <4>1, <5>2 DEF OnlyMemoryOf, WhatIsPinnedStays
          <5> QED
            BY <5>1, <5>2
        <4>2. IsConfig(file) /\ file.pinned /\ ~HasKnob(file, {"new", "wild"})
              /\ known' \notin {"new", "wild"}
          BY <3>1 DEF WhatIsPinnedStays, MemoryFollows
        <4> QED
          BY <4>1, <4>2 DEF OnlyMemoryOf, OldKept
      <3>2. CASE NothingOldStays
        <4>1. ASSUME NEW x \in Procs PROVE ~HasKnob(mem'[x], {"old"})
          <5>1. CASE x = w
            BY <3>2, <5>1 DEF MemoryFollows
          <5>2. CASE x # w
            BY <3>2, <5>2 DEF OnlyMemoryOf, NothingOldStays
          <5> QED
            BY <5>1, <5>2
        <4>2. (IsConfig(file) => (file.legacy /\ ~file.pinned) \/ ~HasKnob(file, {"old"}))
              /\ known' # "old"
          BY <3>2 DEF NothingOldStays, MemoryFollows
        <4> QED
          BY <4>1, <4>2 DEF OnlyMemoryOf, OldKept
      <3> QED
        BY <1>1, <3>1, <3>2 DEF OldKept, WhatIsPinnedStays, NothingOldStays
    <2> QED
      BY <2>1, <2>2, <2>3, <2>4
  <1> QED
    BY <1>1, <1>2, <1>3, <1>4, <1>5, <1>6, StorePartsNext

\* Nobody touches the temporary file, and w has none.
LEMMA TmpStays ==
  ASSUME TmpKept, NEW w \in Procs, UNCHANGED <<tmp, renamed>>,
         stage'[w] \notin {"write", "replace"}, w # Tui => known' = known,
         \A x \in Procs \ {w} :
           /\ stage'[x] \in {"write", "replace"} => stage'[x] = stage[x]
           /\ mem'[x] = mem[x] /\ saving'[x] = saving[x]
  PROVE  TmpKept'
  <1>1. ASSUME NEW x \in Procs, stage'[x] \in {"write", "replace"}
        PROVE  /\ tmp # None /\ tmp.by = x
               /\ stage'[x] = "replace" => tmp.content = ToSave(x)'
    <2>1. x # w /\ stage'[x] = stage[x] /\ mem'[x] = mem[x] /\ saving'[x] = saving[x]
      BY <1>1
    <2>2. ToSave(x)' = ToSave(x)
      BY <2>1 DEF ToSave
    <2> QED
      BY <1>1, <2>1, <2>2 DEF TmpKept
  <1> QED
    BY <1>1 DEF TmpKept

\* A table with a profile replaced by one that is fit for it.
LEMMA TableEdited ==
  ASSUME NEW c \in Configs, NEW n \in Names, NEW s \in Snapshots \cup {None},
         ~c.legacy, Valid(c), Flagless(c),
         s # None => ValidField(s.knob) /\ s.knob # "flag"
  PROVE  LET d == [c EXCEPT !.profiles[n] = s] IN
         /\ d \in Configs /\ ~d.legacy /\ Valid(d) /\ Flagless(d) /\ d.pinned = c.pinned
         /\ \A m \in Names \ {n} : d.profiles[m] = c.profiles[m]
         /\ \A ks : ~HasKnob(c, ks) /\ (s # None => s.knob \notin ks) => ~HasKnob(d, ks)
  <1> DEFINE t == [c.profiles EXCEPT ![n] = s]
             d == [c EXCEPT !.profiles = t]
  <1>1. c.profiles \in Tables
    BY DEF Configs, Tables
  <1>2. t \in Tables /\ t[n] = s /\ \A m \in Names \ {n} : t[m] = c.profiles[m]
    BY <1>1 DEF Tables
  <1> HIDE DEF t
  <1>3. SameBut(c, d, {"profiles"}) /\ d.profiles = t
    BY <1>2 DEF SameBut, Configs, Tables
  <1> HIDE DEF d
  <1>4. d \in Configs /\ ~d.legacy /\ d.pinned = c.pinned /\ d.knob = c.knob
    BY <1>3 DEF SameBut
  <1>5. \A m \in Names : d.profiles[m] = c.profiles[m] \/ d.profiles[m] = s
    BY <1>2, <1>3
  <1>6. Valid(d) /\ Flagless(d)
    BY <1>4, <1>5 DEF Valid, Flagless, NoFlag
  <1>7. \A ks : ~HasKnob(c, ks) /\ (s # None => s.knob \notin ks) => ~HasKnob(d, ks)
    BY <1>4, <1>5 DEF HasKnob
  <1> QED
    BY <1>2, <1>3, <1>4, <1>6, <1>7 DEF d, t

\* A profile that is there, applied.
LEMMA ProfileApplied ==
  ASSUME NEW c \in Configs, NEW s \in Snapshots
  PROVE  LET d == Applied(c, s) IN
         /\ d \in Configs /\ d.legacy = c.legacy /\ d.pinned = c.pinned
         /\ d.knob = s.knob /\ d.profiles = c.profiles
  <1>1. s.voice \in Voices \cup {NoVoice} /\ s.knob \in Knobs
    BY DEF Snapshots
  <1>2. c.profiles \in Tables
    BY DEF Configs, Tables
  <1> QED
    BY <1>1, <1>2 DEF Applied, Configs, Tables

\* What a command writes: other profiles are left alone, and so is the pin.
LEMMA ChangedIs ==
  ASSUME NEW w \in Clis, command[w] \in Commands, mem[w] \in Configs,
         ~mem[w].legacy, Valid(mem[w]), Flagless(mem[w]), NEW d \in Changed(w)
  PROVE  /\ d \in Configs /\ ~d.legacy /\ Valid(d) /\ Flagless(d)
         /\ d.pinned = mem[w].pinned
         /\ \A n \in Names \ {Arg(w)} : d.profiles[n] = mem[w].profiles[n]
         /\ \A ks \in {{"old"}, {"new", "wild"}} : ~HasKnob(mem[w], ks) => ~HasKnob(d, ks)
  <1> DEFINE c == mem[w]
  <1>1. c \in Configs /\ ~c.legacy /\ Valid(c) /\ Flagless(c)
    OBVIOUS
  <1>2. /\ Op(w) \in {"save", "use", "delete", "import", "voice"}
        /\ Op(w) # "voice" => Arg(w) \in Names
        /\ Op(w) = "voice" => Arg(w) \in Voices
    BY StoreAssumption DEF Op, Arg
  <1>3. c.knob \in Knobs /\ c.voice \in Voices \cup {NoVoice} /\ c.profiles \in Tables
    BY <1>1 DEF Configs, Tables
  <1>4. CASE Op(w) = "save"
    <2>1. d = [c EXCEPT !.profiles[Arg(w)] = Snapshot(c)]
      BY <1>4 DEF Changed
    <2>2. Snapshot(c) \in Snapshots /\ Snapshot(c).knob = c.knob
      BY <1>3 DEF Snapshot, Snapshots
    <2>3. ValidField(c.knob) /\ c.knob # "flag" /\ \A ks : ~HasKnob(c, ks) => c.knob \notin ks
      BY <1>1 DEF Valid, Flagless, HasKnob
    <2> HIDE DEF c
    <2> QED
      BY <1>1, <1>2, <1>4, <2>1, <2>2, <2>3, TableEdited DEF c
  <1>5. CASE Op(w) = "use"
    <2> DEFINE s == c.profiles[Arg(w)]
    <2>1. d = IF s = None THEN c ELSE Applied(c, s)
      BY <1>5 DEF Changed
    <2>2. CASE s = None
      BY <1>1, <2>1, <2>2
    <2>3. CASE s # None
      <3>1. s \in Snapshots /\ s.knob \in Knobs
        BY <1>2, <1>3, <1>5, <2>3 DEF Tables, Snapshots
      <3>2. ValidField(s.knob) /\ s.knob # "flag" /\ \A ks : ~HasKnob(c, ks) => s.knob \notin ks
        BY <1>1, <1>2, <1>5, <2>3 DEF Valid, Flagless, NoFlag, HasKnob
      <3>3. d \in Configs /\ d.legacy = c.legacy /\ d.pinned = c.pinned
            /\ d.knob = s.knob /\ d.profiles = c.profiles
        BY <1>1, <2>1, <2>3, <3>1, ProfileApplied
      <3> QED
        BY <1>1, <3>2, <3>3 DEF Valid, Flagless, NoFlag, HasKnob
    <2> QED
      BY <2>2, <2>3
  <1>6. CASE Op(w) = "delete"
    <2>1. d = [c EXCEPT !.profiles[Arg(w)] = None]
      BY <1>6 DEF Changed
    <2> HIDE DEF c
    <2> QED
      BY <1>1, <1>2, <1>6, <2>1, TableEdited DEF c
  <1>7. CASE Op(w) = "import"
    <2>1. d = [c EXCEPT !.profiles[Arg(w)] = Foreign("own")]
      BY <1>7 DEF Changed, ValidField
    <2>2. Foreign("own") \in Snapshots /\ Foreign("own").knob = "own"
      BY DEF Foreign, Snapshots, Knobs
    <2>3. \A ks \in {{"old"}, {"new", "wild"}} : "own" \notin ks
      OBVIOUS
    <2> HIDE DEF c
    <2> QED
      BY <1>1, <1>2, <1>7, <2>1, <2>2, <2>3, TableEdited DEF c, ValidField
  <1>8. CASE Op(w) = "voice"
    <2>1. d = [c EXCEPT !.voice = Arg(w)]
      BY <1>8 DEF Changed
    <2>2. SameBut(c, d, {"voice"})
      BY <1>1, <1>2, <1>3, <1>8, <2>1, ConfigEdits
    <2> QED
      BY <1>1, <2>2 DEF SameBut, Valid, Flagless, NoFlag, HasKnob
  <1> QED
    BY <1>2, <1>4, <1>5, <1>6, <1>7, <1>8

\* The file is loaded, migrated and checked.
LEMMA LoadKeeps ==
  ASSUME StoreInv, NEW w \in Procs, Load(w)
  PROVE  StoreInv'
  <1> USE ProcsApart
  <1>1. DiskTypes /\ ProcTypes /\ MemTypes /\ FlagIsForTheSession /\ CommandsChecked
        /\ LockKept /\ AskKept /\ FlagKept /\ BrokenKept /\ FlaglessTmp
        /\ (~raced => OneSaver /\ Whole /\ TmpKept /\ LoadKept /\ TableKept /\ OldKept)
    BY StoreParts
  <1>2. /\ stage[w] = "load" /\ broken' = [broken EXCEPT ![w] = Unreadable]
        /\ saving' = [saving EXCEPT ![w] = "load"]
        /\ stage' = [stage EXCEPT ![w] = IF WillSave THEN "open" ELSE "loaded"]
        /\ raced' = (raced \/ (WillSave /\ \E x \in Procs \ {w} : Writing(x)))
        /\ UNCHANGED <<command, file, tmp, renamed, lock, known, serving, reply>>
    BY <1>1 DEF Load, MayRace, diskVars, tuiVars, ProcTypes
  <1>3. mem' = [mem EXCEPT ![w] = IF IsConfig(file) THEN Checked(Migrated(file)) ELSE Defaults]
    BY DEF Load
  <1>4. IsConfig(file) => file \in Configs /\ Flagless(file)
    BY <1>1 DEF DiskTypes, FlagIsForTheSession, Flagless, NoFlag
  <1>5. Unreadable => ~IsConfig(file) /\ ~WillSave
    BY MarkersApart DEF Unreadable, WillSave
  <1>6. /\ mem'[w] = IF IsConfig(file) THEN Checked(Migrated(file)) ELSE Defaults
        /\ mem'[w] \in Configs /\ ~mem'[w].legacy /\ Valid(mem'[w]) /\ Flagless(mem'[w])
        /\ IsConfig(file) => mem'[w].profiles = Settled(file) /\ mem'[w].pinned = file.pinned
    <2>1. mem'[w] = IF IsConfig(file) THEN Checked(Migrated(file)) ELSE Defaults
      BY <1>1, <1>3 DEF MemTypes
    <2>2. CASE IsConfig(file)
      <3>1. file \in Configs /\ Flagless(file)
        BY <1>4, <2>2
      <3> HIDE <1>1
      <3>2. LET d == Checked(Migrated(file)) IN
            d \in Configs /\ ~d.legacy /\ Valid(d) /\ Flagless(d)
            /\ d.profiles = Settled(file) /\ d.pinned = file.pinned
        BY <3>1, ConfigSettles
      <3> QED
        BY <2>1, <2>2, <3>2
    <2>3. CASE ~IsConfig(file)
      BY <2>1, <2>3, DefaultsAre
    <2> QED
      BY <2>2, <2>3
  <1>7. \A x \in Procs \ {w} : mem'[x] = mem[x]
    BY <1>3 DEF MemTypes
  <1>8. DiskTypes'
    BY <1>1, <1>2, <1>3, <1>4, <1>5, <1>6, <1>7 DEF DiskTypes, ProcTypes, MemTypes
  <1>9. ProcTypes'
    BY <1>1, <1>2 DEF ProcTypes, Unreadable
  <1>10. MemTypes'
    <2>1. mem'[w] \in Configs
      BY <1>6
    <2> QED
      BY <1>1, <1>3, <2>1 DEF MemTypes
  <1>11. LockKept'
    BY <1>1, <1>2 DEF LockKept, Writing, ProcTypes, DiskTypes
  <1>12. AskKept'
    BY <1>1, <1>2, <1>6, <1>7 DEF AskKept, Op, ProcTypes
  <1>13. FlaglessTmp' /\ (~raced' => ~raced /\ TmpKept')
    BY <1>1, <1>2, <1>7, TmpStays DEF ProcTypes, FlaglessTmp
  <1>14. OnlyMemoryOf(w)
    BY <1>1, <1>2, <1>7 DEF OnlyMemoryOf, HasLoaded, Writing, ProcTypes
  <1>15. MemoryFits(w) /\ (~raced' => MemoryFollows(w))
    <2>1. known' = known /\ known # "flag"
      BY <1>1, <1>2 DEF FlagKept
    <2>2. NoFlag(mem'[w]) /\ mem'[w].knob # "flag" /\ Valid(mem'[w])
      BY <1>6 DEF Flagless
    <2>3. broken'[w] => ~Writing(w)'
      BY <1>1, <1>2, <1>5 DEF ProcTypes, Writing
    <2>4. file = Bad => broken'[w]
      BY <1>1, <1>2 DEF ProcTypes, Unreadable
    <2>5. IsConfig(file) => FollowsFile(w)'
      BY <1>1, <1>2, <1>6 DEF FollowsFile, ProcTypes
    <2>6. WhatIsPinnedStays => mem'[w].pinned /\ ~HasKnob(mem'[w], {"new", "wild"})
                               /\ known \notin {"new", "wild"}
      BY <1>4, <1>6, ConfigSettles DEF WhatIsPinnedStays
    <2>7. NothingOldStays => ~HasKnob(mem'[w], {"old"}) /\ known # "old"
      BY <1>4, <1>6, ConfigSettles, DefaultsAre DEF NothingOldStays
    <2>20. ASSUME ~raced'
           PROVE  /\ Writing(w)' => \A x \in Procs \ {w} : ~Writing(x)
                  /\ Writing(w)' /\ saving'[w] = "load" => WillSave
                  /\ file = Missing /\ HasLoaded(w)' =>
                       /\ ~broken'[w] /\ (saving'[w] = "load" => mem'[w] = Defaults)
                       /\ w # Tui => ~mem'[w].pinned
      BY MarkersApart, <1>1, <1>2, <1>3, <1>5, <2>20, DefaultsAre DEF Writing, ProcTypes, MemTypes, Unreadable, IsConfig
    <2> QED
      BY <2>1, <2>2, <2>3, <2>4, <2>5, <2>6, <2>7, <2>20 DEF MemoryFits, MemoryFollows
  <1> QED
    BY <1>8, <1>9, <1>10, <1>11, <1>12, <1>13, <1>14, <1>15, MemoryKeeps

\* A command changes what it has loaded under the lock.
LEMMA ModifyKeeps ==
  ASSUME StoreInv, NEW w \in Procs, Modify(w)
  PROVE  StoreInv'
  <1> USE ProcsApart
  <1>1. DiskTypes /\ ProcTypes /\ MemTypes /\ FlagIsForTheSession /\ CommandsChecked
        /\ LockKept /\ AskKept /\ FlagKept /\ BrokenKept /\ FlaglessTmp
        /\ (~raced => OneSaver /\ Whole /\ TmpKept /\ LoadKept /\ TableKept /\ OldKept)
    BY StoreParts
  <1>2. /\ w \in Clis /\ stage[w] = "loaded" /\ lock = w /\ saving[w] = "load"
        /\ saving' = [saving EXCEPT ![w] = "command"]
        /\ UNCHANGED <<command, file, tmp, renamed, lock, broken, known, serving, reply>>
    BY <1>1 DEF Modify, diskVars, tuiVars, LockKept, ProcTypes
  <1>3. \/ /\ ~broken[w] /\ stage' = [stage EXCEPT ![w] = "open"]
           /\ raced' = (raced \/ \E x \in Procs \ {w} : Writing(x))
           /\ \E d \in Changed(w) : mem' = [mem EXCEPT ![w] = d]
        \/ mem' = mem /\ stage' = [stage EXCEPT ![w] = "unlock"] /\ raced' = raced
    BY DEF Modify, SaveRefused, MayRace
  <1>4. /\ mem'[w] \in Configs /\ ~mem'[w].legacy /\ Valid(mem'[w]) /\ Flagless(mem'[w])
        /\ mem'[w].pinned = mem[w].pinned
        /\ \A n \in Names \ {Arg(w)} : mem'[w].profiles[n] = mem[w].profiles[n]
        /\ \A ks \in {{"old"}, {"new", "wild"}} : ~HasKnob(mem[w], ks) => ~HasKnob(mem'[w], ks)
    <2>1. mem[w] \in Configs /\ ~mem[w].legacy /\ Valid(mem[w]) /\ Flagless(mem[w])
      BY <1>1, <1>2 DEF MemTypes, AskKept, CommandsChecked, Valid, FlagKept, Flagless
    <2>2. CASE mem' = mem
      BY <2>1, <2>2
    <2>3. ASSUME NEW d \in Changed(w), mem' = [mem EXCEPT ![w] = d] PROVE mem'[w] = d
      BY <1>1, <2>3 DEF MemTypes
    <2>4. w \in Clis /\ command[w] \in Commands
      BY <1>1, <1>2 DEF ProcTypes
    <2> QED
      BY <1>3, <2>1, <2>2, <2>3, <2>4, ChangedIs
  <1>5. \A x \in Procs \ {w} : mem'[x] = mem[x]
    BY <1>1, <1>3 DEF MemTypes
  <1>6. DiskTypes'
    BY <1>1, <1>2, <1>3, <1>4, <1>5 DEF DiskTypes, ProcTypes, MemTypes
  <1>7. ProcTypes'
    BY <1>1, <1>2, <1>3 DEF ProcTypes
  <1>8. MemTypes'
    <2>1. mem' = mem \/ \E d : mem' = [mem EXCEPT ![w] = d]
      BY <1>3
    <2> QED
      BY <1>1, <1>4, <2>1 DEF MemTypes
  <1>9. LockKept'
    BY <1>1, <1>2, <1>3 DEF LockKept, Writing, ProcTypes, DiskTypes
  <1>10. AskKept'
    BY <1>1, <1>2, <1>3, <1>4, <1>5 DEF AskKept, Op, ProcTypes
  <1>11. FlaglessTmp' /\ (~raced' => ~raced /\ TmpKept')
    BY <1>1, <1>2, <1>3, <1>5, TmpStays DEF ProcTypes, FlaglessTmp
  <1>12. OnlyMemoryOf(w)
    BY <1>1, <1>2, <1>3, <1>5 DEF OnlyMemoryOf, HasLoaded, Writing, ProcTypes
  <1>13. MemoryFits(w) /\ (~raced' => MemoryFollows(w))
    <2>1. known' = known /\ known # "flag"
      BY <1>1, <1>2 DEF FlagKept
    <2>2. NoFlag(mem'[w]) /\ mem'[w].knob # "flag" /\ Valid(mem'[w])
      BY <1>4 DEF Flagless
    <2>3. broken'[w] => ~Writing(w)'
      BY <1>1, <1>2, <1>3 DEF ProcTypes, Writing
    <2>4. file = Bad => broken'[w]
      BY <1>1, <1>2 DEF BrokenKept, HasLoaded
    <2>5. ~raced' /\ IsConfig(file) => broken'[w] \/ FollowsFile(w)'
      <3>1. HasLoaded(w) /\ saving'[w] = "command"
        BY <1>1, <1>2 DEF HasLoaded, ProcTypes
      <3>2. ~raced /\ IsConfig(file) /\ ~broken[w] =>
              mem[w].profiles = Settled(file) /\ mem[w].pinned = file.pinned
        BY <1>1, <1>2 DEF TableKept, FollowsFile
      <3>3. w # Tui /\ Arg(w)' = Arg(w)
        BY <1>2 DEF Arg
      <3>4. ~raced' => ~raced
        BY <1>3
      <3> QED
        BY <1>2, <1>4, <3>1, <3>2, <3>3, <3>4 DEF FollowsFile
    <2>6. WhatIsPinnedStays => mem'[w].pinned /\ ~HasKnob(mem'[w], {"new", "wild"})
                               /\ known \notin {"new", "wild"}
      BY <1>2, <1>4 DEF WhatIsPinnedStays, HasLoaded
    <2>7. NothingOldStays => ~HasKnob(mem'[w], {"old"}) /\ known # "old"
      BY <1>4 DEF NothingOldStays
    <2>20. ASSUME ~raced'
           PROVE  /\ Writing(w)' => \A x \in Procs \ {w} : ~Writing(x)
                  /\ Writing(w)' /\ saving'[w] = "load" => WillSave
                  /\ file = Missing /\ HasLoaded(w)' =>
                       /\ ~broken'[w] /\ (saving'[w] = "load" => mem'[w] = Defaults)
                       /\ w # Tui => ~mem'[w].pinned
      BY <1>1, <1>2, <1>3, <1>4, <2>20 DEF Writing, HasLoaded, ProcTypes, LoadKept
    <2> QED
      BY <2>1, <2>2, <2>3, <2>4, <2>5, <2>6, <2>7, <2>20 DEF MemoryFits, MemoryFollows
  <1> QED
    BY <1>6, <1>7, <1>8, <1>9, <1>10, <1>11, <1>12, <1>13, MemoryKeeps

\* The TUI is up, with the value of a flag in memory only.
LEMMA TuiUpKeeps ==
  ASSUME StoreInv, TuiUp
  PROVE  StoreInv'
  <1> USE ProcsApart
  <1>1. DiskTypes /\ ProcTypes /\ MemTypes /\ FlagIsForTheSession /\ CommandsChecked
        /\ LockKept /\ AskKept /\ FlagKept /\ BrokenKept /\ FlaglessTmp
        /\ (~raced => OneSaver /\ Whole /\ TmpKept /\ LoadKept /\ TableKept /\ OldKept)
    BY StoreParts
  <1>2. /\ stage[Tui] = "loaded" /\ saving[Tui] = "load"
        /\ stage' = [stage EXCEPT ![Tui] = "up"]
        /\ saving' = [saving EXCEPT ![Tui] = "command"]
        /\ UNCHANGED <<command, file, tmp, renamed, lock, broken, serving, reply, raced>>
    BY <1>1 DEF TuiUp, diskVars, LockKept
  <1>3. /\ mem' = [mem EXCEPT ![Tui] = [mem[Tui] EXCEPT !.knob = IF Flagged THEN "flag" ELSE mem[Tui].knob]]
        /\ known' = IF Flagged THEN mem[Tui].knob ELSE None
    BY DEF TuiUp
  <1>4. /\ mem[Tui] \in Configs /\ ~mem[Tui].legacy /\ Flagless(mem[Tui]) /\ mem[Tui].knob \in Knobs
    BY <1>1, <1>2 DEF MemTypes, AskKept, FlagKept, Flagless, Configs
  <1>5. /\ SameBut(mem[Tui], mem'[Tui], {"knob"})
        /\ mem'[Tui].knob = IF Flagged THEN "flag" ELSE mem[Tui].knob
    <2>1. mem'[Tui] = [mem[Tui] EXCEPT !.knob = IF Flagged THEN "flag" ELSE mem[Tui].knob]
      BY <1>1, <1>3 DEF MemTypes
    <2> DEFINE k == IF Flagged THEN "flag" ELSE mem[Tui].knob
    <2>2. k \in Knobs
      BY <1>4 DEF Knobs
    <2> HIDE DEF k
    <2>3. mem'[Tui] = [mem[Tui] EXCEPT !.knob = k]
      BY <2>1 DEF k
    <2> HIDE <1>1
    <2>4. SameBut(mem[Tui], mem'[Tui], {"knob"}) /\ mem'[Tui].knob = k
      BY <1>4, <2>2, <2>3 DEF SameBut, Configs
    <2> QED
      BY <2>4 DEF k
  <1>6. \A x \in Procs \ {Tui} : mem'[x] = mem[x]
    BY <1>1, <1>3 DEF MemTypes
  <1>7. /\ mem'[Tui] \in Configs /\ ~mem'[Tui].legacy /\ mem'[Tui].pinned = mem[Tui].pinned
        /\ mem'[Tui].profiles = mem[Tui].profiles
        /\ known' \in Knobs \cup {None}
    BY <1>3, <1>4, <1>5 DEF SameBut
  <1>8. DiskTypes'
    BY <1>1, <1>2, <1>3, <1>4, <1>5, <1>6, <1>7 DEF DiskTypes, ProcTypes, MemTypes
  <1>9. ProcTypes'
    BY <1>1, <1>2, <1>7 DEF ProcTypes
  <1>10. MemTypes'
    <2>1. mem'[Tui] \in Configs
      BY <1>7
    <2>2. \E d : mem' = [mem EXCEPT ![Tui] = d]
      BY <1>3
    <2> QED
      BY <1>1, <2>1, <2>2 DEF MemTypes
  <1>11. LockKept'
    BY <1>1, <1>2 DEF LockKept, Writing, ProcTypes, DiskTypes
  <1>12. AskKept'
    BY <1>1, <1>2, <1>6, <1>7 DEF AskKept, Op, ProcTypes
  <1>13. FlaglessTmp' /\ (~raced' => ~raced /\ TmpKept')
    BY <1>1, <1>2, <1>6, TmpStays DEF ProcTypes, FlaglessTmp
  <1>14. OnlyMemoryOf(Tui)
    BY <1>1, <1>2, <1>6 DEF OnlyMemoryOf, HasLoaded, Writing, ProcTypes
  <1>15. MemoryFits(Tui) /\ (~raced' => MemoryFollows(Tui))
    <2>1. known' # "flag"
      BY <1>3, <1>4, MarkersAssumption DEF Flagless, Knobs
    <2>2. NoFlag(mem'[Tui]) /\ saving'[Tui] = "command"
      BY <1>1, <1>2, <1>4, <1>7 DEF Flagless, NoFlag, ProcTypes
    <2>3. mem'[Tui].knob = "flag" => known' # None
      BY <1>3, <1>4, <1>5, MarkersAssumption DEF Flagless
    <2>4. ~Writing(Tui)' /\ HasLoaded(Tui)
      BY <1>1, <1>2 DEF ProcTypes, Writing, HasLoaded
    <2>5. file = Bad => broken'[Tui]
      BY <1>1, <1>2, <2>4 DEF BrokenKept
    <2>6. ~raced' /\ IsConfig(file) => broken'[Tui] \/ FollowsFile(Tui)'
      BY <1>1, <1>2, <1>7, <2>2, <2>4 DEF TableKept, FollowsFile
    <2>7. \A ks \in {{"old"}, {"new", "wild"}} :
            ~HasKnob(mem[Tui], ks) => ~HasKnob(mem'[Tui], ks) /\ known' \notin ks
      BY <1>3, <1>5, <1>7, MarkersAssumption DEF HasKnob, Knobs
    <2>8. WhatIsPinnedStays => mem'[Tui].pinned /\ ~HasKnob(mem'[Tui], {"new", "wild"})
                               /\ known' \notin {"new", "wild"}
      BY <1>7, <2>4, <2>7 DEF WhatIsPinnedStays
    <2>9. NothingOldStays => ~HasKnob(mem'[Tui], {"old"}) /\ known' # "old"
      BY <2>7 DEF NothingOldStays
    <2>20. ASSUME ~raced'
           PROVE  /\ Writing(Tui)' => \A x \in Procs \ {Tui} : ~Writing(x)
                  /\ Writing(Tui)' /\ saving'[Tui] = "load" => WillSave
                  /\ file = Missing /\ HasLoaded(Tui)' =>
                       ~broken'[Tui] /\ (saving'[Tui] = "load" => mem'[Tui] = Defaults)
      BY <1>1, <1>2, <2>4, <2>20 DEF ProcTypes, LoadKept
    <2> QED
      BY <2>1, <2>2, <2>3, <2>4, <2>5, <2>6, <2>8, <2>9, <2>20 DEF MemoryFits, MemoryFollows
  <1> QED
    BY <1>8, <1>9, <1>10, <1>11, <1>12, <1>13, <1>14, <1>15, MemoryKeeps

\* The table on disk, as the TUI takes it in.
LEMMA DiskTable ==
  ASSUME StoreInv, HasLoaded(Tui), NEW t, t \in {mem[Tui].profiles, TableOnDisk(mem[Tui].profiles)}
  PROVE  /\ t \in Tables
         /\ \A n \in Names : t[n] = None \/ t[n].knob # "flag"
         /\ ~raced /\ IsConfig(file) /\ ~broken[Tui] /\ file.legacy => t = Settled(file)
         /\ WhatIsPinnedStays => \A n \in Names : t[n] = None \/ t[n].knob \notin {"new", "wild"}
         /\ NothingOldStays => \A n \in Names : t[n] = None \/ t[n].knob # "old"
  <1> USE ProcsApart
  <1>1. DiskTypes /\ MemTypes /\ FlagIsForTheSession /\ FlagKept /\ (~raced => TableKept)
    BY StoreParts
  <1>2. t = mem[Tui].profiles \/ (IsConfig(file) /\ ~file.legacy /\ t = file.profiles)
    BY DEF TableOnDisk
  <1>3. t \in Tables
    BY <1>1, <1>2 DEF DiskTypes, MemTypes, Configs, Tables
  <1>4. \A n \in Names : t[n] = None \/ t[n].knob # "flag"
    BY <1>1, <1>2 DEF FlagIsForTheSession, FlagKept, NoFlag
  <1>5. ~raced /\ IsConfig(file) /\ ~broken[Tui] /\ file.legacy => t = Settled(file)
    BY <1>1, <1>2 DEF TableKept, FollowsFile
  <1>6. WhatIsPinnedStays => \A n \in Names : t[n] = None \/ t[n].knob \notin {"new", "wild"}
    BY <1>2 DEF WhatIsPinnedStays, HasKnob
  <1>7. NothingOldStays => \A n \in Names : t[n] = None \/ t[n].knob # "old"
    BY <1>2 DEF NothingOldStays, HasKnob
  <1> QED
    BY <1>3, <1>4, <1>5, <1>6, <1>7

\* The TUI brings in the table of profiles, under the lock.
LEMMA TuiReloadKeeps ==
  ASSUME StoreInv, TuiReload
  PROVE  StoreInv'
  <1> USE ProcsApart
  <1>1. DiskTypes /\ ProcTypes /\ MemTypes /\ FlagIsForTheSession /\ CommandsChecked
        /\ LockKept /\ AskKept /\ FlagKept /\ BrokenKept /\ FlaglessTmp
        /\ (~raced => OneSaver /\ Whole /\ TmpKept /\ LoadKept /\ TableKept /\ OldKept)
    BY StoreParts
  <1>2. /\ stage[Tui] = "reload" /\ saving[Tui] = "command" /\ lock = Tui
        /\ stage' = [stage EXCEPT ![Tui] = IF broken[Tui] THEN "unlock" ELSE "open"]
        /\ raced' = (raced \/ (~broken[Tui] /\ \E x \in Procs \ {Tui} : Writing(x)))
        /\ UNCHANGED <<command, file, tmp, renamed, lock, broken, saving, known, serving, reply>>
    BY <1>1 DEF TuiReload, SaveRefused, MayRace, diskVars, tuiVars, LockKept, ProcTypes
  <1>3. mem' = [mem EXCEPT ![Tui] = [mem[Tui] EXCEPT !.profiles = TableOnDisk(mem[Tui].profiles)]]
    BY DEF TuiReload
  <1>4. /\ mem[Tui] \in Configs /\ ~mem[Tui].legacy /\ HasLoaded(Tui)
    BY <1>1, <1>2 DEF MemTypes, AskKept, HasLoaded
  <1>5. \E t \in Tables :
          /\ t = TableOnDisk(mem[Tui].profiles) /\ mem'[Tui].profiles = t
          /\ SameBut(mem[Tui], mem'[Tui], {"profiles"})
    <2> DEFINE t == TableOnDisk(mem[Tui].profiles)
    <2>1. t \in Tables
      BY <1>4, DiskTable
    <2>2. mem'[Tui] = [mem[Tui] EXCEPT !.profiles = t]
      BY <1>1, <1>3 DEF MemTypes
    <2> HIDE <1>1 DEF t
    <2>3. SameBut(mem[Tui], mem'[Tui], {"profiles"}) /\ mem'[Tui].profiles = t
      BY <1>4, <2>1, <2>2 DEF SameBut, Configs, Tables
    <2> QED
      BY <2>1, <2>3 DEF t
  <1>6. \A x \in Procs \ {Tui} : mem'[x] = mem[x]
    BY <1>1, <1>3 DEF MemTypes
  <1>7. /\ mem'[Tui] \in Configs /\ ~mem'[Tui].legacy /\ mem'[Tui].pinned = mem[Tui].pinned
        /\ mem'[Tui].knob = mem[Tui].knob /\ mem'[Tui].profiles = TableOnDisk(mem[Tui].profiles)
    BY <1>4, <1>5 DEF SameBut
  <1>8. DiskTypes'
    BY <1>1, <1>2, <1>3, <1>4, <1>5, <1>6, <1>7 DEF DiskTypes, ProcTypes, MemTypes
  <1>9. ProcTypes'
    BY <1>1, <1>2 DEF ProcTypes
  <1>10. MemTypes'
    <2>1. mem'[Tui] \in Configs
      BY <1>7
    <2>2. \E d : mem' = [mem EXCEPT ![Tui] = d]
      BY <1>3
    <2> QED
      BY <1>1, <2>1, <2>2 DEF MemTypes
  <1>11. LockKept'
    BY <1>1, <1>2 DEF LockKept, Writing, ProcTypes, DiskTypes
  <1>12. AskKept'
    BY <1>1, <1>2, <1>6, <1>7 DEF AskKept, Op, ProcTypes
  <1>13. FlaglessTmp' /\ (~raced' => ~raced /\ TmpKept')
    BY <1>1, <1>2, <1>6, TmpStays DEF ProcTypes, FlaglessTmp
  <1>14. OnlyMemoryOf(Tui)
    BY <1>1, <1>2, <1>6 DEF OnlyMemoryOf, HasLoaded, Writing, ProcTypes
  <1>15. MemoryFits(Tui) /\ (~raced' => MemoryFollows(Tui))
    <2> DEFINE t == TableOnDisk(mem[Tui].profiles)
    <2>1. /\ \A n \in Names : t[n] = None \/ t[n].knob # "flag"
          /\ ~raced /\ IsConfig(file) /\ ~broken[Tui] /\ file.legacy => t = Settled(file)
          /\ WhatIsPinnedStays => \A n \in Names : t[n] = None \/ t[n].knob \notin {"new", "wild"}
          /\ NothingOldStays => \A n \in Names : t[n] = None \/ t[n].knob # "old"
      BY <1>4, DiskTable
    <2>2. IsConfig(file) /\ ~file.legacy => t = file.profiles
      BY DEF TableOnDisk
    <2> HIDE DEF t
    <2>3. mem'[Tui].profiles = t
      BY <1>7 DEF t
    <2>4. known' # "flag" /\ NoFlag(mem'[Tui])
      BY <1>1, <1>2, <2>1, <2>3 DEF FlagKept, NoFlag
    <2>5. mem'[Tui].knob = "flag" => known' # None /\ saving'[Tui] = "command"
      BY <1>1, <1>2, <1>7 DEF FlagKept
    <2>6. broken'[Tui] => ~Writing(Tui)'
      BY <1>1, <1>2 DEF ProcTypes, Writing
    <2>7. file = Bad => broken'[Tui]
      BY <1>1, <1>2, <1>4 DEF BrokenKept
    <2>8. ~raced' /\ IsConfig(file) => broken'[Tui] \/ FollowsFile(Tui)'
      BY <1>1, <1>2, <1>4, <1>7, <2>1, <2>2, <2>3 DEF TableKept, FollowsFile
    <2>9. WhatIsPinnedStays => mem'[Tui].pinned /\ ~HasKnob(mem'[Tui], {"new", "wild"})
                               /\ known' \notin {"new", "wild"}
      BY <1>2, <1>4, <1>7, <2>1, <2>3 DEF WhatIsPinnedStays, HasKnob
    <2>10. NothingOldStays => ~HasKnob(mem'[Tui], {"old"}) /\ known' # "old"
      BY <1>2, <1>7, <2>1, <2>3 DEF NothingOldStays, HasKnob
    <2>20. ASSUME ~raced'
           PROVE  /\ Writing(Tui)' => \A x \in Procs \ {Tui} : ~Writing(x)
                  /\ Writing(Tui)' /\ saving'[Tui] = "load" => WillSave
                  /\ file = Missing /\ HasLoaded(Tui)' =>
                       ~broken'[Tui] /\ (saving'[Tui] = "load" => mem'[Tui] = Defaults)
      BY <1>1, <1>2, <1>4, <2>20 DEF Writing, ProcTypes, LoadKept
    <2> QED
      BY <2>4, <2>5, <2>6, <2>7, <2>8, <2>9, <2>10, <2>20 DEF MemoryFits, MemoryFollows
  <1> QED
    BY <1>8, <1>9, <1>10, <1>11, <1>12, <1>13, <1>14, <1>15, MemoryKeeps

\* A key sets the knob, and pins it.
LEMMA TuiKeyKeeps ==
  ASSUME StoreInv, TuiKey
  PROVE  StoreInv'
  <1> USE ProcsApart
  <1>1. DiskTypes /\ ProcTypes /\ MemTypes /\ FlagIsForTheSession /\ CommandsChecked
        /\ LockKept /\ AskKept /\ FlagKept /\ BrokenKept /\ FlaglessTmp
        /\ (~raced => OneSaver /\ Whole /\ TmpKept /\ LoadKept /\ TableKept /\ OldKept)
    BY StoreParts
  <1>2. /\ stage[Tui] = "up" /\ saving[Tui] = "command" /\ known' = None
        /\ UNCHANGED <<command, file, tmp, renamed, lock, stage, broken, saving, serving, reply, raced>>
    BY <1>1 DEF TuiKey, diskVars, LockKept
  <1>3. mem' = [mem EXCEPT ![Tui] = [mem[Tui] EXCEPT !.knob = "own", !.pinned = TRUE]]
    BY DEF TuiKey
  <1>4. /\ mem[Tui] \in Configs /\ ~mem[Tui].legacy /\ HasLoaded(Tui)
    BY <1>1, <1>2 DEF MemTypes, AskKept, HasLoaded
  <1>5. /\ mem'[Tui] \in Configs /\ ~mem'[Tui].legacy /\ mem'[Tui].pinned
        /\ mem'[Tui].knob = "own" /\ mem'[Tui].profiles = mem[Tui].profiles
    <2>1. mem'[Tui] = [mem[Tui] EXCEPT !.knob = "own", !.pinned = TRUE]
      BY <1>1, <1>3 DEF MemTypes
    <2> HIDE <1>1
    <2> QED
      BY <1>4, <2>1 DEF Configs, Knobs
  <1>6. \A x \in Procs \ {Tui} : mem'[x] = mem[x]
    BY <1>1, <1>3 DEF MemTypes
  <1>7. DiskTypes'
    BY <1>1, <1>2, <1>3, <1>4, <1>5, <1>6 DEF DiskTypes, ProcTypes, MemTypes
  <1>8. ProcTypes'
    BY <1>1, <1>2 DEF ProcTypes
  <1>9. MemTypes'
    <2>1. mem'[Tui] \in Configs
      BY <1>5
    <2>2. \E d : mem' = [mem EXCEPT ![Tui] = d]
      BY <1>3
    <2> QED
      BY <1>1, <2>1, <2>2 DEF MemTypes
  <1>10. LockKept'
    BY <1>1, <1>2 DEF LockKept, Writing, ProcTypes, DiskTypes
  <1>11. AskKept'
    BY <1>1, <1>2, <1>5, <1>6 DEF AskKept, Op, ProcTypes
  <1>12. FlaglessTmp' /\ (~raced' => ~raced /\ TmpKept')
    BY <1>1, <1>2, <1>6, TmpStays DEF ProcTypes, FlaglessTmp
  <1>13. OnlyMemoryOf(Tui)
    BY <1>1, <1>2, <1>6 DEF OnlyMemoryOf, HasLoaded, Writing, ProcTypes
  <1>14. MemoryFits(Tui) /\ (~raced' => MemoryFollows(Tui))
    <2>1. known' \notin {"flag", "new", "wild", "old"}
      BY <1>2, MarkersAssumption DEF Knobs
    <2>2. NoFlag(mem'[Tui])
      BY <1>1, <1>5 DEF FlagKept, NoFlag
    <2>3. broken'[Tui] => ~Writing(Tui)'
      BY <1>1, <1>2 DEF BrokenKept, Writing
    <2>4. file = Bad => broken'[Tui]
      BY <1>1, <1>2, <1>4 DEF BrokenKept
    <2>5. ~Writing(Tui)'
      BY <1>2 DEF Writing
    <2>6. ~raced' /\ IsConfig(file) => broken'[Tui] \/ FollowsFile(Tui)'
      BY <1>1, <1>2, <1>4, <1>5, <2>5 DEF TableKept, FollowsFile
    <2>7. WhatIsPinnedStays => mem'[Tui].pinned /\ ~HasKnob(mem'[Tui], {"new", "wild"})
      BY <1>4, <1>5 DEF WhatIsPinnedStays, HasKnob
    <2>8. NothingOldStays => ~HasKnob(mem'[Tui], {"old"})
      BY <1>5 DEF NothingOldStays, HasKnob
    <2>20. ASSUME ~raced'
           PROVE  /\ Writing(Tui)' => \A x \in Procs \ {Tui} : ~Writing(x)
                  /\ Writing(Tui)' /\ saving'[Tui] = "load" => WillSave
                  /\ file = Missing /\ HasLoaded(Tui)' =>
                       ~broken'[Tui] /\ (saving'[Tui] = "load" => mem'[Tui] = Defaults)
      BY <1>1, <1>2, <1>4, <2>5, <2>20 DEF LoadKept
    <2> QED
      BY <1>5, <2>1, <2>2, <2>3, <2>4, <2>6, <2>7, <2>8, <2>20 DEF MemoryFits, MemoryFollows
  <1> QED
    BY <1>7, <1>8, <1>9, <1>10, <1>11, <1>12, <1>13, <1>14, MemoryKeeps

\* The TUI carries out what a client has asked for.
LEMMA TuiServesKeeps ==
  ASSUME StoreInv, NEW c \in Clis, TuiServes(c)
  PROVE  StoreInv'
  <1> USE ProcsApart
  <1>1. DiskTypes /\ ProcTypes /\ MemTypes /\ FlagIsForTheSession /\ CommandsChecked
        /\ LockKept /\ AskKept /\ FlagKept /\ BrokenKept /\ FlaglessTmp
        /\ (~raced => OneSaver /\ Whole /\ TmpKept /\ LoadKept /\ TableKept /\ OldKept)
    BY StoreParts
  <1>2. /\ stage[Tui] = "up" /\ stage[c] = "asked" /\ saving[Tui] = "command"
        /\ UNCHANGED <<command, file, tmp, renamed, lock, broken, saving, raced>>
    BY <1>1 DEF TuiServes, diskVars, LockKept
  <1>3. /\ \/ stage' = [stage EXCEPT ![c] = "replied"]
           \/ stage' = [stage EXCEPT ![Tui] = "lock"]
        /\ serving' \in {serving, c} /\ (reply' = reply \/ reply' = [reply EXCEPT ![c] = "error"])
    BY DEF TuiServes
  <1>4. /\ mem[Tui] \in Configs /\ ~mem[Tui].legacy /\ HasLoaded(Tui)
        /\ Op(c) \in {"use", "voice"}
        /\ Op(c) = "use" => Arg(c) \in Names
        /\ Op(c) = "voice" => Arg(c) \in Voices
    <2>1. command[c] \in Commands
      BY <1>1 DEF ProcTypes
    <2> QED
      BY <1>1, <1>2, <2>1, StoreAssumption DEF MemTypes, AskKept, HasLoaded, Op, Arg
  <1>5. \E t \in {mem[Tui].profiles, TableOnDisk(mem[Tui].profiles)} :
          /\ mem' = [mem EXCEPT ![Tui] = mem'[Tui]]
          /\ mem'[Tui] \in Configs /\ ~mem'[Tui].legacy /\ mem'[Tui].pinned = mem[Tui].pinned
          /\ mem'[Tui].profiles = t
          /\ \/ mem'[Tui].knob = mem[Tui].knob /\ known' = known
             \/ /\ known' = None
                /\ \E n \in Names : t[n] # None /\ mem'[Tui].knob = t[n].knob
    <2> DEFINE t == Found(Arg(c))
               d == [mem[Tui] EXCEPT !.profiles = t]
    <2>1. t \in {mem[Tui].profiles, TableOnDisk(mem[Tui].profiles)}
      BY DEF Found
    <2>2. t \in Tables
      BY <1>4, <2>1, DiskTable
    <2>3. CASE Op(c) = "voice"
      <3> DEFINE e == [mem[Tui] EXCEPT !.voice = Arg(c)]
      <3>1. mem' = [mem EXCEPT ![Tui] = e] /\ known' = known
        BY <2>3 DEF TuiServes
      <3>2. /\ e \in Configs /\ ~e.legacy /\ e.pinned = mem[Tui].pinned
            /\ e.profiles = mem[Tui].profiles /\ e.knob = mem[Tui].knob
        BY <1>4, <2>3 DEF Configs
      <3> HIDE DEF e
      <3>3. mem'[Tui] = e
        BY <1>1, <3>1 DEF MemTypes
      <3> QED
        BY <3>1, <3>2, <3>3
    <2>4. d \in Configs /\ ~d.legacy /\ d.pinned = mem[Tui].pinned /\ d.profiles = t
          /\ d.knob = mem[Tui].knob
      <3> HIDE DEF t
      <3> QED
        BY <1>4, <2>2 DEF Configs, Tables
    <2>5. CASE Op(c) = "use" /\ t[Arg(c)] = None
      <3>1. mem' = [mem EXCEPT ![Tui] = d] /\ known' = known
        BY <2>5 DEF TuiServes
      <3> HIDE DEF d, t
      <3>2. mem'[Tui] = d
        BY <1>1, <3>1 DEF MemTypes
      <3> QED
        BY <2>1, <2>4, <3>1, <3>2
    <2>6. CASE Op(c) = "use" /\ t[Arg(c)] # None
      <3> DEFINE s == t[Arg(c)]
                 e == Applied(d, s)
      <3>1. mem' = [mem EXCEPT ![Tui] = e] /\ known' = None
        BY <2>6 DEF TuiServes
      <3> HIDE DEF d, t
      <3>2. s \in Snapshots /\ Arg(c) \in Names /\ t[Arg(c)] # None
        BY <1>4, <2>2, <2>6 DEF Tables
      <3>3. /\ e \in Configs /\ ~e.legacy /\ e.pinned = mem[Tui].pinned
            /\ e.profiles = t /\ e.knob = s.knob
        BY <2>4, <3>2, ProfileApplied
      <3> HIDE DEF e
      <3>4. mem'[Tui] = e
        BY <1>1, <3>1 DEF MemTypes
      <3> QED
        BY <2>1, <3>1, <3>2, <3>3, <3>4
    <2> QED
      BY <1>4, <2>3, <2>5, <2>6
  <1>6. /\ mem' = [mem EXCEPT ![Tui] = mem'[Tui]]
        /\ mem'[Tui] \in Configs /\ ~mem'[Tui].legacy
    BY <1>5
  <1>7. \A x \in Procs \ {Tui} : mem'[x] = mem[x]
    BY <1>1, <1>6 DEF MemTypes
  <1>8. known' \in {known, None}
    BY <1>5
  <1>9. DiskTypes'
    BY <1>1, <1>2, <1>3, <1>4, <1>5, <1>6, <1>7, <1>8 DEF DiskTypes, ProcTypes, MemTypes
  <1>10. ProcTypes'
    BY <1>1, <1>2, <1>3, <1>8 DEF ProcTypes
  <1>11. MemTypes'
    BY <1>1, <1>6 DEF MemTypes
  <1>12. LockKept'
    BY <1>1, <1>2, <1>3 DEF LockKept, Writing, ProcTypes, DiskTypes
  <1>13. AskKept'
    BY <1>1, <1>2, <1>3, <1>6, <1>7 DEF AskKept, Op, ProcTypes
  <1>14. FlaglessTmp' /\ (~raced' => ~raced /\ TmpKept')
    BY <1>1, <1>2, <1>3, <1>7, TmpStays DEF ProcTypes, FlaglessTmp
  <1>15. OnlyMemoryOf(Tui)
    BY <1>1, <1>2, <1>3, <1>7 DEF OnlyMemoryOf, HasLoaded, Writing, ProcTypes
  <1>16. MemoryFits(Tui) /\ (~raced' => MemoryFollows(Tui))
    <2>1. PICK t \in {mem[Tui].profiles, TableOnDisk(mem[Tui].profiles)} :
            /\ mem'[Tui].pinned = mem[Tui].pinned /\ mem'[Tui].profiles = t
            /\ \/ mem'[Tui].knob = mem[Tui].knob /\ known' = known
               \/ known' = None /\ \E n \in Names : t[n] # None /\ mem'[Tui].knob = t[n].knob
      BY <1>5
    <2>2. /\ \A n \in Names : t[n] = None \/ t[n].knob # "flag"
          /\ ~raced /\ IsConfig(file) /\ ~broken[Tui] /\ file.legacy => t = Settled(file)
          /\ WhatIsPinnedStays => \A n \in Names : t[n] = None \/ t[n].knob \notin {"new", "wild"}
          /\ NothingOldStays => \A n \in Names : t[n] = None \/ t[n].knob # "old"
      BY <1>4, DiskTable
    <2>3. None \notin {"flag", "new", "wild", "old"}
      BY MarkersAssumption DEF Knobs
    <2>4. known' # "flag" /\ NoFlag(mem'[Tui])
      BY <1>1, <2>1, <2>2, <2>3 DEF FlagKept, NoFlag
    <2>5. mem'[Tui].knob = "flag" => known' # None /\ saving'[Tui] = "command"
      BY <1>1, <1>2, <2>1, <2>2 DEF FlagKept
    <2>6. ~Writing(Tui)'
      BY <1>1, <1>2, <1>3 DEF ProcTypes, Writing
    <2>7. file = Bad => broken'[Tui]
      BY <1>1, <1>2, <1>4 DEF BrokenKept
    <2>8. ~raced' /\ IsConfig(file) => broken'[Tui] \/ FollowsFile(Tui)'
      BY <1>1, <1>2, <1>4, <2>1, <2>2, <2>6 DEF TableKept, FollowsFile
    <2>9. WhatIsPinnedStays => mem'[Tui].pinned /\ ~HasKnob(mem'[Tui], {"new", "wild"})
                               /\ known' \notin {"new", "wild"}
      BY <1>4, <2>1, <2>2, <2>3 DEF WhatIsPinnedStays, HasKnob
    <2>10. NothingOldStays => ~HasKnob(mem'[Tui], {"old"}) /\ known' # "old"
      BY <2>1, <2>2, <2>3 DEF NothingOldStays, HasKnob
    <2>20. ASSUME ~raced'
           PROVE  /\ Writing(Tui)' => \A x \in Procs \ {Tui} : ~Writing(x)
                  /\ Writing(Tui)' /\ saving'[Tui] = "load" => WillSave
                  /\ file = Missing /\ HasLoaded(Tui)' =>
                       ~broken'[Tui] /\ (saving'[Tui] = "load" => mem'[Tui] = Defaults)
      BY <1>1, <1>2, <1>4, <2>6, <2>20 DEF LoadKept
    <2> QED
      BY <2>4, <2>5, <2>6, <2>7, <2>8, <2>9, <2>10, <2>20 DEF MemoryFits, MemoryFollows
  <1> QED
    BY <1>9, <1>10, <1>11, <1>12, <1>13, <1>14, <1>15, <1>16, MemoryKeeps

-----------------------------------------------------------------------------
(* Steps that change the file.                                             *)

\* What is renamed to config.toml: the table and the pin come from the file
\* that it replaces, but for what a command has changed.
LEMMA WhatIsSaved ==
  ASSUME StoreInv, ~raced, NEW w \in Procs, Replace(w)
  PROVE  /\ file' \in Configs /\ ~file'.legacy /\ Flagless(file')
         /\ file'.pinned = mem[w].pinned /\ file'.profiles = mem[w].profiles
         /\ saving[w] = "load" => file' = mem[w]
         /\ file = Missing \/ IsConfig(file)
         /\ \A x \in Procs \ {w} : ~Writing(x)
         /\ IsConfig(file) => ~broken[w] /\ FollowsFile(w)
         /\ WhatIsPinnedStays => file'.pinned /\ ~HasKnob(file', {"new", "wild"})
         /\ NothingOldStays => ~HasKnob(file', {"old"})
  <1> USE ProcsApart
  <1>1. /\ DiskTypes /\ ProcTypes /\ MemTypes /\ LockKept /\ AskKept /\ FlagKept /\ BrokenKept
        /\ OneSaver /\ Whole /\ TmpKept /\ TableKept
    BY StoreParts
  <1>2. stage[w] = "replace" /\ Writing(w) /\ HasLoaded(w)
    BY DEF Replace, Writing, HasLoaded
  <1>3. tmp # None /\ tmp.content = ToSave(w)
    BY <1>1, <1>2 DEF TmpKept
  <1>4. file' = ToSave(w)
    BY <1>3 DEF Replace
  <1> DEFINE d == ToSave(w)
  <1>5. mem[w] \in Configs /\ ~mem[w].legacy /\ NoFlag(mem[w])
        /\ (mem[w].knob = "flag" => w = Tui /\ known # None /\ saving[w] = "command")
        /\ known \in Knobs \cup {None} /\ known # "flag"
    BY <1>1 DEF MemTypes, AskKept, FlagKept, ProcTypes
  <1>6. \/ d = mem[w] /\ mem[w].knob # "flag"
        \/ known # None /\ d = [mem[w] EXCEPT !.knob = known] /\ saving[w] = "command"
    BY <1>5 DEF ToSave
  <1>7. /\ d \in Configs /\ ~d.legacy /\ Flagless(d)
        /\ d.pinned = mem[w].pinned /\ d.profiles = mem[w].profiles
        /\ saving[w] = "load" => d = mem[w]
        /\ d.knob = mem[w].knob \/ (known # None /\ d.knob = known)
    <2>1. CASE d = mem[w] /\ mem[w].knob # "flag"
      BY <1>5, <2>1 DEF Flagless
    <2>2. CASE known # None /\ d = [mem[w] EXCEPT !.knob = known] /\ saving[w] = "command"
      <3>1. known \in Knobs
        BY <1>5, <2>2
      <3> HIDE <1>1 DEF d
      <3>2. d \in Configs /\ d.legacy = mem[w].legacy /\ d.pinned = mem[w].pinned
            /\ d.profiles = mem[w].profiles /\ d.knob = known
        BY <1>5, <2>2, <3>1 DEF Configs
      <3> QED
        BY <1>5, <2>2, <3>2 DEF Flagless, NoFlag
    <2> QED
      BY <1>6, <2>1, <2>2
  <1> HIDE DEF d
  <1>8. file' = d
    BY <1>4 DEF d
  <1>9. file = Missing \/ IsConfig(file)
    BY <1>1, <1>2 DEF BrokenKept, Whole, IsConfig
  <1>10. \A x \in Procs \ {w} : ~Writing(x)
    BY <1>1, <1>2 DEF OneSaver
  <1>11. IsConfig(file) => ~broken[w] /\ FollowsFile(w)
    BY <1>1, <1>2 DEF BrokenKept, TableKept
  <1>12. WhatIsPinnedStays => d.pinned /\ ~HasKnob(d, {"new", "wild"})
    BY <1>2, <1>7 DEF WhatIsPinnedStays, HasKnob
  <1>13. NothingOldStays => ~HasKnob(d, {"old"})
    BY <1>7 DEF NothingOldStays, HasKnob
  <1> QED
    BY <1>7, <1>8, <1>9, <1>10, <1>11, <1>12, <1>13

\* A load finds nothing to migrate in what was saved.
LEMMA NothingToMigrate ==
  ASSUME NEW c \in Configs, ~c.legacy, file' = c
  PROVE  ~WillSave'
  BY MarkersApart DEF WillSave, Migrated

\* What is saved has the table and the pin of the file that it replaces.
LEMMA TableReplaced ==
  ASSUME StoreInv, ~raced, NEW w \in Procs, Replace(w)
  PROVE  TableKept'
  <1> USE ProcsApart
  <1>1. /\ DiskTypes /\ ProcTypes /\ MemTypes /\ CommandsChecked /\ LockKept /\ AskKept /\ BrokenKept
        /\ OneSaver /\ LoadKept /\ TableKept
    BY StoreParts
  <1>2. /\ stage[w] = "replace" /\ Writing(w) /\ HasLoaded(w)
        /\ stage' = [stage EXCEPT ![w] = IF saving[w] = "load" THEN "loaded" ELSE "unlock"]
        /\ UNCHANGED <<command, lock, mem, broken, saving, known>>
    BY DEF Replace, Writing, HasLoaded, AfterSave, tuiVars
  <1>3. /\ file' \in Configs /\ ~file'.legacy
        /\ file'.pinned = mem[w].pinned /\ file'.profiles = mem[w].profiles
        /\ saving[w] = "load" => file' = mem[w]
        /\ file = Missing \/ IsConfig(file)
        /\ \A x \in Procs \ {w} : ~Writing(x)
        /\ IsConfig(file) => ~broken[w] /\ FollowsFile(w)
    BY WhatIsSaved
  <1>4. \A x \in Procs : ~Writing(x)'
    BY <1>1, <1>2, <1>3 DEF Writing, ProcTypes
  <1> SUFFICES ASSUME NEW x \in Procs, ~broken[x] PROVE FollowsFile(x)'
    BY <1>2 DEF TableKept
  <1>5. CASE x # Tui
    <2> SUFFICES ASSUME saving[x] = "load", stage'[x] = "loaded", lock = x
                 PROVE  mem[x].profiles = Settled(file') /\ mem[x].pinned = file'.pinned
      BY <1>2, <1>4, <1>5 DEF FollowsFile, Settled
    <2>1. CASE x = w
      <3>1. file' = mem[w] /\ x \in Clis /\ Valid(mem[w])
        BY <1>1, <1>3, <1>5, <2>1 DEF CommandsChecked, Valid, Procs
      <3> QED
        BY <1>3, <2>1, <3>1, SettlesOnce
    <2>2. CASE x # w
      <3>1. stage[x] = "loaded" /\ HasLoaded(x) /\ saving[w] = "load" /\ file' = mem[w]
        BY <1>1, <1>2, <1>3, <2>2 DEF ProcTypes, HasLoaded, LockKept
      <3>2. CASE file = Missing
        <4>1. mem[x] = Defaults /\ file' = Defaults
          BY <1>1, <1>2, <3>1, <3>2 DEF LoadKept
        <4> QED
          BY <4>1, DefaultsAre, SettlesOnce
      <3>3. CASE IsConfig(file)
        <4>1. file \in Configs
          BY <1>1, <3>3 DEF DiskTypes
        <4>2. mem[w].profiles = Settled(file) /\ mem[w].pinned = file.pinned
          BY <1>2, <1>3, <3>1, <3>3 DEF FollowsFile
        <4>3. FollowsFile(x)
          BY <1>1, <3>3 DEF TableKept
        <4>4. mem[x].profiles = Settled(file) /\ mem[x].pinned = file.pinned
          BY <3>1, <4>3 DEF FollowsFile
        <4>5. Settled(file') = file'.profiles
          BY <1>3, <4>1, <4>2, TableSettles
        <4> QED
          BY <1>3, <4>2, <4>4, <4>5
      <3> QED
        BY <1>3, <3>2, <3>3
    <2> QED
      BY <2>1, <2>2
  <1>6. CASE x = Tui
    <2>1. ~(saving[Tui] = "load" /\ lock = Tui)
      BY <1>1 DEF LockKept
    <2> SUFFICES ASSUME HasLoaded(Tui)' PROVE file'.pinned => mem[Tui].pinned
      BY <1>2, <1>3, <1>4, <1>6, <2>1 DEF FollowsFile
    <2>2. CASE w = Tui
      BY <1>3, <2>2
    <2>3. CASE w # Tui
      <3>1. HasLoaded(Tui)
        BY <1>1, <1>2, <2>3 DEF HasLoaded, ProcTypes
      <3>2. CASE file = Missing
        BY <1>1, <1>2, <1>3, <2>3, <3>2 DEF LoadKept
      <3>3. CASE IsConfig(file)
        <4>1. mem[w].pinned = file.pinned
          <5>1. saving[w] \in {"load", "command"}
            BY <1>1 DEF ProcTypes
          <5> QED
            BY <1>2, <1>3, <2>3, <3>3, <5>1 DEF FollowsFile
        <4>2. file.pinned => mem[Tui].pinned
          BY <1>1, <1>6, <3>1, <3>3 DEF TableKept, FollowsFile
        <4> QED
          BY <1>3, <4>1, <4>2
      <3> QED
        BY <1>3, <3>2, <3>3
    <2> QED
      BY <2>2, <2>3
  <1> QED
    BY <1>5, <1>6

\* The temporary file takes the place of config.toml.
LEMMA ReplaceKeeps ==
  ASSUME StoreInv, NEW w \in Procs, Replace(w)
  PROVE  StoreInv'
  <1> USE ProcsApart
  <1>1. DiskTypes /\ ProcTypes /\ MemTypes /\ FlagIsForTheSession /\ CommandsChecked
        /\ LockKept /\ AskKept /\ FlagKept /\ BrokenKept /\ FlaglessTmp
        /\ (~raced => OneSaver /\ Whole /\ TmpKept /\ LoadKept /\ TableKept /\ OldKept)
    BY StoreParts
  <1>2. /\ stage[w] = "replace" /\ Writing(w) /\ HasLoaded(w) /\ tmp' = None
        /\ stage' = [stage EXCEPT ![w] = IF saving[w] = "load" THEN "loaded" ELSE "unlock"]
        /\ file' = IF tmp = None THEN file ELSE tmp.content
        /\ UNCHANGED <<command, lock, mem, broken, saving, known, serving, reply, raced>>
    BY DEF Replace, Writing, HasLoaded, AfterSave, tuiVars
  <1>3. renamed' = IF tmp # None /\ tmp.content = Torn THEN {tmp.by} ELSE {}
    BY DEF Replace
  <1>4. file # Bad
    BY <1>1, <1>2 DEF BrokenKept
  <1>5. file' # Bad /\ (IsConfig(file') => file' \in Configs /\ Flagless(file'))
    <2>1. CASE tmp = None
      BY <1>1, <1>2, <1>4, <2>1 DEF DiskTypes, FlagIsForTheSession, Flagless, NoFlag
    <2>2. CASE tmp # None
      <3>1. tmp.content = Torn \/ tmp.content \in Configs
        BY <1>1, <2>2 DEF DiskTypes
      <3> QED
        BY <1>1, <1>2, <2>2, <3>1, MarkersApart DEF FlaglessTmp, Flagless
    <2> QED
      BY <2>1, <2>2
  <1>6. DiskTypes' /\ FlaglessTmp'
    BY <1>1, <1>2, <1>3, <1>5 DEF DiskTypes, FlaglessTmp, IsConfig
  <1>7. ProcTypes'
    BY <1>1, <1>2 DEF ProcTypes
  <1>8. LockKept'
    BY <1>1, <1>2 DEF LockKept, Writing, ProcTypes, DiskTypes
  <1>9. \A x \in Procs : /\ Writing(x)' => Writing(x)
                         /\ stage'[x] \in {"ask", "asked"} => stage'[x] = stage[x]
    BY <1>1, <1>2 DEF Writing, ProcTypes
  <1>10. CASE raced
    BY <1>2, <1>5, <1>6, <1>7, <1>8, <1>9, <1>10, RacedKeeps
  <1>11. CASE ~raced
    <2>1. /\ file' \in Configs /\ ~file'.legacy
          /\ file = Missing \/ IsConfig(file)
          /\ \A x \in Procs \ {w} : ~Writing(x)
          /\ WhatIsPinnedStays => file'.pinned /\ ~HasKnob(file', {"new", "wild"})
          /\ NothingOldStays => ~HasKnob(file', {"old"})
      BY <1>11, WhatIsSaved
    <2>2. IsConfig(file') /\ file' # Torn /\ file' # Missing /\ renamed' = {}
      <3>1. IsConfig(file') /\ file' # Torn /\ file' # Missing
        BY <2>1, MarkersApart
      <3> QED
        BY <1>2, <1>3, <3>1
    <2>3. \A x \in Procs : ~Writing(x)'
      BY <1>1, <1>2, <2>1 DEF Writing, ProcTypes
    <2>4. MemTypes' /\ AskKept' /\ CommandsChecked' /\ FlagKept' /\ BrokenKept'
      BY <1>1, <1>2, <1>5, <1>9, <2>3 DEF MemTypes, AskKept, Op, CommandsChecked, FlagKept, BrokenKept
    <2>5. FlagIsForTheSession'
      BY <1>5, <2>2 DEF FlagIsForTheSession, Flagless, NoFlag
    <2>6. OneSaver' /\ Whole' /\ TmpKept' /\ LoadKept'
      BY <2>2, <2>3 DEF OneSaver, Whole, TmpKept, Writing, LoadKept
    <2>7. TableKept'
      BY <1>11, TableReplaced
    <2>8. OldKept'
      <3>1. \A x \in Procs : HasLoaded(x)' => HasLoaded(x)
        BY <1>1, <1>2 DEF HasLoaded, ProcTypes
      <3>2. CASE WhatIsPinnedStays
        <4>1. \A x \in Procs : HasLoaded(x)' => mem[x].pinned /\ ~HasKnob(mem[x], {"new", "wild"})
          BY <3>1, <3>2 DEF WhatIsPinnedStays
        <4>2. known \notin {"new", "wild"}
          BY <3>2 DEF WhatIsPinnedStays
        <4> QED
          BY <1>2, <2>1, <2>2, <3>2, <4>1, <4>2 DEF OldKept, IsConfig
      <3>3. CASE NothingOldStays
        <4>1. known # "old" /\ \A x \in Procs : ~HasKnob(mem[x], {"old"})
          BY <3>3 DEF NothingOldStays
        <4> QED
          BY <1>2, <2>1, <3>3, <4>1 DEF OldKept
      <3> QED
        BY <1>1, <1>11, <3>2, <3>3 DEF OldKept, WhatIsPinnedStays, NothingOldStays
    <2> QED
      BY <1>6, <1>7, <1>8, <2>4, <2>5, <2>6, <2>7, <2>8, StorePartsNext
  <1> QED
    BY <1>10, <1>11

\* The user repairs a file that nobody has been able to read.
LEMMA UserFixesKeeps ==
  ASSUME StoreInv, UserFixes
  PROVE  StoreInv'
  <1> USE ProcsApart
  <1>1. DiskTypes /\ ProcTypes /\ MemTypes /\ FlagIsForTheSession /\ CommandsChecked
        /\ LockKept /\ AskKept /\ FlagKept /\ BrokenKept /\ FlaglessTmp
        /\ (~raced => OneSaver /\ Whole /\ TmpKept /\ LoadKept /\ TableKept /\ OldKept)
    BY StoreParts
  <1>2. /\ file = Bad /\ file' = Current
        /\ UNCHANGED <<command, tmp, renamed, lock, stage, mem, broken, saving, known, serving, reply, raced>>
    BY DEF UserFixes, tuiVars
  <1>3. /\ Current \in Configs /\ ~Current.legacy /\ Flagless(Current)
        /\ ~HasKnob(Current, {"old"})
    <2> DEFINE c == Defaults
    <2>1. c \in Configs /\ ~c.legacy /\ NoFlag(c) /\ ~HasKnob(c, {"old"})
      BY DefaultsAre DEF Flagless
    <2>2. Current = [c EXCEPT !.knob = "own"] /\ "own" \in Knobs
      BY DEF Current, Knobs
    <2> HIDE <1>1 DEF c
    <2>3. /\ Current \in Configs /\ ~Current.legacy /\ Current.knob = "own"
          /\ Current.profiles = c.profiles
      BY <2>1, <2>2 DEF Configs
    <2> QED
      BY <2>1, <2>3 DEF Flagless, NoFlag, HasKnob
  <1>4. ~WillSave' /\ file' # Torn /\ file' # Bad
    BY <1>2, <1>3, NothingToMigrate, MarkersApart
  <1>5. \A x \in Procs : ~Writing(x) /\ (HasLoaded(x) => broken[x])
    BY <1>1, <1>2 DEF BrokenKept, HasLoaded, Writing
  <1>6. \A x \in Procs : ~Writing(x)' /\ HasLoaded(x)' = HasLoaded(x)
    BY <1>2, <1>5 DEF Writing, HasLoaded
  <1>7. DiskTypes' /\ ProcTypes'
    BY <1>1, <1>2, <1>3 DEF DiskTypes, ProcTypes
  <1>8. MemTypes' /\ AskKept' /\ CommandsChecked' /\ FlagKept' /\ FlaglessTmp'
    BY <1>1, <1>2 DEF MemTypes, AskKept, Op, CommandsChecked, FlagKept, NoFlag, FlaglessTmp
  <1>9. FlagIsForTheSession'
    BY <1>2, <1>3 DEF FlagIsForTheSession, Flagless, NoFlag
  <1>10. LockKept'
    BY <1>1, <1>2, <1>6 DEF LockKept, Writing
  <1>11. ~raced' => OneSaver' /\ Whole' /\ TmpKept' /\ LoadKept'
    <2>1. file' # Missing
      BY <1>2, <1>3, MarkersApart
    <2> QED
      BY <1>1, <1>2, <1>4, <1>6, <2>1 DEF OneSaver, Whole, TmpKept, LoadKept, Writing
  <1>12. BrokenKept'
    BY <1>4, <1>6 DEF BrokenKept
  <1>13. TableKept'
    <2> SUFFICES ASSUME NEW x \in Procs, ~broken[x] PROVE FollowsFile(x)'
      BY <1>2 DEF TableKept
    <2>1. ~HasLoaded(x)' /\ ~Writing(x)'
      BY <1>5, <1>6
    <2>2. stage'[x] # "loaded"
      BY <2>1 DEF HasLoaded
    <2> QED
      BY <2>1, <2>2 DEF FollowsFile
  <1>14. ASSUME ~raced' PROVE OldKept'
    <2> USE <1>14
    <2>1. ~IsConfig(file)
      BY <1>2, MarkersApart
    <2>2. known # "old" /\ \A x \in Procs : ~HasKnob(mem[x], {"old"})
      BY <1>1, <1>2, <2>1 DEF OldKept
    <2> QED
      BY <1>2, <1>3, <2>2 DEF OldKept
  <1> QED
    BY <1>7, <1>8, <1>9, <1>10, <1>11, <1>12, <1>13, <1>14, StorePartsNext

-----------------------------------------------------------------------------
(* The invariant, and what a step may never do.                            *)

\* The files that there may be when it all begins.
LEMMA FirstFiles ==
  /\ Edited \in Configs /\ Flagless(Edited) /\ ~HasKnob(Edited, {"old"})
  /\ \A pin \in BOOLEAN :
       /\ Legacy(pin) \in Configs /\ Legacy(pin).legacy /\ Legacy(pin).pinned = pin
       /\ Flagless(Legacy(pin)) /\ ~HasKnob(Legacy(pin), {"new", "wild"})
  <1>1. ASSUME NEW pin \in BOOLEAN
        PROVE  /\ Legacy(pin) \in Configs /\ Legacy(pin).legacy /\ Legacy(pin).pinned = pin
               /\ Flagless(Legacy(pin)) /\ ~HasKnob(Legacy(pin), {"new", "wild"})
    BY DEF Legacy, Configs, Snapshots, Knobs, Flagless, NoFlag, HasKnob
  <1>2. Edited \in Configs /\ Flagless(Edited) /\ ~HasKnob(Edited, {"old"})
    <2> DEFINE c == Defaults
               t == [n \in Names |-> [voice |-> NoVoice, knob |-> "wild"]]
    <2>1. Edited = [c EXCEPT !.knob = "wild", !.profiles = t]
      BY DEF Edited
    <2>2. /\ t \in [Names -> Snapshots \cup {None}] /\ "wild" \in Knobs
          /\ \A n \in Names : t[n].knob = "wild"
      BY DEF Snapshots, Knobs
    <2>3. c \in Configs
      BY DefaultsAre
    <2> HIDE DEF c, t
    <2>4. Edited \in Configs /\ Edited.knob = "wild" /\ Edited.profiles = t
      BY <2>1, <2>2, <2>3 DEF Configs
    <2> QED
      BY <2>2, <2>4 DEF Flagless, NoFlag, HasKnob
  <1> QED
    BY <1>1, <1>2

LEMMA StoreInvInit == Init => StoreInv
  <1> SUFFICES ASSUME Init PROVE StoreInv
    OBVIOUS
  <1> USE ProcsApart
  <1>1. /\ tmp = None /\ renamed = {} /\ lock = None /\ known = None /\ serving = None
        /\ command \in [Clis -> Commands] /\ reply = [c \in Clis |-> "none"]
        /\ stage = [w \in Procs |-> "idle"] /\ mem = [w \in Procs |-> Defaults]
        /\ broken = [w \in Procs |-> FALSE] /\ saving = [w \in Procs |-> "load"]
        /\ raced = FALSE
    BY DEF Init
  <1>2. /\ IsConfig(file) => file \in Configs /\ Flagless(file)
        /\ file # Torn
        /\ \/ IsConfig(file) => (file.legacy /\ ~file.pinned) \/ ~HasKnob(file, {"old"})
           \/ IsConfig(file) /\ file.pinned /\ ~HasKnob(file, {"new", "wild"})
    <2>1. CASE file \in {Missing, Bad}
      BY <2>1, MarkersApart
    <2>2. CASE file = Edited
      BY <2>2, FirstFiles, MarkersApart
    <2>3. CASE file \in {Legacy(FALSE), Legacy(TRUE)}
      BY <2>3, FirstFiles, MarkersApart
    <2> QED
      BY <2>1, <2>2, <2>3 DEF Init
  <1>3. \A w \in Procs : /\ stage[w] = "idle" /\ mem[w] = Defaults /\ ~broken[w]
                         /\ saving[w] = "load" /\ ~HasLoaded(w) /\ ~Writing(w)
    BY <1>1 DEF HasLoaded, Writing
  <1>4. DiskTypes /\ ProcTypes /\ Whole
    BY <1>1, <1>2 DEF DiskTypes, ProcTypes, Whole
  <1>5. MemTypes /\ AskKept /\ CommandsChecked
    BY <1>1, <1>3, DefaultsAre DEF MemTypes, AskKept, CommandsChecked, Valid
  <1>6. FlagIsForTheSession
    BY <1>2 DEF FlagIsForTheSession, Flagless, NoFlag
  <1>7. LockKept
    BY <1>1, <1>3 DEF LockKept
  <1>8. TmpKept /\ BrokenKept /\ FlaglessTmp /\ OneSaver /\ LoadKept
    BY <1>1, <1>3 DEF TmpKept, BrokenKept, FlaglessTmp, OneSaver, LoadKept
  <1>9. FlagKept
    BY <1>1, <1>3, DefaultsAre, MarkersAssumption DEF FlagKept, Flagless, Knobs
  <1>10. TableKept
    BY <1>3 DEF TableKept, FollowsFile
  <1>11. OldKept
    <2>1. known \notin {"new", "wild", "old"}
      BY <1>1, MarkersAssumption DEF Knobs
    <2>2. \A w \in Procs : ~HasLoaded(w) /\ ~HasKnob(mem[w], {"old"})
      BY <1>3, DefaultsAre
    <2> QED
      BY <1>2, <2>1, <2>2 DEF OldKept
  <1> QED
    BY <1>4, <1>5, <1>6, <1>7, <1>8, <1>9, <1>10, <1>11, StoreParts

LEMMA StutterKeeps ==
  ASSUME StoreInv, UNCHANGED vars
  PROVE  StoreInv'
  <1> USE DEF vars
  <1>1. DiskTypes /\ ProcTypes /\ MemTypes /\ FlagIsForTheSession /\ CommandsChecked
        /\ LockKept /\ AskKept /\ FlagKept /\ BrokenKept /\ FlaglessTmp
        /\ (~raced => OneSaver /\ Whole /\ TmpKept /\ LoadKept /\ TableKept /\ OldKept)
    BY StoreParts
  <1>2. DiskTypes' /\ ProcTypes' /\ MemTypes' /\ FlagIsForTheSession' /\ CommandsChecked' /\ FlaglessTmp'
    BY <1>1 DEF DiskTypes, ProcTypes, MemTypes, FlagIsForTheSession, CommandsChecked, FlaglessTmp
  <1>3. WillSave' = WillSave /\ \A w \in Procs : /\ HasLoaded(w)' = HasLoaded(w)
                                                 /\ Writing(w)' = Writing(w)
                                                 /\ ToSave(w)' = ToSave(w)
                                                 /\ FollowsFile(w)' = FollowsFile(w)
    BY DEF WillSave, HasLoaded, Writing, ToSave, FollowsFile, Arg
  <1>4. LockKept' /\ AskKept' /\ FlagKept' /\ BrokenKept'
    BY <1>1, <1>3 DEF LockKept, AskKept, Op, FlagKept, BrokenKept
  <1>5. ~raced' => OneSaver' /\ Whole' /\ TmpKept' /\ LoadKept' /\ TableKept' /\ OldKept'
    BY <1>1, <1>3 DEF OneSaver, Whole, TmpKept, LoadKept, TableKept, OldKept
  <1> QED
    BY <1>2, <1>4, <1>5, StorePartsNext

LEMMA StoreInvInductive ==
  ASSUME StoreInv, [Next]_vars
  PROVE  StoreInv'
  <1>1. ASSUME NEW w \in Procs, Process(w) PROVE StoreInv'
    BY <1>1, BeginKeeps, LoadKeeps, OpenTmpKeeps, WriteTmpKeeps, WriteFailsKeeps, ReplaceKeeps,
       TakeLockKeeps, LookedKeeps, ModifyKeeps, UnlockKeeps, AskKeeps, AskFailsKeeps,
       RepliedKeeps, KillKeeps DEF Process
  <1>2. CASE TuiUp \/ TuiReload \/ TuiUnlock \/ TuiKey \/ TuiSaves
    BY <1>2, TuiUpKeeps, TuiReloadKeeps, TuiUnlockKeeps, TuiKeyKeeps, TuiSavesKeeps
  <1>3. ASSUME NEW c \in Clis, TuiServes(c) PROVE StoreInv'
    BY <1>3, TuiServesKeeps
  <1>4. CASE UserFixes
    BY <1>4, UserFixesKeeps
  <1>5. CASE UNCHANGED vars
    BY <1>5, StutterKeeps
  <1> QED
    BY <1>1, <1>2, <1>3, <1>4, <1>5 DEF Next

\* StoreInv, for any number of processes, kills and starts: what save_config
\* leaves under the name of config.toml holds no flag of a session, and nobody
\* saves who could not read it; and until two processes save at the same time
\* it is whole, and is what the process that saves it has in memory.
THEOREM StoreInvAlways == Spec => []StoreInv
  <1>1. StoreInv /\ [Next]_vars => StoreInv'
    BY StoreInvInductive
  <1> QED
    BY <1>1, StoreInvInit, PTL DEF Spec

\* Until saves meet, the file changes when it is replaced, or repaired by the user.
LEMMA FileChanges ==
  ASSUME StoreInv, ~raced, [Next]_vars, file' # file
  PROVE  UserFixes \/ \E w \in Procs : Replace(w)
  <1>1. renamed = {}
    BY StoreParts DEF TmpKept
  <1>2. ASSUME NEW w \in Procs, Process(w) PROVE Replace(w)
    BY <1>1, <1>2 DEF Process, Begin, Load, OpenTmp, OpensTmp, WriteTmp, WriteThrough, WriteFails,
       TakeLock, Looked, Modify, Unlock, Ask, AskFails, Replied, Kill, diskVars
  <1>3. ~TuiUp /\ ~TuiReload /\ ~TuiUnlock /\ ~TuiKey /\ ~TuiSaves
        /\ \A c \in Clis : ~TuiServes(c)
    BY DEF TuiUp, TuiReload, TuiUnlock, TuiKey, TuiSaves, TuiServes, diskVars
  <1> QED
    BY <1>2, <1>3 DEF Next, vars

\* A file that cannot be read is repaired by the user, and written by nobody else.
LEMMA BadStays ==
  ASSUME StoreInv, [Next]_vars, file = Bad
  PROVE  file' \in {Bad, Current}
  <1>1. \A w \in Procs : ~Writing(w)
    BY StoreParts DEF BrokenKept, HasLoaded, Writing
  <1>2. ASSUME NEW w \in Procs, Process(w) PROVE file' = file
    BY <1>1, <1>2 DEF Process, Begin, Load, OpenTmp, WriteTmp, WriteFails, Replace, Writing,
       TakeLock, Looked, Modify, Unlock, Ask, AskFails, Replied, Kill, diskVars
  <1>3. ~(TuiUp \/ TuiReload \/ TuiUnlock \/ TuiKey \/ TuiSaves \/ \E c \in Clis : TuiServes(c))
        \/ file' = file
    BY DEF TuiUp, TuiReload, TuiUnlock, TuiKey, TuiSaves, TuiServes, diskVars
  <1>4. CASE UserFixes
    BY <1>4 DEF UserFixes
  <1> QED
    BY <1>2, <1>3, <1>4 DEF Next, vars

\* ProfilesKept: until two processes save at the same time, no save of the TUI
\* or of a load takes a profile away or brings one back, and a command changes
\* only its own.
THEOREM ProfilesKeptAlways == Spec => ProfilesKept
  <1>1. ASSUME StoreInv, [Next]_vars
        PROVE  [raced \/ ClisOwnTable]_vars
    <2> SUFFICES ASSUME ~raced, file' # file, IsConfig(file)
                 PROVE  \/ file'.profiles \in {file.profiles, Settled(file)}
                        \/ \E w \in Clis : /\ stage[w] = "replace" /\ saving[w] = "command"
                                          /\ \A n \in Names \ {Arg(w)} :
                                               file'.profiles[n] = Settled(file)[n]
      BY DEF ClisOwnTable
    <2>1. ~UserFixes
      BY MarkersApart DEF UserFixes
    <2>2. PICK w \in Procs : Replace(w)
      BY <1>1, <2>1, FileChanges
    <2>3. stage[w] = "replace" /\ Writing(w) /\ HasLoaded(w)
      BY <2>2 DEF Replace, Writing, HasLoaded
    <2>4. file'.profiles = mem[w].profiles /\ FollowsFile(w)
      BY <1>1, <2>2, WhatIsSaved
    <2>5. saving[w] \in {"load", "command"}
      BY <1>1, StoreParts DEF ProcTypes
    <2>6. CASE saving[w] = "load"
      BY <2>3, <2>4, <2>6 DEF FollowsFile
    <2>7. CASE saving[w] = "command" /\ w = Tui
      BY <2>3, <2>4, <2>7 DEF FollowsFile
    <2>8. CASE saving[w] = "command" /\ w # Tui
      <3>1. w \in Clis /\ \A n \in Names \ {Arg(w)} : mem[w].profiles[n] = Settled(file)[n]
        BY <2>3, <2>4, <2>8 DEF FollowsFile, Procs
      <3> QED
        BY <2>3, <2>4, <2>8, <3>1
    <2> QED
      BY <2>5, <2>6, <2>7, <2>8
  <1> QED
    BY <1>1, StoreInvAlways, PTL DEF Spec, ProfilesKept

\* UsersStay: nobody writes over a file that did not load; and until two
\* processes save at the same time, what the user has pinned stays pinned and is
\* not bumped.
THEOREM UsersStayAlways == Spec => UsersStay
  <1> DEFINE Stays == /\ file = Bad => file' \in {Bad, Current}
                      /\ ~raced /\ IsConfig(file) /\ file.pinned =>
                           /\ IsConfig(file') /\ file'.pinned /\ ~Bumped(file, file')
                           /\ \A n \in Names : ~Bumped(file.profiles[n], file'.profiles[n])
  <1>1. ASSUME StoreInv, [Next]_vars
        PROVE  Stays
    <2>1. file = Bad => file' \in {Bad, Current}
      BY <1>1, BadStays
    <2> SUFFICES ASSUME ~raced, IsConfig(file), file.pinned
                 PROVE  /\ IsConfig(file') /\ file'.pinned /\ ~Bumped(file, file')
                        /\ \A n \in Names : ~Bumped(file.profiles[n], file'.profiles[n])
      BY <2>1
    <2>2. CASE file' = file
      BY <2>2 DEF Bumped
    <2>3. ~UserFixes
      BY MarkersApart DEF UserFixes
    <2>4. ASSUME NEW w \in Procs, Replace(w)
          PROVE  /\ IsConfig(file') /\ file'.pinned /\ ~Bumped(file, file')
                 /\ \A n \in Names : ~Bumped(file.profiles[n], file'.profiles[n])
      <3>1. /\ file' \in Configs /\ file'.pinned = mem[w].pinned /\ FollowsFile(w)
            /\ WhatIsPinnedStays => file'.pinned /\ ~HasKnob(file', {"new", "wild"})
        BY <1>1, <2>4, WhatIsSaved
      <3>2. Writing(w) /\ HasLoaded(w) /\ saving[w] \in {"load", "command"}
        BY <1>1, <2>4, StoreParts DEF Replace, Writing, HasLoaded, ProcTypes
      <3>3. file'.pinned
        BY <3>1, <3>2 DEF FollowsFile
      <3>4. CASE WhatIsPinnedStays
        BY <3>1, <3>3, <3>4, MarkersApart DEF Bumped, HasKnob
      <3>5. CASE NothingOldStays
        <4>1. ~HasKnob(file, {"old"})
          BY <3>5 DEF NothingOldStays
        <4> QED
          BY <3>1, <3>3, <4>1, MarkersApart DEF Bumped, HasKnob
      <3>6. WhatIsPinnedStays \/ NothingOldStays
        BY <1>1, StoreParts DEF OldKept, WhatIsPinnedStays, NothingOldStays
      <3> QED
        BY <3>4, <3>5, <3>6
    <2> QED
      BY <1>1, <2>2, <2>3, <2>4, FileChanges
  <1>2. UsersStay <=> [][Stays]_vars
    BY DEF UsersStay
  <1> HIDE DEF Stays
  <1> QED
    BY <1>1, <1>2, StoreInvAlways, PTL DEF Spec
=============================================================================
