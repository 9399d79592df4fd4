---------------------------- MODULE ModelLibrary ----------------------------
(***************************************************************************)
(* The directory of ONNX models and the commands that put files there:     *)
(* `models download` (src/woys/models.py), `convert` (convert.py),         *)
(* `fp16-convert` (fp16_convert.py) and scripts/download_weights.py.  The  *)
(* engine loads what it finds under a name without looking at its hash.    *)
(*                                                                         *)
(* One voice and one foundation weight stand for all of them.  Commands    *)
(* run one after another; each may fail or be killed at any step.          *)
(***************************************************************************)
EXTENDS Naturals

CONSTANTS MaxCommands, MaxKilled

LibraryAssumption == MaxCommands \in Nat /\ MaxKilled \in Nat

Weights == {"rmvpe", "rmvpe-fp16"}
Files == {"voice", "voice_simple", "voice_fp32_ref"} \cup Weights
\* Half a file; the content that a known hash pins; another whole file.
Contents == {"torn", "pinned", "other"}
Dir == [Files -> Contents \cup {"none"}]

VARIABLES
  dir,      \* the models directory: what is under each name
  part,     \* the content of a .part file, or "none"
  cache,    \* the content of the voice in the cache of huggingface_hub
  linked,   \* dir.voice is a hard link to that file
  step,     \* where the command is; "idle" between commands
  job,      \* the command's arguments
  outcome,  \* how the last command ended
  commands, killed    \* bounds

libVars == <<dir, part, cache, linked, step, job, outcome, commands, killed>>

NoJob == [file |-> "voice", hashed |-> FALSE, trusting |-> FALSE, force |-> FALSE, fp16 |-> FALSE]

LibInit ==
  /\ dir \in {d \in Dir : d["voice_simple"] = "none" /\ d["voice_fp32_ref"] = "none"}
  /\ part = "none"
  /\ cache \in {"none", "pinned", "other"} /\ linked \in {l \in BOOLEAN : l => dir["voice"] = cache}
  /\ linked => cache # "none"
  /\ step = "idle" /\ job = NoJob /\ outcome = "none"
  /\ commands = 0 /\ killed = 0

Put(f, c) == dir' = [dir EXCEPT ![f] = c]
\* A write in place goes through the hard link into the cache.
PutInPlace(f, c) ==
  /\ Put(f, c)
  /\ cache' = IF f = "voice" /\ linked THEN c ELSE cache
Goes(s) == step' = s /\ UNCHANGED <<job, outcome, commands, killed>>
Ends(r) == step' = "idle" /\ outcome' = r /\ UNCHANGED <<job, commands, killed>>

Start(s, j) ==
  /\ step = "idle" /\ commands < MaxCommands
  /\ commands' = commands + 1 /\ outcome' = "none" /\ job' = j /\ step' = s
  /\ UNCHANGED <<dir, part, cache, linked, killed>>

-----------------------------------------------------------------------------
(* models download: each .onnx file of a repository, by its base name.     *)

\* A bug: a file of the repository may have any name.
AnyEntry == {"voice", "rmvpe"}
\* Files with the name of a foundation weight are not installed.
Entries == AnyEntry \ Weights
StartDownload == \E f \in Entries, h \in BOOLEAN : Start("fetch", [NoJob EXCEPT !.file = f, !.hashed = h])

\* hf_hub_download of the pinned revision: what the cache has, or the network.
Fetched ==
  /\ step = "fetch"
  /\ \/ cache # "none" /\ Goes("verify") /\ UNCHANGED cache
     \/ cache = "none" /\ Goes("verify") /\ cache' \in {"pinned", "other"}
     \/ cache = "none" /\ Ends("error") /\ UNCHANGED cache
  /\ UNCHANGED <<dir, part, linked>>

\* A bug: the hash of the cache is not compared.
VerifiedAny == TRUE
\* The hash of the cache file against that of the repository, if it has one.
Verified == job.hashed => cache = "pinned"
SameContent == linked \/ dir[job.file] = (IF job.hashed THEN "pinned" ELSE cache)
Verify ==
  /\ step = "verify"
  /\ IF ~Verified THEN Ends("error")
     ELSE IF dir[job.file] # "none" /\ SameContent THEN Ends("landed")
     ELSE Goes("unlink")
  /\ UNCHANGED <<dir, part, cache, linked>>

Unlink == step = "unlink" /\ Put(job.file, "none") /\ linked' = FALSE /\ Goes("link")
          /\ UNCHANGED <<part, cache>>

\* A hard link, or a copy where the cache is on another file system.
Link ==
  /\ step = "link"
  /\ \/ Put(job.file, cache) /\ linked' = (job.file = "voice") /\ Ends("landed")
     \/ Put(job.file, "torn") /\ UNCHANGED linked /\ Goes("copy")
  /\ UNCHANGED <<part, cache>>
Copy ==
  /\ step = "copy"
  /\ \/ Put(job.file, cache) /\ Ends("landed")
     \/ Ends("error") /\ UNCHANGED dir
  /\ UNCHANGED <<part, cache, linked>>

-----------------------------------------------------------------------------
(* convert: a .pth checkpoint becomes <voice>.onnx, or what --output says  *)
(* (not a foundation weight: the user's word is not questioned).           *)

StartConvert == \E h \in BOOLEAN : Start("probe", [NoJob EXCEPT !.fp16 = h])

\* The checkpoint cannot be read, or not without a consent that is missing.
Probe == step = "probe" /\ (Ends("error") \/ Goes("export")) /\ UNCHANGED <<dir, part, cache, linked>>

\* The exporter opens its output in place, then the simplified sibling.
Export ==
  /\ step = "export" /\ PutInPlace("voice", "torn") /\ Goes("exporting")
  /\ UNCHANGED <<part, linked>>
Exported ==
  /\ step = "exporting"
  /\ \/ PutInPlace("voice", "other") /\ Goes("simplify")
     \/ Ends("error") /\ UNCHANGED <<dir, cache>>
  /\ UNCHANGED <<part, linked>>
Simplify ==
  /\ step = "simplify"
  /\ \/ Put("voice_simple", "torn") /\ Goes("simplifying")
     \/ Ends("error") /\ UNCHANGED dir
  /\ UNCHANGED <<part, cache, linked>>
Simplified ==
  /\ step = "simplifying"
  /\ \/ Put("voice_simple", "other") /\ Goes("validate")
     \/ Ends("error") /\ UNCHANGED dir
  /\ UNCHANGED <<part, cache, linked>>

Validate ==
  /\ step = "validate"
  /\ Ends("error") \/ Goes(IF job.fp16 THEN "reference" ELSE "tidy")
  /\ UNCHANGED <<dir, part, cache, linked>>

\* The quality gate of fp16: a second export, compared and always deleted.
Reference ==
  /\ step = "reference" /\ Put("voice_fp32_ref", "torn") /\ Goes("gate")
  /\ UNCHANGED <<part, cache, linked>>
Gate == step = "gate" /\ Put("voice_fp32_ref", "none") /\ Goes("tidy") /\ UNCHANGED <<part, cache, linked>>

Tidy ==
  /\ step = "tidy" /\ Put("voice_simple", "none") /\ Ends("converted")
  /\ UNCHANGED <<part, cache, linked>>

-----------------------------------------------------------------------------
(* fp16-convert and download_weights.py: a .part file, checked, renamed.   *)

StartFp16 == \E force \in BOOLEAN : Start("fp16", [NoJob EXCEPT !.file = "rmvpe-fp16", !.force = force])
StartWeights ==
  \E f \in {"rmvpe", "voice"}, force, trusting \in BOOLEAN :
    Start("weights", [NoJob EXCEPT !.file = f, !.force = force, !.trusting = trusting])

\* What is there is kept if it loads (fp16), or has the pinned hash.
Kept ==
  /\ dir[job.file] # "none" /\ ~job.force
  /\ IF step = "fp16" THEN dir[job.file] # "torn" ELSE job.trusting \/ dir[job.file] = "pinned"
Look ==
  /\ step \in {"fp16", "weights"}
  /\ \/ step = "fp16" /\ dir["rmvpe"] = "none" /\ Ends("error") /\ UNCHANGED <<dir, part, cache, linked>>
     \/ /\ step = "fp16" => dir["rmvpe"] # "none"
        /\ Kept /\ Ends("present") /\ UNCHANGED <<dir, part, cache, linked>>
     \/ /\ step = "fp16" => dir["rmvpe"] # "none"
        /\ ~Kept /\ part' = "torn" /\ Goes(IF step = "fp16" THEN "saving" ELSE "getting")
        /\ UNCHANGED <<dir, cache, linked>>

\* Disk full, no network, or an interrupt: the .part file goes.
Aborted == part' = "none" /\ Ends("error") /\ UNCHANGED <<dir, cache, linked>>
Saved ==
  /\ step \in {"saving", "getting"}
  /\ \/ Aborted
     \/ /\ part' \in {"pinned", "other"} /\ Goes(IF step = "saving" THEN "checked" ELSE "hashing")
        /\ UNCHANGED <<dir, cache, linked>>

Hashed ==
  /\ step = "hashing"
  /\ IF job.trusting \/ part = "pinned" THEN Goes("checked") /\ UNCHANGED <<dir, part, cache, linked>>
     ELSE Aborted
\* A bug: renamed when it is opened.
RenamedEarly == Put(job.file, "torn")
Renamed == Put(job.file, part)
Rename ==
  /\ step = "checked" /\ Renamed /\ part' = "none" /\ Ends("installed")
  /\ linked' = (linked /\ job.file # "voice") /\ UNCHANGED cache

-----------------------------------------------------------------------------
\* The end of a command at any point: every file stays as it is.
Killed ==
  /\ step # "idle" /\ killed < MaxKilled
  /\ killed' = killed + 1 /\ step' = "idle" /\ outcome' = "killed"
  /\ UNCHANGED <<dir, part, cache, linked, job, commands>>

LibNext ==
  \/ StartDownload \/ Fetched \/ Verify \/ Unlink \/ Link \/ Copy
  \/ StartConvert \/ Probe \/ Export \/ Exported \/ Simplify \/ Simplified \/ Validate
  \/ Reference \/ Gate \/ Tidy
  \/ StartFp16 \/ StartWeights \/ Look \/ Saved \/ Hashed \/ Rename
  \/ Killed

LibSpec == LibInit /\ [][LibNext]_libVars

-----------------------------------------------------------------------------
(* Properties.                                                             *)

LibTypeOK ==
  /\ dir \in Dir /\ part \in Contents \cup {"none"} /\ cache \in Contents \cup {"none"}
  /\ linked \in BOOLEAN /\ outcome \in {"none", "landed", "converted", "present", "installed",
                                        "error", "killed"}

\* A download that says a voice is there has the content the repository's
\* hash pins under its name: also when it found a file there already, when
\* that file is the cache's own, and after conversions wrote through the link.
LandedIsPinned == outcome = "landed" /\ job.hashed => dir[job.file] = "pinned"

\* A conversion that succeeds leaves nothing else in the library, whatever
\* earlier ones left there; the reference of its quality gate is not listed
\* as a voice after an fp16 conversion.
ConvertedIsAlone ==
  outcome = "converted" =>
    dir["voice"] = "other" /\ dir["voice_simple"] = "none" /\ (job.fp16 => dir["voice_fp32_ref"] = "none")

LibraryInv == LibTypeOK /\ LandedIsPinned /\ ConvertedIsAlone

\* The engine loads a foundation weight whenever the name exists: no command
\* puts half a file under it, takes it away, or replaces the weight by what
\* does not have its hash unless it was told to skip the check.
WeightsStay ==
  [][\A f \in Weights : dir'[f] # dir[f] =>
       /\ dir'[f] \notin {"torn", "none"}
       /\ f = "rmvpe" => dir'[f] = "pinned" \/ job.trusting]_libVars

\* What a download or a conversion that succeeds has left in the library; and
\* foundation weights are whole, and the pinned ones, at any moment.
LibrarySafe == []LibraryInv /\ WeightsStay

\* Refuted: after convert no sibling is listed.  One that fails in its
\* validation, or is killed, leaves <voice>_simple.onnx to `models list`.
NothingLeft == step = "idle" => dir["voice_simple"] = "none"
=============================================================================
