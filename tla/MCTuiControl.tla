---------------------------- MODULE MCTuiControl ----------------------------
(***************************************************************************)
(* Instances of TuiControl for TLC: two profiles, of which one has saved   *)
(* the voice the engine starts with.                                       *)
(***************************************************************************)
EXTENDS TuiControl, TLC

CONSTANTS c1, c2, rock, pop, solo, duo

TwoVoices == {rock, pop}
TwoProfiles == {solo, duo}
VoiceOf == solo :> rock @@ duo :> pop
PitchOf == solo :> 0 @@ duo :> 1
\* The one sends slow commands, the other short ones.
SomeCommands ==
  c1 :> {<<"MODEL", pop>>, <<"PROFILE", solo>>, <<"PROFILE", NoVoice>>}
  @@ c2 :> {<<"TOGGLE", NoVoice>>, <<"QUIT", NoVoice>>, <<"PITCH", 1>>, <<"MODEL", NoVoice>>}
=============================================================================
