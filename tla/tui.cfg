\* Two clients, one of slow commands, one key press at any moment, a pool of one
\* worker, two profiles.
SPECIFICATION FairSpec
CONSTANTS
  c1 = c1
  c2 = c2
  rock = rock
  pop = pop
  solo = solo
  duo = duo
  Clients = {c1, c2}
  KeyJob = KeyJob
  Commands <- SomeCommands
  Keys = {"t", "0", "p", "q"}
  Voices <- TwoVoices
  Profiles <- TwoProfiles
  ProfileVoice <- VoiceOf
  ProfilePitch <- PitchOf
  FirstVoice = rock
  MaxPitch = 1
  MaxPresses = 1
  PoolSize = 1
  NoVoice = NoVoice
INVARIANTS
  ControlInv
  DoneMeansApplied
  ExitsStopped
  PitchReachesEngine
PROPERTIES
  Served
CHECK_DEADLOCK FALSE
