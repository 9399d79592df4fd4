\* The TUI, started twice with a flag, and any two commands; one key, one kill.
SPECIFICATION Spec
CONSTANTS
  c1 = c1
  c2 = c2
  solo = solo
  duo = duo
  rock = rock
  Tui = Tui
  Clis = {c1, c2}
  Names = {solo, duo}
  Commands <- AllCommands
  Voices = {rock}
  NoVoice = NoVoice
  None = None
  Missing = Missing
  Bad = Bad
  Torn = Torn
  Flagged = TRUE
  MaxStarts = 2
  MaxKeys = 1
  MaxKills = 1
SYMMETRY Interchangeable
INVARIANTS
  StoreInv
PROPERTIES
  ProfilesKept
  UsersStay
CHECK_DEADLOCK FALSE
