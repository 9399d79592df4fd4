\* The TUI and one command.
SPECIFICATION Spec
CONSTANTS
  c1 = c1
  c2 = c2
  solo = solo
  duo = duo
  rock = rock
  Tui = Tui
  Clis = {c1}
  Names = {solo, duo}
  Commands <- AllCommands
  Voices = {rock}
  NoVoice = NoVoice
  None = None
  Missing = Missing
  Bad = Bad
  Torn = Torn
  Flagged = FALSE
  MaxStarts = 1
  MaxKeys = 2
  MaxKills = 0

INVARIANT
  ValuesChecked
CHECK_DEADLOCK FALSE
