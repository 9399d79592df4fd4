\* Every part on its own.
SPECIFICATION Spec
CONSTANTS
  p1 = p1
  p2 = p2
  v1 = v1
  v2 = v2
  v3 = v3
  low = low
  high = high
  high2 = high2
  \* A download or conversion after another, one of them killed.
  MaxCommands = 2
  MaxKilled = 1
  \* Two processes; two calls that fail, of which one may hang or be a restart.
  Cmds = {p1, p2}
  MaxRuns = 3
  MaxFails = 2
  MaxDeaths = 1
  \* A cache of two for three models, the engine thread and a preloader.
  Paths = {v1, v2, v3}
  Worker = engine
  Loaders = {preloader}
  PoolSize = 2
  NoSession = NoSession
  Voices = {low, high, high2}
  FirstVoice = low
  RateOf <- Rates
  SinkRate = 40
  Context = 4
  Crossfade = 1
  Search = 2
  Trim = 1
  ChunkSizes = {0, 1, 3}
  DropLimit = 3
  Modes = {"in-process", "child"}
  \* The default's 25 frames of history for a gap of 8, in proportion.
  History = 4
  New = 3
  Dropped = 3
  Surplus = 1
  MaxGap = 2
  \* One run may be cut off; a second follows.
  MaxMigrations = 2
  MaxCuts = 1
SYMMETRY Interchangeable
INVARIANTS
  ChainInv
  ChunkInv
  PitchKept
PROPERTIES
  LibrarySafe
  PoolSafe
  Stitched
  MigrationSafe
CHECK_DEADLOCK FALSE
