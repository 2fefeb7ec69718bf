SPECIFICATION LoopSpec
CONSTANTS
  Callback = {f, g}
  NoCallback = NoCallback
INVARIANTS
  ReplacedNeverRuns
  StopWakesTheLoop
  OneMoreTickAtMost
PROPERTIES
  StopEnds
