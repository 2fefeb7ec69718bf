SPECIFICATION Spec
CONSTANTS
  Moves <- Steps
  MaxPending = 3
  BufferSize = 3
  Delay = 1
  Threshold = 0
  MaxInputs = 5
CHECK_DEADLOCK FALSE
INVARIANTS
  InputsAccountedFor
  AtRestItAgrees
PROPERTIES
  CorrectionReplays
  BufferDrains
