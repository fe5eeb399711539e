SPECIFICATION Spec
CONSTANTS
  QueueMax = 3
  OtherInds = {EXT_AUTH}
  NoMsg = NoMsg
  AllocMayFail = TRUE
  MaxOverflows = 1
  PowerManager = TRUE
INVARIANTS
  TypeOK
  QueueLeadsToState
  PowerSaveSettles
  BuffersAccounted
