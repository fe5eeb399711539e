SPECIFICATION ClientFairSpec
CONSTANTS
  MaxTries = 1
  MaxEvents = 2
INVARIANTS
  ClientTypeOK
  StateMatchesEngine
  NoLeaseAfterTimeout
PROPERTY TriesEndWait
