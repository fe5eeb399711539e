\* Seven frames go twice round the ring of three and one beyond.
SPECIFICATION FairSpec
CONSTANTS
  N = 3
  MaxFrames = 7
INVARIANTS
  TypeOK
  SentInOrder
  PostedOnce
  ReadyIsRoom
PROPERTY FramesLeave
\* When no more frames come, the bridge is quiet.
CHECK_DEADLOCK FALSE
