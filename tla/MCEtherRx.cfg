\* Five frames go round the ring of three and two beyond; the queue holds one post,
\* so that posts are lost; both devices.
SPECIFICATION FairSpec
CONSTANTS
  N = 3
  Areas = 4
  QMax = 1
  Devices = {TRUE, FALSE}
  MaxFrames = 5
INVARIANTS
  TypeOK
  OutInOrder
  AreasApart
  StillKnown
PROPERTY RingEmpties
