SPECIFICATION MCSpec
CONSTANTS
  Macs = {m1, m2, m3}
  NoMac = NoMac
  N = 3
  NoAddr = NoAddr
  MboxMax = 2
  ApMax = 2
SYMMETRY Symmetry
INVARIANTS
  TypeOK
  NoDuplicateMac
  AnswersOwnSlot
  
  ArpAgrees
  SwitchTypeOK
  RunningIsKnown
PROPERTY ImplementsLease
