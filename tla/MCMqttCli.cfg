\* Two clients: the current one, and an earlier one that is lost or still up.
SPECIFICATION FairSpec
CONSTANTS
  Clients = 2
  Msgs = {a, b}
  Empty = Empty
  Torn = Torn
INVARIANTS
  TypeOK
  WaitedForClient
PROPERTY MessageHanded
