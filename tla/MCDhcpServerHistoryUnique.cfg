SPECIFICATION HistorySpec
CONSTANTS
  Macs = {m1, m2}
  NoMac = NoMac
  N = 2
  NoAddr = NoAddr
SYMMETRY Symmetry
INVARIANT AddressUnique
