SPECIFICATION Spec
CONSTANTS
  Vms = {v1, v2}
  Harts = {h1, h2}
  ConfidentialHarts = 2
  Pages = {p1, p2, p3}
  SharedPages = {s1}
  Unchecked = Unchecked
  Host = Host
  Levels = 2
  RootEntries = 2
  VpnRange = 1
  Entries = 2
SYMMETRY Symmetry
INVARIANTS TypeOK PagesHaveOneOwner MemoryMatchesEntries AccessStaysInOwnMemory
PROPERTIES ShareMapsOneAddress
CHECK_DEADLOCK FALSE
