SPECIFICATION Spec
CONSTANTS
  Conns = {c1, c2}
  Versions = {1, 2}
  MaxFaults = 2
INVARIANTS MarkerHonest MarkedIsOpen NoNeedlessInstall
PROPERTY EveryoneConnects
