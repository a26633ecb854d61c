SPECIFICATION Spec
CONSTANTS
  Key = {k1, k2}
  NoItem = NoItem
  MaxCas = 3
  MaxTime = 2
SYMMETRY Symmetry
INVARIANT NothingLostUnderWay
PROPERTY ImplementsStore
CHECK_DEADLOCK FALSE
