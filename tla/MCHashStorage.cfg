SPECIFICATION Spec
CONSTANTS
  Threads = {t1, t2}
  Key = {k1}
  NoKey = NoKey
  Addr = {a1, a2, a3, a4, a5}
  NONE = NONE
  MaxCas = 3
  MaxTime = 2
SYMMETRY Symmetry
INVARIANTS TableItemsAlive OneOwner
PROPERTIES ImplementsStore
CHECK_DEADLOCK FALSE
