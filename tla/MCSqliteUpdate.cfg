SPECIFICATION Spec
CONSTANTS
  Key = {k1, k2}
  NoItem = NoItem
  MaxCas = 3
  MaxTime = 2
PROPERTY AcceptedIsStored
CHECK_DEADLOCK FALSE
