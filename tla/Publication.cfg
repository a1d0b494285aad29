\* Three runs for one destination, two losses of power.
SPECIFICATION Spec
CONSTANTS
  Tools = {t1, t2, t3}
  None = None
  Foreign = Foreign
  MaxLosses = 2
SYMMETRY Symmetry
CHECK_DEADLOCK FALSE
INVARIANT
  LeavesNoStaging
PROPERTY
  ImplementsPublication
