SPECIFICATION Spec
CONSTANTS
  Procs = {p1, p2, p3}
  p1 = p1
  p2 = p2
  p3 = p3
  MaxDeaths = 1
SYMMETRY MCSymmetry
INVARIANTS
  OneHolder
CHECK_DEADLOCK FALSE
