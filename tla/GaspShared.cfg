SPECIFICATION Spec
CONSTANTS
  p1 = p1
  p2 = p2
  Pids = {p1, p2}
  None = None
  Forks = TRUE
  Sysfs = TRUE
  EarlyNmi = TRUE
  MaxBoots = 2
SYMMETRY PidSymmetry
INVARIANTS TypeOK OpenIsRegistered
