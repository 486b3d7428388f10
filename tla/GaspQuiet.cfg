SPECIFICATION FairSpec
CONSTANTS
  p1 = p1
  p2 = p2
  Pids = {p1, p2}
  None = None
  Forks = FALSE
  Sysfs = FALSE
  EarlyNmi = FALSE
  MaxBoots = 3
INVARIANTS GaspKept ResetWasAsked RegistrantHolds
PROPERTIES GaspSignalled SignalsClient
