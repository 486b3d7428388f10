SPECIFICATION Spec
CONSTANTS
  m1 = m1
  m2 = m2
  None = None
  Modems <- MCModems
  Orders <- MCOrders
  Pids = {m1, m2}
  Users = {"u"}
  Bgs = {"b"}
  Tries = 2
  MaxQueue = 2
SYMMETRY PidSymmetry
INVARIANTS TypeOK Rendezvous
PROPERTY StopKills
