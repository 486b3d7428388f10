SPECIFICATION Spec
CONSTANTS
  class3 = class3
  class4 = class4
  Users = {}
  Ops = {}
  Classes = {class3, class4}
  ClassmA <- MCClassmA
  S32_MAX = 1023
  mA_avail = 575
  Statp = {class4, "open"}
  Plugged = {0, 1}
  Totals = {}
  I2CFaults = {}
  MaxCancel = 1
INVARIANT NoOvercommit
