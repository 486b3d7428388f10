SPECIFICATION Spec
CONSTANTS
  class3 = class3
  class4 = class4
  Users = {}
  Ops = {}
  Classes = {class3, class4}
  ClassmA <- MCClassmA
  S32_MAX = 1023
  mA_avail = 575
  Statp = {class3, "open", "unclassed"}
  Plugged = {0}
  Totals = {}
  I2CFaults = {"poll", "status", "power"}
  MaxCancel = 1
INVARIANT NeverInflated
