SPECIFICATION Spec
CONSTANTS
  class3 = class3
  class4 = class4
  Users = {1}
  Ops = {"chip_reset"}
  Classes = {class3, class4}
  ClassmA <- MCClassmA
  S32_MAX = 1023
  mA_avail = 300
  Statp = {class3, "open"}
  Plugged = {0}
  Totals = {}
  I2CFaults = {"configure"}
  MaxCancel = 1
INVARIANT FreshBudget
