SPECIFICATION Spec
CONSTANTS
  class3 = class3
  class4 = class4
  Users = {1}
  Ops = {"on", "off", "chip_mode", "total_mA"}
  Classes = {class3}
  ClassmA <- MCClassmA
  S32_MAX = 300
  mA_avail = 300
  Statp = {class3, "open"}
  Plugged = {0}
  Totals = {601}
  I2CFaults = {}
  MaxCancel = 1
INVARIANTS TypeOK BudgetConserved
PROPERTY BudgetSpec
