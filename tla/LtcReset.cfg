SPECIFICATION FairSpec
CONSTANTS
  class3 = class3
  class4 = class4
  Users = {1}
  Ops = {"reset"}
  Classes = {class3, class4}
  ClassmA <- MCClassmA
  S32_MAX = 1023
  mA_avail = 300
  Statp = {class3, "open"}
  Plugged = {0}
  Totals = {}
  I2CFaults = {}
  MaxCancel = 2
INVARIANT TimerOfThisPowerOn
PROPERTIES StoresReturn GoodNotTimedOut
