SPECIFICATION Spec
CONSTANTS
  PwrOnDelay = 2
  SupplyDelay = 6
  PMU_SLP_S45_TIMEOUT = 10
  CAT_ERR_TIMEOUT = 180
INVARIANTS TypeOK HotBounded
PROPERTIES ShutdownIsFinal IdleComesBack DeadSoCGivenUp
