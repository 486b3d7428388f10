SPECIFICATION FairSpec
CONSTANTS
  Debounce = 3
  MaxSwdt = 2
  SwdtDefaults = {0, 2}
  CntMax = 1
  Requests = {"RESET_WARM", "RESET_COLD", "POWER_OFF",
              "POWER_CYCLE", "POWER_CYCLE_CR"}
  Faults = {"PWRGD", "PMU_SLP", "THMTRIP"}
  PicResets = TRUE
INVARIANTS TypeOK SignalOrder TimedWait
PROPERTIES MinOffTime FaultsPowerOff PowerReturns
