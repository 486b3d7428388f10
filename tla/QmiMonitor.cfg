SPECIFICATION FairSpec
CONSTANTS
  SoftReset = 4
  HardReset = 20
  IpErrors = 15
  States = {"connected", "disconnected", "other"}
INVARIANTS ErrorsBelow UpMeansConnected
PROPERTY Recovers
