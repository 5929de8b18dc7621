SPECIFICATION FairSpec
CONSTANTS
  Targets = 2
  MaxInputs = 2
INVARIANTS
  TypeOK
  NoOutputLost
  LifecycleComplete
  TargetsApart
  RawOnlyWhileScanning
  GracefulFirst
PROPERTIES
  Closes
