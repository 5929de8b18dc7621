SPECIFICATION FairSpec
CONSTANTS
  Callers = {c1, c2}
  NoCaller = NoCaller
  Jobs = 2
  MaxToggles = 3
INVARIANTS
  TypeOK
  NoLostWakeup
  PauseStops
PROPERTIES
  CallsEnd
  HelpersEnd
  Closes
