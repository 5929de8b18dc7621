SPECIFICATION Spec
CONSTANTS
  Callers = {c1}
  NoCaller = NoCaller
  Jobs = 1
  MaxToggles = 1
PROPERTY
  ShutdownStands
