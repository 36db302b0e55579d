SPECIFICATION Spec
CONSTANTS
  a = a
  b = b
  Devices <- MCDevices
  IfaceList <- MCIfaceList
  InitDev <- MCInitDev
  MaxRuns = 3
  Faults = {"boot", "send", "recv", "refuse"}
INVARIANTS
  ServingLimited
  FailsForCause
PROPERTIES
  OthersKept
