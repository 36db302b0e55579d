SPECIFICATION Spec
CONSTANTS
  Conns = {c1, c2}
  MaxNrTasks = 2
  Faults = {}
  Signals = {"SIGTERM"}
  Requests = {"good"}
  Null = Null
SYMMETRY ConnSymmetry
INVARIANTS
  Enforced
  NestedRefused
  WakeupPending
  MapFits
PROPERTIES
  UnitNameOnce
  KeepsPromise
