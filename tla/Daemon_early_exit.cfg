SPECIFICATION Spec
CONSTANTS
  Conns = {c1}
  MaxNrTasks = 1
  Faults = {}
  Signals = {"SIGTERM"}
  Requests = {"good"}
  Null = Null
INVARIANTS
  ExitsWhenTasksOver
