SPECIFICATION FairSpec
CONSTANTS
  Conns = {c1, c2}
  MaxNrTasks = 1
  Faults = {}
  Signals = {}
  Requests = {"good"}
  Null = Null
PROPERTIES
  ClientAnswered
  KeepsPromise
