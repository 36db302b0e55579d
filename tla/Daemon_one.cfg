SPECIFICATION FairSpec
CONSTANTS
  Conns = {c1}
  MaxNrTasks = 1
  Faults = {"bus", "kill", "bpf", "fd"}
  Signals = {"SIGTERM", "SIGINT"}
  Requests = {"none", "good", "bad"}
  Null = Null
INVARIANTS
  TypeOK
  StreamAlive
  AllTasksOver
PROPERTIES
  OneVerdict
  SlotReleased
  ExitsAfterCommands
