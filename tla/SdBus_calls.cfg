SPECIFICATION FairSpec
CONSTANTS
  Tasks = {t1, t2}
  Faults = {"mem", "bus", "timeout", "disconnect"}
INVARIANTS
  CallbacksLive
  NeverAborts
  NothingLeaked
  OwnJobDone

  
