SPECIFICATION FairUseSpec
CONSTANTS
  MaxRx = 2
INVARIANTS
  WaitIsServed
  NothingLeftArmed
  NoPhantomIo
PROPERTIES
  ClosedIsFinal
  IoEnds
