SPECIFICATION FairSpec
CONSTANTS
  RateArgs <- MCRateArgs
  TimeArgs <- MCTimeArgs
  Garbage = Garbage
  WORD = 128
  UNSIGNED = 16
  KILO = 3
  MINUTE = 2
  HOUR = 2
  DAY = 2
  BITS = 8
  MaxQueue = 2
INVARIANTS
  AlarmKillsNobody
  AsksWhatWasMeant
PROPERTIES
  VerdictHeard
  CloseNoticed
  WaitBounded
