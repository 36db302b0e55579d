SPECIFICATION Spec
CONSTANTS
  Tasks = {t1, t2, t3}
  Main = main
SYMMETRY Symmetry
INVARIANTS
  LinksLive
  CancelSeesLiveEvent
  NobodyLeftReady
PROPERTIES
  Implements
