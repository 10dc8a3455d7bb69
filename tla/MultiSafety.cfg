CONSTANTS
  Pids = {p1, p2}
  Threads = {t1, t2}
  None = None
  RediscoverSecs = 1
  HasDuration = FALSE
  RequestInfo = FALSE
  PidReuse = FALSE
  MaxGen = 2
  MaxSamples = 2
SPECIFICATION Spec
SYMMETRY Symmetry
INVARIANTS NoOrphanWorker QuietAtTheEnd AtMostOneLost LostOnlyIfCut
PROPERTIES ImplementsStream
