CONSTANTS
  Pids = {p1}
  Threads = {t1}
  None = None
  RediscoverSecs = 1
  HasDuration = FALSE
  RequestInfo = TRUE
  PidReuse = FALSE
  MaxGen = 1
  MaxSamples = 2
SPECIFICATION Spec
SYMMETRY Symmetry
INVARIANTS UrisCarryPid
