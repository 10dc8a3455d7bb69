CONSTANTS
  Pids = {p1}
  Threads = {t1, t2}
  None = None
  RediscoverSecs = 1
  HasDuration = FALSE
  RequestInfo = FALSE
  PidReuse = TRUE
  MaxGen = 2
  MaxSamples = 1
SPECIFICATION FairSpec
PROPERTIES NewProcessesPickedUp
