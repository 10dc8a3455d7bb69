CONSTANTS
  Pids = {p1}
  Threads = {t1, t2}
  None = None
  RediscoverSecs = 2
  HasDuration = TRUE
  RequestInfo = FALSE
  PidReuse = FALSE
  MaxGen = 2
  MaxSamples = 1
SPECIFICATION FairSpec
PROPERTIES StopEndsRun NewProcessesPickedUp GonePidsForgotten
