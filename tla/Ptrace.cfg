CONSTANTS
  Tasks = {main, t1, t2}
  Leader = main
  PhpTasks = {t1}
  None = None
  Deadline = 4
  OtherSignals = TRUE
  MayBlock = TRUE
SPECIFICATION FairSpec
INVARIANTS NothingLeftBehind
PROPERTIES AttachEnds
CHECK_DEADLOCK FALSE
