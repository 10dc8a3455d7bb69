CONSTANTS
  Names <- MCNames
  Files <- MCFiles
  Lines <- MCLines
  Stacks <- MCStacks
  PushIntervalSecs = 2
  Timeout = 2
  MaxTime = 5
  Skews <- MCSkews
  MaxSamples = 3
SPECIFICATION FairSpec
INVARIANTS TypeOK AllAccountedFor FinishFlushes WindowsTile FailuresSpaced
PROPERTIES CallsReturn
CHECK_DEADLOCK FALSE
