CONSTANTS
  Interval = 2
  Deadline = 17
  MaxTime = 22
  MaxSamples = 10
SPECIFICATION Spec
INVARIANTS RateBound BurstBound OneLateSample
CHECK_DEADLOCK FALSE
