CONSTANTS
  Formats = {"stacks"}
  Timed = FALSE
  Stacks <- MCStacks
  DropLeaf <- MCDropLeaf
  Metas <- MCMetas
  KeyOrder <- MCKeyOrder
  Signals = {"INT", "TERM"}
  MaxSamples = 1
  MaxFailures = 1
  MaxSignals = 2
SPECIFICATION Spec
PROPERTY ExitedEnds
CHECK_DEADLOCK FALSE
