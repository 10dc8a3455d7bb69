CONSTANTS
  Formats = {"stacks", "folded"}
  Timed = TRUE
  Stacks <- MCStacks
  DropLeaf <- MCDropLeaf
  Metas <- MCMetas
  KeyOrder <- MCKeyOrder
  Signals = {"INT", "TERM"}
  MaxSamples = 2
  MaxFailures = 1
  MaxSignals = 2
SPECIFICATION Spec
INVARIANTS OneMoreCapture DamageIsLocal FoldedExact
PROPERTIES ToldToEnd GoneEnds
CHECK_DEADLOCK FALSE
