CONSTANTS
  None = None
  p1 = p1
  p2 = p2
  f = f
  g = g
  Pids = {p1, p2}
  Process <- MCProcess
  Selves <- MCSelves
  Empty = ""
  DockerDir = "docker"
  Substrings <- MCSubstrings
  AfterDash <- MCAfterDash
  First64 <- MCFirst64
  Options <- MCOptions
  Stacks <- MCStacks
  MaxSamples = 2
  MaxRows = 1
SPECIFICATION Spec
INVARIANTS TableExact TerminalRestored
PROPERTIES StopCloses GoneCloses
CHECK_DEADLOCK FALSE
