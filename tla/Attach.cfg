CONSTANTS
  Bad = Bad
  None = None
  Half = 8
  Page = 4
  Php = "php"
  Tasks = {"main", "request", "timer"}
  Leader = "main"
  PhpTasks = {"request"}
  EgOf <- MCEgOf
  Layouts <- MCLayouts
  Worlds <- MCWorlds
SPECIFICATION Spec
INVARIANTS AttachedRight RefusedForAReason
CHECK_DEADLOCK FALSE
