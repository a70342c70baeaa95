CONSTANTS
  Thread = {t1, t2, t3}
  Item = {i1, i2}
  NULL = NULL
  MaxLength = 3
  MaxKills = 2
  MaxStarts = 3
  Character = {"a", "exit"}
  BufferSize = 3
  MaxTyped = 6
SPECIFICATION Spec
CHECK_DEADLOCK FALSE
INVARIANTS
  UsesOnlyMade
  RestartSucceeds
  RunsLinesInOrder
PROPERTIES
  ImplementsQueue
  ImplementsContainers
  
