SPECIFICATION Spec
CONSTANTS
  main = main
  NULL = NULL
  Thread = {main, t1, t2}
  Priority = {0}
  MaxThreads = 4
  Creators = {main, t1, t2}
  ChildBound = 2
INVARIANTS NoAbort
