SPECIFICATION CooperativeSpec
CONSTANTS
  main = main
  NULL = NULL
  Thread = {main, t1, t2, t3}
  Priority = {0, 1}
  MaxThreads = 4
  Creators = {main}
  ChildBound = 3
INVARIANTS NoAbort ReadyListInv ZombieInv ThreadTableInv FamilyInv
PROPERTIES PriorityDispatch FirstComeFirstServed UrgentReturns
