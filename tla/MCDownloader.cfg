SPECIFICATION FairSpec
CONSTANTS
  t1 = t1
  t2 = t2
  t3 = t3
  c1 = c1
  c2 = c2
  c3 = c3
  Task <- MCTask
  Contract <- MCContract
  ContractsOf <- MCContractsOf
  BatchSize = 2
  Concurrency = 2
  MaxStarts = 2
INVARIANTS
  TypeOK
  DoneHasHalf
  CompletedStaysDone
PROPERTIES
  CompleteFilesKept
  TasksSettle
CHECK_DEADLOCK FALSE
