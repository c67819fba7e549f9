CONSTANTS
  Callers = {c1, c2}
  Worker = Worker
  Loop = Loop
  MaxTasks = 3
  MaxStarts = 2
SPECIFICATION FairSpec
INVARIANTS
  LifecycleIsExclusive
  TasksInOrder
  NoLostWakeup
PROPERTIES
  ImplementsService
  StopDropsNothing
  LifecycleCallsReturn
  AcceptedTaskRuns
CHECK_DEADLOCK FALSE
