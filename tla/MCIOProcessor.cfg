CONSTANTS
  Callers = {c1, c2}
  Worker = Worker
  Loop = Loop
  MaxTasks = 2
  MaxStarts = 2
SPECIFICATION PausingSpec
INVARIANTS
  SocketInUseIsOpen
  SocketsDoNotLeak
PROPERTIES
  LifecycleCallsReturn
CHECK_DEADLOCK FALSE
