CONSTANTS
  Callers = {c1, c2}
  Worker = Worker
  Loop = Loop
  MaxTasks = 2
  MaxStarts = 2
SPECIFICATION IOSpec
PROPERTIES
  StoppingGetsStopped
CHECK_DEADLOCK FALSE
