CONSTANTS
  Callers = {c1}
  Worker = Worker
  Loop = Loop
  MaxTasks = 3
  MaxStarts = 2
  MaxTime = 1
SPECIFICATION TickerSpec
INVARIANTS
  NoCallbackAfterStopImpl
  TimersEndWithTheirRun
PROPERTIES
  CallbacksAreTimely
  FiledTimerIsCalled
CHECK_DEADLOCK FALSE
