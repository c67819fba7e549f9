CONSTANTS
  Threads = {t1, t2, t3}
  IdSpan = 3
  MaxCalls = 2
  NoThread = NoThread
SPECIFICATION Spec
INVARIANTS
  ClientHasOneOwner
  VisitsAreExclusive
  NoLostWakeup
PROPERTIES
  NoVisitAfterRemoval
  EveryCallReturns
  RemovedClientIsDestroyed
  ImplementsClientRegistry
CHECK_DEADLOCK FALSE
