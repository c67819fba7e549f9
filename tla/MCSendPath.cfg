CONSTANTS
  c1 = c1
  c2 = c2
  Callers = {c1, c2}
  LogicCount = 1
  IoCount = 2
  Senders <- MCSenders
  SequenceMax = 5
SPECIFICATION SendSpec
INVARIANTS
  ServerStateIsTrue
  WorkFindsItsProcessor
  NumbersAreUnique
  NoQueueRunsAway
