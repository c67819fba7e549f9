CONSTANTS
  s1 = s1
  s2 = s2
  c1 = c1
  c2 = c2
  SlotCount = 2
  IndexSpan = 4
  GenerationSpan = 4
  Sessions = {s1, s2}
  NoSession = NoSession
  Clients = {c1, c2}
  NoClient = NoClient
  Owner <- MCOwner
  MaxReleases = 4
SPECIFICATION Spec
INVARIANTS
  TypeOK
  FreeListExact
  StaleHandleRejected
PROPERTIES
  ImplementsRegistry
