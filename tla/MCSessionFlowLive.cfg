CONSTANTS
  s1 = s1
  s2 = s2
  p1 = p1
  p2 = p2
  c1 = c1
  SlotCount = 1
  IndexSpan = 4
  GenerationSpan = 4
  Sessions = {s1, s2}
  NoSession = NoSession
  Clients = {c1}
  NoClient = NoClient
  Owner <- OneClientOwner
  WindowSize = 2
  Peers = {p1, p2}
  PeerOf <- TwoPeersPeerOf
  PacketTypes <- TwoPeersPacketTypes
  LogicCount = 2
  PacketAffinity <- MCPacketAffinity
  Timeout = 1
  MaxTime = 2
  MaxQueue = 1
  MaxTimeoutTasks = 1
SPECIFICATION Spec
PROPERTIES
  SilentSessionGoes
  DisconnectedSessionGoes
CHECK_DEADLOCK FALSE
