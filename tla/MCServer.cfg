CONSTANTS
  Callers = {c1}
  LogicCount = 1
  IoCount = 1
  ClientIds = {a}
  NoClient = NoClient
  ConnectionIds = {s}
SPECIFICATION ServerSpec
INVARIANTS
  SessionsHaveClients
PROPERTIES
  TransitionsEnd
  ApiCallsReturn
