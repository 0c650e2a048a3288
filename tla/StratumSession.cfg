SPECIFICATION Spec
CONSTANTS
  Callers = {c1, c2}
  AuthLines = 2
  MaxConns = 2
  MaxReauths = 2
  MaxShares = 1
  MaxPushes = 2
INVARIANTS
  TypeOK
  CredentialsCurrent
  AuthorizedByPool
  AcceptedByPool
PROPERTIES
  HandshakeEnds
  RunEndsWithContext
