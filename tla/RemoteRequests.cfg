SPECIFICATION FairSpec
CONSTANTS
  None = None
  Requests = {r1, r2}
  PoolSize = 1
  AgentPool = 2
  max_attempts = 2
  MaxInFlight = 2
INVARIANTS PoolIsKept TableIsWork TcpExecutesOnce TcpAnswersAreReturned
PROPERTIES ImplementsRemoteCalls PeersAreReleased NodesAreFreed
CHECK_DEADLOCK FALSE
