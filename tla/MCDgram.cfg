SPECIFICATION Spec
CONSTANTS
    None = None
    Addrs = {"a", "b"}
    Peers = {"p1", "p2"}
    Fds = {"f1"}
    BatchSize = 2
    MaxIterations = 2
    Scenarios <- MCScenarios
CHECK_DEADLOCK FALSE
INVARIANTS OpenPeerIsClaimed DatagramsAccounted PauseSettles
 
