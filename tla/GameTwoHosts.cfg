CONSTANTS
    Conns = {c1, c2}
    Players = {c1, c2}
    PlayerOf <- PlayerOfConn
    Hosts = {h1, h2}
    Objects = {o1}
    NoPlayer = NoPlayer
    NoConn = NoConn
    NoHost = NoHost
    Faults = {}
    Talks <- LockTalks
SPECIFICATION Spec
INVARIANT OneGameMaster
CHECK_DEADLOCK FALSE
