CONSTANTS
    Conns = {c1, c2, c3}
    Players = {c1, c2, c3}
    PlayerOf <- PlayerOfConn
    Hosts = {h1, h2}
    Objects = {o1}
    NoPlayer = NoPlayer
    NoConn = NoConn
    NoHost = NoHost
    Faults = {"decode"}
    Talks <- MCTalks
SPECIFICATION Spec
SYMMETRY HostSymmetry
INVARIANTS TypeOK LockExclusive OneOwner MasterIsLive NoDanglingClient OnlyOutsidersJam SceneComplete NoLeftovers OneReplyPerMessage
CHECK_DEADLOCK FALSE
