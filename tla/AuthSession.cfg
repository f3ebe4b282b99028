CONSTANTS
    Clients = {c1, c2}
    Hosts = {}
    Players = {p1, p2}
    Accounts = {a1}
    NoPlayer = NoPlayer
    NoAccount = NoAccount
    NoClient = NoClient
    Faults = {"init", "select", "update"}
    MaxRestarts = 1
SPECIFICATION Spec
SYMMETRY SessionSymmetry
INVARIANTS TypeOK OneSessionPerPlayer ActiveIsOnline OneReplyPerRequest
CHECK_DEADLOCK FALSE
