CONSTANTS
    Clients = {c1}
    Hosts = {h1}
    Players = {p1}
    Accounts = {a1}
    NoPlayer = NoPlayer
    NoAccount = NoAccount
    NoClient = NoClient
    Faults = {"init", "select", "update", "insert"}
    MaxRestarts = 2
SPECIFICATION FairSpec
PROPERTY RequestsAnswered
CHECK_DEADLOCK FALSE
