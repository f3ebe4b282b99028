CONSTANTS
    c1 = c1
    c2 = c2
    p1 = p1
    p2 = p2
    inbox = inbox
    all = all
    age = age
    x = x
    Clients = {c1, c2}
    Nodes = {p1, p2, inbox, all, age, x}
    Player <- MCPlayer
    Ages = {age}
    Inboxes = {inbox}
    PlayerInfos = {x}
    AllPlayers = all
    Links <- MCLinks
    OldRefs <- MCOldRefs
    NoNode = NoNode
    MaxChanges = 2
SPECIFICATION Spec
INVARIANTS TypeOK InStep BuffersCounted
CHECK_DEADLOCK FALSE
