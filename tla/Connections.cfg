CONSTANTS
    Conns = {c1, c2}
    MaxFd = 4
    MaxTrans = 2
    Bounds <- MCBounds
SPECIFICATION Spec
INVARIANTS TypeOK DescriptorsOwned
PROPERTIES TransferSpec Served
CHECK_DEADLOCK FALSE
