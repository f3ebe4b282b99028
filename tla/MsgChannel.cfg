CONSTANTS
    Producers = {p1, p2}
    Consumers = {c1}
    Messages = {a, b}
    MaxPuts = 3
SPECIFICATION FairSpec
INVARIANTS TypeOK Conservation NoPopFromEmpty NoLostWakeup NoUseAfterDestroy
PROPERTIES FifoSpec DrainFinishes EventuallyDelivered
CHECK_DEADLOCK FALSE
