CONSTANTS
    AgeName = "Age"
    GlobalChanges <- MCGlobalChanges
    ObjectBlobs <- MCObjectBlobs
    ClientUuids <- MCClientUuids
    Names = {"n1", "n2"}
    StaticAges <- MCStaticAges
    HoodPopThreshold = 1
    ScoreOwners = {1, 2}
    ScoreNames = {"s"}
    Amounts <- MCAmounts
    IntMax = 3
    FirstFiles <- MCFirstFiles
    LaterFiles <- MCLaterFiles
    MaxStarts = 2
    MaxRequests <- MCMaxRequests
    AgeStops = {0, 1, 5, 18, 20}
    MaxFailures = 1
SPECIFICATION Spec
INVARIANTS TypeOK DescriptorsMatchText GlobalAgrees ObjectRestorable PlayerRowsSound AgesSound ListsAgree
PROPERTY ScoresSafe
CHECK_DEADLOCK FALSE
