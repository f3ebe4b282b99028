CONSTANTS
    VaultUpdates = {"v1"}
    HookUpdates = {}
    Faults = {}
    MaxLives = 1
SPECIFICATION FairSpec
PROPERTY SavesAnswered
CHECK_DEADLOCK FALSE
