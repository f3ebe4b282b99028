CONSTANTS
    VaultUpdates = {"v1"}
    HookUpdates = {}
    Faults = {}
    MaxLives = 1
SPECIFICATION Spec
INVARIANT SavesNotLost
CHECK_DEADLOCK FALSE
