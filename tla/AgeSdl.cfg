CONSTANTS
    VaultUpdates = {"v1", "v2"}
    HookUpdates = {"k1", "k2"}
    Faults = {"fetch", "parse", "update", "internal"}
    MaxLives = 2
SPECIFICATION FairSpec
INVARIANTS TypeOK HookAckedIsSaved
PROPERTY WorkerAnswered
CHECK_DEADLOCK FALSE
