SPECIFICATION MCSpec
CONSTANTS
    Providers = {"pi"}
    Writable = {"pi"}
    DefaultProvider = "pi"
    LegacyCount = 0
    LegacySessions <- NoLegacy
    MaxTasks = 4
    MaxGeneration = 1
    Used <- Returning
    MaxDisturbed = 3
INVARIANTS NoRolloverMissed
PROPERTIES OnlyIdleSessionsRollOver
