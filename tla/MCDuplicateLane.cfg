SPECIFICATION MCSpec
CONSTANTS
    Providers = {"pi"}
    Writable = {"pi"}
    DefaultProvider = "pi"
    LegacyCount = 0
    LegacySessions <- NoLegacy
    MaxTasks = 3
    MaxGeneration = 2
    Used <- Terminal
    Crashing = FALSE
INVARIANTS OneLanePerSession
