SPECIFICATION MCFairSpec
CONSTANTS
    Providers = {"pi", "claude"}
    Writable = {"pi"}
    DefaultProvider = "pi"
    LegacyCount = 1
    LegacySessions <- MCLegacy
    MaxTasks = 3
    MaxGeneration = 1
    Used <- Background
    Crashing = TRUE
INVARIANTS FlagsAreExact
PROPERTIES ImplementsSessionService LanesDrain
