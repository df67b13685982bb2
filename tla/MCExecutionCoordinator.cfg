SPECIFICATION MCSpec
CONSTANTS
    Providers = {"pi"}
    Writable = {"pi"}
    DefaultProvider = "pi"
    LegacyCount = 0
    LegacySessions <- NoLegacy
    MaxTasks = 3
    MaxGeneration = 2
    Used <- Prompts
    Crashing = FALSE
INVARIANTS LaneTypeOK ConversationsAreSerial ShutdownIsFinal
PROPERTIES HiddenRunsKeepView
