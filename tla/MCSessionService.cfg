SPECIFICATION MCSpec
CONSTANTS
    Providers = {"pi", "kimi", "claude"}
    Writable = {"pi", "kimi"}
    DefaultProvider = "pi"
    LegacyCount = 1
    LegacySessions <- MCLegacy
    MaxId = 2
    MaxGeneration = 2
    MaxInteractive = 2
INVARIANTS TypeOK StoreMirrorsView BlankIsWritable NoticeIsCurrent
PROPERTIES RestartKeepsView
