SPECIFICATION MCFairSpec
CONSTANTS
    Prompts = {1, 2}
    Chats = {11, 12}
    None = None
CHECK_DEADLOCK FALSE
INVARIANTS TitleTypeOK ShownTitleIsStored
PROPERTIES TitlesStickUnlessStopped TitlesArrive
