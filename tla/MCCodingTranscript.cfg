SPECIFICATION MCSpec
CONSTANTS
    Prompts = {1, 2}
    Pieces = {1, 2}
    Tools = {1}
    MaxTold = 8
INVARIANTS PageIsFaithful
