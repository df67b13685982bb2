SPECIFICATION MCFairSpec
CONSTANTS
    Runs = {r1, r2}
    Steers = {k}
    Threads = {th}
    ThreadOf <- OneThread
    None = None
    MaxLines = 2
CHECK_DEADLOCK FALSE
INVARIANTS CodexTypeOK RunsFollowTheirTurns
PROPERTIES StoppedRunsEnd
