SPECIFICATION MCFairSpec
CONSTANTS
    Sessions = {s1}
    Repos = {r}
    RepoOf <- SameRepo
    Calls = {c1}
    Runs = {1, 2, 3}
    None = None
    Asked = {"resume"}
INVARIANTS TurnTypeOK TurnsAreKnown ShutdownReachesTurns
PROPERTIES CancellationSticks RunningEnds
