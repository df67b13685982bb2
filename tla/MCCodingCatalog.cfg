SPECIFICATION MCSpec
CONSTANTS
    Sessions = {s1, s2}
    Repos = {r}
    RepoOf <- SameRepo
    Calls = {c1, c2}
    Handled = {s1}
INVARIANTS CascadeCanBeUndone
PROPERTIES PutAwayStaysAway DriftHeals
