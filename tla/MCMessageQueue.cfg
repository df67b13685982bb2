SPECIFICATION Spec
CONSTANTS
    t1 = t1
    t2 = t2
    t3 = t3
    t4 = t4
    d1 = d1
    d2 = d2
    NoTask = NoTask
    Tasks = {t1, t2, t3, t4}
    Drainers = {d1, d2}
INVARIANTS TypeOK NothingStranded
PROPERTIES DrainedOnlyWhenIdle ImplementsExecutor DrainAnswered
