SPECIFICATION FairSpec
CONSTANTS
    Interval = 3
    Defer = 2
    Slack = 1
    Sessions = {s1, s2, s3}
    ReadOnly = {s3}
    NoSession = NoSession
INVARIANTS TypeOK OneTimerArmed ShownTimeIsTheTimers
PROPERTIES HeartbeatsLeaveTheUserAlone HeartbeatsGoOn
