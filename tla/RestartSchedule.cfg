\* Two claudes; three requests; a schedule that may wait for 1 or 4 units.
CONSTANTS
    Sessions = {s1, s2, s3}
    Claudes = {c1, c2}
    CheckEvery = 1
    Quiet = 2
    Timeouts = {1, 4}
    MaxTime = 4
    MaxRequests = 3
    Prompt = TRUE
    None = None
SPECIFICATION FairSpec
INVARIANTS
    TypeOK
    NoFirstSessionIsCutOff
    RestartsAreDue
PROPERTIES
    AllHostedAreSaved
    ScheduleEnds
CHECK_DEADLOCK FALSE
