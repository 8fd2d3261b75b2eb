\* Two moments, before and after which the code's six hours, seven days and
\* the end of the day lie; one claude from before and one more, one hook on
\* its way.  Headless claudes run an older hook.sh, which tells no entrypoint.
CONSTANTS
    Clients = {"cli", "sdk"}
    Telling = {"cli"}
    RecentAge = 1
    ArchiveAge = 0
    DayLength = 2
    MaxTime = 2
    MaxOpens = 1
    MaxHooks = 1
SPECIFICATION FairSpec
INVARIANTS
    TypeOK
    NewIsNews
    ArchivedByHandStays
    HeadlessIsFiled
PROPERTIES
    RowCatchesUp
    ResultsAreShown
CHECK_DEADLOCK FALSE
