SPECIFICATION FairSpec
CONSTANTS
    r1 = r1
    r2 = r2
    s1 = s1
    p1 = p1
    t1 = t1
    restart = restart
    Replicas <- MCReplicas
    Sessions <- MCSessions
    Spawns = {}
    Tools <- MCTools
    Restart = restart
    Portal = r1
    NoSnapshot = NoSnapshot
    Cooldown = 1
    MaxWatchers = 2
    MaxChanges = 1
    MaxFaults = 1
INVARIANTS SnapshotsAreWatched
PROPERTIES ChangesArePushedOnce BoardCatchesUp
CHECK_DEADLOCK FALSE
