\* Two replicas, one device.
CONSTANTS
    r1 = r1
    r2 = r2
    d1 = d1
    Replicas <- MCReplicas
    Devices <- MCDevices
    Letters <- MCLetters
    NoLetter = NoLetter
    NoTunnel = NoTunnel
    MaxTunnels = 2
    MaxMail = 1
    MaxChanges = 1
    MaxFaults = 1
SPECIFICATION FairSpec
INVARIANTS TypeOK OpenIsServed 
PROPERTIES WantedIsConnected
\* A device that is deleted or left stays away: the system may stop.
CHECK_DEADLOCK FALSE
