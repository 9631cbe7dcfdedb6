SPECIFICATION FairSpec
CONSTANTS
    s1 = s1
    s2 = s2
    d1 = d1
    Sockets <- TwoSockets
    Devices <- OneDevice
    TTL = 2
    MissedBeats = TRUE
    Crashes = TRUE
INVARIANTS TypeOK PresenceExact ContactsInformed AwayIsPushed
PROPERTY PresenceEnds
