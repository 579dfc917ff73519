SPECIFICATION USpec
CONSTANTS
    a = a
    b = b
    u1 = u1
    u2 = u2
    t1 = t1
    t2 = t2
    NoReveal = NoReveal
    Device = {a, b}
    Update = {u1, u2}
    Tab = {t1, t2}
    Reveal <- MCReveal
    Lists <- MCLists
    Places = 2
    MaxReveals = 2
    MaxConnections = 2
    MaxNotices = 2
INVARIANTS
    UTypeOK
    MapShowsDevices
    CountMatchesMarkers
PROPERTIES
    EventsAreKept
    RevealIsShown
CHECK_DEADLOCK FALSE
