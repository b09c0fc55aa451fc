SPECIFICATION TrackSpec
CONSTANTS
    t1 = t1
    t2 = t2
    t3 = t3
    u = u
    m = m
    c = c
    rates = rates
    database = database
    Trackers = {t1, t2, t3, u}
    Markers = {m}
    Clearers = {c}
    Asking = {t1, u}
    KeyOf <- MCKeyOf
    Nobody = Nobody
INVARIANTS RunsOnce ReturnedIsDone
PROPERTIES CallsEnd
CHECK_DEADLOCK FALSE
