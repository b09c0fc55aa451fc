SPECIFICATION FairSpec
CONSTANTS
    r = r
    w1 = w1
    w2 = w2
    s = s
    u = u
    c1 = c1
    d1 = d1
    radar = radar
    weather = weather
    file = file
    Readers = {r}
    Writers = {w1, w2}
    Storers = {s}
    Updaters = {u}
    Conns = {c1, d1}
    SystemOf <- MCSystemOf
    FileOf <- MCFileOf
    Attempts = 2
    Nobody = Nobody
    Other = Other
INVARIANTS OneWriterOut
PROPERTIES StoresRows CallsEnd
CHECK_DEADLOCK FALSE
