SPECIFICATION Spec
CONSTANTS
    Topics = {topic}
    Addresses = {rt}
    Callbacks = {a, b}
    Controllers = {c1, c2}
    Threads = {t1, t2}
    NoThread = none
    MaxEvents = 2
    MaxSubscribed = 2
INVARIANTS OneProcessor StartedIsServed NobodySkipped
PROPERTIES Drained
CHECK_DEADLOCK FALSE
