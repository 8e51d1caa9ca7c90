CONSTANTS
    Threads = {t1, t2}
    MaxCalls = 1
SPECIFICATION Spec
INVARIANT
    ReturnedSetAlive
