\* Two returners, a closer and a waiter; one minion is unexpected.
SPECIFICATION FairSpec
CONSTANTS
    Minions = {m1, m2, m3}
    Expected = {m1, m2}
    Returners = {r1, r2}
    Closers = {c1}
    Waiters = {w1}
    Nobody = Nobody
INVARIANTS
    WaitsAgree
PROPERTY
    WaitEnds
