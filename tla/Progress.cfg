\* Two bridges with a fault and folds at any time; two waiting requests; one
\* checkpoint task beside two publishers.
SPECIFICATION Spec
CONSTANTS
    b1 = b1
    b2 = b2
    i1 = i1
    i2 = i2
    w1 = w1
    Bridges = {b1, b2}
    MaxSeq = 2
    MaxFaults = 1
    Waiters = {"w", "x"}
    MaxSpawns = 3
CHECK_DEADLOCK FALSE
PROPERTIES EventuallyDelivered  WaiterGetsOn
