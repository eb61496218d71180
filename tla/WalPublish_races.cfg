\* Every race but the repeated CAS, and a fault: what still holds.
SPECIFICATION Spec
CONSTANTS
    i1 = i1
    i2 = i2
    p1 = p1
    p2 = p2
    p3 = p3
    x = x
    y = y
    main = main
    dev = dev
    Instances = {i1, i2}
    Pushes = {p1, p3}
    Refs = {main, dev}
    Oids = {x, y}
    NoOid = NoOid
    Unchecked = Unchecked
    NoPush = NoPush
    TxnOf <- MCTxnOf
    MaxSeq = 5
    MaxAttempts = 3
    GraceProbes = 2
    MaxBurn = 3
    MaxFaults = 1
    Races = {"lost_response", "torn_read", "rebuild", "half_commit"}
CHECK_DEADLOCK FALSE
PROPERTIES PushAnswered CopiesConverge
