\* A sync moves the copy between the two reads of it.
SPECIFICATION Spec
SYMMETRY Symmetry
CONSTANTS
    i1 = i1
    i2 = i2
    p1 = p1
    p2 = p2
    p3 = p3
    x = x
    y = y
    main = main
    dev = dev
    Instances = {i1, i2}
    Pushes = {p1, p2, p3}
    Refs = {main, dev}
    Oids = {x, y}
    NoOid = NoOid
    Unchecked = Unchecked
    NoPush = NoPush
    TxnOf <- MCTxnOf
    MaxSeq = 5
    MaxAttempts = 3
    GraceProbes = 1
    MaxBurn = 3
    MaxFaults = 2
    Races = {"torn_read"}
CHECK_DEADLOCK FALSE
PROPERTIES AppendOnly
