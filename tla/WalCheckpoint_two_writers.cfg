\* Two checkpoint tasks overlap.
SPECIFICATION MCWriters
CONSTANTS
    i1 = i1
    i2 = i2
    w1 = w1
    w2 = w2
    r1 = r1
    Instances = {i1, i2}
    Writers = {w1, w2}
    Readers = {}
    HostOf <- MCHostOf
    MaxSeq = 3
    MaxAttempts = 2
    Races = {}
    Strategies <- MCStrategies
    Maintainers = {h1, h2}
    Engines = {"gix"}
    MinCommits = 1
    MaxNow = 12
    MaxLines = 1
    MaxLate = 1
    MaxWal = 3
    StepNow = 8
    StepWal = 2
    MaxLapses = 1
    h1 = h1
    h2 = h2
    b1 = b1
    b2 = b2
    Hosts = {h1, h2}
    Objs = {b1}
    Damaged = {}
    MntMaxSeq = 3
    MntLapses = 1
    ListMax = 1
    Compaction = TRUE
    Audits = FALSE
    Repush = FALSE
CHECK_DEADLOCK FALSE
INVARIANTS FoldComplete
