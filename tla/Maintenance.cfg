\* One checkpoint task beside two publishers, one reader beside them; two bundle
\* builders, one lease that lapses and one push whose time lies behind; folds and
\* rebuilds on two hosts, or one with a longer log, and audits.
SPECIFICATION MCSpec
CONSTANTS
    i1 = i1
    i2 = i2
    w1 = w1
    w2 = w2
    r1 = r1
    Instances = {i1, i2}
    Writers = {w1}
    Readers = {r1}
    HostOf <- MCHostOf
    MaxSeq = 3
    MaxAttempts = 2
    Races = {"mid_sync"}
    Strategies <- MCStrategies
    Maintainers = {h1, h2}
    Engines = {"gix"}
    MinCommits = 1
    MaxNow = 12
    MaxLines = 1
    MaxLate = 1
    MaxWal = 3
    StepNow = 8
    StepWal = 2
    MaxLapses = 1
    h1 = h1
    h2 = h2
    b1 = b1
    b2 = b2
    Hosts = {h1, h2}
    Objs = {b1}
    Damaged = {}
    MntMaxSeq = 3
    MntLapses = 1
    ListMax = 1
    Compaction = TRUE
    Audits = FALSE
    Repush = FALSE
SYMMETRY Symmetry
CHECK_DEADLOCK FALSE
INVARIANTS    NoObjectLost DamageIsWork
