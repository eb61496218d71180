\* Fetches of histories in which a tree may return.
SPECIFICATION ServingSpec
CONSTANTS
    i1 = i1
    i2 = i2
    p1 = p1
    p2 = p2
    p3 = p3
    x = x
    y = y
    main = main
    dev = dev
    Instances = {i1, i2}
    Pushes = {p1, p2, p3}
    Refs = {main, dev}
    Oids = {x, y}
    NoOid = NoOid
    Unchecked = Unchecked
    NoPush = NoPush
    TxnOf <- MCTxnOf
    MaxSeq = 5
    MaxAttempts = 3
    GraceProbes = 1
    MaxBurn = 3
    MaxFaults = 2
    Races = {}
    Parts = {"fetch"}
    GcModes = {"push"}
    CollabEntries <- MCEntries
    Foreign <- MCForeign
    Unparseable = {13}
    Keys = {1, 2, 3}
    Agents = {3}
    Protected = {"main"}
    Approvals = 1
    BoardColumns <- MCColumns
    Clones = {1, 2, 3}
    GcClones = {1, 2}
    ReaderClones = {3}
    MaxFolds = 2
    GcDeleteChunk = 2
    MaxThread = 3
    FtCount = 4
    FtTag = 3
    FtBase = {1, 2}
    FtAsks <- MCAsks
    FtClones <- MCClones
    ImPacks <- MCImPacks
    ImCommits = {1, 2, 3}
    ImBeside = {}
    ImSource = {"repack", "move"}
    MaxPushes = 1
    MaxCrashes = 1
    RwRefs = {1, 2}
    RwSources <- MCRwSources
    RwBatches <- MCRwBatches
    RwRaces = {}
    RwMaxSeq = 4
    RwMaxPacks = 3
CHECK_DEADLOCK FALSE
INVARIANTS ReturnsComplete
