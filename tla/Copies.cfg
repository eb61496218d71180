\* Two syncing requests and a writer on one copy; two instances that open, delete and
\* create a repository; two readers over three revisions; small sizes;
\* two requests for the refs beside a publisher, syncs and a repair.
SPECIFICATION Spec
CONSTANTS
    A = A
    B = B
    w1 = w1
    Packs = {"p1", "p2", "p3", "c"}
    Holds <- MCHolds
    FirstPacks = {"p1"}
    Plan <- MCPlan
    Syncers = {A, B}
    PackWriters = {w1}
    MaxRev = 3
    PackFaults = {}
    RegHosts = {A, B}
    MaxGen = 2
    MaxSlot = 2
    CreateDuringDelete = FALSE
    Readers = {"c", "d"}
    RemotePacksAt <- MCAt
    Entries <- MCEntries
    BlockSize = 3
    MaxSize = 8
    MaxBudget = 5
    AdRefs = {"a"}
    Touches <- MCTouches
    Viewers = {A, B}
    MaxViews = 2
    MaxRepairs = 1
SYMMETRY Symmetry
CHECK_DEADLOCK FALSE
INVARIANTS PacksServed  RemoteReadsExact SizesExact AdvertsFresh
