\* Three pushes in batches of up to two, a settings document, other packs and a crash; two
\* requests of clients through a broker; two refs that follow an upstream, and a mirror of them.
SPECIFICATION Spec
CONSTANTS
 Hosts = {"h1","h2"}
 Requests = {1,2,3}
 RefOf <- MCRefOf
 OldOf <- MCOldOf
 PackOf <- MCPackOf
 Settings = {"x"}
 MaxBatch = 2
 MaxLog = 3
 MaxOthers = 2
 HostOf <- MCHostOf
 MaxCrashes = 1
 Branches = {"main"}
 Tags = {"tag"}
 Parent <- MCParent
 Pushes <- MCPushes
 Policies <- MCPolicies
 Clients = {1,2}
 Broker = TRUE
 FwRefs = {1}
 FwReach <- MCFwReach
 FwMoves = 3
 FwPushes = 1
 FwFaults = 1
 FwByHand = 1
 FwBusy = FALSE
 FwChecks = TRUE
 MrForce = FALSE
 MrReturns = FALSE
 MrOthers = 1
 MrDrift = FALSE
INVARIANTS   PacksKept  PushesGuarded IngressSound
CHECK_DEADLOCK FALSE
