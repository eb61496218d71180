--------------------------- MODULE MCCoordination ---------------------------
(* Processes that coordinate through objects and records: the two kinds of  *)
(* lease, the events bridge, CI runners with the agent around them and the  *)
(* command they run, tasks with their streams, and the object store below.  *)
(* The parts share nothing; each behaviour is one of one of them while the  *)
(* others rest.                                                             *)
EXTENDS Lease, EventsBridge, CiRuns, Tasks, Store, CiAgent, CiCommand, TLC

CONSTANTS h1, h2, Skew, b1, b2

VARIABLE part    \* the module whose behaviour this is

\* The clock of h2 is ahead of the other.
MCAhead == [h \in Holders |-> IF h = h2 THEN Skew ELSE 0]

\* The leases of bundle strategies: created first, no tolerance, clocks that agree.
Bundle == INSTANCE Lease WITH Ahead <- [h \in Holders |-> 0], Tolerance <- 0,
                              CreateFirst <- TRUE, Heartbeats <- FALSE

\* Keys of two repositories, and sizes of objects to be put together.
ListKeys == {<<1, 1>>, <<1, 2>>, <<1, 3>>, <<1, 4>>, <<2, 1>>, <<2, 2>>}
FirstListKeys == {<<1, 1>>, <<1, 3>>, <<1, 4>>, <<2, 1>>}
ComposeSizes == [1..3 -> 0..3]

\* One ref; the ci.toml of four commits: schedules that differ, then numbers past a limit,
\* and a task that breaks a rule.
MCRefs == {<<"m", "n">>}
MCTask(n, refs, timeout, attempts, schedule) ==
    [name |-> n, refs |-> refs, timeout |-> timeout, attempts |-> attempts, schedule |-> schedule,
     sound |-> TRUE]
MCPipeline(timeout, attempts, list) ==
    [present |-> TRUE, version |-> 1, timeout |-> timeout, claim_ttl |-> 0, attempts |-> attempts,
     tasks |-> list]
MCPipelines ==
    <<MCPipeline(0, 0, <<MCTask(1, {<<"*">>}, 1, 0, 2), MCTask(2, {<<"m", "?">>}, 0, 2, 0)>>),
      MCPipeline(3, 2, <<MCTask(1, {<<"*">>}, 0, 1, 3), MCTask(2, {<<"d">>, <<"?", "*">>}, 0, 0, 0)>>),
      MCPipeline(4, 3, <<MCTask(1, {<<"*">>}, 0, 0, 0)>>),
      MCPipeline(0, 0, <<MCTask(1, {<<"*">>}, 0, 0, 2), [MCTask(2, {<<"*">>}, 0, 0, 0) EXCEPT !.sound = FALSE]>>)>>
\* Deliveries of a webhook by what is in them, with a good signature or not.
MCBodies == <<"branch", "branch", "branch", "collab", "huge", "odd">>
MCDeliveries == {[id |-> i, body |-> MCBodies[i], signed |-> s] : i \in 1..6, s \in BOOLEAN}

MCInit ==
    /\ part \in {"compaction lease", "bundle lease", "events", "ci", "tasks", "store updates",
                 "store reads", "store uploads", "store lists", "store parts",
                 "ci passes", "ci wake-up", "ci command", "ci objects", "globs"}
    /\ Init /\ EventsInit /\ CiInit /\ TasksInit /\ StoreInit(FirstListKeys, StFaults) /\ CommandInit
    /\ AgentInit(IF part = "ci passes" THEN {FreshFile, OldFile} ELSE {FreshFile})
    /\ IF part = "store updates" THEN stBackend \in StBackends ELSE stBackend = "memory"

MCStoreNext ==
    \/ part = "store updates" /\ CasNext
    \/ part = "store reads" /\ ReadNext(3)
    \/ part = "store uploads" /\ UploadNext
    \/ part = "store lists" /\ ListNext(ListKeys)
    \/ part = "store parts" /\ PlanNext(ComposeSizes)

MCAgentNext ==
    \/ part = "ci passes" /\ PassNext
    \/ part = "ci wake-up" /\ WakeNext
    \/ part = "globs" /\ GlobsNext(Words({"a", "b", "*", "?"}, 4), Words({"a", "b"}, 4))
                      /\ UNCHANGED <<agTips, agTop, agClock, agFile, agSettled, ag, agFaults, wk>>
MCCommandNext ==
    \/ part = "ci command" /\ CommandNext
    \/ part = "ci objects" /\ ObjectsNext

MCNext ==
    /\ UNCHANGED part
    /\ \/ /\ UNCHANGED <<storeVars, agentVars, commandVars>>
          /\ \/ part = "compaction lease" /\ Next /\ UNCHANGED <<eventVars, ciVars, taskVars>>
             \/ part = "bundle lease" /\ Bundle!Next /\ UNCHANGED <<eventVars, ciVars, taskVars>>
             \/ part = "events" /\ EventsNext /\ UNCHANGED <<vars, ciVars, taskVars>>
             \/ part = "ci" /\ CiNext /\ UNCHANGED <<vars, eventVars, taskVars>>
             \/ part = "tasks" /\ TasksNext /\ UNCHANGED <<vars, eventVars, ciVars>>
       \/ /\ UNCHANGED <<vars, eventVars, ciVars, taskVars>>
          /\ \/ MCStoreNext /\ UNCHANGED <<agentVars, commandVars>>
             \/ MCAgentNext /\ UNCHANGED <<storeVars, commandVars>>
             \/ MCCommandNext /\ UNCHANGED <<storeVars, agentVars>>

MCSpec == MCInit /\ [][MCNext]_<<part, vars, eventVars, ciVars, taskVars, storeVars, agentVars,
                             commandVars>>
=============================================================================
