------------------------------- MODULE Follow -------------------------------
(* Ingress from another git host: refs that follow an upstream, fetched by  *)
(* the instance that maintains a repository into a scratch clone and        *)
(* published like a push (follow.rs of server and git), and the mirror      *)
(* command, a clone that pushes what it fetched (mirror.rs).  A commit is a *)
(* number; its objects are itself and those of its parents.                 *)
EXTENDS Integers

CONSTANTS FwRefs,     \* the refs that follow
          FwReach,    \* the commits that a commit reaches, itself among them
          FwMoves,    \* moves of the upstream
          FwPushes,   \* moves of our refs
          FwFaults,   \* fetches and publishes that fail, waits that run out
          FwByHand,   \* follow operations that an operator starts
          FwBusy,     \* whether readers may hold up the pruning of the copy
          FwChecks,   \* wal.check_connectivity
          MrForce,    \* --force
          MrReturns,  \* whether the source goes back to a value it had
          MrOthers,   \* moves of the destination by others
          MrDrift     \* whether they also move a ref that is known to be level

FwCommits == DOMAIN FwReach

ASSUME FollowAssumption ==
    /\ 0 \notin FwCommits /\ FwReach \in [FwCommits -> SUBSET FwCommits]
    /\ \A c \in FwCommits : c \in FwReach[c] /\ \A d \in FwReach[c] : FwReach[d] \subseteq FwReach[c]

VARIABLES fwUp,      \* the upstream
          fwOurs,    \* our refs
          fwStored,  \* objects in packs of the manifest
          fwOrphans, \* objects in packs of this copy that are not in the manifest
          fwScratch, \* the scratch clone: its refs and packs
          fw,        \* the round and the operation
          fwCount,   \* budgets used
          fwSeen,    \* values the upstream has had
          fwLast,    \* the last update that was published
          mr         \* the mirror with its source and destination

followVars == <<fwUp, fwOurs, fwStored, fwOrphans, fwScratch, fw, fwCount, fwSeen, fwLast, mr>>

Reach(c) == IF c = 0 THEN {} ELSE FwReach[c]
ReachAll(tips) == UNION {Reach(tips[r]) : r \in FwRefs}
Nowhere == [r \in FwRefs |-> 0]

-----------------------------------------------------------------------------
(* Following.                                                               *)

Fetchers == {"round", "op"}
NoPack == {}
FwIdle == [pc |-> "idle", have |-> Nowhere, tips |-> Nowhere, pack |-> NoPack, still |-> FALSE,
           caughtUp |-> TRUE, prefetched |-> FALSE]
Visible == fwStored \cup fwOrphans
\* Something happened beside the round.
Disturbed == [fw EXCEPT !["round"].still = FALSE]
Budget(kind, max) == fwCount[kind] < max /\ fwCount' = [fwCount EXCEPT ![kind] = @ + 1]
\* A sync removes packs that are not in the manifest, unless a writer or readers hold it up.
Synced(prune) == fwOrphans' = IF prune /\ fw["op"].pc \notin {"publish"} THEN {} ELSE fwOrphans

RoundBegins ==
    /\ fw["round"].pc = "idle"
    /\ \E prune \in {TRUE} \cup (IF FwBusy THEN {FALSE} ELSE {}) : Synced(prune)
    /\ fw' = [fw EXCEPT !["round"] = [FwIdle EXCEPT !.pc = "clear", !.have = fwOurs,
                                                    !.still = fw["op"].pc = "idle"]]
    /\ UNCHANGED <<fwUp, fwOurs, fwStored, fwScratch, fwCount, fwSeen, fwLast, mr>>
\* Packs of earlier rounds go.
ScratchCleared(w) ==
    /\ fw[w].pc = "clear"
    /\ fwScratch' = [fwScratch EXCEPT !.packs = {}]
    /\ fw' = [fw EXCEPT ![w].pc = "seed"]
    /\ UNCHANGED <<fwUp, fwOurs, fwStored, fwOrphans, fwCount, fwSeen, fwLast, mr>>
\* Mutant: the refs of the scratch clone stay as they were fetched.
ScratchSeeded_Keeps(w) ==
    /\ fw[w].pc = "seed"
    /\ fw' = [fw EXCEPT ![w].pc = "fetch"]
    /\ UNCHANGED <<fwUp, fwOurs, fwStored, fwOrphans, fwScratch, fwCount, fwSeen, fwLast, mr>>
\* The refs that a fetch negotiates from are set to the values we have.
ScratchSeeded(w) ==
    /\ fw[w].pc = "seed"
    /\ fwScratch' = [fwScratch EXCEPT !.tips = fw[w].have]
    /\ fw' = [fw EXCEPT ![w].pc = "fetch"]
    /\ UNCHANGED <<fwUp, fwOurs, fwStored, fwOrphans, fwCount, fwSeen, fwLast, mr>>
\* git fetch: no pack when every object is found here already.
Fetched ==
    LET missing == ~(ReachAll(fwUp) \subseteq Visible \cup UNION fwScratch.packs)
        pack == ReachAll(fwUp) \ ReachAll(fwScratch.tips)
    IN  [tips |-> fwUp, packs |-> IF missing THEN fwScratch.packs \cup ({pack} \ {NoPack}) ELSE fwScratch.packs]
FetchRefs(w) ==
    /\ fw[w].pc = "fetch" /\ \A r \in FwRefs : fwUp[r] # 0
    /\ fwScratch' = Fetched
    /\ fw' = [fw EXCEPT ![w].pc = "read"]
    /\ UNCHANGED <<fwUp, fwOurs, fwStored, fwOrphans, fwCount, fwSeen, fwLast, mr>>
\* The fetch fails, also for the others when one of the refs is not on the upstream.
FetchFails(w) ==
    /\ fw[w].pc = "fetch"
    /\ (IF \E r \in FwRefs : fwUp[r] = 0 THEN UNCHANGED fwCount ELSE Budget("fault", FwFaults))
    /\ fw' = [Disturbed EXCEPT ![w].pc = "idle"]
    /\ UNCHANGED <<fwUp, fwOurs, fwStored, fwOrphans, fwScratch, fwSeen, fwLast, mr>>
\* Refs and one of the packs, as they are in the scratch clone now.
ReadScratch(w) ==
    /\ fw[w].pc = "read"
    /\ \E p \in fwScratch.packs \cup (IF fwScratch.packs = {} THEN {NoPack} ELSE {}) :
           fw' = [fw EXCEPT ![w].pc = IF w = "round" THEN "decide" ELSE "plan",
                            ![w].tips = fwScratch.tips, ![w].pack = p]
    /\ UNCHANGED <<fwUp, fwOurs, fwStored, fwOrphans, fwScratch, fwCount, fwSeen, fwLast, mr>>
Discarded(w) == fwScratch' = [fwScratch EXCEPT !.packs = @ \ {fw[w].pack}]
Moved(w) == {r \in FwRefs : fw[w].tips[r] \notin {0, fw[w].have[r]}}
\* Nothing moved: done.  Otherwise an operation takes over what was fetched, or the one that
\* is running is joined.
RoundDecides ==
    /\ fw["round"].pc = "decide"
    /\ IF Moved("round") = {}
       THEN /\ Discarded("round")
            /\ fw' = [fw EXCEPT !["round"].pc = "idle", !["round"].caughtUp = fwOurs = fwUp]
       ELSE /\ UNCHANGED fwScratch
            /\ fw' = [fw EXCEPT !["round"].pc = "wait",
                                !["op"] = IF @.pc = "idle" THEN [FwIdle EXCEPT !.pc = "start", !.prefetched = TRUE] ELSE @]
    /\ UNCHANGED <<fwUp, fwOurs, fwStored, fwOrphans, fwCount, fwSeen, fwLast, mr>>
RoundEnds ==
    /\ fw["round"].pc = "wait"
    /\ \/ fw["op"].pc = "idle" /\ UNCHANGED fwCount
          /\ fw' = [fw EXCEPT !["round"].pc = "idle", !["round"].caughtUp = fwOurs = fwUp]
       \/ fw["op"].pc # "idle" /\ Budget("fault", FwFaults)                \* an hour has passed
          /\ fw' = [Disturbed EXCEPT !["round"].pc = "idle"]
    /\ UNCHANGED <<fwUp, fwOurs, fwStored, fwOrphans, fwScratch, fwSeen, fwLast, mr>>
OpByHand ==
    /\ fw["op"].pc = "idle" /\ Budget("hand", FwByHand)
    /\ fw' = [Disturbed EXCEPT !["op"] = [FwIdle EXCEPT !.pc = "start"]]
    /\ UNCHANGED <<fwUp, fwOurs, fwStored, fwOrphans, fwScratch, fwSeen, fwLast, mr>>
OpBegins ==
    /\ fw["op"].pc = "start"
    /\ \E prune \in {TRUE} \cup (IF FwBusy THEN {FALSE} ELSE {}) : Synced(prune)
    /\ fw' = [fw EXCEPT !["op"].pc = IF fw["op"].prefetched THEN "read" ELSE "clear", !["op"].have = fwOurs]
    /\ UNCHANGED <<fwUp, fwOurs, fwStored, fwScratch, fwCount, fwSeen, fwLast, mr>>
OpEnds == fw' = [fw EXCEPT !["op"] = FwIdle]
Forward(r) == fw["op"].have[r] \in Reach(fw["op"].tips[r]) \cup {0}
Connected(pack) == ~FwChecks \/ \A r \in Moved("op") : Reach(fw["op"].tips[r]) \subseteq Visible \cup pack
\* The pack is ingested, what the tips reach is looked for, and updates that are not
\* fast-forwards are left out.  Without one the pack stays where it was ingested.
OpVerifies ==
    /\ fw["op"].pc = "plan"
    /\ LET pack == fw["op"].pack
           opens == pack = NoPack \/ pack \in fwScratch.packs
           publishes == opens /\ Connected(pack) /\ \E r \in Moved("op") : Forward(r)
       IN  IF Moved("op") = {} THEN Discarded("op") /\ OpEnds /\ UNCHANGED fwOrphans
           ELSE /\ fwOrphans' = IF opens THEN fwOrphans \cup (pack \ fwStored) ELSE fwOrphans
                /\ IF publishes THEN fw' = [fw EXCEPT !["op"].pc = "publish"] /\ UNCHANGED fwScratch
                   ELSE OpEnds /\ (IF opens /\ Connected(pack) THEN Discarded("op") ELSE UNCHANGED fwScratch)
    /\ UNCHANGED <<fwUp, fwOurs, fwStored, fwCount, fwSeen, fwLast, mr>>
\* One publish: a ref that was moved since is refused, the pack comes with the others.
OpPublishes ==
    /\ fw["op"].pc = "publish"
    /\ LET op == fw["op"]
           lands == {r \in Moved("op") : Forward(r) /\ fwOurs[r] = op.have[r]}
       IN  /\ fwOurs' = [r \in FwRefs |-> IF r \in lands THEN op.tips[r] ELSE fwOurs[r]]
           /\ fwStored' = IF lands = {} THEN fwStored ELSE fwStored \cup op.pack
           /\ fwOrphans' = IF lands = {} THEN fwOrphans ELSE fwOrphans \ op.pack
           /\ fwLast' = {[ref |-> r, old |-> fwOurs[r], new |-> op.tips[r]] : r \in lands}
    /\ Discarded("op") /\ OpEnds
    /\ UNCHANGED <<fwUp, fwCount, fwSeen, mr>>
OpFails ==
    /\ fw["op"].pc = "publish" /\ Budget("fault", FwFaults)
    /\ fw' = [Disturbed EXCEPT !["op"] = FwIdle]
    /\ UNCHANGED <<fwUp, fwOurs, fwStored, fwOrphans, fwScratch, fwSeen, fwLast, mr>>

UpstreamMoves ==
    /\ Budget("move", FwMoves)
    /\ \E r \in FwRefs, c \in FwCommits \cup {0} :
           /\ c # fwUp[r] /\ fwUp' = [fwUp EXCEPT ![r] = c]
           /\ fwSeen' = fwSeen \cup {<<r, c>>}
    /\ fw' = Disturbed
    /\ UNCHANGED <<fwOurs, fwStored, fwOrphans, fwScratch, fwLast, mr>>
\* A push of ours brings all it needs.
OursMoves ==
    /\ Budget("push", FwPushes)
    /\ \E r \in FwRefs, c \in FwCommits \cup {0} :
           /\ c # fwOurs[r] /\ fwOurs' = [fwOurs EXCEPT ![r] = c]
           /\ fwStored' = fwStored \cup Reach(c) /\ fwOrphans' = fwOrphans \ Reach(c)
    /\ fw' = Disturbed
    /\ UNCHANGED <<fwUp, fwScratch, fwSeen, fwLast, mr>>

FollowNext ==
    \/ RoundBegins \/ RoundDecides \/ RoundEnds \/ OpByHand \/ OpBegins \/ OpVerifies \/ OpPublishes \/ OpFails
    \/ \E w \in Fetchers : ScratchCleared(w) \/ ScratchSeeded(w) \/ FetchRefs(w) \/ FetchFails(w) \/ ReadScratch(w)
    \/ UpstreamMoves \/ OursMoves

\* What follow publishes is in the log's packs with all it reaches, moves a ref only forward,
\* and a round with nobody beside it, at the start of which the upstream was ahead of us,
\* leaves us level with it: whatever failed before and whatever it left in the scratch clone.
FollowSound ==
    /\ ReachAll(fwOurs) \subseteq fwStored
    /\ \A u \in fwLast : u.old \in Reach(u.new) \cup {0}
    /\ LET round == fw["round"]
       IN  round.pc = "idle" /\ round.still /\ (\A r \in FwRefs : fwUp[r] # 0 /\ round.have[r] \in Reach(fwUp[r]) \cup {0})
           => round.caughtUp

\* What follow publishes is what the upstream had at some time.
UpstreamOnly == \A u \in fwLast : <<u.ref, u.new>> \in fwSeen

-----------------------------------------------------------------------------
(* The mirror.                                                              *)

MrStart == [pc |-> "idle", src |-> Nowhere, dst |-> Nowhere, local |-> Nowhere, pushed |-> Nowhere,
            todo |-> Nowhere, had |-> {}, still |-> FALSE, moves |-> 0, faults |-> 0, others |-> 0, level |-> TRUE]
MrRest == <<fwUp, fwOurs, fwStored, fwOrphans, fwScratch, fw, fwCount, fwSeen, fwLast>>
MrFault == mr.faults < FwFaults
\* A tick fetches; a ref that is missing makes all of it fail.
MirrorFetches ==
    /\ mr.pc = "idle" /\ \A r \in FwRefs : mr.src[r] # 0
    /\ mr' = [mr EXCEPT !.pc = "list", !.local = mr.src, !.still = TRUE]
\* The refs whose tip is not known to be on the destination are looked up there.
MirrorLists ==
    /\ mr.pc = "list"
    /\ LET new == {r \in FwRefs : mr.pushed[r] # mr.local[r]}
           level == {r \in new : mr.dst[r] = mr.local[r]}
       IN  mr' = [mr EXCEPT !.pc = IF new = level THEN "ended" ELSE "push",
                            !.pushed = [r \in FwRefs |-> IF r \in level THEN mr.local[r] ELSE @[r]],
                            !.todo = [r \in FwRefs |-> IF r \in new \ level THEN mr.local[r] ELSE 0]]
\* What the destination takes: a new ref, a fast-forward, or anything by force.
MirrorTaken == {r \in FwRefs : mr.todo[r] # 0 /\ (MrForce \/ mr.dst[r] \in Reach(mr.todo[r]) \cup {0})}
MirrorOnto(d) == [r \in FwRefs |-> IF r \in MirrorTaken THEN mr.todo[r] ELSE d[r]]
\* Mutant: a push is confirmed before it is answered.
MirrorPushes_Early ==
    /\ mr.pc = "push"
    /\ \/ mr' = [mr EXCEPT !.pc = "ended", !.dst = MirrorOnto(@), !.pushed = MirrorOnto(@)]
       \/ MrFault /\ mr' = [mr EXCEPT !.pc = "idle", !.faults = @ + 1, !.still = FALSE, !.pushed = MirrorOnto(@)]
MirrorPushes ==
    /\ mr.pc = "push"
    /\ \/ mr' = [mr EXCEPT !.pc = "ended", !.dst = MirrorOnto(@), !.pushed = MirrorOnto(@)]
       \/ /\ MrFault                                         \* not sent, or not answered
          /\ \E d \in {mr.dst, MirrorOnto(mr.dst)} :
                 mr' = [mr EXCEPT !.pc = "idle", !.dst = d, !.faults = @ + 1, !.still = FALSE]
MirrorEnds == mr.pc = "ended" /\ mr' = [mr EXCEPT !.pc = "idle", !.level = mr.dst = mr.src]
MirrorRestarts == MrFault /\ mr' = [mr EXCEPT !.pc = "idle", !.pushed = Nowhere, !.faults = @ + 1, !.still = FALSE]
SourceMoves ==
    /\ mr.moves < FwMoves
    /\ \E r \in FwRefs, c \in FwCommits \cup {0} :
           /\ c # mr.src[r] /\ (MrReturns \/ <<r, c>> \notin mr.had)
           /\ mr' = [mr EXCEPT !.src[r] = c, !.moves = @ + 1, !.still = FALSE,
                               !.had = IF c = 0 THEN @ ELSE @ \cup {<<r, c>>}]
OthersPush ==
    /\ mr.others < MrOthers
    /\ \E r \in FwRefs, c \in FwCommits \cup {0} :
           /\ c # mr.dst[r] /\ (MrDrift \/ mr.pushed[r] # mr.src[r])
           /\ mr' = [mr EXCEPT !.dst[r] = c, !.others = @ + 1, !.still = FALSE]
MirrorNext ==
    /\ \/ MirrorFetches \/ MirrorLists \/ MirrorPushes \/ MirrorEnds \/ MirrorRestarts \/ SourceMoves
       \/ OthersPush
    /\ UNCHANGED MrRest

\* A tick that goes through while nothing else moves leaves the destination level with the
\* source, if it may: after lost answers, restarts and earlier refusals.
MirrorSound == mr.pc = "idle" /\ mr.still /\ (MrForce \/ \A r \in FwRefs : mr.todo[r] = 0 \/ mr.dst[r] = mr.todo[r]) => mr.level

IngressSound == FollowSound /\ MirrorSound

FollowInit ==
    /\ fwUp = Nowhere /\ fwOurs = Nowhere /\ fwStored = {} /\ fwOrphans = {}
    /\ fwScratch = [tips |-> Nowhere, packs |-> {}] /\ fw = [w \in Fetchers |-> FwIdle]
    /\ fwCount = [k \in {"move", "push", "fault", "hand"} |-> 0]
    /\ fwSeen = {} /\ fwLast = {} /\ mr = MrStart

\* Following and mirroring side by side.
FollowSpec == FollowInit /\ [][FollowNext \/ MirrorNext]_followVars
=============================================================================
