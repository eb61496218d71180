----------------------------- MODULE PackCopy ------------------------------
(***************************************************************************)
(* The packs of one instance's copy of a repository: downloading what the  *)
(* manifest lists, pruning what it no longer lists, staging what is about  *)
(* to be published, and the readers in between.                            *)
(*                                                                         *)
(* Refs are left to WalPublish: the refs phase of a sync is one read of    *)
(* the manifest, in two steps because the state file learns the revision   *)
(* before handle.manifest is replaced.  A pack is two files, the pack and  *)
(* its index; Holds says which objects it contains, and a compaction's     *)
(* pack contains those of every pack it supersedes.                        *)
(***************************************************************************)
EXTENDS Integers, FiniteSets

CONSTANTS
    Packs,      \* the checksums of this run
    Holds,      \* the objects in each pack
    FirstPacks, \* the live set at the start
    Plan,       \* serve_plan: "Local", "Link" or "Remote" for each pack
    Syncers,    \* requests that sync and then read under a guard
    PackWriters,\* pushes and compactions on this instance
    MaxRev,     \* bound: revisions of the manifest
    PackFaults  \* "half_install": a crash between the renames of install_pack;
                \* "late_local": a sync between a CAS and its local commit

ASSUME PackAssumption ==
    /\ FirstPacks \subseteq Packs /\ MaxRev \in Nat
    /\ Plan \in [Packs -> {"Local", "Link", "Remote"}]
    /\ PackFaults \subseteq {"half_install", "late_local"}
    /\ "none" \notin Syncers \cup PackWriters /\ Syncers \cap PackWriters = {}

VARIABLES
    live,     \* bucket: the manifest's packs and revision
    known,    \* handle.manifest
    pst,      \* RepoState: revision, packs_revision, packs_dirty, pending, remote
    files,    \* objects/pack: the .pack and the .idx files
    proven,   \* packs_verified
    stage,    \* staged_packs
    held,     \* sync_mutex, pack_mutex, prune_lock
    sreq,     \* the syncing requests
    wreq      \* the writers

packVars == <<live, known, pst, files, proven, stage, held, sreq, wreq>>

Manifest(ps, r) == [packs |-> ps, rev |-> r]
IdleReq == [pc |-> "idle", man |-> Manifest({}, 0), todo |-> {}, drop |-> {}, keep |-> {}, saw |-> {}]
IdleWrite == [pc |-> "idle", pack |-> "none", sup |-> {}, man |-> Manifest({}, 0), guard |-> 0]

\* The packs git can use: both files there, or read from the bucket.
Usable == {p \in files.pack : p \in files.idx} \cup pst.remote
ObjectsOf(ps) == UNION {Holds[p] : p \in ps}

\* A copy that was materialised before: everything local, nothing pending.
PackInit ==
    /\ live = Manifest(FirstPacks, 1)
    /\ known = Manifest(FirstPacks, 1)
    /\ pst = [rev |-> 1, packsRev |-> 1, dirty |-> FALSE, pending |-> {}, remote |-> {}]
    /\ files = [pack |-> FirstPacks, idx |-> FirstPacks]
    /\ proven = FALSE
    /\ stage = [p \in Packs |-> 0]
    /\ held = [sync |-> "none", pack |-> "none", prune |-> "none"]
    /\ sreq = [s \in Syncers |-> IdleReq]
    /\ wreq = [w \in PackWriters |-> IdleWrite]

\* Mutant: the revision the packs were reconciled with is not compared.
packs_ready_AnyRevision == ~pst.dirty /\ pst.pending = {}

packs_ready == ~pst.dirty /\ pst.packsRev = pst.rev /\ pst.pending = {}
level_satisfied == proven /\ packs_ready

(***************************************************************************)
(* Elsewhere: another instance pushes a pack, or compacts.                 *)
(***************************************************************************)

PushElsewhere(p) ==
    /\ live.rev < MaxRev /\ p \notin live.packs
    /\ \A w \in PackWriters : wreq[w].pack # p
    /\ live' = Manifest(live.packs \cup {p}, live.rev + 1)
    /\ UNCHANGED <<known, pst, files, proven, stage, held, sreq, wreq>>

CompactElsewhere(p, S) ==
    /\ live.rev < MaxRev /\ p \notin live.packs
    /\ S # {} /\ S \subseteq live.packs /\ Holds[p] = ObjectsOf(S)
    /\ \A w \in PackWriters : wreq[w].pack # p
    /\ live' = Manifest((live.packs \ S) \cup {p}, live.rev + 1)
    /\ UNCHANGED <<known, pst, files, proven, stage, held, sreq, wreq>>

(***************************************************************************)
(* A sync: the refs phase under sync_mutex.                                *)
(***************************************************************************)

\* Nobody's local commit is outstanding, or it may come behind a sync.
MayOvertake == "late_local" \in PackFaults \/ \A w \in PackWriters : wreq[w].pc # "landed"

\* The manifest changed: its log is applied (a compaction replayed from the log
\* leaves what it superseded pending; a checkpoint skips it) and saved.
SyncRefsApply(s) ==
    /\ sreq[s].pc = "idle" /\ held.sync = "none" /\ live.rev > known.rev /\ MayOvertake
    /\ \E sup \in {{}, known.packs \ live.packs} :
          pst' = [pst EXCEPT !.rev = live.rev, !.pending = @ \cup sup]
    /\ held' = [held EXCEPT !.sync = s]
    /\ sreq' = [sreq EXCEPT ![s] = [IdleReq EXCEPT !.pc = "refs", !.man = live]]
    /\ UNCHANGED <<live, known, files, proven, stage, wreq>>

SyncRefsInstall(s) ==
    /\ sreq[s].pc = "refs"
    /\ known' = sreq[s].man
    /\ held' = [held EXCEPT !.sync = "none"]
    /\ sreq' = [sreq EXCEPT ![s].pc = "packs"]
    /\ UNCHANGED <<live, pst, files, proven, stage, wreq>>

\* Nothing new, or freshness_ttl still runs.
SyncRefsFresh(s) ==
    /\ sreq[s].pc = "idle" /\ held.sync = "none" /\ known.rev > 0
    /\ sreq' = [sreq EXCEPT ![s] = [IdleReq EXCEPT !.pc = "packs"]]
    /\ UNCHANGED <<live, known, pst, files, proven, stage, held, wreq>>

(***************************************************************************)
(* The packs phase under pack_mutex.                                       *)
(***************************************************************************)

\* level_satisfied before the mutex, or after waiting for it.
SyncPacksReady(s) ==
    /\ sreq[s].pc = "packs" /\ level_satisfied
    /\ sreq' = [sreq EXCEPT ![s].pc = "guard", ![s].man = known]
    /\ UNCHANGED <<live, known, pst, files, proven, stage, held, wreq>>

\* reconcile_packs starts from handle.manifest of this moment, and forgets what
\* was proven; the packs of the plan's remote reader count as served.
SyncPacksBegin(s) ==
    /\ sreq[s].pc = "packs" /\ ~level_satisfied /\ held.pack = "none"
    /\ held' = [held EXCEPT !.pack = s]
    /\ proven' = FALSE
    /\ pst' = [pst EXCEPT !.remote = {p \in known.packs : Plan[p] = "Remote"}]
    /\ sreq' = [sreq EXCEPT ![s].pc = "install", ![s].man = known,
                            ![s].todo = {p \in known.packs \ files.pack : Plan[p] # "Remote"}]
    /\ UNCHANGED <<live, known, files, stage, wreq>>

\* install_pack renames the pack first, unless another task has put it there.
RenamePack(s, p) ==
    /\ sreq[s].pc = "install" /\ p \in sreq[s].todo
    /\ files' = [files EXCEPT !.pack = @ \cup {p}]
    /\ sreq' = [sreq EXCEPT ![s].todo = @ \ {p},
                            ![s].pc = IF p \in files.pack THEN @ ELSE "index",
                            ![s].keep = IF p \in files.pack THEN @ ELSE {p}]
    /\ UNCHANGED <<live, known, pst, proven, stage, held, wreq>>

SyncInstallPack(s, p) == Plan[p] = "Local" /\ RenamePack(s, p)

\* A base pack: the side files are downloaded, the pack is a link into the mount.
SyncLinkPack(s, p) == Plan[p] = "Link" /\ RenamePack(s, p)

\* ... then the index.
SyncInstallIdx(s) ==
    /\ sreq[s].pc = "index"
    /\ files' = [files EXCEPT !.idx = @ \cup sreq[s].keep]
    /\ sreq' = [sreq EXCEPT ![s].pc = "install", ![s].keep = {}]
    /\ UNCHANGED <<live, known, pst, proven, stage, held, wreq>>

\* Mutant: the sync goes on as if the download had succeeded.
SyncPacksFail_Ignored(s) ==
    /\ sreq[s].pc = "install" /\ sreq[s].todo # {}
    /\ held' = [held EXCEPT !.pack = "none"]
    /\ sreq' = [sreq EXCEPT ![s].pc = "guard"]
    /\ UNCHANGED <<live, known, pst, files, proven, stage, wreq>>

\* A download failed: the error ends the sync; what was installed stays.
SyncPacksFail(s) ==
    /\ sreq[s].pc = "install" /\ sreq[s].todo # {}
    /\ held' = [held EXCEPT !.pack = "none"]
    /\ sreq' = [sreq EXCEPT ![s] = IdleReq]
    /\ UNCHANGED <<live, known, pst, files, proven, stage, wreq>>

\* A writer holds prune_lock: leave the pruning to a later pass.
SyncPruneBusy(s) ==
    /\ sreq[s].pc = "install" /\ sreq[s].todo = {} /\ held.prune # "none"
    /\ pst' = [pst EXCEPT !.dirty = TRUE]
    /\ held' = [held EXCEPT !.pack = "none"]
    /\ sreq' = [sreq EXCEPT ![s].pc = "guard"]
    /\ UNCHANGED <<live, known, files, proven, stage, wreq>>

\* What is pending or on disk and not in the manifest this sync started from;
\* staged packs are set aside.
SyncPruneScan(s) ==
    /\ sreq[s].pc = "install" /\ sreq[s].todo = {} /\ held.prune = "none"
    /\ LET gone == (pst.pending \cup files.pack) \ sreq[s].man.packs
           busy == {p \in gone : stage[p] > 0}
       IN  sreq' = [sreq EXCEPT ![s].pc = "prune", ![s].drop = gone \ busy, ![s].keep = busy]
    /\ pst' = [pst EXCEPT !.pending = {}]
    /\ held' = [held EXCEPT !.prune = s]
    /\ UNCHANGED <<live, known, files, proven, stage, wreq>>

\* Mutant: packs are removed without the write side of the gate.
NoReaders_Ungated == TRUE

NoReaders == \A r \in Syncers : sreq[r].pc # "reading"

\* With the write side of the gate, checked again; without it, next time.
SyncPruneRemove(s) ==
    /\ sreq[s].pc = "prune"
    /\ LET safe == {p \in sreq[s].drop : p \notin known.packs /\ stage[p] = 0}
           now  == IF NoReaders THEN safe ELSE {}
       IN  /\ files' = [pack |-> files.pack \ now, idx |-> files.idx \ now]
           /\ sreq' = [sreq EXCEPT ![s].pc = "finish", ![s].drop = {},
                                   ![s].keep = @ \cup (sreq[s].drop \ now)]
    /\ UNCHANGED <<live, known, pst, proven, stage, held, wreq>>

\* Mutant: what could not be removed is forgotten.
SyncPruneFinish_Forgets(s) ==
    /\ sreq[s].pc = "finish"
    /\ pst' = [pst EXCEPT !.packsRev = sreq[s].man.rev, !.dirty = FALSE]
    /\ proven' = (proven \/ (pst'.packsRev = pst'.rev /\ pst'.pending = {}))
    /\ held' = [held EXCEPT !.pack = "none", !.prune = "none"]
    /\ sreq' = [sreq EXCEPT ![s].pc = "guard", ![s].keep = {}]
    /\ UNCHANGED <<live, known, files, stage, wreq>>

\* The end of reconcile_packs: what is left over replaces the pending list.
SyncPruneFinish(s) ==
    /\ sreq[s].pc = "finish"
    /\ pst' = [pst EXCEPT !.pending = IF sreq[s].keep = {} THEN @ ELSE sreq[s].keep,
                          !.packsRev = sreq[s].man.rev, !.dirty = FALSE]
    /\ proven' = (proven \/ (pst'.packsRev = pst'.rev /\ pst'.pending = {}))
    /\ held' = [held EXCEPT !.pack = "none", !.prune = "none"]
    /\ sreq' = [sreq EXCEPT ![s].pc = "guard", ![s].keep = {}]
    /\ UNCHANGED <<live, known, files, stage, wreq>>

\* The read guard of the request, and its end.
TakeGuard(s) ==
    /\ sreq[s].pc = "guard"
    /\ sreq' = [sreq EXCEPT ![s].pc = "reading", ![s].saw = Usable \cap known.packs]
    /\ UNCHANGED <<live, known, pst, files, proven, stage, held, wreq>>

DropGuard(s) ==
    /\ sreq[s].pc = "reading"
    /\ sreq' = [sreq EXCEPT ![s] = IdleReq]
    /\ UNCHANGED <<live, known, pst, files, proven, stage, held, wreq>>

(***************************************************************************)
(* Writers on this instance: a push (sup = {}) or a compaction.            *)
(***************************************************************************)

\* prune_guard: the lock, and nothing is proven any more.
WriteBegin(w, p, S) ==
    /\ wreq[w].pc = "idle" /\ held.prune = "none" /\ live.rev < MaxRev
    /\ p \notin live.packs \cup files.pack
    /\ S \subseteq known.packs \cap Usable /\ (S # {} => Holds[p] = ObjectsOf(S))
    /\ held' = [held EXCEPT !.prune = w]
    /\ proven' = FALSE
    /\ wreq' = [wreq EXCEPT ![w] = [IdleWrite EXCEPT !.pc = "open", !.pack = p, !.sup = S]]
    /\ UNCHANGED <<live, known, pst, files, stage, sreq>>

\* ingest_pack, or the repack, puts both files in place.
WriteIngest(w) ==
    /\ wreq[w].pc = "open"
    /\ files' = [pack |-> files.pack \cup {wreq[w].pack}, idx |-> files.idx \cup {wreq[w].pack}]
    /\ wreq' = [wreq EXCEPT ![w].pc = "ingested"]
    /\ UNCHANGED <<live, known, pst, proven, stage, held, sreq>>

\* Connectivity or policy refuses the push: the pack is left where it is.
WriteRefuse(w) ==
    /\ wreq[w].pc = "ingested"
    /\ held' = [held EXCEPT !.prune = "none"]
    /\ wreq' = [wreq EXCEPT ![w] = IdleWrite]
    /\ UNCHANGED <<live, known, pst, files, proven, stage, sreq>>

\* One guard of the handler, one of the publisher's waiter.
WriteStage(w) ==
    /\ wreq[w].pc = "ingested"
    /\ stage' = [stage EXCEPT ![wreq[w].pack] = @ + 2]
    /\ wreq' = [wreq EXCEPT ![w].pc = "staged", ![w].guard = 2]
    /\ UNCHANGED <<live, known, pst, files, proven, held, sreq>>

\* The manifest CAS.
WriteCas(w) ==
    /\ wreq[w].pc = "staged" /\ known.rev = live.rev
    /\ live' = Manifest((live.packs \ wreq[w].sup) \cup {wreq[w].pack}, live.rev + 1)
    /\ wreq' = [wreq EXCEPT ![w].pc = "landed", ![w].man = live']
    /\ UNCHANGED <<known, pst, files, proven, stage, held, sreq>>

\* It lost: sync and try again.
WriteRetry(w) ==
    /\ wreq[w].pc = "staged" /\ known.rev < live.rev /\ held.sync = "none" /\ MayOvertake
    /\ known' = live
    /\ \E sup \in {{}, known.packs \ live.packs} :
          pst' = [pst EXCEPT !.rev = live.rev, !.pending = @ \cup sup]
    /\ UNCHANGED <<live, files, proven, stage, held, sreq, wreq>>

\* It gives up, with or without an answer to the CAS.
WriteFail(w) ==
    /\ wreq[w].pc = "staged"
    /\ wreq' = [wreq EXCEPT ![w].pc = "done"]
    /\ UNCHANGED <<live, known, pst, files, proven, stage, held, sreq>>

\* The local commit: of a push under sync_mutex, of a compaction under none.  It
\* installs the manifest it wrote even when a sync has installed a later one.
WriteLocal(w) ==
    /\ wreq[w].pc = "landed" /\ (wreq[w].sup = {} => held.sync = "none")
    /\ known' = wreq[w].man
    /\ LET p1 == [pst EXCEPT !.pending = @ \cup wreq[w].sup]
           ready == ~p1.dirty /\ p1.packsRev = p1.rev /\ p1.pending = {}
       IN  pst' = [p1 EXCEPT !.rev = wreq[w].man.rev,
                             !.packsRev = IF ready THEN wreq[w].man.rev ELSE @]
    /\ wreq' = [wreq EXCEPT ![w].pc = "done"]
    /\ UNCHANGED <<live, files, proven, stage, held, sreq>>

\* What the drop of one StagedPackGuard does; the last one leaves a pack that is
\* not live to the pruner.
Unstaged(p, n) ==
    /\ stage' = [stage EXCEPT ![p] = @ - n]
    /\ pst' = IF stage[p] = n /\ p \notin known.packs
              THEN [pst EXCEPT !.pending = @ \cup {p}, !.dirty = TRUE] ELSE pst

\* Mutant: the only guard is the handler's.
WriteCancel_OneGuard(w) ==
    /\ wreq[w].pc \in {"staged", "landed"} /\ wreq[w].sup = {} /\ held.prune = w
    /\ Unstaged(wreq[w].pack, wreq[w].guard)
    /\ held' = [held EXCEPT !.prune = "none"]
    /\ wreq' = [wreq EXCEPT ![w].guard = 0]
    /\ UNCHANGED <<live, known, files, proven, sreq>>

\* The client goes away: the handler's guard and prune_lock are released while
\* the publisher goes on with its own guard.
WriteCancel(w) ==
    /\ wreq[w].pc \in {"staged", "landed"} /\ wreq[w].sup = {} /\ held.prune = w
    /\ Unstaged(wreq[w].pack, 1)
    /\ held' = [held EXCEPT !.prune = "none"]
    /\ wreq' = [wreq EXCEPT ![w].guard = 1]
    /\ UNCHANGED <<live, known, files, proven, sreq>>

WriteEnd(w) ==
    /\ wreq[w].pc = "done"
    /\ Unstaged(wreq[w].pack, wreq[w].guard)
    /\ held' = [held EXCEPT !.prune = IF @ = w THEN "none" ELSE @]
    /\ wreq' = [wreq EXCEPT ![w] = IdleWrite]
    /\ UNCHANGED <<live, known, files, proven, sreq>>

\* The process dies and opens the repository again: Registry::open with the state
\* file; nothing is proven, nothing staged.
PackRestart ==
    /\ "half_install" \notin PackFaults => \A s \in Syncers : sreq[s].pc # "index"
    /\ known' = live
    /\ pst' = [pst EXCEPT !.rev = live.rev]
    /\ proven' = FALSE
    /\ stage' = [p \in Packs |-> 0]
    /\ held' = [sync |-> "none", pack |-> "none", prune |-> "none"]
    /\ sreq' = [s \in Syncers |-> IdleReq]
    /\ wreq' = [w \in PackWriters |-> IdleWrite]
    /\ UNCHANGED <<live, files>>

PackNext ==
    \/ \E p \in Packs : PushElsewhere(p) \/ \E S \in SUBSET live.packs : CompactElsewhere(p, S)
    \/ \E s \in Syncers :
          \/ SyncRefsApply(s) \/ SyncRefsInstall(s) \/ SyncRefsFresh(s)
          \/ SyncPacksReady(s) \/ SyncPacksBegin(s)
          \/ \E p \in Packs : SyncInstallPack(s, p) \/ SyncLinkPack(s, p)
          \/ SyncInstallIdx(s) \/ SyncPacksFail(s)
          \/ SyncPruneBusy(s) \/ SyncPruneScan(s) \/ SyncPruneRemove(s) \/ SyncPruneFinish(s)
          \/ TakeGuard(s) \/ DropGuard(s)
    \/ \E w \in PackWriters :
          \/ \E p \in Packs, S \in SUBSET known.packs : WriteBegin(w, p, S)
          \/ WriteIngest(w) \/ WriteRefuse(w) \/ WriteStage(w)
          \/ WriteCas(w) \/ WriteRetry(w) \/ WriteFail(w)
          \/ WriteLocal(w) \/ WriteCancel(w) \/ WriteEnd(w)
    \/ PackRestart

PackSpec == PackInit /\ [][PackNext]_packVars

(***************************************************************************)
(* Properties.                                                             *)
(***************************************************************************)

\* A pack that a push or a compaction on this instance is about to publish, or
\* has published and not yet recorded, is never pruned under it.
StagedKept ==
    \A w \in PackWriters :
        wreq[w].pc \in {"ingested", "staged", "landed"} => wreq[w].pack \in Usable

\* While a request reads under its guard, the live packs it could use when it
\* took the guard stay.
ReaderKeepsPacks ==
    \A s \in Syncers : sreq[s].pc = "reading" => sreq[s].saw \subseteq Usable

\* After a sync the request finds every object of the manifest that its packs
\* phase saw, whatever was compacted or pruned since.
GuardServes ==
    \A s \in Syncers : sreq[s].pc = "reading" => ObjectsOf(sreq[s].man.packs) \subseteq ObjectsOf(Usable)

\* A copy whose packs count as ready misses no object of its manifest.
ReadyComplete == level_satisfied => ObjectsOf(known.packs) \subseteq ObjectsOf(Usable)

\* A copy whose packs count as ready holds no pack that nobody would ever prune.
GarbageRemembered == level_satisfied => files.pack \subseteq known.packs \cup live.packs \cup {p \in Packs : stage[p] > 0}

\* What a request may rely on under its guard, and what packs_ready promises the next one:
\* every object is there and stays, also one that is about to be published, and no pack is
\* left that nobody would ever prune.
PacksServed == StagedKept /\ ReaderKeepsPacks /\ GuardServes /\ ReadyComplete /\ GarbageRemembered
============================================================================
