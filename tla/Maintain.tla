------------------------------ MODULE Maintain ------------------------------
(***************************************************************************)
(* The units of a maintainer that change which packs are live: geometric   *)
(* folds, base rebuilds in a scratch copy that a crash leaves behind, the  *)
(* connectivity audit and the repair from upstream, on several hosts whose *)
(* compaction lease can lapse while the work goes on, beside pushes and    *)
(* ref deletions.                                                          *)
(*                                                                         *)
(* An object stands for a topic branch with everything only it reaches;    *)
(* the default branch is never deleted and not represented.                *)
(* Packs are named by what they hold, so two packs of one content have one *)
(* checksum, as in git.                                                    *)
(***************************************************************************)
EXTENDS Integers, FiniteSets, Sequences

CONSTANTS Hosts,        \* maintainers of the repository
          Objs,         \* branch tips
          Damaged,      \* tips an import published without their objects
          MntMaxSeq,    \* bound on the log
          MntLapses,    \* how often the lease lapses under a holder at work
          ListMax,      \* FSCK_MISSING_LIST_MAX
          Compaction,   \* compaction.enabled and the compact role
          Audits,       \* fsck_interval is not zero and there is an upstream
          Repush        \* a pack may be pushed a second time, byte for byte

ASSUME MaintainAssumption ==
    /\ Damaged \subseteq Objs
    /\ MntMaxSeq \in Nat /\ MntLapses \in Nat /\ ListMax \in Nat \ {0}
    /\ {Compaction, Audits, Repush} \subseteq BOOLEAN

VARIABLES live,         \* the manifest: head_seq and the live packs
          tips,         \* the refs at head_seq
          uploaded,     \* checksums of the packs pushes have put into the bucket
          fsck,         \* fsck.pb
          compactLease, \* the holder of leases/compact, or None
          mntLapses,    \* lapses so far
          local,        \* each host's handle during a unit: manifest, refs, packs
          scratch,      \* each host's _rebuild copy with its marker
          mntPc, job    \* each host's unit

maintainVars == <<live, tips, uploaded, fsck, compactLease, mntLapses,
                  local, scratch, mntPc, job>>

None == "none"
NoReport == [seen |-> FALSE, missing |-> {}, total |-> 0, repaired |-> 0]
NoScratch == [phase |-> "absent", head |-> 0, packs |-> {}, tips |-> {}, new |-> <<>>]
\* Between units a copy may be anything: each unit begins with a sync.
NoCopy == [live |-> [head |-> 0, packs |-> {}], tips |-> {}, packs |-> {}, guard |-> FALSE]
NoJob == [live |-> [head |-> 0, packs |-> {}], new |-> <<>>, sup |-> {}, tier |-> 0,
          missing |-> {}, report |-> NoReport]

\* A pack's checksum is its kind, its content and, for pushes, how it was packed.
Pack(kind, objs, n) == [kind |-> kind, objs |-> objs, n |-> n]
Listed(p, seq, tier) == [sum |-> p, seq |-> seq, tier |-> tier]
Sums(m) == {l.sum : l \in m.packs}
\* A history pack alone completes no branch: it leaves the blobs out.
ObjectsIn(packs) == UNION {p.objs : p \in {q \in packs : q.kind # "history"}}

MaintainInit ==
    /\ uploaded = {Pack("push", {o}, 1) : o \in Objs \ Damaged}
    /\ live = [head |-> 1, packs |-> {Listed(p, 1, 0) : p \in uploaded}]
    /\ tips = Objs
    /\ fsck = NoReport
    /\ compactLease = None /\ mntLapses = 0
    /\ local = [h \in Hosts |-> NoCopy]
    /\ scratch = [h \in Hosts |-> NoScratch]
    /\ mntPc = [h \in Hosts |-> "idle"] /\ job = [h \in Hosts |-> NoJob]

-----------------------------------------------------------------------------
(* Pushes, ref deletions, and requests that bring a host's copy up to date. *)

\* A push of a branch brings a pack of its own; the new PackRef is appended
\* whether or not a pack of that checksum is live.
PushTip(o, n) ==
    /\ o \notin tips /\ live.head < MntMaxSeq
    /\ Repush \/ Pack("push", {o}, n) \notin uploaded
    /\ live' = [head |-> live.head + 1,
               packs |-> live.packs \cup {Listed(Pack("push", {o}, n), live.head + 1, 0)}]
    /\ tips' = tips \cup {o}
    /\ uploaded' = uploaded \cup {Pack("push", {o}, n)}
    /\ UNCHANGED <<fsck, compactLease, mntLapses, local, scratch, mntPc, job>>

DropTip(o) ==
    /\ o \in tips /\ live.head < MntMaxSeq
    /\ live' = [live EXCEPT !.head = @ + 1]
    /\ tips' = tips \ {o}
    /\ UNCHANGED <<uploaded, fsck, compactLease, mntLapses, local, scratch, mntPc, job>>

\* sync: refs and manifest of the bucket, every live pack; packs that are no
\* longer live are removed unless the prune guard keeps them.
Synced(h) ==
    [local[h] EXCEPT !.live = live, !.tips = tips,
                     !.packs = Sums(live) \cup (IF local[h].guard THEN @ ELSE {})]

\* Requests sync the copy at any time; the unit sees it where it reads the copy.
SyncRequest(h) ==
    /\ mntPc[h] \in {"repack", "scratch", "copy", "copy refs", "copy packs", "history"}
    /\ local[h].live # live
    /\ local' = [local EXCEPT ![h] = Synced(h)]
    /\ UNCHANGED <<live, tips, uploaded, fsck, compactLease, mntLapses, scratch, mntPc, job>>

-----------------------------------------------------------------------------
(* publish_compact: one CAS of the manifest that adds a pack and drops the  *)
(* superseded ones, named by checksum.                                      *)
PublishCompact(p, sup, tier) ==
    [head |-> live.head + 1,
     packs |-> {l \in live.packs : l.sum \notin sup /\ l.sum # p}
                  \cup {Listed(p, live.head + 1, tier)}]

Published(h, p, sup, tier) ==
    /\ live.head < MntMaxSeq
    /\ live' = PublishCompact(p, sup, tier)
    /\ local' = [local EXCEPT ![h].live = live', ![h].tips = tips]

Finish(h) ==
    /\ mntPc' = [mntPc EXCEPT ![h] = "idle"]
    /\ job' = [job EXCEPT ![h] = NoJob]
    /\ local' = [local EXCEPT ![h] = NoCopy]

LeaseFreed(h) == compactLease' = IF compactLease = h THEN None ELSE compactLease

-----------------------------------------------------------------------------
(* maintain::next_unit, after sync_refs: repair before anything else, then  *)
(* the rebuild a full slot asks for, the fold, the audit.                   *)
base_packs(m) == {l \in m.packs : l.tier = 2 /\ l.sum.kind = "base"}

\* The base is missing, split, or older than the slot's window, which opens at bar.
RebuildDue(m, bar) ==
    \/ base_packs(m) = {} /\ m.packs # {}
    \/ Cardinality(base_packs(m)) > 1
    \/ \E l \in base_packs(m) : l.seq <= bar

fold_due(m) == Cardinality({l \in m.packs : l.tier = 0}) >= 2

RepairDue == fsck.missing # {} /\ fsck.repaired = 0

FsckDue(old) ==
    \/ ~fsck.seen
    \/ fsck.repaired > 0 /\ live.head >= fsck.repaired
    \/ old

\* fullSlot: a full bundle is missing; old: the last audit is past the interval.
NextUnit(fullSlot, bar, old) ==
    IF Audits /\ RepairDue THEN "repair"
    ELSE IF Compaction /\ fullSlot /\ RebuildDue(live, bar) THEN "rebuild"
    ELSE IF Compaction /\ fold_due(live) THEN "fold"
    ELSE IF Audits /\ FsckDue(old) THEN "fsck" ELSE "idle"

\* run_pass takes one unit of the repository and runs it as a task.
RunUnit(h) ==
    /\ mntPc[h] = "idle"
    /\ \E fullSlot, old \in BOOLEAN, bar \in 1..live.head :
          LET unit == NextUnit(fullSlot, bar, old) IN
          /\ unit # "idle"
          /\ mntPc' = [mntPc EXCEPT ![h] = unit]
    /\ local' = [local EXCEPT ![h].live = live, ![h].tips = tips]
    /\ UNCHANGED <<live, tips, uploaded, fsck, compactLease, mntLapses, scratch, job>>

-----------------------------------------------------------------------------
(* compact_repo                                                             *)

\* The copy is synced and the manifest kept before the lease is asked for.
CompactSync(h) ==
    /\ mntPc[h] \in {"fold", "rebuild"}
    /\ IF mntPc[h] = "fold" /\ ~fold_due(live)
       THEN Finish(h)
       ELSE /\ local' = [local EXCEPT ![h] = Synced(h)]
            /\ mntPc' = [mntPc EXCEPT ![h] = IF @ = "fold" THEN "fold lease" ELSE "rebuild lease"]
            /\ job' = [job EXCEPT ![h].live = live]
    /\ UNCHANGED <<live, tips, uploaded, fsck, compactLease, mntLapses, scratch>>

TakeLease(h) ==
    /\ mntPc[h] \in {"fold lease", "rebuild lease"}
    /\ IF compactLease = None
       THEN /\ compactLease' = h
            /\ mntPc' = [mntPc EXCEPT ![h] = IF @ = "fold lease" THEN "repack" ELSE "scratch"]
            /\ UNCHANGED <<job, local>>
       ELSE Finish(h) /\ UNCHANGED compactLease
    /\ UNCHANGED <<live, tips, uploaded, fsck, mntLapses, scratch>>

\* Nothing extends the lease: it runs out under the work, or after a crash.
LeaseRunsOut ==
    /\ compactLease # None
    /\ IF mntPc[compactLease] = "idle"
       THEN UNCHANGED mntLapses
       ELSE mntLapses < MntLapses /\ mntLapses' = mntLapses + 1
    /\ compactLease' = None
    /\ UNCHANGED <<live, tips, uploaded, fsck, local, scratch, mntPc, job>>

\* Bases and history packs of the manifest read at the start stay as they are.
Protected(m) == {l.sum : l \in {k \in m.packs : k.tier = 2 \/ k.sum.kind = "history"}}

\* git repack -d with the rolled packs made one: what is new, and what is gone.
repack(packs, rolled) ==
    LET new == Pack("fold", ObjectsIn(rolled), 1)
        after == IF rolled = {} THEN packs ELSE (packs \ rolled) \cup {new}
    IN [after |-> after, new |-> after \ packs, removed |-> packs \ after]

\* --geometric chooses which of the other packs to roll; packs it removed are
\* superseded if the manifest of the start lists them.
GeometricRepack(h) ==
    /\ mntPc[h] = "repack"
    /\ \E rolled \in SUBSET (local[h].packs \ Protected(job[h].live)) :
          LET result == repack(local[h].packs, rolled) IN
          /\ Cardinality(rolled) # 1
          /\ local' = [local EXCEPT ![h].packs = result.after, ![h].guard = TRUE]
          /\ job' = [job EXCEPT ![h].new = IF result.new = {} THEN <<>> ELSE <<CHOOSE p \in result.new : TRUE>>,
                                ![h].sup = result.removed \cap Sums(job[h].live), ![h].tier = 1]
    /\ mntPc' = [mntPc EXCEPT ![h] = "publish"]
    /\ UNCHANGED <<live, tips, uploaded, fsck, compactLease, mntLapses, scratch>>

-----------------------------------------------------------------------------
(* rebuild_base                                                             *)

\* A scratch copy is resumed only when the head is the one it started from;
\* otherwise the marker is removed and the serving copy copied again.
RebuildStart(h) ==
    /\ mntPc[h] = "scratch"
    /\ job' = [job EXCEPT ![h].live = local[h].live]
    /\ IF scratch[h].phase # "absent" /\ scratch[h].head = local[h].live.head
       THEN /\ mntPc' = [mntPc EXCEPT ![h] = scratch[h].phase]
            /\ UNCHANGED scratch
       ELSE /\ scratch' = [scratch EXCEPT ![h] = NoScratch]
            /\ mntPc' = [mntPc EXCEPT ![h] = "copy"]
    /\ UNCHANGED <<live, tips, uploaded, fsck, compactLease, mntLapses, local>>

\* copy_tree walks the serving copy while requests sync it: it takes refs and
\* packs at two moments, in the order of the directory.
CopyFirst(h) ==
    /\ mntPc[h] = "copy"
    /\ \/ /\ scratch' = [scratch EXCEPT ![h].packs = local[h].packs]
          /\ mntPc' = [mntPc EXCEPT ![h] = "copy refs"]
       \/ /\ scratch' = [scratch EXCEPT ![h].tips = local[h].tips]
          /\ mntPc' = [mntPc EXCEPT ![h] = "copy packs"]
    /\ UNCHANGED <<live, tips, uploaded, fsck, compactLease, mntLapses, local, job>>

CopyRest(h, head) ==
    /\ mntPc[h] \in {"copy refs", "copy packs"}
    /\ scratch' = [scratch EXCEPT
          ![h].tips = IF mntPc[h] = "copy refs" THEN local[h].tips ELSE @,
          ![h].packs = IF mntPc[h] = "copy packs" THEN local[h].packs ELSE @,
          ![h].phase = "copied", ![h].head = head]
    /\ mntPc' = [mntPc EXCEPT ![h] = "copied"]
    /\ UNCHANGED <<live, tips, uploaded, fsck, compactLease, mntLapses, local, job>>

\* Mutant: the marker gets the head at the end of the copy.
ScratchCopied_HeadAfter(h) == CopyRest(h, local[h].live.head)
\* The marker is written after the copy, with the head read before it.
ScratchCopied(h) == CopyRest(h, job[h].live.head)

\* git repack -a -d of the scratch copy: what its refs reach, in one pack, and
\* an error when some of that is missing.
FullRepack(h) ==
    /\ mntPc[h] = "copied"
    /\ IF scratch[h].tips \subseteq ObjectsIn(scratch[h].packs) /\ scratch[h].packs # {}
       THEN LET base == Pack("base", scratch[h].tips, 1) IN
            /\ scratch' = [scratch EXCEPT ![h].packs = {base}, ![h].new = <<base>>,
                                          ![h].phase = "repacked"]
            /\ mntPc' = [mntPc EXCEPT ![h] = "repacked"]
            /\ UNCHANGED <<compactLease, job, local>>
       ELSE LeaseFreed(h) /\ Finish(h) /\ UNCHANGED scratch
    /\ UNCHANGED <<live, tips, uploaded, fsck, mntLapses>>

\* Commits and trees of the new base, in a pack of their own.
write_history_pack(base) == Pack("history", base.objs, 1)

\* Failing to write the history pack, or the commit-graph layer after it, does not stop the rebuild.
HistoryPack(h) ==
    /\ mntPc[h] = "repacked"
    /\ \E written \in BOOLEAN :
          scratch' = [scratch EXCEPT
              ![h].new = IF written THEN Append(@, write_history_pack(@[1])) ELSE @,
              ![h].phase = "history"]
    /\ mntPc' = [mntPc EXCEPT ![h] = "history"]
    /\ UNCHANGED <<live, tips, uploaded, fsck, compactLease, mntLapses, local, job>>

\* The new packs are linked into the serving copy under the prune guard; every
\* pack the handle's manifest now lists from before the start is superseded.
InstallBase(h) ==
    /\ mntPc[h] = "history"
    /\ LET new == scratch[h].new
           old == {l \in local[h].live.packs : l.seq <= scratch[h].head}
           names == {new[k] : k \in DOMAIN new}
       IN /\ local' = [local EXCEPT ![h].packs = @ \cup names, ![h].guard = TRUE]
          /\ job' = [job EXCEPT ![h].live = local[h].live, ![h].new = new, ![h].tier = 2,
                                ![h].sup = {l.sum : l \in old} \ names]
    /\ mntPc' = [mntPc EXCEPT ![h] = "publish"]
    /\ UNCHANGED <<live, tips, uploaded, fsck, compactLease, mntLapses, scratch>>

-----------------------------------------------------------------------------
(* Publishing the new packs of a fold or a rebuild, one after the other: the *)
(* superseded set goes with the first.                                       *)
AlreadyLive(h, p) ==
    /\ job[h].tier = 2 /\ job[h].sup = {}
    /\ \E l \in job[h].live.packs : l.sum = p /\ l.tier = 2

PublishNext(h) ==
    /\ mntPc[h] = "publish" /\ job[h].new # <<>>
    /\ LET p == Head(job[h].new) IN
       IF AlreadyLive(h, p)
       THEN UNCHANGED <<live, local>>
       ELSE Published(h, p, job[h].sup, job[h].tier)
    /\ job' = [job EXCEPT ![h].new = Tail(@), ![h].sup = {}]
    /\ UNCHANGED <<tips, uploaded, fsck, compactLease, mntLapses, scratch, mntPc>>

\* A publish that gives up: a fold goes on with its other packs, of which there
\* are none; a rebuild ends and keeps its scratch copy.
PublishFails(h) ==
    /\ mntPc[h] = "publish" /\ job[h].new # <<>>
    /\ LeaseFreed(h) /\ Finish(h)
    /\ UNCHANGED <<live, tips, uploaded, fsck, mntLapses, scratch>>

EndCompact(h) ==
    /\ mntPc[h] = "publish" /\ job[h].new = <<>>
    /\ scratch' = IF job[h].tier = 2 THEN [scratch EXCEPT ![h] = NoScratch] ELSE scratch
    /\ LeaseFreed(h) /\ Finish(h)
    /\ UNCHANGED <<live, tips, uploaded, fsck, mntLapses>>

\* The process ends.  The scratch copy and its marker stay on the disk, the
\* lease in the bucket.
UnitCrash(h) ==
    /\ mntPc[h] # "idle"
    /\ Finish(h)
    /\ UNCHANGED <<live, tips, uploaded, fsck, compactLease, mntLapses, scratch>>

-----------------------------------------------------------------------------
(* The audit and the repair.  fsck.pb is overwritten, never compared.       *)

\* git fsck of a synced copy.
FsckRun(h) ==
    /\ mntPc[h] = "fsck"
    /\ local' = [local EXCEPT ![h] = Synced(h)]
    /\ job' = [job EXCEPT ![h].missing = tips \ ObjectsIn(local'[h].packs)]
    /\ mntPc' = [mntPc EXCEPT ![h] = "fsck write"]
    /\ UNCHANGED <<live, tips, uploaded, fsck, compactLease, mntLapses, scratch>>

FsckWrite(h) ==
    /\ mntPc[h] = "fsck write"
    /\ \E list \in SUBSET job[h].missing :
          /\ \/ list = job[h].missing /\ Cardinality(list) <= ListMax
             \/ Cardinality(list) = ListMax
          /\ fsck' = [seen |-> TRUE, missing |-> list,
                      total |-> Cardinality(job[h].missing), repaired |-> 0]
    /\ Finish(h)
    /\ UNCHANGED <<live, tips, uploaded, compactLease, mntLapses, scratch>>

\* The listed objects are fetched from upstream; the fetch may fail.
RepairFetch(h) ==
    /\ mntPc[h] = "repair"
    /\ \/ /\ fsck.missing # {}
          /\ job' = [job EXCEPT ![h].report = fsck]
          /\ mntPc' = [mntPc EXCEPT ![h] = "repair publish"]
          /\ UNCHANGED local
       \/ Finish(h)
    /\ UNCHANGED <<live, tips, uploaded, fsck, compactLease, mntLapses, scratch>>

RepairPublish(h) ==
    /\ mntPc[h] = "repair publish"
    /\ Published(h, Pack("repair", job[h].report.missing, 1), {}, 0)
    /\ job' = [job EXCEPT ![h].report.repaired = live.head + 1]
    /\ mntPc' = [mntPc EXCEPT ![h] = "repair write"]
    /\ UNCHANGED <<tips, uploaded, fsck, compactLease, mntLapses, scratch>>

\* Mutant: a repair records that nothing is missing any more.
RepairWrite_Clean(h) ==
    /\ mntPc[h] = "repair write"
    /\ fsck' = [job[h].report EXCEPT !.missing = {}, !.repaired = 0]
    /\ Finish(h)
    /\ UNCHANGED <<live, tips, uploaded, compactLease, mntLapses, scratch>>
\* The report that was read goes back with the seq of the repair.
RepairWrite(h) ==
    /\ mntPc[h] = "repair write"
    /\ fsck' = job[h].report
    /\ Finish(h)
    /\ UNCHANGED <<live, tips, uploaded, compactLease, mntLapses, scratch>>

-----------------------------------------------------------------------------
MaintainNext ==
    \/ \E o \in Objs : DropTip(o) \/ \E n \in 1..2 : PushTip(o, n)
    \/ LeaseRunsOut
    \/ \E h \in Hosts :
          \/ SyncRequest(h) \/ RunUnit(h) \/ CompactSync(h) \/ TakeLease(h)
          \/ GeometricRepack(h) \/ RebuildStart(h) \/ CopyFirst(h) \/ ScratchCopied(h) \/ FullRepack(h)
          \/ HistoryPack(h) \/ InstallBase(h) \/ PublishNext(h) \/ PublishFails(h)
          \/ EndCompact(h) \/ UnitCrash(h)
          \/ FsckRun(h) \/ FsckWrite(h) \/ RepairFetch(h) \/ RepairPublish(h) \/ RepairWrite(h)

Absent == tips \ ObjectsIn(Sums(live))

\* No fold and no base rebuild drops an object a ref needs, whatever lands
\* beside it and when a lease runs out under the work (ops.rs:743,
\* rebuild.rs:428): what was pushed and is still referred to is in a live pack.
NoObjectLost == Absent \cap ObjectsIn(uploaded) = {}

\* While an object is absent the audit or the repair is due: no order of
\* reports written over each other makes damage look settled (ops.rs:270, 376).
DamageIsWork == Absent # {} => RepairDue \/ FsckDue(FALSE)
=============================================================================
