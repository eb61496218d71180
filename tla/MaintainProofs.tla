--------------------------- MODULE MaintainProofs ---------------------------
(***************************************************************************)
(* Maintain with one maintainer, for any branches, damage and length of    *)
(* the log: folds, rebuilds, crashes and lapsed leases beside pushes and   *)
(* deletions lose no object, and damage stays due for audit or repair.     *)
(*                                                                         *)
(* The inductive invariant MntInv says what the manifest lists (LiveOK),   *)
(* what the last report asks for (FsckOK), what a scratch copy on the disk *)
(* is of (ScratchOK), how far behind the bucket a rebuild works            *)
(* (RebuildOK), that what is about to be superseded is kept elsewhere      *)
(* (PublishOK), and what an audit and a repair have seen (AuditOK).        *)
(*                                                                         *)
(* With several maintainers the property can fail: what is superseded is   *)
(* named by checksum, and a fold by another can bring a pack back that a   *)
(* rebuild under way is going to supersede.                                *)
(***************************************************************************)
EXTENDS Maintain, Bundles, FiniteSetTheorems, WellFoundedInduction, NaturalsInduction, TLAPS

\* The only maintainer, and no pack that comes twice.
OneMaintainer == (\A g, h \in Hosts : g = h) /\ Repush = FALSE

PackSums == [kind : {"push", "fold", "base", "history", "repair"}, objs : SUBSET Objs, n : Nat]
MadePacks == {p \in PackSums : p.kind # "push"}
Listings == [sum : PackSums, seq : Nat, tier : Nat]
Manifests == [head : Nat, packs : SUBSET Listings]
Totals == {Cardinality(s) : s \in SUBSET Objs} \cup {0}
Reports == [seen : BOOLEAN, missing : SUBSET Objs, total : Totals, repaired : Nat]
Copies == [live : Manifests, tips : SUBSET Objs, packs : SUBSET PackSums, guard : BOOLEAN]
Scratches == [phase : {"absent", "copied", "repacked", "history"}, head : Nat, packs : SUBSET PackSums,
              tips : SUBSET Objs, new : Seq(MadePacks)]
Jobs == [live : Manifests, new : Seq(MadePacks), sup : SUBSET PackSums, tier : Nat, missing : SUBSET Objs,
         report : Reports]
Copying == {"copy", "copy refs", "copy packs"}
Building == {"copied", "repacked", "history"}
Reading == {"rebuild lease", "scratch"} \cup Copying \cup Building
UnitPcs == {"idle", "fold", "rebuild", "fold lease", "repack", "publish", "fsck", "fsck write", "repair", "repair publish",
            "repair write"} \cup Reading

MntTypes ==
    /\ live \in Manifests /\ tips \subseteq Objs /\ uploaded \subseteq PackSums /\ fsck \in Reports
    /\ local \in [Hosts -> Copies] /\ scratch \in [Hosts -> Scratches] /\ mntPc \in [Hosts -> UnitPcs]
    /\ job \in [Hosts -> Jobs]

\* What pushes brought is known to have come.
Uploads(packs) == \A p \in packs : p.kind = "push" => p \in uploaded

\* The manifest: no pack of a push is listed twice.
LiveOK ==
    /\ live.head > 0 /\ \A l \in live.packs : l.seq <= live.head
    /\ \A l, k \in live.packs : l.sum.kind = "push" /\ l.sum = k.sum => l = k
    /\ Uploads(Sums(live))
    /\ NoObjectLost

\* An audit is wanted, or a repair, while something is absent.
FsckOK ==
    /\ fsck.repaired <= live.head
    /\ Absent # {} => ~fsck.seen \/ fsck.repaired > 0 \/ fsck.missing # {}

\* Since m with the refs t there were only pushes and deletions of refs.
Behind(m, t) ==
    /\ m.head <= live.head /\ m.packs \subseteq live.packs
    /\ m.head = live.head => m = live /\ t = tips
    /\ \A l \in live.packs \ m.packs : l.seq > m.head /\ l.sum.kind = "push"
    /\ \A o \in tips \ t : \E l \in live.packs \ m.packs : o \in l.sum.objs

\* What is referred to and not in t was pushed after head n.
Covered(t, n) == \A o \in tips \ t : \E l \in live.packs : l.seq > n /\ l.sum.kind = "push" /\ o \in l.sum.objs

\* Nothing is lost when p is listed and sup are not.
Kept(p, sup) == \A o \in tips \cap ObjectsIn(Sums(live)) : o \in ObjectsIn({p} \cup (Sums(live) \ sup))

\* A scratch copy, whoever left it.
ScratchOK(s) ==
    /\ s.head <= live.head
    /\ s.phase # "absent" /\ s.head = live.head => s.tips = tips
    /\ s.phase \in {"repacked", "history"} => s.new # <<>> /\ s.new[1] = Pack("base", s.tips, 1)

\* A rebuild, from its sync to the new base.
RebuildOK(c, s, pc, j) ==
    /\ pc \in Reading => Behind(c.live, c.tips)
    /\ pc \in {"rebuild lease", "scratch"} /\ s.phase # "absent" /\ s.head = c.live.head => s.tips = c.tips
    /\ pc \in Copying => s.phase = "absent" /\ j.live.head <= c.live.head
    /\ pc = "copy packs" => Covered(s.tips, j.live.head) /\ (j.live.head = live.head => s.tips = tips)
    /\ pc \in Building => s.phase = pc /\ Covered(s.tips, s.head)

\* What is about to be published, and what it was made of.
PublishOK(pc, j) ==
    /\ pc \in {"fold lease", "repack"} => Uploads(Sums(j.live))
    /\ pc = "publish" => Uploads(j.sup) /\ (j.new # <<>> => Kept(Head(j.new), j.sup))

\* An audit, of packs that are live, and a repair.
AuditOK(c, pc, j) ==
    /\ pc \in {"idle", "fsck"} => ~c.guard
    /\ pc = "fsck write" => Absent \subseteq j.missing
    /\ pc \in {"repair publish", "repair write"} => j.report.missing # {}
    /\ pc = "repair write" => j.report.repaired > 0 /\ j.report.repaired <= live.head

HostOK(c, s, pc, j) == ScratchOK(s) /\ RebuildOK(c, s, pc, j) /\ PublishOK(pc, j) /\ AuditOK(c, pc, j)

MntInv == MntTypes /\ LiveOK /\ FsckOK /\ \A h \in Hosts : HostOK(local[h], scratch[h], mntPc[h], job[h])

-----------------------------------------------------------------------------
(* What packs hold, and steps that leave the bucket alone.                  *)

\* The objects of some packs.
LEMMA ObjectsAre ==
    ASSUME NEW packs, NEW o
    PROVE  o \in ObjectsIn(packs) <=> \E p \in packs : p.kind # "history" /\ o \in p.objs
BY DEF ObjectsIn

\* What is listed.
LEMMA SumsAre ==
    ASSUME NEW m, NEW p
    PROVE  p \in Sums(m) <=> \E l \in m.packs : p = l.sum
BY DEF Sums

\* The values that stand for nothing.
LEMMA NothingYet ==
    /\ NoReport \in Reports /\ NoScratch \in Scratches /\ NoCopy \in Copies /\ NoJob \in Jobs
    /\ NoScratch.phase = "absent" /\ NoScratch.head = 0 /\ NoCopy.guard = FALSE
<1>1. NoReport \in Reports
  BY DEF NoReport, Reports, Totals
<1>2. <<>> \in Seq(MadePacks)
  OBVIOUS
<1>3. [head |-> 0, packs |-> {}] \in Manifests
  BY DEF Manifests
<1>4. NoScratch \in Scratches
  BY <1>2 DEF NoScratch, Scratches
<1>5. NoCopy \in Copies
  BY <1>3 DEF NoCopy, Copies
<1>6. NoJob \in Jobs
  BY <1>1, <1>2, <1>3 DEF NoJob, Jobs
<1> QED
  BY <1>1, <1>4, <1>5, <1>6 DEF NoScratch, NoCopy

\* Host h is at pc with the copy c, the scratch copy s and the job j after this step.
NowAt(h, c, s, pc, j) ==
    /\ c \in Copies /\ local' \in [Hosts -> Copies] /\ local'[h] = c
    /\ s \in Scratches /\ scratch' \in [Hosts -> Scratches] /\ scratch'[h] = s
    /\ pc \in UnitPcs /\ mntPc' \in [Hosts -> UnitPcs] /\ mntPc'[h] = pc
    /\ j \in Jobs /\ job' \in [Hosts -> Jobs] /\ job'[h] = j

\* The parts of host h, before the step.
LEMMA HostTypes ==
    ASSUME MntTypes, NEW h \in Hosts
    PROVE  local[h] \in Copies /\ scratch[h] \in Scratches /\ mntPc[h] \in UnitPcs /\ job[h] \in Jobs
BY DEF MntTypes

\* One entry of a function of the hosts.
LEMMA SetAt ==
    ASSUME NEW S, NEW f \in [Hosts -> S], NEW h \in Hosts, NEW x \in S
    PROVE  [f EXCEPT ![h] = x] \in [Hosts -> S] /\ [f EXCEPT ![h] = x][h] = x
OBVIOUS

\* What holds of the only maintainer goes on holding while bucket and refs stay.
LEMMA HostsKept ==
    ASSUME OneMaintainer, NEW h \in Hosts, NEW c, NEW s, NEW pc, NEW j,
           NowAt(h, c, s, pc, j), HostOK(c, s, pc, j), UNCHANGED <<live, tips, uploaded>>
    PROVE  \A g \in Hosts : HostOK(local[g], scratch[g], mntPc[g], job[g])'
<1> TAKE g \in Hosts
<1>1. g = h
  BY DEF OneMaintainer
<1>2. local'[g] = c /\ scratch'[g] = s /\ mntPc'[g] = pc /\ job'[g] = j
  BY <1>1 DEF NowAt
<1>3. ScratchOK(scratch[g])'
  BY <1>2 DEF HostOK, ScratchOK
<1>4. RebuildOK(local[g], scratch[g], mntPc[g], job[g])'
  BY <1>2 DEF HostOK, RebuildOK, Behind, Covered
<1>5. PublishOK(mntPc[g], job[g])'
  BY <1>2 DEF HostOK, PublishOK, Kept, Uploads
<1>6. AuditOK(local[g], mntPc[g], job[g])'
  BY <1>2 DEF HostOK, AuditOK, Absent
<1> QED
  BY <1>3, <1>4, <1>5, <1>6 DEF HostOK

\* A step of the only maintainer that changes neither the bucket nor the refs.
LEMMA QuietStep ==
    ASSUME OneMaintainer, MntInv, NEW h \in Hosts, NEW c, NEW s, NEW pc, NEW j,
           NowAt(h, c, s, pc, j), HostOK(c, s, pc, j), UNCHANGED <<live, tips, uploaded, fsck>>
    PROVE  MntInv'
<1>1. MntTypes'
  BY DEF MntInv, MntTypes, NowAt
<1>2. LiveOK' /\ FsckOK'
  BY DEF MntInv, LiveOK, FsckOK, Uploads, NoObjectLost, Absent
<1>3. \A g \in Hosts : HostOK(local[g], scratch[g], mntPc[g], job[g])'
  BY HostsKept
<1> QED
  BY <1>1, <1>2, <1>3 DEF MntInv

\* A unit that has not begun to work.
LEMMA RestingOK ==
    ASSUME NEW c, NEW s, NEW pc \in {"idle", "fold", "rebuild", "fsck", "repair"}, NEW j, ScratchOK(s), ~c.guard
    PROVE  HostOK(c, s, pc, j)
BY DEF HostOK, RebuildOK, PublishOK, AuditOK, Reading, Copying, Building

\* The unit ends.
LEMMA FinishStep ==
    ASSUME OneMaintainer, MntInv, NEW h \in Hosts, Finish(h), NEW s \in Scratches,
           scratch' = scratch \/ scratch' = [scratch EXCEPT ![h] = s], ScratchOK(s),
           UNCHANGED <<live, tips, uploaded, fsck>>
    PROVE  MntInv'
<1>0. MntTypes /\ ScratchOK(scratch[h])
  BY DEF MntInv, HostOK
<1>1. PICK t \in Scratches : scratch' \in [Hosts -> Scratches] /\ scratch'[h] = t /\ ScratchOK(t)
  BY <1>0, SetAt DEF MntTypes
<1>2. "idle" \in UnitPcs /\ NoCopy \in Copies /\ NoJob \in Jobs /\ ~NoCopy.guard
  BY NothingYet DEF UnitPcs
<1>3. NowAt(h, NoCopy, t, "idle", NoJob)
  BY <1>0, <1>1, <1>2, SetAt DEF NowAt, Finish, MntTypes
<1> QED
  BY <1>1, <1>2, <1>3, RestingOK, QuietStep

\* The copy after a sync.
LEMMA SyncedCopy ==
    ASSUME MntInv, NEW h \in Hosts
    PROVE  /\ Synced(h) \in Copies /\ Synced(h).live = live /\ Synced(h).tips = tips
           /\ Behind(live, tips)
<1>0. MntTypes /\ LiveOK /\ local[h] \in Copies
  BY HostTypes DEF MntInv
<1>1. Sums(live) \in SUBSET PackSums
  BY <1>0 DEF MntTypes, Manifests, Listings, Sums
<1>2. live \in Manifests /\ tips \in SUBSET Objs
  BY <1>0 DEF MntTypes
<1>3. PICK q : q = Sums(live) \cup (IF local[h].guard THEN local[h].packs ELSE {})
  OBVIOUS
<1>4. q \in SUBSET PackSums
  BY <1>0, <1>1, <1>3 DEF Copies
<1>5. Synced(h) = [local[h] EXCEPT !.live = live, !.tips = tips, !.packs = q]
  BY <1>0, <1>3 DEF Synced, Copies
<1>6. Synced(h) \in Copies /\ Synced(h).live = live /\ Synced(h).tips = tips
  BY <1>0, <1>2, <1>4, <1>5 DEF Copies
<1>7. live.head \in Nat
  BY <1>2 DEF Manifests
<1> QED
  BY <1>6, <1>7 DEF Behind

\* Where the counts are numbers.
LEMMA Counts ==
    ASSUME MntTypes, NEW h \in Hosts
    PROVE  /\ live.head \in Nat /\ local[h].live.head \in Nat /\ scratch[h].head \in Nat /\ job[h].live.head \in Nat
           /\ fsck.repaired \in Nat
<1>1. live.head \in Nat
  BY DEF MntTypes, Manifests
<1>2. local[h].live.head \in Nat
  BY HostTypes DEF Copies, Manifests
<1>3. scratch[h].head \in Nat
  BY HostTypes DEF Scratches
<1>4. job[h].live.head \in Nat
  BY HostTypes DEF Jobs, Manifests
<1>5. fsck.repaired \in Nat
  BY DEF MntTypes, Reports
<1> QED
  BY <1>1, <1>2, <1>3, <1>4, <1>5

\* A request syncs the copy under a unit.
LEMMA SyncRequestStep ==
    ASSUME OneMaintainer, MntInv, NEW h \in Hosts, SyncRequest(h)
    PROVE  MntInv'
<1>0. /\ MntTypes /\ UNCHANGED <<live, tips, uploaded, fsck, scratch, mntPc, job>>
      /\ HostOK(local[h], scratch[h], mntPc[h], job[h])
      /\ mntPc[h] \in {"repack", "scratch", "copy", "copy refs", "copy packs", "history"}
      /\ local' = [local EXCEPT ![h] = Synced(h)]
  BY DEF MntInv, SyncRequest
<1>1. PICK c \in Copies : c = Synced(h) /\ c.live = live /\ c.tips = tips /\ Behind(live, tips)
  BY SyncedCopy
<1>2. NowAt(h, c, scratch[h], mntPc[h], job[h])
  BY <1>0, <1>1, SetAt, HostTypes DEF NowAt, MntTypes
<1>3. mntPc[h] # "repack" => mntPc[h] \in Reading
  BY <1>0 DEF Reading, Copying, Building
<1>4. RebuildOK(c, scratch[h], mntPc[h], job[h])
  <2>1. mntPc[h] \in Copying => job[h].live.head <= live.head
    <3> HAVE mntPc[h] \in Copying
    <3>1. local[h].live.head <= live.head /\ job[h].live.head <= local[h].live.head
      BY <1>0, <1>3 DEF HostOK, RebuildOK, Behind, Copying
    <3>2. live.head \in Nat /\ local[h].live.head \in Nat /\ job[h].live.head \in Nat
      BY <1>0, Counts
    <3> QED
      BY <3>1, <3>2
  <2> QED
    BY <1>0, <1>1, <2>1 DEF HostOK, RebuildOK, ScratchOK
<1>5. AuditOK(c, mntPc[h], job[h])
  BY <1>0 DEF AuditOK
<1> QED
  BY <1>0, <1>2, <1>4, <1>5, QuietStep DEF HostOK

\* A unit is chosen, and the sync and the lease it begins with.
LEMMA BeginStep ==
    ASSUME OneMaintainer, MntInv, NEW h \in Hosts, RunUnit(h) \/ CompactSync(h) \/ TakeLease(h)
    PROVE  MntInv'
<1>0. /\ MntTypes /\ LiveOK /\ UNCHANGED <<live, tips, uploaded, fsck, scratch>>
      /\ HostOK(local[h], scratch[h], mntPc[h], job[h]) /\ ScratchOK(scratch[h])
      /\ local[h] \in Copies /\ scratch[h] \in Scratches /\ job[h] \in Jobs /\ scratch \in [Hosts -> Scratches]
  BY HostTypes DEF MntInv, RunUnit, CompactSync, TakeLease, HostOK, MntTypes
<1>1. CASE Finish(h)
  BY <1>0, <1>1, FinishStep
<1>2. CASE RunUnit(h)
  <2>1. PICK unit \in {"repair", "rebuild", "fold", "fsck"} : mntPc' = [mntPc EXCEPT ![h] = unit]
    BY <1>2 DEF RunUnit, NextUnit
  <2>2. local' = [local EXCEPT ![h] = [local[h] EXCEPT !.live = live, !.tips = tips]] /\ job' = job
    BY <1>0, <1>2 DEF RunUnit, MntTypes, Copies
  <2>3. PICK c : c = [local[h] EXCEPT !.live = live, !.tips = tips]
    OBVIOUS
  <2>4. c \in Copies /\ ~c.guard
    <3>1. ~local[h].guard
      BY <1>0, <1>2 DEF RunUnit, HostOK, AuditOK
    <3> QED
      BY <1>0, <2>3, <3>1 DEF MntTypes, Copies
  <2>5. unit \in UnitPcs
    BY DEF UnitPcs, Reading
  <2>6. NowAt(h, c, scratch[h], unit, job[h])
    BY <1>0, <2>1, <2>2, <2>3, <2>4, <2>5, SetAt DEF NowAt, MntTypes
  <2> QED
    BY <1>0, <2>4, <2>6, RestingOK, QuietStep
<1>3. CASE CompactSync(h) /\ ~Finish(h)
  <2>1. PICK pc \in {"fold lease", "rebuild lease"} :
            /\ mntPc' = [mntPc EXCEPT ![h] = pc] /\ local' = [local EXCEPT ![h] = Synced(h)]
            /\ job' = [job EXCEPT ![h].live = live]
    BY <1>3 DEF CompactSync
  <2>2. PICK c \in Copies : c = Synced(h) /\ c.live = live /\ c.tips = tips /\ Behind(live, tips)
    BY SyncedCopy
  <2>3. PICK j : j = [job[h] EXCEPT !.live = live]
    OBVIOUS
  <2>4. j \in Jobs /\ j.live = live
    BY <1>0, <2>3 DEF MntTypes, Jobs
  <2>5. pc \in UnitPcs
    BY DEF UnitPcs, Reading
  <2>6. NowAt(h, c, scratch[h], pc, j)
    <3>1. job' = [job EXCEPT ![h] = j] /\ local' = [local EXCEPT ![h] = c] /\ mntPc' = [mntPc EXCEPT ![h] = pc]
      BY <1>0, <2>1, <2>2, <2>3 DEF MntTypes
    <3>2. job \in [Hosts -> Jobs] /\ local \in [Hosts -> Copies] /\ mntPc \in [Hosts -> UnitPcs]
      BY <1>0 DEF MntTypes
    <3>3. job' \in [Hosts -> Jobs] /\ job'[h] = j
      BY <2>4, <3>1, <3>2, SetAt
    <3>4. local' \in [Hosts -> Copies] /\ local'[h] = c
      BY <2>2, <3>1, <3>2, SetAt
    <3>5. mntPc' \in [Hosts -> UnitPcs] /\ mntPc'[h] = pc
      BY <2>5, <3>1, <3>2, SetAt
    <3> QED
      BY <1>0, <2>2, <2>4, <2>5, <3>3, <3>4, <3>5 DEF NowAt
  <2>7. HostOK(c, scratch[h], pc, j)
    <3>1. RebuildOK(c, scratch[h], pc, j)
      BY <1>0, <2>2 DEF RebuildOK, ScratchOK, Copying, Building
    <3>2. PublishOK(pc, j) /\ AuditOK(c, pc, j)
      BY <1>0, <2>4 DEF PublishOK, AuditOK, LiveOK
    <3> QED
      BY <1>0, <3>1, <3>2 DEF HostOK
  <2> QED
    BY <1>0, <2>6, <2>7, QuietStep
<1>4. CASE TakeLease(h) /\ ~Finish(h)
  <2>1. PICK pc \in {"repack", "scratch"} : /\ mntPc' = [mntPc EXCEPT ![h] = pc] /\ UNCHANGED <<job, local>>
                                            /\ pc = "repack" => mntPc[h] = "fold lease"
                                            /\ pc = "scratch" => mntPc[h] = "rebuild lease"
    BY <1>0, <1>4 DEF TakeLease, MntTypes
  <2>2. pc \in UnitPcs
    BY DEF UnitPcs, Reading
  <2>3. NowAt(h, local[h], scratch[h], pc, job[h])
    BY <1>0, <2>1, <2>2, SetAt DEF NowAt, MntTypes
  <2>4. HostOK(local[h], scratch[h], pc, job[h])
    <3>1. RebuildOK(local[h], scratch[h], pc, job[h])
      BY <1>0, <2>1 DEF HostOK, RebuildOK, Reading, Copying, Building
    <3>2. PublishOK(pc, job[h]) /\ AuditOK(local[h], pc, job[h])
      BY <1>0, <2>1 DEF HostOK, PublishOK, AuditOK
    <3> QED
      BY <1>0, <3>1, <3>2 DEF HostOK
  <2> QED
    BY <1>0, <2>3, <2>4, QuietStep
<1> QED
  BY <1>1, <1>2, <1>3, <1>4

-----------------------------------------------------------------------------
(* Folds and rebuilds.                                                      *)

\* What host h has after a step that says so field by field.
LEMMA StepTo ==
    ASSUME MntTypes, NEW h \in Hosts, NEW c \in Copies, NEW s \in Scratches, NEW pc \in UnitPcs, NEW j \in Jobs,
           local' = [local EXCEPT ![h] = c] \/ (local' = local /\ c = local[h]),
           scratch' = [scratch EXCEPT ![h] = s] \/ (scratch' = scratch /\ s = scratch[h]),
           mntPc' = [mntPc EXCEPT ![h] = pc] \/ (mntPc' = mntPc /\ pc = mntPc[h]),
           job' = [job EXCEPT ![h] = j] \/ (job' = job /\ j = job[h])
    PROVE  NowAt(h, c, s, pc, j)
<1>0. /\ local \in [Hosts -> Copies] /\ scratch \in [Hosts -> Scratches] /\ mntPc \in [Hosts -> UnitPcs]
      /\ job \in [Hosts -> Jobs]
  BY DEF MntTypes
<1>1. local' \in [Hosts -> Copies] /\ local'[h] = c
  BY <1>0
<1>2. scratch' \in [Hosts -> Scratches] /\ scratch'[h] = s
  BY <1>0
<1>3. mntPc' \in [Hosts -> UnitPcs] /\ mntPc'[h] = pc
  BY <1>0
<1>4. job' \in [Hosts -> Jobs] /\ job'[h] = j
  BY <1>0
<1> QED
  BY <1>1, <1>2, <1>3, <1>4 DEF NowAt

\* A pack of some objects.
LEMMA PackTyped ==
    ASSUME NEW kind \in {"fold", "base", "history", "repair"}, NEW objs \in SUBSET Objs
    PROVE  /\ Pack(kind, objs, 1) \in MadePacks /\ Pack(kind, objs, 1) \in PackSums
           /\ Pack(kind, objs, 1).kind = kind /\ Pack(kind, objs, 1).objs = objs
BY DEF Pack, MadePacks, PackSums

\* The objects of packs are objects.
LEMMA ObjectsTyped ==
    ASSUME NEW packs \in SUBSET PackSums
    PROVE  ObjectsIn(packs) \in SUBSET Objs
BY DEF ObjectsIn, PackSums

\* A repack removes only what it rolled up.
LEMMA RepackFacts ==
    ASSUME NEW packs \in SUBSET PackSums, NEW rolled \in SUBSET packs
    PROVE  /\ repack(packs, rolled).after \in SUBSET PackSums /\ repack(packs, rolled).removed \subseteq rolled
           /\ repack(packs, rolled).new # {} => repack(packs, rolled).new = {Pack("fold", ObjectsIn(rolled), 1)}
<1>1. PICK f : f = Pack("fold", ObjectsIn(rolled), 1)
  OBVIOUS
<1>2. f \in PackSums
  <2>1. rolled \in SUBSET PackSums
    OBVIOUS
  <2> QED
    BY <1>1, <2>1, ObjectsTyped, PackTyped
<1>3. PICK a : a = IF rolled = {} THEN packs ELSE (packs \ rolled) \cup {f}
  OBVIOUS
<1>4. repack(packs, rolled) = [after |-> a, new |-> a \ packs, removed |-> packs \ a]
  BY <1>1, <1>3 DEF repack
<1>5. a \in SUBSET PackSums /\ packs \ a \subseteq rolled /\ (a \ packs # {} => a \ packs = {f})
  BY <1>2, <1>3
<1> QED
  BY <1>1, <1>4, <1>5

\* A fold: the new pack holds what the superseded ones hold.
LEMMA FoldStep ==
    ASSUME OneMaintainer, MntInv, NEW h \in Hosts, GeometricRepack(h)
    PROVE  MntInv'
<1>0. /\ MntTypes /\ mntPc[h] = "repack" /\ UNCHANGED <<live, tips, uploaded, fsck, scratch>>
      /\ HostOK(local[h], scratch[h], mntPc[h], job[h])
      /\ local[h] \in Copies /\ scratch[h] \in Scratches /\ job[h] \in Jobs
      /\ mntPc' = [mntPc EXCEPT ![h] = "publish"]
  BY HostTypes DEF MntInv, GeometricRepack
<1>1. PICK rolled \in SUBSET local[h].packs :
          /\ local' = [local EXCEPT ![h].packs = repack(local[h].packs, rolled).after, ![h].guard = TRUE]
          /\ job' = [job EXCEPT ![h].new = IF repack(local[h].packs, rolled).new = {} THEN <<>>
                                           ELSE <<CHOOSE p \in repack(local[h].packs, rolled).new : TRUE>>,
                                ![h].sup = repack(local[h].packs, rolled).removed \cap Sums(job[h].live), ![h].tier = 1]
  BY DEF GeometricRepack
<1>2. PICK a, gone, new : /\ a = repack(local[h].packs, rolled).after /\ gone = repack(local[h].packs, rolled).removed
                          /\ new = repack(local[h].packs, rolled).new
  OBVIOUS
<1>3. PICK f : f = Pack("fold", ObjectsIn(rolled), 1)
  OBVIOUS
<1>4. /\ a \in SUBSET PackSums /\ gone \subseteq rolled /\ (new # {} => new = {f}) /\ rolled \in SUBSET PackSums
      /\ f \in MadePacks /\ f.kind = "fold" /\ f.objs = ObjectsIn(rolled)
  <2>1. local[h].packs \in SUBSET PackSums
    BY <1>0 DEF Copies
  <2>2. rolled \in SUBSET PackSums
    BY <2>1
  <2>3. a \in SUBSET PackSums /\ gone \subseteq rolled /\ (new # {} => new = {f})
    BY <1>2, <1>3, <2>1, RepackFacts
  <2>4. ObjectsIn(rolled) \in SUBSET Objs
    BY <2>2, ObjectsTyped
  <2>5. f \in MadePacks /\ f.kind = "fold" /\ f.objs = ObjectsIn(rolled)
    BY <1>3, <2>4, PackTyped
  <2> QED
    BY <2>2, <2>3, <2>5
<1>5. PICK n : n = IF new = {} THEN <<>> ELSE <<CHOOSE p \in new : TRUE>>
  OBVIOUS
<1>6. n \in Seq(MadePacks) /\ (n = <<>> \/ (n # <<>> /\ Head(n) = f))
  <2>1. CASE new = {}
    BY <1>5, <2>1
  <2>2. CASE new # {}
    <3>1. n = <<f>>
      BY <1>4, <1>5, <2>2
    <3> QED
      BY <1>4, <3>1
  <2> QED
    BY <2>1, <2>2
<1>7. PICK sup : sup = gone \cap Sums(job[h].live)
  OBVIOUS
<1>8. sup \in SUBSET PackSums /\ sup \subseteq rolled /\ Uploads(sup)
  <2>1. Uploads(Sums(job[h].live))
    BY <1>0 DEF HostOK, PublishOK
  <2> QED
    BY <1>4, <1>7, <2>1 DEF Uploads
<1>9. PICK c \in Copies : local' = [local EXCEPT ![h] = c]
  <2> DEFINE c == [local[h] EXCEPT !.packs = a, !.guard = TRUE]
  <2>1. c \in Copies
    BY <1>0, <1>4 DEF Copies
  <2>2. local' = [local EXCEPT ![h] = c]
    BY <1>0, <1>1, <1>2 DEF MntTypes, Copies
  <2> HIDE DEF c
  <2> QED
    BY <2>1, <2>2
<1>10. PICK j \in Jobs : job' = [job EXCEPT ![h] = j] /\ j.new = n /\ j.sup = sup
  <2> DEFINE j == [job[h] EXCEPT !.new = n, !.sup = sup, !.tier = 1]
  <2>1. j \in Jobs /\ j.new = n /\ j.sup = sup
    BY <1>0, <1>6, <1>8 DEF Jobs
  <2>2. job' = [job EXCEPT ![h] = j]
    BY <1>0, <1>1, <1>2, <1>5, <1>7 DEF MntTypes, Jobs
  <2> HIDE DEF j
  <2> QED
    BY <2>1, <2>2
<1>11. NowAt(h, c, scratch[h], "publish", j)
  <2>1. "publish" \in UnitPcs
    BY DEF UnitPcs
  <2> QED
    BY <1>0, <1>9, <1>10, <2>1, StepTo
<1>12. Kept(f, sup)
  <2> SUFFICES ASSUME NEW o \in tips \cap ObjectsIn(Sums(live))
               PROVE  o \in ObjectsIn({f} \cup (Sums(live) \ sup))
    BY DEF Kept
  <2>1. PICK p \in Sums(live) : p.kind # "history" /\ o \in p.objs
    BY ObjectsAre
  <2>2. CASE p \in sup
    <3>1. o \in ObjectsIn(rolled)
      BY <1>8, <2>1, <2>2, ObjectsAre
    <3> QED
      BY <1>4, <3>1, ObjectsAre
  <2>3. CASE p \notin sup
    BY <2>1, <2>3, ObjectsAre
  <2> QED
    BY <2>2, <2>3
<1>13. HostOK(c, scratch[h], "publish", j)
  <2>1. RebuildOK(c, scratch[h], "publish", j) /\ AuditOK(c, "publish", j)
    BY DEF RebuildOK, AuditOK, Reading, Copying, Building
  <2>2. PublishOK("publish", j)
    BY <1>6, <1>8, <1>10, <1>12 DEF PublishOK
  <2> QED
    BY <1>0, <2>1, <2>2 DEF HostOK
<1> QED
  BY <1>0, <1>11, <1>13, QuietStep

\* From a copy that is behind: what is referred to and was not then has come since.
LEMMA BehindCovers ==
    ASSUME MntTypes, NEW m \in Manifests, NEW t, Behind(m, t), NEW n \in Nat, n <= m.head
    PROVE  Covered(t, n)
<1> SUFFICES ASSUME NEW o \in tips \ t
             PROVE  \E l \in live.packs : l.seq > n /\ l.sum.kind = "push" /\ o \in l.sum.objs
  BY DEF Covered
<1>1. PICK l \in live.packs : l.seq > m.head /\ l.sum.kind = "push" /\ o \in l.sum.objs
  BY DEF Behind
<1>2. l.seq \in Nat /\ m.head \in Nat
  BY <1>1 DEF MntTypes, Manifests, Listings
<1> QED
  BY <1>1, <1>2

\* The scratch copy is taken up where the head is its own, or begun.
LEMMA RebuildStartStep ==
    ASSUME OneMaintainer, MntInv, NEW h \in Hosts, RebuildStart(h)
    PROVE  MntInv'
<1>0. /\ MntTypes /\ mntPc[h] = "scratch" /\ UNCHANGED <<live, tips, uploaded, fsck, local>>
      /\ HostOK(local[h], scratch[h], mntPc[h], job[h]) /\ ScratchOK(scratch[h])
      /\ local[h] \in Copies /\ scratch[h] \in Scratches /\ job[h] \in Jobs
      /\ job' = [job EXCEPT ![h].live = local[h].live]
  BY HostTypes DEF MntInv, RebuildStart, HostOK
<1>1. Behind(local[h].live, local[h].tips) /\ local[h].live \in Manifests /\ local[h].live.head \in Nat
  BY <1>0 DEF HostOK, RebuildOK, Reading, Copies, Manifests
<1>2. PICK j \in Jobs : job' = [job EXCEPT ![h] = j] /\ j.live = local[h].live
  <2> DEFINE j == [job[h] EXCEPT !.live = local[h].live]
  <2>1. j \in Jobs /\ j.live = local[h].live
    BY <1>0, <1>1 DEF Jobs
  <2>2. job' = [job EXCEPT ![h] = j]
    BY <1>0 DEF MntTypes, Jobs
  <2> HIDE DEF j
  <2> QED
    BY <2>1, <2>2
<1>3. CASE scratch[h].phase # "absent" /\ scratch[h].head = local[h].live.head
  <2>1. PICK pc : pc = scratch[h].phase
    OBVIOUS
  <2>2. mntPc' = [mntPc EXCEPT ![h] = pc] /\ scratch' = scratch /\ pc \in Building
    BY <1>0, <1>3, <2>1 DEF RebuildStart, Scratches, Building
  <2>3. pc \in UnitPcs /\ pc \in Reading /\ pc \notin {"rebuild lease", "scratch"} /\ pc \notin Copying
    BY <2>2 DEF UnitPcs, Reading, Building, Copying
  <2>4. NowAt(h, local[h], scratch[h], pc, j)
    BY <1>0, <1>2, <2>2, <2>3, StepTo
  <2>5. scratch[h].tips = local[h].tips
    BY <1>0, <1>3 DEF HostOK, RebuildOK
  <2>6. Covered(scratch[h].tips, scratch[h].head)
    <3>1. local[h].live.head <= local[h].live.head
      BY <1>1
    <3> QED
      BY <1>0, <1>1, <1>3, <2>5, <3>1, BehindCovers
  <2>7. HostOK(local[h], scratch[h], pc, j)
    <3>1. RebuildOK(local[h], scratch[h], pc, j)
      BY <1>1, <2>1, <2>2, <2>3, <2>6 DEF RebuildOK, Copying
    <3>2. PublishOK(pc, j) /\ AuditOK(local[h], pc, j)
      BY <2>2 DEF PublishOK, AuditOK, Building
    <3> QED
      BY <1>0, <3>1, <3>2 DEF HostOK
  <2> QED
    BY <1>0, <2>4, <2>7, QuietStep
<1>4. CASE ~(scratch[h].phase # "absent" /\ scratch[h].head = local[h].live.head)
  <2>1. mntPc' = [mntPc EXCEPT ![h] = "copy"] /\ scratch' = [scratch EXCEPT ![h] = NoScratch]
    BY <1>4 DEF RebuildStart
  <2>2. "copy" \in UnitPcs /\ NoScratch \in Scratches /\ NoScratch.phase = "absent" /\ NoScratch.head = 0
    BY NothingYet DEF UnitPcs, Reading, Copying
  <2>3. NowAt(h, local[h], NoScratch, "copy", j)
    BY <1>0, <1>2, <2>1, <2>2, StepTo
  <2>4. HostOK(local[h], NoScratch, "copy", j)
    <3>1. RebuildOK(local[h], NoScratch, "copy", j)
      BY <1>1, <1>2, <2>2 DEF RebuildOK, Building
    <3>2. PublishOK("copy", j) /\ AuditOK(local[h], "copy", j)
      BY DEF PublishOK, AuditOK
    <3>3. ScratchOK(NoScratch)
      BY <1>0, <2>2, Counts DEF ScratchOK
    <3> QED
      BY <3>1, <3>2, <3>3 DEF HostOK
  <2> QED
    BY <1>0, <2>3, <2>4, QuietStep
<1> QED
  BY <1>3, <1>4

\* The serving copy is copied: refs and packs at two moments.
LEMMA CopyFirstStep ==
    ASSUME OneMaintainer, MntInv, NEW h \in Hosts, CopyFirst(h)
    PROVE  MntInv'
<1>0. /\ MntTypes /\ mntPc[h] = "copy" /\ UNCHANGED <<live, tips, uploaded, fsck, local, job>>
      /\ HostOK(local[h], scratch[h], mntPc[h], job[h]) /\ ScratchOK(scratch[h])
      /\ local[h] \in Copies /\ scratch[h] \in Scratches /\ job[h] \in Jobs
  BY HostTypes DEF MntInv, CopyFirst, HostOK
<1>1. /\ Behind(local[h].live, local[h].tips) /\ scratch[h].phase = "absent" /\ job[h].live.head <= local[h].live.head
      /\ local[h].live \in Manifests /\ local[h].tips \in SUBSET Objs /\ local[h].packs \in SUBSET PackSums
  BY <1>0 DEF HostOK, RebuildOK, Reading, Copying, Copies
<1>2. live.head \in Nat /\ local[h].live.head \in Nat /\ job[h].live.head \in Nat
  BY <1>0, Counts
<1>2a. job[h].live.head = live.head => local[h].live.head = live.head
  <2>1. local[h].live.head <= live.head
    BY <1>1 DEF Behind
  <2> QED
    BY <1>1, <1>2, <2>1
<1>3. PICK pc \in {"copy refs", "copy packs"}, s \in Scratches :
          /\ mntPc' = [mntPc EXCEPT ![h] = pc] /\ scratch' = [scratch EXCEPT ![h] = s]
          /\ s.phase = "absent" /\ s.head = scratch[h].head /\ (pc = "copy packs" => s.tips = local[h].tips)
  <2>1. CASE scratch' = [scratch EXCEPT ![h].packs = local[h].packs] /\ mntPc' = [mntPc EXCEPT ![h] = "copy refs"]
    <3> DEFINE s == [scratch[h] EXCEPT !.packs = local[h].packs]
    <3>1. s \in Scratches /\ s.phase = "absent" /\ s.head = scratch[h].head
      BY <1>0, <1>1 DEF Scratches
    <3>2. scratch' = [scratch EXCEPT ![h] = s]
      BY <1>0, <2>1 DEF MntTypes, Scratches
    <3> HIDE DEF s
    <3> QED
      BY <2>1, <3>1, <3>2
  <2>2. CASE scratch' = [scratch EXCEPT ![h].tips = local[h].tips] /\ mntPc' = [mntPc EXCEPT ![h] = "copy packs"]
    <3> DEFINE s == [scratch[h] EXCEPT !.tips = local[h].tips]
    <3>1. s \in Scratches /\ s.phase = "absent" /\ s.head = scratch[h].head /\ s.tips = local[h].tips
      BY <1>0, <1>1 DEF Scratches
    <3>2. scratch' = [scratch EXCEPT ![h] = s]
      BY <1>0, <2>2 DEF MntTypes, Scratches
    <3> HIDE DEF s
    <3> QED
      BY <2>2, <3>1, <3>2
  <2> QED
    BY <2>1, <2>2 DEF CopyFirst
<1>4. pc \in UnitPcs /\ pc \in Copying /\ pc \in Reading /\ pc \notin Building
  BY DEF UnitPcs, Copying, Reading, Building
<1>5. NowAt(h, local[h], s, pc, job[h])
  BY <1>0, <1>3, <1>4, StepTo
<1>6. HostOK(local[h], s, pc, job[h])
  <2>1. Covered(local[h].tips, job[h].live.head)
    BY <1>0, <1>1, <1>2, BehindCovers
  <2>2. job[h].live.head = live.head => local[h].tips = tips
    BY <1>1, <1>2a DEF Behind
  <2>3. RebuildOK(local[h], s, pc, job[h])
    BY <1>1, <1>3, <1>4, <2>1, <2>2 DEF RebuildOK
  <2>4. PublishOK(pc, job[h]) /\ AuditOK(local[h], pc, job[h])
    BY DEF PublishOK, AuditOK
  <2>5. ScratchOK(s)
    BY <1>0, <1>3 DEF ScratchOK
  <2> QED
    BY <2>3, <2>4, <2>5 DEF HostOK
<1> QED
  BY <1>0, <1>5, <1>6, QuietStep

LEMMA CopyRestStep ==
    ASSUME OneMaintainer, MntInv, NEW h \in Hosts, ScratchCopied(h)
    PROVE  MntInv'
<1>0. /\ MntTypes /\ mntPc[h] \in {"copy refs", "copy packs"} /\ UNCHANGED <<live, tips, uploaded, fsck, local, job>>
      /\ HostOK(local[h], scratch[h], mntPc[h], job[h])
      /\ local[h] \in Copies /\ scratch[h] \in Scratches /\ job[h] \in Jobs
      /\ mntPc' = [mntPc EXCEPT ![h] = "copied"]
  BY HostTypes DEF MntInv, ScratchCopied, CopyRest
<1>1. /\ Behind(local[h].live, local[h].tips) /\ job[h].live.head <= local[h].live.head
      /\ local[h].live \in Manifests /\ local[h].tips \in SUBSET Objs /\ local[h].packs \in SUBSET PackSums
  BY <1>0 DEF HostOK, RebuildOK, Reading, Copying, Copies
<1>2. live.head \in Nat /\ local[h].live.head \in Nat /\ job[h].live.head \in Nat /\ local[h].live.head <= live.head
  BY <1>0, <1>1, Counts DEF Behind
<1>3. PICK t, p : /\ t = IF mntPc[h] = "copy refs" THEN local[h].tips ELSE scratch[h].tips
                  /\ p = IF mntPc[h] = "copy packs" THEN local[h].packs ELSE scratch[h].packs
  OBVIOUS
<1>4. t \in SUBSET Objs /\ p \in SUBSET PackSums
  BY <1>0, <1>1, <1>3 DEF Scratches
<1>5. PICK s \in Scratches : scratch' = [scratch EXCEPT ![h] = s] /\ s.phase = "copied" /\ s.head = job[h].live.head /\ s.tips = t
  <2> DEFINE s == [scratch[h] EXCEPT !.tips = t, !.packs = p, !.phase = "copied", !.head = job[h].live.head]
  <2>1. s \in Scratches /\ s.phase = "copied" /\ s.head = job[h].live.head /\ s.tips = t
    BY <1>0, <1>2, <1>4 DEF Scratches
  <2>2. scratch' = [scratch EXCEPT ![h] = s]
    BY <1>0, <1>3 DEF MntTypes, Scratches, ScratchCopied, CopyRest
  <2> HIDE DEF s
  <2> QED
    BY <2>1, <2>2
<1>6. Covered(t, job[h].live.head) /\ (job[h].live.head = live.head => t = tips)
  <2>1. CASE mntPc[h] = "copy refs"
    <3>1. Covered(local[h].tips, job[h].live.head)
      BY <1>0, <1>1, <1>2, BehindCovers
    <3>2. job[h].live.head = live.head => local[h].live.head = live.head
      BY <1>1, <1>2
    <3>3. job[h].live.head = live.head => local[h].tips = tips
      BY <1>1, <3>2 DEF Behind
    <3> QED
      BY <1>3, <2>1, <3>1, <3>3
  <2>2. CASE mntPc[h] = "copy packs"
    BY <1>0, <1>3, <2>2 DEF HostOK, RebuildOK
  <2> QED
    BY <1>0, <2>1, <2>2
<1>7. "copied" \in UnitPcs /\ "copied" \in Building
  BY DEF UnitPcs, Reading, Building
<1>8. NowAt(h, local[h], s, "copied", job[h])
  BY <1>0, <1>5, <1>7, StepTo
<1>9. HostOK(local[h], s, "copied", job[h])
  <2>1. RebuildOK(local[h], s, "copied", job[h])
    BY <1>1, <1>5, <1>6, <1>7 DEF RebuildOK, Copying
  <2>2. PublishOK("copied", job[h]) /\ AuditOK(local[h], "copied", job[h])
    BY DEF PublishOK, AuditOK
  <2>3. job[h].live.head <= live.head
    BY <1>1, <1>2
  <2>4. ScratchOK(s)
    BY <1>5, <1>6, <2>3 DEF ScratchOK
  <2> QED
    BY <2>1, <2>2, <2>4 DEF HostOK
<1> QED
  BY <1>0, <1>8, <1>9, QuietStep

\* The repack of the scratch copy: the base holds what its refs reach.
LEMMA FullRepackStep ==
    ASSUME OneMaintainer, MntInv, NEW h \in Hosts, FullRepack(h)
    PROVE  MntInv'
<1>0. /\ MntTypes /\ mntPc[h] = "copied" /\ UNCHANGED <<live, tips, uploaded, fsck>>
      /\ HostOK(local[h], scratch[h], mntPc[h], job[h]) /\ ScratchOK(scratch[h])
      /\ local[h] \in Copies /\ scratch[h] \in Scratches /\ job[h] \in Jobs
  BY HostTypes DEF MntInv, FullRepack, HostOK
<1>1. CASE Finish(h) /\ UNCHANGED scratch
  BY <1>0, <1>1, FinishStep
<1>2. CASE ~(Finish(h) /\ UNCHANGED scratch)
  <2>1. PICK b : b = Pack("base", scratch[h].tips, 1)
    OBVIOUS
  <2>2. /\ scratch' = [scratch EXCEPT ![h].packs = {b}, ![h].new = <<b>>, ![h].phase = "repacked"]
        /\ mntPc' = [mntPc EXCEPT ![h] = "repacked"] /\ UNCHANGED <<job, local>>
    BY <1>2, <2>1 DEF FullRepack
  <2>3. b \in MadePacks /\ b \in PackSums /\ <<b>> \in Seq(MadePacks) /\ <<b>> # <<>> /\ <<b>>[1] = b
    <3>1. scratch[h].tips \in SUBSET Objs
      BY <1>0 DEF Scratches
    <3>2. b \in MadePacks /\ b \in PackSums
      BY <2>1, <3>1, PackTyped
    <3> QED
      BY <3>2
  <2>4. PICK s \in Scratches : /\ scratch' = [scratch EXCEPT ![h] = s] /\ s.phase = "repacked" /\ s.new = <<b>>
                               /\ s.tips = scratch[h].tips /\ s.head = scratch[h].head
    <3> DEFINE s == [scratch[h] EXCEPT !.packs = {b}, !.new = <<b>>, !.phase = "repacked"]
    <3>1. s \in Scratches /\ s.phase = "repacked" /\ s.new = <<b>> /\ s.tips = scratch[h].tips /\ s.head = scratch[h].head
      BY <1>0, <2>3 DEF Scratches
    <3>2. scratch' = [scratch EXCEPT ![h] = s]
      BY <1>0, <2>2 DEF MntTypes, Scratches
    <3> HIDE DEF s
    <3> QED
      BY <3>1, <3>2
  <2>5. "repacked" \in UnitPcs /\ "repacked" \in Building /\ "copied" \in Building /\ "copied" \in Reading
    BY DEF UnitPcs, Reading, Building
  <2>6. NowAt(h, local[h], s, "repacked", job[h])
    BY <1>0, <2>2, <2>4, <2>5, StepTo
  <2>7. HostOK(local[h], s, "repacked", job[h])
    <3>1. RebuildOK(local[h], s, "repacked", job[h])
      BY <1>0, <2>4, <2>5 DEF HostOK, RebuildOK, Copying
    <3>2. PublishOK("repacked", job[h]) /\ AuditOK(local[h], "repacked", job[h])
      BY DEF PublishOK, AuditOK
    <3>3. s.new # <<>> /\ s.new[1] = Pack("base", s.tips, 1)
      BY <2>1, <2>3, <2>4
    <3>4. scratch[h].phase = "copied"
      BY <1>0, <2>5 DEF HostOK, RebuildOK
    <3>5. ScratchOK(s)
      BY <1>0, <2>4, <3>3, <3>4 DEF ScratchOK
    <3> QED
      BY <3>1, <3>2, <3>5 DEF HostOK
  <2> QED
    BY <1>0, <2>6, <2>7, QuietStep
<1> QED
  BY <1>1, <1>2

LEMMA HistoryPackStep ==
    ASSUME OneMaintainer, MntInv, NEW h \in Hosts, HistoryPack(h)
    PROVE  MntInv'
<1>0. /\ MntTypes /\ mntPc[h] = "repacked" /\ UNCHANGED <<live, tips, uploaded, fsck, local, job>>
      /\ HostOK(local[h], scratch[h], mntPc[h], job[h]) /\ ScratchOK(scratch[h])
      /\ local[h] \in Copies /\ scratch[h] \in Scratches /\ job[h] \in Jobs
      /\ mntPc' = [mntPc EXCEPT ![h] = "history"]
  BY HostTypes DEF MntInv, HistoryPack, HostOK
<1>1. PICK written \in BOOLEAN :
          scratch' = [scratch EXCEPT
              ![h].new = IF written THEN Append(@, write_history_pack(@[1])) ELSE @, ![h].phase = "history"]
  BY DEF HistoryPack
<1>2. PICK old, b, hp, n : /\ old = scratch[h].new /\ b = old[1] /\ hp = write_history_pack(b)
                           /\ n = IF written THEN Append(old, hp) ELSE old
  OBVIOUS
<1>3. old \in Seq(MadePacks) /\ old # <<>> /\ b = Pack("base", scratch[h].tips, 1) /\ scratch[h].phase = "repacked"
  <2>1. "repacked" \in Building
    BY DEF Building
  <2>2. scratch[h].phase = "repacked"
    BY <1>0, <2>1 DEF HostOK, RebuildOK
  <2> QED
    BY <1>0, <1>2, <2>2 DEF ScratchOK, Scratches
<1>4. hp \in MadePacks
  <2>1. scratch[h].tips \in SUBSET Objs
    BY <1>0 DEF Scratches
  <2>2. b.objs = scratch[h].tips
    BY <1>3, <2>1, PackTyped
  <2> QED
    BY <1>2, <2>1, <2>2, PackTyped DEF write_history_pack
<1>5. n \in Seq(MadePacks) /\ n # <<>> /\ n[1] = b
  <2>1. Append(old, hp) \in Seq(MadePacks) /\ Append(old, hp) # <<>> /\ Append(old, hp)[1] = old[1]
    <3>1. Len(old) > 0 /\ Len(old) \in Nat
      BY <1>3
    <3>2. Len(Append(old, hp)) = Len(old) + 1 /\ Append(old, hp) \in Seq(MadePacks)
      BY <1>3, <1>4
    <3>3. Append(old, hp)[1] = old[1]
      BY <1>3, <1>4, <3>1
    <3> QED
      BY <3>1, <3>2, <3>3
  <2>2. n = Append(old, hp) \/ n = old
    BY <1>2
  <2> QED
    BY <1>2, <1>3, <2>1, <2>2
<1>6. PICK s \in Scratches : /\ scratch' = [scratch EXCEPT ![h] = s] /\ s.phase = "history" /\ s.new = n
                             /\ s.tips = scratch[h].tips /\ s.head = scratch[h].head
  <2> DEFINE s == [scratch[h] EXCEPT !.new = n, !.phase = "history"]
  <2>1. s \in Scratches /\ s.phase = "history" /\ s.new = n /\ s.tips = scratch[h].tips /\ s.head = scratch[h].head
    BY <1>0, <1>5 DEF Scratches
  <2>2. scratch' = [scratch EXCEPT ![h] = s]
    BY <1>0, <1>1, <1>2 DEF MntTypes, Scratches
  <2> HIDE DEF s
  <2> QED
    BY <2>1, <2>2
<1>7. "history" \in UnitPcs /\ "history" \in Building /\ "repacked" \in Building /\ "repacked" \in Reading
  BY DEF UnitPcs, Reading, Building
<1>8. NowAt(h, local[h], s, "history", job[h])
  BY <1>0, <1>6, <1>7, StepTo
<1>9. HostOK(local[h], s, "history", job[h])
  <2>1. RebuildOK(local[h], s, "history", job[h])
    BY <1>0, <1>6, <1>7 DEF HostOK, RebuildOK, Copying
  <2>2. PublishOK("history", job[h]) /\ AuditOK(local[h], "history", job[h])
    BY DEF PublishOK, AuditOK
  <2>3. s.new # <<>> /\ s.new[1] = Pack("base", s.tips, 1)
    BY <1>3, <1>5, <1>6
  <2>4. ScratchOK(s)
    BY <1>0, <1>3, <1>6, <2>3 DEF ScratchOK
  <2> QED
    BY <2>1, <2>2, <2>4 DEF HostOK
<1> QED
  BY <1>0, <1>8, <1>9, QuietStep

\* The new base and what it supersedes: what is not in the base was pushed after the copy.
LEMMA InstallStep ==
    ASSUME OneMaintainer, MntInv, NEW h \in Hosts, InstallBase(h)
    PROVE  MntInv'
<1>0. /\ MntTypes /\ LiveOK /\ mntPc[h] = "history" /\ UNCHANGED <<live, tips, uploaded, fsck, scratch>>
      /\ HostOK(local[h], scratch[h], mntPc[h], job[h]) /\ ScratchOK(scratch[h])
      /\ local[h] \in Copies /\ scratch[h] \in Scratches /\ job[h] \in Jobs
      /\ mntPc' = [mntPc EXCEPT ![h] = "publish"]
  BY HostTypes DEF MntInv, InstallBase, HostOK
<1>1. PICK new, old, names, sup : /\ new = scratch[h].new /\ old = {l \in local[h].live.packs : l.seq <= scratch[h].head}
                                  /\ names = {new[k] : k \in DOMAIN new} /\ sup = {l.sum : l \in old} \ names
  OBVIOUS
<1>2. /\ local' = [local EXCEPT ![h].packs = @ \cup names, ![h].guard = TRUE]
      /\ job' = [job EXCEPT ![h].live = local[h].live, ![h].new = new, ![h].tier = 2, ![h].sup = sup]
  BY <1>1 DEF InstallBase
<1>3. /\ scratch[h].phase = "history" /\ Covered(scratch[h].tips, scratch[h].head) /\ Behind(local[h].live, local[h].tips)
      /\ new # <<>> /\ new[1] = Pack("base", scratch[h].tips, 1) /\ new \in Seq(MadePacks)
  <2>1. "history" \in Building /\ "history" \in Reading
    BY DEF Building, Reading
  <2>2. scratch[h].phase = "history" /\ Covered(scratch[h].tips, scratch[h].head) /\ Behind(local[h].live, local[h].tips)
    BY <1>0, <2>1 DEF HostOK, RebuildOK
  <2> QED
    BY <1>0, <1>1, <2>2 DEF ScratchOK, Scratches
<1>4. PICK b : b = new[1] /\ Head(new) = b /\ b \in MadePacks /\ b.kind = "base" /\ b.objs = scratch[h].tips
  <2>1. scratch[h].tips \in SUBSET Objs
    BY <1>0 DEF Scratches
  <2>2. Head(new) = new[1]
    BY <1>3
  <2> QED
    BY <1>3, <2>1, <2>2, PackTyped
<1>5. names \in SUBSET PackSums /\ sup \in SUBSET PackSums /\ local[h].live \in Manifests
  <2>1. names \in SUBSET PackSums
    BY <1>1, <1>3 DEF MadePacks
  <2>2. local[h].live \in Manifests
    BY <1>0 DEF Copies
  <2>3. sup \in SUBSET PackSums
    BY <1>1, <2>2 DEF Manifests, Listings
  <2> QED
    BY <2>1, <2>2, <2>3
<1>6. PICK c \in Copies : local' = [local EXCEPT ![h] = c]
  <2> DEFINE c == [local[h] EXCEPT !.packs = local[h].packs \cup names, !.guard = TRUE]
  <2>1. c \in Copies
    BY <1>0, <1>5 DEF Copies
  <2>2. local' = [local EXCEPT ![h] = c]
    BY <1>0, <1>2 DEF MntTypes, Copies
  <2> HIDE DEF c
  <2> QED
    BY <2>1, <2>2
<1>7. PICK j \in Jobs : job' = [job EXCEPT ![h] = j] /\ j.new = new /\ j.sup = sup
  <2> DEFINE j == [job[h] EXCEPT !.live = local[h].live, !.new = new, !.tier = 2, !.sup = sup]
  <2>1. j \in Jobs /\ j.new = new /\ j.sup = sup
    BY <1>0, <1>3, <1>5 DEF Jobs
  <2>2. job' = [job EXCEPT ![h] = j]
    BY <1>0, <1>2 DEF MntTypes, Jobs
  <2> HIDE DEF j
  <2> QED
    BY <2>1, <2>2
<1>8. NowAt(h, c, scratch[h], "publish", j)
  <2>1. "publish" \in UnitPcs
    BY DEF UnitPcs
  <2> QED
    BY <1>0, <1>6, <1>7, <2>1, StepTo
<1>9. \A p \in sup : \E l \in live.packs : p = l.sum /\ l.seq <= scratch[h].head
  <2>1. local[h].live.packs \subseteq live.packs
    BY <1>3 DEF Behind
  <2> QED
    BY <1>1, <2>1
<1>10. Uploads(sup)
  <2>1. \A p \in sup : p \in Sums(live)
    BY <1>9, SumsAre
  <2> QED
    BY <1>0, <2>1 DEF LiveOK, Uploads
<1>11. Kept(b, sup)
  <2> SUFFICES ASSUME NEW o \in tips
               PROVE  o \in ObjectsIn({b} \cup (Sums(live) \ sup))
    BY DEF Kept
  <2>1. CASE o \in scratch[h].tips
    BY <1>4, <2>1, ObjectsAre
  <2>2. CASE o \notin scratch[h].tips
    <3>1. PICK l \in live.packs : l.seq > scratch[h].head /\ l.sum.kind = "push" /\ o \in l.sum.objs
      BY <1>3, <2>2 DEF Covered
    <3>2. l.sum \notin sup
      <4> SUFFICES ASSUME l.sum \in sup
                   PROVE  FALSE
        OBVIOUS
      <4>1. PICK k \in live.packs : l.sum = k.sum /\ k.seq <= scratch[h].head
        BY <1>9
      <4>2. l = k
        BY <1>0, <3>1, <4>1 DEF LiveOK
      <4>3. l.seq \in Nat /\ scratch[h].head \in Nat
        BY <1>0, <3>1 DEF MntTypes, Manifests, Listings, Scratches
      <4> QED
        BY <3>1, <4>1, <4>2, <4>3
    <3>3. l.sum \in Sums(live) \ sup
      BY <3>1, <3>2, SumsAre
    <3> QED
      BY <3>1, <3>3, ObjectsAre
  <2> QED
    BY <2>1, <2>2
<1>12. HostOK(c, scratch[h], "publish", j)
  <2>1. RebuildOK(c, scratch[h], "publish", j) /\ AuditOK(c, "publish", j)
    BY DEF RebuildOK, AuditOK, Reading, Copying, Building
  <2>2. PublishOK("publish", j)
    BY <1>4, <1>7, <1>10, <1>11 DEF PublishOK
  <2> QED
    BY <1>0, <2>1, <2>2 DEF HostOK
<1> QED
  BY <1>0, <1>8, <1>12, QuietStep

-----------------------------------------------------------------------------
(* Ends, audits and fetches of a repair.                                    *)

\* The unit ends or is cut short; the audit; the fetch of a repair.
LEMMA EndStep ==
    ASSUME OneMaintainer, MntInv, NEW h \in Hosts, PublishFails(h) \/ EndCompact(h) \/ UnitCrash(h)
    PROVE  MntInv'
<1>0. MntTypes /\ ScratchOK(scratch[h]) /\ Finish(h) /\ UNCHANGED <<live, tips, uploaded, fsck>> /\ scratch[h] \in Scratches
  BY HostTypes DEF MntInv, HostOK, PublishFails, EndCompact, UnitCrash
<1>1. scratch' = scratch \/ scratch' = [scratch EXCEPT ![h] = NoScratch]
  BY DEF PublishFails, EndCompact, UnitCrash
<1>2. ScratchOK(NoScratch) /\ NoScratch \in Scratches
  BY <1>0, NothingYet, Counts DEF ScratchOK
<1> QED
  BY <1>0, <1>1, <1>2, FinishStep

LEMMA AuditStep ==
    ASSUME OneMaintainer, MntInv, NEW h \in Hosts, FsckRun(h) \/ RepairFetch(h)
    PROVE  MntInv'
<1>0. /\ MntTypes /\ ScratchOK(scratch[h]) /\ UNCHANGED <<live, tips, uploaded, fsck, scratch>>
      /\ local[h] \in Copies /\ scratch[h] \in Scratches /\ job[h] \in Jobs
  BY HostTypes DEF MntInv, HostOK, FsckRun, RepairFetch
<1>1. CASE Finish(h)
  BY <1>0, <1>1, FinishStep
<1>2. CASE FsckRun(h)
  <2>1. PICK c \in Copies : c = Synced(h) /\ c.live = live /\ c.tips = tips
    BY SyncedCopy
  <2>2. c.packs = Sums(live)
    <3>1. ~local[h].guard
      BY <1>2 DEF MntInv, HostOK, AuditOK, FsckRun
    <3> QED
      BY <1>0, <2>1, <3>1 DEF Synced, Copies
  <2>3. PICK m : m = tips \ ObjectsIn(c.packs)
    OBVIOUS
  <2>4. local' = [local EXCEPT ![h] = c] /\ mntPc' = [mntPc EXCEPT ![h] = "fsck write"]
    BY <1>2, <2>1 DEF FsckRun
  <2>5. job' = [job EXCEPT ![h].missing = m]
    <3>1. local'[h] = c
      BY <1>0, <2>4 DEF MntTypes
    <3> QED
      BY <1>2, <2>3, <3>1 DEF FsckRun
  <2>6. m \in SUBSET Objs
    BY <1>0, <2>3 DEF MntTypes
  <2>7. PICK j \in Jobs : job' = [job EXCEPT ![h] = j] /\ j.missing = m
    <3> DEFINE j == [job[h] EXCEPT !.missing = m]
    <3>1. j \in Jobs /\ j.missing = m
      BY <1>0, <2>6 DEF Jobs
    <3>2. job' = [job EXCEPT ![h] = j]
      BY <1>0, <2>5 DEF MntTypes, Jobs
    <3> HIDE DEF j
    <3> QED
      BY <3>1, <3>2
  <2>8. "fsck write" \in UnitPcs
    BY DEF UnitPcs
  <2>9. NowAt(h, c, scratch[h], "fsck write", j)
    BY <1>0, <2>4, <2>7, <2>8, StepTo
  <2>10. HostOK(c, scratch[h], "fsck write", j)
    <3>1. RebuildOK(c, scratch[h], "fsck write", j) /\ PublishOK("fsck write", j)
      BY DEF RebuildOK, PublishOK, Reading, Copying, Building
    <3>2. Absent \subseteq m
      BY <2>2, <2>3 DEF Absent
    <3>3. AuditOK(c, "fsck write", j)
      BY <2>7, <3>2 DEF AuditOK
    <3> QED
      BY <1>0, <3>1, <3>3 DEF HostOK
  <2> QED
    BY <1>0, <2>9, <2>10, QuietStep
<1>3. CASE RepairFetch(h) /\ ~Finish(h)
  <2>1. /\ fsck.missing # {} /\ job' = [job EXCEPT ![h].report = fsck] /\ local' = local
        /\ mntPc' = [mntPc EXCEPT ![h] = "repair publish"] /\ fsck \in Reports
    BY <1>0, <1>3 DEF RepairFetch, MntTypes
  <2>2. PICK j \in Jobs : job' = [job EXCEPT ![h] = j] /\ j.report = fsck
    <3> DEFINE j == [job[h] EXCEPT !.report = fsck]
    <3>1. j \in Jobs /\ j.report = fsck
      BY <1>0, <2>1 DEF Jobs
    <3>2. job' = [job EXCEPT ![h] = j]
      BY <1>0, <2>1 DEF MntTypes, Jobs
    <3> HIDE DEF j
    <3> QED
      BY <3>1, <3>2
  <2>3. "repair publish" \in UnitPcs
    BY DEF UnitPcs
  <2>4. NowAt(h, local[h], scratch[h], "repair publish", j)
    BY <1>0, <2>1, <2>2, <2>3, StepTo
  <2>5. HostOK(local[h], scratch[h], "repair publish", j)
    <3>1. RebuildOK(local[h], scratch[h], "repair publish", j) /\ PublishOK("repair publish", j)
      BY DEF RebuildOK, PublishOK, Reading, Copying, Building
    <3>2. AuditOK(local[h], "repair publish", j)
      BY <2>1, <2>2 DEF AuditOK
    <3> QED
      BY <1>0, <3>1, <3>2 DEF HostOK
  <2> QED
    BY <1>0, <2>4, <2>5, QuietStep
<1> QED
  BY <1>1, <1>2, <1>3

-----------------------------------------------------------------------------
(* Pushes and deletions of refs.                                            *)

\* The bucket after a push or the deletion of a ref: w lists the packs of before and at most one new one.
Landed(w, t) ==
    /\ w \in Manifests /\ w.head = live.head + 1 /\ live.packs \subseteq w.packs /\ t \in SUBSET Objs
    /\ \A l \in w.packs \ live.packs : l.seq = w.head /\ l.sum.kind = "push" /\ l.sum \notin uploaded
    /\ \A l, k \in w.packs \ live.packs : l = k
    /\ \A o \in t \ tips : \E l \in w.packs \ live.packs : o \in l.sum.objs

\* Pushes and deletions of refs lose nothing, and leave copies behind.
LEMMA LandedStep ==
    ASSUME MntInv, NEW w, NEW t, Landed(w, t), live' = w, tips' = t,
           uploaded' = uploaded \cup {l.sum : l \in w.packs \ live.packs},
           UNCHANGED <<fsck, local, scratch, mntPc, job>>
    PROVE  MntInv'
<1>0. /\ MntTypes /\ LiveOK /\ FsckOK /\ live.head \in Nat /\ w \in Manifests /\ w.head = live.head + 1
      /\ live.packs \subseteq w.packs /\ \A l \in w.packs : l.seq \in Nat /\ l.sum \in PackSums
  BY DEF MntInv, MntTypes, Landed, Manifests, Listings
<1>1. MntTypes'
  <2>1. uploaded' \subseteq PackSums
    BY <1>0 DEF MntTypes
  <2> QED
    BY <1>0, <2>1 DEF MntTypes, Landed
<1>2. ASSUME NEW x
      PROVE  /\ x \in ObjectsIn(Sums(live)) => x \in ObjectsIn(Sums(w))
             /\ x \in ObjectsIn(Sums(w)) => \/ x \in ObjectsIn(Sums(live))
                                            \/ \E l \in w.packs \ live.packs : x \in l.sum.objs
  <2>1. CASE x \in ObjectsIn(Sums(live))
    <3>1. PICK l \in live.packs : l.sum.kind # "history" /\ x \in l.sum.objs
      BY <2>1, ObjectsAre, SumsAre
    <3>2. l.sum \in Sums(w)
      BY <1>0, <3>1, SumsAre
    <3> QED
      BY <2>1, <3>1, <3>2, ObjectsAre
  <2>2. CASE x \in ObjectsIn(Sums(w)) /\ x \notin ObjectsIn(Sums(live))
    <3>1. PICK l \in w.packs : l.sum.kind # "history" /\ x \in l.sum.objs
      BY <2>2, ObjectsAre, SumsAre
    <3>2. l \notin live.packs
      BY <2>2, <3>1, ObjectsAre, SumsAre
    <3> QED
      BY <2>2, <3>1, <3>2
  <2> QED
    BY <2>1, <2>2
<1>3. ASSUME NEW l \in w.packs \ live.packs, NEW x \in l.sum.objs
      PROVE  x \in ObjectsIn(Sums(w))
  <2>1. l.sum \in Sums(w) /\ l.sum.kind # "history"
    BY SumsAre DEF Landed
  <2> QED
    BY <2>1, ObjectsAre
<1>4. Absent' \subseteq Absent
  <2> SUFFICES ASSUME NEW x \in t, x \notin ObjectsIn(Sums(w))
               PROVE  x \in tips /\ x \notin ObjectsIn(Sums(live))
    BY DEF Absent
  <2> QED
    BY <1>2, <1>3 DEF Landed
<1>5. LiveOK'
  <2>1. w.head > 0 /\ \A l \in w.packs : l.seq <= w.head
    <3>1. \A l \in live.packs : l.seq <= live.head /\ l.seq \in Nat
      BY <1>0 DEF LiveOK
    <3> QED
      BY <1>0, <3>1 DEF Landed
  <2>2. \A l \in live.packs : l.sum.kind = "push" => l.sum \in uploaded
    BY <1>0, SumsAre DEF LiveOK, Uploads
  <2>3. \A l, k \in w.packs : l.sum.kind = "push" /\ l.sum = k.sum => l = k
    BY <1>0, <2>2 DEF LiveOK, Landed
  <2>4. Uploads(Sums(live))'
    <3>1. \A l \in w.packs : l.sum.kind = "push" => l.sum \in uploaded'
      BY <2>2
    <3>2. \A p \in Sums(w) : p.kind = "push" => p \in uploaded'
      BY <3>1, SumsAre
    <3> QED
      BY <3>2 DEF Uploads
  <2>5. NoObjectLost'
    <3> SUFFICES ASSUME NEW x \in Absent', x \in ObjectsIn(uploaded')
                 PROVE  FALSE
      BY DEF NoObjectLost
    <3>1. x \in Absent /\ x \notin ObjectsIn(uploaded) /\ x \notin ObjectsIn(Sums(w))
      BY <1>0, <1>4 DEF LiveOK, NoObjectLost, Absent
    <3>2. PICK p \in uploaded' : p.kind # "history" /\ x \in p.objs
      BY ObjectsAre
    <3>3. p \notin uploaded
      BY <3>1, <3>2, ObjectsAre
    <3>4. PICK l \in w.packs \ live.packs : p = l.sum
      BY <3>2, <3>3
    <3> QED
      BY <1>3, <3>1, <3>2, <3>4
  <2> QED
    BY <2>1, <2>3, <2>4, <2>5 DEF LiveOK
<1>6. FsckOK'
  <2>1. fsck.repaired <= w.head
    BY <1>0 DEF FsckOK, MntTypes, Reports
  <2> QED
    BY <1>0, <1>4, <2>1 DEF FsckOK
<1>7. ASSUME NEW m \in Manifests, NEW r, Behind(m, r)
      PROVE  Behind(m, r)'
  <2>0. m.head \in Nat /\ m.head <= live.head /\ m.packs \subseteq live.packs
    BY <1>7 DEF Behind, Manifests
  <2>1. m.head <= w.head /\ m.head # w.head
    BY <1>0, <2>0
  <2>2. ASSUME NEW l \in w.packs \ m.packs
        PROVE  l.seq > m.head /\ l.sum.kind = "push"
    <3>1. CASE l \in live.packs
      BY <1>7, <3>1 DEF Behind
    <3>2. CASE l \notin live.packs
      <4>1. l.seq = w.head /\ l.sum.kind = "push"
        BY <3>2 DEF Landed
      <4> QED
        BY <1>0, <2>0, <4>1
    <3> QED
      BY <3>1, <3>2
  <2>3. ASSUME NEW x \in t \ r
        PROVE  \E l \in w.packs \ m.packs : x \in l.sum.objs
    BY <1>0, <1>7, <2>0 DEF Behind, Landed
  <2> QED
    BY <1>0, <1>7, <2>0, <2>1, <2>2, <2>3 DEF Behind
<1>8. ASSUME NEW r, NEW n \in Nat, n <= live.head, Covered(r, n)
      PROVE  Covered(r, n)'
  <2>1. \A x \in t \ r : \E l \in w.packs : l.seq > n /\ l.sum.kind = "push" /\ x \in l.sum.objs
    <3> TAKE x \in t \ r
    <3>1. CASE x \in tips
      BY <1>0, <1>8, <3>1 DEF Covered
    <3>2. CASE x \notin tips
      <4>1. PICK l \in w.packs \ live.packs : x \in l.sum.objs
        BY <3>2 DEF Landed
      <4>2. l.seq = w.head /\ l.sum.kind = "push"
        BY <4>1 DEF Landed
      <4> QED
        BY <1>0, <1>8, <4>1, <4>2
    <3> QED
      BY <3>1, <3>2
  <2> QED
    BY <2>1 DEF Covered
<1>9. ASSUME NEW p, NEW sup, Uploads(sup), Kept(p, sup)
      PROVE  Kept(p, sup)'
  <2>1. \A x \in t \cap ObjectsIn(Sums(w)) : x \in ObjectsIn({p} \cup (Sums(w) \ sup))
    <3> TAKE x \in t \cap ObjectsIn(Sums(w))
    <3>1. CASE \E l \in w.packs \ live.packs : x \in l.sum.objs
      <4>1. PICK l \in w.packs \ live.packs : x \in l.sum.objs
        BY <3>1
      <4>2. l.sum \in Sums(w) /\ l.sum.kind # "history" /\ l.sum \notin sup
        BY <1>9, SumsAre DEF Landed, Uploads
      <4> QED
        BY <4>1, <4>2, ObjectsAre
    <3>2. CASE ~\E l \in w.packs \ live.packs : x \in l.sum.objs
      <4>1. x \in tips \cap ObjectsIn(Sums(live))
        BY <1>2, <3>2 DEF Landed
      <4>2. PICK q \in {p} \cup (Sums(live) \ sup) : q.kind # "history" /\ x \in q.objs
        BY <1>9, <4>1, ObjectsAre DEF Kept
      <4>3. q \in {p} \cup (Sums(w) \ sup)
        BY <1>0, <4>2, SumsAre
      <4> QED
        BY <4>2, <4>3, ObjectsAre
    <3> QED
      BY <3>1, <3>2
  <2> QED
    BY <2>1 DEF Kept
<1>10. ASSUME NEW h \in Hosts
       PROVE  HostOK(local[h], scratch[h], mntPc[h], job[h])'
  <2>0. /\ HostOK(local[h], scratch[h], mntPc[h], job[h])
        /\ scratch[h].head \in Nat /\ local[h].live \in Manifests /\ job[h].live \in Manifests
        /\ job[h].live.head \in Nat /\ local[h].live.head \in Nat /\ job[h].report.repaired \in Nat
    <3>1. job[h].report \in Reports /\ job[h].live \in Manifests /\ local[h].live \in Manifests
      BY <1>0, HostTypes DEF Jobs, Copies
    <3> QED
      BY <1>0, <3>1, Counts DEF MntInv, Reports
  <2>1. PICK c, s, pc, j : c = local[h] /\ s = scratch[h] /\ pc = mntPc[h] /\ j = job[h]
    OBVIOUS
  <2>2. ScratchOK(scratch[h])'
    <3>1. s.head <= w.head /\ s.head # w.head
      BY <1>0, <2>0, <2>1 DEF HostOK, ScratchOK
    <3> QED
      BY <2>0, <2>1, <3>1 DEF HostOK, ScratchOK
  <2>3. RebuildOK(local[h], scratch[h], mntPc[h], job[h])'
    <3>1. pc \in Reading => Behind(c.live, c.tips)'
      BY <1>7, <2>0, <2>1 DEF HostOK, RebuildOK
    <3>2. pc \in Copying => j.live.head <= live.head
      <4>1. pc \in Copying => j.live.head <= c.live.head /\ c.live.head <= live.head
        BY <2>0, <2>1 DEF HostOK, RebuildOK, Behind, Reading
      <4> QED
        BY <1>0, <2>0, <2>1, <4>1
    <3>3. pc = "copy packs" => Covered(s.tips, j.live.head)' /\ j.live.head # w.head
      <4>1. pc = "copy packs" => Covered(s.tips, j.live.head) /\ j.live.head <= live.head
        BY <2>0, <2>1, <3>2 DEF HostOK, RebuildOK, Copying
      <4>2. j.live.head <= live.head => j.live.head # w.head
        BY <1>0, <2>0, <2>1
      <4>3. Covered(s.tips, j.live.head) /\ j.live.head <= live.head => Covered(s.tips, j.live.head)'
        BY <1>8, <2>0, <2>1
      <4> QED
        BY <4>1, <4>2, <4>3
    <3>4. pc \in Building => s.phase = pc /\ Covered(s.tips, s.head)'
      <4>1. pc \in Building => s.phase = pc /\ Covered(s.tips, s.head)
        BY <2>0, <2>1 DEF HostOK, RebuildOK
      <4>2. s.head <= live.head
        BY <2>0, <2>1 DEF HostOK, ScratchOK
      <4> QED
        BY <1>8, <2>0, <2>1, <4>1, <4>2
    <3>5. /\ pc \in {"rebuild lease", "scratch"} /\ s.phase # "absent" /\ s.head = c.live.head => s.tips = c.tips
          /\ pc \in Copying => s.phase = "absent" /\ j.live.head <= c.live.head
      BY <2>0, <2>1 DEF HostOK, RebuildOK
    <3>6. local'[h] = c /\ scratch'[h] = s /\ mntPc'[h] = pc /\ job'[h] = j
      BY <2>1
    <3>7. Behind(c.live, c.tips)' => Behind(local[h].live, local[h].tips)'
      BY <3>6 DEF Behind
    <3>8. /\ Covered(s.tips, j.live.head)' => Covered(scratch[h].tips, job[h].live.head)'
          /\ Covered(s.tips, s.head)' => Covered(scratch[h].tips, scratch[h].head)'
      BY <3>6 DEF Covered
    <3> QED
      BY <3>1, <3>3, <3>4, <3>5, <3>6, <3>7, <3>8 DEF RebuildOK
  <2>4. PublishOK(mntPc[h], job[h])'
    <3>1. \A z : Uploads(z) => Uploads(z)'
      BY DEF Uploads
    <3>2. pc \in {"fold lease", "repack"} => Uploads(Sums(j.live))'
      BY <2>0, <2>1, <3>1 DEF HostOK, PublishOK
    <3>3. pc = "publish" => Uploads(j.sup)' /\ (j.new # <<>> => Kept(Head(j.new), j.sup)')
      BY <1>9, <2>0, <2>1, <3>1 DEF HostOK, PublishOK
    <3>4. mntPc'[h] = pc /\ job'[h] = j
      BY <2>1
    <3>5. /\ Uploads(Sums(j.live))' => Uploads(Sums(job[h].live))' /\ (Uploads(j.sup)' => Uploads(job[h].sup)')
          /\ Kept(Head(j.new), j.sup)' => Kept(Head(job[h].new), job[h].sup)'
      BY <3>4 DEF Uploads, Kept
    <3> QED
      BY <3>2, <3>3, <3>4, <3>5 DEF PublishOK
  <2>5. AuditOK(local[h], mntPc[h], job[h])'
    <3>1. job[h].report.repaired <= live.head => job[h].report.repaired <= w.head
      BY <1>0, <2>0
    <3> QED
      BY <1>4, <2>0, <3>1 DEF HostOK, AuditOK
  <2> QED
    BY <2>2, <2>3, <2>4, <2>5 DEF HostOK
<1> QED
  BY <1>1, <1>5, <1>6, <1>10 DEF MntInv

LEMMA PushStep ==
    ASSUME OneMaintainer, MntInv, NEW o \in Objs, NEW n \in 1..2, PushTip(o, n)
    PROVE  MntInv'
<1>0. /\ MntTypes /\ live \in Manifests /\ live.head \in Nat /\ \A l \in live.packs : l.seq \in Nat /\ l.seq <= live.head
      /\ UNCHANGED <<fsck, local, scratch, mntPc, job>> /\ tips \in SUBSET Objs
  BY DEF MntInv, MntTypes, LiveOK, Manifests, Listings, PushTip
<1>1. PICK p : p = Pack("push", {o}, n)
  OBVIOUS
<1>2. p \in PackSums /\ p.kind = "push" /\ p.objs = {o} /\ p \notin uploaded
  BY <1>1 DEF Pack, PackSums, PushTip, OneMaintainer
<1>3. PICK l : l = Listed(p, live.head + 1, 0)
  OBVIOUS
<1>4. l \in Listings /\ l.seq = live.head + 1 /\ l.sum = p
  BY <1>0, <1>2, <1>3 DEF Listed, Listings
<1>5. l \notin live.packs
  BY <1>0, <1>4
<1>6. PICK w : w = [head |-> live.head + 1, packs |-> live.packs \cup {l}]
  OBVIOUS
<1>7. w \in Manifests /\ w.head = live.head + 1 /\ w.packs = live.packs \cup {l} /\ w.packs \ live.packs = {l}
  BY <1>0, <1>4, <1>5, <1>6 DEF Manifests
<1>8. live' = w /\ tips' = tips \cup {o} /\ uploaded' = uploaded \cup {p}
  BY <1>1, <1>3, <1>6 DEF PushTip
<1>9. uploaded' = uploaded \cup {k.sum : k \in w.packs \ live.packs}
  BY <1>4, <1>7, <1>8
<1>10. Landed(w, tips \cup {o})
  BY <1>0, <1>2, <1>4, <1>7 DEF Landed
<1> QED
  BY <1>0, <1>8, <1>9, <1>10, LandedStep

LEMMA DropStep ==
    ASSUME OneMaintainer, MntInv, NEW o \in Objs, DropTip(o)
    PROVE  MntInv'
<1>0. /\ MntTypes /\ live \in Manifests /\ live.head \in Nat /\ tips \in SUBSET Objs
      /\ UNCHANGED <<uploaded, fsck, local, scratch, mntPc, job>>
  BY DEF MntInv, MntTypes, Manifests, DropTip
<1>1. PICK w : w = [live EXCEPT !.head = @ + 1]
  OBVIOUS
<1>2. w \in Manifests /\ w.head = live.head + 1 /\ w.packs = live.packs
  BY <1>0, <1>1 DEF Manifests
<1>3. live' = w /\ tips' = tips \ {o} /\ uploaded' = uploaded \cup {k.sum : k \in w.packs \ live.packs}
  BY <1>0, <1>1, <1>2 DEF DropTip
<1>4. Landed(w, tips \ {o})
  BY <1>0, <1>2 DEF Landed
<1> QED
  BY <1>0, <1>3, <1>4, LandedStep

-----------------------------------------------------------------------------
(* Publishing, and the reports.                                             *)

\* The manifest after a publish.
LEMMA Relisted ==
    ASSUME live \in Manifests, \A l \in live.packs : l.seq <= live.head, NEW p \in MadePacks, NEW sup, NEW tier \in Nat,
           NEW w, w = PublishCompact(p, sup, tier)
    PROVE  /\ w \in Manifests /\ w.head = live.head + 1 /\ w.head > 0 /\ \A l \in w.packs : l.seq <= w.head
           /\ \A l \in w.packs : l.sum.kind = "push" => l \in live.packs
           /\ Sums(w) = {p} \cup (Sums(live) \ sup)
<1>0. /\ live.head \in Nat /\ live.packs \in SUBSET Listings /\ \A l \in live.packs : l.seq \in Nat
      /\ p \in PackSums /\ p.kind # "push"
  BY DEF Manifests, Listings, MadePacks
<1>1. PICK l : l = Listed(p, live.head + 1, tier)
  OBVIOUS
<1>2. l \in Listings /\ l.sum = p /\ l.seq = live.head + 1
  BY <1>0, <1>1 DEF Listed, Listings
<1>3. PICK rest : rest = {k \in live.packs : k.sum \notin sup /\ k.sum # p}
  OBVIOUS
<1>4. w.head = live.head + 1 /\ w.packs = rest \cup {l} /\ rest \subseteq live.packs
  BY <1>1, <1>3 DEF PublishCompact
<1>5. w \in Manifests
  <2>1. rest \cup {l} \in SUBSET Listings /\ live.head + 1 \in Nat
    BY <1>0, <1>2, <1>4
  <2>2. w = [head |-> live.head + 1, packs |-> rest \cup {l}]
    BY <1>1, <1>3 DEF PublishCompact
  <2> QED
    BY <2>1, <2>2 DEF Manifests
<1>6. w.head > 0 /\ \A k \in w.packs : k.seq <= w.head
  <2>1. live.head + 1 > 0 /\ live.head + 1 <= live.head + 1
    BY <1>0
  <2>2. \A k \in live.packs : k.seq <= live.head + 1
    BY <1>0
  <2> QED
    BY <1>2, <1>4, <2>1, <2>2
<1>7. ASSUME NEW q
      PROVE  q \in Sums(w) <=> q \in {p} \cup (Sums(live) \ sup)
  BY <1>2, <1>3, <1>4, SumsAre
<1> QED
  BY <1>0, <1>2, <1>4, <1>5, <1>6, <1>7

\* The number after m.
LEMMA NextNumber ==
    ASSUME NEW m \in Nat, NEW k, k = m + 1
    PROVE  k <= k /\ \A n \in Nat : n <= m => n <= k /\ n # k
OBVIOUS

\* The report of a repair that is the next entry of the log.
RepairedNext(j) == j.report.missing # {} /\ j.report.repaired = live.head + 1

\* A publish of p that supersedes sup loses nothing when sup is kept by p and the rest.
LEMMA PublishedStep ==
    ASSUME OneMaintainer, MntInv, NEW h \in Hosts, NEW p \in MadePacks, NEW sup, NEW tier \in Nat, Kept(p, sup),
           live' = PublishCompact(p, sup, tier), UNCHANGED <<tips, uploaded, fsck>>,
           NEW c, NEW pc \in {"publish", "repair write"}, NEW j, NowAt(h, c, scratch[h], pc, j), UNCHANGED scratch,
           pc = "publish" => j.sup = {},
           pc = "repair write" => RepairedNext(j)
    PROVE  MntInv'
<1>0. /\ MntTypes /\ LiveOK /\ FsckOK /\ live \in Manifests /\ live.head \in Nat /\ fsck.repaired \in Nat
      /\ scratch[h].head \in Nat /\ ScratchOK(scratch[h])
  BY Counts DEF MntInv, MntTypes, HostOK
<1>4. PICK w : w = PublishCompact(p, sup, tier)
  OBVIOUS
<1>5. live' = w
  BY <1>4
<1>6. /\ w \in Manifests /\ w.head = live.head + 1 /\ w.head > 0 /\ \A l \in w.packs : l.seq <= w.head
      /\ \A l \in w.packs : l.sum.kind = "push" => l \in live.packs
      /\ Sums(w) = {p} \cup (Sums(live) \ sup) /\ p.kind # "push"
  BY <1>0, <1>4, Relisted DEF LiveOK, MadePacks
<1>12. w.head <= w.head /\ \A n \in Nat : n <= live.head => n <= w.head /\ n # w.head
  <2>1. live.head \in Nat /\ w.head = live.head + 1
    BY <1>0, <1>6
  <2> QED
    BY <2>1, NextNumber
<1>7. Absent' \subseteq Absent
  BY <1>5, <1>6 DEF Absent, Kept
<1>8. LiveOK'
  <2>2. \A k, i \in w.packs : k.sum.kind = "push" /\ k.sum = i.sum => k = i
    BY <1>0, <1>6 DEF LiveOK
  <2>3. \A q \in Sums(w) : q.kind = "push" => q \in uploaded
    BY <1>0, <1>6 DEF LiveOK, Uploads
  <2>4. Uploads(Sums(live))'
    BY <1>5, <2>3 DEF Uploads
  <2>5. NoObjectLost'
    BY <1>0, <1>7 DEF LiveOK, NoObjectLost
  <2> QED
    BY <1>5, <1>6, <2>2, <2>4, <2>5 DEF LiveOK
<1>9. FsckOK'
  <2>1. fsck.repaired <= w.head
    <3>1. fsck.repaired <= live.head
      BY <1>0 DEF FsckOK
    <3> QED
      BY <1>0, <1>12, <3>1
  <2> QED
    BY <1>0, <1>5, <1>7, <2>1 DEF FsckOK
<1>10. MntTypes'
  BY <1>0, <1>5, <1>6 DEF MntTypes, NowAt
<1>11. ASSUME NEW g \in Hosts
       PROVE  HostOK(local[g], scratch[g], mntPc[g], job[g])'
  <2>0. g = h /\ local'[g] = c /\ scratch'[g] = scratch[h] /\ mntPc'[g] = pc /\ job'[g] = j
    BY DEF OneMaintainer, NowAt
  <2>1. ScratchOK(scratch[g])'
    <3>1. scratch[h].head <= w.head /\ scratch[h].head # w.head
      <4>1. scratch[h].head <= live.head
        BY <1>0 DEF ScratchOK
      <4> QED
        BY <1>0, <1>12, <4>1
    <3> QED
      BY <1>0, <1>5, <2>0, <3>1 DEF ScratchOK
  <2>2. RebuildOK(local[g], scratch[g], mntPc[g], job[g])'
    BY <2>0 DEF RebuildOK, Reading, Copying, Building
  <2>3. PublishOK(mntPc[g], job[g])'
    <3>1. \A q : Kept(q, {})'
      <4> TAKE q
      <4>1. \A x : x \in ObjectsIn(Sums(w)) => x \in ObjectsIn({q} \cup (Sums(w) \ {}))
        BY ObjectsAre
      <4> QED
        BY <1>5, <4>1 DEF Kept
    <3>2. pc = "publish" => Kept(Head(j.new), j.sup)' /\ Uploads(j.sup)'
      BY <3>1 DEF Uploads, Kept
    <3>3. pc = "publish" => Kept(Head(job[g].new), job[g].sup)' /\ Uploads(job[g].sup)'
      BY <2>0, <3>2 DEF Uploads, Kept
    <3> QED
      BY <2>0, <3>3 DEF PublishOK
  <2>4. AuditOK(local[g], mntPc[g], job[g])'
    <3>1. pc = "repair write" => j.report.missing # {} /\ j.report.repaired > 0 /\ j.report.repaired <= w.head
      <4>2. RepairedNext(j) => j.report.missing # {} /\ j.report.repaired = w.head
        BY <1>6 DEF RepairedNext
      <4> QED
        BY <1>6, <1>12, <4>2
    <3> QED
      BY <1>5, <2>0, <3>1 DEF AuditOK
  <2> QED
    BY <2>1, <2>2, <2>3, <2>4 DEF HostOK
<1> QED
  BY <1>8, <1>9, <1>10, <1>11 DEF MntInv

\* The copy after a publish of its own.
LEMMA CopyAt ==
    ASSUME MntTypes, NEW h \in Hosts, NEW p, NEW sup, NEW tier, Published(h, p, sup, tier),
           PublishCompact(p, sup, tier) \in Manifests
    PROVE  \E c \in Copies : local' = [local EXCEPT ![h] = c]
<1>0. local \in [Hosts -> Copies] /\ local[h] \in Copies /\ tips \in SUBSET Objs
  BY DEF MntTypes
<1>1. PICK w : w = live'
  OBVIOUS
<1>2. w \in Manifests /\ local' = [local EXCEPT ![h].live = w, ![h].tips = tips]
  BY <1>1 DEF Published
<1> DEFINE c == [local[h] EXCEPT !.live = w, !.tips = tips]
<1>3. c \in Copies
  BY <1>0, <1>2 DEF Copies
<1>4. local' = [local EXCEPT ![h] = c]
  BY <1>0, <1>2 DEF Copies
<1> HIDE DEF c
<1> QED
  BY <1>3, <1>4

\* The next pack of a fold or a rebuild.
LEMMA PublishNextStep ==
    ASSUME OneMaintainer, MntInv, NEW h \in Hosts, PublishNext(h)
    PROVE  MntInv'
<1>0. /\ MntTypes /\ mntPc[h] = "publish" /\ job[h].new # <<>> /\ UNCHANGED <<tips, uploaded, fsck, scratch, mntPc>>
      /\ HostOK(local[h], scratch[h], mntPc[h], job[h]) /\ ScratchOK(scratch[h])
      /\ local[h] \in Copies /\ scratch[h] \in Scratches /\ job[h] \in Jobs /\ live \in Manifests
      /\ job' = [job EXCEPT ![h].new = Tail(@), ![h].sup = {}] /\ tips \in SUBSET Objs
  BY HostTypes DEF MntInv, PublishNext, HostOK, MntTypes
<1>1. PICK p : p = Head(job[h].new)
  OBVIOUS
<1>2. PICK r : r = Tail(job[h].new)
  OBVIOUS
<1>3. p \in MadePacks /\ r \in Seq(MadePacks) /\ job[h].tier \in Nat /\ Kept(p, job[h].sup)
  <2>1. job[h].new \in Seq(MadePacks) /\ job[h].tier \in Nat
    BY <1>0 DEF Jobs
  <2>2. Kept(p, job[h].sup)
    BY <1>0, <1>1 DEF HostOK, PublishOK
  <2> QED
    BY <1>0, <1>1, <1>2, <2>1, <2>2
<1>4. PICK j \in Jobs : job' = [job EXCEPT ![h] = j] /\ j.sup = {} /\ j.new = r
  <2> DEFINE j == [job[h] EXCEPT !.new = r, !.sup = {}]
  <2>1. j \in Jobs /\ j.sup = {} /\ j.new = r
    BY <1>0, <1>3 DEF Jobs
  <2>2. job' = [job EXCEPT ![h] = j]
    BY <1>0, <1>2 DEF MntTypes, Jobs
  <2> HIDE DEF j
  <2> QED
    BY <2>1, <2>2
<1>5. "publish" \in UnitPcs
  BY DEF UnitPcs
<1>6. CASE AlreadyLive(h, p)
  <2>1. UNCHANGED <<live, local>>
    BY <1>1, <1>6 DEF PublishNext
  <2>2. NowAt(h, local[h], scratch[h], "publish", j)
    BY <1>0, <1>4, <1>5, <2>1, StepTo
  <2>3. HostOK(local[h], scratch[h], "publish", j)
    <3>1. \A q : Kept(q, {})
      <4> TAKE q
      <4>1. \A x : x \in ObjectsIn(Sums(live)) => x \in ObjectsIn({q} \cup (Sums(live) \ {}))
        BY ObjectsAre
      <4> QED
        BY <4>1 DEF Kept
    <3>2. PublishOK("publish", j)
      BY <1>4, <3>1 DEF PublishOK, Uploads
    <3>3. RebuildOK(local[h], scratch[h], "publish", j) /\ AuditOK(local[h], "publish", j)
      BY DEF RebuildOK, AuditOK, Reading, Copying, Building
    <3> QED
      BY <1>0, <3>2, <3>3 DEF HostOK
  <2> QED
    BY <1>0, <2>1, <2>2, <2>3, QuietStep
<1>7. CASE ~AlreadyLive(h, p)
  <2>1. Published(h, p, job[h].sup, job[h].tier)
    BY <1>1, <1>7 DEF PublishNext
  <2>2. PICK w : w = PublishCompact(p, job[h].sup, job[h].tier)
    OBVIOUS
  <2>3. w \in Manifests
    BY <1>0, <1>3, <2>2, Relisted DEF MntInv, LiveOK
  <2>4. PICK c \in Copies : local' = [local EXCEPT ![h] = c]
    BY <1>0, <2>1, <2>2, <2>3, CopyAt
  <2>5. NowAt(h, c, scratch[h], "publish", j)
    BY <1>0, <1>4, <1>5, <2>4, StepTo
  <2> QED
    BY <1>0, <1>3, <1>4, <2>1, <2>5, PublishedStep DEF Published
<1> QED
  BY <1>6, <1>7

LEMMA RepairPublishStep ==
    ASSUME OneMaintainer, MntInv, NEW h \in Hosts, RepairPublish(h)
    PROVE  MntInv'
<1>0. /\ MntTypes /\ mntPc[h] = "repair publish" /\ UNCHANGED <<tips, uploaded, fsck, scratch>>
      /\ HostOK(local[h], scratch[h], mntPc[h], job[h])
      /\ local[h] \in Copies /\ scratch[h] \in Scratches /\ job[h] \in Jobs /\ live \in Manifests /\ live.head \in Nat
      /\ job' = [job EXCEPT ![h].report.repaired = live.head + 1] /\ tips \in SUBSET Objs
      /\ mntPc' = [mntPc EXCEPT ![h] = "repair write"]
  BY HostTypes, Counts DEF MntInv, RepairPublish, MntTypes
<1>1. PICK p : p = Pack("repair", job[h].report.missing, 1)
  OBVIOUS
<1>2. job[h].report \in Reports /\ job[h].report.missing \in SUBSET Objs /\ job[h].report.missing # {}
  BY <1>0 DEF Jobs, Reports, HostOK, AuditOK
<1>3. p \in MadePacks /\ p \in PackSums
  BY <1>1, <1>2, PackTyped
<1>4. PICK r \in Reports : /\ r = [job[h].report EXCEPT !.repaired = live.head + 1]
                          /\ r.missing # {} /\ r.repaired = live.head + 1
  <2>1. PICK n \in Nat : n = live.head + 1
    <3>1. live.head \in Nat
      BY <1>0
    <3> QED
      BY <3>1
  <2>2. PICK r : r = [job[h].report EXCEPT !.repaired = n]
    OBVIOUS
  <2>3. r \in Reports /\ r.missing = job[h].report.missing /\ r.repaired = n
    BY <1>2, <2>2 DEF Reports
  <2> QED
    BY <1>2, <2>1, <2>2, <2>3
<1>5. PICK j \in Jobs : job' = [job EXCEPT ![h] = j] /\ j.report = r
  <2> DEFINE j == [job[h] EXCEPT !.report = r]
  <2>1. j \in Jobs /\ j.report = r
    BY <1>0 DEF Jobs
  <2>2. job' = [job EXCEPT ![h] = j]
    BY <1>0, <1>4 DEF MntTypes, Jobs
  <2> HIDE DEF j
  <2> QED
    BY <2>1, <2>2
<1>6. Kept(p, {})
  <2>1. \A x : x \in ObjectsIn(Sums(live)) => x \in ObjectsIn({p} \cup (Sums(live) \ {}))
    BY ObjectsAre
  <2> QED
    BY <2>1 DEF Kept
<1>7. PICK w : w = PublishCompact(p, {}, 0)
  OBVIOUS
<1>8. w \in Manifests /\ live' = w
  <2>1. w \in Manifests
    BY <1>0, <1>3, <1>7, Relisted DEF MntInv, LiveOK
  <2> QED
    BY <1>1, <1>7, <2>1 DEF RepairPublish, Published
<1>9. PICK c \in Copies : local' = [local EXCEPT ![h] = c]
  BY <1>0, <1>1, <1>7, <1>8, CopyAt DEF RepairPublish
<1>10. "repair write" \in UnitPcs
  BY DEF UnitPcs
<1>11. NowAt(h, c, scratch[h], "repair write", j)
  BY <1>0, <1>5, <1>9, <1>10, StepTo
<1> QED
  <2>1. RepairedNext(j)
    BY <1>4, <1>5 DEF RepairedNext
  <2> QED
    BY <1>0, <1>3, <1>6, <1>7, <1>8, <1>11, <2>1, PublishedStep

\* Writing the report: damage that is there is in it, or it asks for an audit.
LEMMA ReportStep ==
    ASSUME OneMaintainer, MntInv, NEW h \in Hosts, FsckWrite(h) \/ RepairWrite(h)
    PROVE  MntInv'
<1>0. /\ MntTypes /\ LiveOK /\ Finish(h) /\ UNCHANGED <<live, tips, uploaded, scratch>>
      /\ HostOK(local[h], scratch[h], mntPc[h], job[h]) /\ ScratchOK(scratch[h])
      /\ scratch[h] \in Scratches /\ job[h] \in Jobs /\ live.head \in Nat
  BY HostTypes, Counts DEF MntInv, HostOK, FsckWrite, RepairWrite
<1>1. job[h].report \in Reports /\ job[h].missing \in SUBSET Objs
  BY <1>0 DEF Jobs
<1>2. PICK r \in Reports : fsck' = r /\ r.repaired <= live.head /\ (Absent # {} => r.repaired > 0 \/ r.missing # {})
  <2>1. CASE FsckWrite(h)
    <3>1. Absent \subseteq job[h].missing
      BY <1>0, <2>1 DEF FsckWrite, HostOK, AuditOK
    <3>2. PICK list \in SUBSET job[h].missing :
              /\ list = job[h].missing \/ Cardinality(list) = ListMax
              /\ fsck' = [seen |-> TRUE, missing |-> list, total |-> Cardinality(job[h].missing), repaired |-> 0]
      BY <2>1 DEF FsckWrite
    <3>3. Cardinality(list) = ListMax => list # {}
      BY FS_EmptySet, MaintainAssumption
    <3>4. Absent # {} => list # {}
      BY <3>1, <3>2, <3>3
    <3>5. Cardinality(job[h].missing) \in Totals
      BY <1>1 DEF Totals
    <3>6. list \in SUBSET Objs
      BY <1>1
    <3>7. 0 <= live.head
      BY <1>0
    <3> DEFINE r == [seen |-> TRUE, missing |-> list, total |-> Cardinality(job[h].missing), repaired |-> 0]
    <3>8. r \in Reports /\ r.repaired = 0 /\ r.missing = list
      BY <3>5, <3>6 DEF Reports
    <3>9. fsck' = r
      BY <3>2
    <3> HIDE DEF r
    <3> QED
      BY <3>4, <3>7, <3>8, <3>9
  <2>2. CASE RepairWrite(h)
    <3>1. job[h].report.missing # {} /\ job[h].report.repaired <= live.head
      BY <1>0, <2>2 DEF RepairWrite, HostOK, AuditOK
    <3> QED
      BY <1>1, <2>2, <3>1 DEF RepairWrite
  <2> QED
    BY <2>1, <2>2
<1>3. "idle" \in UnitPcs /\ NoCopy \in Copies /\ NoJob \in Jobs /\ ~NoCopy.guard
  BY NothingYet DEF UnitPcs
<1>4. NowAt(h, NoCopy, scratch[h], "idle", NoJob)
  BY <1>0, <1>3, StepTo DEF Finish
<1>5. \A g \in Hosts : HostOK(local[g], scratch[g], mntPc[g], job[g])'
  BY <1>0, <1>3, <1>4, RestingOK, HostsKept
<1>6. LiveOK' /\ Absent' = Absent
  BY <1>0 DEF LiveOK, Uploads, NoObjectLost, Absent
<1>7. FsckOK'
  BY <1>0, <1>2, <1>6 DEF FsckOK
<1>8. MntTypes'
  BY <1>0, <1>2, <1>4 DEF MntTypes, NowAt
<1> QED
  BY <1>5, <1>6, <1>7, <1>8 DEF MntInv

-----------------------------------------------------------------------------
(* The theorems.                                                            *)

\* At the start what pushes brought is live; what an import left out never came.
LEMMA MntStart ==
    ASSUME MaintainInit
    PROVE  MntInv
<1>0. /\ tips = Objs /\ fsck = NoReport /\ Damaged \subseteq Objs
      /\ \A h \in Hosts : local[h] = NoCopy /\ scratch[h] = NoScratch /\ mntPc[h] = "idle" /\ job[h] = NoJob
  BY MaintainAssumption DEF MaintainInit
<1>1. ASSUME NEW p \in uploaded
      PROVE  p \in PackSums /\ p.kind = "push"
  BY DEF MaintainInit, Pack, PackSums
<1>2. PICK L : L = {Listed(p, 1, 0) : p \in uploaded}
  OBVIOUS
<1>3. ASSUME NEW l \in L
      PROVE  l \in Listings /\ l.seq = 1 /\ l.sum \in uploaded /\ l = Listed(l.sum, 1, 0)
  BY <1>1, <1>2 DEF Listed, Listings
<1>4. live = [head |-> 1, packs |-> L] /\ live.head = 1 /\ live.packs = L
  BY <1>2 DEF MaintainInit
<1>5. live \in Manifests
  BY <1>3, <1>4 DEF Manifests
<1>6. Sums(live) = uploaded
  <2>1. \A p \in uploaded : Listed(p, 1, 0) \in L /\ Listed(p, 1, 0).sum = p
    BY <1>2 DEF Listed
  <2>2. ASSUME NEW q
        PROVE  q \in Sums(live) <=> q \in uploaded
    BY <1>3, <1>4, <2>1, SumsAre
  <2> QED
    BY <2>2
<1>7. MntTypes
  <2>1. "idle" \in UnitPcs /\ uploaded \subseteq PackSums
    BY <1>1 DEF UnitPcs
  <2> QED
    BY <1>0, <1>5, <2>1, NothingYet DEF MntTypes, MaintainInit
<1>8. LiveOK
  <2>1. live.head > 0 /\ \A l \in live.packs : l.seq <= live.head
    BY <1>3, <1>4
  <2>2. \A l, k \in live.packs : l.sum = k.sum => l = k
    BY <1>3, <1>4
  <2>3. Uploads(Sums(live)) /\ NoObjectLost
    BY <1>6 DEF Uploads, NoObjectLost, Absent
  <2> QED
    BY <2>1, <2>2, <2>3 DEF LiveOK
<1>9. FsckOK
  BY <1>0, <1>4 DEF FsckOK, NoReport
<1>10. ASSUME NEW h \in Hosts
       PROVE  HostOK(local[h], scratch[h], mntPc[h], job[h])
  <2>1. ScratchOK(NoScratch)
    BY <1>4, NothingYet DEF ScratchOK
  <2> QED
    BY <1>0, <2>1, NothingYet, RestingOK
<1> QED
  BY <1>7, <1>8, <1>9, <1>10 DEF MntInv

LEMMA MntStutter ==
    ASSUME MntInv, UNCHANGED <<live, tips, uploaded, fsck, local, scratch, mntPc, job>>
    PROVE  MntInv'
<1>1. MntTypes'
  BY DEF MntInv, MntTypes
<1>2. LiveOK' /\ FsckOK'
  BY DEF MntInv, LiveOK, FsckOK, Uploads, NoObjectLost, Absent
<1>3. ASSUME NEW g \in Hosts
      PROVE  HostOK(local[g], scratch[g], mntPc[g], job[g])'
  <2>1. HostOK(local[g], scratch[g], mntPc[g], job[g])
    BY DEF MntInv
  <2>2. ScratchOK(scratch[g])'
    BY <2>1 DEF HostOK, ScratchOK
  <2>3. RebuildOK(local[g], scratch[g], mntPc[g], job[g])'
    BY <2>1 DEF HostOK, RebuildOK, Behind, Covered
  <2>4. PublishOK(mntPc[g], job[g])'
    BY <2>1 DEF HostOK, PublishOK, Kept, Uploads
  <2>5. AuditOK(local[g], mntPc[g], job[g])'
    BY <2>1 DEF HostOK, AuditOK, Absent
  <2> QED
    BY <2>2, <2>3, <2>4, <2>5 DEF HostOK
<1> QED
  BY <1>1, <1>2, <1>3 DEF MntInv

LEMMA MntStep ==
    ASSUME OneMaintainer, MntInv, [MaintainNext]_maintainVars
    PROVE  MntInv'
<1>1. CASE UNCHANGED maintainVars
  BY <1>1, MntStutter DEF maintainVars
<1>2. CASE LeaseRunsOut
  BY <1>2, MntStutter DEF LeaseRunsOut
<1>3. CASE \E o \in Objs : DropTip(o) \/ \E n \in 1..2 : PushTip(o, n)
  BY <1>3, DropStep, PushStep
<1>4. ASSUME NEW h \in Hosts, SyncRequest(h) \/ RunUnit(h) \/ CompactSync(h) \/ TakeLease(h)
      PROVE  MntInv'
  BY <1>4, SyncRequestStep, BeginStep
<1>5. ASSUME NEW h \in Hosts, GeometricRepack(h) \/ RebuildStart(h) \/ CopyFirst(h) \/ ScratchCopied(h) \/ FullRepack(h)
      PROVE  MntInv'
  BY <1>5, FoldStep, RebuildStartStep, CopyFirstStep, CopyRestStep, FullRepackStep
<1>6. ASSUME NEW h \in Hosts, HistoryPack(h) \/ InstallBase(h) \/ PublishNext(h) \/ PublishFails(h)
      PROVE  MntInv'
  BY <1>6, HistoryPackStep, InstallStep, PublishNextStep, EndStep
<1>7. ASSUME NEW h \in Hosts, EndCompact(h) \/ UnitCrash(h) \/ FsckRun(h) \/ RepairFetch(h)
      PROVE  MntInv'
  BY <1>7, EndStep, AuditStep
<1>8. ASSUME NEW h \in Hosts, FsckWrite(h) \/ RepairPublish(h) \/ RepairWrite(h)
      PROVE  MntInv'
  BY <1>8, ReportStep, RepairPublishStep
<1> QED
  BY <1>1, <1>2, <1>3, <1>4, <1>5, <1>6, <1>7, <1>8 DEF MaintainNext

\* With one maintainer, whatever is pushed or deleted beside its folds, its
\* rebuilds, its crashes and its lapsed leases: what was pushed and is referred
\* to is in a live pack (ops.rs:743, rebuild.rs:428).
THEOREM NothingIsLost ==
    ASSUME OneMaintainer
    PROVE  MaintainInit /\ [][MaintainNext]_maintainVars => []NoObjectLost
<1>1. MntInv => NoObjectLost
  BY DEF MntInv, LiveOK
<1> QED
  BY <1>1, MntStart, MntStep, PTL

\* With one maintainer, an absent object keeps the audit or the repair due,
\* whatever report was written last (ops.rs:270, 376).
THEOREM DamageStaysWork ==
    ASSUME OneMaintainer
    PROVE  MaintainInit /\ [][MaintainNext]_maintainVars => []DamageIsWork
<1>1. MntInv => DamageIsWork
  <2> SUFFICES ASSUME MntInv, Absent # {}
               PROVE  RepairDue \/ FsckDue(FALSE)
    BY DEF DamageIsWork
  <2>1. fsck.repaired \in Nat /\ live.head \in Nat
    BY DEF MntInv, MntTypes, Reports, Manifests
  <2>2. fsck.repaired <= live.head /\ (~fsck.seen \/ fsck.repaired > 0 \/ fsck.missing # {})
    BY DEF MntInv, FsckOK
  <2>3. live.head >= fsck.repaired /\ (fsck.repaired > 0 \/ fsck.repaired = 0)
    BY <2>1, <2>2
  <2> QED
    BY <2>2, <2>3 DEF RepairDue, FsckDue
<1> QED
  BY <1>1, MntStart, MntStep, PTL

(***************************************************************************)
(* Bundles: a listed bundle exists and is of the refs it names.            *)
(*                                                                         *)
(* The inductive invariant BuInv: what is pruned is not listed and what is *)
(* to be listed is pruned by nobody (KeyInv); a bundle that is being cut   *)
(* or is listed is of a closed slot and of the refs as of it (TipInv),     *)
(* which a push that lands later, by less than the grace, cannot change.   *)
(***************************************************************************)

\* A key is not used again while somebody still works with a list that has it: the second
\* or the content differ.
FreshKeys ==
    \A h \in Maintainers : maint[h].pc = "upload" =>
        /\ UploadKey(h) \notin Keys(blist.bundles)
        /\ \A g \in Maintainers : UploadKey(h) \notin maint[g].old \cup maint[g].prune

UnitFields == DOMAIN NoUnit
BuEntries == [at : Int, late : BOOLEAN, tip : [line : Int, n : Int]]
BuShape ==
    /\ btime \in Int
    /\ wal \in Seq(BuEntries) /\ wal # <<>>
    /\ DOMAIN blist = {"bundles", "skipped"}
    /\ DOMAIN maint = Maintainers
    /\ \A h \in Maintainers : DOMAIN maint[h] = UnitFields

\* What is pruned is not listed, and what is to be listed is not pruned by anybody.
Awaited(k) == k \in DOMAIN bobjects /\ k \notin Keys(blist.bundles)
                /\ \A g \in Maintainers : k \notin maint[g].old /\ k \notin maint[g].prune
KeyInv ==
    /\ Keys(blist.bundles) \subseteq DOMAIN bobjects
    /\ \A h \in Maintainers : maint[h].prune \cap Keys(blist.bundles) = {}
    /\ \A h \in Maintainers : maint[h].pc = "list" => Awaited(maint[h].key) /\ maint[h].key[4] = h

\* The refs as of a closed slot are what they will ever be.
Cut(slot, tp) == slot \in Int /\ slot + SlotCloseGrace <= btime /\ tp = refs_as_of(slot)
Incremental(h) == Strat(maint[h].s).base # ""
UnitInv(h) ==
    /\ maint[h].pc = "lease" /\ Incremental(h) =>
          maint[h].slot \in Int /\ maint[h].slot + SlotCloseGrace <= btime
    /\ maint[h].pc \in {"base", "upload", "list"} /\ Incremental(h) => Cut(maint[h].slot, maint[h].tips)
    /\ maint[h].pc \in {"upload", "list"} /\ maint[h].base # NoId => Incremental(h)
TipInv ==
    /\ \A b \in blist.bundles : b.base # NoId => Cut(b.token, b.tips)
    /\ \A h \in Maintainers : UnitInv(h)

BuInv == BuShape /\ KeyInv /\ TipInv

\* What retention keeps was in the list.
LEMMA RetainFilters ==
    \A bs : retain(bs) \subseteq bs
BY Zenon DEF retain

\* The greatest of some positions of a sequence.
LEMMA LastIndex ==
    ASSUME NEW n \in Nat, NEW S \in SUBSET (1 .. n), S # {}
    PROVE  Max(S) \in S
<1> DEFINE T == {n - x : x \in S}
<1>1. T \subseteq Nat /\ T # {}
  <2>1. \A x \in S : n - x \in Nat
    OBVIOUS
  <2> QED BY <2>1
<1>2. PICK m \in T : \A t \in T : ~(<<t, m>> \in OpToRel(<, Nat))
  <2> HIDE DEF T
  <2> QED BY <1>1, NatLessThanWellFounded, WFMin
<1>3. \A t \in T : ~(t < m)
  <2> HIDE DEF T
  <2> QED BY <1>1, <1>2, Zenon DEF OpToRel
<1>4. PICK x \in S : m = n - x
  BY <1>2
<1>5. \A y \in S : x >= y
  <2> TAKE y \in S
  <2>1. n - y \in T
    OBVIOUS
  <2>2. ~(n - y < n - x)
    <3> HIDE DEF T
    <3> QED BY <2>1, <1>3, <1>4
  <2>3. x \in Int /\ y \in Int
    OBVIOUS
  <2> HIDE DEF T
  <2> QED BY <2>2, <2>3
<1> QED
  BY <1>5 DEF Max

\* A push that lands after a slot closed leaves the refs as of the slot.
LEMMA RefsStay ==
    ASSUME BuShape, NEW e \in BuEntries, wal' = Append(wal, e), NEW slot \in Int, e.at > slot
    PROVE  refs_as_of(slot)' = refs_as_of(slot)
<1> DEFINE n == Len(wal)
           U == {i \in DOMAIN wal : \A j \in 1 .. i : wal[j].at <= slot}
           V == {i \in DOMAIN wal' : \A j \in 1 .. i : wal'[j].at <= slot}
<1>1. n \in Nat /\ DOMAIN wal = 1 .. n /\ DOMAIN wal' = 1 .. (n + 1)
      /\ (\A j \in 1 .. n : wal'[j] = wal[j]) /\ wal'[n + 1] = e
  BY DEF BuShape
<1>2. n + 1 \notin V
  <2>1. n + 1 \in 1 .. (n + 1) /\ ~(e.at <= slot)
    BY <1>1 DEF BuEntries
  <2> QED BY <1>1, <2>1
<1>3. V = U
  <2> HIDE DEF n
  <2>1. \A i \in 1 .. n : i \in V <=> i \in U
    BY <1>1
  <2>2. V \subseteq 1 .. (n + 1) /\ U \subseteq 1 .. n
    BY <1>1
  <2>3. \A i \in 1 .. (n + 1) : i \in 1 .. n \/ i = n + 1
    BY <1>1
  <2> HIDE DEF U, V
  <2>4. \A i \in V : i \in U
    BY <1>2, <2>1, <2>2, <2>3
  <2>5. \A i \in U : i \in V
    BY <2>1, <2>2
  <2> QED BY <2>4, <2>5
<1>4. U # {} => Max(U) \in 1 .. n
  <2>1. U \in SUBSET (1 .. n) /\ n \in Nat
    BY <1>1
  <2> HIDE DEF U, n
  <2> QED BY <2>1, LastIndex
<1>5. refs_as_of(slot) = IF U = {} THEN NoTip ELSE wal[Max(U)].tip
  BY DEF refs_as_of
<1>6. refs_as_of(slot)' = IF V = {} THEN NoTip ELSE wal'[Max(V)].tip
  BY DEF refs_as_of
<1> HIDE DEF U, V, n
<1> QED
  BY <1>1, <1>3, <1>4, <1>5, <1>6

\* The refs as of a slot depend on the log alone.
LEMMA RefsSame ==
    ASSUME wal' = wal
    PROVE  \A slot : refs_as_of(slot)' = refs_as_of(slot)
BY DEF refs_as_of

\* What is said of slots holds as time passes and pushes land.
LEMMA CutStays ==
    ASSUME BuShape, btime' \in Int, btime' >= btime,
           \/ wal' = wal
           \/ \E e \in BuEntries : wal' = Append(wal, e) /\ e.at >= btime - 1
    PROVE  \A slot, tp : Cut(slot, tp) => Cut(slot, tp)'
<1> SUFFICES ASSUME NEW slot, NEW tp, Cut(slot, tp)
             PROVE  Cut(slot, tp)'
  OBVIOUS
<1>1. slot \in Int /\ slot + 2 <= btime /\ tp = refs_as_of(slot) /\ btime \in Int
  BY DEF Cut, SlotCloseGrace, BuShape
<1>2. refs_as_of(slot)' = refs_as_of(slot)
  <2>1. CASE wal' = wal
    BY <2>1, RefsSame
  <2>2. ASSUME NEW e \in BuEntries, wal' = Append(wal, e), e.at >= btime - 1
        PROVE  refs_as_of(slot)' = refs_as_of(slot)
    <3>1. e.at > slot
      BY <2>2, <1>1 DEF BuEntries
    <3> QED BY <3>1, <2>2, <1>1, RefsStay
  <2> QED BY <2>1, <2>2
<1> QED
  BY <1>1, <1>2 DEF Cut, SlotCloseGrace

\* Nor does what is said of a slot change while neither time passes nor a push lands.
LEMMA CutSame ==
    ASSUME btime' = btime, wal' = wal
    PROVE  \A slot, tp : Cut(slot, tp)' <=> Cut(slot, tp)
BY RefsSame DEF Cut

\* What a step may do to units and lists without more said about it.
LEMMA TipKept ==
    ASSUME TipInv,
           \A slot, tp : Cut(slot, tp) => Cut(slot, tp)',
           btime \in Int, btime' \in Int, btime' >= btime,
           \A b \in blist'.bundles : b \in blist.bundles \/ (b.base # NoId => Cut(b.token, b.tips)'),
           \A g \in Maintainers : maint'[g] = maint[g] \/ UnitInv(g)'
    PROVE  TipInv'
<1>1. \A b \in blist'.bundles : b.base # NoId => Cut(b.token, b.tips)'
  BY DEF TipInv
<1>2. ASSUME NEW g \in Maintainers, maint'[g] = maint[g]
      PROVE  UnitInv(g)'
  <2>1. Incremental(g)' <=> Incremental(g)
    BY <1>2 DEF Incremental
  <2>2. UnitInv(g)
    BY DEF TipInv
  <2>3. ASSUME maint[g].slot \in Int, maint[g].slot + SlotCloseGrace <= btime
        PROVE  maint[g].slot + SlotCloseGrace <= btime'
    BY <2>3 DEF SlotCloseGrace
  <2> QED BY <1>2, <2>1, <2>2, <2>3 DEF UnitInv
<1> QED
  BY <1>1, <1>2 DEF TipInv

\* The same for a step in which no time passes.
LEMMA TipSame ==
    ASSUME BuInv, btime' = btime, wal' = wal,
           \A b \in blist'.bundles : b \in blist.bundles \/ (b.base # NoId => Cut(b.token, b.tips)),
           \A g \in Maintainers : maint'[g] = maint[g] \/ UnitInv(g)'
    PROVE  TipInv'
<1>1. \A slot, tp : Cut(slot, tp)' <=> Cut(slot, tp)
  BY CutSame
<1>2. TipInv /\ btime \in Int
  BY DEF BuInv, BuShape
<1>3. btime' \in Int /\ btime' >= btime
  BY <1>2
<1>4. \A b \in blist'.bundles : b \in blist.bundles \/ (b.base # NoId => Cut(b.token, b.tips)')
  BY <1>1
<1> QED
  BY <1>1, <1>2, <1>3, <1>4, TipKept

\* Steps that write neither objects nor the list, and prune no more.
LEMMA KeyKept ==
    ASSUME KeyInv, bobjects' = bobjects, blist'.bundles = blist.bundles,
           \A g \in Maintainers :
               /\ maint'[g].pc = "list" => maint[g].pc = "list" /\ maint'[g].key = maint[g].key
               /\ maint'[g].old \subseteq maint[g].old \cup Keys(blist.bundles)
               /\ maint'[g].prune \subseteq maint[g].prune
    PROVE  KeyInv'
<1>1. Keys(blist.bundles)' = Keys(blist.bundles)
  BY DEF Keys
<1>2. ASSUME NEW k, Awaited(k)
      PROVE  Awaited(k)'
  BY <1>1, <1>2 DEF Awaited
<1> QED
  BY <1>1, <1>2 DEF KeyInv

\* A maintainer at rest holds nothing.
LEMMA NoUnitFacts == NoUnit.pc = "idle" /\ NoUnit.old = {} /\ NoUnit.prune = {}
BY DEF NoUnit

\* A unit that ends, or a maintainer that goes on to something else, leaves nothing behind.
LEMMA ResetKept ==
    ASSUME BuInv, NEW h \in Maintainers, maint' = [maint EXCEPT ![h] = NoUnit],
           btime' = btime, wal' = wal, bobjects' = bobjects, blist'.bundles = blist.bundles,
           DOMAIN blist' = DOMAIN blist
    PROVE  BuInv'
<1>1. \A g \in Maintainers : maint'[g] = IF g = h THEN NoUnit ELSE maint[g]
  BY DEF BuInv, BuShape
<1>2. BuShape'
  BY <1>1 DEF BuInv, BuShape, UnitFields
<1>3. KeyInv'
  <2>1. \A g \in Maintainers :
          /\ maint'[g].pc = "list" => maint[g].pc = "list" /\ maint'[g].key = maint[g].key
          /\ maint'[g].old \subseteq maint[g].old \cup Keys(blist.bundles)
          /\ maint'[g].prune \subseteq maint[g].prune
    BY <1>1, NoUnitFacts
  <2> QED BY <2>1, KeyKept DEF BuInv
<1>4. UnitInv(h)'
  BY <1>1, NoUnitFacts DEF UnitInv
<1>5. TipInv'
  <2>1. \A slot, tp : Cut(slot, tp) => Cut(slot, tp)'
    BY CutStays DEF BuInv, BuShape
  <2> QED BY <1>1, <1>4, <2>1, TipKept DEF BuInv, BuShape
<1> QED
  BY <1>2, <1>3, <1>5 DEF BuInv

\* Time passes, a push lands, a lease lapses.
LEMMA WorldSteps ==
    ASSUME BuInv, NEW end, NEW most,
           \/ BTick(end)
           \/ \E at \in {btime - 1, btime}, force \in BOOLEAN : Land(at, force, most)
           \/ \E s \in Names : LeaseLapses(s)
    PROVE  BuInv' /\ maint' = maint
<1>1. /\ btime' \in Int /\ btime' >= btime
      /\ \/ wal' = wal
         \/ \E e \in BuEntries : wal' = Append(wal, e) /\ e.at >= btime - 1
      /\ maint' = maint /\ blist' = blist /\ bobjects' = bobjects
  <2>1. CASE BTick(end)
    BY <2>1 DEF BTick, BuInv, BuShape
  <2>2. CASE \E s \in Names : LeaseLapses(s)
    BY <2>2 DEF LeaseLapses, BuInv, BuShape
  <2>3. ASSUME NEW at \in {btime - 1, btime}, NEW force \in BOOLEAN, Land(at, force, most)
        PROVE  /\ btime' = btime /\ btime \in Int
               /\ \E e \in BuEntries : wal' = Append(wal, e) /\ e.at >= btime - 1
               /\ maint' = maint /\ blist' = blist /\ bobjects' = bobjects
    <3> DEFINE tip == IF force THEN [line |-> HeadTip.line + 1, n |-> 1] ELSE [HeadTip EXCEPT !.n = @ + 1]
               e == [at |-> at, late |-> at < btime, tip |-> tip]
    <3>1. btime \in Int /\ wal \in Seq(BuEntries) /\ wal # <<>>
      BY DEF BuInv, BuShape
    <3>2. HeadTip \in [line : Int, n : Int]
      <4>1. Len(wal) \in 1 .. Len(wal)
        BY <3>1
      <4>2. wal[Len(wal)] \in BuEntries
        BY <3>1, <4>1
      <4> QED BY <4>2 DEF HeadTip, BuEntries
    <3>3. tip \in [line : Int, n : Int]
      BY <3>2
    <3>4. e \in BuEntries /\ e.at >= btime - 1
      <4> HIDE DEF tip
      <4>1. at \in Int /\ at >= btime - 1
        BY <3>1
      <4> QED BY <3>3, <4>1 DEF BuEntries
    <3>5. wal' = Append(wal, e)
      BY <2>3 DEF Land
    <3> HIDE DEF e
    <3> QED BY <2>3, <3>1, <3>4, <3>5 DEF Land
  <2> QED BY <2>1, <2>2, <2>3
<1>2. BuShape'
  <2>1. wal' \in Seq(BuEntries) /\ wal' # <<>>
    BY <1>1 DEF BuInv, BuShape
  <2> QED BY <1>1, <2>1 DEF BuInv, BuShape
<1>3. KeyInv'
  BY <1>1, KeyKept DEF BuInv
<1>4. TipInv'
  <2>1. \A slot, tp : Cut(slot, tp) => Cut(slot, tp)'
    BY <1>1, CutStays DEF BuInv
  <2> QED BY <1>1, <2>1, TipKept DEF BuInv, BuShape
<1> QED
  BY <1>1, <1>2, <1>3, <1>4 DEF BuInv

\* The slots up to a time are numbers.
LEMMA IntsUpTo == \A n \in Int : \A t \in 1 .. n : t \in Int
OBVIOUS

\* A slot that an incremental strategy misses is closed.
LEMMA MissingClosed ==
    ASSUME BuShape, NEW s, NEW slot \in Missing(blist, s), s.base # ""
    PROVE  slot \in Int /\ slot + SlotCloseGrace <= btime
<1>1. slot \in SlotsWanted(blist.bundles, s) /\ slot + SlotCloseGrace <= btime
  BY DEF Missing, slot_closed
<1>2. \A from : slots_between(s, from, btime) \subseteq Int
  <2>1. \A from : slots_between(s, from, btime) \subseteq 1 .. btime
    BY Zenon DEF slots_between
  <2>2. btime \in Int
    BY DEF BuShape
  <2>3. \A t \in 1 .. btime : t \in Int
    BY <2>2, IntsUpTo, Zenon
  <2> QED BY <2>1, <2>3
<1>3. slot \in Int
  BY <1>1, <1>2 DEF SlotsWanted
<1> QED
  BY <1>1, <1>3

\* A slot is picked from what is missing.
LEMMA PickStep ==
    ASSUME BuInv, NEW h \in Maintainers, NEW s \in Names, NEW slot \in Missing(blist, Strat(s)), PickSlot(h, s, slot)
    PROVE  BuInv'
<1> DEFINE u == [NoUnit EXCEPT !.pc = "lease", !.s = s, !.slot = slot]
<1>1. /\ u.pc = "lease" /\ u.s = s /\ u.slot = slot /\ u.old = {} /\ u.prune = {} /\ DOMAIN u = UnitFields
  BY DEF NoUnit, UnitFields
<1>2. /\ btime' = btime /\ wal' = wal /\ bobjects' = bobjects /\ blist' = blist
      /\ maint' = [maint EXCEPT ![h] = u]
  BY DEF PickSlot
<1> HIDE DEF u
<1>3. \A g \in Maintainers : maint'[g] = IF g = h THEN u ELSE maint[g]
  BY <1>2 DEF BuInv, BuShape
<1>4. BuShape'
  BY <1>1, <1>2, <1>3 DEF BuInv, BuShape
<1>5. KeyInv'
  BY <1>1, <1>2, <1>3, KeyKept DEF BuInv
<1>6. UnitInv(h)'
  BY <1>1, <1>2, <1>3, MissingClosed DEF UnitInv, BuInv, Incremental
<1>7. TipInv'
  <2>1. \A slot2, tp : Cut(slot2, tp) => Cut(slot2, tp)'
    BY <1>2, CutStays DEF BuInv, BuShape
  <2> QED BY <1>2, <1>3, <1>6, <2>1, TipKept DEF BuInv, BuShape
<1> QED
  BY <1>4, <1>5, <1>7 DEF BuInv

\* The rest of a unit's life, up to the list.
LEMMA AcquireStep ==
    ASSUME BuInv, NEW h \in Maintainers, AcquireStrategy(h)
    PROVE  BuInv'
<1> DEFINE s == Strat(maint[h].s)
           snap == refs_as_of(maint[h].slot)
           u == [maint[h] EXCEPT !.pc = "base", !.baseNow = BaseId(blist.bundles, s, maint[h].slot),
                                 !.tips = IF snap = NoTip THEN HeadTip ELSE snap]
<1>1. /\ maint[h].pc = "lease" /\ btime' = btime /\ wal' = wal /\ bobjects' = bobjects
      /\ \/ maint' = [maint EXCEPT ![h] = NoUnit] /\ (blist' = blist \/ \E b : blist' = Skip(blist, s, maint[h].slot, b))
         \/ maint' = [maint EXCEPT ![h] = u] /\ blist' = blist /\ ~(snap = NoTip /\ s.base # "")
  BY DEF AcquireStrategy, EndUnit
<1>2. \A b : Skip(blist, s, maint[h].slot, b).bundles = blist.bundles
             /\ DOMAIN Skip(blist, s, maint[h].slot, b) = DOMAIN blist
  BY DEF BuInv, BuShape, Skip
<1>3. CASE maint' = [maint EXCEPT ![h] = NoUnit] /\ (blist' = blist \/ \E b : blist' = Skip(blist, s, maint[h].slot, b))
  <2>1. blist'.bundles = blist.bundles /\ DOMAIN blist' = DOMAIN blist
    BY <1>2, <1>3
  <2> QED BY <1>1, <1>3, <2>1, ResetKept
<1>4. CASE maint' = [maint EXCEPT ![h] = u] /\ blist' = blist /\ ~(snap = NoTip /\ s.base # "")
  <2>1. /\ u.pc = "base" /\ u.s = maint[h].s /\ u.slot = maint[h].slot /\ u.old = maint[h].old
        /\ u.prune = maint[h].prune /\ DOMAIN u = UnitFields
        /\ u.tips = IF snap = NoTip THEN HeadTip ELSE snap
    BY DEF BuInv, BuShape, UnitFields, NoUnit
  <2> HIDE DEF u
  <2>2. \A g \in Maintainers : maint'[g] = IF g = h THEN u ELSE maint[g]
    BY <1>4 DEF BuInv, BuShape
  <2>3. BuShape'
    BY <1>1, <1>4, <2>1, <2>2 DEF BuInv, BuShape
  <2>4. KeyInv'
    BY <1>1, <1>4, <2>1, <2>2, KeyKept DEF BuInv
  <2>5. UnitInv(h)'
    <3>1. UnitInv(h)
      BY DEF BuInv, TipInv
    <3>2. Incremental(h)' <=> s.base # ""
      BY <2>1, <2>2 DEF Incremental
    <3>3. s.base # "" => Cut(u.slot, u.tips)
      BY <3>1, <1>1, <1>4, <2>1 DEF UnitInv, Cut, Incremental
    <3>4. PICK at, tip : at = u.slot /\ tip = u.tips
      OBVIOUS
    <3>5. Cut(at, tip) => Cut(at, tip)'
      BY <1>1, CutSame
    <3>6. maint'[h].pc = "base" /\ maint'[h].slot = at /\ maint'[h].tips = tip
      BY <2>1, <2>2, <3>4
    <3> QED BY <3>2, <3>3, <3>4, <3>5, <3>6 DEF UnitInv
  <2>6. TipInv'
    <3>1. \A g \in Maintainers : maint'[g] = maint[g] \/ UnitInv(g)'
      BY <2>2, <2>5
    <3> QED BY <1>1, <1>4, <3>1, TipSame
  <2> QED BY <2>3, <2>4, <2>6 DEF BuInv
<1> QED
  BY <1>1, <1>3, <1>4

\* The base is chosen from the list as it is now.
LEMMA BaseStep ==
    ASSUME BuInv, NEW h \in Maintainers, ChooseBase(h)
    PROVE  BuInv'
<1> DEFINE s == Strat(maint[h].s)
           base == BaseId(blist.bundles, s, maint[h].slot)
           pre == IF s.base = "" THEN NoTip ELSE (CHOOSE x \in blist.bundles : Id(x) = base).tips
           u == [maint[h] EXCEPT !.pc = "upload", !.base = base, !.prereq = pre]
<1>1. /\ maint[h].pc = "base" /\ btime' = btime /\ wal' = wal /\ bobjects' = bobjects
      /\ \/ maint' = [maint EXCEPT ![h] = NoUnit] /\ (blist' = blist \/ \E b : blist' = Skip(blist, s, maint[h].slot, b))
         \/ maint' = [maint EXCEPT ![h] = u] /\ blist' = blist
  BY DEF ChooseBase, EndUnit
<1>2. \A b : Skip(blist, s, maint[h].slot, b).bundles = blist.bundles
             /\ DOMAIN Skip(blist, s, maint[h].slot, b) = DOMAIN blist
  BY DEF BuInv, BuShape, Skip
<1>3. CASE maint' = [maint EXCEPT ![h] = NoUnit] /\ (blist' = blist \/ \E b : blist' = Skip(blist, s, maint[h].slot, b))
  <2>1. blist'.bundles = blist.bundles /\ DOMAIN blist' = DOMAIN blist
    BY <1>2, <1>3
  <2> QED BY <1>1, <1>3, <2>1, ResetKept
<1>4. CASE maint' = [maint EXCEPT ![h] = u] /\ blist' = blist
  <2> HIDE DEF base, pre
  <2>1. /\ u.pc = "upload" /\ u.s = maint[h].s /\ u.slot = maint[h].slot /\ u.old = maint[h].old
        /\ u.prune = maint[h].prune /\ DOMAIN u = UnitFields
        /\ u.tips = maint[h].tips /\ u.base = base
    BY DEF BuInv, BuShape, UnitFields, NoUnit
  <2> HIDE DEF u
  <2>2. \A g \in Maintainers : maint'[g] = IF g = h THEN u ELSE maint[g]
    BY <1>4 DEF BuInv, BuShape
  <2>3. BuShape'
    BY <1>1, <1>4, <2>1, <2>2 DEF BuInv, BuShape
  <2>4. KeyInv'
    BY <1>1, <1>4, <2>1, <2>2, KeyKept DEF BuInv
  <2>5. UnitInv(h)'
    <3>1. UnitInv(h)
      BY DEF BuInv, TipInv
    <3>2. Incremental(h)' <=> Incremental(h)
      BY <2>1, <2>2 DEF Incremental
    <3>3. Incremental(h) => Cut(u.slot, u.tips)
      BY <3>1, <1>1, <2>1 DEF UnitInv
    <3>4. PICK at, tip : at = u.slot /\ tip = u.tips
      OBVIOUS
    <3>5. Cut(at, tip) => Cut(at, tip)'
      BY <1>1, CutSame
    <3>6. maint'[h].pc = "upload" /\ maint'[h].slot = at /\ maint'[h].tips = tip /\ maint'[h].base = base
      BY <2>1, <2>2, <3>4
    <3>7. base # NoId => Incremental(h)
      BY DEF base, BaseId, Incremental
    <3> QED BY <3>2, <3>3, <3>4, <3>5, <3>6, <3>7 DEF UnitInv
  <2>6. TipInv'
    <3>1. \A g \in Maintainers : maint'[g] = maint[g] \/ UnitInv(g)'
      BY <2>2, <2>5
    <3> QED BY <1>1, <1>4, <3>1, TipSame
  <2> QED BY <2>3, <2>4, <2>6 DEF BuInv
<1> QED
  BY <1>1, <1>3, <1>4

\* The object is there before the list names it, and nobody who is pruning has seen its key.
LEMMA UploadStep ==
    ASSUME BuInv, FreshKeys, NEW h \in Maintainers, NEW e \in Engines, Upload(h, e)
    PROVE  BuInv'
<1> DEFINE key == UploadKey(h)
           u == [maint[h] EXCEPT !.pc = "list", !.old = Keys(blist.bundles), !.key = key]
<1>1. /\ maint[h].pc = "upload" /\ btime' = btime /\ wal' = wal /\ blist' = blist
      /\ \/ maint' = [maint EXCEPT ![h] = NoUnit] /\ bobjects' = bobjects
         \/ maint' = [maint EXCEPT ![h] = u] /\ DOMAIN bobjects' = DOMAIN bobjects \cup {key}
  BY DEF Upload, EndUnit
<1>2. CASE maint' = [maint EXCEPT ![h] = NoUnit] /\ bobjects' = bobjects
  BY <1>1, <1>2, ResetKept
<1>3. CASE maint' = [maint EXCEPT ![h] = u] /\ DOMAIN bobjects' = DOMAIN bobjects \cup {key}
  <2>1. key[4] = h /\ key \notin Keys(blist.bundles)
        /\ \A g \in Maintainers : key \notin maint[g].old /\ key \notin maint[g].prune
    BY <1>1 DEF UploadKey, FreshKeys
  <2> HIDE DEF key
  <2>2. /\ u.pc = "list" /\ u.s = maint[h].s /\ u.slot = maint[h].slot /\ u.old = Keys(blist.bundles)
        /\ u.prune = maint[h].prune /\ DOMAIN u = UnitFields /\ u.key = key
        /\ u.tips = maint[h].tips /\ u.base = maint[h].base
    BY DEF BuInv, BuShape, UnitFields, NoUnit
  <2> HIDE DEF u
  <2>3. \A g \in Maintainers : maint'[g] = IF g = h THEN u ELSE maint[g]
    BY <1>3 DEF BuInv, BuShape
  <2>4. BuShape'
    BY <1>1, <1>3, <2>2, <2>3 DEF BuInv, BuShape
  <2>5. KeyInv'
    <3>1. Keys(blist.bundles)' = Keys(blist.bundles)
      BY <1>1 DEF Keys
    <3>2. ASSUME NEW k, k = key \/ Awaited(k)
          PROVE  Awaited(k)'
      BY <3>1, <3>2, <1>3, <2>1, <2>2, <2>3 DEF Awaited
    <3>3. \A g \in Maintainers : maint[g].prune \cap Keys(blist.bundles) = {}
          /\ (maint[g].pc = "list" => Awaited(maint[g].key) /\ maint[g].key[4] = g)
      BY DEF BuInv, KeyInv
    <3>4. Keys(blist.bundles)' \subseteq DOMAIN bobjects'
      BY <3>1, <1>3 DEF BuInv, KeyInv
    <3>5. \A g \in Maintainers : maint'[g].prune \cap Keys(blist.bundles)' = {}
      BY <3>1, <3>3, <2>2, <2>3
    <3>6. ASSUME NEW g \in Maintainers, maint'[g].pc = "list"
          PROVE  Awaited(maint[g].key)' /\ maint'[g].key[4] = g
      <4>1. PICK k : k = maint'[g].key
        OBVIOUS
      <4>2. (k = key \/ Awaited(k)) /\ k[4] = g
        BY <4>1, <3>3, <3>6, <2>1, <2>2, <2>3
      <4>3. Awaited(k)'
        BY <4>2, <3>2
      <4> QED BY <4>1, <4>2, <4>3
    <3> QED BY <3>4, <3>5, <3>6 DEF KeyInv
  <2>6. UnitInv(h)'
    <3>1. UnitInv(h)
      BY DEF BuInv, TipInv
    <3>2. Incremental(h)' <=> Incremental(h)
      BY <2>2, <2>3 DEF Incremental
    <3>3. PICK at, tip : at = u.slot /\ tip = u.tips
      OBVIOUS
    <3>4. Cut(at, tip) => Cut(at, tip)'
      BY <1>1, CutSame
    <3>5. /\ maint'[h].pc = "list" /\ maint'[h].slot = at /\ maint'[h].tips = tip /\ maint'[h].base = maint[h].base
      BY <2>2, <2>3, <3>3
    <3>6. (Incremental(h) => Cut(at, tip)) /\ (maint[h].base # NoId => Incremental(h))
      BY <3>1, <3>3, <1>1, <2>2 DEF UnitInv
    <3> QED BY <3>2, <3>4, <3>5, <3>6 DEF UnitInv
  <2>7. TipInv'
    <3>1. \A g \in Maintainers : maint'[g] = maint[g] \/ UnitInv(g)'
      BY <2>3, <2>6
    <3> QED BY <1>1, <3>1, TipSame
  <2> QED BY <2>4, <2>5, <2>7 DEF BuInv
<1> QED
  BY <1>1, <1>2, <1>3

\* A list written by cas_update_list: some of what it had, and perhaps one bundle whose
\* object was awaited; the writer prunes what it read and does not list any more.
LEMMA ListWritten ==
    ASSUME BuInv, NEW h \in Maintainers, NEW new, NEW gone, NEW u,
           blist'.bundles = new, DOMAIN blist' = DOMAIN blist,
           DOMAIN maint' = Maintainers, \A g \in Maintainers : maint'[g] = IF g = h THEN u ELSE maint[g],
           u.pc = "prune", u.prune = gone, u.old = maint[h].old, DOMAIN u = UnitFields,
           btime' = btime, wal' = wal, bobjects' = bobjects,
           gone \subseteq maint[h].old \ Keys(new),
           \A b \in new : \/ b \in blist.bundles
                          \/ Awaited(b.key) /\ b.key[4] = h /\ (b.base # NoId => Cut(b.token, b.tips))
    PROVE  BuInv'
<1>1. u.pc = "prune" /\ u.prune = gone /\ u.old = maint[h].old /\ DOMAIN u = UnitFields
  OBVIOUS
<1>3. \A g \in Maintainers : maint'[g] = IF g = h THEN u ELSE maint[g]
  OBVIOUS
<1>4. blist'.bundles = new /\ DOMAIN blist' = DOMAIN blist
  OBVIOUS
<1>5. BuShape'
  BY <1>1, <1>3, <1>4 DEF BuInv, BuShape
<1>6. KeyInv'
  <2>1. Keys(blist.bundles)' = Keys(new)
    BY <1>4 DEF Keys
  <2>2. \A k \in Keys(new) : k \in Keys(blist.bundles) \/ (Awaited(k) /\ k[4] = h)
    BY DEF Keys
  <2>3. \A g \in Maintainers : maint[g].prune \cap Keys(blist.bundles) = {}
        /\ (maint[g].pc = "list" => Awaited(maint[g].key) /\ maint[g].key[4] = g)
    BY DEF BuInv, KeyInv
  <2>4. Keys(new) \subseteq DOMAIN bobjects
    BY <2>2 DEF BuInv, KeyInv, Awaited
  <2>5. \A g \in Maintainers : maint'[g].prune \cap Keys(new) = {}
    BY <1>1, <1>3, <2>2, <2>3 DEF Awaited
  <2>6. ASSUME NEW g \in Maintainers, maint'[g].pc = "list"
        PROVE  Awaited(maint[g].key)' /\ maint'[g].key[4] = g
    <3>1. g # h /\ maint'[g] = maint[g]
      BY <1>1, <1>3, <2>6
    <3>2. PICK k : k = maint[g].key
      OBVIOUS
    <3>3. Awaited(k) /\ k[4] = g
      BY <2>3, <2>6, <3>1, <3>2
    <3>4. k \notin Keys(new)
      BY <2>2, <3>1, <3>3 DEF Awaited
    <3>5. \A f \in Maintainers : k \notin maint'[f].old /\ k \notin maint'[f].prune
      BY <1>1, <1>3, <3>3 DEF Awaited
    <3>6. Awaited(k)'
      BY <2>1, <3>3, <3>4, <3>5 DEF Awaited
    <3> QED BY <3>1, <3>2, <3>3, <3>6
  <2> QED BY <2>1, <2>4, <2>5, <2>6 DEF KeyInv
<1>7. TipInv'
  <2>1. \A g \in Maintainers : maint'[g] = maint[g] \/ UnitInv(g)'
    BY <1>1, <1>3 DEF UnitInv
  <2> QED BY <1>4, <2>1, TipSame
<1> QED
  BY <1>5, <1>6, <1>7 DEF BuInv

\* A built bundle enters the list.
LEMMA ListStep ==
    ASSUME BuInv, NEW h \in Maintainers, ListCas(h)
    PROVE  BuInv'
<1> DEFINE m == maint[h]
           entry == [strategy |-> m.s, token |-> m.slot, base |-> m.base, tips |-> m.tips, key |-> m.key]
           bs == {b \in blist.bundles : Id(b) # Id(entry)} \cup {entry}
<1>1. PICK new : new = retain(bs)
  OBVIOUS
<1>2. /\ m.pc = "list"
      /\ blist' = [blist EXCEPT !.bundles = new]
      /\ maint' = [maint EXCEPT ![h] = [maint[h] EXCEPT !.pc = "prune", !.prune = m.old \ Keys(new)]]
      /\ btime' = btime /\ wal' = wal /\ bobjects' = bobjects
  BY <1>1 DEF ListCas
<1>3. \A b \in new : b \in blist.bundles \/ b = entry
  <2>1. new \subseteq bs
    BY <1>1, RetainFilters
  <2> HIDE DEF entry
  <2> QED BY <2>1
<1>4. Awaited(m.key) /\ m.key[4] = h /\ UnitInv(h)
  BY <1>2 DEF BuInv, KeyInv, TipInv
<1>5. entry.key = m.key /\ (entry.base # NoId => Cut(entry.token, entry.tips))
  BY <1>2, <1>4 DEF UnitInv
<1> HIDE DEF entry
<1>6. \A b \in new : \/ b \in blist.bundles
                     \/ Awaited(b.key) /\ b.key[4] = h /\ (b.base # NoId => Cut(b.token, b.tips))
  BY <1>3, <1>4, <1>5
<1>7. PICK gone : gone = m.old \ Keys(new)
  OBVIOUS
<1>8. maint' = [maint EXCEPT ![h] = [maint[h] EXCEPT !.pc = "prune", !.prune = gone]]
  BY <1>2, <1>7
<1>9. gone \subseteq maint[h].old \ Keys(new)
  BY <1>7
<1>10. PICK u : u = [maint[h] EXCEPT !.pc = "prune", !.prune = gone]
  OBVIOUS
<1>11. u.pc = "prune" /\ u.prune = gone /\ u.old = maint[h].old /\ DOMAIN u = UnitFields
  BY <1>10 DEF BuInv, BuShape, UnitFields, NoUnit
<1>12. DOMAIN maint' = Maintainers /\ \A g \in Maintainers : maint'[g] = IF g = h THEN u ELSE maint[g]
  BY <1>8, <1>10 DEF BuInv, BuShape
<1>13. blist'.bundles = new /\ DOMAIN blist' = DOMAIN blist
  BY <1>2 DEF BuInv, BuShape
<1> QED
  BY <1>2, <1>6, <1>9, <1>11, <1>12, <1>13, ListWritten

\* Retention is applied to the list.
LEMMA RetentionStep ==
    ASSUME BuInv, NEW h \in Maintainers, RetentionCas(h)
    PROVE  BuInv'
<1>1. PICK new : new = retain(blist.bundles)
  OBVIOUS
<1>2. PICK gone : gone = IF new = blist.bundles THEN {} ELSE maint[h].old \ Keys(new)
  OBVIOUS
<1>3. /\ maint[h].pc = "retain"
      /\ blist' = [blist EXCEPT !.bundles = new]
      /\ maint' = [maint EXCEPT ![h] = [maint[h] EXCEPT !.pc = "prune", !.prune = gone]]
      /\ btime' = btime /\ wal' = wal /\ bobjects' = bobjects
  BY <1>1, <1>2 DEF RetentionCas
<1>4. new \subseteq blist.bundles
  BY <1>1, RetainFilters
<1>5. gone \subseteq maint[h].old \ Keys(new)
  BY <1>2
<1>6. \A b \in new : \/ b \in blist.bundles
                     \/ Awaited(b.key) /\ b.key[4] = h /\ (b.base # NoId => Cut(b.token, b.tips))
  BY <1>4
<1>7. PICK u : u = [maint[h] EXCEPT !.pc = "prune", !.prune = gone]
  OBVIOUS
<1>8. u.pc = "prune" /\ u.prune = gone /\ u.old = maint[h].old /\ DOMAIN u = UnitFields
  BY <1>7 DEF BuInv, BuShape, UnitFields, NoUnit
<1>9. DOMAIN maint' = Maintainers /\ \A g \in Maintainers : maint'[g] = IF g = h THEN u ELSE maint[g]
  BY <1>3, <1>7 DEF BuInv, BuShape
<1>10. blist'.bundles = new /\ DOMAIN blist' = DOMAIN blist
  BY <1>3 DEF BuInv, BuShape
<1> QED
  BY <1>3, <1>5, <1>6, <1>8, <1>9, <1>10, ListWritten

\* What is deleted is listed by nobody and awaited by nobody.
LEMMA PruneStep ==
    ASSUME BuInv, NEW h \in Maintainers, DeletePruned(h)
    PROVE  BuInv'
<1>1. PICK gone \in {maint[h].prune, {}} : bobjects' = [k \in DOMAIN bobjects \ gone |-> bobjects[k]]
  BY DEF DeletePruned
<1>2. /\ btime' = btime /\ wal' = wal /\ blist' = blist /\ maint' = [maint EXCEPT ![h] = NoUnit]
      /\ DOMAIN bobjects' = DOMAIN bobjects \ gone /\ gone \subseteq maint[h].prune
  BY <1>1 DEF DeletePruned, EndUnit
<1>3. \A g \in Maintainers : maint'[g] = IF g = h THEN NoUnit ELSE maint[g]
  BY <1>2 DEF BuInv, BuShape
<1>4. BuShape'
  BY <1>2, <1>3 DEF BuInv, BuShape, UnitFields
<1>5. KeyInv'
  <2>1. Keys(blist.bundles)' = Keys(blist.bundles)
    BY <1>2 DEF Keys
  <2>2. \A g \in Maintainers : maint[g].prune \cap Keys(blist.bundles) = {}
        /\ (maint[g].pc = "list" => Awaited(maint[g].key) /\ maint[g].key[4] = g)
    BY DEF BuInv, KeyInv
  <2>3. ASSUME NEW k, Awaited(k)
        PROVE  Awaited(k)'
    <3>1. k \in DOMAIN bobjects'
      BY <1>2, <2>3 DEF Awaited
    <3>2. \A g \in Maintainers : k \notin maint'[g].old /\ k \notin maint'[g].prune
      BY <1>3, <2>3, NoUnitFacts DEF Awaited
    <3> QED BY <2>1, <2>3, <3>1, <3>2 DEF Awaited
  <2>4. Keys(blist.bundles) \subseteq DOMAIN bobjects'
    BY <1>2, <2>2 DEF BuInv, KeyInv
  <2>5. \A g \in Maintainers : maint'[g].prune \cap Keys(blist.bundles) = {}
    BY <1>3, <2>2, NoUnitFacts
  <2>6. ASSUME NEW g \in Maintainers, maint'[g].pc = "list"
        PROVE  Awaited(maint[g].key)' /\ maint'[g].key[4] = g
    <3>1. maint'[g] = maint[g]
      BY <1>3, <2>6, NoUnitFacts
    <3>2. PICK k : k = maint[g].key
      OBVIOUS
    <3>3. Awaited(k) /\ k[4] = g
      BY <2>2, <2>6, <3>1, <3>2
    <3>4. Awaited(k)'
      BY <2>3, <3>3
    <3> QED BY <3>1, <3>2, <3>3, <3>4
  <2> QED BY <2>1, <2>4, <2>5, <2>6 DEF KeyInv
<1>6. TipInv'
  <2>1. \A g \in Maintainers : maint'[g] = maint[g] \/ UnitInv(g)'
    BY <1>3, NoUnitFacts DEF UnitInv
  <2> QED BY <1>2, <2>1, TipSame
<1> QED
  BY <1>4, <1>5, <1>6 DEF BuInv

\* The passes that only read, or record skipped slots.
LEMMA PassSteps ==
    ASSUME BuInv, NEW h \in Maintainers, RetentionRead(h) \/ SettleRead(h)
    PROVE  BuInv'
<1> DEFINE r == [NoUnit EXCEPT !.pc = "retain", !.old = Keys(blist.bundles)]
           t == [NoUnit EXCEPT !.pc = "settle", !.verdicts = Verdicts]
<1>1. /\ r.pc = "retain" /\ r.old = Keys(blist.bundles) /\ r.prune = {} /\ DOMAIN r = UnitFields
      /\ t.pc = "settle" /\ t.old = {} /\ t.prune = {} /\ DOMAIN t = UnitFields
  BY DEF NoUnit, UnitFields
<1>2. PICK u \in {r, t} : /\ maint' = [maint EXCEPT ![h] = u]
                          /\ btime' = btime /\ wal' = wal /\ blist' = blist /\ bobjects' = bobjects
  BY DEF RetentionRead, SettleRead
<1> HIDE DEF r, t
<1>3. u.pc \in {"retain", "settle"} /\ u.old \subseteq Keys(blist.bundles) /\ u.prune = {} /\ DOMAIN u = UnitFields
  BY <1>1, <1>2
<1>4. \A g \in Maintainers : maint'[g] = IF g = h THEN u ELSE maint[g]
  BY <1>2 DEF BuInv, BuShape
<1>5. BuShape'
  BY <1>2, <1>3, <1>4 DEF BuInv, BuShape
<1>6. KeyInv'
  BY <1>2, <1>3, <1>4, KeyKept DEF BuInv
<1>7. TipInv'
  <2>1. \A g \in Maintainers : maint'[g] = maint[g] \/ UnitInv(g)'
    BY <1>3, <1>4 DEF UnitInv
  <2> QED BY <1>2, <2>1, TipSame
<1> QED
  BY <1>5, <1>6, <1>7 DEF BuInv

\* The steps that only end a unit.
LEMMA EndSteps ==
    ASSUME BuInv, NEW h \in Maintainers, LeaseHeld(h) \/ MaintainerCrash(h) \/ SettleRecord(h)
    PROVE  BuInv'
<1>1. /\ maint' = [maint EXCEPT ![h] = NoUnit]
      /\ btime' = btime /\ wal' = wal /\ bobjects' = bobjects
      /\ blist' = blist \/ blist' = [blist EXCEPT !.skipped = @ \cup maint[h].verdicts]
  BY DEF LeaseHeld, MaintainerCrash, SettleRecord
<1>2. blist'.bundles = blist.bundles /\ DOMAIN blist' = DOMAIN blist
  BY <1>1 DEF BuInv, BuShape
<1> QED
  BY <1>1, <1>2, ResetKept

\* There is nothing at the start.
LEMMA BuStart ==
    ASSUME BundlesInit
    PROVE  BuInv
<1>1. BuShape
  <2>1. btime \in Int
    BY BundlesAssumption DEF BundlesInit
  <2>2. [at |-> 0, late |-> FALSE, tip |-> [line |-> 1, n |-> 1]] \in BuEntries
    BY DEF BuEntries
  <2>3. wal \in Seq(BuEntries) /\ wal # <<>>
    BY <2>2 DEF BundlesInit
  <2> QED BY <2>1, <2>3 DEF BundlesInit, BuShape, UnitFields
<1>2. blist.bundles = {} /\ \A h \in Maintainers : maint[h] = NoUnit
  BY DEF BundlesInit
<1>3. KeyInv
  BY <1>2, NoUnitFacts DEF KeyInv, Keys
<1>4. TipInv
  BY <1>2, NoUnitFacts DEF TipInv, UnitInv
<1> QED
  BY <1>1, <1>3, <1>4 DEF BuInv

\* Steps of other parts.
LEMMA BuSame ==
    ASSUME BuInv, UNCHANGED bundleVars
    PROVE  BuInv' /\ maint' = maint
<1>1. btime' = btime /\ wal' = wal /\ blist' = blist /\ bobjects' = bobjects /\ maint' = maint
  BY DEF bundleVars
<1>2. BuShape'
  BY <1>1 DEF BuInv, BuShape
<1>3. KeyInv'
  BY <1>1, KeyKept DEF BuInv
<1>4. TipInv'
  BY <1>1, TipSame
<1> QED
  BY <1>1, <1>2, <1>3, <1>4 DEF BuInv

\* BuInv is inductive while keys are fresh.
LEMMA BuNext ==
    ASSUME BuInv, FreshKeys, [BundlesNext]_bundleVars
    PROVE  BuInv'
BY BuSame, WorldSteps, PickStep, AcquireStep, BaseStep, UploadStep, ListStep, RetentionStep, PruneStep,
   PassSteps, EndSteps DEF BundlesNext

\* For any strategies, maintainers, leases that lapse and pushes that land late, as long as no key is
\* used again while somebody works with a list that has it (FreshKeys): the object of a listed bundle
\* is there, and a listed incremental is of the refs as of its slot, whatever other maintainers list and
\* prune meanwhile (lib.rs build_slot, cas_update_list, delete_pruned).
THEOREM BundlesListedSound == BundlesSpec /\ []FreshKeys => []ListedSound
<1>1. BundlesInit => BuInv
  BY BuStart
<1>2. BuInv /\ FreshKeys /\ [BundlesNext]_bundleVars => BuInv'
  BY BuNext
<1>3. BuInv => ListedSound
  BY DEF BuInv, KeyInv, TipInv, Cut, ListedSound, ListedExist, TipsAsOf
<1> QED
  BY <1>1, <1>2, <1>3, PTL DEF BundlesSpec

\* The whole unit of a maintainer that nobody disturbs.
LEMMA QuietUnitStep ==
    ASSUME BuInv, \A g \in Maintainers : maint[g] = NoUnit,
           NEW h \in Maintainers, NEW name \in Names, NEW engine \in Engines,
           NEW slot \in Missing(blist, Strat(name)), QuietUnit(h, name, slot, engine)
    PROVE  BuInv' /\ maint' = maint
<1> DEFINE s == Strat(name)
           snap == refs_as_of(slot)
           base == BaseId(blist.bundles, s, slot)
           tp == IF snap = NoTip THEN HeadTip ELSE snap
           key == <<name, slot, btime, h>>
           entry == [strategy |-> name, token |-> slot, base |-> base, tips |-> tp, key |-> key]
<1>1. PICK new : new = retain(blist.bundles \cup {entry})
  OBVIOUS
<1>2. /\ maint' = maint /\ btime' = btime /\ wal' = wal
      /\ \/ blist' = Skip(blist, s, slot, base) /\ bobjects' = bobjects
         \/ /\ ~(s.base # "" /\ snap = NoTip)
            /\ blist' = [blist EXCEPT !.bundles = new] /\ DOMAIN bobjects' = Keys(new)
  BY <1>1 DEF QuietUnit
<1>3. \A b \in new : b \in blist.bundles \/ b = entry
  <2>1. new \subseteq blist.bundles \cup {entry}
    BY <1>1, RetainFilters
  <2> HIDE DEF entry
  <2> QED BY <2>1
<1>4. entry.base = base /\ entry.token = slot /\ entry.tips = tp
  OBVIOUS
<1>5. base # NoId => s.base # ""
  BY DEF BaseId
<1>6. s.base # "" => slot \in Int /\ slot + SlotCloseGrace <= btime
  BY MissingClosed DEF BuInv
<1> HIDE DEF entry, base, s
<1>7. CASE blist' = Skip(blist, s, slot, base) /\ bobjects' = bobjects
  <2>1. blist'.bundles = blist.bundles /\ DOMAIN blist' = DOMAIN blist
    BY <1>7 DEF Skip, BuInv, BuShape
  <2>2. BuShape'
    BY <1>2, <2>1 DEF BuInv, BuShape
  <2>3. KeyInv'
    BY <1>2, <1>7, <2>1, KeyKept DEF BuInv
  <2>4. TipInv'
    BY <1>2, <2>1, TipSame
  <2> QED BY <1>2, <2>2, <2>3, <2>4 DEF BuInv
<1>8. CASE /\ ~(s.base # "" /\ snap = NoTip)
           /\ blist' = [blist EXCEPT !.bundles = new] /\ DOMAIN bobjects' = Keys(new)
  <2>1. blist'.bundles = new /\ DOMAIN blist' = DOMAIN blist
    BY <1>8 DEF BuInv, BuShape
  <2>2. BuShape'
    BY <1>2, <2>1 DEF BuInv, BuShape
  <2>3. Keys(blist.bundles)' = Keys(new)
    BY <2>1 DEF Keys
  <2>4. KeyInv'
    BY <1>2, <1>8, <2>3, NoUnitFacts DEF KeyInv
  <2>5. entry.base # NoId => Cut(entry.token, entry.tips)
    BY <1>4, <1>5, <1>6, <1>8 DEF Cut
  <2>6. \A b \in blist'.bundles : b \in blist.bundles \/ (b.base # NoId => Cut(b.token, b.tips))
    BY <1>3, <2>1, <2>5
  <2>7. TipInv'
    BY <1>2, <2>6, TipSame
  <2> QED BY <1>2, <2>2, <2>4, <2>7 DEF BuInv
<1> QED
  BY <1>2, <1>7, <1>8

\* The same for a maintainer that nobody disturbs, without that condition, however long the
\* calendar.
THEOREM QuietListedSound == QuietSpec => []ListedSound
<1> DEFINE Quiet == BuInv /\ \A h \in Maintainers : maint[h] = NoUnit
<1>1. BundlesInit => Quiet
  BY BuStart DEF BundlesInit
<1>2. Quiet /\ [QuietNext]_bundleVars => Quiet'
  <2> SUFFICES ASSUME Quiet, [QuietNext]_bundleVars
               PROVE  BuInv' /\ maint' = maint
    OBVIOUS
  <2>1. CASE UNCHANGED bundleVars
    BY <2>1, BuSame
  <2>2. CASE QuietNext
    BY <2>2, WorldSteps, QuietUnitStep DEF QuietNext
  <2> QED BY <2>1, <2>2
<1>3. Quiet => ListedSound
  BY DEF BuInv, KeyInv, TipInv, Cut, ListedSound, ListedExist, TipsAsOf
<1> QED
  BY <1>1, <1>2, <1>3, PTL DEF QuietSpec
=============================================================================
