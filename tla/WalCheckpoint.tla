--------------------------- MODULE WalCheckpoint ----------------------------
(***************************************************************************)
(* Checkpoints: folding the log into a snapshot of the refs, and reading   *)
(* it back.                                                                *)
(*                                                                         *)
(* A set of refs is represented by the set of log entries folded into it;  *)
(* replaying a tail of the log adds the entries of the tail.  A manifest's *)
(* revision stands for its version as well: every write changes both.      *)
(*                                                                         *)
(* Publishing is WalPublish with the steps up to the CAS taken as one and  *)
(* the local commit as another; a sync is split where a writer that does   *)
(* not hold sync_mutex can look in.                                        *)
(***************************************************************************)
EXTENDS Integers, FiniteSets

CONSTANTS
    Instances,    \* server processes with a handle on the repository
    Writers,      \* checkpoint tasks (after a push, or of the maintain role)
    Readers,      \* tasks that ask for the refs at a seq (refs_at_seq)
    HostOf,       \* the instance each of them runs on
    MaxSeq,       \* bound: sequence numbers the model can assign
    MaxAttempts,  \* wal.cas_max_retries
    Races         \* the interleavings with a writer that a run includes:
                  \*   "repair"    the refs are rebuilt in place at any time
                  \*   "mid_sync"  a writer installs its manifest during a sync
                  \*   "late_commit"  a sync runs between a push's CAS and its
                  \*                  local commit

ASSUME ConstantsAssumption ==
    /\ HostOf \in [Writers \cup Readers -> Instances]
    /\ MaxSeq \in Nat /\ MaxAttempts \in Nat \ {0}
    /\ Races \subseteq {"repair", "mid_sync", "late_commit"}
    /\ "none" \notin Writers

Seqs == 1 .. MaxSeq

VARIABLES
    manifest,   \* bucket: head_seq, checkpoint.seq, log_segments, revision
    snap,       \* bucket: checkpoints/<seq>/refs, as the entries it holds
    committed,  \* every entry ever committed
    man,        \* handle.manifest (and manifest_version)
    refs,       \* the refs of the local copy
    applied,    \* state.applied_seq
    saved,      \* applied_seq as save_state last wrote it to disk
    verified,   \* refs_verified
    sy,         \* the sync that holds sync_mutex
    pub,        \* a publish that won its CAS and has not committed locally
    ck,         \* the checkpoint writers
    rd          \* the readers

bucket == <<manifest, snap, committed>>
copy == <<man, refs, applied, saved, verified>>
vars == <<manifest, snap, committed, man, refs, applied, saved, verified, sy, pub, ck, rd>>

EmptyManifest == [head |-> 0, cp |-> 0, segs |-> {}, rev |-> 1]
Manifests == [head : 0 .. MaxSeq, cp : 0 .. MaxSeq, segs : SUBSET Seqs, rev : Nat]

IdleSync == [pc |-> "idle", who |-> "none", man |-> EmptyManifest, force |-> FALSE]
NoPub == [pc |-> "idle", man |-> EmptyManifest]
IdleCk == [pc |-> "idle", seq |-> 0, got |-> {}, man |-> EmptyManifest,
           attempts |-> 0, rebuilt |-> FALSE]
IdleRd == [pc |-> "idle", want |-> 0, from |-> 0, got |-> {}]

Init ==
    /\ manifest = EmptyManifest
    /\ snap = [s \in Seqs |-> {}]
    /\ committed = {}
    /\ man = [i \in Instances |-> EmptyManifest]
    /\ refs = [i \in Instances |-> {}]
    /\ applied = [i \in Instances |-> 0]
    /\ saved = [i \in Instances |-> 0]
    /\ verified = [i \in Instances |-> TRUE]
    /\ sy = [i \in Instances |-> IdleSync]
    /\ pub = [i \in Instances |-> NoPub]
    /\ ck = [w \in Writers |-> IdleCk]
    /\ rd = [r \in Readers |-> IdleRd]

\* What a checkpoint holds: nothing at seq 0.
Snapshot(c) == IF c = 0 THEN {} ELSE snap[c]

\* The refs a manifest defines: its checkpoint, then the tail of the log.
FoldOf(m) == Snapshot(m.cp) \cup {s \in m.segs : s > m.cp}

\* Bound the writes: every revision is a commit, or a checkpoint of one.
MayStart == manifest.rev <= 2 * MaxSeq

(***************************************************************************)
(* Publishing and the life of an instance.                                 *)
(***************************************************************************)

\* The manifest CAS of a push at the next seq, or past one that was burned.
Publish(i, s) ==
    /\ pub[i].pc = "idle" /\ man[i].rev = manifest.rev
    /\ s \in manifest.head + 1 .. manifest.head + 2
    /\ manifest' = [manifest EXCEPT !.head = s, !.segs = @ \cup {s}, !.rev = @ + 1]
    /\ committed' = committed \cup {s}
    /\ pub' = [pub EXCEPT ![i] = [pc |-> "local", man |-> manifest']]
    /\ UNCHANGED <<snap, copy, sy, ck, rd>>

\* Its local commit, under sync_mutex.
PubLocal(i) ==
    /\ pub[i].pc = "local" /\ sy[i].pc = "idle"
    /\ refs' = [refs EXCEPT ![i] = @ \cup {pub[i].man.head}]
    /\ man' = [man EXCEPT ![i] = pub[i].man]
    /\ applied' = [applied EXCEPT ![i] = pub[i].man.head]
    /\ saved' = [saved EXCEPT ![i] = pub[i].man.head]
    /\ pub' = [pub EXCEPT ![i] = NoPub]
    /\ UNCHANGED <<bucket, verified, sy, ck, rd>>

\* The process dies, in a sync or not, and opens the repository again: the refs
\* are rebuilt unless the state file says they are at head already.
Restart(i) ==
    /\ LET rebuild == saved[i] # manifest.head \/ manifest.head = 0
       IN  /\ refs' = [refs EXCEPT ![i] = IF rebuild THEN FoldOf(manifest) ELSE @]
           /\ verified' = [verified EXCEPT ![i] = rebuild]
    /\ man' = [man EXCEPT ![i] = manifest]
    /\ applied' = [applied EXCEPT ![i] = manifest.head]
    /\ saved' = [saved EXCEPT ![i] = manifest.head]
    /\ sy' = [sy EXCEPT ![i] = IdleSync]
    /\ pub' = [pub EXCEPT ![i] = NoPub]
    /\ ck' = [w \in Writers |-> IF HostOf[w] = i THEN IdleCk ELSE ck[w]]
    /\ rd' = [r \in Readers |-> IF HostOf[r] = i THEN IdleRd ELSE rd[r]]
    /\ UNCHANGED bucket

(***************************************************************************)
(* Sync, with checkpoints.                                                 *)
(***************************************************************************)

Current(i) == man[i].rev = manifest.rev /\ verified[i]

StartSync(i, who, force) ==
    /\ pub[i].pc = "idle" \/ "late_commit" \in Races
    /\ sy' = [sy EXCEPT ![i] = [pc |-> "load", who |-> who, force |-> force,
                                man |-> IF manifest.rev < man[i].rev THEN man[i] ELSE manifest]]
    /\ verified' = [verified EXCEPT ![i] = FALSE]

\* Some request's sync finds the copy behind or unproven.
SyncStart(i) ==
    /\ sy[i].pc = "idle" /\ ~Current(i)
    /\ StartSync(i, "none", ~verified[i])
    /\ UNCHANGED <<bucket, man, refs, applied, saved, pub, ck, rd>>

\* Mutant: a checkpoint is loaded even over newer refs.
SyncLoadAlways(i) ==
    /\ sy[i].pc = "load"
    /\ refs' = [refs EXCEPT ![i] = Snapshot(sy[i].man.cp)]
    /\ sy' = [sy EXCEPT ![i].pc = "replay"]
    /\ UNCHANGED <<bucket, man, applied, saved, verified, pub, ck, rd>>

\* The checkpoint is loaded if the copy is older than it, or is rebuilt.
SyncLoad(i) ==
    /\ sy[i].pc = "load"
    /\ IF sy[i].force \/ applied[i] < sy[i].man.cp
         THEN /\ refs' = [refs EXCEPT ![i] = Snapshot(sy[i].man.cp)]
              /\ applied' = [applied EXCEPT ![i] = sy[i].man.cp]
         ELSE UNCHANGED <<refs, applied>>
    /\ sy' = [sy EXCEPT ![i].pc = "replay"]
    /\ UNCHANGED <<bucket, man, saved, verified, pub, ck, rd>>

\* The tail after applied_seq is replayed and the manifest installed; a writer
\* whose sync this was goes on.
SyncFinish(i) ==
    /\ sy[i].pc = "replay"
    /\ LET m == sy[i].man
       IN  /\ refs' = [refs EXCEPT ![i] = @ \cup {s \in m.segs : s > applied[i]}]
           /\ applied' = [applied EXCEPT ![i] = m.head]
           /\ saved' = [saved EXCEPT ![i] = m.head]
           /\ man' = [man EXCEPT ![i] = m]
    /\ verified' = [verified EXCEPT ![i] = TRUE]
    /\ sy' = [sy EXCEPT ![i] = IdleSync]
    /\ ck' = [w \in Writers |-> IF w # sy[i].who THEN ck[w]
                                ELSE [ck[w] EXCEPT !.pc = IF @ = "sync" THEN "read" ELSE "base"]]
    /\ UNCHANGED <<bucket, pub, rd>>

\* A repair (rematerialize) rebuilds the refs from the bucket.
Repair(i) ==
    /\ "repair" \in Races
    /\ sy[i].pc = "idle"
    /\ StartSync(i, "none", TRUE)
    /\ UNCHANGED <<bucket, man, refs, applied, saved, pub, ck, rd>>

(***************************************************************************)
(* The checkpoint writer: write_checkpoint_inner.  It holds no lock.       *)
(***************************************************************************)

CkUnchanged == UNCHANGED <<bucket, copy, sy, pub, rd>>

CkStart(w) ==
    /\ ck[w].pc = "idle" /\ MayStart
    /\ ck' = [ck EXCEPT ![w].pc = "sync"]
    /\ CkUnchanged

\* Its syncs: the first one, the one after a lost CAS, and rebuild_refs.
CkSync(w) ==
    LET i == HostOf[w]
        next == IF ck[w].pc = "resync" THEN "base" ELSE "read"
    IN  /\ ck[w].pc \in {"sync", "resync", "rebuild"} /\ sy[i].pc = "idle"
        /\ IF Current(i) /\ ck[w].pc # "rebuild"
             THEN /\ ck' = [ck EXCEPT ![w].pc = next]
                  /\ UNCHANGED <<sy, verified>>
             ELSE /\ StartSync(i, w, ck[w].pc = "rebuild" \/ ~verified[i])
                  /\ ck' = [ck EXCEPT ![w].pc = IF next = "base" THEN "resync" ELSE "sync"]
        /\ UNCHANGED <<bucket, man, refs, applied, saved, pub, rd>>

\* Mutant: the checkpoint claims the entry after the head as well.
CkReadPastHead(w) ==
    LET m == man[HostOf[w]]
    IN  /\ ck[w].pc = "read" /\ m.head # 0 /\ m.cp # m.head
        /\ ck' = [ck EXCEPT ![w].pc = "snap", ![w].seq = m.head + 1]
        /\ CkUnchanged

\* Only refs that are proven and at head may be folded: rebuild them once if
\* they are not, then give up.  Nothing to do at a checkpoint or at seq 0.
CkRead(w) ==
    LET i == HostOf[w]
        proven == applied[i] = man[i].head /\ verified[i]
        due == man[i].head # 0 /\ man[i].cp # man[i].head
    IN  /\ ck[w].pc = "read"
        /\ ck' = [ck EXCEPT ![w] =
                    IF proven /\ due THEN [@ EXCEPT !.pc = "snap", !.seq = man[i].head]
                    ELSE IF ~proven /\ ~ck[w].rebuilt THEN [@ EXCEPT !.pc = "rebuild", !.rebuilt = TRUE]
                    ELSE IdleCk]
        /\ CkUnchanged

\* local.refs(), a moment after that check.
CkSnap(w) ==
    /\ ck[w].pc = "snap"
    /\ ck' = [ck EXCEPT ![w].pc = "put", ![w].got = refs[HostOf[w]]]
    /\ CkUnchanged

\* Round 1: the snapshot, under a key of its seq.
CkPut(w) ==
    /\ ck[w].pc = "put"
    /\ snap' = [snap EXCEPT ![ck[w].seq] = ck[w].got]
    /\ ck' = [ck EXCEPT ![w].pc = "base", ![w].got = {}]
    /\ UNCHANGED <<manifest, committed, copy, sy, pub, rd>>

\* Round 2 starts from the manifest held now; a checkpoint at its head is
\* somebody else's and good enough.
CkBase(w) ==
    LET m == man[HostOf[w]]
    IN  /\ ck[w].pc = "base"
        /\ ck' = [ck EXCEPT ![w] = IF m.cp # 0 /\ m.cp >= m.head THEN IdleCk
                                   ELSE [@ EXCEPT !.pc = "cas", !.man = m]]
        /\ CkUnchanged

\* Mutant: one entry too many is trimmed from the log.
FoldedOffByOne(m, seq) == [m EXCEPT !.cp = seq, !.rev = @ + 1,
                                    !.segs = {s \in @ : s > seq + 1}]

\* checkpoint = seq, min_seq = seq + 1, log_segments trimmed.
Folded(m, seq) == [m EXCEPT !.cp = seq, !.rev = @ + 1,
                            !.segs = {s \in @ : s > seq}]

\* Mutant: a lost CAS is tried again for ever.
CkCasForever(w) ==
    /\ ck[w].pc = "cas"
    /\ \/ /\ ck[w].man.rev = manifest.rev
          /\ manifest' = Folded(ck[w].man, ck[w].seq)
          /\ ck' = [ck EXCEPT ![w].pc = "install", ![w].man = manifest']
       \/ /\ ck[w].man.rev # manifest.rev
          /\ ck' = [ck EXCEPT ![w].pc = "cas"]
          /\ UNCHANGED manifest
    /\ UNCHANGED <<snap, committed, copy, sy, pub, rd>>

\* Mutant: the manifest is written whatever its version.
CkCasBlind(w) ==
    /\ ck[w].pc = "cas"
    /\ manifest' = Folded(ck[w].man, ck[w].seq)
    /\ ck' = [ck EXCEPT ![w].pc = "install", ![w].man = manifest']
    /\ UNCHANGED <<snap, committed, copy, sy, pub, rd>>

\* The manifest CAS: applied, or lost and tried again after a sync.
CkCas(w) ==
    /\ ck[w].pc = "cas"
    /\ \/ /\ ck[w].man.rev = manifest.rev
          /\ manifest' = Folded(ck[w].man, ck[w].seq)
          /\ ck' = [ck EXCEPT ![w].pc = "install", ![w].man = manifest']
       \/ /\ ck[w].man.rev # manifest.rev
          /\ ck' = [ck EXCEPT ![w] = IF ck[w].attempts + 1 >= MaxAttempts THEN IdleCk
                                     ELSE [ck[w] EXCEPT !.pc = "resync", !.attempts = ck[w].attempts + 1]]
          /\ UNCHANGED manifest
    /\ UNCHANGED <<snap, committed, copy, sy, pub, rd>>

\* The handle adopts the new manifest, without sync_mutex.
CkInstall(w) ==
    /\ ck[w].pc = "install"
    /\ sy[HostOf[w]].pc = "idle" \/ "mid_sync" \in Races
    /\ man' = [man EXCEPT ![HostOf[w]] = ck[w].man]
    /\ applied' = [applied EXCEPT ![HostOf[w]] = ck[w].man.head]
    /\ saved' = [saved EXCEPT ![HostOf[w]] = ck[w].man.head]
    /\ ck' = [ck EXCEPT ![w] = IdleCk]
    /\ UNCHANGED <<bucket, refs, verified, sy, pub, rd>>

\* A PUT fails, applied or not, or the task dies.
CkAbort(w) ==
    /\ ck[w].pc \in {"put", "cas"}
    /\ \/ UNCHANGED <<manifest, snap>>
       \/ /\ ck[w].pc = "put"
          /\ snap' = [snap EXCEPT ![ck[w].seq] = ck[w].got]
          /\ UNCHANGED manifest
       \/ /\ ck[w].pc = "cas" /\ ck[w].man.rev = manifest.rev
          /\ manifest' = Folded(ck[w].man, ck[w].seq)
          /\ UNCHANGED snap
    /\ ck' = [ck EXCEPT ![w] = IdleCk]
    /\ UNCHANGED <<committed, copy, sy, pub, rd>>

(***************************************************************************)
(* refs_at_seq: the checkpoint of the manifest held, then the log of a     *)
(* manifest read afresh.                                                   *)
(***************************************************************************)

RdStart(r, want) ==
    LET m == man[HostOf[r]]
    IN  /\ rd[r].pc \in {"idle", "done"}
        /\ want \in 1 .. m.head /\ m.cp <= want
        /\ rd' = [rd EXCEPT ![r] = [pc |-> "log", want |-> want, from |-> m.cp,
                                    got |-> Snapshot(m.cp)]]
        /\ UNCHANGED <<bucket, copy, sy, pub, ck>>

\* Mutant: the log is read to its end.
RdLogToHead(r) ==
    /\ rd[r].pc = "log"
    /\ rd' = [rd EXCEPT ![r].pc = "done",
                        ![r].got = @ \cup {s \in manifest.segs : rd[r].from < s}]
    /\ UNCHANGED <<bucket, copy, sy, pub, ck>>

RdLog(r) ==
    /\ rd[r].pc = "log"
    /\ rd' = [rd EXCEPT ![r].pc = "done",
                        ![r].got = @ \cup {s \in manifest.segs : /\ rd[r].from < s
                                                                 /\ s <= rd[r].want}]
    /\ UNCHANGED <<bucket, copy, sy, pub, ck>>

CkStep(w) ==
    \/ CkSync(w) \/ CkRead(w) \/ CkSnap(w) \/ CkPut(w) \/ CkBase(w) \/ CkCas(w)
    \/ CkInstall(w)

Next ==
    \/ \E i \in Instances :
          \/ \E s \in Seqs : Publish(i, s)
          \/ PubLocal(i) \/ Restart(i)
          \/ SyncStart(i) \/ SyncLoad(i) \/ SyncFinish(i) \/ Repair(i)
    \/ \E w \in Writers : CkStart(w) \/ CkStep(w) \/ CkAbort(w)
    \/ \E r \in Readers : RdLog(r) \/ \E s \in Seqs : RdStart(r, s)

\* A sync that began ends, a push that won its CAS commits locally, and a
\* writer that can run is run; sync_mutex is given out in order.
Fairness ==
    /\ \A i \in Instances : WF_vars(SyncLoad(i) \/ SyncFinish(i)) /\ SF_vars(PubLocal(i))
    /\ \A w \in Writers : WF_vars(CkStep(w)) /\ SF_vars(CkSync(w))

Spec == Init /\ [][Next]_vars /\ Fairness

(***************************************************************************)
(* Properties.                                                             *)
(***************************************************************************)

\* Every variable holds a value of its kind.
TypeOK ==
    /\ manifest \in Manifests
    /\ snap \in [Seqs -> SUBSET Seqs]
    /\ committed \subseteq Seqs
    /\ man \in [Instances -> Manifests]
    /\ refs \in [Instances -> SUBSET Seqs]
    /\ applied \in [Instances -> 0 .. MaxSeq]
    /\ saved \in [Instances -> 0 .. MaxSeq]
    /\ verified \in [Instances -> BOOLEAN]
    /\ sy \in [Instances -> [pc : {"idle", "load", "replay"}, who : Writers \cup {"none"},
                             man : Manifests, force : BOOLEAN]]
    /\ pub \in [Instances -> [pc : {"idle", "local"}, man : Manifests]]
    /\ ck \in [Writers -> [pc : {"idle", "sync", "rebuild", "read", "snap", "put", "base",
                                 "cas", "resync", "install"},
                           seq : 0 .. MaxSeq, got : SUBSET Seqs, man : Manifests,
                           attempts : Nat, rebuilt : BOOLEAN]]
    /\ rd \in [Readers -> [pc : {"idle", "log", "done"}, want : 0 .. MaxSeq,
                           from : 0 .. MaxSeq, got : SUBSET Seqs]]

\* Folding loses nothing: a cold instance that loads the checkpoint and replays
\* the listed tail serves every entry ever committed.
FoldComplete == FoldOf(manifest) = committed

\* A proven copy of the current manifest serves every entry ever committed,
\* whatever checkpoints it skipped, loaded or wrote.
CopyComplete ==
    \A i \in Instances : Current(i) => refs[i] = committed

\* The checkpoint never moves back, and only folded entries leave the log.
FoldForward ==
    [][/\ manifest.cp <= manifest'.cp
       /\ \A s \in manifest.segs : s \in manifest'.segs \/ s <= manifest'.cp]_vars

\* The snapshot the manifest names holds the refs at exactly its seq.
SnapshotExact == Snapshot(manifest.cp) = {s \in committed : s <= manifest.cp}

\* refs_at_seq answers the refs at exactly the seq it was asked for.
RefsAtSeqExact ==
    \A r \in Readers :
        rd[r].pc = "done" => rd[r].got = {s \in committed : s <= rd[r].want}

\* What a checkpoint promises, wherever tasks, syncs, crashes and commits meet: the snapshot
\* and the tail make up the history, for a cold start, for a running copy and for a reader
\* of the past.
CheckpointsExact == FoldComplete /\ CopyComplete /\ RefsAtSeqExact

\* A checkpoint attempt ends, however many commits overtake it.
CheckpointReturns == \A w \in Writers : ck[w].pc # "idle" ~> ck[w].pc = "idle"
=============================================================================
