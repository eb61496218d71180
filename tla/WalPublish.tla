----------------------------- MODULE WalPublish -----------------------------
(***************************************************************************)
(* The publish path of a repository's write-ahead log.                     *)
(*                                                                         *)
(* The bucket holds a manifest (replaced only by compare-and-swap on its   *)
(* version) and log segments (created if absent, deleted only by version). *)
(* Every instance keeps a copy: the manifest and version it last saw, the  *)
(* refs on its disk and the sequence number they are applied to.  On each  *)
(* instance run a single-flight publisher and any number of readers, whose *)
(* syncs are serialised by sync_mutex.  A publisher claims the next log    *)
(* slot, swaps the manifest, then commits locally.                         *)
(*                                                                         *)
(* Each push is a batch of one request; a segment holds one entry.         *)
(***************************************************************************)
EXTENDS RefTxn, FiniteSets

CONSTANTS
    Instances,    \* server processes with a handle on the repository
    Pushes,       \* the requests clients make
    TxnOf,        \* the ref transaction of each push
    NoPush,       \* no push: a log key with no object
    MaxSeq,       \* bound: sequence numbers the model can assign
    MaxAttempts,  \* wal.cas_max_retries
    GraceProbes,  \* ORPHAN_GRACE_PROBES
    MaxBurn,      \* MAX_BURN
    MaxFaults,    \* bound: crashes, failed and refused calls in a behaviour
    Races         \* which of the behaviours below are let happen

\* Outcomes and schedules the code meets but does not survive.  Each can be
\* switched on by itself, so that a run shows what it breaks.
RaceKinds == {
    "lost_response",  \* the manifest CAS is applied and its answer is lost
    "retried_cas",    \* the client library repeats an applied CAS: 412
    "torn_read",      \* manifest and version are read by two statements
    "rebuild",        \* refs are rebuilt in place while pushes are verified
    "half_commit"     \* the local commit fails after the refs were written
  }

ASSUME ConstantsAssumption ==
    /\ NoOid \notin Oids /\ Unchecked \notin RefValues
    /\ NoPush \notin Pushes
    /\ TxnOf \in [Pushes -> Txns]
    /\ MaxSeq \in Nat /\ MaxFaults \in Nat
    /\ MaxAttempts \in Nat \ {0} /\ GraceProbes \in Nat \ {0} /\ MaxBurn \in Nat \ {0}
    /\ Races \subseteq RaceKinds

Seqs == 1 .. MaxSeq

VARIABLES
    manifest,   \* bucket: manifest.pb
    mversion,   \* bucket: its version, fresh at every write
    log,        \* bucket: log/<seq>.pb, the push it holds and its version
    life,       \* instance: "down", "open" (no sync yet), "synced"
    man,        \* handle.manifest
    ver,        \* handle.manifest_version, 0 when None
    refs,       \* the refs of the local copy (on disk)
    applied,    \* state.applied_seq (on disk)
    verified,   \* refs_verified: refs were rebuilt by this process
    sy,         \* the sync that holds sync_mutex
    pb,         \* the publisher task
    status,     \* what each client knows of its push
    faults      \* faults so far

bucket == <<manifest, mversion, log>>
copy == <<life, man, ver, refs, applied, verified>>
vars == <<manifest, mversion, log, life, man, ver, refs, applied, verified,
          sy, pb, status, faults>>

Manifests == [head : 0 .. MaxSeq, segs : SUBSET Seqs, rev : Nat]

EmptyManifest == [head |-> 0, segs |-> {}, rev |-> 1]

Entry == [s \in {t \in Seqs : log[t].push # NoPush} |-> TxnOf[log[s].push]]

\* The refs the bucket defines: what a cold instance would serve.
BucketRefs == Fold(manifest.segs, Entry)

IdleSync == [pc |-> "idle", who |-> "reader", man |-> EmptyManifest, ver |-> 0]

IdlePub == [pc |-> "idle", push |-> NoPush, man |-> EmptyManifest, ver |-> 0,
            seq |-> 0, sver |-> 0, burned |-> {}, probes |-> 0, attempts |-> 0]

Init ==
    /\ manifest = EmptyManifest
    /\ mversion = 1
    /\ log = [s \in Seqs |-> [push |-> NoPush, ver |-> 0]]
    /\ life = [i \in Instances |-> "down"]
    /\ man = [i \in Instances |-> EmptyManifest]
    /\ ver = [i \in Instances |-> 0]
    /\ refs = [i \in Instances |-> NoRefs]
    /\ applied = [i \in Instances |-> 0]
    /\ verified = [i \in Instances |-> FALSE]
    /\ sy = [i \in Instances |-> IdleSync]
    /\ pb = [i \in Instances |-> IdlePub]
    /\ status = [p \in Pushes |-> "new"]
    /\ faults = 0

(***************************************************************************)
(* The life of an instance.                                                *)
(***************************************************************************)

Readable(segs) == segs \subseteq DOMAIN Entry

\* Registry::open: one manifest GET; the refs are rebuilt unless the state
\* file says they are at head already, and then they stay unverified.
Open(i) ==
    /\ life[i] = "down"
    /\ life' = [life EXCEPT ![i] = "open"]
    /\ man' = [man EXCEPT ![i] = manifest]
    /\ ver' = [ver EXCEPT ![i] = mversion]
    /\ \/ /\ applied[i] # manifest.head \/ manifest.head = 0
          /\ Readable(manifest.segs)
          /\ refs' = [refs EXCEPT ![i] = Fold(manifest.segs, Entry)]
          /\ applied' = [applied EXCEPT ![i] = manifest.head]
          /\ verified' = [verified EXCEPT ![i] = TRUE]
       \/ /\ applied[i] = manifest.head /\ manifest.head # 0
          /\ verified' = [verified EXCEPT ![i] = FALSE]
          /\ UNCHANGED <<refs, applied>>
    /\ UNCHANGED <<bucket, sy, pb, status, faults>>

Fault ==
    /\ faults < MaxFaults
    /\ faults' = faults + 1

\* The process dies: memory and the push in flight are lost, disk and bucket
\* stay as they are.
Crash(i) ==
    /\ Fault
    /\ life[i] # "down"
    /\ life' = [life EXCEPT ![i] = "down"]
    /\ man' = [man EXCEPT ![i] = EmptyManifest]
    /\ ver' = [ver EXCEPT ![i] = 0]
    /\ verified' = [verified EXCEPT ![i] = FALSE]
    /\ sy' = [sy EXCEPT ![i] = IdleSync]
    /\ pb' = [pb EXCEPT ![i] = IdlePub]
    /\ status' = [p \in Pushes |-> IF p = pb[i].push THEN "error" ELSE status[p]]
    /\ UNCHANGED <<bucket, refs, applied>>

(***************************************************************************)
(* Sync: conditional GET of the manifest, then the refs, then the version, *)
(* all under sync_mutex.                                                   *)
(***************************************************************************)

\* The sync returns to its caller; a publisher goes on to read the copy.
SyncReturns(i, who) ==
    /\ sy' = [sy EXCEPT ![i] = IdleSync]
    /\ life' = [life EXCEPT ![i] = "synced"]
    /\ pb' = IF who = "pub" THEN [pb EXCEPT ![i].pc = "read"] ELSE pb

\* The caller gets an error; a publisher answers it to its client.
SyncErrs(i, who) ==
    /\ sy' = [sy EXCEPT ![i] = IdleSync]
    /\ IF who = "pub"
         THEN /\ status' = [status EXCEPT ![pb[i].push] = "error"]
              /\ pb' = [pb EXCEPT ![i] = IdlePub]
         ELSE UNCHANGED <<status, pb>>

\* Mutant: a manifest one revision ahead is taken for a stale read.
StaleReadByOne(i) == manifest.rev <= man[i].rev + 1

\* What the conditional GET tells instance i: its version is current (304), or
\* the manifest read is older than the one it holds, or is the same one under
\* another version.
NotModified(i) == ver[i] = mversion
StaleRead(i) == manifest.rev < man[i].rev
SameRevision(i) == ver[i] # 0 /\ manifest.rev = man[i].rev

\* sync_refs_phase and the head of sync_locked_inner.  When the refs are proven
\* and nothing is new, the sync is over (a new version of the same revision is
\* adopted).  Else apply_delta begins: on the manifest read or, when that is
\* not newer, on the one held.
SyncGet(i, who) ==
    /\ life[i] # "down" /\ sy[i].pc = "idle"
    /\ \/ who = "pub" /\ pb[i].pc = "sync"
       \/ who = "reader" /\ (~NotModified(i) \/ ~verified[i] \/ life[i] = "open")
    /\ LET keep == NotModified(i) \/ StaleRead(i)
           m == IF keep THEN man[i] ELSE manifest
           v == IF keep THEN ver[i] ELSE mversion
       IN  IF verified[i] /\ (keep \/ SameRevision(i))
             THEN /\ SyncReturns(i, who)
                  /\ man' = [man EXCEPT ![i] = m]
                  /\ ver' = [ver EXCEPT ![i] = v]
                  /\ UNCHANGED verified
             ELSE /\ sy' = [sy EXCEPT ![i] = [pc |-> IF verified[i] THEN "apply" ELSE "reset",
                                              who |-> who, man |-> m, ver |-> v]]
                  /\ verified' = [verified EXCEPT ![i] = FALSE]
                  /\ UNCHANGED <<life, man, ver, pb>>
    /\ UNCHANGED <<bucket, refs, applied, status, faults>>

\* The tail of a successful apply_delta and of sync_locked_inner.
Install(i) ==
    /\ applied' = [applied EXCEPT ![i] = sy[i].man.head]
    /\ man' = [man EXCEPT ![i] = sy[i].man]
    /\ ver' = [ver EXCEPT ![i] = sy[i].ver]
    /\ verified' = [verified EXCEPT ![i] = TRUE]
    /\ SyncReturns(i, sy[i].who)

\* Mutant: the replay starts one entry late.
TailSeqs_OffByOne(i) == {s \in sy[i].man.segs : sy[i].pc = "apply" => s > applied[i] + 1}

\* The segments to replay: after applied_seq, or all of them in a rebuild.
TailSeqs(i) == {s \in sy[i].man.segs : sy[i].pc = "apply" => s > applied[i]}

\* Incremental: replay (applied_seq, head_seq] over the refs in place.
SyncApply(i) ==
    /\ sy[i].pc = "apply"
    /\ applied[i] <= sy[i].man.head
    /\ Readable(TailSeqs(i))
    /\ refs' = [refs EXCEPT ![i] = Replay(@, TailSeqs(i), Entry)]
    /\ Install(i)
    /\ UNCHANGED <<bucket, status, faults>>

\* Mutant: the rebuild leaves no ref map at all behind.
SyncResetDeletes(i) ==
    /\ sy[i].pc = "reset"
    /\ refs' = [refs EXCEPT ![i] = [r \in {} |-> NoOid]]
    /\ sy' = [sy EXCEPT ![i].pc = "replay"]
    /\ UNCHANGED <<bucket, life, man, ver, applied, verified, pb, status, faults>>

\* A rebuild first replaces the refs on disk by nothing ...
SyncReset(i) ==
    /\ \/ sy[i].pc = "reset"
       \/ sy[i].pc = "apply" /\ applied[i] > sy[i].man.head
    /\ refs' = [refs EXCEPT ![i] = NoRefs]
    /\ sy' = [sy EXCEPT ![i].pc = "replay"]
    /\ UNCHANGED <<bucket, life, man, ver, applied, verified, pb, status, faults>>

\* ... then, the segments fetched, replays the whole log.
SyncReplay(i) ==
    /\ sy[i].pc = "replay"
    /\ Readable(TailSeqs(i))
    /\ refs' = [refs EXCEPT ![i] = Replay(@, TailSeqs(i), Entry)]
    /\ Install(i)
    /\ UNCHANGED <<bucket, status, faults>>

\* A listed segment is missing, or (a fault) cannot be fetched now: the refs
\* stay as they are, unverified.
SyncFail(i) ==
    /\ sy[i].pc \in {"apply", "replay"}
    /\ \/ /\ ~Readable(TailSeqs(i))
          /\ UNCHANGED faults
       \/ "rebuild" \in Races /\ Fault
    /\ SyncErrs(i, sy[i].who)
    /\ UNCHANGED <<bucket, copy>>

\* Materialising from scratch on request (rematerialize).
Repair(i) ==
    /\ "rebuild" \in Races /\ Fault
    /\ life[i] # "down" /\ sy[i].pc = "idle"
    /\ sy' = [sy EXCEPT ![i] = [pc |-> "reset", who |-> "reader",
                                man |-> manifest, ver |-> mversion]]
    /\ verified' = [verified EXCEPT ![i] = FALSE]
    /\ UNCHANGED <<bucket, life, man, ver, refs, applied, pb, status>>

SyncStep(i) == SyncApply(i) \/ SyncReset(i) \/ SyncReplay(i) \/ SyncFail(i)

(***************************************************************************)
(* The publisher: process_batch and claim_log_slot.                        *)
(***************************************************************************)

\* A client's push reaches the publisher.  Receive-pack has synced before it
\* enqueues; other callers leave the first sync to the publisher.
Submit(i, p, synced) ==
    /\ life[i] # "down" /\ pb[i].pc = "idle"
    /\ status[p] = "new"
    /\ synced => life[i] = "synced"
    /\ status' = [status EXCEPT ![p] = "pending"]
    /\ pb' = [pb EXCEPT ![i] = [IdlePub EXCEPT !.pc = IF synced THEN "read" ELSE "sync",
                                              !.push = p]]
    /\ UNCHANGED <<bucket, copy, sy, faults>>

Answer(i, result) ==
    /\ status' = [status EXCEPT ![pb[i].push] = result]
    /\ pb' = [pb EXCEPT ![i] = IdlePub]

\* Lost the slot or the CAS: sync and try again, up to cas_max_retries.
TryAgain(i) ==
    IF pb[i].attempts + 1 >= MaxAttempts
      THEN Answer(i, "error")
      ELSE /\ pb' = [pb EXCEPT ![i] = [IdlePub EXCEPT !.pc = "sync",
                                        !.push = pb[i].push,
                                        !.attempts = pb[i].attempts + 1]]
           /\ UNCHANGED status

\* Mutant: a retry trusts the verification of the first attempt.
PubVerifyOnce(i) ==
    /\ pb[i].pc = "read"
    /\ \/ /\ pb[i].attempts > 0 \/ VerifyTxn(TxnOf[pb[i].push], refs[i])
          /\ pb' = [pb EXCEPT ![i].pc = "claim", ![i].man = man[i], ![i].ver = ver[i],
                              ![i].seq = man[i].head + 1]
          /\ UNCHANGED status
       \/ /\ pb[i].attempts = 0 /\ ~VerifyTxn(TxnOf[pb[i].push], refs[i])
          /\ Answer(i, "rejected")
    /\ UNCHANGED <<bucket, copy, sy, faults>>

\* handle.manifest.read(), the first of two statements ...
PubReadManifest(i) ==
    /\ pb[i].pc = "read" /\ "torn_read" \in Races
    /\ pb' = [pb EXCEPT ![i].pc = "readver", ![i].man = man[i]]
    /\ UNCHANGED <<bucket, copy, sy, status, faults>>

\* ... then manifest_version and the ref view, and verify_txn on it.
PubVerify(i) ==
    /\ \/ pb[i].pc = "read" /\ "torn_read" \notin Races
       \/ pb[i].pc = "readver"
    /\ LET m == IF pb[i].pc = "read" THEN man[i] ELSE pb[i].man
       IN  \/ /\ VerifyTxn(TxnOf[pb[i].push], refs[i])
              /\ pb' = [pb EXCEPT ![i].pc = "claim", ![i].man = m, ![i].ver = ver[i],
                                  ![i].seq = m.head + 1]
              /\ UNCHANGED status
           \/ /\ ~VerifyTxn(TxnOf[pb[i].push], refs[i])
              /\ Answer(i, "rejected")
    /\ UNCHANGED <<bucket, copy, sy, faults>>

PutSegment(s, p) == log' = [log EXCEPT ![s] = [push |-> p, ver |-> @.ver + 1]]

DropSegments(S) ==
    log' = [s \in Seqs |-> IF <<s, log[s].ver>> \in S
                            THEN [push |-> NoPush, ver |-> log[s].ver] ELSE log[s]]

\* Create-if-absent of log/<seq>.pb: ours, or somebody's already.
PubClaim(i) ==
    /\ pb[i].pc = "claim" /\ pb[i].seq <= MaxSeq
    /\ \/ /\ log[pb[i].seq].push = NoPush
          /\ PutSegment(pb[i].seq, pb[i].push)
          /\ pb' = [pb EXCEPT ![i].pc = "cas", ![i].sver = log[pb[i].seq].ver + 1]
       \/ /\ log[pb[i].seq].push # NoPush
          /\ pb' = [pb EXCEPT ![i].pc = "probe", ![i].probes = 0]
          /\ UNCHANGED log
    /\ UNCHANGED <<manifest, mversion, copy, sy, status, faults>>

\* Mutant: the client is told of the error and the publisher goes on.
PubClaimErrorGoesOn(i) ==
    /\ Fault
    /\ pb[i].pc = "claim" /\ pb[i].seq <= MaxSeq
    /\ log[pb[i].seq].push = NoPush
    /\ PutSegment(pb[i].seq, pb[i].push)
    /\ pb' = [pb EXCEPT ![i].pc = "cas", ![i].sver = log[pb[i].seq].ver + 1]
    /\ status' = [status EXCEPT ![pb[i].push] = "error"]
    /\ UNCHANGED <<manifest, mversion, copy, sy>>

\* The create (or the pack upload beside it) fails; the segment may be there.
PubClaimError(i) ==
    /\ Fault
    /\ pb[i].pc = "claim" /\ pb[i].seq <= MaxSeq
    /\ \/ UNCHANGED log
       \/ log[pb[i].seq].push = NoPush /\ PutSegment(pb[i].seq, pb[i].push)
    /\ Answer(i, "error")
    /\ UNCHANGED <<manifest, mversion, copy, sy>>

\* The slot is taken.  A committed entry (the head moved past it) sends the
\* publisher back to sync ...
PubProbeManifest(i) ==
    /\ pb[i].pc = "probe"
    /\ \/ manifest.head >= pb[i].seq /\ TryAgain(i)
       \/ /\ manifest.head < pb[i].seq
          /\ pb' = [pb EXCEPT ![i].pc = "head"]
          /\ UNCHANGED status
    /\ UNCHANGED <<bucket, copy, sy, faults>>

\* Mutant: an orphan is deleted at once and its seq taken.
PubProbeSteals(i) ==
    /\ pb[i].pc = "head"
    /\ DropSegments({<<pb[i].seq, log[pb[i].seq].ver>>})
    /\ pb' = [pb EXCEPT ![i].pc = "claim"]
    /\ UNCHANGED <<manifest, mversion, copy, sy, status, faults>>

\* Mutant: a taken slot is waited for, never burned.
PubProbeWaits(i) ==
    /\ pb[i].pc = "head"
    /\ pb' = [pb EXCEPT ![i].pc = IF log[pb[i].seq].push = NoPush THEN "claim" ELSE "probe"]
    /\ UNCHANGED <<bucket, copy, sy, status, faults>>

\* ... a slot that is free again is claimed again; one that is still taken
\* after the grace is an orphan, and its seq is burned.
PubProbeSlot(i) ==
    /\ pb[i].pc = "head"
    /\ LET q == pb[i]
           burned == q.burned \cup {<<q.seq, log[q.seq].ver>>}
       IN  \/ /\ log[q.seq].push = NoPush
              /\ pb' = [pb EXCEPT ![i].pc = "claim"]
              /\ UNCHANGED status
           \/ /\ log[q.seq].push # NoPush /\ q.probes + 1 < GraceProbes
              /\ pb' = [pb EXCEPT ![i].pc = "probe", ![i].probes = q.probes + 1]
              /\ UNCHANGED status
           \/ /\ log[q.seq].push # NoPush /\ q.probes + 1 >= GraceProbes
              /\ IF Cardinality(burned) >= MaxBurn
                   THEN Answer(i, "error")
                   ELSE /\ pb' = [pb EXCEPT ![i].pc = "claim", ![i].burned = burned,
                                            ![i].seq = q.seq + 1]
                        /\ UNCHANGED status
    /\ UNCHANGED <<bucket, copy, sy, faults>>

\* Mutant: the manifest is overwritten whatever its version.
SwapManifestBlindly(i) ==
    /\ manifest' = [head |-> pb[i].seq, segs |-> pb[i].man.segs \cup {pb[i].seq},
                    rev |-> pb[i].man.rev + 1]
    /\ mversion' = mversion + 1

\* The manifest the publisher wants: its base plus its own segment.
Updated(i) == [head |-> pb[i].seq, segs |-> pb[i].man.segs \cup {pb[i].seq},
               rev |-> pb[i].man.rev + 1]

SwapManifest(i) ==
    /\ pb[i].ver = mversion
    /\ manifest' = Updated(i)
    /\ mversion' = mversion + 1

\* The manifest CAS, answered.
PubCas(i) ==
    /\ pb[i].pc = "cas"
    /\ \/ /\ SwapManifest(i)
          /\ pb' = [pb EXCEPT ![i].pc = "local", ![i].man = Updated(i),
                              ![i].ver = mversion + 1]
       \/ /\ pb[i].ver # mversion
          /\ pb' = [pb EXCEPT ![i].pc = "drop"]
          /\ UNCHANGED <<manifest, mversion>>
    /\ UNCHANGED <<log, copy, sy, status, faults>>

\* The manifest CAS, refused or failed, applied or not.
PubCasFault(i) ==
    /\ Fault
    /\ pb[i].pc = "cas"
    /\ \E answer \in {"drop", "landed"} :
          /\ pb' = [pb EXCEPT ![i].pc = answer]
          /\ \/ UNCHANGED <<manifest, mversion>>
             \/ /\ (IF answer = "drop" THEN "retried_cas" ELSE "lost_response") \in Races
                /\ SwapManifest(i)
    /\ UNCHANGED <<log, copy, sy, status>>

\* Mutant: a failed CAS is taken for a committed one.
PubLandedAlways(i) ==
    /\ pb[i].pc = "landed"
    /\ Answer(i, "ok")
    /\ UNCHANGED <<bucket, copy, sy, faults>>

\* cas_landed: a fresh manifest that lists our segment means committed.
PubLanded(i) ==
    /\ pb[i].pc = "landed"
    /\ \/ /\ pb[i].seq \in manifest.segs
          /\ pb' = [pb EXCEPT ![i].pc = "headver", ![i].man = manifest]
          /\ UNCHANGED status
       \/ /\ pb[i].seq \notin manifest.segs
          /\ Answer(i, "error")
    /\ UNCHANGED <<bucket, copy, sy, faults>>

\* The version of that manifest, by a HEAD of its own.
PubHeadVersion(i) ==
    /\ pb[i].pc = "headver"
    /\ pb' = [pb EXCEPT ![i].pc = "local", ![i].ver = mversion]
    /\ UNCHANGED <<bucket, copy, sy, status, faults>>

\* The local commit, under sync_mutex: the refs, then manifest and version.
PubLocalCommit(i) ==
    /\ pb[i].pc = "local" /\ sy[i].pc = "idle"
    /\ refs' = [refs EXCEPT ![i] = ApplyTxn(TxnOf[pb[i].push], @)]
    /\ man' = [man EXCEPT ![i] = pb[i].man]
    /\ ver' = [ver EXCEPT ![i] = pb[i].ver]
    /\ applied' = [applied EXCEPT ![i] = pb[i].seq]
    /\ pb' = [pb EXCEPT ![i].pc = "sweep"]
    /\ UNCHANGED <<bucket, life, verified, sy, status, faults>>

\* Applying or refreshing the local refs fails: the version is forgotten.
PubLocalCommitError(i) ==
    /\ Fault
    /\ pb[i].pc = "local" /\ sy[i].pc = "idle"
    /\ \/ UNCHANGED refs
       \/ /\ "half_commit" \in Races
          /\ refs' = [refs EXCEPT ![i] = ApplyTxn(TxnOf[pb[i].push], @)]
    /\ ver' = [ver EXCEPT ![i] = 0]
    /\ pb' = [pb EXCEPT ![i].pc = "sweep"]
    /\ UNCHANGED <<bucket, life, man, applied, verified, sy, status>>

\* sweep_burned, by the versions seen (best effort), then the answer.
PubSweep(i) ==
    /\ pb[i].pc = "sweep"
    /\ \/ DropSegments(pb[i].burned) /\ UNCHANGED faults
       \/ pb[i].burned # {} /\ Fault /\ UNCHANGED log
    /\ Answer(i, "ok")
    /\ UNCHANGED <<manifest, mversion, copy, sy>>

\* drop_own_slot, by the version we wrote (best effort), then another try.
PubDrop(i) ==
    /\ pb[i].pc = "drop"
    /\ \/ DropSegments({<<pb[i].seq, pb[i].sver>>}) /\ UNCHANGED faults
       \/ Fault /\ UNCHANGED log
    /\ TryAgain(i)
    /\ UNCHANGED <<manifest, mversion, copy, sy>>

\* A read of the bucket fails (a sync's GET, a probe, the look after a failed
\* CAS): the client gets the error, and what is in the bucket stays there.
PubReadError(i) ==
    /\ Fault
    /\ \/ pb[i].pc \in {"probe", "head", "landed", "headver"}
       \/ pb[i].pc = "sync" /\ sy[i].pc = "idle"
    /\ Answer(i, "error")
    /\ UNCHANGED <<bucket, copy, sy>>

PubStep(i) ==
    \/ SyncGet(i, "pub")
    \/ PubReadManifest(i) \/ PubVerify(i)
    \/ PubClaim(i) \/ PubProbeManifest(i) \/ PubProbeSlot(i)
    \/ PubCas(i) \/ PubLanded(i) \/ PubHeadVersion(i)
    \/ PubLocalCommit(i) \/ PubSweep(i) \/ PubDrop(i)

PubFault(i) ==
    PubClaimError(i) \/ PubReadError(i) \/ PubCasFault(i) \/ PubLocalCommitError(i)

Next ==
    \E i \in Instances :
        \/ Open(i) \/ Crash(i) \/ Repair(i)
        \/ SyncGet(i, "reader") \/ SyncStep(i)
        \/ \E p \in Pushes, synced \in BOOLEAN : Submit(i, p, synced)
        \/ PubStep(i) \/ PubFault(i)

\* A task that can run is run (tokio), and sync_mutex is given out in the order
\* it is asked for, so a publisher that waits for it gets it.  Nobody has to
\* push, crash or open.
Fairness ==
    \A i \in Instances : /\ WF_vars(SyncStep(i))
                         /\ WF_vars(SyncGet(i, "reader"))
                         /\ WF_vars(PubStep(i))
                         /\ SF_vars(SyncGet(i, "pub"))
                         /\ SF_vars(PubLocalCommit(i))

Spec == Init /\ [][Next]_vars /\ Fairness

(***************************************************************************)
(* Properties.                                                             *)
(***************************************************************************)

SyncPcs == {"idle", "apply", "reset", "replay"}
PubPcs == {"idle", "sync", "read", "readver", "claim", "probe", "head", "cas",
           "landed", "headver", "local", "sweep", "drop"}

SyncRecs == [pc : SyncPcs, who : {"reader", "pub"}, man : Manifests, ver : Nat]
PubRecs == [pc : PubPcs, push : Pushes \cup {NoPush}, man : Manifests, ver : Nat,
            seq : Nat, sver : Nat, burned : SUBSET (Nat \X Nat), probes : Nat,
            attempts : Nat]
Statuses == {"new", "pending", "ok", "rejected", "error"}

\* Every variable holds a value of its kind.
TypeOK ==
    /\ manifest \in Manifests
    /\ mversion \in Nat
    /\ log \in [Seqs -> [push : Pushes \cup {NoPush}, ver : Nat]]
    /\ life \in [Instances -> {"down", "open", "synced"}]
    /\ man \in [Instances -> Manifests]
    /\ ver \in [Instances -> Nat]
    /\ refs \in [Instances -> RefMaps]
    /\ applied \in [Instances -> Nat]
    /\ verified \in [Instances -> BOOLEAN]
    /\ sy \in [Instances -> SyncRecs]
    /\ pb \in [Instances -> PubRecs]
    /\ status \in [Pushes -> Statuses]
    /\ faults \in Nat

Committed == {s \in manifest.segs : s \in DOMAIN Entry}

\* Every segment the manifest lists is in the bucket: neither a loser dropping
\* its slot nor a winner sweeping the seqs it burned deletes a committed one
\* ("an orphan is harmless, a deleted committed segment is not").
SegmentsPresent == manifest.segs \subseteq DOMAIN Entry

\* Every committed entry was valid when it committed: its old values are what
\* the entries before it left ("linearizable CAS"; the old values are verified
\* against a copy, and only the slot and the CAS keep that copy current).
SerialHistory ==
    \A s \in Committed :
        VerifyTxn(Entry[s], Fold({t \in Committed : t < s}, Entry))

\* The log is append-only: no step drops a listed segment from the manifest,
\* changes what it holds, or lists a new one below the head.
AppendOnly ==
    [][/\ manifest.head <= manifest'.head
       /\ \A s \in manifest.segs : s \in manifest'.segs /\ log'[s] = log[s]
       /\ \A s \in manifest'.segs \ manifest.segs : s > manifest.head]_vars

\* What clients are told is true for good: "ok" for exactly one entry of the
\* log, "rejected" for none.
TruthfulAnswers ==
    \A p \in Pushes :
        LET at == {s \in manifest.segs : log[s].push = p}
        IN  /\ status[p] = "ok" => Cardinality(at) = 1
            /\ status[p] = "rejected" => at = {}

\* A copy whose version is the bucket's and whose refs are proven serves the
\* refs the bucket defines ("local refs are a pure function of the manifest").
\* The next push from that copy is verified against them and wins the CAS.
CurrentCopy ==
    \A i \in Instances :
        ver[i] = mversion /\ verified[i] => refs[i] = BucketRefs

\* The refs a synced copy serves were at some time the refs of the repository.
ServedRefsExisted ==
    \A i \in Instances :
        verified[i] /\ ver[i] # 0 =>
            \E h \in 0 .. MaxSeq : refs[i] = Fold({s \in Committed : s <= h}, Entry)

\* Every push is answered, whatever orphans, conflicts and syncs it meets.
PushAnswered == \A p \in Pushes : status[p] = "pending" ~> status[p] # "pending"

\* A running copy that is behind catches up with the bucket, or stops.
CopiesConverge ==
    \A i \in Instances :
        life[i] # "down" ~> life[i] = "down" \/ (verified[i] /\ ver[i] = mversion)

Register == INSTANCE RefRegister WITH
    cur <- BucketRefs,
    done <- {p \in Pushes : \E s \in manifest.segs : log[s].push = p}

\* The bucket implements the register: every step is a submission, one push
\* taking effect, an answer allowed to it, or invisible.
Linearizable == Register!Spec
=============================================================================
