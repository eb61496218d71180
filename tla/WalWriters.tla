---------------------------- MODULE WalWriters -----------------------------
(***************************************************************************)
(* The writers of one manifest next to each other: batches of pushes,      *)
(* settings, compactions and annotations of packs, on several instances.   *)
(*                                                                         *)
(* WalPublish has the life of one push in detail, lost answers and orphans *)
(* included.  Here a writer syncs, claims its log slot, does its CAS and   *)
(* records the result locally; what is of interest is what the kinds do to *)
(* each other's part of the manifest.  A ref's value is the request that   *)
(* wrote it, 0 when it does not exist.                                     *)
(***************************************************************************)
EXTENDS Integers, Sequences, FiniteSets

CONSTANTS
    Hosts,        \* instances
    Requests,     \* pushes: numbers from 1
    RefOf,        \* the ref a push updates
    OldOf,        \* the value it expects
    PackOf,       \* the pack it brings
    HostOf,       \* the instance it arrives at
    Settings,     \* documents written as settings
    MaxBatch,     \* wal.max_batch
    MaxLog,       \* bound: sequence numbers
    MaxOthers,    \* bound: settings, compactions and annotations
    MaxCrashes    \* bound: crashes

ASSUME WritersAssumption ==
    /\ Requests \subseteq Nat \ {0} /\ MaxBatch \in Nat \ {0} /\ {MaxLog, MaxOthers, MaxCrashes} \subseteq Nat
    /\ OldOf \in [Requests -> Requests \cup {0}] /\ HostOf \in [Requests -> Hosts]

VARIABLES
    mf,       \* bucket: manifest
    seg,      \* bucket: log segments, by first seq
    side,     \* bucket: packs whose bitmap was uploaded
    hman,     \* handle.manifest
    effective,\* the cached configuration: settings revision and document
    job,      \* the publisher's batch, and the other writer of the instance
    answer,   \* what each request was told
    others,   \* how many writers of other kinds have started
    crashes   \* how often a process died

writerVars == <<mf, seg, side, hman, effective, job, answer, others, crashes>>

NoSettings == [rev |-> 0, toml |-> "none"]
FirstManifest == [head |-> 0, segs |-> {}, packs |-> {}, bitmap |-> {}, set |-> NoSettings, rev |-> 1]
IdleJob == [pc |-> "idle", kind |-> "none", reqs |-> <<>>, ok |-> <<>>, man |-> FirstManifest,
            slot |-> 0, arg |-> "none", sup |-> {}]
Jobs == {"push", "other"}

WritersInit ==
    /\ mf = FirstManifest /\ seg = <<>> /\ side = {}
    /\ hman = [h \in Hosts |-> FirstManifest]
    /\ effective = [h \in Hosts |-> NoSettings]
    /\ job = [h \in Hosts |-> [j \in Jobs |-> IdleJob]]
    /\ answer = [r \in Requests |-> [is |-> "none", seq |-> 0]]
    /\ others = 0 /\ crashes = 0

\* The elements of a sequence.
SeqSet(q) == {q[k] : k \in DOMAIN q}

\* The pushes of the log a manifest lists, each with its seq: a segment numbers its pushes
\* from its first seq on.
Entries(man) ==
    UNION {{[seq |-> s + k - 1, req |-> seg[s].reqs[k]] : k \in DOMAIN seg[s].reqs} : s \in man.segs}

\* apply_txn_to_map: the newest entry about a ref wrote v, or none did and v is "no such ref".
Finds(entries, ref, v) ==
    \/ v = 0 /\ \A e \in entries : RefOf[e.req] # ref
    \/ \E e \in entries : /\ e.req = v /\ RefOf[v] = ref
                          /\ \A f \in entries : RefOf[f.req] = ref => f.seq <= e.seq

\* verify_txn in the order of the batch, each request on top of the log and of the valid
\* ones before it: the requests at the places V are valid, the others are not.
Verified(man, reqs, V) ==
    LET log == Entries(man)
    IN  \A k \in DOMAIN reqs :
            k \in V <=> Finds(log \cup {[seq |-> man.head + l, req |-> reqs[l]] : l \in {m \in V : m < k}},
                              RefOf[reqs[k]], OldOf[reqs[k]])

\* ok is what is at the places V of a batch, in its order.
InOrder(reqs, V, ok) ==
    \E at \in [DOMAIN ok -> V] :
        /\ \A i \in DOMAIN ok : ok[i] = reqs[at[i]]
        /\ \A i, k \in DOMAIN ok : i < k => at[i] < at[k]
        /\ \A l \in V : \E i \in DOMAIN ok : at[i] = l

\* The valid part of a batch (one sequence); a writer of another kind has no requests.
Valid(man, reqs) ==
    {ok \in UNION {[1 .. n -> SeqSet(reqs)] : n \in 0 .. Len(reqs)} :
        \E V \in SUBSET DOMAIN reqs : InOrder(reqs, V, ok) /\ Verified(man, reqs, V)}

\* publisher_task: one request, and those that are queued with it, in the order in
\* which they came (enqueue_publish).
TakeBatch(h, batch) ==
    /\ job[h]["push"].pc = "idle" /\ Len(batch) \in 1 .. MaxBatch
    /\ \A k \in DOMAIN batch : HostOf[batch[k]] = h /\ answer[batch[k]].is = "none"
    /\ \A k, l \in DOMAIN batch : batch[k] = batch[l] => k = l
    /\ job' = [job EXCEPT ![h]["push"] = [IdleJob EXCEPT !.pc = "sync", !.kind = "push", !.reqs = batch]]
    /\ UNCHANGED <<mf, seg, side, hman, effective, answer, others, crashes>>

\* A writer of another kind than a push starts.
StartOther(h, kind, arg, pc, sup) ==
    /\ job[h]["other"].pc = "idle" /\ others < MaxOthers
    /\ others' = others + 1
    /\ job' = [job EXCEPT ![h]["other"] =
                  [IdleJob EXCEPT !.pc = pc, !.kind = kind, !.arg = arg, !.man = hman[h], !.sup = sup]]
    /\ UNCHANGED <<mf, seg, side, hman, effective, answer, crashes>>

\* A document that parses (with_settings) is written as the next revision.
publish_settings(h, toml) == StartOther(h, "settings", toml, "sync", {})

\* A compaction starts from handle.manifest and supersedes the packs it found there.
publish_compact(h, pack) ==
    /\ hman[h].packs # {} /\ pack \notin hman[h].packs
    /\ StartOther(h, "compact", pack, "claim", hman[h].packs)

\* add_pack is a compaction that supersedes nothing: the history pack of a base.
add_pack(h, pack) ==
    /\ hman[h].packs # {} /\ pack \notin hman[h].packs
    /\ StartOther(h, "add", pack, "claim", {})

annotate_pack(h, pack) == pack \in hman[h].packs /\ StartOther(h, "annotate", pack, "sync", {})

\* sync at Refs level, then the manifest the attempt starts from.
JobSync(h, j) ==
    /\ job[h][j].pc \in {"sync", "lost"}
    /\ hman' = [hman EXCEPT ![h] = mf]
    /\ job' = [job EXCEPT ![h][j].pc = IF job[h][j].kind = "annotate" THEN "upload" ELSE "claim", ![h][j].man = mf]
    /\ UNCHANGED <<mf, seg, side, effective, answer, others, crashes>>

\* annotate_pack: the pack is listed, its side files go up, and the manifest of the
\* handle is read (a second attempt uploads nothing new).
AnnotateUpload(h) ==
    LET b == job[h]["other"]
    IN  /\ b.pc = "upload" /\ b.arg \in b.man.packs
        /\ side' = side \cup {b.arg}
        /\ job' = [job EXCEPT ![h]["other"].pc = "cas", ![h]["other"].man = hman[h]]
        /\ UNCHANGED <<mf, seg, hman, effective, answer, others, crashes>>

\* annotate_pack: the pack is not, or no longer, in the live set.
AnnotateGone(h) ==
    LET b == job[h]["other"]
    IN  /\ b.pc \in {"upload", "cas"} /\ b.kind = "annotate" /\ b.arg \notin b.man.packs
        /\ job' = [job EXCEPT ![h]["other"] = IdleJob]
        /\ UNCHANGED <<mf, seg, side, hman, effective, answer, others, crashes>>

\* cas_max_retries: after a lost attempt the writer may have run out of them.
GiveUp(h, j) ==
    /\ job[h][j].pc = "lost"
    /\ job' = [job EXCEPT ![h][j] = IdleJob]
    /\ answer' = [r \in Requests |->
                     IF r \in SeqSet(job[h][j].reqs) THEN [is |-> "retry", seq |-> 0] ELSE answer[r]]
    /\ UNCHANGED <<mf, seg, side, hman, effective, others, crashes>>

\* process_batch: nobody's expectation holds, and everybody is told.
RejectAll(h) ==
    LET b == job[h]["push"]
    IN  /\ b.pc = "claim" /\ Verified(b.man, b.reqs, {})
        /\ answer' = [r \in Requests |->
                         IF r \in SeqSet(b.reqs) THEN [is |-> "conflict", seq |-> 0] ELSE answer[r]]
        /\ job' = [job EXCEPT ![h]["push"] = IdleJob]
        /\ UNCHANGED <<mf, seg, side, hman, effective, others, crashes>>

\* The segment at s, with the valid requests of a batch or another writer's entry.
WriteSegment(h, j, ok, s) ==
    LET b == job[h][j]
        last == IF b.kind = "push" THEN s + Len(ok) - 1 ELSE s
    IN  /\ b.kind = "push" => ok # <<>>
        /\ s \notin DOMAIN seg /\ \A k \in b.man.head + 1 .. s - 1 : k \in DOMAIN seg
        /\ last <= MaxLog
        /\ seg' = [k \in DOMAIN seg \cup {s} |->
                      IF k = s THEN [reqs |-> ok, last |-> last, kind |-> b.kind, arg |-> b.arg, sup |-> b.sup]
                      ELSE seg[k]]
        /\ job' = [job EXCEPT ![h][j].pc = "cas", ![h][j].slot = s, ![h][j].ok = ok]

\* claim_log_slot: the next number, past segments that nobody's manifest lists.
ClaimSlot(h, j) ==
    LET b == job[h][j]
    IN  /\ b.pc = "claim" /\ mf.head = b.man.head
        /\ \E ok \in Valid(b.man, b.reqs), s \in b.man.head + 1 .. MaxLog : WriteSegment(h, j, ok, s)
        /\ UNCHANGED <<mf, side, hman, effective, answer, others, crashes>>

\* Contended: the head has moved; sync and start over.
SlotContended(h, j) ==
    /\ job[h][j].pc = "claim" /\ mf.head > job[h][j].man.head
    /\ job' = [job EXCEPT ![h][j].pc = "lost"]
    /\ UNCHANGED <<mf, seg, side, hman, effective, answer, others, crashes>>

\* Mutant: a push writes its manifest without the settings it read.
Updated_DropsSettings(b) ==
    LET base == [b.man EXCEPT !.rev = @ + 1]
        slotted == [base EXCEPT !.head = seg[b.slot].last, !.segs = @ \cup {b.slot}]
    IN  CASE b.kind = "push"     -> [slotted EXCEPT !.packs = @ \cup {PackOf[r] : r \in SeqSet(b.ok)},
                                                    !.set = NoSettings]
          [] b.kind = "settings" -> [slotted EXCEPT !.set = [rev |-> @.rev + 1, toml |-> b.arg]]
          [] b.kind \in {"compact", "add"} -> [slotted EXCEPT !.packs = (@ \ b.sup) \cup {b.arg},
                                                    !.bitmap = @ \ (b.sup \cup {b.arg})]
          [] OTHER               -> [base EXCEPT !.bitmap = @ \cup {b.arg}]

\* Mutant: a compaction lists its output alone, whatever was pushed meanwhile.
Updated_ReplacesAll(b) ==
    LET base == [b.man EXCEPT !.rev = @ + 1]
        slotted == [base EXCEPT !.head = seg[b.slot].last, !.segs = @ \cup {b.slot}]
    IN  CASE b.kind = "push"     -> [slotted EXCEPT !.packs = @ \cup {PackOf[r] : r \in SeqSet(b.ok)}]
          [] b.kind = "settings" -> [slotted EXCEPT !.set = [rev |-> @.rev + 1, toml |-> b.arg]]
          [] b.kind \in {"compact", "add"} -> [slotted EXCEPT !.packs = {b.arg}, !.bitmap = {}]
          [] OTHER               -> [base EXCEPT !.bitmap = @ \cup {b.arg}]

\* The manifest each kind builds from the one it read.
Updated(b) ==
    LET base == [b.man EXCEPT !.rev = @ + 1]
        slotted == [base EXCEPT !.head = seg[b.slot].last, !.segs = @ \cup {b.slot}]
    IN  CASE b.kind = "push"     -> [slotted EXCEPT !.packs = @ \cup {PackOf[r] : r \in SeqSet(b.ok)}]
          [] b.kind = "settings" -> [slotted EXCEPT !.set = [rev |-> @.rev + 1, toml |-> b.arg]]
          [] b.kind \in {"compact", "add"} -> [slotted EXCEPT !.packs = (@ \ b.sup) \cup {b.arg},
                                                        !.bitmap = @ \ (b.sup \cup {b.arg})]
          [] OTHER               -> [base EXCEPT !.bitmap = @ \cup {b.arg}]

CasWins(h, j) ==
    /\ job[h][j].pc = "cas" /\ mf.rev = job[h][j].man.rev
    /\ job[h][j].kind = "annotate" => job[h][j].arg \in job[h][j].man.packs
    /\ mf' = Updated(job[h][j])
    /\ job' = [job EXCEPT ![h][j].pc = "local", ![h][j].man = mf']
    /\ UNCHANGED <<seg, side, hman, effective, answer, others, crashes>>

\* The precondition failed: drop the slot, sync, start over.
CasLoses(h, j) ==
    /\ job[h][j].pc = "cas" /\ mf.rev # job[h][j].man.rev
    /\ job' = [job EXCEPT ![h][j].pc = "lost", ![h][j].slot = 0]
    /\ seg' = [k \in DOMAIN seg \ {job[h][j].slot} |-> seg[k]]
    /\ UNCHANGED <<mf, side, hman, effective, answer, others, crashes>>

\* Mutant: a request is told the seq of its place in the batch, refused ones counted.
RecordLocally_ByPlace(h, j) ==
    LET b == job[h][j]
        at(r) == b.slot - 1 + (CHOOSE k \in DOMAIN b.reqs : b.reqs[k] = r)
    IN  /\ b.pc = "local"
        /\ hman' = [hman EXCEPT ![h] = b.man]
        /\ answer' = [r \in Requests |->
                         IF r \in SeqSet(b.ok) THEN [is |-> "ok", seq |-> at(r)]
                         ELSE IF r \in SeqSet(b.reqs) THEN [is |-> "conflict", seq |-> 0]
                         ELSE answer[r]]
        /\ effective' = [effective EXCEPT ![h] = IF b.kind = "settings" THEN NoSettings ELSE @]
        /\ job' = [job EXCEPT ![h][j] = IdleJob]
        /\ UNCHANGED <<mf, seg, side, others, crashes>>

\* The local commit: handle.manifest, the answers in batch order, and for settings
\* the cached configuration is dropped.
RecordLocally(h, j) ==
    LET b == job[h][j]
        at(r) == b.slot - 1 + (CHOOSE k \in DOMAIN b.ok : b.ok[k] = r)
    IN  /\ b.pc = "local"
        /\ hman' = [hman EXCEPT ![h] = b.man]
        /\ answer' = [r \in Requests |->
                         IF r \in SeqSet(b.ok) THEN [is |-> "ok", seq |-> at(r)]
                         ELSE IF r \in SeqSet(b.reqs) THEN [is |-> "conflict", seq |-> 0]
                         ELSE answer[r]]
        /\ effective' = [effective EXCEPT ![h] = IF b.kind = "settings" THEN NoSettings ELSE @]
        /\ job' = [job EXCEPT ![h][j] = IdleJob]
        /\ UNCHANGED <<mf, seg, side, others, crashes>>

\* effective_config: the cache is used while the settings revision is the same.
EffectiveConfig(h) ==
    /\ hman[h].set.rev # 0 /\ effective[h].rev # hman[h].set.rev
    /\ effective' = [effective EXCEPT ![h] = hman[h].set]
    /\ UNCHANGED <<mf, seg, side, hman, job, answer, others, crashes>>

\* The process dies with what it had in flight; a claimed slot is an orphan now.
\* Clients of the dead process hear nothing.  Without a claimed slot a crash only
\* forgets requests, so it is left out there.
HostCrash(h) ==
    /\ crashes < MaxCrashes /\ \E j \in Jobs : job[h][j].pc = "cas"
    /\ job' = [job EXCEPT ![h] = [j \in Jobs |-> IdleJob]]
    /\ answer' = [r \in Requests |->
                     IF r \in SeqSet(job[h]["push"].reqs)
                     THEN [is |-> "lost", seq |-> 0] ELSE answer[r]]
    /\ hman' = [hman EXCEPT ![h] = mf]
    /\ effective' = [effective EXCEPT ![h] = NoSettings]
    /\ crashes' = crashes + 1
    /\ UNCHANGED <<mf, seg, side, others>>

WritersNext ==
    \E h \in Hosts :
        \/ \E n \in 1 .. MaxBatch : \E batch \in [1 .. n -> Requests] : TakeBatch(h, batch)
        \/ \E t \in Settings : publish_settings(h, t)
        \/ publish_compact(h, "base") \/ add_pack(h, "history")
        \/ \E p \in hman[h].packs : annotate_pack(h, p)
        \/ RejectAll(h) \/ AnnotateUpload(h) \/ AnnotateGone(h) \/ EffectiveConfig(h) \/ HostCrash(h)
        \/ \E j \in Jobs : \/ JobSync(h, j) \/ ClaimSlot(h, j) \/ SlotContended(h, j)
                           \/ CasWins(h, j) \/ CasLoses(h, j) \/ GiveUp(h, j) \/ RecordLocally(h, j)

WritersSpec == WritersInit /\ [][WritersNext]_writerVars

(***************************************************************************)
(* Properties.                                                             *)
(***************************************************************************)

\* process_batch: a request that was told a seq is in the log there; one that was told
\* of a conflict or to try again is nowhere in it; and none is in it twice.
BatchAnswers ==
    LET log == Entries(mf)
    IN  /\ \A r \in Requests : answer[r].is = "ok" => [seq |-> answer[r].seq, req |-> r] \in log
        /\ \A e, f \in log : /\ answer[e.req].is \notin {"conflict", "retry"}
                             /\ e.req = f.req => e = f

\* verify_txn across batches and instances: every push in the log found the value
\* it expected when the log is replayed in order.
BatchesSerial ==
    LET log == Entries(mf)
    IN  \A e \in log : Finds({f \in log : f.seq < e.seq}, RefOf[e.req], OldOf[e.req])

\* publish_settings: the manifest carries the last settings entry of the log, and
\* its revision counts them, whatever pushes and compactions were written between.
SettingsSerial ==
    LET at == {s \in mf.segs : seg[s].kind = "settings"}
    IN  /\ mf.set.rev = Cardinality(at)
        /\ at # {} => mf.set.toml = seg[CHOOSE s \in at : \A t \in at : t <= s].arg

\* effective_config: a cached configuration is never served for another document
\* with the same revision.
EffectiveFresh == \A h \in Hosts : effective[h].rev = hman[h].set.rev => effective[h].toml = hman[h].set.toml

\* publish_compact against pushes and annotations: the pack of every committed push
\* is listed, or a compaction that saw it came later; a bitmap the manifest promises
\* is in the bucket and of a listed pack.
PacksKept ==
    /\ \A s \in mf.segs : \A k \in DOMAIN seg[s].reqs :
          \/ PackOf[seg[s].reqs[k]] \in mf.packs
          \/ \E t \in mf.segs : t > s /\ PackOf[seg[s].reqs[k]] \in seg[t].sup
    /\ mf.bitmap \subseteq side \cap mf.packs

\* Pushes in batches are answered truthfully and form one serial history.
PushesSerial == BatchAnswers /\ BatchesSerial

\* Settings form one serial history, and an instance works with the document it knows.
SettingsKept == SettingsSerial /\ EffectiveFresh
============================================================================
