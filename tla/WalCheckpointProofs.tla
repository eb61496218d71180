------------------------ MODULE WalCheckpointProofs -------------------------
(***************************************************************************)
(* Checkpoints for any number of instances, entries and attempts: the      *)
(* snapshot and the tail of the log make up the history, for a cold start, *)
(* for a proven copy and for a reader of the past.                         *)
(*                                                                         *)
(* The argument: every manifest anybody holds describes the whole history  *)
(* up to its head (Held), whatever its age; a copy that is proven has it   *)
(* all (CopyInv), and so does one that a checkpoint task has found proven, *)
(* as long as that task goes on (WriterInv), because a sync that runs      *)
(* beside the task never has a reason to load a checkpoint.                *)
(*                                                                         *)
(* The second part is about the same log read out as it was at a seq       *)
(* (Rewind): a log is a function from seqs, replaying one part after the   *)
(* other is replaying both (Stitch), so a checkpoint and the entries since *)
(* give the state of the seq (RwOutInv), and no state of the history has a *)
(* ref outside its packs (StateInv).                                       *)
(***************************************************************************)
EXTENDS WalCheckpoint, Rewind, SequenceTheorems, WellFoundedInduction, NaturalsInduction, TLAPS

\* What the theorem needs: one task folds and no sync meets it but in the middle of the
\* task's own installation, or nothing folds and readers, repairs and late commits mix.
OneFolder ==
    \/ Writers = {}
    \/ /\ \A w, x \in Writers : w = x
       /\ Races \subseteq {"mid_sync"}
       /\ Readers = {}

\* The kinds of value, without their bounds.
ManRecs == [head : Nat, cp : Nat, segs : SUBSET Seqs, rev : Nat]
SyncRecs == [pc : {"idle", "load", "replay"}, who : Writers \cup {"none"}, man : ManRecs, force : BOOLEAN]
PubRecs == [pc : {"idle", "local"}, man : ManRecs]
CkRecs == [pc : {"idle", "sync", "rebuild", "read", "snap", "put", "base", "cas", "resync", "install"},
           seq : Nat, got : SUBSET Seqs, man : ManRecs, attempts : Nat, rebuilt : BOOLEAN]
RdRecs == [pc : {"idle", "log", "done"}, want : Nat, from : Nat, got : SUBSET Seqs]

CkTypes ==
    /\ manifest \in ManRecs /\ manifest.head <= MaxSeq
    /\ snap \in [Seqs -> SUBSET Seqs]
    /\ committed \subseteq Seqs
    /\ man \in [Instances -> ManRecs]
    /\ refs \in [Instances -> SUBSET Seqs]
    /\ applied \in [Instances -> Nat]
    /\ verified \in [Instances -> BOOLEAN]
    /\ sy \in [Instances -> SyncRecs]
    /\ pub \in [Instances -> PubRecs]
    /\ ck \in [Writers -> CkRecs]
    /\ rd \in [Readers -> RdRecs]

\* S holds every entry of com up to c, and nothing that is not in com.
SnapFor(c, S, com) == S \subseteq com /\ \A s \in com : s <= c => s \in S

\* An earlier state m of the manifest cur, or cur itself: its checkpoint and tail hold
\* everything up to its head.
HeldBy(m, cur, sn, com) ==
    /\ m.cp <= m.head /\ m.head <= cur.head /\ m.cp <= cur.cp /\ m.rev <= cur.rev
    /\ m.rev = cur.rev => m = cur
    /\ m.cp # 0 => SnapFor(m.cp, sn[m.cp], com)
    /\ m.segs \subseteq com
    /\ \A s \in com : m.cp < s /\ s <= m.head => s \in m.segs

\* A manifest somebody read.
Held(m) == HeldBy(m, manifest, snap, committed)

\* The copy of i holds every entry up to h.
Whole(i, h) == \A s \in committed : s <= h => s \in refs[i]

\* This sync will load no checkpoint.
NoLoad(i) == ~sy[i].force /\ applied[i] >= sy[i].man.cp

BucketInv ==
    /\ Held(manifest)
    /\ \A s \in committed : s <= manifest.head
    /\ Writers = {} => manifest.cp = 0

CopyInv(i) ==
    /\ Held(man[i])
    /\ refs[i] \subseteq committed /\ applied[i] <= manifest.head
    /\ verified[i] => sy[i].pc = "idle" /\ Whole(i, man[i].head) /\ Whole(i, applied[i])

SyncInv(i) ==
    sy[i].pc # "idle" =>
        /\ Held(sy[i].man)
        /\ ~sy[i].force \/ sy[i].pc = "replay" => Whole(i, applied[i])
        /\ sy[i].pc = "replay" => applied[i] >= sy[i].man.cp
        /\ sy[i].man.rev < man[i].rev => NoLoad(i) /\ Whole(i, man[i].head)
        /\ sy[i].who \in Writers => /\ HostOf[sy[i].who] = i
                                    /\ ck[sy[i].who].pc \in {"sync", "resync"}
                                    /\ manifest.cp <= sy[i].man.head

\* A push that won its CAS: what came before it is in the copy, or the sync under way
\* brings it, or the copy is unproven.
PubInv(i) ==
    pub[i].pc = "local" =>
        /\ Held(pub[i].man) /\ pub[i].man.head \in committed
        /\ \A s \in committed : s < pub[i].man.head =>
              \/ sy[i].pc = "idle" /\ ~verified[i]
              \/ sy[i].pc # "idle" /\ s <= sy[i].man.head
              \/ s \in refs[i] /\ (sy[i].pc = "load" => NoLoad(i))

\* The places of a task that has found its host's refs proven and not yet ended.
Folding == {"snap", "put", "base", "cas", "resync", "install"}

\* A push on the task's host is ahead of all that the host and the task hold.
AheadInv(w) ==
    LET i == HostOf[w]
    IN  pub[i].pc = "local" =>
            /\ man[i].head <= pub[i].man.head /\ manifest.cp <= pub[i].man.head
            /\ sy[i].pc # "idle" => sy[i].man.head <= pub[i].man.head
            /\ ck[w].pc \in Folding => ck[w].seq <= pub[i].man.head
            /\ ck[w].pc \in {"cas", "install"} => ck[w].man.head <= pub[i].man.head

\* While the task goes on the refs of its host only grow.
FoldingInv(w) ==
    LET i == HostOf[w]
    IN  ck[w].pc \in Folding =>
            /\ 1 <= ck[w].seq /\ manifest.cp <= ck[w].seq
            /\ ck[w].seq <= applied[i] /\ ck[w].seq <= man[i].head
            /\ Whole(i, applied[i]) /\ Whole(i, man[i].head)
            /\ IF sy[i].pc = "idle" THEN verified[i]
               ELSE ~sy[i].force /\ ck[w].seq <= sy[i].man.head

WriterInv(w) ==
    LET i == HostOf[w]
    IN  /\ ck[w].pc = "read" => /\ manifest.cp <= man[i].head
                                /\ sy[i].pc # "idle" => manifest.cp <= sy[i].man.head
        /\ ck[w].pc = "put" => SnapFor(ck[w].seq, ck[w].got, committed)
        /\ ck[w].pc \in {"base", "cas", "resync"} => SnapFor(ck[w].seq, snap[ck[w].seq], committed)
        /\ ck[w].pc \in {"cas", "install"} =>
              Held(ck[w].man) /\ ck[w].seq <= ck[w].man.head /\ Whole(i, ck[w].man.head)

\* With no checkpoint the answer is the log itself.
ReaderInv(r) ==
    Writers = {} =>
        /\ rd[r].pc = "log" => rd[r].from = 0 /\ rd[r].got = {} /\ rd[r].want <= manifest.head
        /\ rd[r].pc = "done" => /\ rd[r].got = {s \in committed : s <= rd[r].want}
                                /\ rd[r].want <= manifest.head

CkInv ==
    /\ OneFolder /\ CkTypes /\ BucketInv
    /\ \A i \in Instances : CopyInv(i) /\ SyncInv(i) /\ PubInv(i)
    /\ \A w \in Writers : AheadInv(w) /\ FoldingInv(w) /\ WriterInv(w)
    /\ \A r \in Readers : ReaderInv(r)

-----------------------------------------------------------------------------
(* Manifests. *)

LEMMA SeqFacts == MaxSeq \in Nat /\ Seqs \subseteq Nat /\ (\A s \in Seqs : s # 0)
  BY ConstantsAssumption DEF Seqs

LEMMA HostFacts == /\ \A w \in Writers : HostOf[w] \in Instances
                   /\ \A r \in Readers : HostOf[r] \in Instances
                   /\ "none" \notin Writers
  BY ConstantsAssumption

\* A commit at a new seq leaves every held manifest what it is.
LEMMA HeldCommit ==
    ASSUME NEW m \in ManRecs, NEW cur \in ManRecs, NEW sn, NEW com \in SUBSET Seqs, NEW s \in Seqs,
           HeldBy(m, cur, sn, com), s > cur.head, NEW n \in ManRecs,
           n.head = s, n.cp = cur.cp, n.rev = cur.rev + 1
    PROVE  HeldBy(m, n, sn, com \cup {s})
<1>1. m.head \in Nat /\ m.cp \in Nat /\ m.rev \in Nat /\ cur.head \in Nat /\ cur.rev \in Nat /\ cur.cp \in Nat /\ s \in Nat
  BY SeqFacts DEF ManRecs
<1>2. m.head < s /\ m.cp < s /\ m.rev < n.rev /\ m.cp <= n.cp
  BY <1>1 DEF HeldBy
<1>3. m.cp # 0 => SnapFor(m.cp, sn[m.cp], com \cup {s})
  BY <1>1, <1>2 DEF HeldBy, SnapFor
<1> QED BY <1>1, <1>2, <1>3 DEF HeldBy

\* The manifest of that commit is held.
LEMMA CommitHeld ==
    ASSUME NEW cur \in ManRecs, NEW sn, NEW com \in SUBSET Seqs, NEW s \in Seqs,
           HeldBy(cur, cur, sn, com), \A t \in com : t <= cur.head, s > cur.head, NEW n \in ManRecs,
           n.head = s, n.cp = cur.cp, n.rev = cur.rev + 1, n.segs = cur.segs \cup {s}
    PROVE  HeldBy(n, n, sn, com \cup {s})
<1>1. cur.head \in Nat /\ cur.rev \in Nat /\ cur.cp \in Nat /\ s \in Nat /\ com \subseteq Nat
  BY SeqFacts DEF ManRecs
<1>3. n.cp # 0 => SnapFor(n.cp, sn[n.cp], com \cup {s})
  BY <1>1 DEF HeldBy, SnapFor
<1> QED BY <1>1, <1>3 DEF HeldBy

\* A checkpoint at c, whose snapshot is good, leaves every held manifest what it is.
LEMMA HeldFold ==
    ASSUME NEW m \in ManRecs, NEW cur \in ManRecs, NEW sn, NEW com, NEW n \in ManRecs,
           HeldBy(m, cur, sn, com), cur.cp <= n.cp, n.head = cur.head, n.rev = cur.rev + 1
    PROVE  HeldBy(m, n, sn, com)
<1>1. m.head \in Nat /\ m.cp \in Nat /\ m.rev \in Nat /\ cur.head \in Nat /\ cur.rev \in Nat
      /\ cur.cp \in Nat /\ n.cp \in Nat
  BY DEF ManRecs
<1>2. m.rev < n.rev /\ m.cp <= n.cp
  BY <1>1 DEF HeldBy
<1> QED BY <1>1, <1>2 DEF HeldBy

LEMMA FoldHeld ==
    ASSUME NEW cur \in ManRecs, NEW sn, NEW com \in SUBSET Seqs, NEW n \in ManRecs,
           HeldBy(cur, cur, sn, com), cur.cp <= n.cp, n.cp <= cur.head,
           n.head = cur.head, n.rev = cur.rev + 1, n.segs = {s \in cur.segs : s > n.cp},
           SnapFor(n.cp, sn[n.cp], com)
    PROVE  HeldBy(n, n, sn, com)
<1>1. cur.head \in Nat /\ cur.rev \in Nat /\ cur.cp \in Nat /\ n.cp \in Nat /\ com \subseteq Nat
  BY SeqFacts DEF ManRecs
<1> QED BY <1>1 DEF HeldBy

\* A snapshot that is written is as good as the one it replaces.
LEMMA HeldPut ==
    ASSUME NEW m \in ManRecs, NEW cur, NEW sn \in [Seqs -> SUBSET Seqs], NEW com, NEW c \in Seqs, NEW S,
           HeldBy(m, cur, sn, com), m.cp # 0 => m.cp \in Seqs, SnapFor(c, S, com)
    PROVE  HeldBy(m, cur, [sn EXCEPT ![c] = S], com)
<1>1. CASE m.cp = c
  BY <1>1 DEF HeldBy
<1>2. CASE m.cp # c
  BY <1>2 DEF HeldBy
<1> QED BY <1>1, <1>2

\* The refs a held manifest defines.
LEMMA HeldFolds ==
    ASSUME NEW m \in ManRecs, Held(m), committed \subseteq Seqs
    PROVE  FoldOf(m) \subseteq committed /\ \A s \in committed : s <= m.head => s \in FoldOf(m)
<1>1. m.cp \in Nat /\ m.head \in Nat /\ committed \subseteq Nat /\ (\A s \in committed : s # 0)
  BY SeqFacts DEF ManRecs
<1>2. CASE m.cp = 0
  <2>1. FoldOf(m) = {s \in m.segs : s > 0}
    BY <1>2 DEF FoldOf, Snapshot
  <2>2. m.segs \subseteq committed /\ \A s \in committed : s > 0 /\ (s <= m.head => s \in m.segs)
    BY <1>1, <1>2 DEF Held, HeldBy
  <2> QED BY <2>1, <2>2
<1>3. CASE m.cp # 0
  BY <1>1, <1>3 DEF Held, HeldBy, FoldOf, Snapshot, SnapFor
<1> QED BY <1>2, <1>3

LEMMA HeldHead ==
    ASSUME NEW m \in ManRecs, manifest \in ManRecs, Held(m)
    PROVE  m.head <= manifest.head /\ m.cp <= manifest.head
<1>1. m.cp <= m.head /\ m.head <= manifest.head
  BY DEF Held, HeldBy
<1> QED BY <1>1 DEF ManRecs

LEMMA SameRev ==
    ASSUME NEW m, Held(m), m.rev = manifest.rev PROVE m = manifest
  BY DEF Held, HeldBy

LEMMA EmptyHeld == EmptyManifest \in ManRecs
  BY DEF EmptyManifest, ManRecs

-----------------------------------------------------------------------------
(* The initial states. *)

LEMMA CkInvInit == OneFolder /\ Init => CkInv
<1> SUFFICES ASSUME OneFolder, Init PROVE CkInv
  OBVIOUS
<1>1. EmptyManifest.head = 0 /\ EmptyManifest.cp = 0 /\ EmptyManifest.rev = 1 /\ EmptyManifest.segs = {}
  BY DEF EmptyManifest
<1>2. CkTypes
  <2>1. IdleSync \in SyncRecs /\ NoPub \in PubRecs /\ IdleCk \in CkRecs /\ IdleRd \in RdRecs
    BY EmptyHeld DEF SyncRecs, PubRecs, CkRecs, RdRecs, IdleSync, NoPub, IdleCk, IdleRd
  <2> QED BY <2>1, <1>1, EmptyHeld, SeqFacts DEF Init, CkTypes
<1>3. Held(EmptyManifest)
  BY <1>1 DEF Init, Held, HeldBy
<1>4. BucketInv
  BY <1>1, <1>3 DEF Init, BucketInv
<1>5. ASSUME NEW i \in Instances PROVE CopyInv(i) /\ SyncInv(i) /\ PubInv(i)
  BY <1>1, <1>3 DEF Init, CopyInv, SyncInv, PubInv, Whole, IdleSync, NoPub
<1>6. ASSUME NEW w \in Writers PROVE AheadInv(w) /\ FoldingInv(w) /\ WriterInv(w)
  BY HostFacts DEF Init, AheadInv, FoldingInv, WriterInv, IdleCk, NoPub, Folding
<1>7. ASSUME NEW r \in Readers PROVE ReaderInv(r)
  BY DEF Init, ReaderInv, IdleRd
<1> QED BY <1>2, <1>4, <1>5, <1>6, <1>7 DEF CkInv

-----------------------------------------------------------------------------
(* Steps of one instance that leave the bucket alone. *)

SameElsewhere(i) ==
    /\ \A j \in Instances : j # i => /\ man'[j] = man[j] /\ refs'[j] = refs[j]
                                     /\ applied'[j] = applied[j] /\ verified'[j] = verified[j]
                                     /\ sy'[j] = sy[j] /\ pub'[j] = pub[j]
    /\ \A w \in Writers : HostOf[w] # i => ck'[w] = ck[w]

TaskInv(w) == AheadInv(w) /\ FoldingInv(w) /\ WriterInv(w)

\* What is left to prove of such a step is what it does to its own instance.
LEMMA HostStep ==
    ASSUME CkInv, NEW i \in Instances, UNCHANGED bucket, SameElsewhere(i), CkTypes',
           (CopyInv(i) /\ SyncInv(i) /\ PubInv(i))',
           \A w \in Writers : HostOf[w] = i => TaskInv(w)',
           \A r \in Readers : ReaderInv(r)'
    PROVE  CkInv'
<1>1. BucketInv'
  BY DEF CkInv, BucketInv, bucket, Held
<1>2. ASSUME NEW j \in Instances, j # i PROVE (CopyInv(j) /\ SyncInv(j) /\ PubInv(j))'
  <2>1. CopyInv(j) /\ SyncInv(j) /\ PubInv(j)
    BY DEF CkInv
  <2>2. /\ man'[j] = man[j] /\ refs'[j] = refs[j] /\ applied'[j] = applied[j]
        /\ verified'[j] = verified[j] /\ sy'[j] = sy[j] /\ pub'[j] = pub[j]
        /\ manifest' = manifest /\ committed' = committed /\ snap' = snap
    BY <1>2 DEF SameElsewhere, bucket
  <2>3. CopyInv(j)'
    BY <2>1, <2>2 DEF CopyInv, Held, Whole
  <2>4. SyncInv(j)'
    <3>1. ASSUME sy[j].pc # "idle", sy[j].who \in Writers PROVE ck'[sy[j].who] = ck[sy[j].who]
      BY <3>1, <2>1, <1>2 DEF SyncInv, SameElsewhere
    <3> QED BY <3>1, <2>1, <2>2 DEF SyncInv, Held, Whole, NoLoad
  <2>5. PubInv(j)'
    BY <2>1, <2>2 DEF PubInv, Held, NoLoad
  <2> QED BY <2>3, <2>4, <2>5
<1>3. ASSUME NEW w \in Writers, HostOf[w] # i PROVE TaskInv(w)'
  <2>1. AheadInv(w) /\ FoldingInv(w) /\ WriterInv(w) /\ HostOf[w] \in Instances
    BY HostFacts DEF CkInv
  <2> DEFINE j == HostOf[w]
  <2>2. /\ man'[j] = man[j] /\ refs'[j] = refs[j] /\ applied'[j] = applied[j]
        /\ verified'[j] = verified[j] /\ sy'[j] = sy[j] /\ pub'[j] = pub[j] /\ ck'[w] = ck[w]
        /\ manifest' = manifest /\ committed' = committed /\ snap' = snap
    BY <1>3, <2>1 DEF SameElsewhere, bucket
  <2>3. AheadInv(w)'
    BY <2>1, <2>2 DEF AheadInv
  <2>4. FoldingInv(w)'
    BY <2>1, <2>2 DEF FoldingInv, Whole
  <2>5. WriterInv(w)'
    BY <2>1, <2>2 DEF WriterInv, Held, Whole
  <2> QED BY <2>3, <2>4, <2>5 DEF TaskInv
<1>4. OneFolder'
  BY DEF CkInv, OneFolder
<1>5. \A j \in Instances : (CopyInv(j) /\ SyncInv(j) /\ PubInv(j))'
  BY <1>2
<1>6. \A w \in Writers : TaskInv(w)'
  BY <1>3
<1> QED BY <1>1, <1>4, <1>5, <1>6 DEF CkInv, TaskInv

\* Readers wait while the bucket stands still.
LEMMA ReadersRest ==
    ASSUME CkInv, UNCHANGED <<bucket, rd>> PROVE \A r \in Readers : ReaderInv(r)'
  BY DEF CkInv, ReaderInv, bucket

\* A step of a task that changes nothing but itself.
LEMMA TaskStep ==
    ASSUME CkInv, NEW w \in Writers, NEW q \in CkRecs, ck' = [ck EXCEPT ![w] = q],
           UNCHANGED <<bucket, copy, sy, pub, rd>>, TaskInv(w)',
           ck[w].pc \in {"sync", "resync"} => sy[HostOf[w]].pc = "idle" \/ q.pc = ck[w].pc
    PROVE  CkInv'
<1> DEFINE i == HostOf[w]
<1>1. i \in Instances /\ (\A x \in Writers : x = w)
  BY HostFacts DEF CkInv, OneFolder
<1>2. CkTypes'
  BY DEF CkInv, CkTypes, bucket, copy
<1>3. SameElsewhere(i)
  BY <1>1 DEF SameElsewhere, bucket, copy
<1>4. CopyInv(i) /\ SyncInv(i) /\ PubInv(i)
  BY <1>1 DEF CkInv
<1>5. ck'[w] = q
  BY DEF CkInv, CkTypes
<1>6. CopyInv(i)' /\ PubInv(i)'
  BY <1>4 DEF CopyInv, PubInv, Held, Whole, NoLoad, bucket, copy
<1>7. SyncInv(i)'
  <2>1. ASSUME sy[i].pc # "idle", sy[i].who \in Writers PROVE sy[i].who = w /\ q.pc \in {"sync", "resync"}
    BY <2>1, <1>1, <1>4 DEF SyncInv
  <2> QED BY <2>1, <1>4, <1>5 DEF SyncInv, Held, Whole, NoLoad, bucket, copy
<1>8. UNCHANGED bucket /\ UNCHANGED <<bucket, rd>>
  OBVIOUS
<1>9. \A x \in Writers : HostOf[x] = i => TaskInv(x)'
  BY <1>1
<1> QED BY <1>1, <1>2, <1>3, <1>6, <1>7, <1>8, <1>9, ReadersRest, HostStep

-----------------------------------------------------------------------------
(* The steps of a checkpoint task that read. *)

\* A task that holds nothing that could go stale.
LEMMA TaskAtRest ==
    ASSUME CkInv, NEW w \in Writers, NEW q \in CkRecs, ck' = [ck EXCEPT ![w] = q],
           UNCHANGED <<bucket, copy, sy, pub, rd>>, q.pc \in {"idle", "sync", "rebuild"}
    PROVE  TaskInv(w)'
<1>1. ck'[w] = q
  BY DEF CkInv, CkTypes
<1>2. AheadInv(w) /\ HostOf[w] \in Instances
  BY HostFacts DEF CkInv
<1>3. AheadInv(w)'
  BY <1>1, <1>2 DEF AheadInv, Folding, bucket, copy
<1> QED BY <1>1, <1>3 DEF TaskInv, FoldingInv, WriterInv, Folding

LEMMA IdleCkRec == IdleCk \in CkRecs /\ IdleCk.pc = "idle"
  BY EmptyHeld DEF IdleCk, CkRecs

LEMMA CkFacts ==
    ASSUME CkInv, NEW w \in Writers
    PROVE  /\ ck[w] \in CkRecs /\ HostOf[w] \in Instances /\ (\A x \in Writers : x = w)
           /\ Readers = {} /\ "late_commit" \notin Races /\ "repair" \notin Races
           /\ AheadInv(w) /\ FoldingInv(w) /\ WriterInv(w)
           /\ man[HostOf[w]] \in ManRecs /\ CopyInv(HostOf[w]) /\ SyncInv(HostOf[w]) /\ PubInv(HostOf[w])
  BY HostFacts DEF CkInv, CkTypes, OneFolder

LEMMA CkStartKeeps == ASSUME CkInv, NEW w \in Writers, CkStart(w) PROVE CkInv'
<1> DEFINE q == [ck[w] EXCEPT !.pc = "sync"]
<1>1. ck' = [ck EXCEPT ![w] = q] /\ UNCHANGED <<bucket, copy, sy, pub, rd>> /\ ck[w].pc = "idle"
  BY DEF CkStart, CkUnchanged
<1>2. q \in CkRecs /\ q.pc = "sync"
  BY CkFacts DEF CkRecs
<1> QED BY <1>1, <1>2, TaskAtRest, TaskStep

\* Proven refs at head: from here on the task is folding.
LEMMA CkReadKeeps == ASSUME CkInv, NEW w \in Writers, CkRead(w) PROVE CkInv'
<1> DEFINE i == HostOf[w]
           proven == applied[i] = man[i].head /\ verified[i]
           due == man[i].head # 0 /\ man[i].cp # man[i].head
           q1 == [ck[w] EXCEPT !.pc = "snap", !.seq = man[i].head]
           q2 == [ck[w] EXCEPT !.pc = "rebuild", !.rebuilt = TRUE]
<1>1. UNCHANGED <<bucket, copy, sy, pub, rd>> /\ ck[w].pc = "read"
  BY DEF CkRead, CkUnchanged
<1>2. CASE proven /\ due
  <2>1. ck' = [ck EXCEPT ![w] = q1]
    BY <1>2 DEF CkRead
  <2>2. man[i].head \in Nat
    BY CkFacts DEF ManRecs
  <2>3. q1 \in CkRecs /\ q1.pc = "snap" /\ q1.seq = man[i].head
    BY <2>2, CkFacts DEF CkRecs
  <2>4. ck'[w] = q1
    BY <2>1 DEF CkInv, CkTypes
  <2> HIDE DEF q1
  <2>5. /\ verified[i] => sy[i].pc = "idle" /\ Whole(i, man[i].head) /\ Whole(i, applied[i])
        /\ manifest.cp <= man[i].head
    BY <1>1, CkFacts DEF CopyInv, WriterInv
  <2>6. AheadInv(w)'
    BY <1>1, <2>2, <2>3, <2>4, CkFacts DEF AheadInv, bucket, copy
  <2>7. FoldingInv(w)'
    BY <1>1, <1>2, <2>2, <2>3, <2>4, <2>5 DEF FoldingInv, Whole, bucket, copy
  <2>8. WriterInv(w)'
    BY <2>3, <2>4 DEF WriterInv
  <2> QED BY <1>1, <2>1, <2>3, <2>6, <2>7, <2>8, TaskStep DEF TaskInv
<1>3. CASE ~(proven /\ due) /\ ~proven /\ ~ck[w].rebuilt
  <2>1. ck' = [ck EXCEPT ![w] = q2]
    BY <1>3 DEF CkRead
  <2>2. q2 \in CkRecs /\ q2.pc = "rebuild"
    BY CkFacts DEF CkRecs
  <2> QED BY <1>1, <2>1, <2>2, TaskAtRest, TaskStep
<1>4. CASE ~(proven /\ due) /\ ~(~proven /\ ~ck[w].rebuilt)
  <2>1. ck' = [ck EXCEPT ![w] = IdleCk]
    BY <1>4 DEF CkRead
  <2> QED BY <1>1, <2>1, IdleCkRec, TaskAtRest, TaskStep
<1> QED BY <1>2, <1>3, <1>4

\* A task that goes on folding with the same seq.
LEMMA GoesOn ==
    ASSUME CkInv, NEW w \in Writers, NEW q \in CkRecs, ck' = [ck EXCEPT ![w] = q],
           UNCHANGED <<bucket, copy, sy, pub, rd>>, ck[w].pc \in Folding, q.pc \in Folding,
           q.seq = ck[w].seq, q.pc \in {"cas", "install"} => q.man.head <= man[HostOf[w]].head
    PROVE  AheadInv(w)' /\ FoldingInv(w)'
<1>1. ck'[w] = q
  BY DEF CkInv, CkTypes
<1>2. q.man.head \in Nat /\ man[HostOf[w]].head \in Nat
  BY CkFacts DEF CkRecs, ManRecs
<1>3. pub[HostOf[w]].man.head \in Nat
  BY CkFacts DEF CkInv, CkTypes, PubRecs, ManRecs
<1>4. AheadInv(w)'
  BY <1>1, <1>2, <1>3, CkFacts DEF AheadInv, bucket, copy
<1>5. FoldingInv(w)'
  BY <1>1, CkFacts DEF FoldingInv, Whole, bucket, copy
<1> QED BY <1>4, <1>5

LEMMA CkSnapKeeps == ASSUME CkInv, NEW w \in Writers, CkSnap(w) PROVE CkInv'
<1> DEFINE i == HostOf[w]
           q == [ck[w] EXCEPT !.pc = "put", !.got = refs[i]]
<1>1. ck' = [ck EXCEPT ![w] = q] /\ UNCHANGED <<bucket, copy, sy, pub, rd>> /\ ck[w].pc = "snap"
  BY DEF CkSnap, CkUnchanged
<1>2. refs[i] \in SUBSET Seqs
  BY CkFacts DEF CkInv, CkTypes
<1>3. q \in CkRecs /\ q.pc = "put" /\ q.got = refs[i] /\ q.seq = ck[w].seq
  BY <1>2, CkFacts DEF CkRecs
<1>4. ck'[w] = q
  BY <1>1 DEF CkInv, CkTypes
<1> HIDE DEF q
<1>5. AheadInv(w)' /\ FoldingInv(w)'
  BY <1>1, <1>3, GoesOn DEF Folding
<1>6. WriterInv(w)'
  <2>1. refs[i] \subseteq committed /\ Whole(i, applied[i]) /\ ck[w].seq <= applied[i]
    BY <1>1, CkFacts DEF CopyInv, FoldingInv, Folding
  <2>2. ck[w].seq \in Nat /\ applied[i] \in Nat /\ committed \subseteq Nat
    BY CkFacts, SeqFacts DEF CkInv, CkTypes, CkRecs
  <2>3. SnapFor(ck[w].seq, refs[i], committed)
    BY <2>1, <2>2 DEF SnapFor, Whole
  <2> QED BY <1>1, <1>3, <1>4, <2>3 DEF WriterInv, bucket
<1> QED BY <1>1, <1>3, <1>5, <1>6, TaskStep DEF TaskInv

LEMMA CkBaseKeeps == ASSUME CkInv, NEW w \in Writers, CkBase(w) PROVE CkInv'
<1> DEFINE i == HostOf[w]
           m == man[i]
           q == [ck[w] EXCEPT !.pc = "cas", !.man = m]
<1>1. UNCHANGED <<bucket, copy, sy, pub, rd>> /\ ck[w].pc = "base"
  BY DEF CkBase, CkUnchanged
<1>2. CASE m.cp # 0 /\ m.cp >= m.head
  <2>1. ck' = [ck EXCEPT ![w] = IdleCk]
    BY <1>2 DEF CkBase
  <2> QED BY <1>1, <2>1, IdleCkRec, TaskAtRest, TaskStep
<1>3. CASE ~(m.cp # 0 /\ m.cp >= m.head)
  <2>1. ck' = [ck EXCEPT ![w] = q]
    BY <1>3 DEF CkBase
  <2>2. m \in ManRecs /\ m.head \in Nat
    BY CkFacts DEF ManRecs
  <2>3. q \in CkRecs /\ q.pc = "cas" /\ q.man = m /\ q.seq = ck[w].seq
    BY <2>2, CkFacts DEF CkRecs
  <2>4. ck'[w] = q
    BY <2>1 DEF CkInv, CkTypes
  <2> HIDE DEF q
  <2>5. AheadInv(w)' /\ FoldingInv(w)'
    <3>1. q.man.head <= man[HostOf[w]].head
      BY <2>2, <2>3
    <3> QED BY <1>1, <2>1, <2>2, <2>3, <3>1, GoesOn DEF Folding
  <2>6. WriterInv(w)'
    <3>1. Held(m) /\ Whole(i, m.head) /\ ck[w].seq <= m.head /\ SnapFor(ck[w].seq, snap[ck[w].seq], committed)
      BY <1>1, CkFacts DEF CopyInv, FoldingInv, WriterInv, Folding
    <3> QED BY <1>1, <2>3, <2>4, <3>1 DEF WriterInv, Held, Whole, bucket, copy
  <2> QED BY <1>1, <2>1, <2>3, <2>5, <2>6, TaskStep DEF TaskInv
<1> QED BY <1>2, <1>3

\* A lost CAS: another attempt after a sync, or the end.
LEMMA CkCasLost ==
    ASSUME CkInv, NEW w \in Writers, ck[w].pc = "cas", UNCHANGED <<bucket, copy, sy, pub, rd>>,
           ck' = [ck EXCEPT ![w] = IF ck[w].attempts + 1 >= MaxAttempts THEN IdleCk
                                   ELSE [ck[w] EXCEPT !.pc = "resync", !.attempts = ck[w].attempts + 1]]
    PROVE  CkInv'
<1> DEFINE q == [ck[w] EXCEPT !.pc = "resync", !.attempts = ck[w].attempts + 1]
<1>2. CASE ck[w].attempts + 1 >= MaxAttempts
  <2>1. ck' = [ck EXCEPT ![w] = IdleCk]
    BY <1>2
  <2> QED BY <2>1, IdleCkRec, TaskAtRest, TaskStep
<1>3. CASE ~(ck[w].attempts + 1 >= MaxAttempts)
  <2>1. ck' = [ck EXCEPT ![w] = q]
    BY <1>3
  <2>2. ck[w].attempts + 1 \in Nat
    BY CkFacts DEF CkRecs
  <2>3. q \in CkRecs /\ q.pc = "resync" /\ q.seq = ck[w].seq
    BY <2>2, CkFacts DEF CkRecs
  <2>4. ck'[w] = q
    BY <2>1 DEF CkInv, CkTypes
  <2> HIDE DEF q
  <2>5. AheadInv(w)' /\ FoldingInv(w)'
    BY <2>1, <2>3, GoesOn DEF Folding
  <2>6. WriterInv(w)'
    BY <2>3, <2>4, CkFacts DEF WriterInv, bucket
  <2> QED BY <2>1, <2>3, <2>5, <2>6, TaskStep DEF TaskInv
<1> QED BY <1>2, <1>3

-----------------------------------------------------------------------------
(* Syncs. *)

LEMMA CopyFacts ==
    ASSUME CkInv, NEW i \in Instances
    PROVE  /\ CopyInv(i) /\ SyncInv(i) /\ PubInv(i)
           /\ man[i] \in ManRecs /\ sy[i] \in SyncRecs /\ pub[i] \in PubRecs
           /\ manifest \in ManRecs /\ Held(manifest) /\ (\A s \in committed : s <= manifest.head)
           /\ applied[i] \in Nat /\ verified[i] \in BOOLEAN /\ refs[i] \subseteq Seqs
           /\ committed \subseteq Seqs /\ committed \subseteq Nat
  BY SeqFacts DEF CkInv, CkTypes, BucketInv

LEMMA ManFacts ==
    ASSUME NEW m \in ManRecs PROVE m.head \in Nat /\ m.cp \in Nat /\ m.rev \in Nat /\ m.segs \subseteq Seqs
  BY DEF ManRecs

\* A sync starts from the manifest in the bucket, and the copy is unproven until it ends.
LEMMA StartSyncKeeps ==
    ASSUME CkInv, NEW i \in Instances, NEW who \in Writers \cup {"none"}, NEW force \in BOOLEAN,
           StartSync(i, who, force), sy[i].pc = "idle",
           UNCHANGED <<bucket, man, refs, applied, saved, pub, rd>>, ck' \in [Writers -> CkRecs],
           \A w \in Writers : ck'[w] = ck[w] \/ (HostOf[w] = i /\ ck'[w].pc = "sync"),
           \A w \in Writers : HostOf[w] = i /\ ck'[w].pc \in Folding => ~force,
           ~force => verified[i],
           who \in Writers => HostOf[who] = i /\ ck'[who].pc \in {"sync", "resync"}
    PROVE  CkInv'
<1> DEFINE q == [pc |-> "load", who |-> who, force |-> force, man |-> manifest]
<1>1. sy' = [sy EXCEPT ![i] = q] /\ verified' = [verified EXCEPT ![i] = FALSE]
  <2>1. ~(manifest.rev < man[i].rev)
    BY CopyFacts, ManFacts DEF CopyInv, Held, HeldBy
  <2> QED BY <2>1 DEF StartSync
<1>2. /\ manifest' = manifest /\ snap' = snap /\ committed' = committed /\ man' = man
      /\ refs' = refs /\ applied' = applied /\ pub' = pub /\ rd' = rd
  BY DEF bucket
<1>3. q \in SyncRecs /\ q.pc = "load" /\ q.who = who /\ q.force = force /\ q.man = manifest
  BY CopyFacts DEF SyncRecs
<1>4. sy'[i] = q /\ verified'[i] = FALSE
  BY <1>1 DEF CkInv, CkTypes
<1> HIDE DEF q
<1>5. CkTypes'
  BY <1>1, <1>2, <1>3 DEF CkInv, CkTypes
<1>6. SameElsewhere(i)
  BY <1>1, <1>2 DEF SameElsewhere, CkInv, CkTypes
<1>7. CopyInv(i)'
  BY <1>2, <1>4, CopyFacts DEF CopyInv, Held, Whole
<1>8. SyncInv(i)'
  <2>1. ~force => Whole(i, applied[i])
    BY CopyFacts DEF CopyInv
  <2>2. ~(manifest.rev < man[i].rev) /\ manifest.cp <= manifest.head
    BY CopyFacts, ManFacts DEF CopyInv, Held, HeldBy
  <2> QED BY <1>2, <1>3, <1>4, <2>1, <2>2, CopyFacts DEF SyncInv, Held, Whole, NoLoad
<1>9. PubInv(i)'
  BY <1>2, <1>3, <1>4, CopyFacts DEF PubInv, Held
<1>10. ASSUME NEW w \in Writers, HostOf[w] = i PROVE TaskInv(w)'
  <2>1. pub[i].pc # "local"
    BY <1>10, CkFacts, CopyFacts DEF StartSync, PubRecs
  <2>2. AheadInv(w)'
    BY <1>2, <1>10, <2>1 DEF AheadInv
  <2>3. FoldingInv(w)'
    <3>1. CASE ck'[w].pc \in Folding
      <4>1. ck'[w] = ck[w] /\ ~force
        BY <3>1, <1>10 DEF Folding
      <4>2. man[i].head <= manifest.head /\ ck[w].seq <= man[i].head
        BY <3>1, <4>1, <1>10, CkFacts DEF CopyInv, Held, HeldBy, FoldingInv
      <4>3. ck[w].seq <= manifest.head
        BY <4>2, CkFacts, CopyFacts, ManFacts DEF CkRecs
      <4> QED BY <1>2, <1>3, <1>4, <1>10, <4>1, <4>3, CkFacts DEF FoldingInv, Whole
    <3> QED BY <3>1 DEF FoldingInv
  <2>4. WriterInv(w)'
    <3>1. CASE ck'[w] = ck[w]
      <4>1. manifest.cp <= manifest.head
        BY CopyFacts DEF Held, HeldBy
      <4> QED BY <1>2, <1>3, <1>4, <1>10, <3>1, <4>1, CkFacts DEF WriterInv, Held, Whole
    <3>2. CASE ck'[w].pc = "sync"
      BY <3>2 DEF WriterInv
    <3> QED BY <3>1, <3>2
  <2> QED BY <2>2, <2>3, <2>4 DEF TaskInv
<1> QED BY <1>2, <1>5, <1>6, <1>7, <1>8, <1>9, <1>10, ReadersRest, HostStep

LEMMA SyncStartKeeps == ASSUME CkInv, NEW i \in Instances, SyncStart(i) PROVE CkInv'
<1> DEFINE f == ~verified[i]
<1>1. /\ StartSync(i, "none", f) /\ sy[i].pc = "idle" /\ ck' = ck
      /\ UNCHANGED <<bucket, man, refs, applied, saved, pub, rd>>
  BY DEF SyncStart
<1>2. f \in BOOLEAN /\ (~f => verified[i])
  BY CopyFacts
<1>3. \A w \in Writers : HostOf[w] = i /\ ck'[w].pc \in Folding => ~f
  BY <1>1, CkFacts DEF FoldingInv
<1>4. ck' \in [Writers -> CkRecs] /\ (\A w \in Writers : ck'[w] = ck[w]) /\ "none" \notin Writers
  BY <1>1, HostFacts DEF CkInv, CkTypes
<1> HIDE DEF f
<1> QED BY <1>1, <1>2, <1>3, <1>4, StartSyncKeeps

LEMMA RepairKeeps == ASSUME CkInv, NEW i \in Instances, Repair(i) PROVE CkInv'
<1>1. /\ StartSync(i, "none", TRUE) /\ sy[i].pc = "idle" /\ ck' = ck
      /\ UNCHANGED <<bucket, man, refs, applied, saved, pub, rd>>
  BY DEF Repair
<1>2. Writers = {}
  BY CkFacts DEF Repair
<1>3. ck' \in [Writers -> CkRecs]
  BY <1>1 DEF CkInv, CkTypes
<1> QED BY <1>1, <1>2, <1>3, StartSyncKeeps

LEMMA CkSyncKeeps == ASSUME CkInv, NEW w \in Writers, CkSync(w) PROVE CkInv'
<1> DEFINE i == HostOf[w]
           next == IF ck[w].pc = "resync" THEN "base" ELSE "read"
           p == IF next = "base" THEN "resync" ELSE "sync"
           f == ck[w].pc = "rebuild" \/ ~verified[i]
           q1 == [ck[w] EXCEPT !.pc = next]
           q2 == [ck[w] EXCEPT !.pc = p]
<1>1. /\ ck[w].pc \in {"sync", "resync", "rebuild"} /\ sy[i].pc = "idle"
      /\ UNCHANGED <<bucket, man, refs, applied, saved, pub, rd>>
  BY DEF CkSync
<1>2. CASE Current(i) /\ ck[w].pc # "rebuild"
  <2>1. ck' = [ck EXCEPT ![w] = q1] /\ UNCHANGED <<bucket, copy, sy, pub, rd>>
    BY <1>1, <1>2 DEF CkSync, copy
  <2>2. q1 \in CkRecs /\ q1.pc = next /\ q1.seq = ck[w].seq
    BY CkFacts DEF CkRecs
  <2>3. ck'[w] = q1
    BY <2>1 DEF CkInv, CkTypes
  <2>4. man[i] = manifest
    BY <1>2, CkFacts, SameRev DEF Current, CopyInv
  <2>5. manifest.cp <= man[i].head
    BY <2>4, CkFacts, CopyFacts DEF Held, HeldBy
  <2>6. TaskInv(w)'
    <3>1. CASE ck[w].pc = "resync"
      <4>1. q1.pc = "base"
        BY <2>2, <3>1
      <4>2. AheadInv(w)' /\ FoldingInv(w)'
        BY <2>1, <2>2, <3>1, <4>1, GoesOn DEF Folding
      <4>3. WriterInv(w)'
        BY <2>1, <2>2, <2>3, <3>1, <4>1, CkFacts DEF WriterInv, bucket
      <4> QED BY <4>2, <4>3 DEF TaskInv
    <3>2. CASE ck[w].pc # "resync"
      <4>1. q1.pc = "read"
        BY <2>2, <3>2
      <4>2. AheadInv(w)'
        BY <2>1, <2>3, <4>1, CkFacts DEF AheadInv, Folding, bucket, copy
      <4>3. FoldingInv(w)'
        BY <2>3, <4>1 DEF FoldingInv, Folding
      <4>4. WriterInv(w)'
        BY <1>1, <2>1, <2>3, <2>5, <4>1 DEF WriterInv, bucket, copy
      <4> QED BY <4>2, <4>3, <4>4 DEF TaskInv
    <3> QED BY <3>1, <3>2
  <2> QED BY <1>1, <2>1, <2>2, <2>6, TaskStep
<1>3. CASE ~(Current(i) /\ ck[w].pc # "rebuild")
  <2>1. ck' = [ck EXCEPT ![w] = q2] /\ StartSync(i, w, f)
    BY <1>3 DEF CkSync
  <2>2. q2 \in CkRecs /\ q2.pc = p
    BY CkFacts DEF CkRecs
  <2>3. ck'[w] = q2 /\ ck' \in [Writers -> CkRecs]
    BY <2>1, <2>2 DEF CkInv, CkTypes
  <2>4. ck'[w] = ck[w] \/ ck'[w].pc = "sync"
    <3>1. CASE ck[w].pc = "resync"
      BY <2>3, <3>1, CkFacts DEF CkRecs
    <3>2. CASE ck[w].pc # "resync"
      BY <2>2, <2>3, <3>2
    <3> QED BY <3>1, <3>2
  <2>5. ck'[w].pc \in {"sync", "resync"}
    BY <2>2, <2>3
  <2>6. ck'[w].pc \in Folding => ~f
    <3>1. CASE ck[w].pc = "resync"
      BY <1>1, <3>1, CkFacts DEF FoldingInv, Folding
    <3>2. CASE ck[w].pc # "resync"
      BY <2>2, <2>3, <3>2 DEF Folding
    <3> QED BY <3>1, <3>2
  <2>7. f \in BOOLEAN /\ (~f => verified[i]) /\ i \in Instances
    BY CkFacts
  <2> HIDE DEF f, p, q2
  <2> QED BY <1>1, <2>1, <2>3, <2>4, <2>5, <2>6, <2>7, CkFacts, StartSyncKeeps
<1> QED BY <1>2, <1>3

\* A task that is folding never meets a sync that loads a checkpoint.
LEMMA FoldingNoLoad ==
    ASSUME CkInv, NEW w \in Writers, ck[w].pc \in Folding, sy[HostOf[w]].pc # "idle"
    PROVE  NoLoad(HostOf[w])
<1> DEFINE i == HostOf[w]
<1>1. i \in Instances /\ SyncInv(i) /\ FoldingInv(w) /\ ck[w] \in CkRecs
  BY CkFacts
<1>2. /\ ~sy[i].force /\ manifest.cp <= ck[w].seq /\ ck[w].seq <= applied[i]
      /\ sy[i].man.cp <= manifest.cp
  BY <1>1 DEF FoldingInv, SyncInv, Held, HeldBy
<1>3. sy[i].man.cp \in Nat /\ manifest.cp \in Nat /\ ck[w].seq \in Nat /\ applied[i] \in Nat
  BY <1>1, CopyFacts, ManFacts DEF CkRecs, SyncRecs
<1> QED BY <1>2, <1>3 DEF NoLoad

LEMMA SyncLoadKeeps == ASSUME CkInv, NEW i \in Instances, SyncLoad(i) PROVE CkInv'
<1> DEFINE m == sy[i].man
           q == [sy[i] EXCEPT !.pc = "replay"]
<1>1. /\ sy[i].pc = "load" /\ sy' = [sy EXCEPT ![i] = q]
      /\ manifest' = manifest /\ snap' = snap /\ committed' = committed /\ man' = man
      /\ verified' = verified /\ pub' = pub /\ ck' = ck /\ rd' = rd
  BY DEF SyncLoad, bucket
<1>2. q \in SyncRecs /\ q.pc = "replay" /\ q.man = m /\ q.who = sy[i].who /\ q.force = sy[i].force
  BY CopyFacts DEF SyncRecs
<1>3. sy'[i] = q
  BY <1>1 DEF CkInv, CkTypes
<1>4. m \in ManRecs /\ m.cp \in Nat /\ applied[i] \in Nat /\ Held(m) /\ committed \subseteq Nat
      /\ man[i].head \in Nat /\ (\A s \in committed : s # 0)
  BY <1>1, CopyFacts, ManFacts, SeqFacts DEF SyncInv, SyncRecs
<1> HIDE DEF q
<1>5. CASE NoLoad(i)
  <2>1. refs' = refs /\ applied' = applied
    BY <1>4, <1>5 DEF SyncLoad, NoLoad
  <2>2. CkTypes'
    BY <1>1, <1>2, <2>1 DEF CkInv, CkTypes
  <2>3. SameElsewhere(i)
    BY <1>1, <2>1 DEF SameElsewhere, CkInv, CkTypes
  <2>4. CopyInv(i)'
    BY <1>1, <1>2, <1>3, <2>1, CopyFacts DEF CopyInv, Held, Whole
  <2>5. SyncInv(i)'
    BY <1>1, <1>2, <1>3, <1>5, <2>1, CopyFacts DEF SyncInv, Held, Whole, NoLoad
  <2>6. PubInv(i)'
    BY <1>1, <1>2, <1>3, <1>5, <2>1, CopyFacts DEF PubInv, Held, NoLoad
  <2>7. ASSUME NEW w \in Writers, HostOf[w] = i PROVE TaskInv(w)'
    <3>1. AheadInv(w)'
      BY <1>1, <1>2, <1>3, <2>1, <2>7, CkFacts DEF AheadInv
    <3>2. FoldingInv(w)'
      BY <1>1, <1>2, <1>3, <2>1, <2>7, CkFacts DEF FoldingInv, Whole
    <3>3. WriterInv(w)'
      BY <1>1, <1>2, <1>3, <2>1, <2>7, CkFacts DEF WriterInv, Whole, Held
    <3> QED BY <3>1, <3>2, <3>3 DEF TaskInv
  <2>8. UNCHANGED bucket /\ UNCHANGED <<bucket, rd>>
    BY <1>1 DEF bucket
  <2> QED BY <2>2, <2>3, <2>4, <2>5, <2>6, <2>7, <2>8, ReadersRest, HostStep
<1>6. CASE ~NoLoad(i)
  <2>1. refs' = [refs EXCEPT ![i] = Snapshot(m.cp)] /\ applied' = [applied EXCEPT ![i] = m.cp]
    <3>1. sy[i].force \/ applied[i] < m.cp
      BY <1>4, <1>6 DEF NoLoad
    <3> QED BY <3>1 DEF SyncLoad
  <2>2. /\ Snapshot(m.cp) \subseteq committed
        /\ \A s \in committed : s <= m.cp => s \in Snapshot(m.cp)
    <3>1. CASE m.cp = 0
      <4>1. Snapshot(m.cp) = {}
        BY <3>1 DEF Snapshot
      <4> QED BY <1>4, <3>1, <4>1
    <3>2. CASE m.cp # 0
      <4>1. Snapshot(m.cp) = snap[m.cp]
        BY <3>2 DEF Snapshot
      <4> QED BY <1>4, <3>2, <4>1 DEF Held, HeldBy, SnapFor
    <3> QED BY <3>1, <3>2
  <2>3. refs'[i] = Snapshot(m.cp) /\ applied'[i] = m.cp
    BY <2>1 DEF CkInv, CkTypes
  <2>4. CkTypes'
    <3>1. Snapshot(m.cp) \subseteq Seqs
      BY <2>2, CopyFacts
    <3> QED BY <1>1, <1>2, <1>4, <2>1, <3>1 DEF CkInv, CkTypes
  <2>5. SameElsewhere(i)
    BY <1>1, <2>1 DEF SameElsewhere, CkInv, CkTypes
  <2>6. ~verified[i] /\ ~(m.rev < man[i].rev)
    BY <1>1, <1>6, CopyFacts DEF CopyInv, SyncInv
  <2>7. CopyInv(i)'
    BY <1>1, <1>4, <2>2, <2>3, <2>6, CopyFacts, HeldHead DEF CopyInv, Held
  <2>8. SyncInv(i)'
    BY <1>1, <1>2, <1>3, <1>4, <2>2, <2>3, <2>6, CopyFacts DEF SyncInv, Held, Whole
  <2>9. PubInv(i)'
    BY <1>1, <1>2, <1>3, <1>6, CopyFacts DEF PubInv, Held
  <2>10. ASSUME NEW w \in Writers, HostOf[w] = i PROVE TaskInv(w)'
    <3>0. ck[w].pc \notin Folding
      BY <1>1, <1>6, <2>10, FoldingNoLoad
    <3>1. AheadInv(w)'
      BY <1>1, <1>2, <1>3, <2>10, CkFacts DEF AheadInv
    <3>2. FoldingInv(w)'
      BY <1>1, <3>0 DEF FoldingInv
    <3>3. WriterInv(w)'
      BY <1>1, <1>2, <1>3, <2>10, <3>0, CkFacts DEF WriterInv, Folding
    <3> QED BY <3>1, <3>2, <3>3 DEF TaskInv
  <2>11. UNCHANGED bucket /\ UNCHANGED <<bucket, rd>>
    BY <1>1 DEF bucket
  <2> QED BY <2>4, <2>5, <2>7, <2>8, <2>9, <2>10, <2>11, ReadersRest, HostStep
<1> QED BY <1>5, <1>6

\* At the end of a sync the copy has everything up to the head of the sync's manifest.
LEMMA SyncFinishKeeps == ASSUME CkInv, NEW i \in Instances, SyncFinish(i) PROVE CkInv'
<1> DEFINE m == sy[i].man
           R == refs[i] \cup {s \in m.segs : s > applied[i]}
<1>1. /\ sy[i].pc = "replay" /\ refs' = [refs EXCEPT ![i] = R] /\ applied' = [applied EXCEPT ![i] = m.head]
      /\ man' = [man EXCEPT ![i] = m] /\ verified' = [verified EXCEPT ![i] = TRUE]
      /\ sy' = [sy EXCEPT ![i] = IdleSync]
      /\ manifest' = manifest /\ snap' = snap /\ committed' = committed /\ pub' = pub /\ rd' = rd
  BY DEF SyncFinish, bucket
<1>2. ck' = [w \in Writers |-> IF w # sy[i].who THEN ck[w]
                               ELSE [ck[w] EXCEPT !.pc = IF ck[w].pc = "sync" THEN "read" ELSE "base"]]
  BY DEF SyncFinish
<1>3. m \in ManRecs /\ m.cp \in Nat /\ m.head \in Nat /\ applied[i] \in Nat /\ Held(m)
      /\ applied[i] >= m.cp /\ Whole(i, applied[i]) /\ committed \subseteq Nat /\ refs[i] \subseteq committed
      /\ m.segs \subseteq committed
  BY <1>1, CopyFacts, ManFacts DEF SyncInv, SyncRecs, CopyInv, Held, HeldBy
<1>4. R \subseteq committed /\ (\A s \in committed : s <= m.head => s \in R)
  BY <1>3 DEF Whole, Held, HeldBy
<1>5. /\ refs'[i] = R /\ applied'[i] = m.head /\ man'[i] = m /\ verified'[i] = TRUE /\ sy'[i].pc = "idle"
  BY <1>1 DEF CkInv, CkTypes, IdleSync
<1>6. ASSUME NEW w \in Writers
      PROVE  /\ ck'[w] \in CkRecs
             /\ \/ ck'[w] = ck[w]
                \/ /\ HostOf[w] = i /\ ck'[w].pc = "read" /\ ck[w].pc = "sync" /\ manifest.cp <= m.head
                \/ /\ HostOf[w] = i /\ ck'[w].pc = "base" /\ ck[w].pc = "resync"
                   /\ ck'[w].seq = ck[w].seq
  <2>1. CASE w # sy[i].who
    BY <1>2, <2>1, CkFacts
  <2>2. CASE w = sy[i].who
    <3>1. HostOf[w] = i /\ ck[w].pc \in {"sync", "resync"} /\ manifest.cp <= m.head
      BY <1>1, <2>2, CopyFacts DEF SyncInv
    <3>2. ck'[w] = [ck[w] EXCEPT !.pc = IF ck[w].pc = "sync" THEN "read" ELSE "base"]
      BY <1>2, <2>2
    <3>3. ck[w] \in CkRecs
      BY CkFacts
    <3>4. CASE ck[w].pc = "sync"
      BY <3>1, <3>2, <3>3, <3>4 DEF CkRecs
    <3>5. CASE ck[w].pc = "resync"
      BY <3>1, <3>2, <3>3, <3>5 DEF CkRecs
    <3> QED BY <3>1, <3>4, <3>5
  <2> QED BY <2>1, <2>2
<1> HIDE DEF R
<1>7. CkTypes'
  <2>1. R \subseteq Seqs /\ IdleSync \in SyncRecs /\ ck' \in [Writers -> CkRecs]
    BY <1>2, <1>4, <1>6, CopyFacts, EmptyHeld DEF IdleSync, SyncRecs
  <2> QED BY <1>1, <1>3, <2>1 DEF CkInv, CkTypes
<1>8. SameElsewhere(i)
  BY <1>1, <1>6 DEF SameElsewhere, CkInv, CkTypes
<1>9. CopyInv(i)'
  BY <1>1, <1>3, <1>4, <1>5, CopyFacts, HeldHead DEF CopyInv, Held, Whole
<1>10. SyncInv(i)'
  BY <1>5 DEF SyncInv
<1>11. PubInv(i)'
  <2>1. ASSUME pub[i].pc = "local", NEW s \in committed, s < pub[i].man.head PROVE s \in R
    <3>1. s <= m.head \/ s \in refs[i]
      BY <1>1, <2>1, CopyFacts DEF PubInv
    <3> QED BY <3>1, <1>4 DEF R
  <2> QED BY <1>1, <1>5, <2>1, CopyFacts DEF PubInv, Held
<1>12. ASSUME NEW w \in Writers, HostOf[w] = i PROVE TaskInv(w)'
  <2>1. AheadInv(w)'
    <3>1. ck'[w].pc \in Folding => ck[w].pc \in Folding /\ ck'[w].seq = ck[w].seq
      BY <1>6 DEF Folding
    <3>2. ck'[w].pc \in {"cas", "install"} => ck'[w] = ck[w]
      BY <1>6
    <3> QED BY <1>1, <1>5, <1>12, <3>1, <3>2, CkFacts DEF AheadInv
  <2>2. FoldingInv(w)'
    <3>1. CASE ck'[w].pc \in Folding
      <4>1. ck[w].pc \in Folding /\ ck'[w].seq = ck[w].seq
        BY <1>6, <3>1 DEF Folding
      <4>2. 1 <= ck[w].seq /\ manifest.cp <= ck[w].seq /\ ck[w].seq <= m.head
        BY <1>1, <1>12, <4>1, CkFacts DEF FoldingInv
      <4> QED BY <1>1, <1>4, <1>5, <1>12, <4>1, <4>2 DEF FoldingInv, Whole
    <3> QED BY <3>1 DEF FoldingInv
  <2>3. WriterInv(w)'
    <3>1. CASE ck'[w] = ck[w]
      <4>1. ck[w].pc = "read" => manifest.cp <= m.head
        BY <1>1, <1>12, CkFacts DEF WriterInv
      <4>2. ck[w].pc \in {"cas", "install"} => \A s \in committed : s <= ck[w].man.head => s \in R
        BY <1>12, CkFacts DEF WriterInv, Whole, R
      <4> QED BY <1>1, <1>5, <1>12, <3>1, <4>1, <4>2, CkFacts DEF WriterInv, Held, Whole
    <3>2. CASE ck'[w].pc = "read" /\ manifest.cp <= m.head
      BY <1>1, <1>5, <1>12, <3>2 DEF WriterInv
    <3>3. CASE ck'[w].pc = "base" /\ ck[w].pc = "resync" /\ ck'[w].seq = ck[w].seq
      BY <1>1, <3>3, CkFacts DEF WriterInv
    <3> QED BY <1>6, <3>1, <3>2, <3>3
  <2> QED BY <2>1, <2>2, <2>3 DEF TaskInv
<1>13. UNCHANGED bucket /\ UNCHANGED <<bucket, rd>>
  BY <1>1 DEF bucket
<1> QED BY <1>7, <1>8, <1>9, <1>10, <1>11, <1>12, <1>13, ReadersRest, HostStep

-----------------------------------------------------------------------------
(* The local commit of a push, a task's installation, a restart. *)

LEMMA PubLocalKeeps == ASSUME CkInv, NEW i \in Instances, PubLocal(i) PROVE CkInv'
<1> DEFINE m == pub[i].man
           R == refs[i] \cup {m.head}
<1>1. /\ pub[i].pc = "local" /\ sy[i].pc = "idle"
      /\ refs' = [refs EXCEPT ![i] = R] /\ applied' = [applied EXCEPT ![i] = m.head]
      /\ man' = [man EXCEPT ![i] = m] /\ pub' = [pub EXCEPT ![i] = NoPub]
      /\ manifest' = manifest /\ snap' = snap /\ committed' = committed
      /\ verified' = verified /\ sy' = sy /\ ck' = ck /\ rd' = rd
  BY DEF PubLocal, bucket
<1>2. m \in ManRecs /\ m.head \in Nat /\ Held(m) /\ committed \subseteq Nat /\ refs[i] \subseteq committed
  BY <1>1, CopyFacts, ManFacts DEF PubInv, PubRecs, CopyInv
<1>3. m.head \in committed
  BY <1>1, CopyFacts DEF PubInv
<1>4. verified[i] => \A s \in committed : s <= m.head => s \in R
  BY <1>1, <1>2, CopyFacts DEF PubInv
<1>5. refs'[i] = R /\ applied'[i] = m.head /\ man'[i] = m /\ pub'[i].pc = "idle"
  BY <1>1 DEF CkInv, CkTypes, NoPub
<1> HIDE DEF R
<1>6. R \subseteq committed /\ refs[i] \subseteq R
  BY <1>2, <1>3 DEF R
<1>7. CkTypes'
  <2>1. R \subseteq Seqs /\ NoPub \in PubRecs
    BY <1>6, CopyFacts, EmptyHeld DEF NoPub, PubRecs
  <2> QED BY <1>1, <1>2, <2>1 DEF CkInv, CkTypes
<1>8. SameElsewhere(i)
  BY <1>1 DEF SameElsewhere, CkInv, CkTypes
<1>9. CopyInv(i)'
  BY <1>1, <1>2, <1>4, <1>5, <1>6, CopyFacts, HeldHead DEF CopyInv, Held, Whole
<1>10. SyncInv(i)' /\ PubInv(i)'
  BY <1>1, <1>5 DEF SyncInv, PubInv
<1>12. ASSUME NEW w \in Writers, HostOf[w] = i PROVE TaskInv(w)'
  <2>1. AheadInv(w)'
    BY <1>5, <1>12 DEF AheadInv
  <2>2. FoldingInv(w)'
    <3>1. CASE ck[w].pc \in Folding
      <4>1. verified[i] /\ 1 <= ck[w].seq /\ manifest.cp <= ck[w].seq
        BY <1>1, <1>12, <3>1, CkFacts DEF FoldingInv
      <4>2. ck[w].seq <= m.head
        BY <1>1, <1>12, <3>1, CkFacts DEF AheadInv
      <4> QED BY <1>1, <1>4, <1>5, <1>12, <4>1, <4>2 DEF FoldingInv, Whole
    <3> QED BY <1>1, <3>1 DEF FoldingInv
  <2>3. WriterInv(w)'
    <3>1. ck[w].pc = "read" => manifest.cp <= m.head
      BY <1>1, <1>12, CkFacts DEF AheadInv
    <3> QED BY <1>1, <1>5, <1>6, <1>12, <3>1, CkFacts DEF WriterInv, Held, Whole
  <2> QED BY <2>1, <2>2, <2>3 DEF TaskInv
<1>13. UNCHANGED bucket /\ UNCHANGED <<bucket, rd>>
  BY <1>1 DEF bucket
<1> QED BY <1>7, <1>8, <1>9, <1>10, <1>12, <1>13, ReadersRest, HostStep

\* The task installs its manifest, perhaps in the middle of a sync: the refs hold it all.
LEMMA CkInstallKeeps == ASSUME CkInv, NEW w \in Writers, CkInstall(w) PROVE CkInv'
<1> DEFINE i == HostOf[w]
           m == ck[w].man
<1>1. /\ ck[w].pc = "install" /\ man' = [man EXCEPT ![i] = m]
      /\ applied' = [applied EXCEPT ![i] = m.head] /\ ck' = [ck EXCEPT ![w] = IdleCk]
      /\ manifest' = manifest /\ snap' = snap /\ committed' = committed /\ refs' = refs
      /\ verified' = verified /\ sy' = sy /\ pub' = pub /\ rd' = rd
  BY DEF CkInstall, bucket
<1>2. i \in Instances /\ (\A x \in Writers : x = w)
  BY CkFacts
<1>3. m \in ManRecs /\ m.head \in Nat /\ Held(m) /\ Whole(i, m.head) /\ ck[w].seq <= m.head
      /\ manifest.cp <= ck[w].seq /\ manifest.cp \in Nat /\ ck[w].seq \in Nat
  BY <1>1, <1>2, CkFacts, CopyFacts, ManFacts DEF WriterInv, FoldingInv, Folding, CkRecs
<1>4. man'[i] = m /\ applied'[i] = m.head /\ ck'[w].pc = "idle"
  BY <1>1, <1>2, IdleCkRec DEF CkInv, CkTypes
<1>5. CkTypes'
  BY <1>1, <1>3, IdleCkRec DEF CkInv, CkTypes
<1>6. SameElsewhere(i)
  BY <1>1, <1>2 DEF SameElsewhere, CkInv, CkTypes
<1>7. CopyInv(i)'
  BY <1>1, <1>2, <1>3, <1>4, CopyFacts, HeldHead DEF CopyInv, Held, Whole
<1>8. ASSUME sy[i].pc # "idle" PROVE /\ NoLoad(i)' /\ Held(sy[i].man) /\ sy[i].who \notin Writers
                                     /\ sy[i].man.cp <= m.head
  <2>1. ~sy[i].force /\ Held(sy[i].man)
    BY <1>1, <1>2, <1>8, CkFacts DEF FoldingInv, Folding, SyncInv
  <2>2. sy[i].man.cp \in Nat /\ sy[i].man.cp <= manifest.cp
    BY <1>2, <2>1, CopyFacts, ManFacts DEF SyncRecs, Held, HeldBy
  <2>3. sy[i].man.cp <= m.head
    BY <1>3, <2>2
  <2>4. sy[i].who \notin Writers
    BY <1>1, <1>2, <1>8, CkFacts DEF SyncInv
  <2> QED BY <1>1, <1>3, <1>4, <2>1, <2>2, <2>3, <2>4 DEF NoLoad
<1>9. SyncInv(i)'
  BY <1>1, <1>3, <1>4, <1>8 DEF SyncInv, Held, Whole
<1>10. PubInv(i)'
  BY <1>1, <1>2, <1>8, CopyFacts DEF PubInv, Held
<1>11. TaskInv(w)'
  <2>1. AheadInv(w)'
    <3>1. pub[i].pc = "local" => m.head <= pub[i].man.head
      BY <1>1, CkFacts DEF AheadInv
    <3> QED BY <1>1, <1>4, <3>1, CkFacts DEF AheadInv, Folding
  <2> QED BY <1>4, <2>1 DEF TaskInv, FoldingInv, WriterInv, Folding
<1>12. UNCHANGED bucket /\ UNCHANGED <<bucket, rd>>
  BY <1>1 DEF bucket
<1>13. \A x \in Writers : HostOf[x] = i => TaskInv(x)'
  BY <1>2, <1>11
<1> QED BY <1>2, <1>5, <1>6, <1>7, <1>9, <1>10, <1>12, <1>13, ReadersRest, HostStep

\* After a restart the copy is rebuilt from the bucket, or unproven.
LEMMA RestartKeeps == ASSUME CkInv, NEW i \in Instances, Restart(i) PROVE CkInv'
<1> DEFINE rebuild == saved[i] # manifest.head \/ manifest.head = 0
           R == IF rebuild THEN FoldOf(manifest) ELSE refs[i]
<1>1. /\ refs' = [refs EXCEPT ![i] = R] /\ verified' = [verified EXCEPT ![i] = rebuild]
      /\ man' = [man EXCEPT ![i] = manifest] /\ applied' = [applied EXCEPT ![i] = manifest.head]
      /\ sy' = [sy EXCEPT ![i] = IdleSync] /\ pub' = [pub EXCEPT ![i] = NoPub]
      /\ manifest' = manifest /\ snap' = snap /\ committed' = committed
      /\ ck' = [w \in Writers |-> IF HostOf[w] = i THEN IdleCk ELSE ck[w]]
      /\ rd' = [r \in Readers |-> IF HostOf[r] = i THEN IdleRd ELSE rd[r]]
  BY DEF Restart, bucket
<1>2. R \subseteq committed /\ (rebuild => \A s \in committed : s <= manifest.head => s \in R)
  BY CopyFacts, HeldFolds DEF CopyInv
<1>3. /\ refs'[i] = R /\ verified'[i] = rebuild /\ man'[i] = manifest /\ applied'[i] = manifest.head
      /\ sy'[i].pc = "idle" /\ pub'[i].pc = "idle"
  BY <1>1 DEF CkInv, CkTypes, IdleSync, NoPub
<1>4. manifest.head \in Nat /\ rebuild \in BOOLEAN
  BY CopyFacts, ManFacts
<1> HIDE DEF R, rebuild
<1>5. IdleRd \in RdRecs /\ IdleRd.pc = "idle"
  BY DEF IdleRd, RdRecs
<1>6. CkTypes'
  <2>1. R \subseteq Seqs /\ NoPub \in PubRecs /\ IdleSync \in SyncRecs
    BY <1>2, CopyFacts, EmptyHeld DEF NoPub, PubRecs, IdleSync, SyncRecs
  <2>2. ck' \in [Writers -> CkRecs] /\ rd' \in [Readers -> RdRecs]
    BY <1>1, <1>5, IdleCkRec DEF CkInv, CkTypes
  <2>3. manifest \in ManRecs
    BY CopyFacts
  <2> QED BY <1>1, <1>4, <2>1, <2>2, <2>3 DEF CkInv, CkTypes
<1>7. SameElsewhere(i)
  BY <1>1 DEF SameElsewhere, CkInv, CkTypes
<1>8. CopyInv(i)'
  BY <1>1, <1>2, <1>3, CopyFacts, HeldHead DEF CopyInv, Held, Whole
<1>9. SyncInv(i)' /\ PubInv(i)'
  BY <1>3 DEF SyncInv, PubInv
<1>10. ASSUME NEW w \in Writers, HostOf[w] = i PROVE TaskInv(w)'
  <2>1. ck'[w].pc = "idle"
    BY <1>1, <1>10, IdleCkRec
  <2> QED BY <1>3, <1>10, <2>1 DEF TaskInv, AheadInv, FoldingInv, WriterInv, Folding
<1>11. ASSUME NEW r \in Readers PROVE ReaderInv(r)'
  <2>1. ReaderInv(r)
    BY DEF CkInv
  <2>2. rd'[r] = rd[r] \/ rd'[r].pc = "idle"
    BY <1>1, <1>5
  <2> QED BY <1>1, <2>1, <2>2 DEF ReaderInv
<1>12. UNCHANGED bucket
  BY <1>1 DEF bucket
<1> QED BY <1>6, <1>7, <1>8, <1>9, <1>10, <1>11, <1>12, HostStep

-----------------------------------------------------------------------------
(* Steps that write to the bucket. *)

HeldStays == \A m \in ManRecs : Held(m) => HeldBy(m, manifest', snap', committed')

\* A push: every manifest anybody holds describes what it described.
LEMMA PublishKeeps == ASSUME CkInv, NEW i \in Instances, NEW s \in Seqs, Publish(i, s) PROVE CkInv'
<1> DEFINE S == manifest.segs \cup {s}
           v == manifest.rev + 1
           n == [manifest EXCEPT !.head = s, !.segs = S, !.rev = v]
<1>1. /\ pub[i].pc = "idle" /\ man[i].rev = manifest.rev /\ manifest' = n /\ committed' = committed \cup {s}
      /\ pub' = [pub EXCEPT ![i] = [pc |-> "local", man |-> n]]
      /\ snap' = snap /\ man' = man /\ refs' = refs /\ applied' = applied
      /\ verified' = verified /\ sy' = sy /\ ck' = ck /\ rd' = rd
  BY DEF Publish, copy
<1>2. manifest \in ManRecs /\ manifest.head \in Nat /\ manifest.cp \in Nat /\ manifest.rev \in Nat
      /\ manifest.segs \subseteq Seqs /\ s \in Nat /\ s > manifest.head /\ committed \subseteq Seqs
      /\ committed \subseteq Nat /\ s <= MaxSeq
  BY CopyFacts, ManFacts, SeqFacts DEF Publish, Seqs
<1>3. /\ n \in ManRecs /\ n.head = s /\ n.cp = manifest.cp /\ n.rev = manifest.rev + 1
      /\ n.segs = manifest.segs \cup {s}
  <2>1. S \in SUBSET Seqs /\ v \in Nat
    BY <1>2
  <2> HIDE DEF S, v
  <2>2. n \in ManRecs /\ n.head = s /\ n.cp = manifest.cp /\ n.rev = v /\ n.segs = S
    BY <1>2, <2>1 DEF ManRecs
  <2> QED BY <2>2 DEF S, v
<1> HIDE DEF n
<1>4. HeldStays
  BY <1>1, <1>2, <1>3, HeldCommit DEF HeldStays, Held
<1>5. HeldBy(n, n, snap, committed \cup {s})
  BY <1>2, <1>3, CopyFacts, CommitHeld DEF Held
<1>6. man[i] = manifest
  BY <1>1, CopyFacts, SameRev DEF CopyInv
<1>7. pub'[i].pc = "local" /\ pub'[i].man = n /\ (\A j \in Instances : j # i => pub'[j] = pub[j])
  BY <1>1 DEF CkInv, CkTypes
<1>8. CkTypes'
  <2>1. [pc |-> "local", man |-> n] \in PubRecs
    BY <1>3 DEF PubRecs
  <2> QED BY <1>1, <1>2, <1>3, <2>1 DEF CkInv, CkTypes
<1>9. BucketInv'
  BY <1>1, <1>2, <1>3, <1>5, CopyFacts DEF CkInv, BucketInv, Held
<1>10. ASSUME NEW j \in Instances, NEW h \in Nat, h <= manifest.head, Whole(j, h) PROVE Whole(j, h)'
  BY <1>1, <1>2, <1>10 DEF Whole
<1>11. ASSUME NEW j \in Instances PROVE CopyInv(j)' /\ SyncInv(j)'
  <2>1. CopyInv(j) /\ SyncInv(j) /\ man[j] \in ManRecs /\ sy[j] \in SyncRecs /\ applied[j] \in Nat
        /\ man[j].head \in Nat /\ applied[j] <= manifest.head
    BY CopyFacts, ManFacts DEF CopyInv
  <2>2. Held(man[j]) /\ man[j].head <= manifest.head
    BY <1>2, <2>1, HeldHead DEF CopyInv
  <2>3. Held(man[j])'
    BY <1>1, <1>4, <2>1, <2>2 DEF HeldStays, Held
  <2>4. /\ Whole(j, applied[j]) => \A t \in committed' : t <= applied[j] => t \in refs[j]
        /\ Whole(j, man[j].head) => \A t \in committed' : t <= man[j].head => t \in refs[j]
    BY <1>1, <1>2, <2>1, <2>2 DEF Whole
  <2>5. CopyInv(j)'
    <3>1. applied[j] <= n.head /\ refs[j] \subseteq committed \cup {s}
      BY <1>2, <1>3, <2>1 DEF CopyInv
    <3> QED BY <1>1, <2>1, <2>3, <2>4, <3>1 DEF CopyInv, Whole
  <2>6. SyncInv(j)'
    <3>1. CASE sy[j].pc # "idle"
      <4>1. sy[j].man \in ManRecs /\ Held(sy[j].man)
        BY <2>1, <3>1 DEF SyncInv, SyncRecs
      <4>2. Held(sy[j].man)'
        BY <1>1, <1>4, <4>1 DEF HeldStays, Held
      <4> QED BY <1>1, <1>3, <2>1, <2>4, <4>2, <3>1 DEF SyncInv, NoLoad, Whole
    <3> QED BY <1>1, <3>1 DEF SyncInv
  <2> QED BY <2>5, <2>6
<1>12. PubInv(i)'
  <2>1. ASSUME NEW t \in committed', t < n.head
        PROVE  \/ sy[i].pc = "idle" /\ ~verified[i]
               \/ sy[i].pc # "idle" /\ t <= sy[i].man.head
               \/ t \in refs[i] /\ (sy[i].pc = "load" => NoLoad(i))
    <3>1. t \in committed /\ t <= man[i].head
      BY <1>1, <1>2, <1>3, <1>6, <2>1, CopyFacts
    <3>2. CASE sy[i].pc = "idle"
      BY <3>1, <3>2, CopyFacts DEF CopyInv, Whole
    <3>3. CASE sy[i].pc # "idle" /\ sy[i].man.rev < man[i].rev
      BY <3>1, <3>3, CopyFacts DEF SyncInv, Whole
    <3>4. CASE sy[i].pc # "idle" /\ ~(sy[i].man.rev < man[i].rev)
      <4>1. sy[i].man \in ManRecs /\ Held(sy[i].man) /\ sy[i].man.rev <= manifest.rev
        BY <3>4, CopyFacts DEF SyncInv, SyncRecs, Held, HeldBy
      <4>2. sy[i].man.rev = manifest.rev
        BY <1>2, <1>6, <3>4, <4>1, ManFacts
      <4>3. sy[i].man = manifest
        BY <4>1, <4>2, SameRev
      <4> QED BY <1>6, <3>1, <3>4, <4>3
    <3> QED BY <3>2, <3>3, <3>4
  <2> QED BY <1>1, <1>3, <1>5, <1>7, <2>1 DEF PubInv, Held, NoLoad
<1>13. ASSUME NEW j \in Instances, j # i PROVE PubInv(j)'
  <2>1. CASE pub[j].pc = "local"
    <3>1. pub[j].man \in ManRecs /\ Held(pub[j].man) /\ PubInv(j) /\ pub[j].man.head \in Nat
      BY <2>1, CopyFacts, ManFacts DEF PubInv, PubRecs
    <3>2. Held(pub[j].man)' /\ pub[j].man.head <= manifest.head
      <4>1. HeldBy(pub[j].man, manifest', snap', committed')
        BY <1>4, <3>1 DEF HeldStays
      <4>2. pub'[j] = pub[j]
        BY <1>7, <1>13
      <4> QED BY <1>2, <3>1, <4>1, <4>2, HeldHead DEF Held
    <3>3. pub'[j] = pub[j]
      BY <1>7, <1>13
    <3> QED BY <1>1, <1>2, <2>1, <3>1, <3>2, <3>3 DEF PubInv, NoLoad
  <2>2. CASE pub[j].pc # "local"
    BY <1>7, <1>13, <2>2 DEF PubInv
  <2> QED BY <2>1, <2>2
<1>14. ASSUME NEW w \in Writers PROVE TaskInv(w)'
  <2> DEFINE j == HostOf[w]
  <2>1. /\ j \in Instances /\ ck[w] \in CkRecs /\ ck[w].seq \in Nat /\ man[j] \in ManRecs /\ applied[j] \in Nat
        /\ man[j].head \in Nat /\ sy[j] \in SyncRecs /\ sy[j].man \in ManRecs /\ ck[w].man \in ManRecs
        /\ sy[j].man.head \in Nat /\ ck[w].man.head \in Nat
    BY CkFacts, CopyFacts, ManFacts DEF CkRecs, SyncRecs
  <2>2. man[j].head <= manifest.head /\ applied[j] <= manifest.head
    BY <1>2, <2>1, CopyFacts, HeldHead DEF CopyInv
  <2>3. ck[w].pc \in Folding => ck[w].seq <= manifest.head
    BY <1>2, <2>1, <2>2, CkFacts DEF FoldingInv
  <2>4. ck[w].pc \in {"cas", "install"} => ck[w].man.head <= manifest.head
    BY <1>2, <2>1, CkFacts, HeldHead DEF WriterInv
  <2>5. sy[j].pc # "idle" => sy[j].man.head <= manifest.head
    BY <1>2, <2>1, CopyFacts, HeldHead DEF SyncInv
  <2>6. manifest.cp <= manifest.head
    BY CopyFacts DEF Held, HeldBy
  <2>7. AheadInv(w)'
    <3>1. CASE j = i
      BY <1>1, <1>2, <1>3, <1>7, <2>1, <2>2, <2>3, <2>4, <2>5, <2>6, <3>1 DEF AheadInv
    <3>2. CASE j # i
      BY <1>1, <1>3, <1>7, <2>1, <3>2, CkFacts DEF AheadInv
    <3> QED BY <3>1, <3>2
  <2>8. FoldingInv(w)'
    BY <1>1, <1>2, <1>3, <2>1, <2>2, CkFacts DEF FoldingInv, Whole
  <2>9. ck[w].pc \in {"cas", "install"} => Held(ck[w].man)'
    BY <1>1, <1>4, <2>1, CkFacts DEF WriterInv, HeldStays, Held
  <2>10. WriterInv(w)'
    <3>1. ck[w].pc \in {"put", "base", "cas", "resync"} => ck[w].seq < s
      BY <1>2, <2>1, <2>3 DEF Folding
    <3>2. ck[w].pc \in {"cas", "install"} => ck[w].man.head < s
      BY <1>2, <2>1, <2>4
    <3> QED BY <1>1, <1>2, <1>3, <2>1, <2>9, <3>1, <3>2, CkFacts DEF WriterInv, SnapFor, Whole
  <2> QED BY <2>7, <2>8, <2>10 DEF TaskInv
<1>15. ASSUME NEW r \in Readers PROVE ReaderInv(r)'
  <2>1. ReaderInv(r) /\ rd[r].want \in Nat
    BY DEF CkInv, CkTypes, RdRecs
  <2>2. rd[r].want <= manifest.head => {t \in committed' : t <= rd[r].want} = {t \in committed : t <= rd[r].want}
    BY <1>1, <1>2, <2>1
  <2> QED BY <1>1, <1>2, <1>3, <2>1, <2>2 DEF ReaderInv
<1>16. OneFolder'
  BY DEF CkInv, OneFolder
<1> QED BY <1>8, <1>9, <1>11, <1>12, <1>13, <1>14, <1>15, <1>16 DEF CkInv, TaskInv

\* A task writes to the bucket: no copy changes, and no manifest describes anything else.
LEMMA BucketTask ==
    ASSUME CkInv, NEW w \in Writers, ck[w].pc \in {"put", "cas"}, UNCHANGED <<committed, copy, sy, pub, rd>>,
           manifest' \in ManRecs, manifest'.head = manifest.head, snap' \in [Seqs -> SUBSET Seqs],
           HeldStays, HeldBy(manifest', manifest', snap', committed'),
           NEW q \in CkRecs, ck' = [ck EXCEPT ![w] = q], TaskInv(w)'
    PROVE  CkInv'
<1>1. /\ committed' = committed /\ man' = man /\ refs' = refs /\ applied' = applied /\ rd' = rd
      /\ verified' = verified /\ sy' = sy /\ pub' = pub
  BY DEF copy
<1>2. (\A x \in Writers : x = w) /\ Readers = {} /\ Writers # {}
  BY CkFacts
<1>3. CkTypes'
  BY <1>1 DEF CkInv, CkTypes
<1>4. BucketInv'
  BY <1>1, <1>2 DEF CkInv, BucketInv, Held
<1>5. ASSUME NEW j \in Instances PROVE (CopyInv(j) /\ SyncInv(j) /\ PubInv(j))'
  <2>1. CopyInv(j) /\ SyncInv(j) /\ PubInv(j) /\ man[j] \in ManRecs /\ sy[j].man \in ManRecs /\ pub[j].man \in ManRecs
    BY CopyFacts DEF SyncRecs, PubRecs
  <2>2. \A m \in ManRecs : Held(m) => HeldBy(m, manifest', snap', committed')
    BY DEF HeldStays
  <2>3. CopyInv(j)'
    BY <1>1, <2>1, <2>2 DEF CopyInv, Held, Whole
  <2>4. SyncInv(j)'
    <3>1. sy[j].pc # "idle" => sy[j].who \notin Writers
      BY <1>2, <2>1 DEF SyncInv
    <3> QED BY <1>1, <2>1, <2>2, <3>1 DEF SyncInv, Held, Whole, NoLoad
  <2>5. PubInv(j)'
    BY <1>1, <2>1, <2>2 DEF PubInv, Held, NoLoad
  <2> QED BY <2>3, <2>4, <2>5
<1>6. \A x \in Writers : TaskInv(x)'
  BY <1>2
<1>7. OneFolder'
  BY DEF CkInv, OneFolder
<1> QED BY <1>2, <1>3, <1>4, <1>5, <1>6, <1>7 DEF CkInv, TaskInv

\* The seq of a folding task is one of the log's.
LEMMA FoldingSeq ==
    ASSUME CkInv, NEW w \in Writers, ck[w].pc \in Folding
    PROVE  ck[w].seq \in Seqs /\ ck[w].seq <= manifest.head
<1>1. 1 <= ck[w].seq /\ ck[w].seq <= man[HostOf[w]].head
  BY CkFacts DEF FoldingInv
<1>2. man[HostOf[w]].head <= manifest.head /\ manifest.head <= MaxSeq
  BY CkFacts, CopyFacts, HeldHead DEF CopyInv, CkInv, CkTypes
<1>3. ck[w].seq \in Nat /\ man[HostOf[w]].head \in Nat /\ manifest.head \in Nat /\ MaxSeq \in Nat
  BY CkFacts, CopyFacts, ManFacts, SeqFacts DEF CkRecs
<1> QED BY <1>1, <1>2, <1>3 DEF Seqs

\* The snapshot written by a task, whether the task goes on or ends there.
LEMMA PutSnapshot ==
    ASSUME CkInv, NEW w \in Writers, ck[w].pc = "put", snap' = [snap EXCEPT ![ck[w].seq] = ck[w].got],
           UNCHANGED <<manifest, committed, copy, sy, pub, rd>>, NEW q \in CkRecs, ck' = [ck EXCEPT ![w] = q],
           q.pc = "idle" \/ (q.pc = "base" /\ q.seq = ck[w].seq)
    PROVE  CkInv'
<1> DEFINE c == ck[w].seq
           S == ck[w].got
<1>1. c \in Seqs /\ S \in SUBSET Seqs /\ SnapFor(c, S, committed) /\ snap \in [Seqs -> SUBSET Seqs]
  BY FoldingSeq, CkFacts DEF WriterInv, Folding, CkRecs, CkInv, CkTypes
<1>2. ASSUME NEW m \in ManRecs, Held(m) PROVE HeldBy(m, manifest, snap', committed)
  <2>1. m.cp # 0 => m.cp \in Seqs
    <3>1. m.cp <= manifest.head /\ manifest.head <= MaxSeq
      BY <1>2, CkFacts, CopyFacts, HeldHead DEF CkInv, CkTypes
    <3>2. m.cp \in Nat /\ manifest.head \in Nat /\ MaxSeq \in Nat
      BY CkFacts, CopyFacts, ManFacts, SeqFacts
    <3> QED BY <3>1, <3>2 DEF Seqs
  <2> QED BY <1>1, <1>2, <2>1, HeldPut DEF Held
<1>3. manifest \in ManRecs /\ Held(manifest)
  BY CkFacts, CopyFacts
<1>4. snap' \in [Seqs -> SUBSET Seqs] /\ snap'[c] = S
  BY <1>1
<1>5. ck'[w] = q
  BY DEF CkInv, CkTypes
<1>6. HeldStays /\ HeldBy(manifest', manifest', snap', committed') /\ manifest' \in ManRecs
      /\ manifest'.head = manifest.head
  BY <1>2, <1>3 DEF HeldStays
<1>7. TaskInv(w)'
  <2>1. AheadInv(w)'
    BY <1>5, CkFacts DEF AheadInv, Folding, copy
  <2>2. FoldingInv(w)'
    BY <1>5, CkFacts DEF FoldingInv, Whole, Folding, copy
  <2>3. WriterInv(w)'
    BY <1>1, <1>4, <1>5 DEF WriterInv
  <2> QED BY <2>1, <2>2, <2>3 DEF TaskInv
<1>8. UNCHANGED <<committed, copy, sy, pub, rd>>
  OBVIOUS
<1> QED BY <1>4, <1>6, <1>7, <1>8, BucketTask

LEMMA CkPutKeeps == ASSUME CkInv, NEW w \in Writers, CkPut(w) PROVE CkInv'
<1> DEFINE q == [ck[w] EXCEPT !.pc = "base", !.got = {}]
<1>1. ck' = [ck EXCEPT ![w] = q]
  BY DEF CkPut
<1>2. q \in CkRecs /\ q.pc = "base" /\ q.seq = ck[w].seq
  BY CkFacts DEF CkRecs
<1> HIDE DEF q
<1> QED BY <1>1, <1>2, PutSnapshot DEF CkPut

\* The manifest written by a task, whether it lives to install it or not.
LEMMA FoldWritten ==
    ASSUME CkInv, NEW w \in Writers, ck[w].pc = "cas", ck[w].man.rev = manifest.rev,
           manifest' = Folded(ck[w].man, ck[w].seq), UNCHANGED <<snap, committed, copy, sy, pub, rd>>,
           NEW q \in CkRecs, ck' = [ck EXCEPT ![w] = q],
           q.pc = "idle" \/ (q.pc = "install" /\ q.seq = ck[w].seq /\ q.man = manifest')
    PROVE  CkInv'
<1> DEFINE c == ck[w].seq
           i == HostOf[w]
           S == {s \in manifest.segs : s > c}
           v == manifest.rev + 1
           n == [manifest EXCEPT !.cp = c, !.rev = v, !.segs = S]
<1>1. ck[w].man = manifest
  BY CkFacts, SameRev DEF WriterInv
<1>2. manifest' = n
  BY <1>1 DEF Folded
<1>3. /\ manifest \in ManRecs /\ Held(manifest) /\ manifest.rev \in Nat /\ manifest.cp \in Nat /\ manifest.head \in Nat
      /\ c \in Nat /\ manifest.segs \subseteq Seqs /\ committed \subseteq Seqs
  BY CkFacts, CopyFacts, ManFacts DEF CkRecs
<1>4. n \in ManRecs /\ n.cp = c /\ n.head = manifest.head /\ n.rev = manifest.rev + 1 /\ n.segs = S
  <2>1. S \in SUBSET Seqs /\ v \in Nat
    BY <1>3
  <2> HIDE DEF S, v
  <2>2. n \in ManRecs /\ n.cp = c /\ n.head = manifest.head /\ n.rev = v /\ n.segs = S
    BY <1>3, <2>1 DEF ManRecs
  <2> QED BY <2>2 DEF v
<1>5. manifest.cp <= c /\ c <= manifest.head /\ SnapFor(c, snap[c], committed) /\ 1 <= c
  BY FoldingSeq, CkFacts DEF FoldingInv, WriterInv, Folding
<1> HIDE DEF n
<1>6. HeldStays
  BY <1>2, <1>3, <1>4, <1>5, HeldFold DEF HeldStays, Held
<1>7. HeldBy(n, n, snap, committed)
  BY <1>3, <1>4, <1>5, FoldHeld DEF Held
<1>8. ck'[w] = q
  BY DEF CkInv, CkTypes
<1>9. TaskInv(w)'
  <2>1. AheadInv(w)'
    <3>1. pub[i].pc = "local" => c <= pub[i].man.head /\ manifest.head <= pub[i].man.head
      BY <1>1, CkFacts DEF AheadInv, Folding
    <3> QED BY <1>2, <1>4, <1>8, <3>1, CkFacts DEF AheadInv, Folding, copy
  <2>2. FoldingInv(w)'
    <3>1. c <= c
      BY <1>3
    <3> QED BY <1>2, <1>4, <1>5, <1>8, <3>1, CkFacts DEF FoldingInv, Folding, Whole, copy
  <2>3. WriterInv(w)'
    <3>1. Whole(i, manifest.head)
      BY <1>1, CkFacts DEF WriterInv
    <3> QED BY <1>2, <1>4, <1>5, <1>7, <1>8, <3>1 DEF WriterInv, Held, Whole, copy
  <2> QED BY <2>1, <2>2, <2>3 DEF TaskInv
<1>10. UNCHANGED <<committed, copy, sy, pub, rd>> /\ snap' \in [Seqs -> SUBSET Seqs]
       /\ HeldBy(manifest', manifest', snap', committed') /\ manifest' \in ManRecs /\ manifest'.head = manifest.head
  BY <1>2, <1>4, <1>7 DEF CkInv, CkTypes
<1> QED BY <1>6, <1>9, <1>10, BucketTask

LEMMA CkCasKeeps == ASSUME CkInv, NEW w \in Writers, CkCas(w) PROVE CkInv'
<1>1. CASE ck[w].man.rev = manifest.rev
  <2> DEFINE q == [ck[w] EXCEPT !.pc = "install", !.man = manifest']
  <2>1. ck' = [ck EXCEPT ![w] = q] /\ manifest' = Folded(ck[w].man, ck[w].seq) /\ ck[w].pc = "cas"
        /\ UNCHANGED <<snap, committed, copy, sy, pub, rd>>
    BY <1>1 DEF CkCas
  <2>2. manifest' \in ManRecs
    <3>1. ck[w].man \in ManRecs /\ ck[w].seq \in Nat
      BY CkFacts DEF CkRecs
    <3> DEFINE S == {s \in ck[w].man.segs : s > ck[w].seq}
               v == ck[w].man.rev + 1
    <3>2. S \in SUBSET Seqs /\ v \in Nat
      BY <3>1, ManFacts
    <3>3. manifest' = [ck[w].man EXCEPT !.cp = ck[w].seq, !.rev = v, !.segs = S]
      BY <2>1 DEF Folded
    <3> HIDE DEF S, v
    <3> QED BY <3>1, <3>2, <3>3 DEF ManRecs
  <2>3. q \in CkRecs /\ q.pc = "install" /\ q.seq = ck[w].seq /\ q.man = manifest'
    BY <2>2, CkFacts DEF CkRecs
  <2> HIDE DEF q
  <2> QED BY <1>1, <2>1, <2>3, FoldWritten
<1>2. CASE ck[w].man.rev # manifest.rev
  <2>1. /\ ck[w].pc = "cas" /\ UNCHANGED <<bucket, copy, sy, pub, rd>>
        /\ ck' = [ck EXCEPT ![w] = IF ck[w].attempts + 1 >= MaxAttempts THEN IdleCk
                                   ELSE [ck[w] EXCEPT !.pc = "resync", !.attempts = ck[w].attempts + 1]]
    BY <1>2 DEF CkCas, bucket
  <2> QED BY <2>1, CkCasLost
<1> QED BY <1>1, <1>2

LEMMA CkAbortKeeps == ASSUME CkInv, NEW w \in Writers, CkAbort(w) PROVE CkInv'
<1>1. ck' = [ck EXCEPT ![w] = IdleCk] /\ UNCHANGED <<committed, copy, sy, pub, rd>> /\ ck[w].pc \in {"put", "cas"}
  BY DEF CkAbort
<1>2. CASE UNCHANGED <<manifest, snap>>
  <2>1. UNCHANGED <<bucket, copy, sy, pub, rd>>
    BY <1>1, <1>2 DEF bucket
  <2> QED BY <1>1, <2>1, IdleCkRec, TaskAtRest, TaskStep
<1>3. CASE /\ ck[w].pc = "put" /\ snap' = [snap EXCEPT ![ck[w].seq] = ck[w].got] /\ UNCHANGED manifest
  BY <1>1, <1>3, IdleCkRec, PutSnapshot
<1>4. CASE /\ ck[w].pc = "cas" /\ ck[w].man.rev = manifest.rev
           /\ manifest' = Folded(ck[w].man, ck[w].seq) /\ UNCHANGED snap
  BY <1>1, <1>4, IdleCkRec, FoldWritten
<1> QED BY <1>2, <1>3, <1>4 DEF CkAbort

-----------------------------------------------------------------------------
(* Readers. *)

LEMMA ReaderStep ==
    ASSUME CkInv, NEW r \in Readers, NEW q \in RdRecs, rd' = [rd EXCEPT ![r] = q],
           UNCHANGED <<bucket, copy, sy, pub, ck>>, ReaderInv(r)'
    PROVE  CkInv'
<1> DEFINE i == HostOf[r]
<1>1. i \in Instances
  BY HostFacts
<1>2. /\ manifest' = manifest /\ committed' = committed /\ snap' = snap /\ man' = man /\ refs' = refs
      /\ applied' = applied /\ verified' = verified /\ sy' = sy /\ pub' = pub /\ ck' = ck
  BY DEF bucket, copy
<1>3. CkTypes' /\ SameElsewhere(i) /\ UNCHANGED bucket
  BY <1>2 DEF CkInv, CkTypes, SameElsewhere
<1>4. (CopyInv(i) /\ SyncInv(i) /\ PubInv(i))'
  BY <1>1, <1>2, CopyFacts DEF CopyInv, SyncInv, PubInv, Held, Whole, NoLoad
<1>5. \A w \in Writers : TaskInv(w)'
  BY <1>2, CkFacts DEF TaskInv, AheadInv, FoldingInv, WriterInv, Held, Whole
<1>6. ASSUME NEW x \in Readers, x # r PROVE ReaderInv(x)'
  <2>1. rd'[x] = rd[x]
    BY <1>6 DEF CkInv, CkTypes
  <2> QED BY <1>2, <2>1 DEF CkInv, ReaderInv
<1> QED BY <1>1, <1>3, <1>4, <1>5, <1>6, HostStep

LEMMA RdStartKeeps == ASSUME CkInv, NEW r \in Readers, NEW want \in Seqs, RdStart(r, want) PROVE CkInv'
<1> DEFINE m == man[HostOf[r]]
           q == [pc |-> "log", want |-> want, from |-> m.cp, got |-> Snapshot(m.cp)]
<1>1. rd' = [rd EXCEPT ![r] = q] /\ UNCHANGED <<bucket, copy, sy, pub, ck>> /\ want \in 1 .. m.head
  BY DEF RdStart
<1>2. HostOf[r] \in Instances /\ m \in ManRecs /\ Held(m) /\ m.cp \in Nat /\ m.head \in Nat /\ manifest \in ManRecs
      /\ manifest.head \in Nat /\ want \in Nat /\ manifest.cp \in Nat
  BY HostFacts, CopyFacts, ManFacts, SeqFacts DEF CopyInv
<1>3. m.head <= manifest.head /\ m.cp <= manifest.head /\ m.cp <= manifest.cp
  BY <1>2, HeldHead DEF Held, HeldBy
<1>4. Snapshot(m.cp) \in SUBSET Seqs
  <2>1. m.cp # 0 => m.cp \in Seqs
    BY <1>2, <1>3, SeqFacts DEF Seqs, CkInv, CkTypes
  <2> QED BY <2>1 DEF Snapshot, CkInv, CkTypes
<1>5. q \in RdRecs /\ q.pc = "log" /\ q.want = want /\ q.from = m.cp /\ q.got = Snapshot(m.cp)
  BY <1>2, <1>4 DEF RdRecs
<1>6. rd'[r] = q
  BY <1>1 DEF CkInv, CkTypes
<1> HIDE DEF q
<1>7. Writers = {} => m.cp = 0 /\ Snapshot(m.cp) = {}
  <2>1. Writers = {} => manifest.cp = 0
    BY DEF CkInv, BucketInv
  <2> QED BY <1>2, <1>3, <2>1 DEF Snapshot
<1>8. ReaderInv(r)'
  <2>1. want <= manifest.head
    BY <1>1, <1>2, <1>3
  <2> QED BY <1>1, <1>5, <1>6, <1>7, <2>1 DEF ReaderInv, bucket
<1> QED BY <1>1, <1>5, <1>8, ReaderStep

LEMMA RdLogKeeps == ASSUME CkInv, NEW r \in Readers, RdLog(r) PROVE CkInv'
<1> DEFINE G == rd[r].got \cup {s \in manifest.segs : rd[r].from < s /\ s <= rd[r].want}
           q == [rd[r] EXCEPT !.pc = "done", !.got = G]
<1>1. rd' = [rd EXCEPT ![r] = q] /\ UNCHANGED <<bucket, copy, sy, pub, ck>> /\ rd[r].pc = "log"
  BY DEF RdLog
<1>2. rd[r] \in RdRecs /\ rd[r].want \in Nat /\ ReaderInv(r) /\ HostOf[r] \in Instances
  BY HostFacts DEF CkInv, CkTypes, RdRecs
<1>3. manifest \in ManRecs /\ manifest.segs \subseteq Seqs /\ manifest.segs \subseteq committed
      /\ manifest.head \in Nat /\ committed \subseteq Nat /\ (\A s \in committed : s # 0)
      /\ (\A s \in committed : s <= manifest.head)
      /\ (\A s \in committed : manifest.cp < s /\ s <= manifest.head => s \in manifest.segs)
  BY <1>2, CopyFacts, ManFacts, SeqFacts DEF Held, HeldBy
<1>4. G \in SUBSET Seqs
  BY <1>2, <1>3 DEF RdRecs
<1>5. Writers = {} => G = {s \in committed : s <= rd[r].want} /\ rd[r].want <= manifest.head
  <2>1. Writers = {} => manifest.cp = 0 /\ rd[r].from = 0 /\ rd[r].got = {} /\ rd[r].want <= manifest.head
    BY <1>1, <1>2 DEF CkInv, BucketInv, ReaderInv
  <2>2. ASSUME Writers = {} PROVE G = {s \in committed : s <= rd[r].want}
    <3>1. G = {s \in manifest.segs : 0 < s /\ s <= rd[r].want}
      BY <2>1, <2>2
    <3>2. \A s \in committed : 0 < s /\ s \in manifest.segs
      BY <1>3, <2>1, <2>2
    <3> HIDE DEF G
    <3> QED BY <1>3, <3>1, <3>2
  <2> QED BY <2>1, <2>2
<1> HIDE DEF G
<1>6. q \in RdRecs /\ q.pc = "done" /\ q.got = G /\ q.want = rd[r].want
  BY <1>2, <1>4 DEF RdRecs
<1>7. rd'[r] = q
  BY <1>1 DEF CkInv, CkTypes
<1> HIDE DEF q
<1>8. ReaderInv(r)'
  BY <1>1, <1>5, <1>6, <1>7 DEF ReaderInv, bucket
<1> QED BY <1>1, <1>6, <1>8, ReaderStep

-----------------------------------------------------------------------------

LEMMA CkInvStep == CkInv /\ [Next]_vars => CkInv'
<1> SUFFICES ASSUME CkInv, [Next]_vars PROVE CkInv'
  OBVIOUS
<1>1. ASSUME NEW i \in Instances,
             \/ \E s \in Seqs : Publish(i, s)
             \/ PubLocal(i) \/ Restart(i)
             \/ SyncStart(i) \/ SyncLoad(i) \/ SyncFinish(i) \/ Repair(i)
      PROVE  CkInv'
  BY <1>1, PublishKeeps, PubLocalKeeps, RestartKeeps, SyncStartKeeps, SyncLoadKeeps, SyncFinishKeeps, RepairKeeps
<1>2. ASSUME NEW w \in Writers, CkStart(w) \/ CkStep(w) \/ CkAbort(w) PROVE CkInv'
  BY <1>2, CkStartKeeps, CkAbortKeeps, CkSyncKeeps, CkReadKeeps, CkSnapKeeps, CkPutKeeps, CkBaseKeeps,
     CkCasKeeps, CkInstallKeeps DEF CkStep
<1>3. ASSUME NEW r \in Readers, RdLog(r) \/ \E s \in Seqs : RdStart(r, s) PROVE CkInv'
  BY <1>3, RdLogKeeps, RdStartKeeps
<1>4. CASE UNCHANGED vars
  <2> USE <1>4 DEF vars
  <2>1. (OneFolder /\ CkTypes /\ BucketInv)'
    BY DEF CkInv, OneFolder, CkTypes, BucketInv, Held
  <2>2. \A m : Held(m)' = Held(m)
    BY DEF Held
  <2>3. ASSUME NEW i \in Instances PROVE (CopyInv(i) /\ SyncInv(i) /\ PubInv(i))'
    <3>1. CopyInv(i) /\ SyncInv(i) /\ PubInv(i)
      BY DEF CkInv
    <3>2. \A h : Whole(i, h)' = Whole(i, h)
      BY DEF Whole
    <3>3. NoLoad(i)' = NoLoad(i)
      BY DEF NoLoad
    <3>4. CopyInv(i)'
      BY <2>2, <3>1, <3>2 DEF CopyInv
    <3>5. SyncInv(i)'
      BY <2>2, <3>1, <3>2, <3>3 DEF SyncInv
    <3>6. PubInv(i)'
      BY <2>2, <3>1, <3>3 DEF PubInv
    <3> QED
      BY <3>4, <3>5, <3>6
  <2>4. ASSUME NEW w \in Writers PROVE (AheadInv(w) /\ FoldingInv(w) /\ WriterInv(w))'
    <3>1. AheadInv(w) /\ FoldingInv(w) /\ WriterInv(w)
      BY DEF CkInv
    <3>2. AheadInv(w)'
      BY <3>1 DEF AheadInv
    <3>3. FoldingInv(w)'
      BY <3>1 DEF FoldingInv, Whole
    <3>4. WriterInv(w)'
      BY <3>1 DEF WriterInv, Held, Whole
    <3> QED
      BY <3>2, <3>3, <3>4
  <2>5. ASSUME NEW r \in Readers PROVE ReaderInv(r)'
    <3>1. ReaderInv(r)
      BY DEF CkInv
    <3> QED
      BY <3>1 DEF ReaderInv
  <2> QED
    BY <2>1, <2>3, <2>4, <2>5 DEF CkInv
<1> QED BY <1>1, <1>2, <1>3, <1>4 DEF Next

LEMMA CkInvExact == CkInv => CheckpointsExact
<1> SUFFICES ASSUME CkInv PROVE CheckpointsExact
  OBVIOUS
<1>1. /\ manifest \in ManRecs /\ Held(manifest) /\ committed \subseteq Seqs
      /\ \A s \in committed : s <= manifest.head
  BY DEF CkInv, CkTypes, BucketInv
<1>2. FoldComplete
  BY <1>1, HeldFolds DEF FoldComplete
<1>3. CopyComplete
  <2> SUFFICES ASSUME NEW i \in Instances, Current(i) PROVE refs[i] = committed
    BY DEF CopyComplete
  <2>1. man[i] = manifest
    BY CopyFacts, SameRev DEF Current, CopyInv
  <2> QED BY <1>1, <2>1, CopyFacts DEF Current, CopyInv, Whole
<1>4. RefsAtSeqExact
  BY DEF CkInv, OneFolder, ReaderInv, RefsAtSeqExact
<1> QED BY <1>2, <1>3, <1>4 DEF CheckpointsExact

\* Where one task folds beside any number of publishers, syncs and restarts, even if it
\* installs its manifest in the middle of a sync, or where nothing folds and readers,
\* repairs and late commits mix: the manifest's snapshot and tail are the whole history, a
\* proven copy holds it, and refs_at_seq answers it as of the seq asked for
\* (write_checkpoint_inner, sync, refs_at_seq).
THEOREM CheckpointsAreExact == OneFolder /\ Spec => []CheckpointsExact
  BY CkInvInit, CkInvStep, CkInvExact, PTL DEF Spec

\* The next manifest forgets nothing that its checkpoint does not cover.
Forward == manifest.cp <= manifest'.cp /\ \A s \in manifest.segs : s \in manifest'.segs \/ s <= manifest'.cp

LEMMA FoldIsForward ==
    ASSUME CkInv, NEW w \in Writers, ck[w].pc = "cas", ck[w].man.rev = manifest.rev,
           manifest' = Folded(ck[w].man, ck[w].seq)
    PROVE  Forward
<1>1. ck[w].man = manifest
  BY CkFacts, SameRev DEF WriterInv
<1>2. manifest \in ManRecs /\ ck[w].seq \in Nat /\ manifest.segs \subseteq Nat
  BY CkFacts, CopyFacts, ManFacts, SeqFacts DEF CkRecs
<1>3. manifest'.cp = ck[w].seq /\ manifest'.segs = {s \in manifest.segs : s > ck[w].seq}
  BY <1>1, <1>2 DEF Folded, ManRecs
<1>4. manifest.cp <= ck[w].seq
  BY CkFacts DEF FoldingInv, Folding
<1> QED BY <1>2, <1>3, <1>4 DEF Forward

LEMMA PublishIsForward ==
    ASSUME CkInv, NEW i \in Instances, NEW s \in Seqs, Publish(i, s) PROVE Forward
<1>1. manifest \in ManRecs /\ manifest.cp \in Nat
  BY CopyFacts, ManFacts
<1>2. manifest'.cp = manifest.cp /\ manifest'.segs = manifest.segs \cup {s}
  BY <1>1 DEF Publish, ManRecs
<1> QED BY <1>1, <1>2 DEF Forward

LEMMA StaysForward == ASSUME CkInv, manifest' = manifest PROVE Forward
<1>1. manifest.cp \in Nat
  BY DEF CkInv, CkTypes, ManRecs
<1> QED BY <1>1 DEF Forward

\* In the same circumstances the checkpoint of the manifest never moves back, and an entry
\* leaves the log only into a checkpoint (the CAS of write_checkpoint_inner).
THEOREM FoldsForward == OneFolder /\ Spec => FoldForward
<1>1. CkInv /\ [Next]_vars => [Forward]_vars
  <2> SUFFICES ASSUME CkInv, Next PROVE Forward
    BY DEF Forward
  <2>1. CASE manifest' = manifest
    BY <2>1, StaysForward
  <2>2. CASE \E i \in Instances, s \in Seqs : Publish(i, s)
    BY <2>2, PublishIsForward
  <2>3. CASE \E w \in Writers : /\ ck[w].pc = "cas" /\ ck[w].man.rev = manifest.rev
                                /\ manifest' = Folded(ck[w].man, ck[w].seq)
    BY <2>3, FoldIsForward
  <2> QED
    <3>1. ASSUME NEW i \in Instances, PubLocal(i) \/ Restart(i) \/ SyncStart(i) \/ SyncLoad(i) \/ SyncFinish(i)
                                      \/ Repair(i)
          PROVE  manifest' = manifest
      BY <3>1 DEF PubLocal, Restart, SyncStart, SyncLoad, SyncFinish, Repair, bucket
    <3>2. ASSUME NEW w \in Writers, CkStart(w) \/ CkSync(w) \/ CkRead(w) \/ CkSnap(w) \/ CkPut(w) \/ CkBase(w)
                                    \/ CkInstall(w)
          PROVE  manifest' = manifest
      BY <3>2 DEF CkStart, CkSync, CkRead, CkSnap, CkPut, CkBase, CkInstall, CkUnchanged, bucket
    <3>3. ASSUME NEW w \in Writers, CkCas(w) \/ CkAbort(w)
          PROVE  \/ manifest' = manifest
                 \/ /\ ck[w].pc = "cas" /\ ck[w].man.rev = manifest.rev
                    /\ manifest' = Folded(ck[w].man, ck[w].seq)
      BY <3>3 DEF CkCas, CkAbort
    <3>4. ASSUME NEW r \in Readers, RdLog(r) \/ \E s \in Seqs : RdStart(r, s) PROVE manifest' = manifest
      BY <3>4 DEF RdLog, RdStart, bucket
    <3> QED BY <2>1, <2>2, <2>3, <3>1, <3>2, <3>3, <3>4 DEF Next, CkStep
<1>2. [Forward]_vars => [manifest.cp <= manifest'.cp /\ \A s \in manifest.segs : s \in manifest'.segs \/ s <= manifest'.cp]_vars
  BY DEF Forward
<1> QED BY <1>1, <1>2, CkInvInit, CkInvStep, PTL DEF Spec, FoldForward

-----------------------------------------------------------------------------
(* The log read out as it was at a seq, and filled by imports.              *)

\* What a transaction sets, entries, and states of the log.
Settable == UNION {[S -> Nat] : S \in SUBSET RwRefs}
RwEntries == [pack : Nat, drops : SUBSET Nat, sets : Settable]
\* A log: entries by seqs of which there is a last.
IsLog(log) ==
    /\ log = [n \in DOMAIN log |-> log[n]]
    /\ DOMAIN log \subseteq Nat /\ \E N \in Nat : \A n \in DOMAIN log : n <= N
    /\ \A n \in DOMAIN log : log[n] \in RwEntries

\* A nonempty set of naturals with an upper bound has a greatest element.
LEMMA NewestOf ==
    ASSUME NEW N \in Nat, NEW S \in SUBSET Nat, S # {}, \A t \in S : t <= N
    PROVE  Newest(S) \in S /\ \A t \in S : t <= Newest(S)
<1> DEFINE D == {e \in Nat : \E t \in S : e = N - t}
<1>1. D \subseteq Nat /\ D # {}
  <2>1. PICK t \in S : TRUE
    OBVIOUS
  <2>2. N - t \in D
    BY <2>1
  <2> QED
    BY <2>2
<1>2. PICK d \in D : \A e \in D : ~(<<e, d>> \in OpToRel(<, Nat))
  <2> HIDE DEF D
  <2> QED
    BY <1>1, NatLessThanWellFounded, WFMin
<1>3. \A e \in D : ~(e < d)
  BY <1>1, <1>2, Zenon DEF OpToRel
<1>4. PICK m \in S : d = N - m
  OBVIOUS
<1>5. \A t \in S : t <= m
  <2> TAKE t \in S
  <2>1. N - t \in D
    OBVIOUS
  <2> QED
    BY <1>3, <1>4, <2>1
<1> QED
  BY <1>4, <1>5 DEF Newest

\* The newest is the one that is not before any.
LEMMA NewestIs ==
    ASSUME NEW S \in SUBSET Nat, NEW n \in S, \A t \in S : t <= n
    PROVE  Newest(S) = n
<1>1. Newest(S) \in S /\ \A t \in S : t <= Newest(S)
  BY DEF Newest
<1>2. Newest(S) <= n /\ n <= Newest(S) /\ Newest(S) \in Nat /\ n \in Nat
  BY <1>1
<1> QED
  BY <1>2

\* Two logs, the second after the first.
After(log, more) == \A n \in DOMAIN log : \A m \in DOMAIN more : n < m

\* Two logs joined are a log.
LEMMA JoinedLog ==
    ASSUME NEW log, NEW more, IsLog(log), IsLog(more)
    PROVE  /\ IsLog(Joined(log, more))
           /\ DOMAIN Joined(log, more) = DOMAIN log \cup DOMAIN more
<1>1. /\ DOMAIN Joined(log, more) = DOMAIN log \cup DOMAIN more
      /\ \A n \in DOMAIN log \cup DOMAIN more :
            Joined(log, more)[n] = IF n \in DOMAIN more THEN more[n] ELSE log[n]
      /\ Joined(log, more) = [n \in DOMAIN Joined(log, more) |-> Joined(log, more)[n]]
  BY DEF Joined
<1>2. PICK N \in Nat : \A n \in DOMAIN log : n <= N
  BY DEF IsLog
<1>3. PICK M \in Nat : \A n \in DOMAIN more : n <= M
  BY DEF IsLog
<1>4. N + M \in Nat /\ \A n \in DOMAIN log \cup DOMAIN more : n <= N + M
  BY <1>2, <1>3 DEF IsLog
<1>5. \A n \in DOMAIN log \cup DOMAIN more : Joined(log, more)[n] \in RwEntries /\ n \in Nat
  BY <1>1 DEF IsLog
<1> QED
  BY <1>1, <1>4, <1>5 DEF IsLog

\* Replaying two logs one after the other is replaying both.
LEMMA Stitch ==
    ASSUME NEW start, NEW log, NEW more, IsLog(log), IsLog(more), After(log, more)
    PROVE  Replayed(start, Joined(log, more)) = Replayed(Replayed(start, log), more)
<1> DEFINE all == Joined(log, more)
<1>1. /\ DOMAIN all = DOMAIN log \cup DOMAIN more
      /\ \A n \in DOMAIN log : n \notin DOMAIN more /\ all[n] = log[n]
      /\ \A n \in DOMAIN more : n \notin DOMAIN log /\ all[n] = more[n]
  BY DEF Joined, After, IsLog
<1> HIDE DEF all
<1>2. Applied(start.refs, all) = Applied(Applied(start.refs, log), more)
  <2> SUFFICES ASSUME NEW r \in RwRefs
               PROVE  Applied(start.refs, all)[r] = Applied(Applied(start.refs, log), more)[r]
    BY DEF Applied
  <2>1. Settings(all, r) = Settings(log, r) \cup Settings(more, r)
    BY <1>1 DEF Settings
  <2>2. Settings(log, r) \subseteq DOMAIN log /\ Settings(more, r) \subseteq DOMAIN more
    BY DEF Settings
  <2>3. CASE Settings(more, r) # {}
    <3>1. PICK M \in Nat : \A n \in DOMAIN more : n <= M
      BY DEF IsLog
    <3> DEFINE k == Newest(Settings(more, r))
    <3>2. k \in Settings(more, r) /\ \A t \in Settings(more, r) : t <= k
      BY <2>2, <2>3, <3>1, NewestOf DEF IsLog
    <3>3. \A t \in Settings(all, r) : t <= k
      BY <2>1, <2>2, <3>2 DEF After, IsLog
    <3>4. Settings(all, r) \in SUBSET Nat /\ k \in Settings(all, r)
      BY <2>1, <2>2, <3>2 DEF IsLog
    <3> HIDE DEF k
    <3>5. Newest(Settings(all, r)) = k
      BY <3>3, <3>4, NewestIs
    <3>6. all[k] = more[k]
      BY <1>1, <2>2, <3>2
    <3> QED
      BY <2>3, <3>4, <3>5, <3>6 DEF Applied, k
  <2>4. CASE Settings(more, r) = {}
    <3>1. Settings(all, r) = Settings(log, r)
      BY <2>1, <2>4
    <3>2. CASE Settings(log, r) # {}
      <4>1. PICK M \in Nat : \A n \in DOMAIN log : n <= M
        BY DEF IsLog
      <4>2. Newest(Settings(log, r)) \in Settings(log, r)
        BY <2>2, <3>2, <4>1, NewestOf DEF IsLog
      <4>3. all[Newest(Settings(log, r))] = log[Newest(Settings(log, r))]
        BY <1>1, <2>2, <4>2
      <4> QED
        BY <2>4, <3>1, <3>2, <4>3 DEF Applied
    <3>3. CASE Settings(log, r) = {}
      BY <2>4, <3>1, <3>3 DEF Applied
    <3> QED
      BY <3>2, <3>3
  <2> QED
    BY <2>3, <2>4
<1>3. PackSet(start.packs, all) = PackSet(PackSet(start.packs, log), more)
  <2> DEFINE P(p) == \A n \in DOMAIN all : p \in all[n].drops => \E m \in DOMAIN all : m > n /\ all[m].pack = p
             Q(p) == \A n \in DOMAIN log : p \in log[n].drops => \E m \in DOMAIN log : m > n /\ log[m].pack = p
             R(p) == \A n \in DOMAIN more : p \in more[n].drops => \E m \in DOMAIN more : m > n /\ more[m].pack = p
             InLog(p) == \E n \in DOMAIN log : log[n].pack = p
             InMore(p) == \E n \in DOMAIN more : more[n].pack = p
  <2>0. \A n \in DOMAIN log : \A m \in DOMAIN more : m > n /\ ~(n > m)
    BY DEF After, IsLog
  <2>1. \A p : P(p) /\ InMore(p) => R(p)
    BY <1>1, <2>0
  <2>2. \A p : P(p) /\ ~InMore(p) => Q(p) /\ R(p)
    BY <1>1, <2>0
  <2>3. \A p : R(p) /\ InMore(p) => P(p)
    BY <1>1, <2>0
  <2>4. \A p : Q(p) /\ R(p) => P(p)
    BY <1>1, <2>0
  <2>5. \A p : p \in PackSet(start.packs, all) <=> (p \in start.packs \/ InLog(p) \/ InMore(p)) /\ p # 0 /\ P(p)
    BY <1>1 DEF PackSet
  <2>6. \A p : p \in PackSet(start.packs, log) <=> (p \in start.packs \/ InLog(p)) /\ p # 0 /\ Q(p)
    BY DEF PackSet
  <2>7. \A p : p \in PackSet(PackSet(start.packs, log), more)
                  <=> (p \in PackSet(start.packs, log) \/ InMore(p)) /\ p # 0 /\ R(p)
    BY DEF PackSet
  <2> HIDE DEF P, Q, R, InLog, InMore
  <2> QED
    BY <2>1, <2>2, <2>3, <2>4, <2>5, <2>6, <2>7
<1> QED
  BY <1>2, <1>3 DEF Replayed, all

\* The segment at s is what was committed there.
Committed(s) ==
    \A n \in Span(s) : n \in DOMAIN rwHistory /\ rwSegs[s][n - s + 1] = rwHistory[n]

\* The shapes of the manifest, the log objects, the packs and the history.
RwTypes ==
    /\ rwMan \in [head : Nat, min : Nat, cp : Nat, segs : SUBSET Nat, packs : SUBSET Nat]
    /\ DOMAIN rwSegs \subseteq Nat \ {0} /\ \A s \in DOMAIN rwSegs : rwSegs[s] \in Seq(RwEntries)
    /\ rwHolds \in Seq(SUBSET Nat)
    /\ IsLog(rwHistory)

\* Listed segments and those below the window are what was committed, and the listed ones cover the window.
RwLogInv ==
    /\ DOMAIN rwHistory \subseteq 1..rwMan.head
    /\ rwMan.cp <= rwMan.head /\ rwMan.min \in {0, rwMan.cp + 1} /\ (rwMan.min = 0 => rwMan.cp = 0)
    /\ rwMan.segs \subseteq DOMAIN rwSegs /\ \A s \in rwMan.segs : s <= rwMan.head /\ Committed(s)
    /\ \A s \in DOMAIN rwSegs : s < rwMan.min => Committed(s)
    /\ \A n \in DOMAIN rwHistory : n >= rwMan.min => \E s \in rwMan.segs : n \in Span(s)

\* The refs of a state point into its packs.
CompleteIn(st, holds) ==
    /\ st.packs \subseteq 1..Len(holds)
    /\ \A r \in RwRefs : st.refs[r] = 0 \/ \E p \in st.packs : st.refs[r] \in holds[p]
\* The manifest and the checkpoints are states of the history, and every state is complete.
StateInv ==
    /\ rwMan.packs = StateAt(rwMan.head).packs
    /\ \A s \in DOMAIN rwCks : s \in Nat /\ s <= rwMan.head /\ rwCks[s] = StateAt(s)
    /\ \A s \in Nat : CompleteIn(StateAt(s), rwHolds)

\* The import: what it is to publish is in the source, or in its packs and the manifest's.
RwImpInv ==
    /\ DOMAIN rwImp = DOMAIN NoRwImport
    /\ rwImp.refs \in [RwRefs -> Nat]
    /\ rwImp.pc = "pack" =>
          /\ rwImp.source \in Seq(SUBSET Nat) /\ rwImp.source # <<>>
          /\ \A r \in RwRefs : rwImp.refs[r] = 0 \/ \E i \in DOMAIN rwImp.source : rwImp.refs[r] \in rwImp.source[i]
    /\ rwImp.pc = "publish" =>
          /\ rwImp.packs \in Seq(SUBSET Nat) /\ rwImp.packs # <<>>
          /\ \A r \in RwRefs : \/ rwImp.refs[r] \in Holding(rwMan.packs) \cup {0}
                               \/ \E i \in DOMAIN rwImp.packs : rwImp.refs[r] \in rwImp.packs[i]
    /\ rwImp.pc = "compact" =>
          /\ rwImp.new \in 1..Len(rwHolds) /\ rwImp.old \subseteq 1..Len(rwHolds) /\ rwImp.new \notin rwImp.old
          /\ Holding(rwImp.old) \subseteq rwHolds[rwImp.new]

\* The rewind: what was read is what was committed after the seq it starts from.
LastAsked == IF rwOut.at < rwOut.head THEN rwOut.at ELSE rwOut.head
RwOutInv ==
    /\ DOMAIN rwOut = DOMAIN NoOut
    /\ rwOut.pc \in {"idle", "failed", "checkpoint", "log", "packs", "fetch", "done"}
    /\ rwOut.at \in Nat /\ rwOut.start \in Nat /\ rwOut.next \in Nat /\ rwOut.head \in Nat
    /\ rwOut.pc \in {"checkpoint", "log"} => rwOut.man.cp = rwMan.cp /\ rwOut.man.min = rwMan.min
    /\ rwOut.pc = "checkpoint" => rwOut.entries = NoSets /\ rwOut.start = 0 /\ rwOut.from = Nothing
    /\ rwOut.pc = "log" =>
          /\ rwOut.start < rwOut.next /\ rwOut.next <= rwMan.head + 1 /\ rwOut.start <= rwOut.at
          /\ rwOut.from = StateAt(rwOut.start)
          /\ rwOut.entries = Only(rwHistory, (rwOut.start + 1)..(rwOut.next - 1))
    /\ rwOut.pc \in {"packs", "fetch", "done"} => rwOut.head <= rwMan.head /\ OutState = StateAt(LastAsked)
    /\ rwOut.pc \in {"fetch", "done"} => OutState.packs \subseteq rwOut.todo \cup rwOut.got
    /\ rwOut.pc = "done" => rwOut.todo = {} /\ rwOut.refs = OutState.refs

\* The inductive invariant.
RwInv == RwTypes /\ RwLogInv /\ StateInv /\ RwImpInv /\ RwOutInv
\* No checkpoint while the log is read out, no burned seq under a fold, and a source that keeps what
\* is imported: each of the three is a state that section 6 of the README describes.
NoRwRace == RwRaces \cap {"fold", "orphan", "source"} = {}

\* A part of a log is a log.
LEMMA OnlyLog ==
    ASSUME NEW log, IsLog(log), NEW S
    PROVE  /\ IsLog(Only(log, S)) /\ DOMAIN Only(log, S) = DOMAIN log \cap S
           /\ \A n \in DOMAIN log \cap S : Only(log, S)[n] = log[n]
<1>1. /\ DOMAIN Only(log, S) = DOMAIN log \cap S
      /\ \A n \in DOMAIN log \cap S : Only(log, S)[n] = log[n]
      /\ Only(log, S) = [n \in DOMAIN Only(log, S) |-> Only(log, S)[n]]
  BY DEF Only
<1>2. PICK N \in Nat : \A n \in DOMAIN log : n <= N
  BY DEF IsLog
<1> QED
  BY <1>1, <1>2 DEF IsLog

\* A segment with its seqs is a log.
LEMMA NumberedLog ==
    ASSUME NEW entries \in Seq(RwEntries), NEW first \in Nat
    PROVE  /\ IsLog(Numbered(entries, first))
           /\ DOMAIN Numbered(entries, first) = first..(first + Len(entries) - 1)
           /\ \A n \in first..(first + Len(entries) - 1) : Numbered(entries, first)[n] = entries[n - first + 1]
<1>1. /\ DOMAIN Numbered(entries, first) = first..(first + Len(entries) - 1)
      /\ \A n \in first..(first + Len(entries) - 1) : Numbered(entries, first)[n] = entries[n - first + 1]
      /\ Numbered(entries, first) = [n \in DOMAIN Numbered(entries, first) |-> Numbered(entries, first)[n]]
  BY DEF Numbered
<1>2. \A n \in first..(first + Len(entries) - 1) : n \in Nat /\ n - first + 1 \in 1..Len(entries)
  OBVIOUS
<1>3. \A n \in first..(first + Len(entries) - 1) : entries[n - first + 1] \in RwEntries
  BY <1>2
<1>4. first + Len(entries) \in Nat /\ \A n \in first..(first + Len(entries) - 1) : n <= first + Len(entries)
  OBVIOUS
<1> QED
  BY <1>1, <1>2, <1>3, <1>4 DEF IsLog

\* Logs with the same entries are the same.
LEMMA SameLog ==
    ASSUME NEW log, NEW more, IsLog(log), IsLog(more), DOMAIN log = DOMAIN more,
           \A n \in DOMAIN log : log[n] = more[n]
    PROVE  log = more
<1>1. log = [n \in DOMAIN log |-> log[n]] /\ more = [n \in DOMAIN more |-> more[n]]
  BY DEF IsLog
<1>2. [n \in DOMAIN log |-> log[n]] = [n \in DOMAIN more |-> more[n]]
  OBVIOUS
<1> QED
  BY <1>1, <1>2

\* A state is an earlier state and the entries since.
LEMMA StateSplit ==
    ASSUME RwTypes, NEW c \in Nat, NEW s \in Nat, c <= s
    PROVE  StateAt(s) = Replayed(StateAt(c), Only(rwHistory, (c + 1)..s))
<1> DEFINE low == Only(rwHistory, 1..c)
           high == Only(rwHistory, (c + 1)..s)
           whole == Only(rwHistory, 1..s)
<1>1. /\ IsLog(low) /\ DOMAIN low = DOMAIN rwHistory \cap 1..c
      /\ \A n \in DOMAIN rwHistory \cap 1..c : low[n] = rwHistory[n]
  BY OnlyLog DEF RwTypes
<1>2. /\ IsLog(high) /\ DOMAIN high = DOMAIN rwHistory \cap (c + 1)..s
      /\ \A n \in DOMAIN rwHistory \cap (c + 1)..s : high[n] = rwHistory[n]
  BY OnlyLog DEF RwTypes
<1>3. /\ IsLog(whole) /\ DOMAIN whole = DOMAIN rwHistory \cap 1..s
      /\ \A n \in DOMAIN rwHistory \cap 1..s : whole[n] = rwHistory[n]
  BY OnlyLog DEF RwTypes
<1> HIDE DEF low, high, whole
<1>4. After(low, high)
  BY <1>1, <1>2 DEF After
<1>5. /\ IsLog(Joined(low, high)) /\ DOMAIN Joined(low, high) = DOMAIN low \cup DOMAIN high
      /\ \A n \in DOMAIN low \cup DOMAIN high : Joined(low, high)[n] = IF n \in DOMAIN high THEN high[n] ELSE low[n]
  BY <1>1, <1>2, JoinedLog DEF Joined
<1>6. DOMAIN low \cup DOMAIN high = DOMAIN whole
  BY <1>1, <1>2, <1>3
<1>7. whole = Joined(low, high)
  <2>1. \A n \in DOMAIN whole : whole[n] = Joined(low, high)[n]
    BY <1>1, <1>2, <1>3, <1>5, <1>6
  <2> QED
    BY <1>3, <1>5, <1>6, <2>1, SameLog
<1>8. Replayed(Nothing, Joined(low, high)) = Replayed(Replayed(Nothing, low), high)
  BY <1>1, <1>2, <1>4, Stitch
<1> QED
  BY <1>7, <1>8 DEF StateAt, low, high, whole

\* Beyond the head there is nothing more.
LEMMA BeyondHead ==
    ASSUME RwTypes, RwLogInv, NEW s \in Nat, s >= rwMan.head
    PROVE  StateAt(s) = StateAt(rwMan.head)
<1>0. rwMan.head \in Nat
  BY DEF RwTypes
<1>1. DOMAIN rwHistory \cap 1..s = DOMAIN rwHistory \cap 1..rwMan.head
  BY <1>0 DEF RwLogInv
<1>2. Only(rwHistory, 1..s) = Only(rwHistory, 1..rwMan.head)
  BY <1>1 DEF Only
<1> QED
  BY <1>2 DEF StateAt

\* A history with more entries at its end.
Extended(hist, entries, first) ==
    /\ IsLog(hist)
    /\ DOMAIN hist = DOMAIN rwHistory \cup first..(first + Len(entries) - 1)
    /\ \A n \in DOMAIN rwHistory : n < first /\ hist[n] = rwHistory[n]
    /\ \A n \in first..(first + Len(entries) - 1) : hist[n] = entries[n - first + 1]

\* The history after a commit.
LEMMA CommitLog ==
    ASSUME RwTypes, RwLogInv, NEW entries \in Seq(RwEntries), NEW first \in Nat, first > rwMan.head
    PROVE  Extended(Joined(rwHistory, Numbered(entries, first)), entries, first)
<1> DEFINE num == Numbered(entries, first)
           last == first + Len(entries) - 1
<1>0. rwMan.head \in Nat /\ IsLog(rwHistory)
  BY DEF RwTypes
<1>1. /\ IsLog(num) /\ DOMAIN num = first..last
      /\ \A n \in first..last : num[n] = entries[n - first + 1]
  BY NumberedLog
<1> HIDE DEF num
<1>2. \A n \in DOMAIN rwHistory : n \in Nat /\ n >= 1 /\ n <= rwMan.head /\ n < first /\ n \notin first..last
  BY <1>0 DEF RwLogInv
<1>3. /\ IsLog(Joined(rwHistory, Numbered(entries, first))) /\ DOMAIN Joined(rwHistory, Numbered(entries, first)) = DOMAIN rwHistory \cup first..last
      /\ \A n \in DOMAIN Joined(rwHistory, Numbered(entries, first)) : Joined(rwHistory, Numbered(entries, first))[n] = IF n \in first..last THEN num[n] ELSE rwHistory[n]
  BY <1>0, <1>1, JoinedLog DEF Joined, num
<1> QED
  BY <1>1, <1>2, <1>3 DEF Extended

\* What a commit makes of the states: the earlier ones stay, the others follow the head's.
LEMMA CommitStates ==
    ASSUME RwTypes, RwLogInv, NEW entries \in Seq(RwEntries), NEW first \in Nat, first > rwMan.head,
           NEW hist, Extended(hist, entries, first), NEW s \in Nat
    PROVE  /\ s < first => Replayed(Nothing, Only(hist, 1..s)) = StateAt(s)
           /\ s >= first => Replayed(Nothing, Only(hist, 1..s))
                                = Replayed(StateAt(rwMan.head), Only(Numbered(entries, first), 1..s))
<1> DEFINE num == Numbered(entries, first)
           last == first + Len(entries) - 1
<1>0. rwMan.head \in Nat /\ IsLog(rwHistory)
  BY DEF RwTypes
<1>1. /\ IsLog(num) /\ DOMAIN num = first..last
      /\ \A n \in first..last : num[n] = entries[n - first + 1]
  BY NumberedLog
<1> HIDE DEF num
<1>2. \A n \in DOMAIN rwHistory : n \in Nat /\ n >= 1 /\ n <= rwMan.head /\ n < first /\ n \notin first..last
  BY <1>0 DEF RwLogInv
<1>3. /\ IsLog(hist) /\ DOMAIN hist = DOMAIN rwHistory \cup first..last
      /\ \A n \in first..last : hist[n] = entries[n - first + 1]
  BY DEF Extended
<1>4. \A n \in DOMAIN rwHistory : n < first /\ hist[n] = rwHistory[n]
  BY DEF Extended
<1>5. ASSUME s < first
      PROVE  Replayed(Nothing, Only(hist, 1..s)) = StateAt(s)
  <2>1. /\ IsLog(Only(rwHistory, 1..s)) /\ DOMAIN Only(rwHistory, 1..s) = DOMAIN rwHistory \cap 1..s
        /\ \A n \in DOMAIN rwHistory \cap 1..s : Only(rwHistory, 1..s)[n] = rwHistory[n]
    BY <1>0, OnlyLog
  <2>2. /\ IsLog(Only(hist, 1..s)) /\ DOMAIN Only(hist, 1..s) = DOMAIN hist \cap 1..s
        /\ \A n \in DOMAIN hist \cap 1..s : Only(hist, 1..s)[n] = hist[n]
    BY <1>3, OnlyLog
  <2>3. DOMAIN hist \cap 1..s = DOMAIN rwHistory \cap 1..s
    BY <1>3, <1>5
  <2>4. \A n \in DOMAIN Only(rwHistory, 1..s) : Only(rwHistory, 1..s)[n] = Only(hist, 1..s)[n]
    BY <1>4, <2>1, <2>2, <2>3
  <2>5. Only(hist, 1..s) = Only(rwHistory, 1..s)
    BY <2>1, <2>2, <2>3, <2>4, SameLog
  <2> QED
    BY <2>5 DEF StateAt
<1>6. ASSUME s >= first
      PROVE  Replayed(Nothing, Only(hist, 1..s)) = Replayed(StateAt(rwMan.head), Only(num, 1..s))
  <2> DEFINE low == Only(rwHistory, 1..rwMan.head)
             high == Only(num, 1..s)
             whole == Only(hist, 1..s)
  <2>1. /\ IsLog(low) /\ DOMAIN low = DOMAIN rwHistory \cap 1..rwMan.head
        /\ \A n \in DOMAIN rwHistory \cap 1..rwMan.head : low[n] = rwHistory[n]
    BY <1>0, OnlyLog
  <2>2. /\ IsLog(high) /\ DOMAIN high = first..last \cap 1..s
        /\ \A n \in first..last \cap 1..s : high[n] = num[n]
    <3>1. /\ IsLog(high) /\ DOMAIN high = DOMAIN num \cap 1..s
          /\ \A n \in DOMAIN num \cap 1..s : high[n] = num[n]
      BY <1>1, OnlyLog
    <3> HIDE DEF high, last
    <3> QED
      BY <1>1, <3>1
  <2>3. /\ IsLog(whole) /\ DOMAIN whole = DOMAIN hist \cap 1..s
        /\ \A n \in DOMAIN hist \cap 1..s : whole[n] = hist[n]
    BY <1>3, OnlyLog
  <2> HIDE DEF low, high, whole
  <2>4. After(low, high)
    BY <1>0, <2>1, <2>2 DEF After
  <2>5. /\ IsLog(Joined(low, high)) /\ DOMAIN Joined(low, high) = DOMAIN low \cup DOMAIN high
        /\ \A n \in DOMAIN low \cup DOMAIN high : Joined(low, high)[n] = IF n \in DOMAIN high THEN high[n] ELSE low[n]
    BY <2>1, <2>2, JoinedLog DEF Joined
  <2>6. DOMAIN low = DOMAIN rwHistory
    <3>1. \A n \in DOMAIN rwHistory : n \in 1..rwMan.head
      BY <1>0, <1>2
    <3> QED
      BY <2>1, <3>1
  <2>7. \A n \in DOMAIN rwHistory : n \in 1..s
    BY <1>0, <1>2, <1>6
  <2>8. DOMAIN low \cup DOMAIN high = DOMAIN whole
    BY <1>3, <2>2, <2>3, <2>6, <2>7
  <2>9. \A n \in DOMAIN whole : whole[n] = Joined(low, high)[n]
    <3> TAKE n \in DOMAIN whole
    <3>1. CASE n \in DOMAIN high
      <4>1. Joined(low, high)[n] = num[n] /\ n \in first..last
        BY <2>2, <2>5, <3>1
      <4> QED
        BY <1>1, <1>3, <2>3, <4>1
    <3>2. CASE n \notin DOMAIN high
      <4>1. n \in DOMAIN rwHistory /\ Joined(low, high)[n] = low[n] /\ low[n] = rwHistory[n]
        BY <2>1, <2>5, <2>6, <2>8, <3>2
      <4> QED
        BY <1>4, <2>3, <4>1
    <3> QED
      BY <3>1, <3>2
  <2>10. whole = Joined(low, high)
    BY <2>3, <2>5, <2>8, <2>9, SameLog
  <2>11. Replayed(Nothing, Joined(low, high)) = Replayed(Replayed(Nothing, low), high)
    BY <2>1, <2>2, <2>4, Stitch
  <2> QED
    BY <2>10, <2>11 DEF StateAt, low, high, whole
<1> QED
  BY <1>5, <1>6 DEF num

\* Packs that are added take nothing from a state.
LEMMA MoreHeld ==
    ASSUME NEW holds \in Seq(SUBSET Nat), NEW packs \in Seq(SUBSET Nat), NEW st, CompleteIn(st, holds)
    PROVE  CompleteIn(st, holds \o packs)
<1>1. Len(holds \o packs) = Len(holds) + Len(packs) /\ \A p \in 1..Len(holds) : (holds \o packs)[p] = holds[p]
  OBVIOUS
<1>2. 1..Len(holds) \subseteq 1..Len(holds \o packs)
  BY <1>1
<1>3. \A p \in st.packs : p \in 1..Len(holds) /\ (holds \o packs)[p] = holds[p]
  BY <1>1 DEF CompleteIn
<1> HIDE <1>1
<1> QED
  BY <1>2, <1>3 DEF CompleteIn

\* The slot of a commit is past the head.
LEMMA FreeSlotIs ==
    ASSUME RwTypes
    PROVE  FreeSlot \in Nat /\ FreeSlot > rwMan.head /\ FreeSlot >= 1 /\ rwMan.head \in Nat
BY DEF RwTypes, FreeSlot

\* A commit keeps the invariant of the log and of a rewind when the states it adds are complete.
LEMMA CommitKeeps ==
    ASSUME RwInv, NEW first \in Nat, first > rwMan.head, NEW entries \in Seq(RwEntries), entries # <<>>, NEW packs \in Seq(SUBSET Nat),
           Commit(entries, first, packs), rwCks' = rwCks, rwOut' = rwOut,
           \A s \in Nat : s >= first =>
               CompleteIn(Replayed(StateAt(rwMan.head), Only(Numbered(entries, first), 1..s)), rwHolds \o packs)
    PROVE  RwTypes' /\ RwLogInv' /\ StateInv' /\ RwOutInv'
<1> DEFINE last == first + Len(entries) - 1
           num == Numbered(entries, first)
<1>0. /\ first > rwMan.head /\ first >= 1 /\ rwMan.head \in Nat
      /\ Len(entries) \in Nat /\ Len(entries) >= 1 /\ last \in Nat /\ last >= first
  BY DEF RwInv, RwTypes
<1>t. RwTypes /\ RwLogInv
  BY DEF RwInv
<1>1. IsLog(num) /\ DOMAIN num = first..last
  BY NumberedLog
<1>2. /\ rwSegs' = [s \in DOMAIN rwSegs \cup {first} |-> IF s = first THEN entries ELSE rwSegs[s]]
      /\ rwMan' = [rwMan EXCEPT !.head = last, !.segs = @ \cup {first}, !.packs = PackSet(@, num)]
      /\ rwHistory' = Joined(rwHistory, num)
      /\ rwHolds' = rwHolds \o packs
  BY DEF Commit
<1> HIDE DEF num
<1>3. /\ rwMan'.head = last /\ rwMan'.min = rwMan.min /\ rwMan'.cp = rwMan.cp
      /\ rwMan'.segs = rwMan.segs \cup {first} /\ rwMan'.packs = PackSet(rwMan.packs, num)
  BY <1>2 DEF RwInv, RwTypes
<1>4. /\ IsLog(rwHistory')
      /\ DOMAIN rwHistory' = DOMAIN rwHistory \cup first..last
      /\ \A n \in DOMAIN rwHistory : n < first /\ rwHistory'[n] = rwHistory[n]
      /\ \A n \in first..last : rwHistory'[n] = entries[n - first + 1]
  <2>1. Extended(Joined(rwHistory, Numbered(entries, first)), entries, first)
    BY <1>t, CommitLog
  <2>2. Joined(rwHistory, Numbered(entries, first)) = rwHistory'
    BY <1>2 DEF num
  <2>3. Extended(rwHistory', entries, first)
    BY <2>1, <2>2
  <2> QED
    BY <2>3 DEF Extended
<1>5. /\ \A s \in Nat : s < first => StateAt(s)' = StateAt(s)
      /\ \A s \in Nat : s >= first => StateAt(s)' = Replayed(StateAt(rwMan.head), Only(num, 1..s))
  <2>1. Extended(Joined(rwHistory, num), entries, first)
    BY <1>t, CommitLog DEF num
  <2> DEFINE hist == Joined(rwHistory, num)
  <2>2. hist = rwHistory'
    BY <1>2
  <2>3. Extended(hist, entries, first)
    BY <2>1
  <2> HIDE DEF hist
  <2>4. ASSUME NEW s \in Nat
        PROVE  /\ s < first => Replayed(Nothing, Only(hist, 1..s)) = StateAt(s)
               /\ s >= first => Replayed(Nothing, Only(hist, 1..s)) = Replayed(StateAt(rwMan.head), Only(num, 1..s))
    BY <1>t, <2>3, CommitStates DEF num
  <2> QED
    BY <2>2, <2>4 DEF StateAt
<1>6. RwTypes'
  <2>1. PackSet(rwMan.packs, num) \subseteq Nat
    BY <1>1 DEF RwInv, RwTypes, PackSet, IsLog, RwEntries
  <2>2. rwMan' \in [head : Nat, min : Nat, cp : Nat, segs : SUBSET Nat, packs : SUBSET Nat]
    BY <1>0, <1>2, <2>1 DEF RwInv, RwTypes
  <2>3. DOMAIN rwSegs' \subseteq Nat \ {0} /\ \A s \in DOMAIN rwSegs' : rwSegs'[s] \in Seq(RwEntries)
    BY <1>0, <1>2 DEF RwInv, RwTypes
  <2>4. rwHolds' \in Seq(SUBSET Nat)
    BY <1>2 DEF RwInv, RwTypes
  <2> QED
    BY <1>4, <2>2, <2>3, <2>4 DEF RwTypes
<1>7. ASSUME NEW s \in DOMAIN rwSegs, s # first, Committed(s)
      PROVE  Committed(s)' /\ Span(s)' = Span(s)
  <2>1. rwSegs'[s] = rwSegs[s]
    BY <1>2, <1>7
  <2>2. Span(s)' = Span(s)
    BY <2>1 DEF Span
  <2> QED
    BY <1>4, <1>7, <2>1, <2>2 DEF Committed
<1>8. Committed(first)' /\ Span(first)' = first..last
  <2>1. rwSegs'[first] = entries
    BY <1>2
  <2>2. Span(first)' = first..last
    BY <2>1 DEF Span
  <2> QED
    BY <1>4, <2>1, <2>2 DEF Committed
<1>9. RwLogInv'
  <2>1. DOMAIN rwHistory' \subseteq 1..rwMan'.head
    <3>1. \A n \in DOMAIN rwHistory : n \in 1..last
      BY <1>0 DEF RwInv, RwLogInv
    <3>2. first..last \subseteq 1..last
      BY <1>0
    <3> QED
      BY <1>3, <1>4, <3>1, <3>2
  <2>2. /\ rwMan'.cp <= rwMan'.head /\ rwMan'.min \in {0, rwMan'.cp + 1} /\ (rwMan'.min = 0 => rwMan'.cp = 0)
        /\ rwMan.min <= rwMan.head + 1
    BY <1>0, <1>3 DEF RwInv, RwLogInv, RwTypes
  <2>3. \A s \in rwMan.segs : s \in DOMAIN rwSegs /\ s # first /\ s <= last /\ Committed(s)
    BY <1>0 DEF RwInv, RwLogInv, RwTypes
  <2>4. rwMan'.segs \subseteq DOMAIN rwSegs' /\ \A s \in rwMan'.segs : s <= rwMan'.head /\ Committed(s)'
    BY <1>0, <1>2, <1>3, <1>7, <1>8, <2>3
  <2>5. ASSUME NEW s \in DOMAIN rwSegs', s < rwMan'.min
        PROVE  Committed(s)'
    <3>1. s # first /\ s \in DOMAIN rwSegs /\ s < rwMan.min
      BY <1>0, <1>2, <1>3, <2>2, <2>5 DEF RwInv, RwTypes
    <3> QED
      BY <1>7, <3>1 DEF RwInv, RwLogInv
  <2>6. ASSUME NEW n \in DOMAIN rwHistory', n >= rwMan'.min
        PROVE  \E s \in rwMan'.segs : n \in Span(s)'
    <3>1. CASE n \in first..last
      BY <1>3, <1>8, <3>1
    <3>2. CASE n \in DOMAIN rwHistory
      <4>1. PICK s \in rwMan.segs : n \in Span(s)
        BY <1>3, <2>6, <3>2 DEF RwInv, RwLogInv
      <4> QED
        BY <1>3, <1>7, <2>3, <4>1
    <3> QED
      BY <1>4, <3>1, <3>2
  <2> QED
    BY <2>1, <2>2, <2>4, <2>5, <2>6 DEF RwLogInv
<1>10. StateInv'
  <2>1. rwMan'.packs = StateAt(last)'.packs
    <3>1. Only(num, 1..last) = num
      <4>1. DOMAIN num \cap 1..last = DOMAIN num
        BY <1>0, <1>1
      <4> QED
        BY <1>1, <4>1 DEF Only, IsLog
    <3>2. StateAt(last)'.packs = PackSet(StateAt(rwMan.head).packs, num)
      BY <1>0, <1>5, <3>1 DEF Replayed
    <3> QED
      BY <1>3, <3>2 DEF RwInv, StateInv
  <2>2. \A s \in DOMAIN rwCks : s \in Nat /\ s <= last /\ s < first /\ rwCks[s] = StateAt(s)
    BY <1>0 DEF RwInv, StateInv
  <2>3. \A s \in Nat : CompleteIn(StateAt(s), rwHolds)'
    <3> TAKE s \in Nat
    <3>1. CASE s < first
      <4>1. CompleteIn(StateAt(s), rwHolds \o packs)
        BY MoreHeld DEF RwInv, StateInv, RwTypes
      <4> QED
        BY <1>2, <1>5, <3>1, <4>1 DEF CompleteIn
    <3>2. CASE s >= first
      BY <1>2, <1>5, <3>2 DEF CompleteIn, num
    <3> QED
      BY <1>0, <3>1, <3>2
  <2> QED
    BY <1>3, <1>5, <2>1, <2>2, <2>3 DEF StateInv
<1>11. RwOutInv'
  <2>0. OutState' = OutState /\ LastAsked' = LastAsked
    BY DEF OutState, LastAsked, InRange
  <2>1. ASSUME rwOut.pc = "log"
        PROVE  /\ rwOut.next <= rwMan'.head + 1
               /\ rwOut.from = StateAt(rwOut.start)'
               /\ rwOut.entries = Only(rwHistory', (rwOut.start + 1)..(rwOut.next - 1))
    <3>1. /\ rwOut.start \in Nat /\ rwOut.next \in Nat /\ rwOut.start < rwOut.next /\ rwOut.next <= rwMan.head + 1
          /\ rwOut.from = StateAt(rwOut.start)
          /\ rwOut.entries = Only(rwHistory, (rwOut.start + 1)..(rwOut.next - 1))
      BY <2>1 DEF RwInv, RwOutInv
    <3>a. rwMan'.head + 1 >= rwMan.head + 1 /\ first >= rwMan.head + 1 /\ rwMan.head + 1 \in Nat /\ first \in Nat
      BY <1>0, <1>3
    <3>2. rwOut.start < first /\ rwOut.next <= rwMan'.head + 1
      <4>1. rwMan'.head \in Int
        BY <1>0, <1>3
      <4> QED
        BY <3>1, <3>a, <4>1
    <3> DEFINE S == (rwOut.start + 1)..(rwOut.next - 1)
    <3>3. \A n \in S : n \notin first..last
      BY <1>0, <3>1
    <3> HIDE DEF S
    <3>4. DOMAIN rwHistory' \cap S = DOMAIN rwHistory \cap S
      BY <1>4, <3>3
    <3>5. Only(rwHistory', S) = Only(rwHistory, S)
      BY <1>4, <3>4 DEF Only
    <3> QED
      BY <1>5, <3>1, <3>2, <3>5 DEF S
  <2>2. ASSUME rwOut.pc \in {"packs", "fetch", "done"}
        PROVE  rwOut.head <= rwMan'.head /\ StateAt(LastAsked)' = StateAt(LastAsked)
    <3>1. rwOut.head <= rwMan.head /\ rwOut.head \in Nat /\ rwOut.at \in Nat
      BY <2>2 DEF RwInv, RwOutInv
    <3>2. LastAsked \in Nat /\ LastAsked < first /\ rwOut.head <= rwMan'.head
      BY <1>0, <1>3, <3>1 DEF LastAsked
    <3> QED
      BY <1>5, <2>0, <3>2
  <2> QED
    BY <1>3, <2>0, <2>1, <2>2 DEF RwInv, RwOutInv
<1> QED
  BY <1>6, <1>9, <1>10, <1>11

\* Everything that the old packs hold is held by the new ones.
Covers(old, new, holds) == \A p \in old : \A x \in rwHolds[p] : \E q \in new : x \in holds[q]

\* One entry, whose pack holds what it supersedes and what it sets refs to.
LEMMA OneEntry ==
    ASSUME RwInv, NEW first \in Nat, first > rwMan.head, NEW e \in RwEntries, NEW packs \in Seq(SUBSET Nat),
           NEW holds, holds = rwHolds \o packs,
           e.pack \in 1..Len(holds), e.pack \notin e.drops,
           \A p \in rwMan.packs : p \in e.drops => rwHolds[p] \subseteq holds[e.pack],
           \A r \in DOMAIN e.sets : \/ e.sets[r] \in holds[e.pack] \cup {0}
                                    \/ \E p \in rwMan.packs : e.sets[r] \in rwHolds[p]
    PROVE  /\ \A s \in Nat : s >= first =>
                 CompleteIn(Replayed(StateAt(rwMan.head), Only(Numbered(<<e>>, first), 1..s)), holds)
           /\ Covers(rwMan.packs, PackSet(rwMan.packs, Numbered(<<e>>, first)), holds)
           /\ e.pack \in PackSet(rwMan.packs, Numbered(<<e>>, first))
<1> DEFINE num == Numbered(<<e>>, first)
           st == StateAt(rwMan.head)
<1>1. IsLog(num) /\ DOMAIN num = {first} /\ num[first] = e
  <2>1. <<e>> \in Seq(RwEntries) /\ Len(<<e>>) = 1 /\ <<e>>[1] = e
    OBVIOUS
  <2>2. /\ IsLog(num) /\ DOMAIN num = first..(first + Len(<<e>>) - 1)
        /\ \A n \in first..(first + Len(<<e>>) - 1) : num[n] = <<e>>[n - first + 1]
    BY <2>1, NumberedLog
  <2>3. first..(first + Len(<<e>>) - 1) = {first} /\ first - first + 1 = 1
    BY <2>1
  <2> QED
    BY <2>1, <2>2, <2>3
<1> HIDE DEF num, st
<1>2. rwMan.head \in Nat /\ rwHolds \in Seq(SUBSET Nat) /\ st.packs = rwMan.packs /\ CompleteIn(st, rwHolds)
  BY DEF RwInv, RwTypes, StateInv, st
<1>3. /\ 1..Len(rwHolds) \subseteq 1..Len(holds) /\ \A p \in 1..Len(rwHolds) : p # 0 /\ holds[p] = rwHolds[p]
      /\ e.pack # 0
  BY <1>2
<1>4. \A p : p \in PackSet(rwMan.packs, num) <=> (p \in rwMan.packs \/ p = e.pack) /\ p # 0 /\ p \notin e.drops
  BY <1>1 DEF PackSet
<1>5. rwMan.packs \subseteq 1..Len(rwHolds)
  BY <1>2 DEF CompleteIn
<1>6. e.pack \in PackSet(rwMan.packs, num) /\ PackSet(rwMan.packs, num) \subseteq 1..Len(holds)
  BY <1>3, <1>4, <1>5
<1>7. Covers(rwMan.packs, PackSet(rwMan.packs, num), holds)
  <2> SUFFICES ASSUME NEW p \in rwMan.packs, NEW x \in rwHolds[p]
               PROVE  \E q \in PackSet(rwMan.packs, num) : x \in holds[q]
    BY DEF Covers
  <2>1. CASE p \in e.drops
    BY <1>6, <2>1
  <2>2. CASE p \notin e.drops
    BY <1>3, <1>4, <1>5, <2>2
  <2> QED
    BY <2>1, <2>2
<1>8. ASSUME NEW s \in Nat, s >= first
      PROVE  CompleteIn(Replayed(st, Only(num, 1..s)), holds)
  <2>1. Only(num, 1..s) = num
    <3>1. DOMAIN num \cap 1..s = DOMAIN num
      BY <1>1, <1>2, <1>8
    <3> QED
      BY <1>1, <3>1 DEF Only, IsLog
  <2>2. ASSUME NEW r \in RwRefs
        PROVE  Applied(st.refs, num)[r] = IF r \in DOMAIN e.sets THEN e.sets[r] ELSE st.refs[r]
    <3>1. Settings(num, r) = IF r \in DOMAIN e.sets THEN {first} ELSE {}
      BY <1>1 DEF Settings
    <3>2. Newest({first}) = first
      <4>1. {first} \in SUBSET Nat /\ first \in {first} /\ \A t \in {first} : t <= first
        OBVIOUS
      <4> QED
        BY <4>1, NewestIs
    <3> QED
      BY <1>1, <3>1, <3>2 DEF Applied
  <2>3. ASSUME NEW r \in RwRefs
        PROVE  \/ Applied(st.refs, num)[r] = 0
               \/ \E p \in PackSet(rwMan.packs, num) : Applied(st.refs, num)[r] \in holds[p]
    <3>1. CASE r \in DOMAIN e.sets
      BY <1>6, <1>7, <2>2, <3>1 DEF Covers
    <3>2. CASE r \notin DOMAIN e.sets
      <4>1. st.refs[r] = 0 \/ \E p \in rwMan.packs : st.refs[r] \in rwHolds[p]
        BY <1>2 DEF CompleteIn
      <4> QED
        BY <1>7, <2>2, <3>2, <4>1 DEF Covers
    <3> QED
      BY <3>1, <3>2
  <2>4. /\ Replayed(st, num).packs = PackSet(rwMan.packs, num)
        /\ Replayed(st, num).refs = Applied(st.refs, num)
    BY <1>2 DEF Replayed
  <2> QED
    BY <1>6, <2>1, <2>3, <2>4 DEF CompleteIn
<1> QED
  BY <1>6, <1>7, <1>8 DEF num, st

\* A batch of pushes: each brings a pack with the commit it sets its ref to.
LEMMA PushEntries ==
    ASSUME RwInv, NEW first \in Nat, first > rwMan.head, NEW entries \in Seq(RwEntries),
           NEW packs \in Seq(SUBSET Nat), NEW holds, holds = rwHolds \o packs, NEW k \in Nat, k = Len(rwHolds),
           Len(entries) = Len(packs),
           \A i \in 1..Len(entries) : /\ entries[i].pack = k + i /\ entries[i].drops = {} /\ packs[i] = {k + i}
                                      /\ \A r \in DOMAIN entries[i].sets : entries[i].sets[r] = k + i
    PROVE  /\ \A s \in Nat : s >= first =>
                 CompleteIn(Replayed(StateAt(rwMan.head), Only(Numbered(entries, first), 1..s)), holds)
           /\ Covers(rwMan.packs, PackSet(rwMan.packs, Numbered(entries, first)), holds)
<1> DEFINE num == Numbered(entries, first)
           st == StateAt(rwMan.head)
<1>1. /\ IsLog(num) /\ DOMAIN num = first..(first + Len(entries) - 1)
      /\ \A n \in DOMAIN num : num[n] = entries[n - first + 1] /\ n - first + 1 \in 1..Len(entries)
  <2>1. /\ IsLog(num) /\ DOMAIN num = first..(first + Len(entries) - 1)
        /\ \A n \in first..(first + Len(entries) - 1) : num[n] = entries[n - first + 1]
    BY NumberedLog
  <2>2. \A n \in first..(first + Len(entries) - 1) : n - first + 1 \in 1..Len(entries)
    OBVIOUS
  <2> QED
    BY <2>1, <2>2
<1> HIDE DEF num, st
<1>2. rwMan.head \in Nat /\ rwHolds \in Seq(SUBSET Nat) /\ st.packs = rwMan.packs /\ CompleteIn(st, rwHolds)
  BY DEF RwInv, RwTypes, StateInv, st
<1>3. /\ 1..Len(rwHolds) \subseteq 1..Len(holds) /\ \A p \in 1..Len(rwHolds) : p # 0 /\ holds[p] = rwHolds[p]
      /\ \A i \in 1..Len(packs) : k + i \in 1..Len(holds) /\ k + i # 0 /\ holds[k + i] = packs[i]
  BY <1>2
<1>4. \A n \in DOMAIN num : /\ num[n].pack \in 1..Len(holds) /\ num[n].pack # 0 /\ num[n].drops = {}
                            /\ \A r \in DOMAIN num[n].sets : num[n].sets[r] \in holds[num[n].pack]
  <2> TAKE n \in DOMAIN num
  <2>1. PICK i \in 1..Len(entries) : num[n] = entries[i]
    BY <1>1
  <2>2. k + i \in 1..Len(holds) /\ k + i # 0 /\ holds[k + i] = {k + i}
    BY <1>3, <2>1
  <2>3. /\ entries[i].pack = k + i /\ entries[i].drops = {}
        /\ \A r \in DOMAIN entries[i].sets : entries[i].sets[r] = k + i
    BY <2>1
  <2> QED
    BY <2>1, <2>2, <2>3
<1>5. rwMan.packs \subseteq 1..Len(rwHolds)
  BY <1>2 DEF CompleteIn
<1>6. ASSUME NEW log, IsLog(log), DOMAIN log \subseteq DOMAIN num, \A n \in DOMAIN log : log[n] = num[n]
      PROVE  /\ \A p : p \in PackSet(rwMan.packs, log) <=> p \in rwMan.packs \/ \E n \in DOMAIN log : p = log[n].pack
             /\ PackSet(rwMan.packs, log) \subseteq 1..Len(holds)
             /\ Covers(rwMan.packs, PackSet(rwMan.packs, log), holds)
  <2>1. \A p : p \in PackSet(rwMan.packs, log) <=> p \in rwMan.packs \/ \E n \in DOMAIN log : p = log[n].pack
    BY <1>3, <1>4, <1>5, <1>6 DEF PackSet
  <2>2. PackSet(rwMan.packs, log) \subseteq 1..Len(holds)
    BY <1>3, <1>4, <1>5, <1>6, <2>1
  <2>3. Covers(rwMan.packs, PackSet(rwMan.packs, log), holds)
    BY <1>3, <1>5, <2>1 DEF Covers
  <2> QED
    BY <2>1, <2>2, <2>3
<1>7. ASSUME NEW s \in Nat, s >= first
      PROVE  CompleteIn(Replayed(st, Only(num, 1..s)), holds)
  <2> DEFINE log == Only(num, 1..s)
  <2>1. IsLog(log) /\ DOMAIN log \subseteq DOMAIN num /\ \A n \in DOMAIN log : log[n] = num[n]
    <3>1. /\ IsLog(log) /\ DOMAIN log = DOMAIN num \cap 1..s
          /\ \A n \in DOMAIN num \cap 1..s : log[n] = num[n]
      <4>1. IsLog(num)
        BY <1>1
      <4> QED
        BY <4>1, OnlyLog
    <3> HIDE DEF log
    <3> QED
      BY <3>1
  <2> HIDE DEF log
  <2>2. /\ \A p : p \in PackSet(rwMan.packs, log) <=> p \in rwMan.packs \/ \E n \in DOMAIN log : p = log[n].pack
        /\ PackSet(rwMan.packs, log) \subseteq 1..Len(holds)
        /\ Covers(rwMan.packs, PackSet(rwMan.packs, log), holds)
    BY <1>6, <2>1
  <2>3. ASSUME NEW r \in RwRefs
        PROVE  \/ Applied(st.refs, log)[r] = 0
               \/ \E p \in PackSet(rwMan.packs, log) : Applied(st.refs, log)[r] \in holds[p]
    <3>1. CASE Settings(log, r) = {}
      <4>1. st.refs[r] = 0 \/ \E p \in rwMan.packs : st.refs[r] \in rwHolds[p]
        BY <1>2 DEF CompleteIn
      <4>2. Applied(st.refs, log)[r] = st.refs[r]
        BY <3>1 DEF Applied
      <4> QED
        BY <2>2, <4>1, <4>2 DEF Covers
    <3>2. CASE Settings(log, r) # {}
      <4>1. PICK M \in Nat : \A n \in DOMAIN log : n <= M
        BY <2>1 DEF IsLog
      <4>2. PICK n : n = Newest(Settings(log, r))
        OBVIOUS
      <4>3. n \in Settings(log, r)
        BY <2>1, <3>2, <4>1, <4>2, NewestOf DEF Settings, IsLog
      <4>4. n \in DOMAIN log /\ r \in DOMAIN log[n].sets /\ log[n] = num[n]
        BY <2>1, <4>3 DEF Settings
      <4>5. Applied(st.refs, log)[r] = log[n].sets[r]
        BY <3>2, <4>2 DEF Applied
      <4> QED
        <5>1. n \in DOMAIN num /\ num[n].sets[r] \in holds[num[n].pack]
          BY <1>4, <2>1, <4>4
        <5>2. num[n].pack \in PackSet(rwMan.packs, log)
          BY <2>2, <4>4
        <5> QED
          BY <4>4, <4>5, <5>1, <5>2
    <3> QED
      BY <3>1, <3>2
  <2>4. /\ Replayed(st, log).packs = PackSet(rwMan.packs, log)
        /\ Replayed(st, log).refs = Applied(st.refs, log)
    BY <1>2 DEF Replayed
  <2> QED
    BY <2>2, <2>3, <2>4 DEF CompleteIn, log
<1> QED
  BY <1>1, <1>6, <1>7 DEF num, st

\* The import beside a commit.
LEMMA ImportRests ==
    ASSUME RwInv, NEW packs \in Seq(SUBSET Nat), rwHolds' = rwHolds \o packs,
           Covers(rwMan.packs, rwMan'.packs, rwHolds'), rwImp' = rwImp
    PROVE  RwImpInv'
<1>0. rwHolds \in Seq(SUBSET Nat)
  BY DEF RwInv, RwTypes
<1>1. \A p \in 1..Len(rwHolds) : p \in 1..Len(rwHolds') /\ rwHolds'[p] = rwHolds[p]
  BY <1>0
<1>2. \A x \in Holding(rwMan.packs) : x \in Holding(rwMan.packs)'
  BY DEF Covers, Holding
<1>3. ASSUME rwImp.pc = "compact"
      PROVE  /\ rwImp.new \in 1..Len(rwHolds') /\ rwImp.old \subseteq 1..Len(rwHolds')
             /\ Holding(rwImp.old)' \subseteq rwHolds'[rwImp.new]
  <2>1. /\ rwImp.new \in 1..Len(rwHolds) /\ rwImp.old \subseteq 1..Len(rwHolds)
        /\ Holding(rwImp.old) \subseteq rwHolds[rwImp.new]
    BY <1>3 DEF RwInv, RwImpInv
  <2>2. Holding(rwImp.old)' = Holding(rwImp.old)
    BY <1>1, <2>1 DEF Holding
  <2> HIDE DEF RwInv
  <2>3. rwHolds'[rwImp.new] = rwHolds[rwImp.new] /\ rwImp.new \in 1..Len(rwHolds')
    BY <1>1, <2>1
  <2>4. rwImp.old \subseteq 1..Len(rwHolds')
    BY <1>1, <2>1
  <2> QED
    BY <2>1, <2>2, <2>3, <2>4
<1>4. ASSUME rwImp.pc = "publish", NEW r \in RwRefs
      PROVE  \/ rwImp.refs[r] \in Holding(rwMan.packs)' \cup {0}
             \/ \E i \in DOMAIN rwImp.packs : rwImp.refs[r] \in rwImp.packs[i]
  BY <1>2, <1>4 DEF RwInv, RwImpInv
<1> QED
  BY <1>3, <1>4 DEF RwInv, RwImpInv

\* Steps that leave the log alone.
LEMMA LogRests ==
    ASSUME RwInv, UNCHANGED <<rwMan, rwSegs, rwCks, rwHolds, rwHistory>>
    PROVE  /\ RwTypes' /\ RwLogInv' /\ StateInv'
           /\ rwImp' = rwImp => RwImpInv'
           /\ rwOut' = rwOut => RwOutInv'
<1>1. \A s : StateAt(s)' = StateAt(s) /\ Span(s)' = Span(s) /\ Committed(s)' = Committed(s)
  BY DEF StateAt, Committed, Span
<1>2. RwTypes' /\ RwLogInv'
  BY <1>1 DEF RwInv, RwTypes, RwLogInv
<1>3. StateInv'
  BY <1>1 DEF RwInv, StateInv, CompleteIn
<1>4. rwImp' = rwImp => RwImpInv'
  BY DEF RwInv, RwImpInv, Holding
<1>5. ASSUME rwOut' = rwOut PROVE RwOutInv'
  <2>1. OutState' = OutState /\ LastAsked' = LastAsked
    BY <1>5 DEF OutState, LastAsked, InRange
  <2> QED
    BY <1>1, <1>5, <2>1 DEF RwInv, RwOutInv, StateAt
<1> QED
  BY <1>2, <1>3, <1>4, <1>5

\* A batch of pushes (push_publish_locked) keeps the invariant.
LEMMA PushStep ==
    ASSUME RwInv, RewindAssumption, RwPush
    PROVE  RwInv'
<1>0. FreeSlot \in Nat /\ FreeSlot > rwMan.head /\ rwHolds \in Seq(SUBSET Nat)
  BY FreeSlotIs DEF RwInv, RwTypes
<1>1. PICK batch \in RwBatches :
          Commit([i \in 1..Len(batch) |-> RwEntry(Len(rwHolds) + i, {}, [r \in {batch[i]} |-> Len(rwHolds) + i])],
                 FreeSlot, [i \in 1..Len(batch) |-> {Len(rwHolds) + i}])
  BY DEF RwPush
<1> DEFINE k == Len(rwHolds)
           entries == [i \in 1..Len(batch) |-> RwEntry(k + i, {}, [r \in {batch[i]} |-> k + i])]
           packs == [i \in 1..Len(batch) |-> {k + i}]
<1>2. batch \in Seq(RwRefs) /\ batch # <<>> /\ Len(batch) \in Nat /\ k \in Nat
  BY <1>0, RewindAssumption
<1>3. ASSUME NEW i \in 1..Len(batch)
      PROVE  RwEntry(k + i, {}, [r \in {batch[i]} |-> k + i]) \in RwEntries /\ k + i \in Nat
  <2>1. k + i \in Nat /\ batch[i] \in RwRefs
    BY <1>2
  <2>2. [r \in {batch[i]} |-> k + i] \in [{batch[i]} -> Nat] /\ {batch[i]} \in SUBSET RwRefs
    BY <2>1
  <2>3. [r \in {batch[i]} |-> k + i] \in Settable
    BY <2>2 DEF Settable
  <2> HIDE DEF k
  <2> QED
    BY <2>1, <2>3 DEF RwEntry, RwEntries
<1>4. entries \in Seq(RwEntries) /\ packs \in Seq(SUBSET Nat) /\ Len(entries) = Len(packs) /\ entries # <<>>
      /\ Len(entries) = Len(batch)
  <2>1. entries \in [1..Len(batch) -> RwEntries] /\ packs \in [1..Len(batch) -> SUBSET Nat]
    BY <1>3
  <2>2. entries \in Seq(RwEntries) /\ packs \in Seq(SUBSET Nat)
    <3>1. ASSUME NEW S, NEW f \in [1..Len(batch) -> S] PROVE f \in Seq(S)
      BY <1>2, SeqDef
    <3> HIDE DEF entries, packs
    <3> QED
      BY <2>1, <3>1
  <2>3. Len(entries) = Len(batch) /\ Len(packs) = Len(batch)
    BY <1>2
  <2>4. Len(batch) # 0
    BY <1>2
  <2> HIDE DEF entries, packs
  <2>5. entries # <<>>
    BY <2>2, <2>3, <2>4
  <2> QED
    BY <2>2, <2>3, <2>5
<1>5. \A i \in 1..Len(entries) : /\ entries[i].pack = k + i /\ entries[i].drops = {} /\ packs[i] = {k + i}
                                 /\ \A r \in DOMAIN entries[i].sets : entries[i].sets[r] = k + i
  <2> TAKE i \in 1..Len(entries)
  <2>1. i \in 1..Len(batch)
    BY <1>4
  <2>2. entries[i] = RwEntry(k + i, {}, [r \in {batch[i]} |-> k + i]) /\ packs[i] = {k + i}
    BY <2>1
  <2> HIDE DEF entries, packs, k
  <2> QED
    BY <2>2 DEF RwEntry
<1>6. Commit(entries, FreeSlot, packs)
  BY <1>1
<1> HIDE DEF entries, packs
<1>7. /\ \A s \in Nat : s >= FreeSlot =>
            CompleteIn(Replayed(StateAt(rwMan.head), Only(Numbered(entries, FreeSlot), 1..s)), rwHolds \o packs)
      /\ Covers(rwMan.packs, PackSet(rwMan.packs, Numbered(entries, FreeSlot)), rwHolds \o packs)
  BY <1>0, <1>2, <1>4, <1>5, PushEntries
<1>8. rwCks' = rwCks /\ rwOut' = rwOut /\ rwImp' = rwImp
  BY DEF RwPush
<1>9. RwTypes' /\ RwLogInv' /\ StateInv' /\ RwOutInv'
  BY <1>0, <1>4, <1>6, <1>7, <1>8, CommitKeeps
<1>10. rwHolds' = rwHolds \o packs /\ rwMan'.packs = PackSet(rwMan.packs, Numbered(entries, FreeSlot))
  BY <1>6 DEF Commit, RwInv, RwTypes
<1>11. RwImpInv'
  BY <1>4, <1>7, <1>8, <1>10, ImportRests DEF Covers
<1> QED
  BY <1>9, <1>11 DEF RwInv

\* A commit of one entry.
LEMMA OneCommit ==
    ASSUME RwInv, NEW e \in RwEntries, NEW packs \in Seq(SUBSET Nat), Commit(<<e>>, FreeSlot, packs),
           rwCks' = rwCks, rwOut' = rwOut,
           NEW holds, holds = rwHolds \o packs,
           e.pack \in 1..Len(holds), e.pack \notin e.drops,
           \A p \in rwMan.packs : p \in e.drops => rwHolds[p] \subseteq holds[e.pack],
           \A r \in DOMAIN e.sets : \/ e.sets[r] \in holds[e.pack] \cup {0}
                                    \/ \E p \in rwMan.packs : e.sets[r] \in rwHolds[p]
    PROVE  /\ RwTypes' /\ RwLogInv' /\ StateInv' /\ RwOutInv'
           /\ rwHolds' = holds /\ Covers(rwMan.packs, rwMan'.packs, rwHolds') /\ e.pack \in rwMan'.packs
<1>0. FreeSlot \in Nat /\ FreeSlot > rwMan.head
  BY FreeSlotIs DEF RwInv
<1>1. <<e>> \in Seq(RwEntries) /\ <<e>> # <<>>
  OBVIOUS
<1>2. /\ \A s \in Nat : s >= FreeSlot =>
            CompleteIn(Replayed(StateAt(rwMan.head), Only(Numbered(<<e>>, FreeSlot), 1..s)), holds)
      /\ Covers(rwMan.packs, PackSet(rwMan.packs, Numbered(<<e>>, FreeSlot)), holds)
      /\ e.pack \in PackSet(rwMan.packs, Numbered(<<e>>, FreeSlot))
  BY <1>0, OneEntry
<1>3. RwTypes' /\ RwLogInv' /\ StateInv' /\ RwOutInv'
  BY <1>0, <1>1, <1>2, CommitKeeps
<1>4. rwHolds' = rwHolds \o packs /\ rwMan'.packs = PackSet(rwMan.packs, Numbered(<<e>>, FreeSlot))
  BY DEF Commit, RwInv, RwTypes
<1> QED
  BY <1>2, <1>3, <1>4

\* The packs that are listed are there, and hold commits.
LEMMA ListedPacks ==
    ASSUME RwInv
    PROVE  /\ rwHolds \in Seq(SUBSET Nat) /\ Len(rwHolds) \in Nat /\ rwMan.packs \subseteq 1..Len(rwHolds)
           /\ Holding(rwMan.packs) \subseteq Nat /\ rwMan.packs \subseteq Nat
<1>1. rwHolds \in Seq(SUBSET Nat) /\ rwMan.head \in Nat /\ rwMan.packs \subseteq Nat
  BY DEF RwInv, RwTypes
<1>2. rwMan.packs \subseteq 1..Len(rwHolds)
  BY <1>1 DEF RwInv, StateInv, CompleteIn
<1>3. \A p \in 1..Len(rwHolds) : rwHolds[p] \subseteq Nat
  BY <1>1
<1> QED
  BY <1>1, <1>2, <1>3 DEF Holding

\* The empty transaction.
LEMMA NoSetsIs == NoSets \in Settable /\ DOMAIN NoSets = {}
<1>1. NoSets \in [{} -> Nat] /\ {} \in SUBSET RwRefs
  BY DEF NoSets
<1> QED
  BY <1>1 DEF Settable, NoSets

\* A compaction keeps the invariant: the new pack holds what the old ones did.
LEMMA CompactStep ==
    ASSUME RwInv, RwCompact
    PROVE  RwInv'
<1> DEFINE new == Len(rwHolds) + 1
           e == RwEntry(new, rwMan.packs, NoSets)
           packs == <<Holding(rwMan.packs)>>
           holds == rwHolds \o packs
<1>1. Commit(<<e>>, FreeSlot, packs) /\ rwCks' = rwCks /\ rwOut' = rwOut /\ rwImp' = rwImp
  BY DEF RwCompact
<1>2. /\ rwHolds \in Seq(SUBSET Nat) /\ Len(rwHolds) \in Nat /\ rwMan.packs \subseteq 1..Len(rwHolds)
      /\ Holding(rwMan.packs) \subseteq Nat /\ rwMan.packs \subseteq Nat
  BY ListedPacks
<1>3. e \in RwEntries /\ e.pack = new /\ e.drops = rwMan.packs /\ DOMAIN e.sets = {}
  BY <1>2, NoSetsIs DEF RwEntry, RwEntries
<1>4. packs \in Seq(SUBSET Nat)
  BY <1>2
<1>5. new \in 1..Len(holds) /\ new \notin rwMan.packs /\ holds[new] = Holding(rwMan.packs)
  BY <1>2
<1>6. \A p \in rwMan.packs : rwHolds[p] \subseteq holds[new]
  BY <1>5 DEF Holding
<1> HIDE DEF e, packs, holds
<1>7. /\ RwTypes' /\ RwLogInv' /\ StateInv' /\ RwOutInv'
      /\ rwHolds' = holds /\ Covers(rwMan.packs, rwMan'.packs, rwHolds')
  <2> HIDE DEF new
  <2>1. holds = rwHolds \o packs
    BY DEF holds
  <2> QED
    BY <1>1, <1>3, <1>4, <1>5, <1>6, <2>1, OneCommit
<1>8. RwImpInv'
  BY <1>1, <1>4, <1>7, ImportRests DEF holds
<1> QED
  BY <1>7, <1>8 DEF RwInv

\* A burned seq is past everything that is listed.
LEMMA OrphanStep ==
    ASSUME RwInv, RewindAssumption, RwOrphan
    PROVE  RwInv'
<1> DEFINE n0 == rwMan.head + 1
           x == <<RwEntry(0, {}, [r \in RwRefs |-> RwMaxPacks + 1])>>
<1>1. /\ rwSegs' = [s \in DOMAIN rwSegs \cup {n0} |-> IF s = n0 THEN x ELSE rwSegs[s]]
      /\ UNCHANGED <<rwMan, rwCks, rwHolds, rwStore, rwHistory, rwImp, rwOut>>
  BY DEF RwOrphan
<1>2. rwMan.head \in Nat /\ rwMan.min \in Nat /\ rwMan.min <= n0 /\ n0 \in Nat \ {0} /\ rwMan.segs \subseteq Nat
  BY DEF RwInv, RwTypes, RwLogInv
<1>3. x \in Seq(RwEntries)
  <2>1. [r \in RwRefs |-> RwMaxPacks + 1] \in [RwRefs -> Nat] /\ RwRefs \in SUBSET RwRefs
    BY RewindAssumption
  <2>2. [r \in RwRefs |-> RwMaxPacks + 1] \in Settable
    BY <2>1 DEF Settable
  <2>3. RwEntry(0, {}, [r \in RwRefs |-> RwMaxPacks + 1]) \in RwEntries
    BY <2>2 DEF RwEntry, RwEntries
  <2> QED
    BY <2>3
<1> HIDE DEF x
<1>4. RwTypes'
  <2>1. DOMAIN rwSegs' \subseteq Nat \ {0} /\ \A s \in DOMAIN rwSegs' : rwSegs'[s] \in Seq(RwEntries)
    BY <1>1, <1>2, <1>3 DEF RwInv, RwTypes
  <2> QED
    BY <1>1, <2>1 DEF RwInv, RwTypes
<1>5. ASSUME NEW s \in DOMAIN rwSegs, s # n0
      PROVE  Span(s)' = Span(s) /\ Committed(s)' = Committed(s)
  BY <1>1, <1>5 DEF Span, Committed
<1>6. RwLogInv'
  <2>1. \A s \in rwMan.segs : s \in DOMAIN rwSegs /\ s # n0 /\ s <= rwMan.head /\ Committed(s)
    BY <1>2 DEF RwInv, RwLogInv
  <2>2. \A s \in DOMAIN rwSegs' : s < rwMan.min => s # n0 /\ s \in DOMAIN rwSegs
    BY <1>1, <1>2
  <2>3. \A s \in DOMAIN rwSegs' : s < rwMan.min => Committed(s)'
    BY <1>5, <2>2 DEF RwInv, RwLogInv
  <2>4. \A n \in DOMAIN rwHistory : n >= rwMan.min => \E s \in rwMan.segs : n \in Span(s)'
    BY <1>5, <2>1 DEF RwInv, RwLogInv
  <2>5. rwMan.segs \subseteq DOMAIN rwSegs' /\ \A s \in rwMan.segs : s <= rwMan.head /\ Committed(s)'
    BY <1>1, <1>5, <2>1
  <2> QED
    BY <1>1, <2>3, <2>4, <2>5 DEF RwInv, RwLogInv
<1>7. StateInv' /\ RwImpInv'
  BY <1>1 DEF RwInv, StateInv, StateAt, CompleteIn, RwImpInv, Holding
<1>8. RwOutInv'
  <2>1. OutState' = OutState /\ LastAsked' = LastAsked
    BY <1>1 DEF OutState, LastAsked, InRange
  <2> QED
    BY <1>1, <2>1 DEF RwInv, RwOutInv, StateAt
<1> QED
  BY <1>4, <1>6, <1>7, <1>8 DEF RwInv

\* A fold turns the listed segments into ones below the window.
LEMMA CheckpointStep ==
    ASSUME RwInv, NoRwRace, RwCheckpoint
    PROVE  RwInv'
<1>1. /\ rwOut.pc \notin {"checkpoint", "log"} /\ Orphans \cap 1..rwMan.head = {}
      /\ rwCks' = [s \in DOMAIN rwCks \cup {rwMan.head} |-> IF s = rwMan.head THEN StateAt(s) ELSE rwCks[s]]
      /\ rwMan' = [rwMan EXCEPT !.cp = rwMan.head, !.min = rwMan.head + 1, !.segs = {}]
      /\ UNCHANGED <<rwSegs, rwHolds, rwStore, rwHistory, rwImp, rwOut>>
  BY DEF RwCheckpoint, NoRwRace
<1>2. /\ rwMan.head \in Nat /\ rwMan.min \in Nat
      /\ rwMan'.head = rwMan.head /\ rwMan'.cp = rwMan.head /\ rwMan'.min = rwMan.head + 1
      /\ rwMan'.segs = {} /\ rwMan'.packs = rwMan.packs
  BY <1>1 DEF RwInv, RwTypes
<1>3. \A s : StateAt(s)' = StateAt(s) /\ Span(s)' = Span(s) /\ Committed(s)' = Committed(s)
  BY <1>1 DEF StateAt, Committed, Span
<1>4. RwTypes'
  <2>1. rwMan' \in [head : Nat, min : Nat, cp : Nat, segs : SUBSET Nat, packs : SUBSET Nat]
    <3>1. rwMan \in [head : Nat, min : Nat, cp : Nat, segs : SUBSET Nat, packs : SUBSET Nat]
      BY DEF RwInv, RwTypes
    <3>2. rwMan.head + 1 \in Nat /\ {} \in SUBSET Nat
      BY <1>2
    <3> HIDE DEF RwInv
    <3> QED
      BY <1>1, <1>2, <3>1, <3>2
  <2> QED
    BY <1>1, <2>1 DEF RwInv, RwTypes
<1>5. RwLogInv'
  <2>1. ASSUME NEW s \in DOMAIN rwSegs, s < rwMan.head + 1
        PROVE  Committed(s)
    <3>1. CASE s < rwMan.min
      BY <3>1 DEF RwInv, RwLogInv
    <3>2. CASE s >= rwMan.min
      <4>1. s \in 1..rwMan.head
        BY <1>2, <2>1 DEF RwInv, RwTypes
      <4>2. s \in rwMan.segs
        BY <1>1, <3>2, <4>1 DEF Orphans
      <4> QED
        BY <4>2 DEF RwInv, RwLogInv
    <3> QED
      BY <1>2, <3>1, <3>2 DEF RwInv, RwTypes
  <2>2. \A n \in DOMAIN rwHistory : ~(n >= rwMan.head + 1)
    BY <1>2 DEF RwInv, RwLogInv
  <2>3. rwMan'.cp <= rwMan'.head /\ rwMan'.min \in {0, rwMan'.cp + 1} /\ (rwMan'.min = 0 => rwMan'.cp = 0)
    BY <1>2
  <2>4. DOMAIN rwHistory' \subseteq 1..rwMan'.head
    BY <1>1, <1>2 DEF RwInv, RwLogInv
  <2> QED
    BY <1>1, <1>2, <1>3, <2>1, <2>2, <2>3, <2>4 DEF RwLogInv
<1>6. StateInv'
  BY <1>1, <1>2, <1>3 DEF RwInv, StateInv, CompleteIn
<1>7. RwImpInv'
  BY <1>1, <1>2 DEF RwInv, RwImpInv, Holding
<1>8. RwOutInv'
  <2>1. OutState' = OutState /\ LastAsked' = LastAsked
    BY <1>1 DEF OutState, LastAsked, InRange
  <2> QED
    BY <1>1, <1>2, <1>3, <2>1 DEF RwInv, RwOutInv, StateAt
<1> QED
  BY <1>4, <1>5, <1>6, <1>7, <1>8 DEF RwInv

\* What is swept is not listed.
LEMMA SweepStep ==
    ASSUME RwInv, RwSweep
    PROVE  RwInv'
<1>0. UNCHANGED <<rwMan, rwHolds, rwHistory, rwImp, rwOut>>
  BY DEF RwSweep
<1>1. \/ UNCHANGED <<rwSegs, rwCks>>
      \/ UNCHANGED rwSegs /\ \E s : rwCks' = [k \in DOMAIN rwCks \ {s} |-> rwCks[k]]
      \/ UNCHANGED rwCks /\ \E s \in DOMAIN rwSegs \ rwMan.segs : rwSegs' = [k \in DOMAIN rwSegs \ {s} |-> rwSegs[k]]
  BY DEF RwSweep
<1>2. CASE UNCHANGED <<rwSegs, rwCks>>
  BY <1>0, <1>2, LogRests DEF RwInv
<1>3. \A s : StateAt(s)' = StateAt(s)
  BY <1>0 DEF StateAt
<1>4. RwImpInv' /\ RwOutInv'
  <2>1. OutState' = OutState /\ LastAsked' = LastAsked
    BY <1>0 DEF OutState, LastAsked, InRange
  <2>2. RwOutInv'
    BY <1>0, <2>1 DEF RwInv, RwOutInv, StateAt
  <2>3. RwImpInv'
    BY <1>0 DEF RwInv, RwImpInv, Holding
  <2> QED
    BY <2>2, <2>3
<1>5. ASSUME UNCHANGED rwSegs, NEW s, rwCks' = [k \in DOMAIN rwCks \ {s} |-> rwCks[k]]
      PROVE  RwInv'
  <2>1. RwTypes' /\ RwLogInv'
    BY <1>0, <1>5 DEF RwInv, RwTypes, RwLogInv, Committed, Span
  <2>2. StateInv'
    BY <1>0, <1>3, <1>5 DEF RwInv, StateInv, CompleteIn
  <2> QED
    BY <1>4, <2>1, <2>2 DEF RwInv
<1>6. ASSUME UNCHANGED rwCks, NEW s \in DOMAIN rwSegs \ rwMan.segs,
             rwSegs' = [k \in DOMAIN rwSegs \ {s} |-> rwSegs[k]]
      PROVE  RwInv'
  <2>1. RwTypes'
    BY <1>0, <1>6 DEF RwInv, RwTypes
  <2>2. \A k \in DOMAIN rwSegs' : k \in DOMAIN rwSegs /\ Span(k)' = Span(k) /\ Committed(k)' = Committed(k)
    BY <1>0, <1>6 DEF Span, Committed
  <2>3. rwMan.segs \subseteq DOMAIN rwSegs'
    BY <1>6 DEF RwInv, RwLogInv
  <2>4. RwLogInv'
    BY <1>0, <2>2, <2>3 DEF RwInv, RwLogInv
  <2>5. StateInv'
    BY <1>0, <1>3, <1>6 DEF RwInv, StateInv, CompleteIn
  <2> QED
    BY <1>4, <2>1, <2>4, <2>5 DEF RwInv
<1> QED
  BY <1>1, <1>2, <1>5, <1>6

\* An import starts from a source whose refs are in its packs.
LEMMA ImportStartStep ==
    ASSUME RwInv, RewindAssumption, IpStart
    PROVE  RwInv'
<1>0. UNCHANGED <<rwMan, rwSegs, rwCks, rwHolds, rwHistory, rwOut>>
  BY DEF IpStart
<1>1. PICK source \in RwSources, matched \in SUBSET RwRefs, mode \in {"pack", "reuse"} :
          rwImp' = [NoRwImport EXCEPT !.pc = "pack", !.mode = mode, !.refs = Kept(source, matched),
                       !.source = source.packs]
  BY DEF IpStart
<1>2. /\ rwImp'.pc = "pack" /\ rwImp'.refs = Kept(source, matched) /\ rwImp'.source = source.packs
      /\ DOMAIN rwImp' = DOMAIN NoRwImport
  BY <1>1 DEF NoRwImport
<1>3. /\ source.refs \in [RwRefs -> Nat] /\ source.packs \in Seq(SUBSET Nat) /\ source.packs # <<>>
      /\ \A r \in RwRefs : source.refs[r] = 0 \/ \E i \in DOMAIN source.packs : source.refs[r] \in source.packs[i]
  BY RewindAssumption
<1>4. /\ Kept(source, matched) \in [RwRefs -> Nat]
      /\ \A r \in RwRefs : Kept(source, matched)[r] \in {0, source.refs[r]}
  BY <1>3 DEF Kept
<1>5. RwImpInv'
  BY <1>2, <1>3, <1>4 DEF RwImpInv
<1> QED
  BY <1>0, <1>5, LogRests DEF RwInv

\* The source drops nothing that is imported.
LEMMA SourceMovesStep ==
    ASSUME RwInv, NoRwRace, IpSourceMoves
    PROVE  RwInv'
<1>0. UNCHANGED <<rwMan, rwSegs, rwCks, rwHolds, rwHistory, rwOut>>
  BY DEF IpSourceMoves
<1> DEFINE src == rwImp.source
           less == SubSeq(src, 1, Len(src) - 1)
<1>1. /\ rwImp.pc = "pack" /\ Len(src) > 1 /\ \A r \in RwRefs : rwImp.refs[r] \notin src[Len(src)]
      /\ rwImp' = [rwImp EXCEPT !.source = less]
  BY DEF IpSourceMoves, NoRwRace
<1>2. /\ DOMAIN rwImp = DOMAIN NoRwImport /\ rwImp.refs \in [RwRefs -> Nat]
      /\ src \in Seq(SUBSET Nat)
      /\ \A r \in RwRefs : rwImp.refs[r] = 0 \/ \E i \in DOMAIN src : rwImp.refs[r] \in src[i]
  BY <1>1 DEF RwInv, RwImpInv
<1>3. /\ rwImp'.pc = "pack" /\ rwImp'.refs = rwImp.refs /\ rwImp'.source = less /\ DOMAIN rwImp' = DOMAIN NoRwImport
  BY <1>1, <1>2 DEF NoRwImport
<1> HIDE DEF src
<1>4. /\ less \in Seq(SUBSET Nat) /\ Len(less) = Len(src) - 1 /\ Len(src) \in Nat
      /\ \A i \in 1..(Len(src) - 1) : less[i] = src[i]
  BY <1>1, <1>2
<1> HIDE DEF less
<1>5. less # <<>> /\ DOMAIN less = 1..(Len(src) - 1) /\ DOMAIN src = 1..Len(src)
  BY <1>1, <1>2, <1>4
<1>6. ASSUME NEW r \in RwRefs, rwImp.refs[r] # 0
      PROVE  \E i \in DOMAIN less : rwImp.refs[r] \in less[i]
  <2>1. PICK i \in DOMAIN src : rwImp.refs[r] \in src[i]
    BY <1>2, <1>6
  <2>2. i # Len(src)
    BY <1>1, <2>1
  <2>3. i \in 1..(Len(src) - 1)
    BY <1>4, <1>5, <2>1, <2>2
  <2> QED
    BY <1>4, <1>5, <2>1, <2>3
<1>7. RwImpInv'
  BY <1>2, <1>3, <1>4, <1>5, <1>6 DEF RwImpInv
<1> QED
  BY <1>0, <1>7, LogRests DEF RwInv

\* One pack of everything or the packs as they are: the refs are in them.
LEMMA ImportPackStep ==
    ASSUME RwInv, IpPack
    PROVE  RwInv'
<1>0. UNCHANGED <<rwMan, rwSegs, rwCks, rwHolds, rwHistory, rwOut>>
  BY DEF IpPack
<1> DEFINE packs == IF rwImp.mode = "pack" THEN OnePack ELSE SourcePackSeq
<1>1. rwImp.pc = "pack" /\ rwImp' = [rwImp EXCEPT !.pc = "publish", !.packs = packs]
  BY DEF IpPack
<1>2. /\ DOMAIN rwImp = DOMAIN NoRwImport /\ rwImp.refs \in [RwRefs -> Nat]
      /\ rwImp.source \in Seq(SUBSET Nat) /\ rwImp.source # <<>>
      /\ \A r \in RwRefs : rwImp.refs[r] = 0 \/ \E i \in DOMAIN rwImp.source : rwImp.refs[r] \in rwImp.source[i]
  BY <1>1 DEF RwInv, RwImpInv
<1>3. /\ packs \in Seq(SUBSET Nat) /\ packs # <<>>
      /\ \A r \in RwRefs : rwImp.refs[r] = 0 \/ \E i \in DOMAIN packs : rwImp.refs[r] \in packs[i]
  <2>1. CASE rwImp.mode = "pack"
    <3> DEFINE all == UNION {rwImp.source[i] : i \in DOMAIN rwImp.source}
    <3>1. packs = <<all>>
      BY <2>1 DEF OnePack
    <3>2. all \subseteq Nat
      BY <1>2
    <3>3. \A r \in RwRefs : rwImp.refs[r] = 0 \/ rwImp.refs[r] \in all
      BY <1>2
    <3> HIDE DEF all
    <3>4. <<all>> \in Seq(SUBSET Nat) /\ <<all>> # <<>> /\ 1 \in DOMAIN <<all>> /\ <<all>>[1] = all
      BY <3>2
    <3> HIDE DEF packs
    <3> QED
      BY <3>1, <3>3, <3>4
  <2>2. CASE rwImp.mode # "pack"
    BY <1>2, <2>2 DEF SourcePackSeq
  <2> QED
    BY <2>1, <2>2
<1> HIDE DEF packs
<1>4. /\ rwImp'.pc = "publish" /\ rwImp'.refs = rwImp.refs /\ rwImp'.packs = packs
      /\ DOMAIN rwImp' = DOMAIN NoRwImport
  BY <1>1, <1>2 DEF NoRwImport
<1>5. RwImpInv'
  BY <1>2, <1>3, <1>4 DEF RwImpInv
<1> QED
  BY <1>0, <1>5, LogRests DEF RwInv

\* Pack by pack, what is left to publish and what is published hold the refs between them.
LEMMA ImportPublishStep ==
    ASSUME RwInv, IpPublish
    PROVE  RwInv'
<1>0. rwImp.pc = "publish" /\ rwCks' = rwCks /\ rwOut' = rwOut
  BY DEF IpPublish
<1>1. /\ DOMAIN rwImp = DOMAIN NoRwImport /\ rwImp.refs \in [RwRefs -> Nat]
      /\ rwImp.packs \in Seq(SUBSET Nat) /\ rwImp.packs # <<>>
      /\ \A r \in RwRefs : \/ rwImp.refs[r] \in Holding(rwMan.packs) \cup {0}
                           \/ \E i \in DOMAIN rwImp.packs : rwImp.refs[r] \in rwImp.packs[i]
  BY <1>0 DEF RwInv, RwImpInv
<1>2. CASE IpGoes("failed") /\ UNCHANGED <<rwMan, rwSegs, rwHolds, rwStore, rwHistory>>
  <2>1. rwImp'.pc = "failed" /\ rwImp'.refs = rwImp.refs /\ DOMAIN rwImp' = DOMAIN NoRwImport
    BY <1>1, <1>2 DEF IpGoes, NoRwImport
  <2>2. RwImpInv'
    BY <1>1, <2>1 DEF RwImpInv
  <2> QED
    BY <1>0, <1>2, <2>2, LogRests DEF RwInv
<1> DEFINE last == Len(rwImp.packs) = 1
           new == Len(rwHolds) + 1
           e == IF last THEN WithRefs ELSE RwEntry(new, {}, NoSets)
           one == <<Head(rwImp.packs)>>
           holds == rwHolds \o one
<1>3. CASE /\ Commit(<<e>>, FreeSlot, one)
           /\ rwImp' = [rwImp EXCEPT !.packs = SubSeq(@, 2, Len(@)),
                           !.pc = IF ~last THEN "publish" ELSE IF rwImp.mode = "pack" THEN "repack" ELSE "done"]
  <2>1. rwHolds \in Seq(SUBSET Nat) /\ Len(rwHolds) \in Nat /\ rwMan.packs \subseteq 1..Len(rwHolds)
    BY ListedPacks
  <2>2. /\ rwImp.packs[1] \in SUBSET Nat /\ Head(rwImp.packs) = rwImp.packs[1]
        /\ DOMAIN rwImp.packs = 1..Len(rwImp.packs) /\ Len(rwImp.packs) \in Nat /\ Len(rwImp.packs) >= 1
    BY <1>1
  <2>3. one \in Seq(SUBSET Nat) /\ new \in 1..Len(holds) /\ holds[new] = rwImp.packs[1] /\ new \in Nat
    BY <2>1, <2>2
  <2>4. ImportSets \in Settable /\ \A r \in DOMAIN ImportSets : r \in RwRefs /\ ImportSets[r] = rwImp.refs[r]
    <3>1. ImportSets \in [{k \in RwRefs : rwImp.refs[k] # 0} -> Nat]
      BY <1>1 DEF ImportSets
    <3> QED
      BY <3>1 DEF Settable, ImportSets
  <2>5. e \in RwEntries /\ e.pack = new /\ e.drops = {} /\ e.sets = IF last THEN ImportSets ELSE NoSets
    BY <2>3, <2>4, NoSetsIs DEF RwEntry, RwEntries, WithRefs
  <2>6. ASSUME NEW r \in DOMAIN e.sets
        PROVE  e.sets[r] \in holds[new] \cup {0} \/ \E p \in rwMan.packs : e.sets[r] \in rwHolds[p]
    <3>1. last /\ r \in RwRefs /\ e.sets[r] = rwImp.refs[r]
      BY <2>4, <2>5, <2>6, NoSetsIs
    <3>2. \A i \in DOMAIN rwImp.packs : i = 1
      BY <2>2, <3>1
    <3> HIDE DEF e, holds
    <3> QED
      BY <1>1, <2>3, <3>1, <3>2 DEF Holding
  <2>7. holds = rwHolds \o one
    OBVIOUS
  <2> HIDE DEF e, one, holds, new
  <2>8. /\ RwTypes' /\ RwLogInv' /\ StateInv' /\ RwOutInv'
        /\ rwHolds' = holds /\ Covers(rwMan.packs, rwMan'.packs, rwHolds') /\ new \in rwMan'.packs
    BY <1>0, <1>3, <2>3, <2>5, <2>6, <2>7, OneCommit
  <2> DEFINE rest == SubSeq(rwImp.packs, 2, Len(rwImp.packs))
  <2>9. /\ DOMAIN rwImp' = DOMAIN NoRwImport /\ rwImp'.refs = rwImp.refs /\ rwImp'.packs = rest
        /\ rwImp'.pc \in {"publish", "repack", "done"} /\ (rwImp'.pc = "publish" => ~last)
    BY <1>1, <1>3 DEF NoRwImport
  <2>10. ASSUME ~last
         PROVE  /\ rest \in Seq(SUBSET Nat) /\ rest # <<>> /\ DOMAIN rest = 1..(Len(rwImp.packs) - 1)
                /\ \A i \in 1..(Len(rwImp.packs) - 1) : rest[i] = rwImp.packs[i + 1]
    <3>1. rest \in Seq(SUBSET Nat) /\ Len(rest) = Len(rwImp.packs) - 1
      BY <1>1, <2>2
    <3>2. \A i \in 1..(Len(rwImp.packs) - 1) : rest[i] = rwImp.packs[i + 1]
      BY <1>1, <2>2
    <3> HIDE DEF rest
    <3>3. Len(rwImp.packs) - 1 \in Nat /\ Len(rwImp.packs) - 1 # 0
      BY <2>2, <2>10
    <3>4. DOMAIN rest = 1..(Len(rwImp.packs) - 1)
      BY <3>1, LenProperties
    <3>5. rest # <<>>
      BY <3>1, <3>3, EmptySeq
    <3> QED
      BY <3>1, <3>2, <3>4, <3>5
  <2> HIDE DEF rest
  <2>11. ASSUME ~last, NEW r \in RwRefs
         PROVE  \/ rwImp.refs[r] \in Holding(rwMan.packs)' \cup {0}
                \/ \E i \in DOMAIN rest : rwImp.refs[r] \in rest[i]
    <3>1. CASE rwImp.refs[r] \in Holding(rwMan.packs) \cup {0}
      BY <2>8, <3>1 DEF Covers, Holding
    <3>2. ASSUME NEW i \in DOMAIN rwImp.packs, rwImp.refs[r] \in rwImp.packs[i]
          PROVE  rwImp.refs[r] \in Holding(rwMan.packs)' \/ \E k \in DOMAIN rest : rwImp.refs[r] \in rest[k]
      <4>1. CASE i = 1
        <5>1. rwImp.refs[r] \in rwHolds'[new]
          BY <2>3, <2>8, <3>2, <4>1
        <5> QED
          BY <2>8, <5>1 DEF Holding
      <4>2. CASE i # 1
        <5>0. i \in 1..Len(rwImp.packs)
          BY <2>2
        <5>1. i - 1 \in 1..(Len(rwImp.packs) - 1) /\ (i - 1) + 1 = i
          BY <2>2, <4>2, <5>0
        <5>2. rest[i - 1] = rwImp.packs[i] /\ i - 1 \in DOMAIN rest
          BY <2>10, <2>11, <5>1
        <5> QED
          BY <3>2, <5>2
      <4> QED
        BY <4>1, <4>2
    <3> QED
      BY <1>1, <3>1, <3>2
  <2>12. RwImpInv'
    BY <1>1, <2>9, <2>10, <2>11 DEF RwImpInv
  <2> QED
    BY <2>8, <2>12 DEF RwInv
<1> QED
  BY <1>2, <1>3 DEF IpPublish

\* The base holds what the packs it replaces hold.
LEMMA ImportRepackStep ==
    ASSUME RwInv, IpRepack
    PROVE  RwInv'
<1> DEFINE all == Holding(rwMan.packs)
           new == Len(rwHolds) + 1
<1>1. /\ rwHolds' = Append(rwHolds, all) /\ UNCHANGED <<rwMan, rwSegs, rwCks, rwHistory, rwOut>>
      /\ rwImp' = [rwImp EXCEPT !.pc = "compact", !.new = Len(rwHolds'), !.old = rwMan.packs]
  BY DEF IpRepack
<1>2. /\ rwHolds \in Seq(SUBSET Nat) /\ Len(rwHolds) \in Nat /\ rwMan.packs \subseteq 1..Len(rwHolds)
      /\ all \subseteq Nat
  BY ListedPacks
<1>a. all = Holding(rwMan.packs)
  OBVIOUS
<1> HIDE DEF all
<1>3. /\ rwHolds' = rwHolds \o <<all>> /\ <<all>> \in Seq(SUBSET Nat) /\ rwHolds' \in Seq(SUBSET Nat)
      /\ Len(rwHolds') = new /\ rwHolds'[new] = all
      /\ \A p \in 1..Len(rwHolds) : p \in 1..Len(rwHolds') /\ rwHolds'[p] = rwHolds[p]
  BY <1>1, <1>2
<1>4. \A s : StateAt(s)' = StateAt(s) /\ Span(s)' = Span(s) /\ Committed(s)' = Committed(s)
  BY <1>1 DEF StateAt, Committed, Span
<1>5. RwTypes' /\ RwLogInv'
  BY <1>1, <1>3, <1>4 DEF RwInv, RwTypes, RwLogInv
<1>6. StateInv'
  <2>1. ASSUME NEW s \in Nat
        PROVE  CompleteIn(StateAt(s), rwHolds)'
    <3>1. CompleteIn(StateAt(s), rwHolds)
      BY DEF RwInv, StateInv
    <3>2. CompleteIn(StateAt(s), rwHolds \o <<all>>)
      BY <1>2, <1>3, <3>1, MoreHeld
    <3> QED
      BY <1>3, <1>4, <3>2 DEF CompleteIn
  <2> QED
    BY <1>1, <1>4, <2>1 DEF RwInv, StateInv
<1>7. RwImpInv'
  <2>1. DOMAIN rwImp = DOMAIN NoRwImport /\ rwImp.refs \in [RwRefs -> Nat]
    BY DEF RwInv, RwImpInv
  <2>2. /\ DOMAIN rwImp' = DOMAIN NoRwImport /\ rwImp'.refs = rwImp.refs /\ rwImp'.pc = "compact"
        /\ rwImp'.new = new /\ rwImp'.old = rwMan.packs
    BY <1>1, <1>3, <2>1 DEF NoRwImport
  <2>3. new \in 1..Len(rwHolds') /\ rwMan.packs \subseteq 1..Len(rwHolds') /\ new \notin rwMan.packs
    BY <1>2, <1>3
  <2>4. \A p \in rwMan.packs : rwHolds'[p] \subseteq all
    BY <1>2, <1>3, <1>a DEF Holding
  <2> QED
    BY <1>3, <2>1, <2>2, <2>3, <2>4 DEF RwImpInv, Holding
<1>8. RwOutInv'
  <2>1. OutState' = OutState /\ LastAsked' = LastAsked
    BY <1>1 DEF OutState, LastAsked, InRange
  <2> QED
    BY <1>1, <2>1 DEF RwInv, RwOutInv, StateAt
<1> QED
  BY <1>5, <1>6, <1>7, <1>8 DEF RwInv

\* The base takes the place of what it was made of; what came beside it stays.
LEMMA ImportCompactStep ==
    ASSUME RwInv, IpCompact
    PROVE  RwInv'
<1> DEFINE e == RwEntry(rwImp.new, rwImp.old, NoSets)
<1>1. rwImp.pc = "compact" /\ Commit(<<e>>, FreeSlot, <<>>) /\ IpGoes("done") /\ rwCks' = rwCks /\ rwOut' = rwOut
  BY DEF IpCompact
<1>2. /\ DOMAIN rwImp = DOMAIN NoRwImport /\ rwImp.refs \in [RwRefs -> Nat]
      /\ rwImp.new \in 1..Len(rwHolds) /\ rwImp.old \subseteq 1..Len(rwHolds) /\ rwImp.new \notin rwImp.old
      /\ Holding(rwImp.old) \subseteq rwHolds[rwImp.new]
  BY <1>1 DEF RwInv, RwImpInv
<1>3. rwHolds \in Seq(SUBSET Nat) /\ Len(rwHolds) \in Nat
  BY ListedPacks
<1>4. <<>> \in Seq(SUBSET Nat) /\ rwHolds = rwHolds \o <<>>
  BY <1>3
<1>5. e \in RwEntries /\ e.pack = rwImp.new /\ e.drops = rwImp.old /\ DOMAIN e.sets = {}
  <2>1. rwImp.new \in Nat /\ rwImp.old \in SUBSET Nat
    BY <1>2, <1>3
  <2> QED
    BY <2>1, NoSetsIs DEF RwEntry, RwEntries
<1>6. \A p \in rwMan.packs : p \in e.drops => rwHolds[p] \subseteq rwHolds[e.pack]
  BY <1>2, <1>5 DEF Holding
<1> HIDE DEF e
<1>7. RwTypes' /\ RwLogInv' /\ StateInv' /\ RwOutInv'
  BY <1>1, <1>2, <1>4, <1>5, <1>6, OneCommit
<1>8. RwImpInv'
  <2>1. rwImp'.pc = "done" /\ rwImp'.refs = rwImp.refs /\ DOMAIN rwImp' = DOMAIN NoRwImport
    BY <1>1, <1>2 DEF IpGoes, NoRwImport
  <2> QED
    BY <1>2, <2>1 DEF RwImpInv
<1> QED
  BY <1>7, <1>8 DEF RwInv

\* A rewind that fails asks for nothing more.
LEMMA FailsStep ==
    ASSUME RwInv, RwFails, UNCHANGED <<rwMan, rwSegs, rwCks, rwHolds, rwStore, rwHistory, rwImp>>
    PROVE  RwInv'
<1>1. /\ DOMAIN rwOut' = DOMAIN NoOut /\ rwOut'.pc = "failed" /\ rwOut'.at = 0 /\ rwOut'.start = 0
      /\ rwOut'.next = 0 /\ rwOut'.head = 0
  BY DEF RwFails, NoOut
<1>2. RwOutInv'
  BY <1>1 DEF RwOutInv
<1> QED
  BY <1>2, LogRests DEF RwInv

\* A rewind starts with the manifest of its moment.
LEMMA OutOpenStep ==
    ASSUME RwInv, OutOpen
    PROVE  RwInv'
<1>1. PICK at \in 1..(rwMan.head + 1) : rwOut' = [NoOut EXCEPT !.pc = "checkpoint", !.at = at, !.man = rwMan]
  BY DEF OutOpen
<1>2. rwMan.head \in Nat /\ UNCHANGED <<rwMan, rwSegs, rwCks, rwHolds, rwStore, rwHistory, rwImp>>
  BY DEF RwInv, RwTypes, OutOpen
<1>3. /\ DOMAIN rwOut' = DOMAIN NoOut /\ rwOut'.pc = "checkpoint" /\ rwOut'.at = at /\ rwOut'.start = 0
      /\ rwOut'.next = 0 /\ rwOut'.head = 0 /\ rwOut'.man = rwMan /\ rwOut'.entries = NoSets
      /\ rwOut'.from = Nothing
  BY <1>1 DEF NoOut
<1>4. at \in Nat
  BY <1>2
<1>5. RwOutInv'
  BY <1>2, <1>3, <1>4 DEF RwOutInv, Nothing, RwNoRefs
<1> QED
  BY <1>2, <1>5, LogRests DEF RwInv

\* Before the first entry there is nothing; no entries lie between a seq and the next.
LEMMA StartsEmpty ==
    ASSUME RwTypes
    PROVE  /\ StateAt(0) = Nothing
           /\ \A c \in Nat : Only(rwHistory, (c + 1)..((c + 1) - 1)) = NoSets
<1>1. ASSUME NEW c \in Nat
      PROVE  Only(rwHistory, (c + 1)..((c + 1) - 1)) = NoSets
  <2>1. (c + 1)..((c + 1) - 1) = {}
    OBVIOUS
  <2>2. Only(rwHistory, {}) = NoSets
    BY DEF Only, NoSets
  <2> QED
    BY <2>1, <2>2
<1>2. Only(rwHistory, 1..0) = NoSets
  <2>1. 1..0 = {}
    OBVIOUS
  <2>2. Only(rwHistory, {}) = NoSets
    BY DEF Only, NoSets
  <2> QED
    BY <2>1, <2>2
<1>3. Applied(RwNoRefs, NoSets) = RwNoRefs
  <2>1. \A r \in RwRefs : Settings(NoSets, r) = {}
    BY NoSetsIs DEF Settings
  <2> QED
    BY <2>1 DEF Applied, RwNoRefs
<1>4. PackSet({}, NoSets) = {}
  BY NoSetsIs DEF PackSet
<1>5. StateAt(0) = Nothing
  BY <1>2, <1>3, <1>4 DEF StateAt, Replayed, Nothing
<1> QED
  BY <1>1, <1>5

\* It starts from the state of its checkpoint, or from nothing.
LEMMA OutCheckpointStep ==
    ASSUME RwInv, OutCheckpoint
    PROVE  RwInv'
<1> DEFINE cp == rwOut.man.cp
<1>0. rwOut.pc = "checkpoint" /\ UNCHANGED <<rwMan, rwSegs, rwCks, rwHolds, rwStore, rwHistory, rwImp>>
  BY DEF OutCheckpoint
<1>1. /\ DOMAIN rwOut = DOMAIN NoOut /\ rwOut.at \in Nat /\ rwOut.head \in Nat
      /\ cp = rwMan.cp /\ rwOut.man.min = rwMan.min
      /\ rwOut.entries = NoSets /\ rwOut.start = 0 /\ rwOut.from = Nothing
  BY <1>0 DEF RwInv, RwOutInv
<1>2. rwMan.head \in Nat /\ cp \in Nat /\ cp <= rwMan.head
  BY <1>1 DEF RwInv, RwTypes, RwLogInv
<1>3. RwTypes
  BY DEF RwInv
<1>4. \A s : StateAt(s)' = StateAt(s)
  BY <1>0 DEF StateAt
<1>5. CASE rwOut' = [rwOut EXCEPT !.pc = "log", !.next = 1]
  <2>1. /\ DOMAIN rwOut' = DOMAIN NoOut /\ rwOut'.pc = "log" /\ rwOut'.at = rwOut.at /\ rwOut'.start = 0
        /\ rwOut'.next = 1 /\ rwOut'.head = rwOut.head /\ rwOut'.man = rwOut.man /\ rwOut'.entries = NoSets
        /\ rwOut'.from = Nothing
    BY <1>1, <1>5 DEF NoOut
  <2>2. rwOut'.from = StateAt(0)'
    BY <1>3, <1>4, <2>1, StartsEmpty
  <2>3. rwOut'.entries = Only(rwHistory', (0 + 1)..(1 - 1))
    BY <1>0, <1>3, <2>1, StartsEmpty
  <2>4. RwOutInv'
    BY <1>0, <1>1, <1>2, <2>1, <2>2, <2>3 DEF RwOutInv
  <2> QED
    BY <1>0, <2>4, LogRests DEF RwInv
<1>6. CASE /\ ~(cp = 0 \/ cp > rwOut.at) /\ cp \in DOMAIN rwCks
           /\ rwOut' = [rwOut EXCEPT !.pc = "log", !.start = cp, !.from = rwCks[cp], !.next = cp + 1]
  <2>1. /\ DOMAIN rwOut' = DOMAIN NoOut /\ rwOut'.pc = "log" /\ rwOut'.at = rwOut.at /\ rwOut'.start = cp
        /\ rwOut'.next = cp + 1 /\ rwOut'.head = rwOut.head /\ rwOut'.man = rwOut.man /\ rwOut'.entries = NoSets
        /\ rwOut'.from = rwCks[cp]
    BY <1>1, <1>6 DEF NoOut
  <2>2. rwOut'.from = StateAt(cp) /\ StateAt(rwOut.start)' = StateAt(cp)
    BY <1>0, <1>6, <2>1 DEF RwInv, StateInv, StateAt
  <2> HIDE DEF cp
  <2>3. rwOut'.entries = Only(rwHistory', (cp + 1)..((cp + 1) - 1))
    BY <1>0, <1>2, <1>3, <2>1, StartsEmpty
  <2>5. cp < cp + 1 /\ cp + 1 <= rwMan.head + 1 /\ cp <= rwOut.at /\ cp + 1 \in Nat
    BY <1>1, <1>2, <1>6
  <2>6. rwOut'.man.cp = rwMan'.cp /\ rwOut'.man.min = rwMan'.min
    BY <1>0, <1>1, <2>1 DEF cp
  <2>4. RwOutInv'
    BY <1>0, <1>1, <1>2, <2>1, <2>2, <2>3, <2>5, <2>6 DEF RwOutInv
  <2> QED
    BY <1>0, <2>4, LogRests DEF RwInv
<1>7. CASE RwFails
  BY <1>0, <1>7, FailsStep
<1> QED
  BY <1>5, <1>6, <1>7 DEF OutCheckpoint

\* A folded segment that is read continues the part of the log that was read.
LEMMA OutFoldedStep ==
    ASSUME RwInv, OutFolded
    PROVE  RwInv'
<1> DEFINE seg == rwSegs[rwOut.next]
           next == rwOut.next
           last == next + Len(seg) - 1
           low == Only(rwHistory, (rwOut.start + 1)..(next - 1))
           both == Only(rwHistory, (rwOut.start + 1)..last)
           more == Numbered(seg, next)
<1>0. rwOut.pc = "log" /\ UNCHANGED <<rwMan, rwSegs, rwCks, rwHolds, rwStore, rwHistory, rwImp>>
  BY DEF OutFolded
<1>1. /\ DOMAIN rwOut = DOMAIN NoOut /\ rwOut.at \in Nat /\ rwOut.head \in Nat /\ rwOut.start \in Nat
      /\ next \in Nat
      /\ rwOut.man.cp = rwMan.cp /\ rwOut.man.min = rwMan.min
      /\ rwOut.start < next /\ next <= rwMan.head + 1 /\ rwOut.start <= rwOut.at
      /\ rwOut.from = StateAt(rwOut.start) /\ rwOut.entries = low
  BY <1>0 DEF RwInv, RwOutInv
<1>2. RwTypes /\ rwMan.head \in Nat /\ rwMan.min \in Nat /\ IsLog(rwHistory)
  BY DEF RwInv, RwTypes
<1>3. CASE /\ next \in DOMAIN rwSegs
           /\ rwOut' = [rwOut EXCEPT !.entries = Joined(@, more), !.next = @ + Len(seg)]
  <2>1. seg \in Seq(RwEntries) /\ Len(seg) \in Nat /\ next < rwMan.min
    BY <1>1, <1>3 DEF RwInv, RwTypes, OutFolded, BelowWindow
  <2>2. \A n \in next..last : n \in DOMAIN rwHistory /\ seg[n - next + 1] = rwHistory[n]
    BY <1>3, <2>1 DEF RwInv, RwLogInv, Committed, Span
  <2>3. /\ IsLog(low) /\ DOMAIN low = DOMAIN rwHistory \cap (rwOut.start + 1)..(next - 1)
        /\ \A n \in DOMAIN rwHistory \cap (rwOut.start + 1)..(next - 1) : low[n] = rwHistory[n]
    BY <1>2, OnlyLog
  <2>4. /\ IsLog(both) /\ DOMAIN both = DOMAIN rwHistory \cap (rwOut.start + 1)..last
        /\ \A n \in DOMAIN rwHistory \cap (rwOut.start + 1)..last : both[n] = rwHistory[n]
    BY <1>2, OnlyLog
  <2>5. IsLog(more) /\ DOMAIN more = next..last /\ \A n \in next..last : more[n] = seg[n - next + 1]
    BY <1>1, <2>1, NumberedLog
  <2>6. last \in Int /\ next - 1 \in Int
    BY <1>1, <2>1
  <2>a. rwOut'.entries = Joined(low, more) /\ rwOut'.next = next + Len(seg) /\ last = next + Len(seg) - 1
    BY <1>1, <1>3 DEF NoOut
  <2>b. /\ DOMAIN rwOut' = DOMAIN NoOut /\ rwOut'.pc = "log" /\ rwOut'.at = rwOut.at
        /\ rwOut'.start = rwOut.start /\ rwOut'.head = rwOut.head /\ rwOut'.man = rwOut.man
        /\ rwOut'.from = rwOut.from
    BY <1>0, <1>1, <1>3 DEF NoOut
  <2>c. both = Only(rwHistory, (rwOut.start + 1)..last)
    OBVIOUS
  <2> HIDE DEF low, both, more, seg, next, last
  <2>7. /\ IsLog(Joined(low, more)) /\ DOMAIN Joined(low, more) = DOMAIN low \cup DOMAIN more
        /\ \A n \in DOMAIN low \cup DOMAIN more : Joined(low, more)[n] = IF n \in DOMAIN more THEN more[n] ELSE low[n]
    BY <2>3, <2>5, JoinedLog DEF Joined
  <2>8. DOMAIN low \cup DOMAIN more = DOMAIN both
    <3>1. \A n \in next..last : n \in DOMAIN rwHistory /\ n \in (rwOut.start + 1)..last
      BY <1>1, <2>2, <2>6
    <3>2. \A n \in (rwOut.start + 1)..(next - 1) : n \in (rwOut.start + 1)..last
      BY <1>1, <2>1, <2>6, <2>a
    <3>3. \A n \in (rwOut.start + 1)..last : n \in (rwOut.start + 1)..(next - 1) \/ n \in next..last
      BY <1>1, <2>6
    <3> QED
      BY <2>3, <2>4, <2>5, <3>1, <3>2, <3>3
  <2>9. Joined(low, more) = both
    <3>1. \A n \in DOMAIN both : Joined(low, more)[n] = both[n]
      BY <2>2, <2>3, <2>4, <2>5, <2>7, <2>8
    <3> QED
      BY <2>4, <2>7, <2>8, <3>1, SameLog
  <2>10. next + Len(seg) <= rwMan.head + 1
    <3>1. CASE Len(seg) = 0
      BY <1>1, <2>1, <3>1
    <3>2. CASE Len(seg) # 0
      <4>1. last \in next..last
        BY <1>1, <2>1, <2>a, <3>2
      <4>2. last \in 1..rwMan.head
        BY <2>2, <4>1 DEF RwInv, RwLogInv
      <4> QED
        BY <1>1, <1>2, <2>1, <2>a, <4>2
    <3> QED
      BY <3>1, <3>2
  <2>11. /\ rwOut'.next \in Nat /\ rwOut'.start < rwOut'.next /\ rwOut'.next <= rwMan'.head + 1
         /\ rwOut'.next - 1 = last
    BY <1>0, <1>1, <2>1, <2>10, <2>a, <2>b
  <2>12. rwOut'.entries = Only(rwHistory, (rwOut.start + 1)..last)
    BY <2>9, <2>a, <2>c
  <2>13. StateAt(rwOut.start)' = StateAt(rwOut.start)
    BY <1>0, <2>b DEF StateAt
  <2>14. RwOutInv'
    BY <1>0, <1>1, <2>b, <2>11, <2>12, <2>13 DEF RwOutInv
  <2> QED
    BY <1>0, <2>14, LogRests DEF RwInv
<1>4. CASE RwFails
  BY <1>0, <1>4, FailsStep
<1> QED
  BY <1>3, <1>4 DEF OutFolded

\* What the listed segments hold from a seq of the window on is what was committed.
LEMMA ListedIs ==
    ASSUME RwInv, NEW first \in Nat, first >= rwMan.min, rwOut.at \in Nat
    PROVE  ListedFrom(first) = Only(rwHistory, first..rwOut.at)
<1> DEFINE read == UNION {Span(s) : s \in rwMan.segs}
           of(n) == CHOOSE s \in rwMan.segs : n \in Span(s)
<1>1. /\ rwMan.min \in Nat /\ DOMAIN rwHistory \subseteq Nat
      /\ \A s \in rwMan.segs : Committed(s)
      /\ \A n \in DOMAIN rwHistory : n >= rwMan.min => \E s \in rwMan.segs : n \in Span(s)
  BY DEF RwInv, RwTypes, RwLogInv, IsLog
<1>2. ASSUME NEW n \in (first..rwOut.at) \cap read
      PROVE  n \in DOMAIN rwHistory /\ rwSegs[of(n)][n - of(n) + 1] = rwHistory[n]
  <2>1. \E s \in rwMan.segs : n \in Span(s)
    OBVIOUS
  <2>2. of(n) \in rwMan.segs /\ n \in Span(of(n))
    BY <2>1
  <2> HIDE DEF of
  <2> QED
    BY <1>1, <2>2 DEF Committed
<1>3. ASSUME NEW n \in DOMAIN rwHistory \cap (first..rwOut.at)
      PROVE  n \in read
  <2>1. n >= rwMan.min
    BY <1>1
  <2> QED
    BY <1>1, <2>1
<1>4. (first..rwOut.at) \cap read = DOMAIN rwHistory \cap (first..rwOut.at)
  BY <1>2, <1>3
<1>5. ListedFrom(first) = [n \in (first..rwOut.at) \cap read |-> rwSegs[of(n)][n - of(n) + 1]]
  BY DEF ListedFrom
<1> HIDE DEF read, of
<1> QED
  BY <1>2, <1>4, <1>5 DEF Only

\* With the listed segments it has all the entries up to the seq.
LEMMA OutLogStep ==
    ASSUME RwInv, OutLog
    PROVE  RwInv'
<1> DEFINE next == rwOut.next
           start == rwOut.start
           at == rwOut.at
           low == Only(rwHistory, (start + 1)..(next - 1))
           more == ListedFrom(next)
           asked == Only(rwHistory, (start + 1)..at)
           all == Joined(low, more)
<1>0. /\ rwOut.pc = "log" /\ UNCHANGED <<rwMan, rwSegs, rwCks, rwHolds, rwStore, rwHistory, rwImp>>
      /\ rwOut' = [rwOut EXCEPT !.pc = "packs", !.entries = Joined(@, more), !.head = rwMan.head]
      /\ ~(next < rwOut.man.min /\ next <= at)
  BY DEF OutLog, BelowWindow
<1>1. /\ DOMAIN rwOut = DOMAIN NoOut /\ at \in Nat /\ rwOut.head \in Nat /\ start \in Nat
      /\ next \in Nat
      /\ rwOut.man.cp = rwMan.cp /\ rwOut.man.min = rwMan.min
      /\ start < next /\ next <= rwMan.head + 1 /\ start <= at
      /\ rwOut.from = StateAt(start) /\ rwOut.entries = low
  BY <1>0 DEF RwInv, RwOutInv
<1>2. RwTypes /\ RwLogInv /\ rwMan.head \in Nat /\ rwMan.min \in Nat /\ IsLog(rwHistory)
  BY DEF RwInv, RwTypes
<1>3. /\ DOMAIN rwOut' = DOMAIN NoOut /\ rwOut'.pc = "packs" /\ rwOut'.at = at
      /\ rwOut'.start = start /\ rwOut'.head = rwMan.head /\ rwOut'.next = next
      /\ rwOut'.from = StateAt(start) /\ rwOut'.entries = all
  BY <1>0, <1>1 DEF NoOut
<1>4. more = Only(rwHistory, next..at)
  <2>1. CASE next >= rwMan.min
    BY <1>1, <2>1, ListedIs
  <2>2. CASE ~(next >= rwMan.min)
    <3>1. next..at = {}
      BY <1>0, <1>1, <1>2, <2>2
    <3>2. DOMAIN more = {}
      BY <3>1 DEF ListedFrom
    <3>3. more = [n \in {} |-> 0]
      BY <3>1 DEF ListedFrom
    <3>4. Only(rwHistory, next..at) = [n \in {} |-> 0]
      BY <3>1 DEF Only
    <3> QED
      BY <3>3, <3>4
  <2> QED
    BY <2>1, <2>2
<1>5. /\ IsLog(low) /\ DOMAIN low = DOMAIN rwHistory \cap (start + 1)..(next - 1)
      /\ \A n \in DOMAIN rwHistory \cap (start + 1)..(next - 1) : low[n] = rwHistory[n]
  BY <1>2, OnlyLog
<1>6. /\ IsLog(more) /\ DOMAIN more = DOMAIN rwHistory \cap next..at
      /\ \A n \in DOMAIN rwHistory \cap next..at : more[n] = rwHistory[n]
  <2> HIDE DEF more
  <2> QED
    BY <1>2, <1>4, OnlyLog
<1>7. /\ IsLog(asked) /\ DOMAIN asked = DOMAIN rwHistory \cap (start + 1)..at
      /\ \A n \in DOMAIN rwHistory \cap (start + 1)..at : asked[n] = rwHistory[n]
  BY <1>2, OnlyLog
<1>a. all = Joined(low, more) /\ asked = Only(rwHistory, (start + 1)..at)
  OBVIOUS
<1> HIDE DEF low, more, asked, all
<1>8. /\ IsLog(all) /\ DOMAIN all = DOMAIN low \cup DOMAIN more
      /\ \A n \in DOMAIN low \cup DOMAIN more : all[n] = IF n \in DOMAIN more THEN more[n] ELSE low[n]
  BY <1>5, <1>6, <1>a, JoinedLog DEF Joined
<1> DEFINE seqs == {n \in DOMAIN all : n > start /\ n <= at}
           part == Only(all, seqs)
<1>9. IsLog(part) /\ DOMAIN part = DOMAIN all \cap seqs /\ \A n \in DOMAIN all \cap seqs : part[n] = all[n]
  BY <1>8, OnlyLog
<1>10. DOMAIN all \cap seqs = DOMAIN asked
  <2>1. \A n \in DOMAIN rwHistory : n \in Nat
    BY <1>2 DEF IsLog
  <2>2. \A n \in DOMAIN all : n \in DOMAIN rwHistory
    BY <1>5, <1>6, <1>8
  <2>3. ASSUME NEW n \in DOMAIN all \cap seqs PROVE n \in DOMAIN asked
    BY <1>1, <1>7, <2>1, <2>2
  <2>4. ASSUME NEW n \in DOMAIN asked PROVE n \in DOMAIN all \cap seqs
    <3>1. n \in DOMAIN rwHistory /\ n \in (start + 1)..at /\ n \in Nat
      BY <1>7, <2>1
    <3>2. n \in (start + 1)..(next - 1) \/ n \in next..at
      BY <1>1, <3>1
    <3>3. n \in DOMAIN all
      BY <1>5, <1>6, <1>8, <3>1, <3>2
    <3> QED
      BY <1>1, <3>1, <3>3
  <2> QED
    BY <2>3, <2>4
<1>11. part = asked
  <2>1. \A n \in DOMAIN asked : part[n] = asked[n]
    BY <1>5, <1>6, <1>7, <1>8, <1>9, <1>10
  <2> HIDE DEF part
  <2> QED
    BY <1>7, <1>9, <1>10, <2>1, SameLog
<1>12. OutState' = Replayed(StateAt(start), part)
  BY <1>3 DEF OutState, InRange
<1>13. StateAt(at) = Replayed(StateAt(start), asked)
  BY <1>1, <1>2, <1>a, StateSplit
<1>14. StateAt(at) = StateAt(IF at < rwMan.head THEN at ELSE rwMan.head)
  BY <1>1, <1>2, BeyondHead
<1>15. StateAt(LastAsked)' = StateAt(IF at < rwMan.head THEN at ELSE rwMan.head)
  BY <1>0, <1>3 DEF LastAsked, StateAt
<1>16. OutState' = StateAt(LastAsked)'
  BY <1>11, <1>12, <1>13, <1>14, <1>15
<1>17. RwOutInv'
  BY <1>0, <1>1, <1>2, <1>3, <1>16 DEF RwOutInv
<1> QED
  BY <1>0, <1>17, LogRests DEF RwInv

\* The last steps of a rewind read no more of the log.
LEMMA OutRestsStep ==
    ASSUME RwInv, OutPacks \/ OutFetch \/ OutRefs
    PROVE  RwInv'
<1>0. UNCHANGED <<rwMan, rwSegs, rwCks, rwHolds, rwStore, rwHistory, rwImp>>
  BY DEF OutPacks, OutFetch, OutRefs
<1>1. /\ DOMAIN rwOut = DOMAIN NoOut /\ rwOut.at \in Nat /\ rwOut.head \in Nat /\ rwOut.start \in Nat
      /\ rwOut.next \in Nat
  BY DEF RwInv, RwOutInv
<1>2. CASE RwFails
  BY <1>0, <1>2, FailsStep
<1>3. ASSUME rwOut.pc \in {"packs", "fetch"}, DOMAIN rwOut' = DOMAIN NoOut,
             rwOut'.pc \in {"fetch", "done"},
             rwOut'.at = rwOut.at, rwOut'.head = rwOut.head, rwOut'.start = rwOut.start,
             rwOut'.next = rwOut.next, rwOut'.from = rwOut.from, rwOut'.entries = rwOut.entries,
             OutState.packs \subseteq rwOut'.todo \cup rwOut'.got,
             rwOut'.pc = "done" => rwOut'.todo = {} /\ rwOut'.refs = OutState.refs
      PROVE  RwInv'
  <2>1. OutState' = OutState /\ StateAt(LastAsked)' = StateAt(LastAsked)
    BY <1>0, <1>3 DEF OutState, InRange, LastAsked, StateAt
  <2>2. rwOut.head <= rwMan.head /\ OutState = StateAt(LastAsked)
    BY <1>3 DEF RwInv, RwOutInv
  <2>3. RwOutInv'
    BY <1>0, <1>1, <1>3, <2>1, <2>2 DEF RwOutInv
  <2> QED
    BY <1>0, <2>3, LogRests DEF RwInv
<1>4. CASE OutPacks
  <2>1. rwOut.pc = "packs" /\ rwOut' = [rwOut EXCEPT !.pc = "fetch", !.todo = OutState.packs]
    BY <1>4 DEF OutPacks
  <2> QED
    BY <1>1, <1>3, <2>1 DEF NoOut
<1>5. CASE OutFetch
  <2> DEFINE p == CHOOSE p \in rwOut.todo : \A q \in rwOut.todo : p <= q
  <2>1. rwOut.pc = "fetch" /\ (RwFails \/ rwOut' = [rwOut EXCEPT !.todo = @ \ {p}, !.got = @ \cup {p}])
    BY <1>5 DEF OutFetch
  <2>2. OutState.packs \subseteq rwOut.todo \cup rwOut.got
    BY <2>1 DEF RwInv, RwOutInv
  <2> HIDE DEF p
  <2> QED
    BY <1>1, <1>2, <1>3, <2>1, <2>2 DEF NoOut
<1>6. CASE OutRefs
  <2>1. /\ rwOut.pc = "fetch" /\ rwOut.todo = {}
        /\ rwOut' = [rwOut EXCEPT !.pc = "done", !.refs = OutState.refs]
    BY <1>6 DEF OutRefs
  <2>2. OutState.packs \subseteq rwOut.todo \cup rwOut.got
    BY <2>1 DEF RwInv, RwOutInv
  <2> QED
    BY <1>1, <1>3, <2>1, <2>2 DEF NoOut
<1> QED
  BY <1>4, <1>5, <1>6

\* The initial state.
LEMMA RewindStarts ==
    ASSUME RewindInit
    PROVE  RwInv
<1>1. /\ rwMan = [head |-> 0, min |-> 0, cp |-> 0, segs |-> {}, packs |-> {}]
      /\ rwSegs = <<>> /\ rwCks = <<>> /\ rwHolds = <<>> /\ rwHistory = <<>>
      /\ rwImp = NoRwImport /\ rwOut = NoOut
  BY DEF RewindInit
<1>2. DOMAIN rwSegs = {} /\ DOMAIN rwCks = {} /\ DOMAIN rwHistory = {}
  BY <1>1
<1>3. IsLog(rwHistory)
  <2>1. rwHistory = [n \in DOMAIN rwHistory |-> rwHistory[n]]
    BY <1>1
  <2> QED
    BY <1>2, <2>1 DEF IsLog
<1>4. RwTypes
  BY <1>1, <1>2, <1>3 DEF RwTypes
<1>5. RwLogInv
  BY <1>1, <1>2 DEF RwLogInv
<1>6. ASSUME NEW s \in Nat
      PROVE  StateAt(s) = Nothing
  <2>1. Only(rwHistory, 1..s) = Only(rwHistory, 1..0)
    BY <1>2 DEF Only
  <2> QED
    BY <1>4, <2>1, StartsEmpty DEF StateAt
<1>7. StateInv
  BY <1>1, <1>2, <1>6 DEF StateInv, CompleteIn, Nothing, RwNoRefs
<1>8. RwImpInv
  BY <1>1 DEF RwImpInv, NoRwImport, RwNoRefs
<1>9. RwOutInv
  BY <1>1 DEF RwOutInv, NoOut
<1> QED
  BY <1>4, <1>5, <1>7, <1>8, <1>9 DEF RwInv

\* Every step keeps the invariant.
LEMMA RewindStep ==
    ASSUME NoRwRace, RwInv, [RepublishNext \/ RewindNext]_rewindVars
    PROVE  RwInv'
<1>1. CASE RwServer
  <2>1. CASE RwPush
    BY <2>1, PushStep, RewindAssumption
  <2>2. CASE RwCompact
    BY <2>2, CompactStep
  <2>3. CASE RwOrphan
    BY <2>3, OrphanStep, RewindAssumption
  <2> QED
    BY <1>1, <2>1, <2>2, <2>3 DEF RwServer
<1>2. CASE RepublishNext /\ ~RwServer
  <2>1. CASE IpStart
    BY <2>1, ImportStartStep, RewindAssumption
  <2>2. CASE IpSourceMoves
    BY <2>2, SourceMovesStep
  <2>3. CASE IpPack
    BY <2>3, ImportPackStep
  <2>4. CASE IpPublish
    BY <2>4, ImportPublishStep
  <2>5. CASE IpRepack
    BY <2>5, ImportRepackStep
  <2>6. CASE IpCompact
    BY <2>6, ImportCompactStep
  <2> QED
    BY <1>2, <2>1, <2>2, <2>3, <2>4, <2>5, <2>6 DEF RepublishNext
<1>4. CASE RewindNext /\ ~RwServer
  <2>1. CASE RwCheckpoint
    BY <2>1, CheckpointStep
  <2>2. CASE RwSweep
    BY <2>2, SweepStep
  <2>3. CASE OutOpen
    BY <2>3, OutOpenStep
  <2>4. CASE OutCheckpoint
    BY <2>4, OutCheckpointStep
  <2>5. CASE OutFolded
    BY <2>5, OutFoldedStep
  <2>6. CASE OutLog
    BY <2>6, OutLogStep
  <2>7. CASE OutPacks \/ OutFetch \/ OutRefs
    BY <2>7, OutRestsStep
  <2> QED
    BY <1>4, <2>1, <2>2, <2>3, <2>4, <2>5, <2>6, <2>7 DEF RewindNext
<1>3. CASE UNCHANGED rewindVars
  BY <1>3, LogRests DEF rewindVars, RwInv
<1> QED
  BY <1>1, <1>2, <1>3, <1>4

\* The invariant gives the property.
LEMMA RewindHolds ==
    ASSUME RwInv
    PROVE  RewindExact
<1>1. \A s \in Nat : CompleteIn(StateAt(s), rwHolds)
  BY DEF RwInv, StateInv
<1>2. AlwaysComplete
  <2>1. DOMAIN rwHistory \subseteq Nat
    BY DEF RwInv, RwTypes, IsLog
  <2> QED
    BY <1>1, <2>1 DEF AlwaysComplete, CompleteIn, Holding
<1>3. ASSUME rwOut.pc = "done"
      PROVE  /\ rwOut.refs = StateAt(LastAsked).refs
             /\ \A r \in RwRefs : StateAt(LastAsked).refs[r] \in Holding(rwOut.got) \cup {0}
  <2>1. /\ OutState = StateAt(LastAsked) /\ OutState.packs \subseteq rwOut.todo \cup rwOut.got
        /\ rwOut.todo = {} /\ rwOut.refs = OutState.refs /\ LastAsked \in Nat
    BY <1>3 DEF RwInv, RwOutInv, LastAsked
  <2>2. CompleteIn(StateAt(LastAsked), rwHolds)
    BY <1>1, <2>1
  <2> QED
    BY <2>1, <2>2 DEF CompleteIn, Holding
<1>4. MaterializeExact
  BY <1>3 DEF MaterializeExact, LastAsked
<1> QED
  BY <1>2, <1>4 DEF RewindExact

\* A rewind that ends well has the refs of the seq it was asked for and the commits they point
\* at, and so had every seq of a history with imports in it (materialize_at, wal_cmd.rs; import.rs).
THEOREM RewindExactAlways == NoRwRace /\ RewindSpec => []RewindExact
<1> SUFFICES ASSUME NoRwRace PROVE RewindSpec => []RewindExact
  OBVIOUS
<1>1. RewindInit => RwInv
  BY RewindStarts
<1>2. RwInv /\ [RepublishNext \/ RewindNext]_rewindVars => RwInv'
  BY RewindStep
<1>3. RwInv => RewindExact
  BY RewindHolds
<1> QED
  BY <1>1, <1>2, <1>3, PTL DEF RewindSpec
=============================================================================
