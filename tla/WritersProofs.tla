--------------------------- MODULE WritersProofs ---------------------------
(***************************************************************************)
(* The writers of one manifest, for any number of instances, requests,     *)
(* refs, documents and crashes, batches of any size and a log of any       *)
(* length: pushes form one serial history and are answered truthfully,     *)
(* settings form one, and no writer loses what another one listed.         *)
(*                                                                         *)
(* The argument: a manifest that a writer starts from is the bucket's or   *)
(* has a smaller revision (Old), so a CAS that wins has started from what  *)
(* it replaces; the segment it lists is its own and nobody else's          *)
(* (Claimed, SlotsApart); and what a batch was verified against is the     *)
(* history it is appended to (SerialOn).                                   *)
(***************************************************************************)
EXTENDS WalWriters, Follow, FiniteSetTheorems, TLAPS

OtherKinds == {"settings", "compact", "add", "annotate"}
Args == {PackOf[r] : r \in Requests} \cup Settings \cup {"none", "base", "history"}
Docs == [rev : Nat, toml : Args]
WMans == [head : Nat, segs : SUBSET (1 .. MaxLog), packs : SUBSET Args, bitmap : SUBSET Args, set : Docs, rev : Nat]
WSegs == [reqs : Seq(Requests), last : Nat, kind : OtherKinds \cup {"push"}, arg : Args, sup : SUBSET Args]
WJobs == [pc : {"idle", "sync", "lost", "claim", "upload", "cas", "local"}, kind : OtherKinds \cup {"push", "none"},
          reqs : Seq(Requests), ok : Seq(Requests), man : WMans, slot : Nat, arg : Args, sup : SUBSET Args]
WAnswers == [is : {"none", "ok", "conflict", "retry", "lost"}, seq : Int]

WTypes ==
    /\ mf \in WMans
    /\ DOMAIN seg \subseteq 1 .. MaxLog /\ \A s \in DOMAIN seg : seg[s] \in WSegs
    /\ hman \in [Hosts -> WMans]
    /\ effective \in [Hosts -> Docs]
    /\ job \in [Hosts -> [Jobs -> WJobs]]
    /\ answer \in [Requests -> WAnswers]

\* The segments of the log lie behind each other, up to the head.
LogInv ==
    /\ mf.segs \subseteq DOMAIN seg
    /\ \A s \in DOMAIN seg : s <= seg[s].last /\ \A k \in DOMAIN seg[s].reqs : s + k - 1 <= seg[s].last
    /\ \A s \in mf.segs : seg[s].last <= mf.head

\* A manifest somebody holds: the bucket's, or an older one.
Old(m) == m.rev <= mf.rev /\ (m.rev = mf.rev => m = mf)

\* The settings entries of the log, and a document one of them has: its revision is its place.
SetSegs == {s \in mf.segs : seg[s].kind = "settings"}
SetsTo(s) == {t \in SetSegs : t <= s}
KnownDoc(d) ==
    \/ d = NoSettings
    \/ \E s \in SetSegs : d.toml = seg[s].arg /\ d.rev = Cardinality(SetsTo(s))
Known(m) == Old(m) /\ KnownDoc(m.set)
DocInv ==
    /\ KnownDoc(mf.set) /\ mf.set.rev = Cardinality(SetSegs)
    /\ \A h \in Hosts : KnownDoc(effective[h]) /\ Known(hman[h])

\* What the first i - 1 requests of ok are in the log, once they start at seq s.
Numbered(ok, s, i) == {[seq |-> s + l - 1, req |-> ok[l]] : l \in {m \in DOMAIN ok : m < i}}
SerialOn(b) ==
    \A i \in DOMAIN b.ok :
        Finds(Entries(mf) \cup Numbered(b.ok, b.slot, i), RefOf[b.ok[i]], OldOf[b.ok[i]])

\* A writer that waits for its CAS owns the segment it has written.
Holding(b) == b.pc = "cas" /\ b.kind # "annotate"
Claimed(b) ==
    /\ b.slot \in DOMAIN seg /\ b.slot \notin mf.segs /\ b.slot > b.man.head
    /\ seg[b.slot].reqs = b.ok /\ seg[b.slot].kind = b.kind /\ seg[b.slot].arg = b.arg /\ seg[b.slot].sup = b.sup
    /\ b.man.rev = mf.rev => SerialOn(b)
SlotsApart ==
    \A g, h \in Hosts : \A i, j \in Jobs :
        (g # h \/ i # j) /\ Holding(job[g][i]) /\ Holding(job[h][j]) => job[g][i].slot # job[h][j].slot

\* The kinds of writers, and where each may be.
Kinds(b, j) ==
    /\ b.pc = "idle" => Len(b.reqs) = 0
    /\ b.pc # "idle" => IF j = "push" THEN b.kind = "push"
                                      ELSE b.kind \in OtherKinds /\ Len(b.reqs) = 0 /\ Len(b.ok) = 0
    /\ b.kind = "annotate" => b.slot = 0 /\ b.pc # "claim"
    /\ b.pc = "upload" => b.kind = "annotate"

\* The requests of a batch: each once, of this instance, and nobody has been told.
Waiting(b, h) ==
    b.pc # "idle" =>
        /\ \A k \in DOMAIN b.reqs : HostOf[b.reqs[k]] = h /\ answer[b.reqs[k]].is = "none"
        /\ \A k, l \in DOMAIN b.reqs : b.reqs[k] = b.reqs[l] => k = l
Chosen(b) ==
    b.pc \in {"cas", "local"} =>
        /\ SeqSet(b.ok) \subseteq SeqSet(b.reqs)
        /\ \A k, l \in DOMAIN b.ok : b.ok[k] = b.ok[l] => k = l

Live == {"claim", "upload", "cas", "local"}
Sound(b, h, j) ==
    /\ Kinds(b, j) /\ Waiting(b, h) /\ Chosen(b)
    /\ b.pc \in Live => Known(b.man)
    /\ b.pc = "cas" /\ b.kind = "annotate" => b.arg \in side
    /\ Holding(b) => Claimed(b)
    /\ b.pc = "local" => \A i \in DOMAIN b.ok : [seq |-> b.slot + i - 1, req |-> b.ok[i]] \in Entries(mf)

\* A request that is in the log and has not been told is about to be told.
Untold ==
    \A e \in Entries(mf) :
        answer[e.req].is = "none" =>
            LET b == job[HostOf[e.req]]["push"] IN b.pc = "local" /\ e.req \in SeqSet(b.ok)

WInv ==
    /\ WTypes /\ LogInv /\ DocInv /\ SlotsApart
    /\ \A h \in Hosts : \A j \in Jobs : Sound(job[h][j], h, j)
    /\ BatchAnswers /\ Untold /\ BatchesSerial /\ PacksKept

-----------------------------------------------------------------------------
(* The log. *)

LEMMA EntryForm ==
    ASSUME NEW m, NEW e
    PROVE  e \in Entries(m) <=> \E s \in m.segs : \E k \in DOMAIN seg[s].reqs :
                                    e = [seq |-> s + k - 1, req |-> seg[s].reqs[k]]
BY DEF Entries

\* Entries are pushes with a seq up to the head.
LEMMA EntryTypes ==
    ASSUME WTypes, LogInv, NEW e \in Entries(mf)
    PROVE  e.req \in Requests /\ e.seq \in Nat /\ e.seq <= mf.head /\ e = [seq |-> e.seq, req |-> e.req]
<1>0. PICK s \in mf.segs : \E k \in DOMAIN seg[s].reqs : e = [seq |-> s + k - 1, req |-> seg[s].reqs[k]]
  BY EntryForm
<1>1. PICK k \in DOMAIN seg[s].reqs : e = [seq |-> s + k - 1, req |-> seg[s].reqs[k]]
  BY <1>0
<1>2. seg[s] \in WSegs /\ s \in 1 .. MaxLog /\ mf.head \in Nat /\ s \in DOMAIN seg
  BY DEF WTypes, LogInv, WMans
<1>3. seg[s].reqs \in Seq(Requests) /\ seg[s].last \in Nat
  BY <1>2 DEF WSegs
<1>4. k \in Nat /\ k >= 1 /\ seg[s].reqs[k] \in Requests
  BY <1>3
<1>5. s + k - 1 <= seg[s].last /\ seg[s].last <= mf.head
  BY <1>2 DEF LogInv
<1>6. s \in Nat /\ s >= 1
  BY <1>2, WritersAssumption
<1>7. s + k - 1 \in Nat /\ s + k - 1 <= mf.head
  BY <1>2, <1>3, <1>4, <1>5, <1>6
<1> QED
  BY <1>1, <1>4, <1>7

\* Segments that come and go beside the ones the manifest lists.
Beside == mf' = mf /\ \A s \in mf.segs : s \in DOMAIN seg' /\ seg'[s] = seg[s]

LEMMA BesideLog ==
    ASSUME Beside
    PROVE  /\ Entries(mf)' = Entries(mf) /\ SetSegs' = SetSegs
           /\ \A m : Old(m)' = Old(m) /\ Known(m)' = Known(m)
           /\ \A d : KnownDoc(d)' = KnownDoc(d)
<1>1. Entries(mf)' = Entries(mf)
  BY DEF Beside, Entries
<1>2. SetSegs' = SetSegs
  BY DEF Beside, SetSegs
<1>3. \A s : SetsTo(s)' = SetsTo(s)
  BY <1>2 DEF SetsTo
<1>4. \A s \in SetSegs : seg'[s].arg = seg[s].arg
  BY DEF SetSegs, Beside
<1>5. \A d : KnownDoc(d)' = KnownDoc(d)
  BY <1>2, <1>3, <1>4 DEF KnownDoc
<1>6. \A m : Old(m)' = Old(m)
  BY DEF Old, Beside
<1> QED
  BY <1>1, <1>2, <1>5, <1>6 DEF Known

LEMMA BesideKeeps ==
    ASSUME WInv, Beside, side \subseteq side'
    PROVE  BatchesSerial' /\ PacksKept'
<1>1. BatchesSerial'
  BY BesideLog DEF WInv, BatchesSerial, Finds
<1>2. PacksKept'
  BY DEF WInv, PacksKept, Beside
<1> QED
  BY <1>1, <1>2

\* A writer that rests while segments come and go.
LEMMA SoundRests ==
    ASSUME Beside, side \subseteq side', NEW b \in WJobs, NEW h \in Hosts, NEW j \in Jobs, Sound(b, h, j),
           \A k \in DOMAIN b.reqs : answer'[b.reqs[k]] = answer[b.reqs[k]],
           Holding(b) => b.slot \in DOMAIN seg' /\ seg'[b.slot] = seg[b.slot]
    PROVE  Sound(b, h, j)'
<1>1. Kinds(b, j)' /\ Waiting(b, h)' /\ Chosen(b)'
  BY DEF Sound, Kinds, Waiting, Chosen
<1>2. b.pc \in Live => Known(b.man)'
  BY BesideLog DEF Sound
<1>3. Holding(b) => Claimed(b)'
  <2> SUFFICES ASSUME Holding(b) PROVE Claimed(b)'
    OBVIOUS
  <2>1. Claimed(b) /\ mf' = mf
    BY DEF Sound, Beside
  <2>2. SerialOn(b)' = SerialOn(b)
    BY BesideLog DEF SerialOn, Finds, Numbered
  <2> QED
    BY <2>1, <2>2 DEF Claimed
<1>4. Entries(mf)' = Entries(mf)
  BY BesideLog
<1> QED
  BY <1>1, <1>2, <1>3, <1>4 DEF Sound, Holding

-----------------------------------------------------------------------------
(* A writer takes a step that leaves the manifest alone. *)

Puts(h, j, q) == job' = [job EXCEPT ![h][j] = q]

LEMMA JobSet ==
    ASSUME WTypes, NEW h \in Hosts, NEW j \in Jobs, NEW q \in WJobs, Puts(h, j, q)
    PROVE  /\ job' \in [Hosts -> [Jobs -> WJobs]] /\ job'[h][j] = q
           /\ \A g \in Hosts : \A i \in Jobs : g # h \/ i # j => job'[g][i] = job[g][i]
BY DEF WTypes, Puts

\* A writer whose record is b is as sound as b.
LEMMA SoundSame ==
    ASSUME NEW b, NEW h, NEW j, job'[h][j] = b, Sound(b, h, j)'
    PROVE  Sound(job[h][j], h, j)'
<1>1. Kinds(job[h][j], j)'
  BY DEF Sound, Kinds
<1>2. Waiting(job[h][j], h)'
  BY DEF Sound, Waiting
<1>3. Chosen(job[h][j])'
  BY DEF Sound, Chosen
<1>4. (job[h][j].pc \in Live => Known(job[h][j].man))'
  BY DEF Sound, Known, Old, KnownDoc
<1>5. (Holding(job[h][j]) => Claimed(job[h][j]))'
  BY DEF Sound, Holding, Claimed, SerialOn
<1>6. /\ (job[h][j].pc = "cas" /\ job[h][j].kind = "annotate" => job[h][j].arg \in side)'
      /\ (job[h][j].pc = "local" => \A i \in DOMAIN job[h][j].ok :
              [seq |-> job[h][j].slot + i - 1, req |-> job[h][j].ok[i]] \in Entries(mf))'
  BY DEF Sound
<1> QED
  BY <1>1, <1>2, <1>3, <1>4, <1>5, <1>6 DEF Sound

\* What the step promises.
Promises(h, j, q) ==
    /\ Beside /\ side \subseteq side' /\ LogInv'
    /\ DOMAIN seg' \subseteq 1 .. MaxLog /\ \A s \in DOMAIN seg' : seg'[s] \in WSegs
    /\ hman' \in [Hosts -> WMans] /\ effective' \in [Hosts -> Docs] /\ answer' \in [Requests -> WAnswers]
    /\ \A g \in Hosts : KnownDoc(effective'[g]) /\ Known(hman'[g])
    /\ \A r \in Requests : answer'[r] = answer[r] \/ (j = "push" /\ HostOf[r] = h)
    /\ \A g \in Hosts : \A i \in Jobs :
          (g # h \/ i # j) /\ Holding(job[g][i]) =>
              /\ job[g][i].slot \in DOMAIN seg' /\ seg'[job[g][i].slot] = seg[job[g][i].slot]
              /\ Holding(q) => job[g][i].slot # q.slot
    /\ BatchAnswers' /\ Untold'

\* Documents and manifests that are known stay so while the manifest rests.
LEMMA DocsBeside ==
    ASSUME WInv, Beside, \A g \in Hosts : KnownDoc(effective'[g]) /\ Known(hman'[g])
    PROVE  DocInv'
<1>0. mf' = mf
  BY DEF Beside
<1>1. KnownDoc(mf.set)' /\ (mf.set.rev = Cardinality(SetSegs))'
  BY <1>0, BesideLog DEF WInv, DocInv
<1>2. ASSUME NEW d PROVE (d = NoSettings \/ \E s \in SetSegs : d.toml = seg[s].arg /\ d.rev = Cardinality(SetsTo(s)))'
                          <=> KnownDoc(d)
  BY BesideLog DEF KnownDoc
<1>3. \A g \in Hosts : KnownDoc(effective[g])'
  BY <1>2 DEF KnownDoc
<1>4. \A g \in Hosts : KnownDoc(hman[g].set)'
  BY <1>2 DEF KnownDoc, Known
<1>5. \A g \in Hosts : Old(hman[g])'
  BY <1>0 DEF Known, Old
<1> QED
  BY <1>1, <1>3, <1>4, <1>5 DEF Known, DocInv

LEMMA JobTurn ==
    ASSUME WInv, NEW h \in Hosts, NEW j \in Jobs, NEW q \in WJobs, Puts(h, j, q),
           Promises(h, j, q), Sound(q, h, j)'
    PROVE  WInv'
<1>0. WTypes /\ SlotsApart /\ Beside /\ side \subseteq side' /\ mf' = mf
  BY DEF WInv, Promises, Beside
<1>1. /\ job' \in [Hosts -> [Jobs -> WJobs]] /\ job'[h][j] = q
      /\ \A g \in Hosts : \A i \in Jobs : g # h \/ i # j => job'[g][i] = job[g][i]
  BY <1>0, JobSet
<1>2. WTypes'
  BY <1>0, <1>1 DEF WTypes, Promises
<1>3. DocInv'
  BY <1>0, DocsBeside DEF Promises
<1>4. SlotsApart'
  <2> SUFFICES ASSUME NEW g \in Hosts, NEW f \in Hosts, NEW i \in Jobs, NEW k \in Jobs, g # f \/ i # k,
                      Holding(job'[g][i]), Holding(job'[f][k])
               PROVE  job'[g][i].slot # job'[f][k].slot
    BY DEF SlotsApart, Holding
  <2>1. CASE (g # h \/ i # j) /\ (f # h \/ k # j)
    BY <1>0, <1>1, <2>1 DEF SlotsApart
  <2>2. CASE ~(g # h \/ i # j)
    BY <1>1, <2>2 DEF Promises
  <2>3. CASE ~(f # h \/ k # j)
    BY <1>1, <2>3 DEF Promises
  <2> QED
    BY <2>1, <2>2, <2>3
<1>5. ASSUME NEW g \in Hosts, NEW i \in Jobs PROVE Sound(job[g][i], g, i)'
  <2>1. CASE g = h /\ i = j
    <3>1. job'[g][i] = q
      BY <1>1, <2>1
    <3> QED
      BY <2>1, <3>1, SoundSame
  <2>2. CASE g # h \/ i # j
    <3>1. PICK b \in WJobs : b = job[g][i]
      BY <1>0 DEF WTypes
    <3>2. Sound(b, g, i) /\ job'[g][i] = b
      BY <1>1, <1>5, <2>2, <3>1 DEF WInv
    <3>3. \A k \in DOMAIN b.reqs : answer'[b.reqs[k]] = answer[b.reqs[k]]
      <4> SUFFICES ASSUME NEW k \in DOMAIN b.reqs PROVE answer'[b.reqs[k]] = answer[b.reqs[k]]
        OBVIOUS
      <4>1. b.reqs \in Seq(Requests)
        BY DEF WJobs
      <4>2. b.reqs[k] \in Requests /\ Len(b.reqs) # 0
        BY <4>1
      <4>3. HostOf[b.reqs[k]] = g /\ i = "push"
        BY <3>2, <4>2 DEF Sound, Kinds, Waiting, Jobs
      <4> QED
        BY <2>2, <4>2, <4>3 DEF Promises
    <3>4. Holding(b) => b.slot \in DOMAIN seg' /\ seg'[b.slot] = seg[b.slot]
      BY <1>5, <2>2, <3>1 DEF Promises
    <3>5. Sound(b, g, i)'
      BY <1>0, <1>5, <3>2, <3>3, <3>4, SoundRests
    <3> QED
      BY <3>2, <3>5, SoundSame
  <2> QED
    BY <2>1, <2>2
<1>6. BatchesSerial' /\ PacksKept'
  BY <1>0, BesideKeeps
<1> QED
  BY <1>2, <1>3, <1>4, <1>5, <1>6 DEF WInv, Promises

\* Nobody is told anything, and the writer that moves has not just won.
LEMMA LoseTurn ==
    ASSUME WInv, NEW h \in Hosts, NEW j \in Jobs, NEW q \in WJobs, Puts(h, j, q),
           job[h][j].pc # "local", Beside, answer' = answer
    PROVE  BatchAnswers' /\ Untold'
<1>0. WTypes /\ LogInv /\ BatchAnswers /\ Untold
  BY DEF WInv
<1>2. /\ job'[h][j] = q
      /\ \A g \in Hosts : \A i \in Jobs : g # h \/ i # j => job'[g][i] = job[g][i]
  BY <1>0, JobSet
<1>3. Entries(mf)' = Entries(mf)
  BY BesideLog
<1>4. BatchAnswers'
  BY <1>0, <1>3 DEF BatchAnswers
<1>5. Untold'
  <2> SUFFICES ASSUME NEW e \in Entries(mf), answer[e.req].is = "none"
               PROVE  /\ job'[HostOf[e.req]]["push"].pc = "local"
                      /\ e.req \in SeqSet(job'[HostOf[e.req]]["push"].ok)
    BY <1>3 DEF Untold, SeqSet
  <2>1. e.req \in Requests
    BY <1>0, EntryTypes
  <2>2. PICK g \in Hosts : g = HostOf[e.req]
    BY <2>1, WritersAssumption
  <2>3. job[g]["push"].pc = "local" /\ e.req \in SeqSet(job[g]["push"].ok)
    BY <1>0, <2>2 DEF Untold
  <2>4. job'[g]["push"] = job[g]["push"]
    BY <1>2, <2>3 DEF Jobs
  <2> QED
    BY <2>2, <2>3, <2>4
<1> QED
  BY <1>4, <1>5

\* Nobody is told anything, and the log is left alone.
LEMMA QuietTurn ==
    ASSUME WInv, NEW h \in Hosts, NEW j \in Jobs, NEW q \in WJobs, Puts(h, j, q),
           ~Holding(q), job[h][j].pc # "local", UNCHANGED <<mf, seg, answer>>, side \subseteq side',
           hman' \in [Hosts -> WMans], effective' \in [Hosts -> Docs],
           \A g \in Hosts : KnownDoc(effective'[g]) /\ Known(hman'[g]), Sound(q, h, j)'
    PROVE  WInv'
<1>0. WTypes /\ LogInv /\ BatchAnswers /\ Untold
  BY DEF WInv
<1>1. Beside /\ LogInv'
  BY <1>0 DEF Beside, LogInv
<1>4. BatchAnswers' /\ Untold'
  BY <1>1, LoseTurn
<1>6. \A g \in Hosts : \A i \in Jobs : Holding(job[g][i]) => job[g][i].slot \in DOMAIN seg
  BY DEF WInv, Sound, Claimed
<1>7. Promises(h, j, q)
  BY <1>0, <1>1, <1>4, <1>6 DEF Promises, WTypes
<1> QED
  BY <1>7, JobTurn

\* A writer that has not looked at a manifest yet, or whose attempt has failed.
LEMMA SoundIdle ==
    ASSUME NEW b \in WJobs, NEW h \in Hosts, NEW j \in Jobs, b.pc \in {"idle", "sync", "lost"}, Kinds(b, j)', Waiting(b, h)'
    PROVE  Sound(b, h, j)' /\ ~Holding(b)
<1>1. ~Holding(b) /\ b.pc \notin {"cas", "local"} \cup Live
  BY DEF Holding, Live
<1>2. Chosen(b)' /\ b.pc \notin Live /\ b.pc # "cas" /\ b.pc # "local"
  BY <1>1 DEF Chosen
<1> QED
  BY <1>1, <1>2 DEF Sound, Holding

LEMMA WIdle ==
    /\ IdleJob \in WJobs /\ IdleJob.pc = "idle" /\ Len(IdleJob.reqs) = 0 /\ Len(IdleJob.ok) = 0 /\ IdleJob.kind = "none"
    /\ FirstManifest \in WMans /\ NoSettings \in Docs /\ FirstManifest.set = NoSettings
    /\ IdleJob.slot = 0 /\ IdleJob.sup = {} /\ IdleJob.man = FirstManifest
<1>1. NoSettings \in Docs /\ "none" \in Args
  BY DEF NoSettings, Docs, Args
<1>2. FirstManifest \in WMans /\ FirstManifest.set = NoSettings
  BY <1>1 DEF FirstManifest, WMans
<1>3. <<>> \in Seq(Requests) /\ Len(<<>>) = 0
  OBVIOUS
<1> QED
  BY <1>1, <1>2, <1>3 DEF IdleJob, WJobs

LEMMA IdleSound ==
    ASSUME NEW h \in Hosts, NEW j \in Jobs
    PROVE  Sound(IdleJob, h, j)' /\ ~Holding(IdleJob)
<1>1. Kinds(IdleJob, j)' /\ Waiting(IdleJob, h)'
  BY WIdle DEF Kinds, Waiting
<1> QED
  BY <1>1, WIdle, SoundIdle

LEMMA IdleSet ==
    ASSUME WTypes, NEW h \in Hosts, NEW j \in Jobs, Puts(h, j, IdleJob)
    PROVE  /\ job'[h][j] = IdleJob
           /\ \A g \in Hosts : \A i \in Jobs : g # h \/ i # j => job'[g][i] = job[g][i]
<1>1. PICK q \in WJobs : q = IdleJob
  BY WIdle
<1> QED
  BY <1>1, JobSet

LEMMA TakeBatchStep ==
    ASSUME WInv, NEW h \in Hosts, NEW n \in 1 .. MaxBatch, NEW batch \in [1 .. n -> Requests], TakeBatch(h, batch)
    PROVE  WInv'
<1>0. WTypes /\ DocInv
  BY DEF WInv
<1>1. batch \in Seq(Requests) /\ "push" \in Jobs
  BY WritersAssumption DEF Jobs
<1>2. PICK q : q = [IdleJob EXCEPT !.pc = "sync", !.kind = "push", !.reqs = batch]
  OBVIOUS
<1>3. /\ Puts(h, "push", q) /\ job[h]["push"].pc = "idle"
      /\ UNCHANGED <<mf, seg, side, hman, effective, answer>>
      /\ \A k \in DOMAIN batch : HostOf[batch[k]] = h /\ answer[batch[k]].is = "none"
      /\ \A k, l \in DOMAIN batch : batch[k] = batch[l] => k = l
  BY <1>2 DEF TakeBatch, Puts
<1>4. q \in WJobs /\ q.pc = "sync" /\ q.kind = "push" /\ q.reqs = batch
  BY <1>1, <1>2, WIdle DEF WJobs
<1>5. Kinds(q, "push")' /\ Waiting(q, h)'
  BY <1>3, <1>4 DEF Kinds, Waiting
<1>6. Sound(q, h, "push")' /\ ~Holding(q)
  BY <1>1, <1>4, <1>5, SoundIdle
<1>7. \A g \in Hosts : KnownDoc(effective'[g]) /\ Known(hman'[g])
  BY <1>0, <1>3 DEF DocInv
<1>8. hman' \in [Hosts -> WMans] /\ effective' \in [Hosts -> Docs] /\ side \subseteq side'
  BY <1>0, <1>3 DEF WTypes
<1> QED
  BY <1>1, <1>3, <1>4, <1>6, <1>7, <1>8, QuietTurn

\* A manifest that is known stays known.
LEMMA SoundReading ==
    ASSUME WInv, UNCHANGED <<mf, seg>>, NEW b \in WJobs, NEW h \in Hosts, NEW j \in Jobs,
           b.pc \in {"claim", "upload"}, Kinds(b, j), Waiting(b, h)', Known(b.man)
    PROVE  Sound(b, h, j)' /\ ~Holding(b)
<1>1. Beside
  BY DEF WInv, LogInv, Beside
<1>2. Known(b.man)'
  BY <1>1, BesideLog
<1>3. ~Holding(b) /\ Chosen(b)' /\ Kinds(b, j)'
  BY DEF Holding, Chosen, Kinds
<1> QED
  BY <1>2, <1>3 DEF Sound, Holding

LEMMA StartOtherStep ==
    ASSUME WInv, NEW h \in Hosts, NEW kind \in OtherKinds, NEW arg \in Args, NEW pc \in {"sync", "claim"},
           NEW sup \in SUBSET Args, StartOther(h, kind, arg, pc, sup), pc = "claim" => kind # "annotate"
    PROVE  WInv'
<1>0. WTypes /\ DocInv /\ "other" \in Jobs /\ "other" # "push"
  BY DEF WInv, Jobs
<1>2. PICK q : q = [IdleJob EXCEPT !.pc = pc, !.kind = kind, !.arg = arg, !.man = hman[h], !.sup = sup]
  OBVIOUS
<1>3. /\ Puts(h, "other", q) /\ job[h]["other"].pc = "idle"
      /\ UNCHANGED <<mf, seg, side, hman, effective, answer>>
  BY <1>2 DEF StartOther, Puts
<1>4. /\ q \in WJobs /\ q.pc = pc /\ q.kind = kind /\ q.reqs = IdleJob.reqs /\ q.man = hman[h] /\ q.slot = IdleJob.slot /\ q.ok = IdleJob.ok
  <2>1. hman[h] \in WMans
    BY <1>0 DEF WTypes
  <2> QED
    BY <1>2, <2>1, WIdle DEF WJobs
<1>5. Kinds(q, "other") /\ Waiting(q, h)' /\ Kinds(q, "other")'
  <2>1. Len(q.reqs) = 0 /\ q.slot = 0 /\ Len(q.ok) = 0
    BY <1>4, WIdle
  <2>2. DOMAIN q.reqs = {}
    BY <1>4, <2>1 DEF WJobs
  <2> QED
    BY <1>0, <1>4, <2>1, <2>2 DEF Kinds, Waiting
<1>6. Sound(q, h, "other")' /\ ~Holding(q)
  <2>1. CASE pc = "sync"
    BY <1>0, <1>4, <1>5, <2>1, SoundIdle
  <2>2. CASE pc = "claim"
    <3>1. Known(q.man)
      BY <1>0, <1>4 DEF DocInv
    <3> QED
      BY <1>0, <1>3, <1>4, <1>5, <2>2, <3>1, SoundReading
  <2> QED
    BY <2>1, <2>2
<1>7. \A g \in Hosts : KnownDoc(effective'[g]) /\ Known(hman'[g])
  BY <1>0, <1>3 DEF DocInv
<1>8. hman' \in [Hosts -> WMans] /\ effective' \in [Hosts -> Docs] /\ side \subseteq side'
  BY <1>0, <1>3 DEF WTypes
<1> QED
  BY <1>0, <1>3, <1>4, <1>6, <1>7, <1>8, QuietTurn

LEMMA StartStep ==
    ASSUME WInv, NEW h \in Hosts,
           \/ \E t \in Settings : publish_settings(h, t)
           \/ publish_compact(h, "base") \/ add_pack(h, "history")
           \/ \E p \in hman[h].packs : annotate_pack(h, p)
    PROVE  WInv'
<1>0. hman[h].packs \in SUBSET Args
  BY DEF WInv, WTypes, WMans
<1>1. Settings \subseteq Args /\ "base" \in Args /\ "history" \in Args
  BY DEF Args
<1>2. OtherKinds = {"settings", "compact", "add", "annotate"}
  BY DEF OtherKinds
<1>3. CASE \E t \in Settings : publish_settings(h, t)
  BY <1>1, <1>2, <1>3, StartOtherStep DEF publish_settings
<1>4. CASE publish_compact(h, "base")
  BY <1>0, <1>1, <1>2, <1>4, StartOtherStep DEF publish_compact
<1>5. CASE add_pack(h, "history")
  BY <1>1, <1>2, <1>5, StartOtherStep DEF add_pack
<1>6. CASE \E p \in hman[h].packs : annotate_pack(h, p)
  BY <1>0, <1>2, <1>6, StartOtherStep DEF annotate_pack
<1> QED
  BY <1>3, <1>4, <1>5, <1>6

LEMMA JobSyncStep ==
    ASSUME WInv, NEW h \in Hosts, NEW j \in Jobs, JobSync(h, j)
    PROVE  WInv'
<1>0. WTypes /\ DocInv /\ Sound(job[h][j], h, j) /\ job[h][j] \in WJobs /\ mf \in WMans
  BY DEF WInv, WTypes
<1>1. PICK pc : pc = IF job[h][j].kind = "annotate" THEN "upload" ELSE "claim"
  OBVIOUS
<1>2. PICK q : q = [job[h][j] EXCEPT !.pc = pc, !.man = mf]
  OBVIOUS
<1>3. /\ Puts(h, j, q) /\ job[h][j].pc \in {"sync", "lost"} /\ hman' = [hman EXCEPT ![h] = mf]
      /\ UNCHANGED <<mf, seg, side, effective, answer>>
  <2>1. job' = [job EXCEPT ![h][j].pc = pc, ![h][j].man = mf]
    BY <1>1 DEF JobSync
  <2>2. Puts(h, j, q)
    BY <1>0, <1>2, <2>1 DEF WTypes, WJobs, Puts
  <2> QED
    BY <2>2 DEF JobSync
<1>4. /\ q \in WJobs /\ q.pc = pc /\ q.kind = job[h][j].kind /\ q.reqs = job[h][j].reqs /\ q.man = mf
      /\ q.slot = job[h][j].slot /\ q.ok = job[h][j].ok /\ pc \in {"claim", "upload"}
  BY <1>0, <1>1, <1>2 DEF WJobs
<1>5. Kinds(q, j) /\ Waiting(q, h)'
  BY <1>0, <1>1, <1>3, <1>4 DEF Sound, Kinds, Waiting
<1>6. Known(mf)
  <2>1. mf.rev <= mf.rev
    BY <1>0 DEF WMans
  <2> QED
    BY <1>0, <2>1 DEF Known, Old, DocInv
<1>7. Sound(q, h, j)' /\ ~Holding(q)
  BY <1>3, <1>4, <1>5, <1>6, SoundReading
<1>8. \A g \in Hosts : KnownDoc(effective'[g]) /\ Known(hman'[g])
  <2>1. hman \in [Hosts -> WMans]
    BY <1>0 DEF WTypes
  <2>2. \A g \in Hosts : hman'[g] = mf \/ hman'[g] = hman[g]
    BY <1>3, <2>1
  <2> QED
    BY <1>0, <1>3, <1>6, <2>2 DEF DocInv
<1>9. hman' \in [Hosts -> WMans] /\ effective' \in [Hosts -> Docs] /\ side \subseteq side'
  BY <1>0, <1>3 DEF WTypes
<1> QED
  BY <1>3, <1>4, <1>7, <1>8, <1>9, QuietTurn

\* The instances' manifests and documents are left alone.
LEMMA DocsRest ==
    ASSUME WInv, UNCHANGED <<hman, effective>>
    PROVE  /\ \A g \in Hosts : KnownDoc(effective'[g]) /\ Known(hman'[g])
           /\ hman' \in [Hosts -> WMans] /\ effective' \in [Hosts -> Docs]
BY DEF WInv, WTypes, DocInv

LEMMA AnnotateStep ==
    ASSUME WInv, NEW h \in Hosts, AnnotateUpload(h) \/ AnnotateGone(h)
    PROVE  WInv'
<1>0. WTypes /\ DocInv /\ LogInv /\ "other" \in Jobs /\ "other" # "push" /\ Sound(job[h]["other"], h, "other")
      /\ job[h]["other"] \in WJobs
  BY DEF WInv, WTypes, Jobs
<1>1. UNCHANGED <<mf, seg, answer, hman, effective>> /\ side \subseteq side'
  BY DEF AnnotateUpload, AnnotateGone
<1>2. \A g \in Hosts : KnownDoc(effective'[g]) /\ Known(hman'[g])
  BY <1>1, DocsRest
<1>3. hman' \in [Hosts -> WMans] /\ effective' \in [Hosts -> Docs]
  BY <1>1, DocsRest
<1>4. CASE AnnotateUpload(h)
  <2>1. PICK q : q = [job[h]["other"] EXCEPT !.pc = "cas", !.man = hman[h]]
    OBVIOUS
  <2>2. /\ job[h]["other"].pc = "upload" /\ side' = side \cup {job[h]["other"].arg}
        /\ job' = [job EXCEPT ![h]["other"].pc = "cas", ![h]["other"].man = hman[h]]
    BY <1>4 DEF AnnotateUpload
  <2>3. Puts(h, "other", q)
    BY <1>0, <2>1, <2>2 DEF WTypes, WJobs, Puts
  <2>4. hman[h] \in WMans /\ Known(hman[h])
    BY <1>0 DEF WTypes, DocInv
  <2>5. /\ q \in WJobs /\ q.pc = "cas" /\ q.kind = job[h]["other"].kind /\ q.reqs = job[h]["other"].reqs
        /\ q.man = hman[h] /\ q.slot = job[h]["other"].slot /\ q.ok = job[h]["other"].ok /\ q.arg = job[h]["other"].arg
    BY <1>0, <2>1, <2>4 DEF WJobs
  <2>6. q.kind = "annotate" /\ ~Holding(q) /\ Kinds(q, "other")'
    BY <1>0, <2>2, <2>5 DEF Sound, Kinds, Holding
  <2>7. Len(q.reqs) = 0 /\ DOMAIN q.reqs = {}
    <3>1. Len(q.reqs) = 0
      BY <1>0, <2>2, <2>5 DEF Sound, Kinds
    <3> QED
      BY <2>5, <3>1 DEF WJobs
  <2>8. Waiting(q, h)' /\ q.arg \in side' /\ Known(q.man)'
    <3>1. Beside
      BY <1>0, <1>1 DEF Beside, LogInv
    <3> QED
      BY <2>2, <2>4, <2>5, <2>7, <3>1, BesideLog DEF Waiting
  <2>9. Chosen(q)'
    <3>1. Len(q.ok) = 0 /\ q.ok \in Seq(Requests)
      BY <1>0, <2>2, <2>5 DEF Sound, Kinds, WJobs
    <3>2. DOMAIN q.ok = {}
      BY <3>1
    <3> QED
      BY <3>2 DEF Chosen, SeqSet
  <2>10. Sound(q, h, "other")'
    BY <2>5, <2>6, <2>8, <2>9 DEF Sound, Holding
  <2> QED
    BY <1>0, <1>1, <1>2, <1>3, <2>2, <2>3, <2>5, <2>6, <2>10, QuietTurn
<1>5. CASE AnnotateGone(h)
  <2>1. Puts(h, "other", IdleJob) /\ job[h]["other"].pc # "local"
    BY <1>5 DEF AnnotateGone, Puts
  <2> QED
    BY <1>0, <1>1, <1>2, <1>3, <2>1, WIdle, IdleSound, QuietTurn
<1> QED
  BY <1>4, <1>5

LEMMA SlotContendedStep ==
    ASSUME WInv, NEW h \in Hosts, NEW j \in Jobs, SlotContended(h, j)
    PROVE  WInv'
<1>0. WTypes /\ Sound(job[h][j], h, j) /\ job[h][j] \in WJobs
  BY DEF WInv, WTypes
<1>1. PICK q : q = [job[h][j] EXCEPT !.pc = "lost"]
  OBVIOUS
<1>2. /\ UNCHANGED <<mf, seg, side, hman, effective, answer>> /\ job[h][j].pc = "claim"
      /\ job' = [job EXCEPT ![h][j].pc = "lost"] /\ side \subseteq side'
  BY DEF SlotContended
<1>3. Puts(h, j, q)
  BY <1>0, <1>1, <1>2 DEF WTypes, WJobs, Puts
<1>4. /\ q \in WJobs /\ q.pc = "lost" /\ q.kind = job[h][j].kind /\ q.reqs = job[h][j].reqs
      /\ q.slot = job[h][j].slot /\ q.ok = job[h][j].ok
  BY <1>0, <1>1 DEF WJobs
<1>5. Kinds(q, j)' /\ Waiting(q, h)'
  BY <1>0, <1>2, <1>4 DEF Sound, Kinds, Waiting
<1>6. Sound(q, h, j)' /\ ~Holding(q)
  BY <1>4, <1>5, SoundIdle
<1>7. \A g \in Hosts : KnownDoc(effective'[g]) /\ Known(hman'[g])
  BY <1>2, DocsRest
<1>8. hman' \in [Hosts -> WMans] /\ effective' \in [Hosts -> Docs] /\ job[h][j].pc # "local"
  BY <1>2, DocsRest
<1> QED
  BY <1>2, <1>3, <1>4, <1>6, <1>7, <1>8, QuietTurn

-----------------------------------------------------------------------------
(* Requests are told. *)

\* Nothing of a batch is in the log before its CAS.
LEMMA NotInLog ==
    ASSUME WInv, NEW h \in Hosts, NEW r, r \in SeqSet(job[h]["push"].reqs),
           job[h]["push"].pc # "idle", job[h]["push"].pc # "local" \/ r \notin SeqSet(job[h]["push"].ok)
    PROVE  \A e \in Entries(mf) : e.req # r
<1> SUFFICES ASSUME NEW e \in Entries(mf), e.req = r PROVE FALSE
  OBVIOUS
<1>1. "push" \in Jobs /\ Waiting(job[h]["push"], h) /\ Untold
  BY DEF WInv, Jobs, Sound
<1>2. HostOf[r] = h /\ answer[r].is = "none"
  BY <1>1 DEF Waiting, SeqSet
<1> QED
  BY <1>1, <1>2 DEF Untold

\* The requests of a writer of its own instance, none for the other kinds.
LEMMA OwnRequests ==
    ASSUME WInv, NEW h \in Hosts, NEW j \in Jobs, NEW r, r \in SeqSet(job[h][j].reqs)
    PROVE  r \in Requests /\ j = "push" /\ HostOf[r] = h /\ answer[r].is = "none" /\ job[h][j].pc # "idle"
<1>0. WTypes /\ Sound(job[h][j], h, j)
  BY DEF WInv
<1>1. PICK k \in DOMAIN job[h][j].reqs : r = job[h][j].reqs[k]
  BY DEF SeqSet
<1>2. job[h][j].reqs \in Seq(Requests)
  BY <1>0 DEF WTypes, WJobs
<1>3. r \in Requests /\ Len(job[h][j].reqs) # 0
  BY <1>1, <1>2
<1> QED
  BY <1>0, <1>1, <1>3 DEF Sound, Kinds, Waiting

\* What Untold says of the next state, when the log rests.
LEMMA UntoldNext ==
    ASSUME Entries(mf)' = Entries(mf),
           \A e \in Entries(mf) : answer'[e.req].is = "none" =>
               /\ job'[HostOf[e.req]]["push"].pc = "local"
               /\ e.req \in SeqSet(job'[HostOf[e.req]]["push"].ok)
    PROVE  Untold'
BY DEF Untold, SeqSet

\* The log is left alone, the instance's batch is answered and its writer is done.
LEMMA TellTurn ==
    ASSUME WInv, NEW h \in Hosts, NEW j \in Jobs, Puts(h, j, IdleJob),
           UNCHANGED <<mf, seg, side>>, answer' \in [Requests -> WAnswers],
           hman' \in [Hosts -> WMans], effective' \in [Hosts -> Docs],
           \A g \in Hosts : KnownDoc(effective'[g]) /\ Known(hman'[g]),
           \A r \in Requests : r \notin SeqSet(job[h][j].reqs) => answer'[r] = answer[r],
           \A r \in SeqSet(job[h][j].reqs) :
               \/ answer'[r].is = "ok" /\ [seq |-> answer'[r].seq, req |-> r] \in Entries(mf)
               \/ answer'[r].is \in {"conflict", "retry"} /\ \A e \in Entries(mf) : e.req # r,
           job[h][j].pc = "local" => SeqSet(job[h][j].ok) \subseteq SeqSet(job[h][j].reqs)
    PROVE  WInv'
<1>0. WTypes /\ LogInv /\ BatchAnswers /\ Untold /\ IdleJob \in WJobs
  BY WIdle DEF WInv
<1>1. Beside /\ LogInv' /\ side \subseteq side'
  BY <1>0 DEF Beside, LogInv
<1>2. /\ job'[h][j] = IdleJob
      /\ \A g \in Hosts : \A i \in Jobs : g # h \/ i # j => job'[g][i] = job[g][i]
  BY <1>0, IdleSet
<1>3. Entries(mf)' = Entries(mf)
  BY <1>1, BesideLog
<1>4. \A r \in Requests : answer'[r] = answer[r] \/ (j = "push" /\ HostOf[r] = h)
  BY OwnRequests
<1>5. BatchAnswers'
  <2>1. ASSUME NEW r \in Requests, answer'[r].is = "ok" PROVE [seq |-> answer'[r].seq, req |-> r] \in Entries(mf)
    BY <1>0, <2>1 DEF BatchAnswers
  <2>2. ASSUME NEW e \in Entries(mf) PROVE answer'[e.req].is \notin {"conflict", "retry"}
    <3>1. e.req \in Requests
      BY <1>0, <2>2, EntryTypes
    <3> QED
      BY <1>0, <2>2, <3>1 DEF BatchAnswers
  <2> QED
    BY <1>0, <1>3, <2>1, <2>2 DEF BatchAnswers
<1>6. Untold'
  <2> SUFFICES ASSUME NEW e \in Entries(mf), answer'[e.req].is = "none"
               PROVE  /\ job'[HostOf[e.req]]["push"].pc = "local"
                      /\ e.req \in SeqSet(job'[HostOf[e.req]]["push"].ok)
    BY <1>3, UntoldNext
  <2>1. e.req \in Requests
    BY <1>0, EntryTypes
  <2>2. e.req \notin SeqSet(job[h][j].reqs) /\ answer'[e.req] = answer[e.req]
    BY <2>1
  <2>3. PICK g \in Hosts : g = HostOf[e.req]
    BY <2>1, WritersAssumption
  <2>4. job[g]["push"].pc = "local" /\ e.req \in SeqSet(job[g]["push"].ok)
    BY <1>0, <2>2, <2>3 DEF Untold
  <2>5. job'[g]["push"] = job[g]["push"]
    BY <1>2, <2>2, <2>4 DEF Jobs
  <2> QED
    BY <2>3, <2>4, <2>5
<1>7. \A g \in Hosts : \A i \in Jobs : Holding(job[g][i]) => job[g][i].slot \in DOMAIN seg
  BY DEF WInv, Sound, Claimed
<1>8. Promises(h, j, IdleJob)
  BY <1>0, <1>1, <1>4, <1>5, <1>6, <1>7, IdleSound DEF Promises, WTypes
<1> QED
  BY <1>0, <1>8, IdleSound, JobTurn

LEMMA RefuseStep ==
    ASSUME WInv, NEW h \in Hosts, NEW j \in Jobs, GiveUp(h, j) \/ (j = "push" /\ RejectAll(h))
    PROVE  WInv'
<1>0. WTypes
  BY DEF WInv
<1>1. UNCHANGED <<mf, seg, side, hman, effective>> /\ job[h][j].pc \in {"lost", "claim"}
      /\ Puts(h, j, IdleJob)
  BY DEF GiveUp, RejectAll, Puts
<1>2. PICK x \in {"conflict", "retry"} :
          answer' = [r \in Requests |-> IF r \in SeqSet(job[h][j].reqs) THEN [is |-> x, seq |-> 0] ELSE answer[r]]
  BY DEF GiveUp, RejectAll, Puts
<1>3. [is |-> x, seq |-> 0] \in WAnswers
  BY DEF WAnswers
<1>4. answer' \in [Requests -> WAnswers]
  BY <1>0, <1>2, <1>3 DEF WTypes
<1>5. \A r \in Requests : r \notin SeqSet(job[h][j].reqs) => answer'[r] = answer[r]
  BY <1>2
<1>6. ASSUME NEW r \in SeqSet(job[h][j].reqs)
      PROVE  answer'[r].is \in {"conflict", "retry"} /\ \A e \in Entries(mf) : e.req # r
  <2>1. r \in Requests /\ j = "push"
    BY <1>6, OwnRequests
  <2>2. \A e \in Entries(mf) : e.req # r
    BY <1>1, <1>6, <2>1, NotInLog
  <2> QED
    BY <1>2, <1>6, <2>1, <2>2
<1>7. \A g \in Hosts : KnownDoc(effective'[g]) /\ Known(hman'[g])
  BY <1>1, DocsRest
<1>8. hman' \in [Hosts -> WMans] /\ effective' \in [Hosts -> Docs] /\ job[h][j].pc # "local"
  BY <1>1, DocsRest
<1> QED
  BY <1>1, <1>4, <1>5, <1>6, <1>7, <1>8, TellTurn

LEMMA RecordStep ==
    ASSUME WInv, NEW h \in Hosts, NEW j \in Jobs, RecordLocally(h, j)
    PROVE  WInv'
<1>0. WTypes /\ DocInv /\ Sound(job[h][j], h, j) /\ job[h][j] \in WJobs
  BY DEF WInv, WTypes
<1>1. PICK b \in WJobs : b = job[h][j]
  BY <1>0
<1>2. /\ b.pc = "local" /\ UNCHANGED <<mf, seg, side>> /\ Puts(h, j, IdleJob)
      /\ hman' = [hman EXCEPT ![h] = b.man]
      /\ effective' = [effective EXCEPT ![h] = IF b.kind = "settings" THEN NoSettings ELSE @]
  BY <1>1 DEF RecordLocally, Puts
<1> DEFINE place(r) == CHOOSE k \in DOMAIN b.ok : b.ok[k] = r
<1>3. answer' = [r \in Requests |->
                    IF r \in SeqSet(b.ok) THEN [is |-> "ok", seq |-> b.slot - 1 + place(r)]
                    ELSE IF r \in SeqSet(b.reqs) THEN [is |-> "conflict", seq |-> 0] ELSE answer[r]]
  BY <1>1 DEF RecordLocally
<1>4. \A r \in SeqSet(b.ok) : place(r) \in DOMAIN b.ok /\ b.ok[place(r)] = r
  BY DEF SeqSet
<1> HIDE DEF place
<1>5. /\ b.ok \in Seq(Requests) /\ b.reqs \in Seq(Requests) /\ b.slot \in Nat /\ b.man \in WMans
      /\ \A k \in DOMAIN b.ok : k \in Nat
  <2>1. b.ok \in Seq(Requests) /\ b.reqs \in Seq(Requests) /\ b.slot \in Nat /\ b.man \in WMans
    BY DEF WJobs
  <2> QED
    BY <2>1
<1>6. SeqSet(b.ok) \subseteq SeqSet(b.reqs)
  BY <1>0, <1>1, <1>2 DEF Sound, Chosen
<1>7. \A r \in SeqSet(b.ok) : b.slot - 1 + place(r) \in Int /\ b.slot - 1 + place(r) = b.slot + place(r) - 1
  <2> SUFFICES ASSUME NEW r \in SeqSet(b.ok) PROVE b.slot - 1 + place(r) \in Int /\ b.slot - 1 + place(r) = b.slot + place(r) - 1
    OBVIOUS
  <2>1. place(r) \in Nat
    BY <1>4, <1>5
  <2> QED
    BY <1>5, <2>1
<1>8. \A r \in SeqSet(b.ok) : [seq |-> b.slot - 1 + place(r), req |-> r] \in Entries(mf)
  <2>1. \A i \in DOMAIN b.ok : [seq |-> b.slot + i - 1, req |-> b.ok[i]] \in Entries(mf)
    BY <1>0, <1>1, <1>2 DEF Sound
  <2> QED
    BY <1>4, <1>7, <2>1
<1>9. answer' \in [Requests -> WAnswers]
  <2>1. [is |-> "conflict", seq |-> 0] \in WAnswers
    BY DEF WAnswers
  <2>2. \A r \in SeqSet(b.ok) : [is |-> "ok", seq |-> b.slot - 1 + place(r)] \in WAnswers
    BY <1>7 DEF WAnswers
  <2> QED
    BY <1>0, <1>3, <2>1, <2>2 DEF WTypes
<1>10. \A r \in Requests : r \notin SeqSet(b.reqs) => answer'[r] = answer[r]
  BY <1>3, <1>6
<1>11. ASSUME NEW r \in SeqSet(b.reqs)
       PROVE  \/ answer'[r].is = "ok" /\ [seq |-> answer'[r].seq, req |-> r] \in Entries(mf)
              \/ answer'[r].is \in {"conflict", "retry"} /\ \A e \in Entries(mf) : e.req # r
  <2>1. r \in Requests /\ j = "push"
    BY <1>1, <1>11, OwnRequests
  <2>2. CASE r \in SeqSet(b.ok)
    BY <1>3, <1>8, <2>1, <2>2
  <2>3. CASE r \notin SeqSet(b.ok)
    <3>1. \A e \in Entries(mf) : e.req # r
      BY <1>1, <1>2, <1>11, <2>1, <2>3, NotInLog
    <3> QED
      BY <1>3, <1>11, <2>1, <2>3, <3>1
  <2> QED
    BY <2>2, <2>3
<1>12. Known(b.man) /\ KnownDoc(NoSettings)
  BY <1>0, <1>1, <1>2 DEF Sound, Live, KnownDoc
<1>13. hman' \in [Hosts -> WMans] /\ \A g \in Hosts : Known(hman'[g])
  <2>1. hman \in [Hosts -> WMans] /\ \A g \in Hosts : Known(hman[g])
    BY <1>0 DEF WTypes, DocInv
  <2>2. \A g \in Hosts : hman'[g] = b.man \/ hman'[g] = hman[g]
    BY <1>2, <2>1
  <2> QED
    BY <1>2, <1>5, <1>12, <2>1, <2>2
<1>14. effective' \in [Hosts -> Docs] /\ \A g \in Hosts : KnownDoc(effective'[g])
  <2>1. effective \in [Hosts -> Docs] /\ \A g \in Hosts : KnownDoc(effective[g])
    BY <1>0 DEF WTypes, DocInv
  <2>2. \A g \in Hosts : effective'[g] = NoSettings \/ effective'[g] = effective[g]
    BY <1>2, <2>1
  <2>3. effective' \in [Hosts -> Docs]
    BY <1>2, <2>1, WIdle
  <2> QED
    BY <1>12, <2>1, <2>2, <2>3
<1> QED
  BY <1>1, <1>2, <1>6, <1>9, <1>10, <1>11, <1>13, <1>14, TellTurn

LEMMA EffectiveStep ==
    ASSUME WInv, NEW h \in Hosts, EffectiveConfig(h)
    PROVE  WInv'
<1>0. WTypes /\ LogInv /\ DocInv /\ UNCHANGED <<mf, seg, side, hman, job, answer>>
      /\ effective' = [effective EXCEPT ![h] = hman[h].set]
  BY DEF WInv, EffectiveConfig
<1>1. Beside /\ LogInv' /\ side \subseteq side'
  BY <1>0 DEF Beside, LogInv
<1>2. effective' \in [Hosts -> Docs] /\ \A g \in Hosts : effective'[g] = effective[g] \/ effective'[g] = hman[g].set
  <2>1. effective \in [Hosts -> Docs] /\ hman[h].set \in Docs
    BY <1>0 DEF WTypes, WMans
  <2> QED
    BY <1>0, <2>1
<1>3. DocInv'
  <2>1. KnownDoc(mf.set)' /\ (mf.set.rev = Cardinality(SetSegs))' /\ \A g \in Hosts : Known(hman[g])'
    BY <1>0, <1>1, BesideLog DEF DocInv
  <2>2. ASSUME NEW g \in Hosts PROVE KnownDoc(effective[g])'
    <3>1. PICK d : d = effective'[g]
      OBVIOUS
    <3>2. KnownDoc(d)
      BY <1>0, <1>2, <3>1 DEF DocInv, Known
    <3>3. KnownDoc(d)'
      BY <1>1, <3>2, BesideLog
    <3> QED
      BY <3>1, <3>3 DEF KnownDoc
  <2> QED
    BY <2>1, <2>2 DEF DocInv
<1>4. WTypes' /\ SlotsApart'
  BY <1>0, <1>2 DEF WInv, WTypes, SlotsApart
<1>5. ASSUME NEW g \in Hosts, NEW i \in Jobs PROVE Sound(job[g][i], g, i)'
  <2>1. PICK b \in WJobs : b = job[g][i]
    BY <1>0, <1>5 DEF WTypes
  <2>2. Sound(b, g, i) /\ (Holding(b) => b.slot \in DOMAIN seg) /\ job'[g][i] = b
    BY <1>0, <1>5, <2>1 DEF WInv, Sound, Claimed
  <2>3. Sound(b, g, i)'
    BY <1>0, <1>1, <1>5, <2>2, SoundRests
  <2> QED
    BY <2>2, <2>3, SoundSame
<1>6. BatchesSerial' /\ PacksKept'
  BY <1>1, BesideKeeps
<1>7. BatchAnswers' /\ Untold'
  BY <1>0, <1>1, BesideLog DEF WInv, BatchAnswers, Untold
<1> QED
  BY <1>1, <1>3, <1>4, <1>5, <1>6, <1>7 DEF WInv

\* The segment goes before anybody else can list it.
LEMMA CasLosesStep ==
    ASSUME WInv, NEW h \in Hosts, NEW j \in Jobs, CasLoses(h, j)
    PROVE  WInv'
<1>0. WTypes /\ LogInv /\ Sound(job[h][j], h, j) /\ job[h][j] \in WJobs /\ SlotsApart
  BY DEF WInv, WTypes
<1>1. PICK s \in Nat : s = job[h][j].slot
  BY <1>0 DEF WJobs
<1>2. PICK q : q = [job[h][j] EXCEPT !.pc = "lost", !.slot = 0]
  OBVIOUS
<1>3. /\ UNCHANGED <<mf, side, hman, effective, answer>> /\ job[h][j].pc = "cas"
      /\ job' = [job EXCEPT ![h][j].pc = "lost", ![h][j].slot = 0]
      /\ seg' = [k \in DOMAIN seg \ {s} |-> seg[k]]
  BY <1>1 DEF CasLoses
<1>4. Puts(h, j, q)
  BY <1>0, <1>2, <1>3 DEF WTypes, WJobs, Puts
<1>5. /\ q \in WJobs /\ q.pc = "lost" /\ q.kind = job[h][j].kind /\ q.reqs = job[h][j].reqs
      /\ q.slot = 0 /\ q.ok = job[h][j].ok
  BY <1>0, <1>2 DEF WJobs
<1>6. s \notin mf.segs
  <2>1. CASE Holding(job[h][j])
    BY <1>0, <1>1, <2>1 DEF Sound, Claimed
  <2>2. CASE job[h][j].kind = "annotate"
    <3>1. s = 0
      BY <1>0, <1>1, <2>2 DEF Sound, Kinds
    <3>2. \A k \in mf.segs : k \in 1 .. MaxLog
      BY <1>0 DEF WTypes, WMans
    <3> QED
      BY <3>1, <3>2
  <2> QED
    BY <1>3, <2>1, <2>2 DEF Holding
<1>7. Beside /\ side \subseteq side' /\ DOMAIN seg' = DOMAIN seg \ {s} /\ \A k \in DOMAIN seg' : seg'[k] = seg[k]
  BY <1>0, <1>3, <1>6 DEF Beside, LogInv
<1>8. LogInv' /\ DOMAIN seg' \subseteq 1 .. MaxLog /\ \A k \in DOMAIN seg' : seg'[k] \in WSegs
  BY <1>0, <1>3, <1>6, <1>7 DEF LogInv, WTypes
<1>9. Sound(q, h, j)' /\ ~Holding(q)
  <2>1. Kinds(q, j)' /\ Waiting(q, h)'
    BY <1>0, <1>3, <1>5 DEF Sound, Kinds, Waiting
  <2> QED
    BY <1>5, <2>1, SoundIdle
<1>10. ASSUME NEW g \in Hosts, NEW i \in Jobs, g # h \/ i # j, Holding(job[g][i])
       PROVE  job[g][i].slot \in DOMAIN seg' /\ seg'[job[g][i].slot] = seg[job[g][i].slot]
  <2>1. job[g][i].slot \in DOMAIN seg
    BY <1>10 DEF WInv, Sound, Claimed
  <2>2. job[g][i].slot # s
    <3>1. CASE Holding(job[h][j])
      BY <1>0, <1>1, <1>10, <3>1 DEF SlotsApart
    <3>2. CASE job[h][j].kind = "annotate"
      <4>1. s = 0
        BY <1>0, <1>1, <3>2 DEF Sound, Kinds
      <4>2. job[g][i].slot \in 1 .. MaxLog
        BY <1>0, <2>1 DEF WTypes
      <4> QED
        BY <4>1, <4>2
    <3> QED
      BY <1>3, <3>1, <3>2 DEF Holding
  <2> QED
    BY <1>7, <2>1, <2>2
<1>11. BatchAnswers' /\ Untold'
  BY <1>0, <1>3, <1>4, <1>5, <1>7, LoseTurn
<1>12. Promises(h, j, q)
  <2>1. \A g \in Hosts : KnownDoc(effective'[g]) /\ Known(hman'[g])
    BY <1>3, DocsRest
  <2>2. hman' \in [Hosts -> WMans] /\ effective' \in [Hosts -> Docs] /\ answer' \in [Requests -> WAnswers]
    BY <1>0, <1>3 DEF WTypes
  <2> QED
    BY <1>3, <1>7, <1>8, <1>9, <1>10, <1>11, <2>1, <2>2 DEF Promises
<1> QED
  BY <1>4, <1>5, <1>9, <1>12, JobTurn

-----------------------------------------------------------------------------
(* A batch is verified and claims its place in the log. *)

LEMMA ValidForm ==
    ASSUME NEW man, NEW reqs \in Seq(Requests), NEW ok \in Valid(man, reqs)
    PROVE  /\ ok \in Seq(Requests) /\ SeqSet(ok) \subseteq SeqSet(reqs) /\ (Len(reqs) = 0 => Len(ok) = 0)
           /\ \E V \in SUBSET DOMAIN reqs : InOrder(reqs, V, ok) /\ Verified(man, reqs, V)
<1>1. PICK n \in 0 .. Len(reqs) : ok \in [1 .. n -> SeqSet(reqs)]
  BY DEF Valid
<1>2. SeqSet(reqs) \subseteq Requests /\ Len(reqs) \in Nat
  BY DEF SeqSet
<1>3. ok \in [1 .. n -> Requests] /\ n \in Nat
  BY <1>1, <1>2
<1>4. ok \in Seq(Requests) /\ Len(ok) = n /\ DOMAIN ok = 1 .. n
  BY <1>3
<1>5. SeqSet(ok) \subseteq SeqSet(reqs)
  BY <1>1, <1>4 DEF SeqSet
<1>6. Len(reqs) = 0 => n = 0
  BY <1>1, <1>2
<1> QED
  BY <1>4, <1>5, <1>6 DEF Valid

LEMMA ValidApart ==
    ASSUME NEW man, NEW reqs \in Seq(Requests), NEW ok \in Valid(man, reqs),
           \A k, l \in DOMAIN reqs : reqs[k] = reqs[l] => k = l
    PROVE  \A i, k \in DOMAIN ok : ok[i] = ok[k] => i = k
<1>1. PICK V \in SUBSET DOMAIN reqs : InOrder(reqs, V, ok)
  BY ValidForm
<1>2. PICK at \in [DOMAIN ok -> V] :
          /\ \A i \in DOMAIN ok : ok[i] = reqs[at[i]]
          /\ \A i, k \in DOMAIN ok : i < k => at[i] < at[k]
  BY <1>1 DEF InOrder
<1> SUFFICES ASSUME NEW i \in DOMAIN ok, NEW k \in DOMAIN ok, ok[i] = ok[k] PROVE i = k
  OBVIOUS
<1>3. at[i] = at[k] /\ at[i] \in DOMAIN reqs /\ at[k] \in DOMAIN reqs
  BY <1>2
<1>4. at[i] \in Nat /\ at[k] \in Nat
  BY <1>3
<1>5. i \in Nat /\ k \in Nat
  <2>1. ok \in Seq(Requests)
    BY ValidForm
  <2> QED
    BY <2>1
<1>6. ~(at[i] < at[k]) /\ ~(at[k] < at[i])
  BY <1>3, <1>4
<1>7. ~(i < k) /\ ~(k < i)
  BY <1>2, <1>6
<1> QED
  BY <1>5, <1>7

\* The batch was verified behind the log it is appended to; the seqs it gets there keep its order.
LEMMA SerialFrom ==
    ASSUME WTypes, LogInv, NEW reqs \in Seq(Requests), NEW ok \in Valid(mf, reqs), NEW s \in Nat, s > mf.head,
           NEW i \in DOMAIN ok
    PROVE  Finds(Entries(mf) \cup Numbered(ok, s, i), RefOf[ok[i]], OldOf[ok[i]])
<1>0. ok \in Seq(Requests) /\ mf.head \in Nat
  BY ValidForm DEF WTypes, WMans
<1>1. PICK V \in SUBSET DOMAIN reqs : InOrder(reqs, V, ok) /\ Verified(mf, reqs, V)
  BY ValidForm
<1>2. PICK at \in [DOMAIN ok -> V] :
          /\ \A l \in DOMAIN ok : ok[l] = reqs[at[l]]
          /\ \A l, k \in DOMAIN ok : l < k => at[l] < at[k]
          /\ \A p \in V : \E l \in DOMAIN ok : at[l] = p
  BY <1>1 DEF InOrder
<1>3. PICK k \in DOMAIN reqs : k = at[i] /\ k \in V /\ ok[i] = reqs[k]
  BY <1>2
<1>4. /\ \A l \in DOMAIN ok : l \in Nat /\ at[l] \in Nat /\ at[l] >= 1 /\ at[l] \in V
      /\ k \in Nat
  <2>1. \A l \in DOMAIN ok : l \in Nat
    BY <1>0
  <2>2. \A p \in DOMAIN reqs : p \in Nat /\ p >= 1
    OBVIOUS
  <2>3. \A l \in DOMAIN ok : at[l] \in V /\ at[l] \in DOMAIN reqs
    BY <1>2
  <2> QED
    BY <1>3, <2>1, <2>2, <2>3
<1> DEFINE A == Entries(mf)
           B == {[seq |-> mf.head + l, req |-> reqs[l]] : l \in {p \in V : p < k}}
           C == Numbered(ok, s, i)
           ref == RefOf[ok[i]]
           v == OldOf[ok[i]]
<1>5. Finds(A \cup B, ref, v)
  BY <1>1, <1>3 DEF Verified
\* The two ways to number the requests before this one.
<1>6. \A l \in DOMAIN ok : l < i => [seq |-> mf.head + at[l], req |-> ok[l]] \in B
  <2> SUFFICES ASSUME NEW l \in DOMAIN ok, l < i PROVE [seq |-> mf.head + at[l], req |-> ok[l]] \in B
    OBVIOUS
  <2>1. at[l] < k /\ at[l] \in V /\ ok[l] = reqs[at[l]]
    BY <1>2, <1>3, <1>4
  <2> QED
    BY <2>1
<1>7. \A e \in B : \E l \in DOMAIN ok : l < i /\ e = [seq |-> mf.head + at[l], req |-> ok[l]]
  <2> SUFFICES ASSUME NEW p \in V, p < k
               PROVE  \E l \in DOMAIN ok : l < i /\ [seq |-> mf.head + p, req |-> reqs[p]] = [seq |-> mf.head + at[l], req |-> ok[l]]
    OBVIOUS
  <2>1. PICK l \in DOMAIN ok : at[l] = p
    BY <1>2
  <2>2. ok[l] = reqs[p]
    BY <1>2, <2>1
  <2>3. l < i
    <3>1. ~(i < l) /\ l # i
      BY <1>2, <1>3, <1>4, <2>1
    <3> QED
      BY <1>4, <3>1
  <2> QED
    BY <2>1, <2>2, <2>3
<1>8. /\ \A l \in DOMAIN ok : l < i => [seq |-> s + l - 1, req |-> ok[l]] \in C
      /\ \A e \in C : \E l \in DOMAIN ok : l < i /\ e = [seq |-> s + l - 1, req |-> ok[l]]
  BY DEF Numbered
<1>9. \A e \in A : e.seq \in Nat /\ e.seq <= mf.head
  BY EntryTypes
<1> HIDE DEF A, B, C, ref, v
<1>10. CASE v = 0 /\ \A e \in A \cup B : RefOf[e.req] # ref
  <2>1. ASSUME NEW e \in C PROVE RefOf[e.req] # ref
    <3>1. PICK l \in DOMAIN ok : l < i /\ e = [seq |-> s + l - 1, req |-> ok[l]]
      BY <1>8, <2>1
    <3>2. [seq |-> mf.head + at[l], req |-> ok[l]] \in A \cup B
      BY <1>6, <3>1
    <3> QED
      BY <1>10, <3>1, <3>2
  <2>2. Finds(A \cup C, ref, v)
    BY <1>10, <2>1 DEF Finds
  <2> QED
    BY <2>2 DEF A, C, ref, v
<1>11. ASSUME NEW e \in A \cup B, e.req = v, RefOf[v] = ref,
              \A f \in A \cup B : RefOf[f.req] = ref => f.seq <= e.seq
       PROVE  Finds(A \cup C, ref, v)
  <2>1. CASE e \in A
    <3>1. ASSUME NEW f \in C PROVE RefOf[f.req] # ref
      <4>1. PICK l \in DOMAIN ok : l < i /\ f = [seq |-> s + l - 1, req |-> ok[l]]
        BY <1>8, <3>1
      <4>2. PICK g \in B : g = [seq |-> mf.head + at[l], req |-> ok[l]]
        BY <1>6, <4>1
      <4>3. e.seq \in Nat /\ e.seq <= mf.head /\ at[l] \in Nat /\ at[l] >= 1
        BY <1>4, <1>9, <2>1
      <4>4. ~(mf.head + at[l] <= e.seq)
        BY <1>0, <4>3
      <4>5. RefOf[g.req] # ref
        BY <1>11, <4>2, <4>4
      <4> QED
        BY <4>1, <4>2, <4>5
    <3> QED
      BY <1>11, <2>1, <3>1 DEF Finds
  <2>2. CASE e \in B
    <3>1. PICK m \in DOMAIN ok : m < i /\ e = [seq |-> mf.head + at[m], req |-> ok[m]]
      BY <1>7, <2>2
    <3>2. PICK d \in C : d = [seq |-> s + m - 1, req |-> ok[m]]
      BY <1>8, <3>1
    <3>3. d.req = v /\ d.seq = s + m - 1 /\ m \in Nat /\ m >= 1
      <4>1. m >= 1 /\ m \in Nat
        BY <1>0
      <4> QED
        BY <1>11, <3>1, <3>2, <4>1
    <3>4. ASSUME NEW f \in A PROVE f.seq <= d.seq
      <4>1. f.seq \in Nat /\ f.seq <= mf.head
        BY <1>9, <3>4
      <4> QED
        BY <1>0, <3>3, <4>1
    <3>5. ASSUME NEW f \in C, RefOf[f.req] = ref PROVE f.seq <= d.seq
      <4>1. PICK p \in DOMAIN ok : p < i /\ f = [seq |-> s + p - 1, req |-> ok[p]]
        BY <1>8, <3>5
      <4>2. PICK g \in B : g = [seq |-> mf.head + at[p], req |-> ok[p]]
        BY <1>6, <4>1
      <4>3. g.seq <= e.seq
        BY <1>11, <3>5, <4>1, <4>2
      <4>4. at[p] \in Nat /\ at[m] \in Nat /\ p \in Nat /\ m \in Nat
        BY <1>4
      <4>5. at[p] <= at[m]
        BY <1>0, <3>1, <4>2, <4>3, <4>4
      <4>6. ~(m < p)
        BY <1>2, <4>4, <4>5
      <4>7. s + p - 1 <= s + m - 1
        BY <4>4, <4>6
      <4> QED
        BY <3>3, <4>1, <4>7
    <3> QED
      BY <1>11, <3>2, <3>3, <3>4, <3>5 DEF Finds
  <2> QED
    BY <1>11, <2>1, <2>2
<1>12. Finds(A \cup C, ref, v)
  BY <1>5, <1>10, <1>11 DEF Finds, A, C, ref, v
<1> QED
  BY <1>12 DEF A, C, ref, v

\* The last seq of a segment that starts at s.
LEMMA LastOf ==
    ASSUME NEW s \in Nat, NEW ok \in Seq(Requests), NEW push \in BOOLEAN, push => ok # <<>>, ~push => Len(ok) = 0,
           NEW last, last = IF push THEN s + Len(ok) - 1 ELSE s
    PROVE  last \in Nat /\ s <= last /\ \A k \in DOMAIN ok : s + k - 1 <= last
<1>1. DOMAIN ok = 1 .. Len(ok) /\ Len(ok) \in Nat /\ (ok # <<>> => Len(ok) >= 1)
  OBVIOUS
<1>2. CASE push
  <2>1. Len(ok) >= 1 /\ last = s + Len(ok) - 1
    BY <1>1, <1>2
  <2>2. \A k \in 1 .. Len(ok) : s + k - 1 <= s + Len(ok) - 1
    BY <1>1
  <2> QED
    BY <1>1, <2>1, <2>2
<1>3. CASE ~push
  <2>1. last = s /\ DOMAIN ok = {}
    BY <1>1, <1>3
  <2> QED
    BY <2>1
<1> QED
  BY <1>2, <1>3

LEMMA ClaimSlotStep ==
    ASSUME WInv, NEW h \in Hosts, NEW j \in Jobs, ClaimSlot(h, j)
    PROVE  WInv'
<1>0. WTypes /\ LogInv /\ Sound(job[h][j], h, j) /\ job[h][j] \in WJobs /\ SlotsApart
  BY DEF WInv, WTypes
<1>1. PICK b \in WJobs : b = job[h][j]
  BY <1>0
<1>2. b.pc = "claim" /\ mf.head = b.man.head /\ UNCHANGED <<mf, side, hman, effective, answer>>
  BY <1>1 DEF ClaimSlot
<1>a. PICK ok \in Valid(b.man, b.reqs), s \in b.man.head + 1 .. MaxLog : WriteSegment(h, j, ok, s)
  BY <1>1 DEF ClaimSlot
<1>3. /\ b.kind = "push" => ok # <<>>
      /\ s \notin DOMAIN seg
      /\ seg' = [k \in DOMAIN seg \cup {s} |->
                    IF k = s THEN [reqs |-> ok, last |-> IF b.kind = "push" THEN s + Len(ok) - 1 ELSE s,
                                   kind |-> b.kind, arg |-> b.arg, sup |-> b.sup]
                    ELSE seg[k]]
      /\ job' = [job EXCEPT ![h][j].pc = "cas", ![h][j].slot = s, ![h][j].ok = ok]
  BY <1>1, <1>a DEF WriteSegment
<1>4. PICK last : last = IF b.kind = "push" THEN s + Len(ok) - 1 ELSE s
  OBVIOUS
<1>5. PICK g : g = [reqs |-> ok, last |-> last, kind |-> b.kind, arg |-> b.arg, sup |-> b.sup]
  OBVIOUS
<1>6. PICK q : q = [b EXCEPT !.pc = "cas", !.slot = s, !.ok = ok]
  OBVIOUS
<1>7. b.man.head \in Nat /\ s \in Nat /\ s > b.man.head /\ s \in 1 .. MaxLog
  <2>1. b.man.head \in Nat
    BY DEF WJobs, WMans
  <2> QED
    BY <2>1, WritersAssumption
<1>8. Kinds(b, j) /\ Waiting(b, h) /\ Known(b.man) /\ b.reqs \in Seq(Requests)
  BY <1>0, <1>1, <1>2 DEF Sound, Live, WJobs
<1>9. ok \in Seq(Requests) /\ SeqSet(ok) \subseteq SeqSet(b.reqs) /\ (Len(b.reqs) = 0 => Len(ok) = 0)
  BY <1>8, ValidForm
<1>10. b.kind \in OtherKinds \cup {"push"} /\ b.kind # "annotate" /\ (b.kind # "push" => Len(ok) = 0 /\ Len(b.reqs) = 0)
  BY <1>2, <1>8, <1>9 DEF Kinds
<1>11. last \in Nat /\ s <= last /\ \A k \in DOMAIN ok : s + k - 1 <= last
  BY <1>3, <1>4, <1>7, <1>9, <1>10, LastOf
<1>12. g \in WSegs /\ g.reqs = ok /\ g.last = last /\ g.kind = b.kind /\ g.arg = b.arg /\ g.sup = b.sup
  <2>1. b.arg \in Args /\ b.sup \in SUBSET Args
    BY DEF WJobs
  <2> QED
    BY <1>5, <1>9, <1>10, <1>11, <2>1 DEF WSegs
<1>13. seg' = [k \in DOMAIN seg \cup {s} |-> IF k = s THEN g ELSE seg[k]]
  BY <1>3, <1>4, <1>5
<1>14. DOMAIN seg' = DOMAIN seg \cup {s} /\ seg'[s] = g /\ \A k \in DOMAIN seg : seg'[k] = seg[k]
  BY <1>3, <1>13
<1>15. Beside /\ side \subseteq side' /\ s \notin mf.segs
  BY <1>0, <1>2, <1>3, <1>14 DEF Beside, LogInv
<1>16. DOMAIN seg' \subseteq 1 .. MaxLog /\ \A k \in DOMAIN seg' : seg'[k] \in WSegs
  BY <1>0, <1>7, <1>12, <1>14 DEF WTypes
<1>17. LogInv'
  <2>1. \A k \in DOMAIN seg' : k = s \/ k \in DOMAIN seg
    BY <1>14
  <2>2. \A k \in DOMAIN seg' : k <= seg'[k].last /\ \A l \in DOMAIN seg'[k].reqs : k + l - 1 <= seg'[k].last
    BY <1>0, <1>11, <1>12, <1>14, <2>1 DEF LogInv
  <2>3. mf'.segs \subseteq DOMAIN seg' /\ \A k \in mf'.segs : seg'[k].last <= mf'.head
    BY <1>0, <1>2, <1>14 DEF LogInv
  <2> QED
    BY <2>2, <2>3 DEF LogInv
<1>18. Puts(h, j, q)
  BY <1>0, <1>1, <1>3, <1>6 DEF WTypes, WJobs, Puts
<1>19. /\ q \in WJobs /\ q.pc = "cas" /\ q.slot = s /\ q.ok = ok /\ q.man = b.man /\ q.kind = b.kind /\ q.reqs = b.reqs
       /\ q.arg = b.arg /\ q.sup = b.sup
  BY <1>6, <1>7, <1>9 DEF WJobs
<1>20. Kinds(q, j)' /\ Waiting(q, h)' /\ Chosen(q)'
  <2>1. Kinds(q, j)' /\ Waiting(q, h)'
    BY <1>2, <1>8, <1>9, <1>10, <1>19 DEF Kinds, Waiting
  <2>2. \A k, l \in DOMAIN b.reqs : b.reqs[k] = b.reqs[l] => k = l
    BY <1>2, <1>8 DEF Waiting
  <2>3. \A k, l \in DOMAIN ok : ok[k] = ok[l] => k = l
    BY <1>8, <2>2, ValidApart
  <2> QED
    BY <1>9, <1>19, <2>1, <2>3 DEF Chosen
<1>21. q.man.rev = mf.rev => SerialOn(q)'
  <2> SUFFICES ASSUME q.man.rev = mf.rev PROVE SerialOn(q)'
    OBVIOUS
  <2>1. b.man = mf
    BY <1>8, <1>19 DEF Known, Old
  <2>2. \A i \in DOMAIN ok : Finds(Entries(mf) \cup Numbered(ok, s, i), RefOf[ok[i]], OldOf[ok[i]])
    BY <1>0, <1>7, <1>8, <2>1, SerialFrom
  <2>3. Entries(mf)' = Entries(mf)
    BY <1>15, BesideLog
  <2> QED
    BY <1>19, <2>2, <2>3 DEF SerialOn
<1>22. Claimed(q)' /\ Known(q.man)'
  <2>1. Known(q.man)'
    BY <1>8, <1>15, <1>19, BesideLog
  <2>2. (q.man.rev = mf.rev => SerialOn(q))'
    BY <1>2, <1>21
  <2> QED
    BY <1>2, <1>7, <1>12, <1>14, <1>15, <1>19, <2>1, <2>2 DEF Claimed
<1>23. Sound(q, h, j)'
  BY <1>10, <1>19, <1>20, <1>22 DEF Sound, Holding
<1>24. \A f \in Hosts : \A i \in Jobs : Holding(job[f][i]) => job[f][i].slot \in DOMAIN seg
  BY DEF WInv, Sound, Claimed
<1>25. BatchAnswers' /\ Untold'
  BY <1>1, <1>2, <1>15, <1>18, <1>19, LoseTurn
<1>26. Promises(h, j, q)
  <2>1. \A f \in Hosts : KnownDoc(effective'[f]) /\ Known(hman'[f])
    BY <1>2, DocsRest
  <2>2. hman' \in [Hosts -> WMans] /\ effective' \in [Hosts -> Docs] /\ answer' \in [Requests -> WAnswers]
    BY <1>0, <1>2 DEF WTypes
  <2>3. \A f \in Hosts : \A i \in Jobs : Holding(job[f][i]) =>
            /\ job[f][i].slot \in DOMAIN seg' /\ seg'[job[f][i].slot] = seg[job[f][i].slot]
            /\ job[f][i].slot # q.slot
    BY <1>3, <1>14, <1>19, <1>24
  <2> QED
    BY <1>2, <1>15, <1>16, <1>17, <1>25, <2>1, <2>2, <2>3 DEF Promises
<1> QED
  BY <1>18, <1>19, <1>23, <1>26, JobTurn

-----------------------------------------------------------------------------
(* The CAS: what was read is replaced by what was built from it. *)

\* The manifest that each kind of writer makes of m.
BuiltOn(m, b, w) ==
    /\ w \in WMans /\ w.rev = m.rev + 1
    /\ b.kind = "annotate" => /\ w.head = m.head /\ w.segs = m.segs /\ w.packs = m.packs /\ w.set = m.set
                              /\ w.bitmap = m.bitmap \cup {b.arg}
    /\ b.kind # "annotate" => w.head = seg[b.slot].last /\ w.segs = m.segs \cup {b.slot}
    /\ b.kind = "push" => /\ w.packs = m.packs \cup {PackOf[r] : r \in SeqSet(b.ok)}
                          /\ w.bitmap = m.bitmap /\ w.set = m.set
    /\ b.kind = "settings" => /\ w.packs = m.packs /\ w.bitmap = m.bitmap
                              /\ w.set = [rev |-> m.set.rev + 1, toml |-> b.arg]
    /\ b.kind \in {"compact", "add"} => /\ w.packs = (m.packs \ b.sup) \cup {b.arg} /\ w.set = m.set
                                        /\ w.bitmap = m.bitmap \ (b.sup \cup {b.arg})

LEMMA UpdatedForm ==
    ASSUME WTypes, NEW b \in WJobs, b.kind \in OtherKinds \cup {"push"},
           b.kind # "annotate" => b.slot \in DOMAIN seg
    PROVE  BuiltOn(b.man, b, Updated(b))
<1>1. PICK m \in WMans : m = b.man
  BY DEF WJobs
<1>2. PICK base : base = [m EXCEPT !.rev = @ + 1]
  OBVIOUS
<1>3. /\ base \in WMans /\ base.rev = m.rev + 1 /\ base.head = m.head /\ base.segs = m.segs /\ base.packs = m.packs
      /\ base.set = m.set /\ base.bitmap = m.bitmap
  BY <1>2 DEF WMans
<1>4. b.arg \in Args /\ b.sup \in SUBSET Args /\ b.ok \in Seq(Requests)
  BY DEF WJobs
<1>5. {PackOf[r] : r \in SeqSet(b.ok)} \in SUBSET Args
  <2>1. SeqSet(b.ok) \subseteq Requests
    BY <1>4 DEF SeqSet
  <2> QED
    BY <2>1 DEF Args
<1>6. CASE b.kind = "annotate"
  <2>1. Updated(b) = [base EXCEPT !.bitmap = @ \cup {b.arg}]
    BY <1>1, <1>2, <1>6 DEF Updated
  <2>2. base.bitmap \cup {b.arg} \in SUBSET Args
    BY <1>3, <1>4 DEF WMans
  <2>3. PICK w : w = Updated(b)
    OBVIOUS
  <2>4. /\ w \in WMans /\ w.rev = base.rev /\ w.head = base.head /\ w.segs = base.segs /\ w.packs = base.packs
        /\ w.set = base.set /\ w.bitmap = base.bitmap \cup {b.arg}
    BY <1>3, <2>1, <2>2, <2>3 DEF WMans
  <2> QED
    BY <1>1, <1>3, <1>6, <2>3, <2>4 DEF BuiltOn
<1>7. CASE b.kind # "annotate"
  <2>0. PICK n \in Nat : n = seg[b.slot].last
    BY <1>7 DEF WTypes, WSegs
  <2>a. PICK c : c = m.segs \cup {b.slot}
    OBVIOUS
  <2>1. n = seg[b.slot].last /\ c = m.segs \cup {b.slot}
    BY <2>0, <2>a
  <2>2. c \in SUBSET (1 .. MaxLog)
    BY <1>1, <1>7, <2>1 DEF WTypes, WMans
  <2>3. PICK sl : sl = [base EXCEPT !.head = n, !.segs = c]
    OBVIOUS
  <2>4. /\ sl \in WMans /\ sl.rev = m.rev + 1 /\ sl.head = n /\ sl.segs = c /\ sl.packs = m.packs
        /\ sl.set = m.set /\ sl.bitmap = m.bitmap
    BY <1>3, <2>2, <2>3 DEF WMans
  <2>5. sl = [base EXCEPT !.head = seg[b.slot].last, !.segs = @ \cup {b.slot}]
    BY <1>3, <2>1, <2>3
  <2>6. PICK w : w = Updated(b)
    OBVIOUS
  <2>7. CASE b.kind = "push"
    <3>1. w = [sl EXCEPT !.packs = @ \cup {PackOf[r] : r \in SeqSet(b.ok)}]
      BY <1>1, <1>2, <2>5, <2>6, <2>7 DEF Updated
    <3>2. m.packs \cup {PackOf[r] : r \in SeqSet(b.ok)} \in SUBSET Args
      BY <1>1, <1>5 DEF WMans
    <3>3. /\ w \in WMans /\ w.rev = m.rev + 1 /\ w.head = n /\ w.segs = c /\ w.bitmap = m.bitmap /\ w.set = m.set
          /\ w.packs = m.packs \cup {PackOf[r] : r \in SeqSet(b.ok)}
      BY <2>4, <3>1, <3>2 DEF WMans
    <3> QED
      BY <1>1, <2>1, <2>6, <2>7, <3>3 DEF BuiltOn
  <2>8. CASE b.kind = "settings"
    <3>1. w = [sl EXCEPT !.set = [rev |-> @.rev + 1, toml |-> b.arg]]
      BY <1>1, <1>2, <2>5, <2>6, <2>8 DEF Updated
    <3>2. [rev |-> m.set.rev + 1, toml |-> b.arg] \in Docs
      BY <1>1, <1>4 DEF WMans, Docs
    <3>3. /\ w \in WMans /\ w.rev = m.rev + 1 /\ w.head = n /\ w.segs = c /\ w.bitmap = m.bitmap
          /\ w.set = [rev |-> m.set.rev + 1, toml |-> b.arg] /\ w.packs = m.packs
      BY <2>4, <3>1, <3>2 DEF WMans
    <3> QED
      BY <1>1, <2>1, <2>6, <2>8, <3>3 DEF BuiltOn
  <2>9. CASE b.kind \in {"compact", "add"}
    <3>1. w = [sl EXCEPT !.packs = (@ \ b.sup) \cup {b.arg}, !.bitmap = @ \ (b.sup \cup {b.arg})]
      BY <1>1, <1>2, <2>5, <2>6, <2>9 DEF Updated
    <3>2. (m.packs \ b.sup) \cup {b.arg} \in SUBSET Args /\ m.bitmap \ (b.sup \cup {b.arg}) \in SUBSET Args
      BY <1>1, <1>4 DEF WMans
    <3>3. /\ w \in WMans /\ w.rev = m.rev + 1 /\ w.head = n /\ w.segs = c /\ w.set = m.set
          /\ w.packs = (m.packs \ b.sup) \cup {b.arg} /\ w.bitmap = m.bitmap \ (b.sup \cup {b.arg})
      BY <2>4, <3>1, <3>2 DEF WMans
    <3> QED
      BY <1>1, <2>1, <2>6, <2>9, <3>3 DEF BuiltOn
  <2> QED
    BY <1>7, <2>7, <2>8, <2>9 DEF OtherKinds
<1> QED
  BY <1>6, <1>7

\* A manifest that a lasting segment is added to: the log goes on behind its head.
Appends(s, ok) ==
    /\ seg' = seg /\ s \in DOMAIN seg /\ s \notin mf.segs /\ seg[s].reqs = ok
    /\ mf'.segs = mf.segs \cup {s} /\ s > mf.head

LEMMA AppendLog ==
    ASSUME NEW s, NEW ok, Appends(s, ok)
    PROVE  \A e : e \in Entries(mf)' <=> \/ e \in Entries(mf)
                                         \/ \E i \in DOMAIN ok : e = [seq |-> s + i - 1, req |-> ok[i]]
<1>1. ASSUME NEW e
      PROVE  e \in Entries(mf)' <=> \E t \in mf'.segs : \E k \in DOMAIN seg[t].reqs :
                                        e = [seq |-> t + k - 1, req |-> seg[t].reqs[k]]
  BY DEF Entries, Appends
<1> QED
  BY <1>1, EntryForm DEF Appends

\* What the manifest lists lies behind its head.
LEMMA BehindHead ==
    ASSUME WTypes, LogInv, NEW t \in mf.segs
    PROVE  t \in Nat /\ t <= mf.head /\ mf.head \in Nat /\ t \in DOMAIN seg
<1>1. t \in DOMAIN seg /\ t \in 1 .. MaxLog /\ mf.head \in Nat /\ t <= seg[t].last /\ seg[t].last <= mf.head
  BY DEF WTypes, LogInv, WMans
<1>2. seg[t].last \in Nat
  BY <1>1 DEF WTypes, WSegs
<1>3. t \in Nat
  BY <1>1, WritersAssumption
<1> QED
  BY <1>1, <1>2, <1>3

LEMMA DocsFinite ==
    ASSUME WTypes
    PROVE  IsFiniteSet(SetSegs) /\ Cardinality(SetSegs) \in Nat
<1>1. IsFiniteSet(1 .. MaxLog)
  BY WritersAssumption, FS_Interval
<1>2. SetSegs \subseteq 1 .. MaxLog
  BY DEF WTypes, WMans, SetSegs
<1>3. IsFiniteSet(SetSegs)
  BY <1>1, <1>2, FS_Subset
<1> QED
  BY <1>3, FS_CardinalityType

\* A document of the log keeps its place as the log grows.
LEMMA DocGrows ==
    ASSUME WTypes, LogInv, seg' = seg, NEW s \in Nat, s > mf.head, SetSegs' = SetSegs \/ SetSegs' = SetSegs \cup {s},
           NEW d, KnownDoc(d)
    PROVE  KnownDoc(d)'
<1>1. CASE d = NoSettings
  BY <1>1 DEF KnownDoc
<1>2. ASSUME NEW t \in SetSegs, d.toml = seg[t].arg, d.rev = Cardinality(SetsTo(t))
      PROVE  KnownDoc(d)'
  <2>1. t \in mf.segs /\ t \in Nat /\ t <= mf.head /\ mf.head \in Nat
    BY <1>2, BehindHead DEF SetSegs
  <2>2. ~(s <= t)
    BY <2>1
  <2>3. SetsTo(t)' = SetsTo(t)
    BY <2>2 DEF SetsTo
  <2> QED
    BY <1>2, <2>3 DEF KnownDoc
<1> QED
  BY <1>1, <1>2 DEF KnownDoc

\* The next document is the next revision.
LEMMA NextDoc ==
    ASSUME WTypes, LogInv, seg' = seg, NEW s \in Nat, s > mf.head, s \notin mf.segs, SetSegs' = SetSegs \cup {s},
           mf.set.rev = Cardinality(SetSegs), NEW d, d = [rev |-> mf.set.rev + 1, toml |-> seg[s].arg]
    PROVE  KnownDoc(d)' /\ d.rev = Cardinality(SetSegs)'
<1>1. IsFiniteSet(SetSegs) /\ s \notin SetSegs
  BY DocsFinite DEF SetSegs
<1>2. Cardinality(SetSegs \cup {s}) = Cardinality(SetSegs) + 1
  BY <1>1, FS_AddElement
<1>3. ASSUME NEW t \in SetSegs PROVE t <= s
  <2>1. t \in Nat /\ t <= mf.head /\ mf.head \in Nat
    BY <1>3, BehindHead DEF SetSegs
  <2> QED
    BY <2>1
<1>4. s <= s
  OBVIOUS
<1>5. SetsTo(s)' = SetSegs'
  BY <1>3, <1>4 DEF SetsTo
<1>6. d.rev = Cardinality(SetSegs)' /\ d.toml = seg'[s].arg /\ s \in SetSegs'
  BY <1>2
<1> QED
  BY <1>5, <1>6 DEF KnownDoc

\* A writer b of h has won its CAS.
Won(h, j, b, q) ==
    /\ b = job[h][j] /\ b.pc = "cas" /\ b.man = mf /\ Sound(b, h, j) /\ b.kind \in OtherKinds \cup {"push"}
    /\ BuiltOn(mf, b, mf') /\ seg' = seg /\ UNCHANGED <<side, hman, effective, answer>>
    /\ b.kind # "annotate" => Claimed(b) /\ Appends(b.slot, b.ok)
    /\ b.kind = "annotate" => b.arg \in mf.packs /\ DOMAIN b.ok = {}
    /\ Puts(h, j, q) /\ q.pc = "local" /\ q.kind = b.kind /\ q.reqs = b.reqs /\ q.ok = b.ok
    /\ q.man = mf' /\ q.slot = b.slot

LEMMA WonForm ==
    ASSUME WInv, NEW h \in Hosts, NEW j \in Jobs, CasWins(h, j)
    PROVE  \E b, q \in WJobs : Won(h, j, b, q)
<1>0. WTypes /\ LogInv /\ Sound(job[h][j], h, j) /\ job[h][j] \in WJobs
  BY DEF WInv, WTypes
<1>1. PICK b \in WJobs : b = job[h][j]
  BY <1>0
<1>2. /\ b.pc = "cas" /\ mf.rev = b.man.rev /\ mf' = Updated(b) /\ UNCHANGED <<seg, side, hman, effective, answer>>
      /\ b.kind = "annotate" => b.arg \in b.man.packs
      /\ job' = [job EXCEPT ![h][j].pc = "local", ![h][j].man = mf']
  BY <1>1 DEF CasWins
<1>3. b.man = mf /\ b.kind \in OtherKinds \cup {"push"} /\ Sound(b, h, j)
  BY <1>0, <1>1, <1>2 DEF Sound, Live, Known, Old, Kinds
<1>4. b.kind # "annotate" => Claimed(b)
  BY <1>2, <1>3 DEF Sound, Holding
<1>5. BuiltOn(mf, b, mf')
  <2>1. b.kind # "annotate" => b.slot \in DOMAIN seg
    BY <1>4 DEF Claimed
  <2> QED
    BY <1>0, <1>2, <1>3, <2>1, UpdatedForm
<1>6. b.kind # "annotate" => Appends(b.slot, b.ok)
  BY <1>2, <1>3, <1>4, <1>5 DEF Appends, Claimed, BuiltOn
<1>7. PICK w \in WMans : w = mf'
  BY <1>5 DEF BuiltOn
<1>8. PICK q : q = [b EXCEPT !.pc = "local", !.man = w]
  OBVIOUS
<1>9. /\ q \in WJobs /\ q.pc = "local" /\ q.kind = b.kind /\ q.reqs = b.reqs /\ q.ok = b.ok /\ q.man = w
      /\ q.slot = b.slot
  BY <1>8 DEF WJobs
<1>10. Puts(h, j, q)
  BY <1>0, <1>1, <1>2, <1>7, <1>8 DEF WTypes, WJobs, Puts
<1>11. b.kind = "annotate" => DOMAIN b.ok = {}
  <2> SUFFICES ASSUME b.kind = "annotate" PROVE DOMAIN b.ok = {}
    OBVIOUS
  <2>1. Len(b.ok) = 0
    BY <1>2, <1>3 DEF Sound, Kinds
  <2>2. b.ok \in Seq(Requests)
    BY DEF WJobs
  <2> QED
    BY <2>1, <2>2
<1>12. Won(h, j, b, q)
  BY <1>1, <1>2, <1>3, <1>4, <1>5, <1>6, <1>7, <1>9, <1>10, <1>11 DEF Won
<1> QED
  BY <1>9, <1>12

LEMMA WonLog ==
    ASSUME NEW h, NEW j, NEW b \in WJobs, NEW q \in WJobs, Won(h, j, b, q)
    PROVE  \A e : e \in Entries(mf)' <=> \/ e \in Entries(mf)
                                         \/ \E i \in DOMAIN b.ok : e = [seq |-> b.slot + i - 1, req |-> b.ok[i]]
<1>1. CASE b.kind = "annotate"
  <2>1. mf'.segs = mf.segs /\ seg' = seg /\ DOMAIN b.ok = {}
    BY <1>1 DEF Won, BuiltOn
  <2>2. Entries(mf)' = Entries(mf)
    BY <2>1 DEF Entries
  <2> QED
    BY <2>1, <2>2
<1>2. CASE b.kind # "annotate"
  <2>1. Appends(b.slot, b.ok)
    BY <1>2 DEF Won
  <2> QED
    BY <2>1, AppendLog
<1> QED
  BY <1>1, <1>2

\* What the numbers are.
LEMMA WonNumbers ==
    ASSUME WTypes, NEW h, NEW j, NEW b \in WJobs, NEW q \in WJobs, Won(h, j, b, q)
    PROVE  /\ mf.head \in Nat /\ mf.rev \in Nat /\ b.slot \in Nat /\ b.ok \in Seq(Requests)
           /\ mf'.rev = mf.rev + 1 /\ mf' \in WMans
           /\ \A i \in DOMAIN b.ok : i \in Nat /\ i >= 1 /\ b.ok[i] \in Requests
           /\ DOMAIN b.ok # {} => b.slot > mf.head /\ b.kind # "annotate"
<1>1. mf.head \in Nat /\ mf.rev \in Nat /\ b.slot \in Nat /\ b.ok \in Seq(Requests)
  BY DEF WTypes, WMans, WJobs
<1>2. \A i \in DOMAIN b.ok : i \in Nat /\ i >= 1 /\ b.ok[i] \in Requests
  BY <1>1
<1> QED
  BY <1>1, <1>2 DEF Won, Appends, BuiltOn

LEMMA WonTypes ==
    ASSUME WInv, NEW h \in Hosts, NEW j \in Jobs, NEW b \in WJobs, NEW q \in WJobs, Won(h, j, b, q)
    PROVE  WTypes' /\ LogInv'
<1>0. WTypes /\ LogInv
  BY DEF WInv
<1>1. job' \in [Hosts -> [Jobs -> WJobs]]
  BY <1>0, JobSet DEF Won
<1>2. WTypes'
  BY <1>0, <1>1 DEF WTypes, Won, BuiltOn
<1>3. /\ mf'.segs \subseteq DOMAIN seg' /\ \A s \in mf'.segs : seg'[s].last <= mf'.head
  <2>1. CASE b.kind = "annotate"
    BY <1>0, <2>1 DEF Won, BuiltOn, LogInv
  <2>2. CASE b.kind # "annotate"
    <3>1. /\ mf'.segs = mf.segs \cup {b.slot} /\ mf'.head = seg[b.slot].last /\ b.slot \in DOMAIN seg
          /\ b.slot > mf.head /\ seg' = seg
      BY <2>2 DEF Won, BuiltOn, Appends
    <3>2. b.slot <= seg[b.slot].last /\ seg[b.slot].last \in Nat /\ b.slot \in Nat /\ mf.head \in Nat
      BY <1>0, <3>1 DEF LogInv, WTypes, WSegs, WMans, WJobs
    <3>3. ASSUME NEW s \in mf.segs PROVE seg[s].last <= seg[b.slot].last /\ s \in DOMAIN seg
      <4>1. seg[s].last <= mf.head /\ seg[s].last \in Nat /\ s \in DOMAIN seg
        BY <1>0, <3>3 DEF LogInv, WTypes, WSegs
      <4> QED
        BY <3>1, <3>2, <4>1
    <3>4. seg[b.slot].last <= seg[b.slot].last
      BY <3>2
    <3> QED
      BY <3>1, <3>3, <3>4
  <2> QED
    BY <2>1, <2>2
<1>4. seg' = seg
  BY DEF Won
<1> QED
  BY <1>0, <1>2, <1>3, <1>4 DEF LogInv

\* Documents that stay known make manifests that stay known.
LEMMA WonKnows ==
    ASSUME WInv, NEW h \in Hosts, NEW j \in Jobs, NEW b \in WJobs, NEW q \in WJobs, Won(h, j, b, q),
           \A d : KnownDoc(d) => KnownDoc(d)', KnownDoc(mf.set)', (mf.set.rev = Cardinality(SetSegs))'
    PROVE  DocInv' /\ (\A m : m \in WMans /\ Known(m) => Known(m)' /\ m.rev < mf'.rev) /\ Known(mf)'
<1>0. WTypes /\ DocInv /\ UNCHANGED <<hman, effective>>
  BY DEF WInv, Won
<1>1. mf.rev \in Nat /\ mf'.rev = mf.rev + 1 /\ mf' \in WMans
  BY <1>0, WonNumbers
<1>2. ASSUME NEW m \in WMans, Known(m) PROVE Known(m)' /\ m.rev < mf'.rev
  <2>1. m.rev \in Nat /\ m.rev <= mf.rev
    BY <1>2 DEF WMans, Known, Old
  <2>2. m.rev < mf'.rev /\ m.rev <= mf'.rev /\ m.rev # mf'.rev
    BY <1>1, <2>1
  <2>3. KnownDoc(m.set)'
    BY <1>2 DEF Known
  <2> QED
    BY <2>2, <2>3 DEF Known, Old
<1>3. Known(mf)'
  <2>1. mf'.rev <= mf'.rev
    BY <1>1
  <2> QED
    BY <2>1 DEF Known, Old
<1>4. ASSUME NEW g \in Hosts PROVE KnownDoc(effective[g])' /\ Known(hman[g])'
  <2>1. PICK d \in Docs, m \in WMans : d = effective[g] /\ m = hman[g] /\ d = effective'[g] /\ m = hman'[g]
    BY <1>0, <1>4 DEF WTypes
  <2>2. KnownDoc(d)' /\ Known(m)'
    BY <1>0, <1>2, <1>4, <2>1 DEF DocInv
  <2> QED
    BY <2>1, <2>2 DEF KnownDoc, Known, Old
<1> QED
  BY <1>2, <1>3, <1>4 DEF DocInv

LEMMA WonDocs ==
    ASSUME WInv, NEW h \in Hosts, NEW j \in Jobs, NEW b \in WJobs, NEW q \in WJobs, Won(h, j, b, q)
    PROVE  DocInv' /\ (\A m : m \in WMans /\ Known(m) => Known(m)' /\ m.rev < mf'.rev) /\ Known(mf)'
<1>0. WTypes /\ LogInv /\ DocInv /\ seg' = seg
  BY DEF WInv, Won
<1>1. CASE b.kind = "annotate"
  <2>1. mf'.segs = mf.segs /\ mf'.set = mf.set
    BY <1>1 DEF Won, BuiltOn
  <2>2. SetSegs' = SetSegs
    BY <1>0, <2>1 DEF SetSegs
  <2>3. ASSUME NEW d PROVE KnownDoc(d)' = KnownDoc(d)
    BY <1>0, <2>2 DEF KnownDoc, SetsTo
  <2>4. \A d : KnownDoc(d) => KnownDoc(d)'
    BY <2>3
  <2>5. KnownDoc(mf.set)' /\ (mf.set.rev = Cardinality(SetSegs))'
    BY <1>0, <2>1, <2>2, <2>4 DEF DocInv, KnownDoc
  <2> QED
    BY <2>4, <2>5, WonKnows
<1>2. CASE b.kind # "annotate"
  <2>1. /\ b.slot \in Nat /\ b.slot > mf.head /\ b.slot \notin mf.segs /\ mf'.segs = mf.segs \cup {b.slot}
        /\ seg[b.slot].kind = b.kind /\ seg[b.slot].arg = b.arg
    BY <1>2 DEF Won, Appends, Claimed, WJobs
  <2>2. CASE b.kind = "settings"
    <3>1. SetSegs' = SetSegs \cup {b.slot}
      BY <1>0, <2>1, <2>2 DEF SetSegs
    <3>2. \A d : KnownDoc(d) => KnownDoc(d)'
      BY <1>0, <2>1, <3>1, DocGrows
    <3>3. PICK d : d = mf'.set
      OBVIOUS
    <3>4. d = [rev |-> mf.set.rev + 1, toml |-> seg[b.slot].arg]
      BY <2>1, <2>2, <3>3 DEF Won, BuiltOn
    <3>5. KnownDoc(d)' /\ d.rev = Cardinality(SetSegs)'
      BY <1>0, <2>1, <3>1, <3>4, NextDoc DEF DocInv
    <3>6. KnownDoc(mf.set)' /\ (mf.set.rev = Cardinality(SetSegs))'
      BY <3>3, <3>5 DEF KnownDoc
    <3> QED
      BY <3>2, <3>6, WonKnows
  <2>3. CASE b.kind # "settings"
    <3>1. SetSegs' = SetSegs
      BY <1>0, <2>1, <2>3 DEF SetSegs
    <3>2. \A d : KnownDoc(d) => KnownDoc(d)'
      BY <1>0, <2>1, <3>1, DocGrows
    <3>3. mf'.set = mf.set
      BY <1>2, <2>3 DEF Won, BuiltOn, OtherKinds
    <3>4. KnownDoc(mf.set)' /\ (mf.set.rev = Cardinality(SetSegs))'
      BY <1>0, <3>1, <3>2, <3>3 DEF DocInv, KnownDoc
    <3> QED
      BY <3>2, <3>4, WonKnows
  <2> QED
    BY <2>2, <2>3
<1> QED
  BY <1>1, <1>2

\* The writers beside the winner: what they hold is old now.
LEMMA WonBeside ==
    ASSUME WInv, NEW h \in Hosts, NEW j \in Jobs, NEW b \in WJobs, NEW q \in WJobs, Won(h, j, b, q),
           NEW g \in Hosts, NEW i \in Jobs, NEW c \in WJobs, c = job[g][i], Sound(c, g, i), g # h \/ i # j
    PROVE  Sound(c, g, i)'
<1>0. /\ Sound(c, g, i) /\ SlotsApart /\ seg' = seg /\ side' = side /\ answer' = answer /\ b.pc = "cas" /\ b = job[h][j]
  BY DEF WInv, Won
<1>1. Kinds(c, i)' /\ Waiting(c, g)' /\ Chosen(c)'
  BY <1>0 DEF Sound, Kinds, Waiting, Chosen
<1>2. c.man \in WMans
  BY DEF WJobs
<1>3. c.pc \in Live => Known(c.man)' /\ c.man.rev < mf'.rev
  BY <1>0, <1>2, WonDocs DEF Sound
<1>4. Holding(c) => Claimed(c)'
  <2> SUFFICES ASSUME Holding(c) PROVE Claimed(c)'
    OBVIOUS
  <2>1. Claimed(c)
    BY <1>0 DEF Sound
  <2>2. c.slot \notin mf'.segs
    <3>1. CASE b.kind = "annotate"
      BY <2>1, <3>1 DEF Won, BuiltOn, Claimed
    <3>2. CASE b.kind # "annotate"
      <4>1. c.slot # b.slot
        BY <1>0, <3>2 DEF SlotsApart, Holding
      <4> QED
        BY <2>1, <3>2, <4>1 DEF Won, BuiltOn, Claimed
    <3> QED
      BY <3>1, <3>2
  <2>3. c.man.rev # mf'.rev
    <3>1. c.man.rev < mf'.rev
      BY <1>3 DEF Holding, Live
    <3>2. c.man.rev \in Nat
      BY <1>2 DEF WMans
    <3>3. mf'.rev \in Nat
      <4>1. WTypes'
        BY WonTypes
      <4> QED
        BY <4>1 DEF WTypes, WMans
    <3> QED
      BY <3>1, <3>2, <3>3
  <2> QED
    BY <1>0, <2>1, <2>2, <2>3 DEF Claimed
<1>5. c.pc = "local" => \A k \in DOMAIN c.ok : ([seq |-> c.slot + k - 1, req |-> c.ok[k]] \in Entries(mf))'
  BY <1>0, WonLog DEF Sound
<1> QED
  BY <1>0, <1>1, <1>3, <1>4, <1>5 DEF Sound, Holding

LEMMA WonSound ==
    ASSUME WInv, NEW h \in Hosts, NEW j \in Jobs, NEW b \in WJobs, NEW q \in WJobs, Won(h, j, b, q)
    PROVE  SlotsApart' /\ \A g \in Hosts : \A i \in Jobs : Sound(job[g][i], g, i)'
<1>0. WTypes /\ SlotsApart
  BY DEF WInv
<1>a. Puts(h, j, q)
  BY DEF Won
<1>1. /\ job'[h][j] = q
      /\ \A g \in Hosts : \A i \in Jobs : g # h \/ i # j => job'[g][i] = job[g][i]
  BY <1>0, <1>a, JobSet
<1>2. q.pc = "local" /\ q.kind = b.kind /\ q.reqs = b.reqs /\ q.ok = b.ok /\ q.man = mf' /\ q.slot = b.slot
  BY DEF Won
<1>3. ~Holding(q)
  BY <1>2 DEF Holding
<1>4. SlotsApart'
  <2> SUFFICES ASSUME NEW g \in Hosts, NEW f \in Hosts, NEW i \in Jobs, NEW k \in Jobs, g # f \/ i # k,
                      Holding(job'[g][i]), Holding(job'[f][k])
               PROVE  job'[g][i].slot # job'[f][k].slot
    BY DEF SlotsApart, Holding
  <2>1. (g # h \/ i # j) /\ (f # h \/ k # j)
    BY <1>1, <1>3
  <2> QED
    BY <1>0, <1>1, <2>1 DEF SlotsApart
<1>5. Sound(q, h, j)'
  <2>1. Sound(b, h, j) /\ answer' = answer /\ b.pc = "cas"
    BY DEF Won
  <2>2. Kinds(q, j)' /\ Waiting(q, h)' /\ Chosen(q)'
    BY <1>2, <2>1 DEF Sound, Kinds, Waiting, Chosen
  <2>3. Known(mf)'
    BY WonDocs
  <2>4. Known(q.man)'
    BY <1>2, <2>3 DEF Known, Old, KnownDoc
  <2>5. \A k \in DOMAIN q.ok : ([seq |-> q.slot + k - 1, req |-> q.ok[k]] \in Entries(mf))'
    BY <1>2, WonLog
  <2> QED
    BY <1>2, <1>3, <2>2, <2>4, <2>5 DEF Sound, Holding
<1>6. ASSUME NEW g \in Hosts, NEW i \in Jobs PROVE Sound(job[g][i], g, i)'
  <2>1. CASE g = h /\ i = j
    BY <1>1, <1>5, <2>1, SoundSame
  <2>2. CASE g # h \/ i # j
    <3>1. PICK c \in WJobs : c = job[g][i]
      BY <1>0, <1>6 DEF WTypes
    <3>2. Sound(c, g, i)
      BY <1>6, <3>1 DEF WInv
    <3>3. Sound(c, g, i)'
      BY <1>6, <2>2, <3>1, <3>2, WonBeside
    <3>4. job'[g][i] = c
      BY <1>1, <1>6, <2>2, <3>1
    <3> QED
      BY <3>3, <3>4, SoundSame
  <2> QED
    BY <2>1, <2>2
<1> QED
  BY <1>4, <1>6

\* The winner's requests are new in the log, each once, and about to be told.
LEMMA WonAnswers ==
    ASSUME WInv, NEW h \in Hosts, NEW j \in Jobs, NEW b \in WJobs, NEW q \in WJobs, Won(h, j, b, q)
    PROVE  BatchAnswers' /\ Untold'
<1>0. WTypes /\ LogInv /\ BatchAnswers /\ Untold /\ answer' = answer /\ Sound(b, h, j) /\ b.pc = "cas" /\ b = job[h][j]
  BY DEF WInv, Won
<1>a. Puts(h, j, q)
  BY DEF Won
<1>1. /\ job'[h][j] = q
      /\ \A g \in Hosts : \A i \in Jobs : g # h \/ i # j => job'[g][i] = job[g][i]
  BY <1>0, <1>a, JobSet
<1>2. \A e : e \in Entries(mf)' <=> \/ e \in Entries(mf)
                                    \/ \E i \in DOMAIN b.ok : e = [seq |-> b.slot + i - 1, req |-> b.ok[i]]
  BY WonLog
<1>3. ASSUME NEW i \in DOMAIN b.ok
      PROVE  /\ b.ok[i] \in Requests /\ j = "push" /\ HostOf[b.ok[i]] = h /\ answer[b.ok[i]].is = "none"
             /\ \A e \in Entries(mf) : e.req # b.ok[i]
  <2>1. b.ok[i] \in SeqSet(b.ok) /\ SeqSet(b.ok) \subseteq SeqSet(b.reqs)
    BY <1>0, <1>3 DEF Sound, Chosen, SeqSet
  <2>2. b.ok[i] \in Requests /\ j = "push" /\ HostOf[b.ok[i]] = h /\ answer[b.ok[i]].is = "none"
    BY <1>0, <2>1, OwnRequests
  <2>3. \A e \in Entries(mf) : e.req # b.ok[i]
    BY <1>0, <2>1, <2>2, NotInLog
  <2> QED
    BY <2>2, <2>3
<1>4. \A i, k \in DOMAIN b.ok : b.ok[i] = b.ok[k] => i = k
  BY <1>0 DEF Sound, Chosen
<1>5. BatchAnswers'
  <2>1. \A r \in Requests : answer'[r].is = "ok" => [seq |-> answer'[r].seq, req |-> r] \in Entries(mf)'
    BY <1>0, <1>2 DEF BatchAnswers
  <2>2. ASSUME NEW e \in Entries(mf)' PROVE answer'[e.req].is \notin {"conflict", "retry"}
    <3>1. CASE e \in Entries(mf)
      BY <1>0, <3>1 DEF BatchAnswers
    <3>2. ASSUME NEW i \in DOMAIN b.ok, e = [seq |-> b.slot + i - 1, req |-> b.ok[i]]
          PROVE  answer'[e.req].is \notin {"conflict", "retry"}
      <4>1. e.req = b.ok[i] /\ answer[b.ok[i]].is = "none"
        BY <1>3, <3>2
      <4> QED
        BY <1>0, <4>1
    <3> QED
      BY <1>2, <2>2, <3>1, <3>2
  <2>3. ASSUME NEW e \in Entries(mf)', NEW f \in Entries(mf)', e.req = f.req PROVE e = f
    <3>1. CASE e \in Entries(mf) /\ f \in Entries(mf)
      BY <1>0, <2>3, <3>1 DEF BatchAnswers
    <3>2. CASE e \in Entries(mf) /\ f \notin Entries(mf)
      BY <1>2, <1>3, <2>3, <3>2
    <3>3. CASE e \notin Entries(mf) /\ f \in Entries(mf)
      BY <1>2, <1>3, <2>3, <3>3
    <3>4. CASE e \notin Entries(mf) /\ f \notin Entries(mf)
      <4>1. PICK i \in DOMAIN b.ok : e = [seq |-> b.slot + i - 1, req |-> b.ok[i]]
        BY <1>2, <2>3, <3>4
      <4>2. PICK k \in DOMAIN b.ok : f = [seq |-> b.slot + k - 1, req |-> b.ok[k]]
        BY <1>2, <2>3, <3>4
      <4>3. i = k
        BY <1>4, <2>3, <4>1, <4>2
      <4> QED
        BY <4>1, <4>2, <4>3
    <3> QED
      BY <3>1, <3>2, <3>3, <3>4
  <2> QED
    BY <2>1, <2>2, <2>3 DEF BatchAnswers
<1>6. Untold'
  <2> SUFFICES ASSUME NEW e \in Entries(mf)', answer'[e.req].is = "none"
               PROVE  /\ job'[HostOf[e.req]]["push"].pc = "local"
                      /\ e.req \in SeqSet(job'[HostOf[e.req]]["push"].ok)
    BY DEF Untold, SeqSet
  <2>1. CASE e \in Entries(mf)
    <3>1. e.req \in Requests
      BY <1>0, <2>1, EntryTypes
    <3>2. PICK g \in Hosts : g = HostOf[e.req]
      BY <3>1, WritersAssumption
    <3>3. job[g]["push"].pc = "local" /\ e.req \in SeqSet(job[g]["push"].ok)
      BY <1>0, <2>1, <3>2 DEF Untold
    <3>4. job'[g]["push"] = job[g]["push"]
      BY <1>0, <1>1, <3>3 DEF Jobs
    <3> QED
      BY <3>2, <3>3, <3>4
  <2>2. CASE \E i \in DOMAIN b.ok : e = [seq |-> b.slot + i - 1, req |-> b.ok[i]]
    <3>1. PICK i \in DOMAIN b.ok : e.req = b.ok[i]
      BY <2>2
    <3>2. q.pc = "local" /\ q.ok = b.ok /\ b.ok[i] \in SeqSet(b.ok)
      BY DEF Won, SeqSet
    <3>3. j = "push" /\ HostOf[e.req] = h
      BY <1>3, <3>1
    <3>4. job'[HostOf[e.req]]["push"] = q
      BY <1>1, <3>3
    <3> QED
      BY <3>1, <3>2, <3>4
  <2> QED
    BY <1>2, <2>1, <2>2
<1> QED
  BY <1>5, <1>6

\* What a push expected is what the log before it says, old entries and new ones alike.
LEMMA WonSerial ==
    ASSUME WInv, NEW h \in Hosts, NEW j \in Jobs, NEW b \in WJobs, NEW q \in WJobs, Won(h, j, b, q)
    PROVE  BatchesSerial'
<1>0. WTypes /\ LogInv /\ BatchesSerial
  BY DEF WInv
<1>1. /\ mf.head \in Nat /\ b.slot \in Nat
      /\ \A i \in DOMAIN b.ok : i \in Nat /\ i >= 1
      /\ DOMAIN b.ok # {} => b.slot > mf.head /\ b.kind # "annotate"
  BY <1>0, WonNumbers
<1>2. \A e : e \in Entries(mf)' <=> \/ e \in Entries(mf)
                                    \/ \E i \in DOMAIN b.ok : e = [seq |-> b.slot + i - 1, req |-> b.ok[i]]
  BY WonLog
<1>3. \A e \in Entries(mf) : e.seq \in Nat /\ e.seq <= mf.head
  BY <1>0, EntryTypes
<1>4. ASSUME NEW i \in DOMAIN b.ok PROVE b.slot + i - 1 \in Nat /\ b.slot + i - 1 > mf.head
  BY <1>1, <1>4
<1>5. ASSUME NEW e \in Entries(mf)
      PROVE  Finds({f \in Entries(mf)' : f.seq < e.seq}, RefOf[e.req], OldOf[e.req])
  <2>1. ASSUME NEW i \in DOMAIN b.ok PROVE ~(b.slot + i - 1 < e.seq)
    <3>1. e.seq \in Nat /\ e.seq <= mf.head /\ b.slot + i - 1 \in Nat /\ b.slot + i - 1 > mf.head
      BY <1>3, <1>4, <1>5, <2>1
    <3> QED
      BY <1>1, <3>1
  <2>2. {f \in Entries(mf)' : f.seq < e.seq} = {f \in Entries(mf) : f.seq < e.seq}
    BY <1>2, <2>1
  <2>3. Finds({f \in Entries(mf) : f.seq < e.seq}, RefOf[e.req], OldOf[e.req])
    BY <1>0, <1>5 DEF BatchesSerial
  <2> QED
    BY <2>2, <2>3
<1>6. ASSUME NEW i \in DOMAIN b.ok
      PROVE  Finds({f \in Entries(mf)' : f.seq < b.slot + i - 1}, RefOf[b.ok[i]], OldOf[b.ok[i]])
  <2>1. \A e \in Entries(mf) : e.seq < b.slot + i - 1
    <3> SUFFICES ASSUME NEW e \in Entries(mf) PROVE e.seq < b.slot + i - 1
      OBVIOUS
    <3>1. e.seq \in Nat /\ e.seq <= mf.head /\ b.slot + i - 1 \in Nat /\ b.slot + i - 1 > mf.head
      BY <1>3, <1>4, <1>6
    <3> QED
      BY <1>1, <3>1
  <2>2. ASSUME NEW l \in DOMAIN b.ok PROVE b.slot + l - 1 < b.slot + i - 1 <=> l < i
    BY <1>1, <1>6, <2>2
  <2>3. {f \in Entries(mf)' : f.seq < b.slot + i - 1} = Entries(mf) \cup Numbered(b.ok, b.slot, i)
    <3>1. ASSUME NEW f
          PROVE  f \in Numbered(b.ok, b.slot, i) <=>
                     \E l \in DOMAIN b.ok : l < i /\ f = [seq |-> b.slot + l - 1, req |-> b.ok[l]]
      BY DEF Numbered
    <3>2. ASSUME NEW f \in Entries(mf)', f.seq < b.slot + i - 1
          PROVE  f \in Entries(mf) \cup Numbered(b.ok, b.slot, i)
      BY <1>2, <2>2, <3>1, <3>2
    <3>3. ASSUME NEW f \in Numbered(b.ok, b.slot, i) PROVE f \in Entries(mf)' /\ f.seq < b.slot + i - 1
      <4>1. PICK l \in DOMAIN b.ok : l < i /\ f = [seq |-> b.slot + l - 1, req |-> b.ok[l]]
        BY <3>1, <3>3
      <4>2. f \in Entries(mf)'
        BY <1>2, <4>1
      <4>3. f.seq < b.slot + i - 1
        BY <2>2, <4>1
      <4> QED
        BY <4>2, <4>3
    <3> QED
      BY <1>2, <2>1, <3>2, <3>3
  <2>4. SerialOn(b)
    <3>1. b.kind # "annotate" /\ b.man = mf
      BY <1>1, <1>6 DEF Won
    <3>2. Claimed(b)
      BY <3>1 DEF Won
    <3> QED
      BY <3>1, <3>2 DEF Claimed
  <2> QED
    BY <1>6, <2>3, <2>4 DEF SerialOn
<1>7. ASSUME NEW e \in Entries(mf)'
      PROVE  Finds({f \in Entries(mf)' : f.seq < e.seq}, RefOf[e.req], OldOf[e.req])
  <2>1. CASE e \in Entries(mf)
    BY <1>5, <2>1
  <2>2. ASSUME NEW i \in DOMAIN b.ok, e = [seq |-> b.slot + i - 1, req |-> b.ok[i]]
        PROVE  Finds({f \in Entries(mf)' : f.seq < e.seq}, RefOf[e.req], OldOf[e.req])
    <3>1. e.seq = b.slot + i - 1 /\ e.req = b.ok[i]
      BY <2>2
    <3> QED
      BY <1>6, <2>2, <3>1
  <2> QED
    BY <1>2, <1>7, <2>1, <2>2
<1> QED
  BY <1>7 DEF BatchesSerial, Finds

\* A pack leaves the list with a compaction that comes behind it, and takes its bitmap along.
LEMMA WonPacks ==
    ASSUME WInv, NEW h \in Hosts, NEW j \in Jobs, NEW b \in WJobs, NEW q \in WJobs, Won(h, j, b, q)
    PROVE  PacksKept'
<1>0. WTypes /\ LogInv /\ PacksKept /\ seg' = seg /\ side' = side /\ Sound(b, h, j) /\ b.pc = "cas"
  BY DEF WInv, Won
<1>1. mf.segs \subseteq mf'.segs
  BY DEF Won, BuiltOn
<1>2. mf'.bitmap \subseteq side' \cap mf'.packs
  <2>1. mf.bitmap \subseteq side \cap mf.packs
    BY <1>0 DEF PacksKept
  <2>2. CASE b.kind = "annotate"
    <3>1. b.arg \in side /\ b.arg \in mf.packs
      BY <1>0, <2>2 DEF Sound, Won
    <3> QED
      BY <1>0, <2>1, <2>2, <3>1 DEF Won, BuiltOn
  <2>3. CASE b.kind = "push" \/ b.kind = "settings"
    <3>1. mf'.bitmap = mf.bitmap /\ mf.packs \subseteq mf'.packs
      BY <2>3 DEF Won, BuiltOn
    <3> QED
      BY <1>0, <2>1, <3>1
  <2>4. CASE b.kind \in {"compact", "add"}
    <3>1. mf'.packs = (mf.packs \ b.sup) \cup {b.arg} /\ mf'.bitmap = mf.bitmap \ (b.sup \cup {b.arg})
      BY <2>4 DEF Won, BuiltOn
    <3> QED
      BY <1>0, <2>1, <3>1
  <2> QED
    BY <2>2, <2>3, <2>4 DEF Won, OtherKinds
<1>3. ASSUME NEW s \in mf.segs, NEW k \in DOMAIN seg[s].reqs
      PROVE  \/ PackOf[seg[s].reqs[k]] \in mf'.packs
             \/ \E t \in mf'.segs : t > s /\ PackOf[seg[s].reqs[k]] \in seg[t].sup
  <2>1. PICK p : p = PackOf[seg[s].reqs[k]]
    OBVIOUS
  <2>2. p \in mf.packs \/ \E t \in mf.segs : t > s /\ p \in seg[t].sup
    BY <1>0, <1>3, <2>1 DEF PacksKept
  <2>3. CASE \E t \in mf.segs : t > s /\ p \in seg[t].sup
    BY <1>1, <2>1, <2>3
  <2>4. CASE p \in mf.packs /\ p \notin mf'.packs
    <3>1. b.kind \in {"compact", "add"}
      BY <2>4 DEF Won, BuiltOn, OtherKinds
    <3>2. p \in b.sup /\ Claimed(b) /\ Appends(b.slot, b.ok)
      BY <2>4, <3>1 DEF Won, BuiltOn
    <3>3. p \in seg[b.slot].sup /\ b.slot \in mf'.segs /\ b.slot > mf.head
      BY <3>2 DEF Claimed, Appends
    <3>4. s \in Nat /\ s <= mf.head /\ mf.head \in Nat /\ b.slot \in Nat
      BY <1>0, <1>3, BehindHead DEF WJobs
    <3>5. b.slot > s
      BY <3>3, <3>4
    <3> QED
      BY <2>1, <3>3, <3>5
  <2> QED
    BY <2>1, <2>2, <2>3, <2>4
<1>4. ASSUME NEW s \in mf'.segs, s \notin mf.segs, NEW k \in DOMAIN seg[s].reqs
      PROVE  PackOf[seg[s].reqs[k]] \in mf'.packs
  <2>1. b.kind # "annotate" /\ s = b.slot
    BY <1>4 DEF Won, BuiltOn
  <2>2. seg[s].reqs = b.ok
    BY <2>1 DEF Won, Appends
  <2>3. b.ok \in Seq(Requests)
    BY DEF WJobs
  <2>4. Len(b.ok) # 0
    BY <1>4, <2>2, <2>3
  <2>5. b.kind = "push"
    BY <1>0, <2>4 DEF Sound, Kinds
  <2>6. mf'.packs = mf.packs \cup {PackOf[r] : r \in SeqSet(b.ok)}
    BY <2>5 DEF Won, BuiltOn
  <2>7. seg[s].reqs[k] \in SeqSet(b.ok)
    BY <1>4, <2>2 DEF SeqSet
  <2> QED
    BY <2>6, <2>7
<1>5. ASSUME NEW s \in mf'.segs, NEW k \in DOMAIN seg[s].reqs
      PROVE  \/ PackOf[seg[s].reqs[k]] \in mf'.packs
             \/ \E t \in mf'.segs : t > s /\ PackOf[seg[s].reqs[k]] \in seg[t].sup
  BY <1>3, <1>4, <1>5
<1> QED
  BY <1>0, <1>2, <1>5 DEF PacksKept

LEMMA CasWinsStep ==
    ASSUME WInv, NEW h \in Hosts, NEW j \in Jobs, CasWins(h, j)
    PROVE  WInv'
<1>1. PICK b \in WJobs, q \in WJobs : Won(h, j, b, q)
  BY WonForm
<1>2. WTypes' /\ LogInv' /\ DocInv'
  BY <1>1, WonTypes, WonDocs
<1>3. SlotsApart' /\ \A g \in Hosts : \A i \in Jobs : Sound(job[g][i], g, i)'
  BY <1>1, WonSound
<1>4. BatchAnswers' /\ Untold' /\ BatchesSerial' /\ PacksKept'
  BY <1>1, WonAnswers, WonSerial, WonPacks
<1> QED
  BY <1>2, <1>3, <1>4 DEF WInv

-----------------------------------------------------------------------------
(* A crash: the writers of an instance are gone, and its clients hear nothing. *)

LEMMA HostCrashStep ==
    ASSUME WInv, NEW h \in Hosts, HostCrash(h)
    PROVE  WInv'
<1>0. /\ WTypes /\ LogInv /\ DocInv /\ SlotsApart /\ BatchAnswers /\ Untold /\ "push" \in Jobs
      /\ UNCHANGED <<mf, seg, side>>
  BY DEF WInv, HostCrash, Jobs
<1>1. Beside /\ LogInv' /\ side \subseteq side'
  BY <1>0 DEF Beside, LogInv
<1>2. /\ job' \in [Hosts -> [Jobs -> WJobs]]
      /\ \A i \in Jobs : job'[h][i] = IdleJob
      /\ \A g \in Hosts : g # h => job'[g] = job[g]
  <2>1. job' = [job EXCEPT ![h] = [i \in Jobs |-> IdleJob]] /\ job \in [Hosts -> [Jobs -> WJobs]]
    BY <1>0 DEF HostCrash, WTypes
  <2>2. [i \in Jobs |-> IdleJob] \in [Jobs -> WJobs]
    BY WIdle
  <2> QED
    BY <2>1, <2>2
<1>3. /\ answer' \in [Requests -> WAnswers]
      /\ \A r \in Requests : IF r \in SeqSet(job[h]["push"].reqs) THEN answer'[r].is = "lost" ELSE answer'[r] = answer[r]
  <2>1. answer' = [r \in Requests |-> IF r \in SeqSet(job[h]["push"].reqs) THEN [is |-> "lost", seq |-> 0] ELSE answer[r]]
    BY DEF HostCrash
  <2>2. answer \in [Requests -> WAnswers] /\ [is |-> "lost", seq |-> 0] \in WAnswers
    BY <1>0 DEF WTypes, WAnswers
  <2> QED
    BY <2>1, <2>2
<1>4. /\ hman' \in [Hosts -> WMans] /\ effective' \in [Hosts -> Docs]
      /\ \A g \in Hosts : /\ hman'[g] = mf \/ hman'[g] = hman[g]
                          /\ effective'[g] = NoSettings \/ effective'[g] = effective[g]
  <2>1. hman' = [hman EXCEPT ![h] = mf] /\ effective' = [effective EXCEPT ![h] = NoSettings]
    BY DEF HostCrash
  <2>2. hman \in [Hosts -> WMans] /\ effective \in [Hosts -> Docs] /\ mf \in WMans /\ NoSettings \in Docs
    BY <1>0, WIdle DEF WTypes
  <2> QED
    BY <2>1, <2>2
<1>5. WTypes'
  BY <1>0, <1>2, <1>3, <1>4 DEF WTypes
<1>6. DocInv'
  <2>1. Known(mf)
    <3>1. mf.rev <= mf.rev
      BY <1>0 DEF WTypes, WMans
    <3> QED
      BY <1>0, <3>1 DEF Known, Old, DocInv
  <2>2. \A g \in Hosts : KnownDoc(effective'[g]) /\ Known(hman'[g])
    BY <1>0, <1>4, <2>1 DEF DocInv, KnownDoc
  <2> QED
    BY <1>1, <2>2, DocsBeside
<1>7. SlotsApart'
  <2> SUFFICES ASSUME NEW g \in Hosts, NEW f \in Hosts, NEW i \in Jobs, NEW k \in Jobs, g # f \/ i # k,
                      Holding(job'[g][i]), Holding(job'[f][k])
               PROVE  job'[g][i].slot # job'[f][k].slot
    BY DEF SlotsApart, Holding
  <2>1. g # h /\ f # h
    BY <1>2, IdleSound
  <2> QED
    BY <1>0, <1>2, <2>1 DEF SlotsApart
<1>8. ASSUME NEW g \in Hosts, NEW i \in Jobs PROVE Sound(job[g][i], g, i)'
  <2>1. CASE g = h
    <3>1. job'[g][i] = IdleJob /\ Sound(IdleJob, g, i)'
      BY <1>2, <1>8, <2>1, IdleSound
    <3> QED
      BY <3>1, SoundSame
  <2>2. CASE g # h
    <3>1. PICK c \in WJobs : c = job[g][i]
      BY <1>0, <1>8 DEF WTypes
    <3>2. Sound(c, g, i) /\ job'[g][i] = c
      BY <1>2, <1>8, <2>2, <3>1 DEF WInv
    <3>3. ASSUME NEW k \in DOMAIN c.reqs PROVE answer'[c.reqs[k]] = answer[c.reqs[k]]
      <4>1. c.reqs[k] \in SeqSet(job[g][i].reqs)
        BY <3>1, <3>3 DEF SeqSet
      <4>2. c.reqs[k] \in Requests /\ HostOf[c.reqs[k]] = g
        BY <1>8, <4>1, OwnRequests
      <4>3. c.reqs[k] \notin SeqSet(job[h]["push"].reqs)
        BY <1>0, <2>2, <4>2, OwnRequests
      <4> QED
        BY <1>3, <4>2, <4>3
    <3>4. Holding(c) => c.slot \in DOMAIN seg' /\ seg'[c.slot] = seg[c.slot]
      BY <1>0, <3>2 DEF Sound, Claimed
    <3>5. Sound(c, g, i)'
      BY <1>1, <1>8, <3>2, <3>3, <3>4, SoundRests
    <3> QED
      BY <3>2, <3>5, SoundSame
  <2> QED
    BY <2>1, <2>2
<1>9. Entries(mf)' = Entries(mf)
  BY <1>1, BesideLog
<1>10. BatchAnswers'
  <2>1. \A r \in Requests : answer'[r].is = "ok" => [seq |-> answer'[r].seq, req |-> r] \in Entries(mf)
    BY <1>0, <1>3 DEF BatchAnswers
  <2>2. ASSUME NEW e \in Entries(mf) PROVE answer'[e.req].is \notin {"conflict", "retry"}
    <3>1. e.req \in Requests /\ answer[e.req].is \notin {"conflict", "retry"}
      BY <1>0, <2>2, EntryTypes DEF BatchAnswers
    <3> QED
      BY <1>3, <3>1
  <2> QED
    BY <1>0, <1>9, <2>1, <2>2 DEF BatchAnswers
<1>11. Untold'
  <2> SUFFICES ASSUME NEW e \in Entries(mf), answer'[e.req].is = "none"
               PROVE  /\ job'[HostOf[e.req]]["push"].pc = "local"
                      /\ e.req \in SeqSet(job'[HostOf[e.req]]["push"].ok)
    BY <1>9 DEF Untold, SeqSet
  <2>1. e.req \in Requests
    BY <1>0, EntryTypes
  <2>2. PICK g \in Hosts : g = HostOf[e.req]
    BY <2>1, WritersAssumption
  <2>3. answer[e.req].is = "none" /\ e.req \notin SeqSet(job[h]["push"].reqs)
    BY <1>3, <2>1
  <2>4. job[g]["push"].pc = "local" /\ e.req \in SeqSet(job[g]["push"].ok)
    BY <1>0, <2>2, <2>3 DEF Untold
  <2>5. g # h
    <3>1. Chosen(job[g]["push"])
      BY <1>0 DEF WInv, Sound
    <3> QED
      BY <2>3, <2>4, <3>1 DEF Chosen
  <2> QED
    BY <1>2, <2>2, <2>4, <2>5
<1>12. BatchesSerial' /\ PacksKept'
  BY <1>1, BesideKeeps
<1> QED
  BY <1>1, <1>5, <1>6, <1>7, <1>8, <1>10, <1>11, <1>12 DEF WInv

-----------------------------------------------------------------------------
(* The invariant, and what it says. *)

LEMMA WInvInit == WritersInit => WInv
<1> SUFFICES ASSUME WritersInit PROVE WInv
  OBVIOUS
<1>0. /\ mf = FirstManifest /\ DOMAIN seg = {} /\ side = {}
      /\ \A h \in Hosts : hman[h] = FirstManifest /\ effective[h] = NoSettings
      /\ \A h \in Hosts : \A j \in Jobs : job[h][j] = IdleJob
  BY DEF WritersInit
<1>1. FirstManifest.segs = {} /\ FirstManifest.head = 0 /\ FirstManifest.rev = 1 /\ FirstManifest.bitmap = {}
      /\ NoSettings.rev = 0
  BY DEF FirstManifest, NoSettings
<1>2. WTypes
  <2>1. [is |-> "none", seq |-> 0] \in WAnswers
    BY DEF WAnswers
  <2>2. mf \in WMans /\ DOMAIN seg \subseteq 1 .. MaxLog /\ \A s \in DOMAIN seg : seg[s] \in WSegs
    BY <1>0, WIdle
  <2>3. hman \in [Hosts -> WMans] /\ effective \in [Hosts -> Docs]
    BY WIdle DEF WritersInit
  <2>4. job \in [Hosts -> [Jobs -> WJobs]]
    BY WIdle DEF WritersInit
  <2>5. answer \in [Requests -> WAnswers]
    BY <2>1 DEF WritersInit
  <2> QED
    BY <2>2, <2>3, <2>4, <2>5 DEF WTypes
<1>3. LogInv
  BY <1>0, <1>1 DEF LogInv
<1>4. SetSegs = {} /\ Entries(mf) = {}
  BY <1>0, <1>1 DEF SetSegs, Entries
<1>5. DocInv
  <2>1. \A d : d = NoSettings => KnownDoc(d)
    BY DEF KnownDoc
  <2>2. Known(mf)
    BY <1>0, <1>1, <2>1, WIdle DEF Known, Old
  <2>3. mf.set.rev = Cardinality(SetSegs)
    BY <1>0, <1>1, <1>4, WIdle, FS_EmptySet
  <2> QED
    BY <1>0, <2>1, <2>2, <2>3 DEF DocInv, Known
<1>6. SlotsApart
  BY <1>0, WIdle DEF SlotsApart, Holding
<1>7. ASSUME NEW h \in Hosts, NEW j \in Jobs PROVE Sound(job[h][j], h, j)
  <2>1. PICK b : b = job[h][j]
    OBVIOUS
  <2>2. b.pc = "idle" /\ Len(b.reqs) = 0 /\ b.kind = "none"
    BY <1>0, <1>7, <2>1, WIdle
  <2>3. Kinds(b, j) /\ Waiting(b, h) /\ Chosen(b) /\ ~Holding(b) /\ b.pc \notin Live
    BY <2>2 DEF Kinds, Waiting, Chosen, Holding, Live
  <2>4. Sound(b, h, j)
    BY <2>2, <2>3 DEF Sound
  <2> QED
    BY <2>1, <2>4
<1>8. BatchAnswers /\ Untold /\ BatchesSerial
  <2>1. \A r \in Requests : answer[r].is = "none"
    BY DEF WritersInit
  <2> QED
    BY <1>4, <2>1 DEF BatchAnswers, Untold, BatchesSerial
<1>9. PacksKept
  BY <1>0, <1>1 DEF PacksKept
<1> QED
  BY <1>2, <1>3, <1>5, <1>6, <1>7, <1>8, <1>9 DEF WInv

LEMMA WInvRests == WInv /\ UNCHANGED writerVars => WInv'
<1> SUFFICES ASSUME WInv, UNCHANGED writerVars PROVE WInv'
  OBVIOUS
<1>0. UNCHANGED <<mf, seg, side, hman, effective, job, answer>>
  BY DEF writerVars
<1>1. Beside
  BY <1>0 DEF WInv, LogInv, Beside
<1>2. Entries(mf)' = Entries(mf)
  BY <1>1, BesideLog
<1>3. WTypes' /\ LogInv'
  BY <1>0 DEF WInv, WTypes, LogInv
<1>4. DocInv'
  BY <1>0, <1>1, DocsRest, DocsBeside
<1>5. SlotsApart'
  BY <1>0 DEF WInv, SlotsApart, Holding
<1>6. ASSUME NEW h \in Hosts, NEW j \in Jobs PROVE Sound(job[h][j], h, j)'
  <2>1. PICK b \in WJobs : b = job[h][j]
    BY <1>6 DEF WInv, WTypes
  <2>2. Sound(b, h, j) /\ job'[h][j] = b
    BY <1>0, <1>6, <2>1 DEF WInv
  <2>3. Holding(b) => b.slot \in DOMAIN seg' /\ seg'[b.slot] = seg[b.slot]
    BY <1>0, <2>2 DEF Sound, Claimed
  <2>4. Sound(b, h, j)'
    BY <1>0, <1>1, <1>6, <2>2, <2>3, SoundRests
  <2> QED
    BY <2>2, <2>4, SoundSame
<1>7. BatchAnswers' /\ Untold'
  <2>1. BatchAnswers'
    BY <1>0, <1>2 DEF WInv, BatchAnswers
  <2>2. Untold
    BY DEF WInv
  <2>3. Untold'
    BY <1>0, <1>2, <2>2 DEF Untold, SeqSet
  <2> QED
    BY <2>1, <2>3
<1>8. BatchesSerial' /\ PacksKept'
  BY <1>0, <1>1, BesideKeeps
<1> QED
  BY <1>3, <1>4, <1>5, <1>6, <1>7, <1>8 DEF WInv

LEMMA WInvNext == WInv /\ [WritersNext]_writerVars => WInv'
<1> SUFFICES ASSUME WInv, WritersNext PROVE WInv'
  BY WInvRests
<1>0. "push" \in Jobs
  BY DEF Jobs
<1>1. PICK h \in Hosts :
        \/ \E n \in 1 .. MaxBatch : \E batch \in [1 .. n -> Requests] : TakeBatch(h, batch)
        \/ \E t \in Settings : publish_settings(h, t)
        \/ publish_compact(h, "base") \/ add_pack(h, "history")
        \/ \E p \in hman[h].packs : annotate_pack(h, p)
        \/ RejectAll(h) \/ AnnotateUpload(h) \/ AnnotateGone(h) \/ EffectiveConfig(h) \/ HostCrash(h)
        \/ \E j \in Jobs : \/ JobSync(h, j) \/ ClaimSlot(h, j) \/ SlotContended(h, j)
                           \/ CasWins(h, j) \/ CasLoses(h, j) \/ GiveUp(h, j) \/ RecordLocally(h, j)
  BY DEF WritersNext
<1>2. CASE \E n \in 1 .. MaxBatch : \E batch \in [1 .. n -> Requests] : TakeBatch(h, batch)
  BY <1>2, TakeBatchStep
<1>3. CASE \/ \E t \in Settings : publish_settings(h, t)
           \/ publish_compact(h, "base") \/ add_pack(h, "history")
           \/ \E p \in hman[h].packs : annotate_pack(h, p)
  BY <1>3, StartStep
<1>4. CASE RejectAll(h)
  BY <1>0, <1>4, RefuseStep
<1>5. CASE AnnotateUpload(h) \/ AnnotateGone(h)
  BY <1>5, AnnotateStep
<1>6. CASE EffectiveConfig(h)
  BY <1>6, EffectiveStep
<1>7. CASE HostCrash(h)
  BY <1>7, HostCrashStep
<1>8. ASSUME NEW j \in Jobs,
             \/ JobSync(h, j) \/ ClaimSlot(h, j) \/ SlotContended(h, j)
             \/ CasWins(h, j) \/ CasLoses(h, j) \/ GiveUp(h, j) \/ RecordLocally(h, j)
      PROVE  WInv'
  <2>1. CASE JobSync(h, j)
    BY <1>8, <2>1, JobSyncStep
  <2>2. CASE ClaimSlot(h, j)
    BY <1>8, <2>2, ClaimSlotStep
  <2>3. CASE SlotContended(h, j)
    BY <1>8, <2>3, SlotContendedStep
  <2>4. CASE CasWins(h, j)
    BY <1>8, <2>4, CasWinsStep
  <2>5. CASE CasLoses(h, j)
    BY <1>8, <2>5, CasLosesStep
  <2>6. CASE GiveUp(h, j)
    BY <1>8, <2>6, RefuseStep
  <2>7. CASE RecordLocally(h, j)
    BY <1>8, <2>7, RecordStep
  <2> QED
    BY <1>8, <2>1, <2>2, <2>3, <2>4, <2>5, <2>6, <2>7
<1> QED
  BY <1>1, <1>2, <1>3, <1>4, <1>5, <1>6, <1>7, <1>8

LEMMA WInvAlways == WritersSpec => []WInv
<1>1. WritersInit => WInv
  BY WInvInit
<1>2. WInv /\ [WritersNext]_writerVars => WInv'
  BY WInvNext
<1> QED
  BY <1>1, <1>2, PTL DEF WritersSpec

\* The documents up to a settings entry: as many as that entry's revision.
LEMMA DocsUpTo ==
    ASSUME WTypes, LogInv, NEW s \in SetSegs
    PROVE  /\ IsFiniteSet(SetsTo(s)) /\ SetsTo(s) \subseteq SetSegs /\ s \in SetsTo(s) /\ s \in Nat
           /\ Cardinality(SetsTo(s)) \in Nat /\ Cardinality(SetsTo(s)) # 0
<1>1. s \in Nat
  BY BehindHead DEF SetSegs
<1>2. s \in SetsTo(s) /\ SetsTo(s) \subseteq SetSegs
  BY <1>1 DEF SetsTo
<1>3. IsFiniteSet(SetsTo(s))
  BY <1>2, DocsFinite, FS_Subset
<1>4. Cardinality(SetsTo(s)) \in Nat /\ Cardinality(SetsTo(s)) # 0
  BY <1>2, <1>3, FS_CardinalityType, FS_EmptySet
<1> QED
  BY <1>1, <1>2, <1>3, <1>4

\* A revision has one document.
LEMMA SameDoc ==
    ASSUME WTypes, LogInv, NEW d, NEW e, KnownDoc(d), KnownDoc(e), d.rev = e.rev
    PROVE  d.toml = e.toml
<1>0. NoSettings.rev = 0
  BY DEF NoSettings
<1>1. CASE d = NoSettings /\ e = NoSettings
  BY <1>1
<1>2. ASSUME NEW s \in SetSegs, d = NoSettings \/ e = NoSettings,
             d.rev = Cardinality(SetsTo(s)) \/ e.rev = Cardinality(SetsTo(s))
      PROVE  FALSE
  BY <1>0, <1>2, DocsUpTo
<1>3. ASSUME NEW s \in SetSegs, NEW t \in SetSegs, Cardinality(SetsTo(s)) = Cardinality(SetsTo(t)), s <= t
      PROVE  s = t
  <2>1. s \in Nat /\ t \in Nat /\ t \in SetsTo(t) /\ IsFiniteSet(SetsTo(t))
    BY <1>3, DocsUpTo
  <2>2. ASSUME NEW u \in SetsTo(s) PROVE u \in SetsTo(t)
    <3>1. u \in SetSegs /\ u <= s
      BY <2>2 DEF SetsTo
    <3>2. u \in Nat
      BY <3>1, DocsUpTo
    <3>3. u <= t
      BY <1>3, <2>1, <3>1, <3>2
    <3> QED
      BY <3>1, <3>3 DEF SetsTo
  <2>3. SetsTo(s) = SetsTo(t)
    BY <1>3, <2>1, <2>2, FS_Subset
  <2>4. t <= s
    BY <2>1, <2>3 DEF SetsTo
  <2> QED
    BY <1>3, <2>1, <2>4
<1>4. ASSUME NEW s \in SetSegs, NEW t \in SetSegs, d.toml = seg[s].arg, e.toml = seg[t].arg,
             d.rev = Cardinality(SetsTo(s)), e.rev = Cardinality(SetsTo(t))
      PROVE  d.toml = e.toml
  <2>1. s \in Nat /\ t \in Nat
    BY <1>4, DocsUpTo
  <2>2. s <= t \/ t <= s
    BY <2>1
  <2>3. s = t
    BY <1>3, <1>4, <2>2
  <2> QED
    BY <1>4, <2>3
<1> QED
  BY <1>1, <1>2, <1>4 DEF KnownDoc

LEMMA LastDocument == WInv => SettingsKept
<1> SUFFICES ASSUME WInv PROVE SettingsKept
  OBVIOUS
<1>0. WTypes /\ LogInv /\ DocInv
  BY DEF WInv
<1>1. EffectiveFresh
  <2> SUFFICES ASSUME NEW h \in Hosts, effective[h].rev = hman[h].set.rev PROVE effective[h].toml = hman[h].set.toml
    BY DEF EffectiveFresh
  <2>1. KnownDoc(effective[h]) /\ KnownDoc(hman[h].set)
    BY <1>0 DEF DocInv, Known
  <2> QED
    BY <1>0, <2>1, SameDoc
<1>2. ASSUME SetSegs # {}
      PROVE  mf.set.toml = seg[CHOOSE s \in SetSegs : \A t \in SetSegs : t <= s].arg
  <2>1. KnownDoc(mf.set) /\ mf.set.rev = Cardinality(SetSegs) /\ IsFiniteSet(SetSegs)
    BY <1>0, DocsFinite DEF DocInv
  <2>2. mf.set # NoSettings
    <3>1. Cardinality(SetSegs) # 0
      BY <1>2, <2>1, FS_EmptySet
    <3> QED
      BY <2>1, <3>1 DEF NoSettings
  <2>3. PICK s \in SetSegs : mf.set.toml = seg[s].arg /\ mf.set.rev = Cardinality(SetsTo(s))
    BY <2>1, <2>2 DEF KnownDoc
  <2>4. SetsTo(s) = SetSegs
    <3>1. SetsTo(s) \subseteq SetSegs /\ Cardinality(SetsTo(s)) = Cardinality(SetSegs)
      BY <1>0, <2>1, <2>3, DocsUpTo
    <3> QED
      BY <2>1, <3>1, FS_Subset
  <2>5. \A t \in SetSegs : t <= s
    BY <2>4 DEF SetsTo
  <2>6. PICK c : c = CHOOSE u \in SetSegs : \A t \in SetSegs : t <= u
    OBVIOUS
  <2>7. c \in SetSegs /\ \A t \in SetSegs : t <= c
    BY <2>3, <2>5, <2>6
  <2>8. c \in Nat /\ s \in Nat /\ c <= s /\ s <= c
    BY <1>0, <2>3, <2>5, <2>7, DocsUpTo
  <2>9. c = s
    BY <2>8
  <2> QED
    BY <2>3, <2>6, <2>9
<1>3. SettingsSerial
  BY <1>0, <1>2 DEF SettingsSerial, SetSegs, DocInv
<1> QED
  BY <1>1, <1>3 DEF SettingsKept

\* process_batch and verify_txn, for batches of any size on any number of instances: every
\* push of the log found the value it expected, a push that was told a seq is in the log at
\* it, a push that was refused is not in the log, and none is in it twice.
THEOREM PushesSerialAlways == WritersSpec => []PushesSerial
<1>1. WInv => PushesSerial
  BY DEF WInv, PushesSerial
<1> QED
  BY <1>1, WInvAlways, PTL

\* publish_settings and effective_config: the manifest carries the last settings of the log
\* under a revision that counts them, and a cached configuration is that revision's document.
THEOREM SettingsKeptAlways == WritersSpec => []SettingsKept
BY WInvAlways, LastDocument, PTL

\* publish_compact and annotate_pack next to pushes: the pack of a push stays listed until a
\* later compaction supersedes it, and a promised bitmap is uploaded and of a listed pack.
THEOREM PacksKeptAlways == WritersSpec => []PacksKept
<1>1. WInv => PacksKept
  BY DEF WInv
<1> QED
  BY <1>1, WInvAlways, PTL

-----------------------------------------------------------------------------
(* Ingress: following an upstream, and the mirror.  A round that nobody     *)
(* disturbs finds every object of the upstream's tips stored or in the one  *)
(* pack it fetched (Brought), so the operation it starts can publish all of *)
(* them; leftovers of failed publishes are pruned before an operation gets  *)
(* its own pack (OpInv), so what is published needs none of them.           *)

Tips == [FwRefs -> FwCommits \cup {0}]
FwPcs == {"idle", "clear", "seed", "fetch", "read", "decide", "wait", "start", "plan", "publish"}
FwSides == [pc : FwPcs, have : Tips, tips : Tips, pack : SUBSET FwCommits, still : BOOLEAN,
            caughtUp : BOOLEAN, prefetched : BOOLEAN]
FwTypes ==
    /\ fwUp \in Tips /\ fwOurs \in Tips
    /\ fwStored \in SUBSET FwCommits /\ fwOrphans \in SUBSET FwCommits
    /\ fwScratch \in [tips : Tips, packs : SUBSET SUBSET FwCommits]
    /\ fw \in [Fetchers -> FwSides]

\* Every tip is stored with all it reaches, and what was published last went forward.
StoredInv ==
    /\ \A r \in FwRefs : Reach(fwOurs[r]) \subseteq fwStored
    /\ \A u \in fwLast : u.old \in Reach(u.new) \cup {0}

\* No leftover pack is about while an operation gets its own; then what it moves is stored
\* or in its pack.
OpInv ==
    /\ fw["op"].pc \in {"clear", "seed", "fetch", "read", "plan"} => fwOrphans = {}
    /\ fw["op"].pc = "publish" =>
          \A r \in Moved("op") : Reach(fw["op"].tips[r]) \subseteq fwStored \cup fw["op"].pack

\* Every ref is on the upstream, and ahead of what the round began with.
AllThere == \A r \in FwRefs : fwUp[r] # 0
Ahead == \A r \in FwRefs : fwUp[r] # 0 /\ fw["round"].have[r] \in Reach(fwUp[r]) \cup {0}
\* What the scratch clone has makes the upstream's tips complete, in one pack.
Brought ==
    /\ AllThere /\ fwScratch.tips = fwUp
    /\ \A p \in fwScratch.packs : \A r \in FwRefs : Reach(fwUp[r]) \subseteq fwStored \cup p
    /\ fwScratch.packs = {} => \A r \in FwRefs : Reach(fwUp[r]) \subseteq fwStored

\* A round with nobody beside it, before it decides.
Alone ==
    fw["round"].still /\ fw["round"].pc \in {"clear", "seed", "fetch", "read", "decide"} =>
        /\ fw["op"].pc = "idle" /\ fwOrphans = {} /\ fw["round"].have = fwOurs
        /\ fw["round"].pc \in {"seed", "fetch"} => fwScratch.packs = {}
        /\ fw["round"].pc = "fetch" => fwScratch.tips = fwOurs
        /\ fw["round"].pc \in {"read", "decide"} => Brought
        /\ fw["round"].pc = "decide" => fw["round"].tips = fwUp

\* The operation it has started, and waits for.
RoundWaits ==
    fw["round"].still /\ fw["round"].pc = "wait" =>
        /\ AllThere /\ fw["op"].pc \in {"start", "read", "plan", "publish", "idle"}
        /\ fw["op"].pc # "idle" => fwOurs = fw["round"].have
        /\ fw["op"].pc = "start" => fw["op"].prefetched
        /\ fw["op"].pc \in {"start", "read"} => Brought
        /\ fw["op"].pc \in {"read", "plan", "publish"} => fw["op"].have = fwOurs
        /\ fw["op"].pc \in {"plan", "publish"} => fw["op"].tips = fwUp
        /\ fw["op"].pc = "plan" => /\ fw["op"].pack = NoPack \/ fw["op"].pack \in fwScratch.packs
                                   /\ \A r \in FwRefs : Reach(fwUp[r]) \subseteq fwStored \cup fw["op"].pack
        /\ fw["op"].pc = "idle" /\ Ahead => fwOurs = fwUp

Settled == fw["round"].pc = "idle" /\ fw["round"].still /\ Ahead => fw["round"].caughtUp

FwInv == FwTypes /\ StoredInv /\ OpInv /\ Alone /\ RoundWaits /\ Settled

\* The mirror.
MrTypes ==
    mr \in [pc : {"idle", "list", "push", "ended"}, src : Tips, dst : Tips, local : Tips, pushed : Tips,
            todo : Tips, had : SUBSET (FwRefs \X FwCommits), still : BOOLEAN, moves : Nat, faults : Nat,
            others : Nat, level : BOOLEAN]
\* What the mirror has seen of the source is what the source had.
HadInv ==
    \A r \in FwRefs :
        /\ mr.src[r] = 0 \/ <<r, mr.src[r]>> \in mr.had
        /\ mr.pushed[r] = 0 \/ <<r, mr.pushed[r]>> \in mr.had
        /\ mr.local[r] = 0 \/ <<r, mr.local[r]>> \in mr.had
\* A ref that is known to be level is.
LevelInv == \A r \in FwRefs : mr.src[r] # 0 /\ mr.pushed[r] = mr.src[r] => mr.dst[r] = mr.src[r]
\* A source that moved since the fetch has a value that was never pushed; what is to be pushed
\* is what was fetched and is not there yet.
TickInv ==
    /\ mr.pc # "idle" => \A r \in FwRefs : mr.src[r] \notin {0, mr.local[r]} => mr.src[r] # mr.pushed[r]
    /\ mr.pc = "push" => \A r \in FwRefs : mr.todo[r] \in {0, mr.local[r]} /\ (mr.todo[r] # 0 => mr.pushed[r] # mr.local[r])
    /\ mr.pc = "push" => \A r \in FwRefs : mr.todo[r] # mr.local[r] => mr.pushed[r] = mr.local[r]
    /\ mr.pc # "idle" /\ mr.still => mr.local = mr.src /\ \A r \in FwRefs : mr.src[r] # 0
    /\ mr.pc = "ended" /\ mr.still =>
          \A r \in FwRefs : mr.pushed[r] = mr.src[r] \/ (mr.todo[r] = mr.src[r] /\ ~MrForce)
MrInv == MrTypes /\ HadInv /\ LevelInv /\ TickInv /\ MirrorSound

FollowInv == FwInv /\ MrInv

\* A tick ends well only with the destination level.
LEMMA MirrorStep ==
    ASSUME FollowAssumption, MrReturns = FALSE, MrDrift = FALSE, MrInv, MirrorNext
    PROVE  MrInv'
<1>0. MrTypes /\ HadInv /\ LevelInv /\ TickInv /\ MirrorSound
  BY DEF MrInv
<1>1. CASE MirrorFetches
  <2>1. /\ mr.pc = "idle" /\ \A r \in FwRefs : mr.src[r] # 0
        /\ mr'.pc = "list" /\ mr'.local = mr.src /\ mr'.still = TRUE /\ mr'.src = mr.src /\ mr'.dst = mr.dst
        /\ mr'.pushed = mr.pushed /\ mr'.todo = mr.todo /\ mr'.had = mr.had /\ mr'.level = mr.level
    BY <1>0, <1>1 DEF MirrorFetches, MrTypes
  <2>2. MrTypes'
    BY <1>0, <1>1 DEF MirrorFetches, MrTypes
  <2>3. HadInv'
    BY <1>0, <2>1 DEF HadInv
  <2>5. LevelInv'
    BY <1>0, <2>1 DEF LevelInv
  <2>4. TickInv' /\ MirrorSound'
    BY <2>1 DEF TickInv, MirrorSound
  <2> QED
    BY <2>2, <2>3, <2>4, <2>5 DEF MrInv
<1>2. CASE MirrorLists
  <2> DEFINE new == {r \in FwRefs : mr.pushed[r] # mr.local[r]}
             level == {r \in new : mr.dst[r] = mr.local[r]}
  <2>1. /\ mr.pc = "list" /\ mr'.pc = (IF new = level THEN "ended" ELSE "push")
        /\ mr'.pushed = [r \in FwRefs |-> IF r \in level THEN mr.local[r] ELSE mr.pushed[r]]
        /\ mr'.todo = [r \in FwRefs |-> IF r \in new \ level THEN mr.local[r] ELSE 0]
        /\ mr'.local = mr.local /\ mr'.still = mr.still /\ mr'.src = mr.src /\ mr'.dst = mr.dst
        /\ mr'.had = mr.had /\ mr'.level = mr.level
    BY <1>0, <1>2 DEF MirrorLists, MrTypes
  <2>2. mr.local \in Tips /\ mr.pushed \in Tips
    BY <1>0 DEF MrTypes
  <2>3. mr'.pushed \in Tips /\ mr'.todo \in Tips
    BY <2>1, <2>2 DEF Tips
  <2>4. MrTypes'
    <3>1. mr' = [mr EXCEPT !.pc = mr'.pc, !.pushed = mr'.pushed, !.todo = mr'.todo]
      BY <1>0, <1>2, <2>1 DEF MirrorLists, MrTypes
    <3> HIDE DEF new, level
    <3> QED
      BY <1>0, <2>1, <2>3, <3>1 DEF MrTypes
  <2>5. \A r \in FwRefs :
          /\ r \in level => mr'.pushed[r] = mr.local[r] /\ mr.dst[r] = mr.local[r] /\ mr'.todo[r] = 0
          /\ r \notin level => mr'.pushed[r] = mr.pushed[r]
          /\ r \in new \ level => mr'.todo[r] = mr.local[r] /\ mr.pushed[r] # mr.local[r]
          /\ r \notin new => mr'.todo[r] = 0 /\ mr.pushed[r] = mr.local[r]
    BY <2>1
  <2>6. level \subseteq new /\ mr'.pc \in {"ended", "push"} /\ (mr'.pc = "ended" => new = level)
    BY <2>1
  <2> HIDE DEF new, level
  <2>7. HadInv'
    BY <1>0, <2>1, <2>5 DEF HadInv
  <2>8. LevelInv'
    BY <1>0, <2>1, <2>5 DEF LevelInv
  <2>9. TickInv'
    <3>1. \A r \in FwRefs : mr'.src[r] \notin {0, mr'.local[r]} => mr'.src[r] # mr'.pushed[r]
      BY <1>0, <2>1, <2>5 DEF TickInv
    <3>2. \A r \in FwRefs : /\ mr'.todo[r] \in {0, mr'.local[r]}
                            /\ mr'.todo[r] # 0 => mr'.pushed[r] # mr'.local[r]
                            /\ mr'.todo[r] # mr'.local[r] => mr'.pushed[r] = mr'.local[r]
      BY <2>1, <2>5, <2>6
    <3>3. mr'.still => mr'.local = mr'.src /\ \A r \in FwRefs : mr'.src[r] # 0
      BY <1>0, <2>1 DEF TickInv
    <3>4. mr'.pc = "ended" => \A r \in FwRefs : mr'.pushed[r] = mr'.local[r]
      BY <2>1, <2>5, <2>6
    <3> QED
      BY <3>1, <3>2, <3>3, <3>4 DEF TickInv
  <2>10. MirrorSound'
    BY <2>6 DEF MirrorSound
  <2> QED
    BY <2>4, <2>7, <2>8, <2>9, <2>10 DEF MrInv
<1>3. CASE MirrorPushes
  <2>1. PICK t \in SUBSET FwRefs : t = MirrorTaken
    BY DEF MirrorTaken
  <2>2. \A r \in t : mr.todo[r] # 0
    BY <2>1 DEF MirrorTaken
  <2>3. MrForce => \A r \in FwRefs : mr.todo[r] # 0 => r \in t
    BY <2>1 DEF MirrorTaken
  <2>4. \A d : MirrorOnto(d) = [r \in FwRefs |-> IF r \in t THEN mr.todo[r] ELSE d[r]]
    BY <2>1 DEF MirrorOnto
  <2>5. mr.todo \in Tips /\ mr.dst \in Tips /\ mr.pushed \in Tips /\ mr.pc = "push"
    BY <1>0, <1>3 DEF MrTypes, MirrorPushes
  <2>6. MirrorOnto(mr.dst) \in Tips /\ MirrorOnto(mr.pushed) \in Tips
    BY <2>4, <2>5 DEF Tips
  <2>7. CASE mr' = [mr EXCEPT !.pc = "ended", !.dst = MirrorOnto(@), !.pushed = MirrorOnto(@)]
    <3>1. /\ mr'.pc = "ended" /\ mr'.dst = MirrorOnto(mr.dst) /\ mr'.pushed = MirrorOnto(mr.pushed)
          /\ mr'.local = mr.local /\ mr'.still = mr.still /\ mr'.src = mr.src
          /\ mr'.todo = mr.todo /\ mr'.had = mr.had /\ mr'.level = mr.level
      BY <1>0, <2>7 DEF MrTypes
    <3>2. MrTypes'
      BY <1>0, <2>6, <2>7 DEF MrTypes
    <3>3. \A r \in FwRefs : IF r \in t THEN mr'.pushed[r] = mr.todo[r] /\ mr'.dst[r] = mr.todo[r]
                                       ELSE mr'.pushed[r] = mr.pushed[r] /\ mr'.dst[r] = mr.dst[r]
      BY <2>4, <3>1
    <3>4. \A r \in FwRefs : mr.todo[r] \in {0, mr.local[r]} /\ (mr.todo[r] # mr.local[r] => mr.pushed[r] = mr.local[r])
      BY <1>0, <2>5 DEF TickInv
    <3>5. HadInv'
      BY <1>0, <3>1, <3>3, <3>4 DEF HadInv
    <3>6. LevelInv'
      BY <1>0, <3>1, <3>3 DEF LevelInv
    <3>7. TickInv'
      <4>1. \A r \in FwRefs : mr'.src[r] \notin {0, mr'.local[r]} => mr'.src[r] # mr'.pushed[r]
        BY <1>0, <2>2, <2>5, <3>1, <3>3, <3>4 DEF TickInv
      <4>2. mr'.still => mr'.local = mr'.src /\ \A r \in FwRefs : mr'.src[r] # 0
        BY <1>0, <2>5, <3>1 DEF TickInv
      <4>3. \A r \in FwRefs : mr.local[r] # 0 =>
              mr'.pushed[r] = mr.local[r] \/ (mr.todo[r] = mr.local[r] /\ ~MrForce)
        BY <2>2, <2>3, <3>3, <3>4
      <4> QED
        BY <3>1, <4>1, <4>2, <4>3 DEF TickInv
    <3>8. MirrorSound'
      BY <3>1 DEF MirrorSound
    <3> QED
      BY <3>2, <3>5, <3>6, <3>7, <3>8 DEF MrInv
  <2>8. CASE \E d \in {mr.dst, MirrorOnto(mr.dst)} :
               mr' = [mr EXCEPT !.pc = "idle", !.dst = d, !.faults = @ + 1, !.still = FALSE]
    <3>1. PICK d \in {mr.dst, MirrorOnto(mr.dst)} :
               mr' = [mr EXCEPT !.pc = "idle", !.dst = d, !.faults = @ + 1, !.still = FALSE]
      BY <2>8
    <3>2. d \in Tips /\ \A r \in FwRefs : d[r] = mr.dst[r] \/ r \in t
      BY <2>4, <2>5, <2>6
    <3>3. /\ mr'.pc = "idle" /\ mr'.dst = d /\ mr'.pushed = mr.pushed
          /\ mr'.local = mr.local /\ mr'.still = FALSE /\ mr'.src = mr.src
          /\ mr'.todo = mr.todo /\ mr'.had = mr.had /\ mr'.level = mr.level
      BY <1>0, <3>1 DEF MrTypes
    <3>4. MrTypes'
      <4>1. PICK n \in Nat : n = mr.faults + 1
        BY <1>0 DEF MrTypes
      <4>2. mr' = [mr EXCEPT !.pc = "idle", !.dst = d, !.faults = n, !.still = FALSE]
        BY <3>1, <4>1
      <4> QED
        BY <1>0, <3>2, <4>2 DEF MrTypes
    <3>5. HadInv'
      BY <1>0, <3>3 DEF HadInv
    <3>6. LevelInv'
      <4>1. \A r \in t : mr.src[r] # 0 => mr.pushed[r] # mr.src[r]
        BY <1>0, <2>2, <2>5 DEF TickInv
      <4> QED
        BY <1>0, <3>2, <3>3, <4>1 DEF LevelInv
    <3>7. TickInv' /\ MirrorSound'
      BY <3>3 DEF TickInv, MirrorSound
    <3> QED
      BY <3>4, <3>5, <3>6, <3>7 DEF MrInv
  <2> QED
    BY <1>3, <2>7, <2>8 DEF MirrorPushes
<1>4. CASE MirrorEnds
  <2>1. /\ mr.pc = "ended" /\ mr'.pc = "idle" /\ mr'.level = (mr.dst = mr.src)
        /\ mr'.local = mr.local /\ mr'.still = mr.still /\ mr'.src = mr.src /\ mr'.dst = mr.dst
        /\ mr'.pushed = mr.pushed /\ mr'.todo = mr.todo /\ mr'.had = mr.had
    BY <1>0, <1>4 DEF MirrorEnds, MrTypes
  <2>2. MrTypes'
    <3>1. (mr.dst = mr.src) \in BOOLEAN
      OBVIOUS
    <3> QED
      BY <1>0, <1>4, <3>1 DEF MirrorEnds, MrTypes
  <2>3. HadInv' /\ LevelInv' /\ TickInv'
    BY <1>0, <2>1 DEF HadInv, LevelInv, TickInv
  <2>4. MirrorSound'
    <3>1. SUFFICES ASSUME mr.still, MrForce \/ \A r \in FwRefs : mr.todo[r] = 0 \/ mr.dst[r] = mr.todo[r]
                   PROVE  mr.dst = mr.src
      BY <2>1 DEF MirrorSound
    <3>2. \A r \in FwRefs : mr.src[r] # 0 /\ (mr.pushed[r] = mr.src[r] \/ (mr.todo[r] = mr.src[r] /\ ~MrForce))
      BY <1>0, <2>1, <3>1 DEF TickInv
    <3>3. \A r \in FwRefs : mr.dst[r] = mr.src[r]
      BY <1>0, <3>1, <3>2 DEF LevelInv
    <3>4. mr.dst \in Tips /\ mr.src \in Tips
      BY <1>0 DEF MrTypes
    <3> QED
      BY <3>3, <3>4 DEF Tips
  <2> QED
    BY <2>2, <2>3, <2>4 DEF MrInv
<1>5. CASE MirrorRestarts
  <2>1. /\ mr'.pc = "idle" /\ mr'.level = mr.level
        /\ mr'.local = mr.local /\ mr'.still = FALSE /\ mr'.src = mr.src /\ mr'.dst = mr.dst
        /\ mr'.pushed = Nowhere /\ mr'.todo = mr.todo /\ mr'.had = mr.had
    BY <1>0, <1>5 DEF MirrorRestarts, MrTypes
  <2>2. Nowhere \in Tips /\ \A r \in FwRefs : Nowhere[r] = 0
    BY DEF Nowhere, Tips
  <2>3. MrTypes'
    <3>1. PICK n \in Nat : n = mr.faults + 1
      BY <1>0 DEF MrTypes
    <3>2. mr' = [mr EXCEPT !.pc = "idle", !.pushed = Nowhere, !.faults = n, !.still = FALSE]
      BY <1>5, <3>1 DEF MirrorRestarts
    <3> QED
      BY <1>0, <2>2, <3>2 DEF MrTypes
  <2>4. HadInv' /\ LevelInv'
    BY <1>0, <2>1, <2>2 DEF HadInv, LevelInv
  <2>5. TickInv' /\ MirrorSound'
    BY <2>1 DEF TickInv, MirrorSound
  <2> QED
    BY <2>3, <2>4, <2>5 DEF MrInv
<1>6. CASE SourceMoves
  <2>1. PICK r \in FwRefs, c \in FwCommits \cup {0} :
          /\ c # mr.src[r] /\ <<r, c>> \notin mr.had
          /\ mr' = [mr EXCEPT !.src[r] = c, !.moves = @ + 1, !.still = FALSE,
                              !.had = IF c = 0 THEN @ ELSE @ \cup {<<r, c>>}]
    BY <1>6 DEF SourceMoves
  <2>2. /\ mr'.pc = mr.pc /\ mr'.level = mr.level
        /\ mr'.local = mr.local /\ mr'.still = FALSE /\ mr'.src = [mr.src EXCEPT ![r] = c] /\ mr'.dst = mr.dst
        /\ mr'.pushed = mr.pushed /\ mr'.todo = mr.todo
        /\ mr'.had = (IF c = 0 THEN mr.had ELSE mr.had \cup {<<r, c>>})
    BY <1>0, <2>1 DEF MrTypes
  <2>3. mr.src \in Tips /\ mr'.src \in Tips /\ mr'.src[r] = c /\ \A s \in FwRefs : s # r => mr'.src[s] = mr.src[s]
    BY <1>0, <2>2 DEF MrTypes, Tips
  <2>4. mr'.had \in SUBSET (FwRefs \X FwCommits) /\ mr.had \subseteq mr'.had /\ (c # 0 => <<r, c>> \in mr'.had)
    BY <1>0, <2>2 DEF MrTypes
  <2>5. MrTypes'
    <3>0. PICK n \in Nat : n = mr.moves + 1
      BY <1>0 DEF MrTypes
    <3>1. mr' = [mr EXCEPT !.src = mr'.src, !.moves = n, !.still = FALSE, !.had = mr'.had]
      BY <1>0, <2>1, <2>2, <3>0 DEF MrTypes
    <3> QED
      BY <1>0, <2>3, <2>4, <3>1 DEF MrTypes
  <2>6. c # 0 => c # mr.pushed[r]
    BY <1>0, <2>1 DEF HadInv
  <2>7. HadInv'
    BY <1>0, <2>2, <2>3, <2>4 DEF HadInv
  <2>8. LevelInv'
    BY <1>0, <2>2, <2>3, <2>6 DEF LevelInv
  <2>9. TickInv'
    <3>1. mr'.pc # "idle" => \A s \in FwRefs : mr'.src[s] \notin {0, mr'.local[s]} => mr'.src[s] # mr'.pushed[s]
      BY <1>0, <2>2, <2>3, <2>6 DEF TickInv
    <3> QED
      BY <1>0, <2>2, <3>1 DEF TickInv
  <2>10. MirrorSound'
    BY <2>2 DEF MirrorSound
  <2> QED
    BY <2>5, <2>7, <2>8, <2>9, <2>10 DEF MrInv
<1>7. CASE OthersPush
  <2>1. PICK r \in FwRefs, c \in FwCommits \cup {0} :
          /\ mr.pushed[r] # mr.src[r]
          /\ mr' = [mr EXCEPT !.dst[r] = c, !.others = @ + 1, !.still = FALSE]
    BY <1>7 DEF OthersPush
  <2>2. /\ mr'.pc = mr.pc /\ mr'.level = mr.level
        /\ mr'.local = mr.local /\ mr'.still = FALSE /\ mr'.dst = [mr.dst EXCEPT ![r] = c] /\ mr'.src = mr.src
        /\ mr'.pushed = mr.pushed /\ mr'.todo = mr.todo /\ mr'.had = mr.had
    BY <1>0, <2>1 DEF MrTypes
  <2>3. mr'.dst \in Tips /\ \A s \in FwRefs : s # r => mr'.dst[s] = mr.dst[s]
    BY <1>0, <2>2 DEF MrTypes, Tips
  <2>4. MrTypes'
    <3>0. PICK n \in Nat : n = mr.others + 1
      BY <1>0 DEF MrTypes
    <3>1. mr' = [mr EXCEPT !.dst = mr'.dst, !.others = n, !.still = FALSE]
      BY <1>0, <2>1, <2>2, <3>0 DEF MrTypes
    <3> QED
      BY <1>0, <2>3, <3>1 DEF MrTypes
  <2>5. LevelInv'
    BY <1>0, <2>1, <2>2, <2>3 DEF LevelInv
  <2>6. HadInv' /\ TickInv'
    BY <1>0, <2>2 DEF HadInv, TickInv
  <2>7. MirrorSound'
    BY <2>2 DEF MirrorSound
  <2> QED
    BY <2>4, <2>5, <2>6, <2>7 DEF MrInv
<1> QED
  BY <1>1, <1>2, <1>3, <1>4, <1>5, <1>6, <1>7 DEF MirrorNext

\* One of the two takes a step.
LEMMA FetcherTurn ==
    ASSUME FwTypes, NEW w \in Fetchers, NEW q \in FwSides, fw' = [fw EXCEPT ![w] = q]
    PROVE  /\ fw' \in [Fetchers -> FwSides] /\ fw'[w] = q
           /\ \A v \in Fetchers : v # w => fw'[v] = fw[v]
BY DEF FwTypes

\* A round that was disturbed promises nothing.
LEMMA RoundDisturbed ==
    ASSUME ~fw'["round"].still
    PROVE  Alone' /\ RoundWaits' /\ Settled'
BY DEF Alone, RoundWaits, Settled

\* What is stored stays, and nothing new is published.
LEMMA StoredKeeps ==
    ASSUME StoredInv, fwOurs' = fwOurs, fwStored \subseteq fwStored', fwLast' = fwLast
    PROVE  StoredInv'
<1>1. \A r \in FwRefs : Reach(fwOurs'[r]) \subseteq fwStored'
  BY DEF StoredInv
<1> QED
  BY <1>1 DEF StoredInv

\* The operation rests, and no pack of another is left over.
LEMMA OpKeeps ==
    ASSUME OpInv, fw'["op"] = fw["op"], fwStored \subseteq fwStored', fwOrphans' \subseteq fwOrphans
    PROVE  OpInv'
<1>1. Moved("op")' = Moved("op")
  BY DEF Moved
<1>2. fw["op"].pc = "publish" =>
        \A r \in Moved("op") : Reach(fw["op"].tips[r]) \subseteq fwStored' \cup fw["op"].pack
  BY DEF OpInv
<1>3. fw["op"].pc \in {"clear", "seed", "fetch", "read", "plan"} => fwOrphans' = {}
  BY DEF OpInv
<1> QED
  BY <1>1, <1>2, <1>3 DEF OpInv

\* While an operation fetches for itself, no round is alone.
LEMMA OpFetches ==
    ASSUME Alone, RoundWaits, Settled, fw["op"].pc \in {"clear", "seed", "fetch"},
           fw'["round"] = fw["round"], fwUp' = fwUp
    PROVE  Alone' /\ RoundWaits' /\ Settled'
<1>1. ~(fw["round"].still /\ fw["round"].pc \in {"clear", "seed", "fetch", "read", "decide"})
  BY DEF Alone
<1>2. ~(fw["round"].still /\ fw["round"].pc = "wait")
  BY DEF RoundWaits
<1>3. Alone' /\ RoundWaits'
  BY <1>1, <1>2 DEF Alone, RoundWaits
<1>4. Settled'
  BY DEF Settled, Ahead
<1> QED
  BY <1>3, <1>4

\* An operation that has something under way is one a round waits for, or none is alone.
LEMMA OpAtWork ==
    ASSUME Alone, Settled, fw["op"].pc # "idle", fw'["round"] = fw["round"], fwUp' = fwUp
    PROVE  Alone' /\ Settled'
<1>1. ~(fw["round"].still /\ fw["round"].pc \in {"clear", "seed", "fetch", "read", "decide"})
  BY DEF Alone
<1> QED
  BY <1>1 DEF Alone, Settled, Ahead

\* A round begins: with no operation about, leftovers are pruned.
LEMMA RoundBeginsStep ==
    ASSUME FwBusy = FALSE, FwInv, RoundBegins
    PROVE  FwInv'
<1> DEFINE q == [FwIdle EXCEPT !.pc = "clear", !.have = fwOurs, !.still = fw["op"].pc = "idle"]
<1>0. FwTypes /\ StoredInv /\ OpInv /\ Alone /\ RoundWaits /\ Settled
  BY DEF FwInv
<1>1. /\ fwOrphans' = (IF fw["op"].pc \notin {"publish"} THEN {} ELSE fwOrphans)
      /\ fw' = [fw EXCEPT !["round"] = q]
      /\ UNCHANGED <<fwUp, fwOurs, fwStored, fwScratch, fwLast>>
  BY DEF RoundBegins, Synced
<1>2. q \in FwSides /\ q.pc = "clear" /\ q.have = fwOurs /\ (q.still => fw["op"].pc = "idle")
  <2>1. Nowhere \in Tips /\ (fw["op"].pc = "idle") \in BOOLEAN /\ fwOurs \in Tips
    BY <1>0 DEF Nowhere, Tips, FwTypes
  <2> QED
    BY <2>1 DEF FwSides, FwIdle, FwPcs, NoPack
<1> HIDE DEF q
<1>3. /\ fw' \in [Fetchers -> FwSides] /\ fw'["round"] = q /\ fw'["op"] = fw["op"]
  BY <1>0, <1>1, <1>2, FetcherTurn DEF Fetchers
<1>4. FwTypes'
  BY <1>0, <1>1, <1>3 DEF FwTypes
<1>5. StoredInv' /\ OpInv'
  BY <1>0, <1>1, <1>3, StoredKeeps, OpKeeps
<1>6. Alone' /\ RoundWaits' /\ Settled'
  BY <1>1, <1>2, <1>3 DEF Alone, RoundWaits, Settled
<1> QED
  BY <1>4, <1>5, <1>6 DEF FwInv

\* Packs of earlier rounds go.
LEMMA ScratchClearedStep ==
    ASSUME FwInv, NEW w \in Fetchers, ScratchCleared(w)
    PROVE  FwInv'
<1> DEFINE q == [fw[w] EXCEPT !.pc = "seed"]
<1>0. FwTypes /\ StoredInv /\ OpInv /\ Alone /\ RoundWaits /\ Settled /\ fw[w] \in FwSides
  BY DEF FwInv, FwTypes
<1>1. /\ fw[w].pc = "clear" /\ fwScratch' = [fwScratch EXCEPT !.packs = {}]
      /\ UNCHANGED <<fwUp, fwOurs, fwStored, fwOrphans, fwLast>>
  BY DEF ScratchCleared
<1>2. fw' = [fw EXCEPT ![w] = q]
  BY <1>0 DEF ScratchCleared, FwTypes
<1>3. /\ q \in FwSides /\ q.pc = "seed" /\ q.have = fw[w].have /\ q.still = fw[w].still
      /\ q.tips = fw[w].tips /\ q.pack = fw[w].pack
  BY <1>0 DEF FwSides, FwPcs
<1> HIDE DEF q
<1>4. fw' \in [Fetchers -> FwSides] /\ fw'[w] = q /\ \A v \in Fetchers : v # w => fw'[v] = fw[v]
  BY <1>0, <1>2, <1>3, FetcherTurn
<1>5. FwTypes' /\ fwScratch'.packs = {}
  BY <1>0, <1>1, <1>4 DEF FwTypes
<1>6. StoredInv'
  BY <1>0, <1>1, StoredKeeps
<1>7. CASE w = "op"
  <2>1. fw'["op"] = q /\ fw'["round"] = fw["round"]
    BY <1>4, <1>7 DEF Fetchers
  <2>2. OpInv'
    BY <1>0, <1>1, <1>3, <1>7, <2>1 DEF OpInv
  <2>3. Alone' /\ RoundWaits' /\ Settled'
    BY <1>0, <1>1, <1>7, <2>1, OpFetches
  <2> QED
    BY <1>5, <1>6, <2>2, <2>3 DEF FwInv
<1>8. CASE w = "round"
  <2>1. fw'["round"] = q /\ fw'["op"] = fw["op"]
    BY <1>4, <1>8 DEF Fetchers
  <2>2. OpInv'
    BY <1>0, <1>1, <2>1, OpKeeps
  <2>3. Alone' /\ RoundWaits' /\ Settled'
    BY <1>0, <1>1, <1>3, <1>5, <1>8, <2>1 DEF Alone, RoundWaits, Settled
  <2> QED
    BY <1>5, <1>6, <2>2, <2>3 DEF FwInv
<1> QED
  BY <1>7, <1>8 DEF Fetchers

\* The scratch clone gets the tips we have.
LEMMA ScratchSeededStep ==
    ASSUME FwInv, NEW w \in Fetchers, ScratchSeeded(w)
    PROVE  FwInv'
<1> DEFINE q == [fw[w] EXCEPT !.pc = "fetch"]
<1>0. FwTypes /\ StoredInv /\ OpInv /\ Alone /\ RoundWaits /\ Settled /\ fw[w] \in FwSides /\ fw[w].have \in Tips
  BY DEF FwInv, FwTypes, FwSides
<1>1. /\ fw[w].pc = "seed" /\ fwScratch' = [fwScratch EXCEPT !.tips = fw[w].have]
      /\ UNCHANGED <<fwUp, fwOurs, fwStored, fwOrphans, fwLast>>
  BY DEF ScratchSeeded
<1>2. fw' = [fw EXCEPT ![w] = q]
  BY <1>0 DEF ScratchSeeded, FwTypes
<1>3. /\ q \in FwSides /\ q.pc = "fetch" /\ q.have = fw[w].have /\ q.still = fw[w].still
      /\ q.tips = fw[w].tips /\ q.pack = fw[w].pack
  BY <1>0 DEF FwSides, FwPcs
<1> HIDE DEF q
<1>4. fw' \in [Fetchers -> FwSides] /\ fw'[w] = q /\ \A v \in Fetchers : v # w => fw'[v] = fw[v]
  BY <1>0, <1>2, <1>3, FetcherTurn
<1>5. FwTypes' /\ fwScratch'.packs = fwScratch.packs /\ fwScratch'.tips = fw[w].have
  BY <1>0, <1>1, <1>4 DEF FwTypes
<1>6. StoredInv'
  BY <1>0, <1>1, StoredKeeps
<1>7. CASE w = "op"
  <2>1. fw'["op"] = q /\ fw'["round"] = fw["round"]
    BY <1>4, <1>7 DEF Fetchers
  <2>2. OpInv'
    BY <1>0, <1>1, <1>3, <1>7, <2>1 DEF OpInv
  <2>3. Alone' /\ RoundWaits' /\ Settled'
    BY <1>0, <1>1, <1>7, <2>1, OpFetches
  <2> QED
    BY <1>5, <1>6, <2>2, <2>3 DEF FwInv
<1>8. CASE w = "round"
  <2>1. fw'["round"] = q /\ fw'["op"] = fw["op"]
    BY <1>4, <1>8 DEF Fetchers
  <2>2. OpInv'
    BY <1>0, <1>1, <2>1, OpKeeps
  <2>3. Alone' /\ RoundWaits' /\ Settled'
    BY <1>0, <1>1, <1>3, <1>5, <1>8, <2>1 DEF Alone, RoundWaits, Settled
  <2> QED
    BY <1>5, <1>6, <2>2, <2>3 DEF FwInv
<1> QED
  BY <1>7, <1>8 DEF Fetchers

\* What a commit reaches are commits.
LEMMA ReachTyped ==
    ASSUME FollowAssumption
    PROVE  /\ \A t \in Tips : \A r \in FwRefs : Reach(t[r]) \subseteq FwCommits
           /\ \A c \in FwCommits \cup {0} : Reach(c) \subseteq FwCommits
BY DEF FollowAssumption, Reach, Tips

\* A fetch from tips that are stored makes the upstream's complete.
LEMMA FetchBrings ==
    ASSUME FollowAssumption, FwTypes, StoredInv, AllThere, fwOrphans = {}, fwScratch.packs = {}, fwScratch.tips = fwOurs
    PROVE  /\ Fetched.tips = fwUp
           /\ \A p \in Fetched.packs : \A r \in FwRefs : Reach(fwUp[r]) \subseteq fwStored \cup p
           /\ Fetched.packs = {} => \A r \in FwRefs : Reach(fwUp[r]) \subseteq fwStored
<1>1. PICK up : up = ReachAll(fwUp)
  OBVIOUS
<1>2. PICK mine : mine = ReachAll(fwScratch.tips)
  OBVIOUS
<1>3. \A r \in FwRefs : Reach(fwUp[r]) \subseteq up
  BY <1>1 DEF ReachAll
<1>4. mine \subseteq fwStored
  BY <1>2 DEF ReachAll, StoredInv
<1>5. fwStored \cup fwOrphans \cup UNION fwScratch.packs = fwStored
  OBVIOUS
<1>6. Fetched = [tips |-> fwUp, packs |-> IF ~(up \subseteq fwStored) THEN {up \ mine} \ {{}} ELSE {}]
  BY <1>1, <1>2, <1>5 DEF Fetched, Visible, NoPack
<1>7. CASE up \subseteq fwStored
  BY <1>3, <1>6, <1>7
<1>8. CASE ~(up \subseteq fwStored)
  <2>1. up \ mine # {} /\ up \subseteq fwStored \cup (up \ mine)
    BY <1>4, <1>8
  <2>2. Fetched.tips = fwUp /\ Fetched.packs = {up \ mine}
    BY <1>6, <1>8, <2>1
  <2> QED
    BY <1>3, <2>1, <2>2
<1> QED
  BY <1>7, <1>8

\* A fetch leaves tips and packs of commits.
LEMMA FetchTyped ==
    ASSUME FollowAssumption, FwTypes
    PROVE  Fetched \in [tips : Tips, packs : SUBSET SUBSET FwCommits]
<1>1. ReachAll(fwUp) \subseteq FwCommits
  BY ReachTyped DEF ReachAll, FwTypes
<1> QED
  BY <1>1 DEF Fetched, FwTypes

\* The fetch: a round that is alone has all it needs now.
LEMMA FetchRefsStep ==
    ASSUME FollowAssumption, FwInv, NEW w \in Fetchers, FetchRefs(w)
    PROVE  FwInv'
<1> DEFINE q == [fw[w] EXCEPT !.pc = "read"]
<1>0. FwTypes /\ StoredInv /\ OpInv /\ Alone /\ RoundWaits /\ Settled /\ fw[w] \in FwSides
  BY DEF FwInv, FwTypes
<1>1. /\ fw[w].pc = "fetch" /\ fwScratch' = Fetched /\ AllThere
      /\ UNCHANGED <<fwUp, fwOurs, fwStored, fwOrphans, fwLast>>
  BY DEF FetchRefs, AllThere
<1>2. fw' = [fw EXCEPT ![w] = q]
  BY <1>0 DEF FetchRefs, FwTypes
<1>3. /\ q \in FwSides /\ q.pc = "read" /\ q.have = fw[w].have /\ q.still = fw[w].still
      /\ q.tips = fw[w].tips /\ q.pack = fw[w].pack
  BY <1>0 DEF FwSides, FwPcs
<1> HIDE DEF q
<1>4. fw' \in [Fetchers -> FwSides] /\ fw'[w] = q /\ \A v \in Fetchers : v # w => fw'[v] = fw[v]
  BY <1>0, <1>2, <1>3, FetcherTurn
<1>5. FwTypes'
  BY <1>0, <1>1, <1>4, FetchTyped DEF FwTypes
<1>6. StoredInv'
  BY <1>0, <1>1, StoredKeeps
<1>7. CASE w = "op"
  <2>1. fw'["op"] = q /\ fw'["round"] = fw["round"]
    BY <1>4, <1>7 DEF Fetchers
  <2>2. OpInv'
    BY <1>0, <1>1, <1>3, <1>7, <2>1 DEF OpInv
  <2>3. Alone' /\ RoundWaits' /\ Settled'
    BY <1>0, <1>1, <1>7, <2>1, OpFetches
  <2> QED
    BY <1>5, <1>6, <2>2, <2>3 DEF FwInv
<1>8. CASE w = "round"
  <2>1. fw'["round"] = q /\ fw'["op"] = fw["op"]
    BY <1>4, <1>8 DEF Fetchers
  <2>2. OpInv'
    BY <1>0, <1>1, <2>1, OpKeeps
  <2>3. fw["round"].still =>
          /\ fw["op"].pc = "idle" /\ fwOrphans = {} /\ fw["round"].have = fwOurs
          /\ fwScratch.packs = {} /\ fwScratch.tips = fwOurs
    BY <1>0, <1>1, <1>8 DEF Alone
  <2>4. fw["round"].still => Brought'
    <3>1. AllThere'
      BY <1>1 DEF AllThere
    <3> QED
      BY <1>0, <1>1, <2>3, <3>1, FetchBrings DEF Brought
  <2>5. Alone'
    BY <1>1, <1>3, <1>8, <2>1, <2>3, <2>4 DEF Alone
  <2>6. RoundWaits' /\ Settled'
    BY <1>3, <2>1 DEF RoundWaits, Settled
  <2> QED
    BY <1>5, <1>6, <2>2, <2>5, <2>6 DEF FwInv
<1> QED
  BY <1>7, <1>8 DEF Fetchers

\* A fetch that fails.
LEMMA FetchFailsStep ==
    ASSUME FwInv, NEW w \in Fetchers, FetchFails(w)
    PROVE  FwInv'
<1> DEFINE q == [fw[w] EXCEPT !.pc = "idle"]
<1>0. FwTypes /\ StoredInv /\ OpInv /\ Alone /\ RoundWaits /\ Settled /\ fw[w] \in FwSides /\ fw["round"] \in FwSides
  BY DEF FwInv, FwTypes, Fetchers
<1>1. UNCHANGED <<fwUp, fwOurs, fwStored, fwOrphans, fwScratch, fwLast>> /\ fw' = [Disturbed EXCEPT ![w].pc = "idle"]
  BY DEF FetchFails
<1>2. Disturbed \in [Fetchers -> FwSides] /\ ~Disturbed["round"].still /\ Disturbed["op"] = fw["op"]
  BY <1>0 DEF Disturbed, FwTypes, FwSides, Fetchers
<1>3. PICK d \in [Fetchers -> FwSides] : d = Disturbed
  BY <1>2
<1>4. /\ fw' \in [Fetchers -> FwSides] /\ ~fw'["round"].still
      /\ fw'["op"] = fw["op"] \/ fw'["op"].pc = "idle"
  BY <1>1, <1>2, <1>3 DEF FwSides, FwPcs, Fetchers
<1>5. FwTypes'
  BY <1>0, <1>1, <1>4 DEF FwTypes
<1>6. StoredInv' /\ Alone' /\ RoundWaits' /\ Settled'
  BY <1>0, <1>1, <1>4, StoredKeeps, RoundDisturbed
<1>7. OpInv'
  <2>1. CASE fw'["op"] = fw["op"]
    BY <1>0, <1>1, <2>1, OpKeeps
  <2>2. CASE fw'["op"].pc = "idle"
    BY <2>2 DEF OpInv
  <2> QED
    BY <1>4, <2>1, <2>2
<1> QED
  BY <1>5, <1>6, <1>7 DEF FwInv

\* The tips and a pack, as the scratch clone has them.
LEMMA ReadScratchStep ==
    ASSUME FwInv, NEW w \in Fetchers, ReadScratch(w)
    PROVE  FwInv'
<1>0. FwTypes /\ StoredInv /\ OpInv /\ Alone /\ RoundWaits /\ Settled /\ fw[w] \in FwSides
  BY DEF FwInv, FwTypes
<1>1. PICK p \in fwScratch.packs \cup (IF fwScratch.packs = {} THEN {NoPack} ELSE {}) :
         fw' = [fw EXCEPT ![w].pc = IF w = "round" THEN "decide" ELSE "plan", ![w].tips = fwScratch.tips, ![w].pack = p]
  BY DEF ReadScratch
<1>2. fw[w].pc = "read" /\ UNCHANGED <<fwUp, fwOurs, fwStored, fwOrphans, fwScratch, fwLast>>
  BY DEF ReadScratch
<1>3. p \in SUBSET FwCommits /\ fwScratch.tips \in Tips
  BY <1>0, <1>1 DEF FwTypes, NoPack
<1> DEFINE q == [fw[w] EXCEPT !.pc = IF w = "round" THEN "decide" ELSE "plan", !.tips = fwScratch.tips, !.pack = p]
<1>4. fw' = [fw EXCEPT ![w] = q]
  BY <1>0, <1>1 DEF FwTypes
<1>5. /\ q \in FwSides /\ q.pc = (IF w = "round" THEN "decide" ELSE "plan") /\ q.have = fw[w].have
      /\ q.still = fw[w].still /\ q.tips = fwScratch.tips /\ q.pack = p
  BY <1>0, <1>3 DEF FwSides, FwPcs
<1> HIDE DEF q
<1>6. fw' \in [Fetchers -> FwSides] /\ fw'[w] = q /\ \A v \in Fetchers : v # w => fw'[v] = fw[v]
  BY <1>0, <1>4, <1>5, FetcherTurn
<1>7. FwTypes'
  BY <1>0, <1>2, <1>6 DEF FwTypes
<1>8. StoredInv'
  BY <1>0, <1>2, StoredKeeps
<1>9. Brought' <=> Brought
  BY <1>2 DEF Brought, AllThere
<1>10. CASE w = "op"
  <2>1. fw'["op"] = q /\ fw'["round"] = fw["round"] /\ q.pc = "plan" /\ fw["op"].pc = "read"
    BY <1>2, <1>5, <1>6, <1>10 DEF Fetchers
  <2>2. OpInv'
    BY <1>0, <1>2, <2>1 DEF OpInv
  <2>3. Alone' /\ Settled'
    BY <1>0, <1>2, <2>1, OpAtWork
  <2>4. RoundWaits'
    <3>1. SUFFICES ASSUME fw["round"].still, fw["round"].pc = "wait"
                   PROVE  RoundWaits'
      BY <2>1 DEF RoundWaits
    <3>2. AllThere /\ fwOurs = fw["round"].have /\ Brought /\ fw["op"].have = fwOurs
      BY <1>0, <2>1, <3>1 DEF RoundWaits
    <3>3. p = NoPack \/ p \in fwScratch.packs
      BY <1>1
    <3>4. \A r \in FwRefs : Reach(fwUp[r]) \subseteq fwStored \cup p
      BY <1>1, <3>2 DEF Brought
    <3>5. AllThere' /\ fwScratch.tips = fwUp
      BY <1>2, <3>2 DEF AllThere, Brought
    <3> QED
      BY <1>2, <1>5, <1>10, <2>1, <3>2, <3>3, <3>4, <3>5 DEF RoundWaits
  <2> QED
    BY <1>7, <1>8, <2>2, <2>3, <2>4 DEF FwInv
<1>11. CASE w = "round"
  <2>1. fw'["round"] = q /\ fw'["op"] = fw["op"] /\ q.pc = "decide" /\ fw["round"].pc = "read"
    BY <1>2, <1>5, <1>6, <1>11 DEF Fetchers
  <2>2. OpInv'
    BY <1>0, <1>2, <2>1, OpKeeps
  <2>3. fw["round"].still =>
          /\ fw["op"].pc = "idle" /\ fwOrphans = {} /\ fw["round"].have = fwOurs
          /\ Brought /\ fwScratch.tips = fwUp
    BY <1>0, <2>1 DEF Alone, Brought
  <2>4. Alone'
    BY <1>2, <1>5, <1>9, <1>11, <2>1, <2>3 DEF Alone
  <2>5. RoundWaits' /\ Settled'
    BY <2>1 DEF RoundWaits, Settled
  <2> QED
    BY <1>7, <1>8, <2>2, <2>4, <2>5 DEF FwInv
<1> QED
  BY <1>10, <1>11 DEF Fetchers

\* Tips that agree are the same.
LEMMA TipsEqual ==
    ASSUME NEW s \in Tips, NEW t \in Tips, \A r \in FwRefs : s[r] = t[r]
    PROVE  s = t
BY DEF Tips

\* An idle operation has no promise to keep.
LEMMA IdleTyped == FwIdle \in FwSides /\ FwIdle.pc = "idle"
<1>1. Nowhere \in Tips
  BY DEF Nowhere, Tips
<1> QED
  BY <1>1 DEF FwIdle, FwSides, FwPcs, NoPack

\* Nothing moved, or an operation is started or joined.
LEMMA RoundDecidesStep ==
    ASSUME FwInv, RoundDecides
    PROVE  FwInv'
<1>0. /\ FwTypes /\ StoredInv /\ OpInv /\ Alone /\ RoundWaits /\ Settled /\ fw["round"] \in FwSides /\ fw["op"] \in FwSides
      /\ fw \in [Fetchers -> FwSides]
  BY DEF FwInv, FwTypes, Fetchers
<1>1. fw["round"].pc = "decide" /\ UNCHANGED <<fwUp, fwOurs, fwStored, fwOrphans, fwLast>>
  BY DEF RoundDecides
<1>2. fw["round"].still =>
        /\ fw["op"].pc = "idle" /\ fwOrphans = {} /\ fw["round"].have = fwOurs
        /\ Brought /\ fw["round"].tips = fwUp
  BY <1>0, <1>1 DEF Alone
<1>3. StoredInv'
  BY <1>0, <1>1, StoredKeeps
<1>4. CASE Moved("round") = {}
  <2> DEFINE q == [fw["round"] EXCEPT !.pc = "idle", !.caughtUp = fwOurs = fwUp]
  <2>1. Discarded("round") /\ fw' = [fw EXCEPT !["round"] = q]
    BY <1>0, <1>4 DEF RoundDecides
  <2>2. q \in FwSides /\ q.pc = "idle" /\ q.caughtUp = (fwOurs = fwUp) /\ q.still = fw["round"].still
    <3>1. (fwOurs = fwUp) \in BOOLEAN
      OBVIOUS
    <3> QED
      BY <1>0, <3>1 DEF FwSides, FwPcs
  <2> HIDE DEF q
  <2>3. fw' \in [Fetchers -> FwSides] /\ fw'["round"] = q /\ fw'["op"] = fw["op"]
    BY <1>0, <2>1, <2>2, FetcherTurn DEF Fetchers
  <2>4. FwTypes'
    BY <1>0, <1>1, <2>1, <2>3 DEF FwTypes, Discarded
  <2>5. OpInv'
    BY <1>0, <1>1, <2>3, OpKeeps
  <2>6. Alone' /\ RoundWaits'
    BY <2>2, <2>3 DEF Alone, RoundWaits
  <2>7. fw["round"].still => fwOurs = fwUp
    <3>1. SUFFICES ASSUME fw["round"].still PROVE fwOurs = fwUp
      OBVIOUS
    <3>2. \A r \in FwRefs : fwUp[r] # 0 /\ fw["round"].tips[r] \in {0, fw["round"].have[r]}
      BY <1>2, <1>4, <3>1 DEF Moved, Brought, AllThere
    <3>3. \A r \in FwRefs : fwOurs[r] = fwUp[r]
      BY <1>2, <3>1, <3>2
    <3>4. fwOurs \in Tips /\ fwUp \in Tips
      BY <1>0 DEF FwTypes
    <3> QED
      BY <3>3, <3>4, TipsEqual
  <2>8. Settled'
    BY <2>2, <2>3, <2>7 DEF Settled
  <2> QED
    BY <1>3, <2>4, <2>5, <2>6, <2>8 DEF FwInv
<1>5. CASE Moved("round") # {}
  <2> DEFINE q == [fw["round"] EXCEPT !.pc = "wait"]
             o == IF fw["op"].pc = "idle" THEN [FwIdle EXCEPT !.pc = "start", !.prefetched = TRUE] ELSE fw["op"]
  <2>1. UNCHANGED fwScratch /\ fw' = [fw EXCEPT !["round"] = q, !["op"] = o]
    BY <1>0, <1>5 DEF RoundDecides
  <2>2. q \in FwSides /\ q.pc = "wait" /\ q.have = fw["round"].have /\ q.still = fw["round"].still
    BY <1>0 DEF FwSides, FwPcs
  <2>3. /\ o \in FwSides
        /\ IF fw["op"].pc = "idle" THEN o.pc = "start" /\ o.prefetched = TRUE ELSE o = fw["op"]
    BY <1>0, IdleTyped DEF FwSides, FwPcs
  <2> HIDE DEF q, o
  <2>4. fw' \in [Fetchers -> FwSides] /\ fw'["round"] = q /\ fw'["op"] = o
    BY <1>0, <2>1, <2>2, <2>3 DEF Fetchers
  <2>5. FwTypes'
    BY <1>0, <1>1, <2>1, <2>4 DEF FwTypes
  <2>6. OpInv'
    <3>1. CASE fw["op"].pc = "idle"
      BY <2>3, <2>4, <3>1 DEF OpInv
    <3>2. CASE fw["op"].pc # "idle"
      BY <1>0, <1>1, <2>3, <2>4, <3>2, OpKeeps
    <3> QED
      BY <3>1, <3>2
  <2>7. Brought => Brought' /\ AllThere'
    BY <1>1, <2>1 DEF Brought, AllThere
  <2>8. Alone' /\ Settled'
    BY <2>2, <2>4 DEF Alone, Settled
  <2>9. RoundWaits'
    BY <1>1, <1>2, <2>2, <2>3, <2>4, <2>7 DEF RoundWaits
  <2> QED
    BY <1>3, <2>5, <2>6, <2>8, <2>9 DEF FwInv
<1> QED
  BY <1>4, <1>5

\* The operation has ended, or the wait has.
LEMMA RoundEndsStep ==
    ASSUME FwInv, RoundEnds
    PROVE  FwInv'
<1>0. /\ FwTypes /\ StoredInv /\ OpInv /\ Alone /\ RoundWaits /\ Settled /\ fw["round"] \in FwSides
      /\ fw \in [Fetchers -> FwSides]
  BY DEF FwInv, FwTypes, Fetchers
<1>1. fw["round"].pc = "wait" /\ UNCHANGED <<fwUp, fwOurs, fwStored, fwOrphans, fwScratch, fwLast>>
  BY DEF RoundEnds
<1>2. StoredInv'
  BY <1>0, <1>1, StoredKeeps
<1>3. CASE /\ fw["op"].pc = "idle"
           /\ fw' = [fw EXCEPT !["round"].pc = "idle", !["round"].caughtUp = fwOurs = fwUp]
  <2> DEFINE q == [fw["round"] EXCEPT !.pc = "idle", !.caughtUp = fwOurs = fwUp]
  <2>1. fw' = [fw EXCEPT !["round"] = q]
    BY <1>0, <1>3
  <2>2. /\ q \in FwSides /\ q.pc = "idle" /\ q.caughtUp = (fwOurs = fwUp) /\ q.still = fw["round"].still
        /\ q.have = fw["round"].have
    <3>1. (fwOurs = fwUp) \in BOOLEAN
      OBVIOUS
    <3> QED
      BY <1>0, <3>1 DEF FwSides, FwPcs
  <2> HIDE DEF q
  <2>3. fw' \in [Fetchers -> FwSides] /\ fw'["round"] = q /\ fw'["op"] = fw["op"]
    BY <1>0, <2>1, <2>2, FetcherTurn DEF Fetchers
  <2>4. FwTypes' /\ OpInv'
    BY <1>0, <1>1, <2>3, OpKeeps DEF FwTypes
  <2>5. Alone' /\ RoundWaits'
    BY <2>2, <2>3 DEF Alone, RoundWaits
  <2>6. fw["round"].still /\ Ahead => fwOurs = fwUp
    BY <1>0, <1>1, <1>3 DEF RoundWaits
  <2>7. Ahead' <=> Ahead
    BY <1>1, <2>2, <2>3 DEF Ahead
  <2>8. Settled'
    BY <2>2, <2>3, <2>6, <2>7 DEF Settled
  <2> QED
    BY <1>2, <2>4, <2>5, <2>8 DEF FwInv
<1>4. CASE fw' = [Disturbed EXCEPT !["round"].pc = "idle"]
  <2>1. fw' \in [Fetchers -> FwSides] /\ ~fw'["round"].still /\ fw'["op"] = fw["op"]
    BY <1>0, <1>4 DEF Disturbed, FwSides, Fetchers, FwPcs
  <2>2. FwTypes' /\ OpInv'
    BY <1>0, <1>1, <2>1, OpKeeps DEF FwTypes
  <2>3. Alone' /\ RoundWaits' /\ Settled'
    BY <2>1, RoundDisturbed
  <2> QED
    BY <1>2, <2>2, <2>3 DEF FwInv
<1> QED
  BY <1>3, <1>4 DEF RoundEnds

\* The operation ends or begins anew while a round is disturbed.
LEMMA DisturbedBy ==
    ASSUME FwInv, NEW o \in FwSides, fw' = [Disturbed EXCEPT !["op"] = o]
    PROVE  fw' \in [Fetchers -> FwSides] /\ ~fw'["round"].still /\ fw'["op"] = o
BY DEF FwInv, FwTypes, Disturbed, FwSides, Fetchers

\* An operator starts an operation.
LEMMA OpByHandStep ==
    ASSUME FwInv, OpByHand
    PROVE  FwInv'
<1> DEFINE o == [FwIdle EXCEPT !.pc = "start"]
<1>0. FwTypes /\ StoredInv /\ OpInv
  BY DEF FwInv
<1>1. fw' = [Disturbed EXCEPT !["op"] = o] /\ UNCHANGED <<fwUp, fwOurs, fwStored, fwOrphans, fwScratch, fwLast>>
  BY DEF OpByHand
<1>2. o \in FwSides /\ o.pc = "start"
  BY IdleTyped DEF FwSides, FwPcs
<1> HIDE DEF o
<1>3. fw' \in [Fetchers -> FwSides] /\ ~fw'["round"].still /\ fw'["op"] = o
  BY <1>1, <1>2, DisturbedBy
<1>4. FwTypes' /\ StoredInv'
  BY <1>0, <1>1, <1>3, StoredKeeps DEF FwTypes
<1>5. OpInv'
  BY <1>2, <1>3 DEF OpInv
<1> QED
  BY <1>3, <1>4, <1>5, RoundDisturbed DEF FwInv

\* A publish fails.
LEMMA OpFailsStep ==
    ASSUME FwInv, OpFails
    PROVE  FwInv'
<1>0. FwTypes /\ StoredInv
  BY DEF FwInv
<1>1. fw' = [Disturbed EXCEPT !["op"] = FwIdle] /\ UNCHANGED <<fwUp, fwOurs, fwStored, fwOrphans, fwScratch, fwLast>>
  BY DEF OpFails
<1>2. fw' \in [Fetchers -> FwSides] /\ ~fw'["round"].still /\ fw'["op"] = FwIdle
  BY <1>1, IdleTyped, DisturbedBy
<1>3. FwTypes' /\ StoredInv'
  BY <1>0, <1>1, <1>2, StoredKeeps DEF FwTypes
<1>4. OpInv'
  BY <1>2, IdleTyped DEF OpInv
<1> QED
  BY <1>2, <1>3, <1>4, RoundDisturbed DEF FwInv

\* An operation begins: leftovers are pruned.
LEMMA OpBeginsStep ==
    ASSUME FwBusy = FALSE, FwInv, OpBegins
    PROVE  FwInv'
<1> DEFINE o == [fw["op"] EXCEPT !.pc = IF fw["op"].prefetched THEN "read" ELSE "clear", !.have = fwOurs]
<1>0. /\ FwTypes /\ StoredInv /\ OpInv /\ Alone /\ RoundWaits /\ Settled /\ fw["op"] \in FwSides
      /\ fw \in [Fetchers -> FwSides] /\ fwOurs \in Tips
  BY DEF FwInv, FwTypes, Fetchers
<1>1. /\ fw["op"].pc = "start" /\ fwOrphans' = {} /\ UNCHANGED <<fwUp, fwOurs, fwStored, fwScratch, fwLast>>
  BY DEF OpBegins, Synced
<1>2. fw' = [fw EXCEPT !["op"] = o]
  BY <1>0 DEF OpBegins
<1>3. o \in FwSides /\ o.pc = (IF fw["op"].prefetched THEN "read" ELSE "clear") /\ o.have = fwOurs
  BY <1>0 DEF FwSides, FwPcs
<1> HIDE DEF o
<1>4. fw' \in [Fetchers -> FwSides] /\ fw'["op"] = o /\ fw'["round"] = fw["round"]
  BY <1>0, <1>2, <1>3, FetcherTurn DEF Fetchers
<1>5. FwTypes' /\ StoredInv'
  BY <1>0, <1>1, <1>4, StoredKeeps DEF FwTypes
<1>6. OpInv'
  BY <1>1, <1>3, <1>4 DEF OpInv
<1>7. Alone' /\ Settled'
  BY <1>0, <1>1, <1>4, OpAtWork
<1>8. Brought => Brought'
  BY <1>1 DEF Brought, AllThere
<1>9. RoundWaits'
  <2>1. SUFFICES ASSUME fw["round"].still, fw["round"].pc = "wait"
                 PROVE  RoundWaits'
    BY <1>4 DEF RoundWaits
  <2>2. AllThere /\ fwOurs = fw["round"].have /\ fw["op"].prefetched /\ Brought
    BY <1>0, <1>1, <2>1 DEF RoundWaits
  <2>3. AllThere'
    BY <1>1, <2>2 DEF AllThere
  <2> QED
    BY <1>1, <1>3, <1>4, <1>8, <2>2, <2>3 DEF RoundWaits
<1> QED
  BY <1>5, <1>6, <1>7, <1>9 DEF FwInv

\* The operation ends: what a round that waits for it may then count on.
LEMMA OpEnded ==
    ASSUME Alone, RoundWaits, Settled, fw["op"].pc # "idle", fw'["round"] = fw["round"], fw'["op"] = FwIdle, fwUp' = fwUp,
           fw["round"].still /\ fw["round"].pc = "wait" /\ Ahead => fwOurs' = fwUp
    PROVE  OpInv' /\ Alone' /\ RoundWaits' /\ Settled'
<1>1. Alone' /\ Settled'
  BY OpAtWork
<1>2. OpInv'
  BY IdleTyped DEF OpInv
<1>3. (Ahead' <=> Ahead) /\ (AllThere' <=> AllThere)
  BY DEF Ahead, AllThere
<1>4. fw["round"].still /\ fw["round"].pc = "wait" => AllThere
  BY DEF RoundWaits
<1>5. RoundWaits'
  BY <1>3, <1>4, IdleTyped DEF RoundWaits
<1> QED
  BY <1>1, <1>2, <1>5

\* What the tips reach is looked for; for a round that waits, it is there.
LEMMA OpVerifiesStep ==
    ASSUME FwChecks = TRUE, FwInv, OpVerifies
    PROVE  FwInv'
<1> DEFINE pack == fw["op"].pack
           opens == pack = NoPack \/ pack \in fwScratch.packs
           publishes == opens /\ Connected(pack) /\ \E r \in Moved("op") : Forward(r)
<1>0. /\ FwTypes /\ StoredInv /\ OpInv /\ Alone /\ RoundWaits /\ Settled /\ fw["op"] \in FwSides
      /\ fw \in [Fetchers -> FwSides] /\ pack \in SUBSET FwCommits
  BY DEF FwInv, FwTypes, Fetchers, FwSides
<1>1. fw["op"].pc = "plan" /\ UNCHANGED <<fwUp, fwOurs, fwStored, fwLast>>
  BY DEF OpVerifies
<1>2. fwOrphans = {}
  BY <1>0, <1>1 DEF OpInv
<1>3. StoredInv'
  BY <1>0, <1>1, StoredKeeps
<1>4. fw["round"].still /\ fw["round"].pc = "wait" =>
        /\ AllThere /\ fw["op"].have = fwOurs /\ fwOurs = fw["round"].have /\ fw["op"].tips = fwUp
        /\ opens /\ \A r \in FwRefs : Reach(fwUp[r]) \subseteq fwStored \cup pack
  BY <1>0, <1>1 DEF RoundWaits
<1>5. OpEnds => fw' \in [Fetchers -> FwSides] /\ fw'["round"] = fw["round"] /\ fw'["op"] = FwIdle
  BY <1>0, IdleTyped, FetcherTurn DEF OpEnds, Fetchers
<1>6. Connected(pack) <=> \A r \in Moved("op") : Reach(fw["op"].tips[r]) \subseteq fwStored \cup pack
  <2>1. Visible \cup pack = fwStored \cup pack
    BY <1>2 DEF Visible
  <2> QED
    BY <2>1 DEF Connected
<1>7. Discarded("op") => fwScratch' \in [tips : Tips, packs : SUBSET SUBSET FwCommits]
  BY <1>0 DEF Discarded, FwTypes
<1>8. CASE Moved("op") = {}
  <2>1. Discarded("op") /\ OpEnds /\ UNCHANGED fwOrphans
    BY <1>8 DEF OpVerifies
  <2>2. FwTypes'
    BY <1>0, <1>1, <1>5, <1>7, <2>1 DEF FwTypes
  <2>3. fw["round"].still /\ fw["round"].pc = "wait" => fwOurs' = fwUp
    <3>1. SUFFICES ASSUME fw["round"].still, fw["round"].pc = "wait" PROVE fwOurs = fwUp
      BY <1>1
    <3>2. \A r \in FwRefs : fwUp[r] # 0 /\ fw["op"].tips[r] \in {0, fw["op"].have[r]}
      BY <1>4, <1>8, <3>1 DEF Moved, AllThere
    <3>3. \A r \in FwRefs : fwOurs[r] = fwUp[r]
      BY <1>4, <3>1, <3>2
    <3>4. fwOurs \in Tips /\ fwUp \in Tips
      BY <1>0 DEF FwTypes
    <3> QED
      BY <3>3, <3>4, TipsEqual
  <2>4. OpInv' /\ Alone' /\ RoundWaits' /\ Settled'
    BY <1>0, <1>1, <1>5, <2>1, <2>3, OpEnded
  <2> QED
    BY <1>3, <2>2, <2>4 DEF FwInv
<1>9. CASE Moved("op") # {} /\ publishes
  <2> DEFINE o == [fw["op"] EXCEPT !.pc = "publish"]
  <2>1. fw' = [fw EXCEPT !["op"] = o] /\ UNCHANGED fwScratch /\ fwOrphans' \subseteq fwOrphans \cup pack
    BY <1>0, <1>9 DEF OpVerifies
  <2>2. o \in FwSides /\ o.pc = "publish" /\ o.have = fw["op"].have /\ o.tips = fw["op"].tips /\ o.pack = pack
    BY <1>0 DEF FwSides, FwPcs
  <2> HIDE DEF o
  <2>3. fw' \in [Fetchers -> FwSides] /\ fw'["op"] = o /\ fw'["round"] = fw["round"]
    BY <1>0, <2>1, <2>2, FetcherTurn DEF Fetchers
  <2>4. FwTypes'
    BY <1>0, <1>1, <2>1, <2>3 DEF FwTypes
  <2>5. OpInv'
    <3>1. Moved("op")' = Moved("op")
      BY <2>2, <2>3 DEF Moved
    <3>2. \A r \in Moved("op") : Reach(o.tips[r]) \subseteq fwStored \cup o.pack
      BY <1>6, <1>9, <2>2
    <3> QED
      BY <1>1, <2>2, <2>3, <3>1, <3>2 DEF OpInv
  <2>6. Alone' /\ Settled'
    BY <1>0, <1>1, <2>3, OpAtWork
  <2>7. RoundWaits'
    <3>1. AllThere' <=> AllThere
      BY <1>1 DEF AllThere
    <3> QED
      BY <1>1, <1>4, <2>2, <2>3, <3>1 DEF RoundWaits
  <2> QED
    BY <1>3, <2>4, <2>5, <2>6, <2>7 DEF FwInv
<1>10. CASE Moved("op") # {} /\ ~publishes
  <2>1. OpEnds /\ (Discarded("op") \/ UNCHANGED fwScratch) /\ fwOrphans' \subseteq fwOrphans \cup pack
    BY <1>10 DEF OpVerifies
  <2>2. FwTypes'
    BY <1>0, <1>1, <1>5, <1>7, <2>1 DEF FwTypes
  <2>3. ~(fw["round"].still /\ fw["round"].pc = "wait" /\ Ahead)
    <3>1. SUFFICES ASSUME fw["round"].still, fw["round"].pc = "wait", Ahead PROVE FALSE
      OBVIOUS
    <3>2. Moved("op") \subseteq FwRefs
      BY DEF Moved
    <3>3. Connected(pack) /\ opens
      BY <1>4, <1>6, <3>1, <3>2
    <3>4. \A r \in Moved("op") : Forward(r)
      BY <1>4, <3>1, <3>2 DEF Forward, Ahead
    <3> QED
      BY <1>10, <3>3, <3>4
  <2>4. OpInv' /\ Alone' /\ RoundWaits' /\ Settled'
    BY <1>0, <1>1, <1>5, <2>1, <2>3, OpEnded
  <2> QED
    BY <1>3, <2>2, <2>4 DEF FwInv
<1> QED
  BY <1>8, <1>9, <1>10

\* The publish: what lands is stored, and for a round that waits all of it lands.
LEMMA OpPublishesStep ==
    ASSUME FwInv, OpPublishes
    PROVE  FwInv'
<1>0. /\ FwTypes /\ StoredInv /\ OpInv /\ Alone /\ RoundWaits /\ Settled /\ fw["op"] \in FwSides
      /\ fw \in [Fetchers -> FwSides]
  BY DEF FwInv, FwTypes, Fetchers
<1>1. PICK lands : lands = {r \in Moved("op") : Forward(r) /\ fwOurs[r] = fw["op"].have[r]}
  OBVIOUS
<1>2. /\ fw["op"].pc = "publish" /\ fwUp' = fwUp
      /\ fwOurs' = [r \in FwRefs |-> IF r \in lands THEN fw["op"].tips[r] ELSE fwOurs[r]]
      /\ fwStored' = (IF lands = {} THEN fwStored ELSE fwStored \cup fw["op"].pack)
      /\ fwOrphans' = (IF lands = {} THEN fwOrphans ELSE fwOrphans \ fw["op"].pack)
      /\ fwLast' = {[ref |-> r, old |-> fwOurs[r], new |-> fw["op"].tips[r]] : r \in lands}
      /\ Discarded("op") /\ OpEnds
  BY <1>1 DEF OpPublishes
<1>3. lands \subseteq Moved("op") /\ lands \subseteq FwRefs
  BY <1>1 DEF Moved
<1>4. fw' \in [Fetchers -> FwSides] /\ fw'["round"] = fw["round"] /\ fw'["op"] = FwIdle
  BY <1>0, <1>2, IdleTyped, FetcherTurn DEF OpEnds, Fetchers
<1>5. fw["op"].tips \in Tips /\ fw["op"].pack \in SUBSET FwCommits /\ fwOurs \in Tips /\ fwUp \in Tips
  BY <1>0 DEF FwSides, FwTypes
<1>6. fwOurs' \in Tips
  BY <1>2, <1>5 DEF Tips
<1>7. FwTypes'
  <2>1. fwScratch' \in [tips : Tips, packs : SUBSET SUBSET FwCommits]
    BY <1>0, <1>2 DEF Discarded, FwTypes
  <2> QED
    BY <1>0, <1>2, <1>4, <1>5, <1>6, <2>1 DEF FwTypes
<1>8. StoredInv'
  <2>1. \A r \in lands : Reach(fw["op"].tips[r]) \subseteq fwStored'
    BY <1>0, <1>2, <1>3 DEF OpInv
  <2>2. \A r \in FwRefs : Reach(fwOurs[r]) \subseteq fwStored'
    BY <1>0, <1>2 DEF StoredInv
  <2>3. \A r \in FwRefs : Reach(fwOurs'[r]) \subseteq fwStored'
    BY <1>2, <2>1, <2>2
  <2>4. \A r \in lands : fwOurs[r] \in Reach(fw["op"].tips[r]) \cup {0}
    BY <1>1 DEF Forward
  <2>5. \A u \in fwLast' : u.old \in Reach(u.new) \cup {0}
    BY <1>2, <2>4
  <2> QED
    BY <2>3, <2>5 DEF StoredInv
<1>9. fw["round"].still /\ fw["round"].pc = "wait" /\ Ahead => fwOurs' = fwUp
  <2>1. SUFFICES ASSUME fw["round"].still, fw["round"].pc = "wait", Ahead PROVE fwOurs' = fwUp
    OBVIOUS
  <2>2. AllThere /\ fw["op"].have = fwOurs /\ fwOurs = fw["round"].have /\ fw["op"].tips = fwUp
    BY <1>0, <1>2, <2>1 DEF RoundWaits
  <2>3. \A r \in Moved("op") : r \in lands
    <3>1. \A r \in Moved("op") : r \in FwRefs
      BY DEF Moved
    <3> QED
      BY <1>1, <2>1, <2>2, <3>1 DEF Forward, Ahead
  <2>4. \A r \in FwRefs : r \notin lands => fwOurs[r] = fwUp[r]
    BY <2>2, <2>3 DEF Moved, AllThere
  <2>5. \A r \in FwRefs : fwOurs'[r] = fwUp[r]
    BY <1>2, <2>2, <2>4
  <2> QED
    BY <1>5, <1>6, <2>5, TipsEqual
<1>10. OpInv' /\ Alone' /\ RoundWaits' /\ Settled'
  BY <1>0, <1>2, <1>4, <1>9, OpEnded
<1> QED
  BY <1>7, <1>8, <1>10 DEF FwInv

\* Somebody moves refs beside the round.
LEMMA MovesDisturb ==
    ASSUME FwTypes, fw' = Disturbed
    PROVE  fw' \in [Fetchers -> FwSides] /\ ~fw'["round"].still /\ fw'["op"] = fw["op"]
<1> DEFINE q == [fw["round"] EXCEPT !.still = FALSE]
<1>1. fw["round"] \in FwSides /\ "round" \in Fetchers /\ "op" \in Fetchers
  BY DEF FwTypes, Fetchers
<1>2. q \in FwSides /\ q.still = FALSE
  BY <1>1 DEF FwSides
<1>3. fw' = [fw EXCEPT !["round"] = q]
  BY <1>1 DEF Disturbed, FwTypes
<1> HIDE DEF q
<1> QED
  BY <1>1, <1>2, <1>3, FetcherTurn

\* The upstream moves.
LEMMA UpstreamMovesStep ==
    ASSUME FwInv, UpstreamMoves
    PROVE  FwInv'
<1>0. FwTypes /\ StoredInv /\ OpInv
  BY DEF FwInv
<1>1. fw' = Disturbed /\ UNCHANGED <<fwOurs, fwStored, fwOrphans, fwScratch, fwLast>>
  BY DEF UpstreamMoves
<1>2. fw' \in [Fetchers -> FwSides] /\ ~fw'["round"].still /\ fw'["op"] = fw["op"]
  BY <1>0, <1>1, MovesDisturb
<1>3. fwUp' \in Tips
  BY <1>0 DEF UpstreamMoves, FwTypes, Tips
<1>4. FwTypes'
  BY <1>0, <1>1, <1>2, <1>3 DEF FwTypes
<1>5. StoredInv' /\ OpInv'
  BY <1>0, <1>1, <1>2, StoredKeeps, OpKeeps
<1> QED
  BY <1>2, <1>4, <1>5, RoundDisturbed DEF FwInv

\* A push of ours.
LEMMA OursMovesStep ==
    ASSUME FollowAssumption, FwInv, OursMoves
    PROVE  FwInv'
<1>0. FwTypes /\ StoredInv /\ OpInv /\ fwOurs \in Tips
  BY DEF FwInv, FwTypes
<1>1. fw' = Disturbed /\ UNCHANGED <<fwUp, fwScratch, fwLast>>
  BY DEF OursMoves
<1>2. fw' \in [Fetchers -> FwSides] /\ ~fw'["round"].still /\ fw'["op"] = fw["op"]
  BY <1>0, <1>1, MovesDisturb
<1>3. PICK r \in FwRefs, c \in FwCommits \cup {0} :
         /\ fwOurs' = [fwOurs EXCEPT ![r] = c]
         /\ fwStored' = fwStored \cup Reach(c) /\ fwOrphans' = fwOrphans \ Reach(c)
  BY DEF OursMoves
<1>4. fwOurs' \in Tips /\ fwOurs'[r] = c /\ \A s \in FwRefs : s # r => fwOurs'[s] = fwOurs[s]
  BY <1>0, <1>3 DEF Tips
<1>5. Reach(c) \subseteq FwCommits
  BY ReachTyped
<1>6. FwTypes'
  BY <1>0, <1>1, <1>2, <1>3, <1>4, <1>5 DEF FwTypes
<1>7. StoredInv'
  <2>1. \A s \in FwRefs : Reach(fwOurs'[s]) \subseteq fwStored'
    BY <1>0, <1>3, <1>4 DEF StoredInv
  <2> QED
    BY <1>0, <1>1, <2>1 DEF StoredInv
<1>8. OpInv'
  BY <1>0, <1>2, <1>3, OpKeeps
<1> QED
  BY <1>2, <1>6, <1>7, <1>8, RoundDisturbed DEF FwInv

\* Every step of following.
LEMMA FollowStep ==
    ASSUME FollowAssumption, FwBusy = FALSE, FwChecks = TRUE, FwInv, FollowNext
    PROVE  FwInv'
BY RoundBeginsStep, RoundDecidesStep, RoundEndsStep, OpByHandStep, OpBeginsStep, OpVerifiesStep, OpPublishesStep,
   OpFailsStep, ScratchClearedStep, ScratchSeededStep, FetchRefsStep, FetchFailsStep, ReadScratchStep,
   UpstreamMovesStep, OursMovesStep DEF FollowNext

\* Where readers do not hold up the pruning of the copy, connectivity is checked, the mirror's
\* source does not go back and others leave alone what is level.
QuietIngress == FwBusy = FALSE /\ FwChecks = TRUE /\ MrReturns = FALSE /\ MrDrift = FALSE

\* At first nothing is there.
LEMMA FollowFirst ==
    ASSUME FollowAssumption, FollowInit
    PROVE  FwInv /\ MrInv
<1>1. Nowhere \in Tips /\ \A r \in FwRefs : Nowhere[r] = 0 /\ Reach(Nowhere[r]) = {}
  BY DEF Nowhere, Tips, Reach
<1>2. fw["round"] = FwIdle /\ fw["op"] = FwIdle /\ fw \in [Fetchers -> FwSides] /\ FwIdle.still = FALSE
  BY IdleTyped DEF FollowInit, Fetchers, FwIdle
<1>3. FwTypes /\ StoredInv
  BY <1>1, <1>2 DEF FollowInit, FwTypes, StoredInv
<1>4. OpInv /\ Alone /\ RoundWaits /\ Settled
  BY <1>2, IdleTyped DEF OpInv, Alone, RoundWaits, Settled
<1>5. MrTypes /\ mr.src = Nowhere /\ mr.pushed = Nowhere /\ mr.local = Nowhere /\ mr.pc = "idle" /\ mr.still = FALSE
  BY <1>1 DEF FollowInit, MrStart, MrTypes
<1>6. MrInv
  BY <1>1, <1>5 DEF MrInv, HadInv, LevelInv, TickInv, MirrorSound
<1> QED
  BY <1>3, <1>4, <1>6 DEF FwInv

\* The invariant says all of it.
LEMMA IngressFrom ==
    ASSUME FwInv, MrInv
    PROVE  IngressSound
<1>1. ReachAll(fwOurs) \subseteq fwStored
  BY DEF FwInv, StoredInv, ReachAll
<1>2. \A u \in fwLast : u.old \in Reach(u.new) \cup {0}
  BY DEF FwInv, StoredInv
<1>3. FollowSound
  BY <1>1, <1>2 DEF FollowSound, FwInv, Settled, Ahead
<1> QED
  BY <1>3 DEF IngressSound, MrInv

\* follow.rs and mirror.rs, for any refs, history, moves, faults and operations: what is
\* published is stored with all it reaches and moves forward only, a round with nobody beside
\* it catches up, and a tick of the mirror that goes through leaves the destination level.
THEOREM IngressSoundAlways == QuietIngress /\ FollowSpec => []IngressSound
<1> SUFFICES ASSUME QuietIngress
             PROVE  FollowSpec => []IngressSound
  OBVIOUS
<1>1. FollowInit => FwInv /\ MrInv
  BY FollowAssumption, FollowFirst
<1>2. FwInv /\ MrInv /\ [FollowNext \/ MirrorNext]_followVars => FwInv' /\ MrInv'
  <2> SUFFICES ASSUME FwInv, MrInv, [FollowNext \/ MirrorNext]_followVars
               PROVE  FwInv' /\ MrInv'
    OBVIOUS
  <2>1. mr' = mr => MrInv'
    BY DEF MrInv, MrTypes, HadInv, LevelInv, TickInv, MirrorSound
  <2>2. UNCHANGED <<fwUp, fwOurs, fwStored, fwOrphans, fwScratch, fw, fwLast>> => FwInv'
    <3> SUFFICES ASSUME UNCHANGED <<fwUp, fwOurs, fwStored, fwOrphans, fwScratch, fw, fwLast>>
                 PROVE  FwInv'
      OBVIOUS
    <3>1. FwTypes' /\ StoredInv' /\ OpInv'
      BY StoredKeeps, OpKeeps DEF FwInv, FwTypes
    <3>2. (Brought' <=> Brought) /\ (Ahead' <=> Ahead) /\ (AllThere' <=> AllThere)
      BY DEF Brought, Ahead, AllThere
    <3>3. Alone' /\ RoundWaits' /\ Settled'
      BY <3>2 DEF FwInv, Alone, RoundWaits, Settled
    <3> QED
      BY <3>1, <3>3 DEF FwInv
  <2>3. CASE FollowNext
    <3>1. mr' = mr
      BY <2>3 DEF FollowNext, RoundBegins, RoundDecides, RoundEnds, OpByHand, OpBegins, OpVerifies, OpPublishes, OpFails,
         ScratchCleared, ScratchSeeded, FetchRefs, FetchFails, ReadScratch, UpstreamMoves, OursMoves
    <3> QED
      BY <2>1, <2>3, <3>1, FollowStep, FollowAssumption DEF QuietIngress
  <2>4. CASE MirrorNext
    BY <2>2, <2>4, MirrorStep, FollowAssumption DEF QuietIngress, MirrorNext, MrRest
  <2>5. CASE UNCHANGED followVars
    BY <2>1, <2>2, <2>5 DEF followVars
  <2> QED
    BY <2>3, <2>4, <2>5
<1>3. FwInv /\ MrInv => IngressSound
  BY IngressFrom
<1> QED
  BY <1>1, <1>2, <1>3, PTL DEF FollowSpec
=============================================================================
