-------------------------- MODULE WalPublishProofs --------------------------
(***************************************************************************)
(* The publish path keeps its types, keeps its log, tells clients the      *)
(* truth and implements the atomic register of refs (RefRegister), for any *)
(* number of instances, pushes, refs and faults and any retry, grace and   *)
(* burn limits.  The types hold whatever RaceKinds there are; the rest as  *)
(* long as none of them happens.                                           *)
(***************************************************************************)
EXTENDS WalPublish, TLAPS, NaturalsInduction, WellFoundedInduction, FiniteSetTheorems

(***************************************************************************)
(* What replaying a log computes, for every finite log.                    *)
(***************************************************************************)

\* A nonempty set of naturals with an upper bound has a greatest element.
LEMMA MaxExists ==
    ASSUME NEW N \in Nat, NEW S \in SUBSET (0 .. N), S # {}
    PROVE  \E m \in S : \A t \in S : t <= m
<1> DEFINE D == {e \in Nat : \E t \in S : e = N - t}
<1>1. D \subseteq Nat /\ D # {}
  <2>1. PICK t \in S : TRUE
    OBVIOUS
  <2>2. N - t \in D
    BY <2>1
  <2> QED
    BY <2>2
<1>2. PICK d \in D : \A e \in D : ~(<<e, d>> \in OpToRel(<, Nat))
  <2> HIDE DEF D
  <2> QED
    BY <1>1, NatLessThanWellFounded, WFMin
<1>3. \A e \in D : ~(e < d)
  BY <1>1, <1>2, Zenon DEF OpToRel
<1>4. PICK m \in S : d = N - m
  OBVIOUS
<1>5. \A t \in S : t <= m
  <2> TAKE t \in S
  <2>1. N - t \in D
    OBVIOUS
  <2> QED
    BY <1>3, <1>4, <2>1
<1> QED
  BY <1>4, <1>5

\* The seqs of a log: positive and bounded.
SeqSet(S) == \E N \in Nat : S \in SUBSET (1 .. N)

\* Seqs are natural numbers, and part of a log has seqs too.
LEMMA SeqSetFacts ==
    ASSUME NEW S, SeqSet(S)
    PROVE  /\ \A s \in S : s \in Nat /\ s > 0
           /\ \A T \in SUBSET S : SeqSet(T)
BY DEF SeqSet

\* LastOf is the last seq of a set of seqs.
LEMMA LastOfFacts ==
    ASSUME NEW S, SeqSet(S), S # {}
    PROVE  LastOf(S) \in S /\ \A t \in S : t <= LastOf(S)
<1>0. PICK N \in Nat : S \in SUBSET (1 .. N)
  BY DEF SeqSet
<1>1. \A t \in S : t \in 0 .. N
  BY <1>0
<1>2. \E m \in S : \A t \in S : t <= m
  BY <1>1, MaxExists
<1> QED
  BY <1>2 DEF LastOf

\* Nothing but the greatest element is LastOf.
LEMMA LastOfUnique ==
    ASSUME NEW S, SeqSet(S), NEW m \in S, \A t \in S : t <= m
    PROVE  LastOf(S) = m
<1>1. LastOf(S) \in S /\ \A t \in S : t <= LastOf(S)
  BY LastOfFacts
<1>2. m \in Nat /\ LastOf(S) \in Nat
  BY <1>1, SeqSetFacts
<1> QED
  BY <1>1, <1>2

\* The updates of a transaction write ref values to refs.
LEMMA TxnType ==
    ASSUME NEW txn \in Txns
    PROVE  /\ DOMAIN txn \subseteq Refs
           /\ \A r \in DOMAIN txn : txn[r].new \in RefValues
<1>1. PICK S \in SUBSET Refs : txn \in [S -> [old : RefValues \cup {Unchecked}, new : RefValues]]
  BY DEF Txns
<1> QED
  BY <1>1

\* Applying a transaction to a set of refs gives a set of refs.
LEMMA ApplyType ==
    ASSUME NEW txn \in Txns, NEW table \in RefMaps
    PROVE  ApplyTxn(txn, table) \in RefMaps
BY TxnType DEF ApplyTxn, RefMaps

\* Replaying transactions over a set of refs gives a set of refs.
LEMMA ReplayType ==
    ASSUME NEW seqs, SeqSet(seqs), NEW entry,
           \A s \in seqs : entry[s] \in Txns,
           NEW table \in RefMaps
    PROVE  Replay(table, seqs, entry) \in RefMaps
<1> SUFFICES ASSUME NEW r \in Refs
             PROVE  Replay(table, seqs, entry)[r] \in RefValues
  BY DEF Replay, RefMaps
<1> DEFINE W == Writers(r, seqs, entry)
<1>1. CASE W = {}
  BY <1>1 DEF Replay, RefMaps
<1>2. CASE W # {}
  <2>1. SeqSet(W)
    BY SeqSetFacts DEF Writers
  <2>2. LastOf(W) \in W
    BY <1>2, <2>1, LastOfFacts
  <2>3. entry[LastOf(W)][r].new \in RefValues
    BY <2>2, TxnType DEF Writers
  <2> QED
    BY <1>2, <2>3 DEF Replay
<1> QED
  BY <1>1, <1>2

\* A replay looks only at the entries it replays.
LEMMA ReplayCong ==
    ASSUME NEW seqs, SeqSet(seqs), NEW e, NEW f,
           \A s \in seqs : e[s] = f[s], NEW table
    PROVE  Replay(table, seqs, e) = Replay(table, seqs, f)
<1> SUFFICES ASSUME NEW r \in Refs
             PROVE  Replay(table, seqs, e)[r] = Replay(table, seqs, f)[r]
  BY DEF Replay
<1> DEFINE W == Writers(r, seqs, e)
<1>1. W = Writers(r, seqs, f)
  BY DEF Writers
<1>2. CASE W = {}
  BY <1>1, <1>2 DEF Replay
<1>3. CASE W # {}
  <2>1. SeqSet(W)
    BY SeqSetFacts DEF Writers
  <2>2. LastOf(W) \in W
    BY <1>3, <2>1, LastOfFacts
  <2>3. e[LastOf(W)] = f[LastOf(W)]
    BY <2>2 DEF Writers
  <2> QED
    BY <1>1, <1>3, <2>3 DEF Replay
<1> QED
  BY <1>2, <1>3

\* Replaying one more entry at the end applies its transaction last.
LEMMA ReplayAppend ==
    ASSUME NEW seqs, SeqSet(seqs), NEW n \in Nat, n > 0,
           \A s \in seqs : s < n, NEW entry, NEW table
    PROVE  Replay(table, seqs \cup {n}, entry) = ApplyTxn(entry[n], Replay(table, seqs, entry))
<1> SUFFICES ASSUME NEW r \in Refs
             PROVE  Replay(table, seqs \cup {n}, entry)[r]
                      = ApplyTxn(entry[n], Replay(table, seqs, entry))[r]
  BY DEF Replay, ApplyTxn
<1> DEFINE W == Writers(r, seqs, entry)
           X == Writers(r, seqs \cup {n}, entry)
<1>1. CASE r \in DOMAIN entry[n]
  <2>1. n \in X /\ SeqSet(X) /\ \A t \in X : t <= n
    <3>1. n \in X /\ \A t \in X : t \in seqs \/ t = n
      BY <1>1 DEF Writers
    <3> HIDE DEF X
    <3>2. \A t \in X : t \in 1 .. n
      BY <3>1, SeqSetFacts
    <3> QED
      BY <3>1, <3>2 DEF SeqSet
  <2> HIDE DEF X
  <2>2. LastOf(X) = n
    BY <2>1, LastOfUnique
  <2> QED
    BY <1>1, <2>1, <2>2 DEF Replay, ApplyTxn, X
<1>2. CASE r \notin DOMAIN entry[n]
  <2>1. X = W
    BY <1>2 DEF Writers
  <2> QED
    BY <1>2, <2>1 DEF Replay, ApplyTxn
<1> QED
  BY <1>1, <1>2

\* The value of a ref is the one its last writer in the log gave it.
LEMMA FoldLast ==
    ASSUME NEW seqs, SeqSet(seqs), NEW entry, NEW table,
           NEW r \in Refs, NEW s \in seqs, r \in DOMAIN entry[s],
           \A t \in seqs : r \in DOMAIN entry[t] => t <= s
    PROVE  Replay(table, seqs, entry)[r] = entry[s][r].new
<1> DEFINE W == Writers(r, seqs, entry)
<1>1. s \in W /\ SeqSet(W) /\ \A t \in W : t <= s
  BY SeqSetFacts DEF Writers
<1> HIDE DEF W
<1>2. LastOf(W) = s
  BY <1>1, LastOfUnique
<1> QED
  BY <1>1, <1>2 DEF Replay, W

\* A ref with no writer in the log keeps the value it had.
LEMMA FoldNone ==
    ASSUME NEW seqs, NEW entry, NEW table, NEW r \in Refs,
           \A t \in seqs : r \notin DOMAIN entry[t]
    PROVE  Replay(table, seqs, entry)[r] = table[r]
<1>1. Writers(r, seqs, entry) = {}
  BY DEF Writers
<1> QED
  BY <1>1 DEF Replay

\* If every ref is current or has a writer after a, then replaying the entries
\* after a and up to h leaves every ref current or with a writer after h.
LEMMA ReplayCatchesUp ==
    ASSUME NEW seqs, SeqSet(seqs), NEW a \in Nat, NEW h \in Nat,
           NEW entry, NEW table,
           \A r \in Refs : \/ \E s \in seqs : s > a /\ r \in DOMAIN entry[s]
                           \/ table[r] = Fold(seqs, entry)[r],
           NEW r \in Refs, ~\E s \in seqs : s > h /\ r \in DOMAIN entry[s]
    PROVE  Replay(table, {s \in seqs : s <= h /\ s > a}, entry)[r] = Fold(seqs, entry)[r]
<1> DEFINE part == {s \in seqs : s <= h /\ s > a}
           W == Writers(r, part, entry)
<1>0. SeqSet(W)
  <2>1. W \subseteq seqs
    BY DEF Writers
  <2> QED
    BY <2>1, SeqSetFacts
<1>1. CASE W = {}
  <2>1. ~\E s \in seqs : s > a /\ r \in DOMAIN entry[s]
    <3>1. \A s \in seqs : s \in Nat
      BY SeqSetFacts
    <3> QED
      BY <1>1, <3>1 DEF Writers
  <2> QED
    BY <1>1, <2>1 DEF Replay
<1>2. CASE W # {}
  <2>1. PICK m \in W : \A t \in W : t <= m
    BY <1>0, <1>2, LastOfFacts
  <2>2. m \in part /\ m \in seqs /\ r \in DOMAIN entry[m] /\ m > a
    BY <2>1 DEF Writers
  <2>3. ASSUME NEW t \in seqs, r \in DOMAIN entry[t] PROVE t <= m
    <3>1. t \in Nat /\ m \in Nat /\ t <= h
      BY <2>2, <2>3, SeqSetFacts
    <3>2. CASE t > a
      <4>1. t \in W
        BY <2>3, <3>1, <3>2 DEF Writers
      <4> QED
        BY <2>1, <4>1
    <3>3. CASE ~(t > a)
      BY <2>2, <3>1, <3>3
    <3> QED
      BY <3>2, <3>3
  <2> DEFINE X == Writers(r, seqs, entry)
  <2>4. m \in X /\ SeqSet(X) /\ \A t \in X : t <= m
    <3>1. X \subseteq seqs
      BY DEF Writers
    <3> QED
      BY <2>2, <2>3, <3>1, SeqSetFacts DEF Writers
  <2> HIDE DEF W, X
  <2>5. LastOf(X) = m
    BY <2>4, LastOfUnique
  <2>6. LastOf(W) = m
    BY <1>0, <2>1, LastOfUnique
  <2>7. Fold(seqs, entry)[r] = entry[m][r].new
    BY <2>4, <2>5 DEF Fold, Replay, X
  <2>8. Replay(table, part, entry)[r] = entry[m][r].new
    BY <1>2, <2>6 DEF Replay, W
  <2> QED
    BY <2>7, <2>8
<1> QED
  BY <1>1, <1>2

(***************************************************************************)
(* Type correctness.                                                       *)
(***************************************************************************)

\* The publisher has a push while it works, and a slot it can name.
PubTyped(q) ==
    /\ q.pc # "idle" => q.push \in Pushes
    /\ q.pc = "claim" => q.seq # 0
    /\ q.pc \in {"probe", "head", "cas", "landed", "headver", "local", "drop"} =>
          q.seq \in Seqs

\* A sync made for the publisher has a publisher waiting for it.
SyncTyped(i) == sy[i].pc # "idle" /\ sy[i].who = "pub" => pb[i].pc = "sync"

\* TypeOK and what makes it inductive.
TypeInv ==
    /\ TypeOK
    /\ \A i \in Instances : PubTyped(pb[i]) /\ SyncTyped(i)

\* The log holds the transactions of pushes.
LEMMA EntryType ==
    ASSUME TypeOK
    PROVE  /\ DOMAIN Entry \subseteq Seqs
           /\ \A s \in DOMAIN Entry : Entry[s] = TxnOf[log[s].push] /\ Entry[s] \in Txns
BY ConstantsAssumption DEF TypeOK, Entry

\* The empty set of refs is a set of refs.
LEMMA NoRefsType == NoRefs \in RefMaps
BY DEF NoRefs, RefMaps, RefValues

\* Replaying readable segments over a set of refs gives a set of refs.
LEMMA FoldType ==
    ASSUME TypeOK, NEW segs \in SUBSET Seqs, Readable(segs), NEW rs \in RefMaps
    PROVE  Replay(rs, segs, Entry) \in RefMaps
<1>1. \A s \in segs : Entry[s] \in Txns
  BY EntryType DEF Readable
<1>2. SeqSet(segs)
  BY ConstantsAssumption DEF SeqSet, Seqs
<1> HIDE DEF Entry
<1> QED
  BY <1>1, <1>2, ReplayType

\* The idle records have their types.
LEMMA IdleType == IdleSync \in SyncRecs /\ IdlePub \in PubRecs /\ EmptyManifest \in Manifests
BY ConstantsAssumption
   DEF IdleSync, IdlePub, SyncRecs, PubRecs, EmptyManifest, Manifests, SyncPcs, PubPcs, Seqs

\* The initial state.
LEMMA TypeInit == Init => TypeInv
<1> SUFFICES ASSUME Init PROVE TypeInv
  OBVIOUS
<1> USE IdleType, NoRefsType DEF Init
<1>1. TypeOK
  BY ConstantsAssumption DEF TypeOK, Statuses
<1>2. \A i \in Instances : PubTyped(pb[i]) /\ SyncTyped(i)
  BY DEF PubTyped, IdlePub, SyncTyped, IdleSync
<1> QED
  BY <1>1, <1>2 DEF TypeInv

\* The publisher of i moves, and its sync stays or ends.
LEMMA PubUpdate ==
    ASSUME TypeInv, NEW i \in Instances, NEW q \in PubRecs, PubTyped(q),
           pb' = [pb EXCEPT ![i] = q],
           \/ sy' = sy /\ (q.pc = "sync" \/ pb[i].pc # "sync" \/ sy[i].pc = "idle")
           \/ sy' = [sy EXCEPT ![i] = IdleSync]
    PROVE  /\ pb' \in [Instances -> PubRecs]
           /\ \A j \in Instances : PubTyped(pb'[j]) /\ SyncTyped(j)'
<1>1. pb \in [Instances -> PubRecs] /\ sy \in [Instances -> SyncRecs]
  BY DEF TypeInv, TypeOK
<1>2. \A j \in Instances : PubTyped(pb'[j])
  BY <1>1 DEF TypeInv
<1>3. ASSUME NEW j \in Instances PROVE SyncTyped(j)'
  <2>1. CASE j # i
    BY <1>1, <2>1 DEF TypeInv, SyncTyped
  <2>2. CASE j = i /\ sy' = sy
    BY <1>1, <2>2 DEF TypeInv, SyncTyped, IdleSync
  <2>3. CASE j = i /\ sy' = [sy EXCEPT ![i] = IdleSync]
    BY <1>1, <2>3 DEF TypeInv, SyncTyped, IdleSync
  <2> QED
    BY <2>1, <2>2, <2>3
<1> QED
  BY <1>1, <1>2, <1>3

\* A sync that returns to its caller.
LEMMA ReturnType ==
    ASSUME TypeInv, NEW i \in Instances, NEW who \in {"reader", "pub"},
           who = "pub" => pb[i].pc = "sync", SyncReturns(i, who)
    PROVE  /\ pb' \in [Instances -> PubRecs]
           /\ sy' \in [Instances -> SyncRecs]
           /\ life' \in [Instances -> {"down", "open", "synced"}]
           /\ \A j \in Instances : PubTyped(pb'[j]) /\ SyncTyped(j)'
<1>1. sy' \in [Instances -> SyncRecs] /\ life' \in [Instances -> {"down", "open", "synced"}]
  BY IdleType DEF SyncReturns, TypeInv, TypeOK
<1> DEFINE q == IF who = "pub" THEN [pb[i] EXCEPT !.pc = "read"] ELSE pb[i]
<1>2. pb' = [pb EXCEPT ![i] = q] /\ sy' = [sy EXCEPT ![i] = IdleSync]
  BY DEF SyncReturns, TypeInv, TypeOK
<1>3. pb[i] \in PubRecs /\ PubTyped(pb[i])
  BY DEF TypeInv, TypeOK
<1>4. q \in PubRecs
  BY <1>3 DEF PubRecs, PubPcs
<1>5. PubTyped(q)
  BY <1>3 DEF PubTyped, PubRecs
<1> HIDE DEF q
<1> QED
  BY <1>1, <1>2, <1>4, <1>5, PubUpdate

\* A publisher that answers its client.
LEMMA AnswerType ==
    ASSUME TypeInv, NEW i \in Instances, NEW a \in {"ok", "rejected", "error"}, Answer(i, a),
           (sy' = sy /\ (pb[i].pc # "sync" \/ sy[i].pc = "idle")) \/ sy' = [sy EXCEPT ![i] = IdleSync]
    PROVE  /\ status' \in [Pushes -> Statuses]
           /\ pb' \in [Instances -> PubRecs]
           /\ \A j \in Instances : PubTyped(pb'[j]) /\ SyncTyped(j)'
<1>1. status' \in [Pushes -> Statuses]
  BY DEF TypeInv, TypeOK, Answer, Statuses
<1>2. IdlePub \in PubRecs /\ PubTyped(IdlePub)
  BY IdleType DEF PubTyped, IdlePub
<1> QED
  BY <1>1, <1>2, PubUpdate DEF Answer

\* A publisher that starts its next attempt.
LEMMA TryAgainType ==
    ASSUME TypeInv, NEW i \in Instances, pb[i].pc \notin {"idle", "sync"}, TryAgain(i), sy' = sy
    PROVE  /\ status' \in [Pushes -> Statuses]
           /\ pb' \in [Instances -> PubRecs]
           /\ \A j \in Instances : PubTyped(pb'[j]) /\ SyncTyped(j)'
<1>1. CASE Answer(i, "error")
  BY <1>1, AnswerType
<1>2. CASE ~Answer(i, "error")
  <2> DEFINE q == [IdlePub EXCEPT !.pc = "sync", !.push = pb[i].push,
                                  !.attempts = pb[i].attempts + 1]
  <2>1. pb' = [pb EXCEPT ![i] = q] /\ UNCHANGED status
    BY <1>2 DEF TryAgain
  <2>2. pb[i].push \in Pushes /\ pb[i].attempts + 1 \in Nat
    BY DEF TypeInv, TypeOK, PubTyped, PubRecs
  <2>3. q \in PubRecs
    BY <2>2, IdleType DEF PubRecs, PubPcs
  <2>4. PubTyped(q) /\ q.pc = "sync"
    BY <2>2 DEF PubTyped, IdlePub
  <2> HIDE DEF q
  <2> QED
    BY <2>1, <2>3, <2>4, PubUpdate DEF TypeInv, TypeOK
<1> QED
  BY <1>1, <1>2

\* A sync that replays segments and installs its manifest.
LEMMA InstallType ==
    ASSUME TypeInv, NEW i \in Instances, sy[i].pc # "idle", Install(i),
           Readable(TailSeqs(i)), refs' = [refs EXCEPT ![i] = Replay(@, TailSeqs(i), Entry)],
           UNCHANGED <<bucket, status, faults>>
    PROVE  TypeInv'
<1>1. sy[i] \in SyncRecs /\ refs[i] \in RefMaps
  BY DEF TypeInv, TypeOK
<1>2. sy[i].man \in Manifests /\ sy[i].ver \in Nat /\ sy[i].who \in {"reader", "pub"}
  BY <1>1 DEF SyncRecs
<1>3. TailSeqs(i) \in SUBSET Seqs /\ sy[i].man.head \in Nat
  BY <1>2, ConstantsAssumption DEF TailSeqs, Manifests
<1>4. Replay(refs[i], TailSeqs(i), Entry) \in RefMaps
  BY <1>1, <1>3, FoldType DEF TypeInv
<1>5. sy[i].who = "pub" => pb[i].pc = "sync"
  BY DEF TypeInv, SyncTyped
<1>6. /\ pb' \in [Instances -> PubRecs]
      /\ sy' \in [Instances -> SyncRecs]
      /\ life' \in [Instances -> {"down", "open", "synced"}]
      /\ \A j \in Instances : PubTyped(pb'[j]) /\ SyncTyped(j)'
  BY <1>2, <1>5, ReturnType DEF Install
<1>7. TypeOK'
  BY <1>2, <1>3, <1>4, <1>6 DEF Install, TypeInv, TypeOK, bucket
<1> QED
  BY <1>6, <1>7 DEF TypeInv

\* The steps of a sync preserve the types.
LEMMA SyncStepType ==
    ASSUME TypeInv, NEW i \in Instances, SyncStep(i)
    PROVE  TypeInv'
<1>1. CASE SyncApply(i)
  BY <1>1, InstallType DEF SyncApply
<1>2. CASE SyncReplay(i)
  BY <1>2, InstallType DEF SyncReplay
<1>3. CASE SyncReset(i)
  <2>1. TypeOK'
    BY <1>3, NoRefsType DEF SyncReset, TypeInv, TypeOK, bucket, SyncRecs, SyncPcs
  <2>2. \A j \in Instances : PubTyped(pb'[j]) /\ SyncTyped(j)'
    BY <1>3 DEF SyncReset, TypeInv, TypeOK, SyncTyped, SyncRecs
  <2> QED
    BY <2>1, <2>2 DEF TypeInv
<1>4. CASE SyncFail(i)
  <2>0. UNCHANGED <<bucket, copy>> /\ faults' \in Nat
    BY <1>4 DEF SyncFail, Fault, TypeInv, TypeOK
  <2>1. CASE sy[i].who = "pub"
    <3>1. Answer(i, "error") /\ sy' = [sy EXCEPT ![i] = IdleSync]
      BY <1>4, <2>1 DEF SyncFail, SyncErrs, Answer
    <3>2. /\ status' \in [Pushes -> Statuses]
          /\ pb' \in [Instances -> PubRecs]
          /\ \A j \in Instances : PubTyped(pb'[j]) /\ SyncTyped(j)'
      BY <3>1, AnswerType
    <3>3. sy' \in [Instances -> SyncRecs]
      BY <3>1, IdleType DEF TypeInv, TypeOK
    <3>4. TypeOK'
      BY <2>0, <3>2, <3>3 DEF TypeInv, TypeOK, bucket, copy
    <3> QED
      BY <3>2, <3>4 DEF TypeInv
  <2>2. CASE sy[i].who # "pub"
    <3>1. TypeOK'
      BY <1>4, <2>2, IdleType DEF SyncFail, SyncErrs, Fault, TypeInv, TypeOK, bucket, copy
    <3>2. \A j \in Instances : PubTyped(pb'[j]) /\ SyncTyped(j)'
      BY <1>4, <2>2 DEF SyncFail, SyncErrs, TypeInv, TypeOK, SyncTyped, IdleSync
    <3> QED
      BY <3>1, <3>2 DEF TypeInv
  <2> QED
    BY <2>1, <2>2
<1> QED
  BY <1>1, <1>2, <1>3, <1>4 DEF SyncStep

\* So does the first one.
LEMMA SyncGetType ==
    ASSUME TypeInv, NEW i \in Instances, NEW who \in {"reader", "pub"}, SyncGet(i, who)
    PROVE  TypeInv'
<1>1. manifest \in Manifests /\ man[i] \in Manifests /\ mversion \in Nat /\ ver[i] \in Nat
  BY DEF TypeInv, TypeOK
<1>2. PICK m \in Manifests, v \in Nat, c \in {"apply", "reset"} :
        \/ /\ SyncReturns(i, who)
           /\ man' = [man EXCEPT ![i] = m] /\ ver' = [ver EXCEPT ![i] = v] /\ UNCHANGED verified
        \/ /\ sy' = [sy EXCEPT ![i] = [pc |-> c, who |-> who, man |-> m, ver |-> v]]
           /\ verified' = [verified EXCEPT ![i] = FALSE]
           /\ UNCHANGED <<life, man, ver, pb>>
  BY <1>1 DEF SyncGet
<1>3. UNCHANGED <<bucket, refs, applied, status, faults>>
  BY DEF SyncGet
<1>4. who = "pub" => pb[i].pc = "sync"
  BY DEF SyncGet
<1>5. CASE SyncReturns(i, who) /\ UNCHANGED verified
           /\ man' = [man EXCEPT ![i] = m] /\ ver' = [ver EXCEPT ![i] = v]
  <2>1. /\ pb' \in [Instances -> PubRecs]
        /\ sy' \in [Instances -> SyncRecs]
        /\ life' \in [Instances -> {"down", "open", "synced"}]
        /\ \A j \in Instances : PubTyped(pb'[j]) /\ SyncTyped(j)'
    BY <1>4, <1>5, ReturnType
  <2>2. TypeOK'
    BY <1>3, <1>5, <2>1 DEF TypeInv, TypeOK, bucket
  <2> QED
    BY <2>1, <2>2 DEF TypeInv
<1>6. CASE /\ sy' = [sy EXCEPT ![i] = [pc |-> c, who |-> who, man |-> m, ver |-> v]]
           /\ verified' = [verified EXCEPT ![i] = FALSE]
           /\ UNCHANGED <<life, man, ver, pb>>
  <2>1. [pc |-> c, who |-> who, man |-> m, ver |-> v] \in SyncRecs
    BY DEF SyncRecs, SyncPcs
  <2>2. TypeOK'
    BY <1>3, <1>6, <2>1 DEF TypeInv, TypeOK, bucket
  <2>3. \A j \in Instances : PubTyped(pb'[j]) /\ SyncTyped(j)'
    BY <1>4, <1>6 DEF TypeInv, TypeOK, SyncTyped
  <2> QED
    BY <2>2, <2>3 DEF TypeInv
<1> QED
  BY <1>2, <1>5, <1>6

\* Creating a segment leaves a log.
LEMMA PutType ==
    ASSUME TypeInv, NEW s \in Seqs, NEW p \in Pushes, PutSegment(s, p)
    PROVE  log' \in [Seqs -> [push : Pushes \cup {NoPush}, ver : Nat]]
BY DEF TypeInv, TypeOK, PutSegment

\* So does deleting some.
LEMMA DropType ==
    ASSUME TypeInv, NEW S, DropSegments(S)
    PROVE  log' \in [Seqs -> [push : Pushes \cup {NoPush}, ver : Nat]]
BY DEF TypeInv, TypeOK, DropSegments

\* The steps of the publisher preserve the types.
LEMMA PubStepType ==
    ASSUME TypeInv, NEW i \in Instances, PubStep(i) \/ PubFault(i)
    PROVE  TypeInv'
<1> DEFINE q == pb[i]
           Typed == /\ pb' \in [Instances -> PubRecs]
                    /\ \A j \in Instances : PubTyped(pb'[j]) /\ SyncTyped(j)'
           Told == status' \in [Pushes -> Statuses]
<1>0. /\ q \in PubRecs /\ PubTyped(q) /\ man[i] \in Manifests /\ ver[i] \in Nat
      /\ manifest \in Manifests /\ mversion \in Nat /\ status \in [Pushes -> Statuses]
  BY DEF TypeInv, TypeOK
<1>1. CASE SyncGet(i, "pub")
  BY <1>1, SyncGetType
<1>2. CASE PubReadManifest(i)
  <2> DEFINE p == [q EXCEPT !.pc = "readver", !.man = man[i]]
  <2>1. p \in PubRecs /\ PubTyped(p)
    BY <1>0, <1>2 DEF PubReadManifest, PubRecs, PubPcs, PubTyped
  <2>2. Typed
    BY <1>2, <2>1, PubUpdate DEF PubReadManifest
  <2>3. TypeOK'
    BY <1>2, <2>2 DEF PubReadManifest, TypeInv, TypeOK, bucket, copy
  <2> QED
    BY <2>2, <2>3 DEF TypeInv
<1>3. CASE PubVerify(i)
  <2>1. Typed /\ Told
    <3>1. CASE Answer(i, "rejected")
      BY <1>3, <3>1, AnswerType DEF PubVerify
    <3>2. CASE ~Answer(i, "rejected")
      <4>1. PICK m \in Manifests :
               pb' = [pb EXCEPT ![i].pc = "claim", ![i].man = m, ![i].ver = ver[i],
                                  ![i].seq = m.head + 1] /\ UNCHANGED status
        BY <1>0, <1>3, <3>2 DEF PubVerify, PubRecs
      <4> DEFINE p == [q EXCEPT !.pc = "claim", !.man = m, !.ver = ver[i], !.seq = m.head + 1]
      <4>2. m.head + 1 \in Nat /\ m.head + 1 # 0
        BY ConstantsAssumption DEF Manifests
      <4>3. p \in PubRecs
        BY <1>0, <4>2 DEF PubRecs, PubPcs
      <4>4. PubTyped(p)
        BY <1>0, <1>3, <4>2 DEF PubVerify, PubTyped, PubRecs
      <4>5. pb' = [pb EXCEPT ![i] = p]
        BY <4>1
      <4>6. p.pc # "sync" /\ pb[i].pc # "sync" /\ sy' = sy
        BY <1>3 DEF PubVerify
      <4> HIDE DEF p
      <4> QED
        BY <1>0, <4>1, <4>3, <4>4, <4>5, <4>6, PubUpdate
    <3> QED
      BY <3>1, <3>2
  <2>2. TypeOK'
    BY <1>3, <2>1 DEF PubVerify, TypeInv, TypeOK, bucket, copy
  <2> QED
    BY <2>1, <2>2 DEF TypeInv
<1>4. CASE PubClaim(i)
  <2>1. q.seq \in Seqs /\ q.push \in Pushes
    BY <1>0, <1>4, ConstantsAssumption DEF PubClaim, PubTyped, PubRecs, Seqs
  <2>2. log[q.seq].ver \in Nat
    BY <2>1 DEF TypeInv, TypeOK
  <2>3. log' \in [Seqs -> [push : Pushes \cup {NoPush}, ver : Nat]]
    BY <1>4, <2>1, PutType DEF PubClaim, TypeInv, TypeOK
  <2>4. Typed
    <3> DEFINE p == [q EXCEPT !.pc = "cas", !.sver = log[q.seq].ver + 1]
               r == [q EXCEPT !.pc = "probe", !.probes = 0]
    <3>1. p \in PubRecs /\ r \in PubRecs
      <4>1. log[q.seq].ver + 1 \in Nat
        BY <2>2
      <4> QED
        BY <1>0, <4>1 DEF PubRecs, PubPcs
    <3>2. PubTyped(p) /\ PubTyped(r)
      BY <1>0, <2>1 DEF PubTyped, PubRecs
    <3>3. pb' = [pb EXCEPT ![i] = p] \/ pb' = [pb EXCEPT ![i] = r]
      BY <1>4 DEF PubClaim
    <3>4. pb[i].pc # "sync" /\ sy' = sy
      BY <1>4 DEF PubClaim
    <3> HIDE DEF p, r
    <3> QED
      BY <3>1, <3>2, <3>3, <3>4, PubUpdate
  <2>5. TypeOK'
    BY <1>4, <2>3, <2>4 DEF PubClaim, TypeInv, TypeOK, copy
  <2> QED
    BY <2>4, <2>5 DEF TypeInv
<1>5. CASE PubClaimError(i)
  <2>1. q.seq \in Seqs /\ q.push \in Pushes
    BY <1>0, <1>5, ConstantsAssumption DEF PubClaimError, PubTyped, PubRecs, Seqs
  <2>2. log' \in [Seqs -> [push : Pushes \cup {NoPush}, ver : Nat]]
    BY <1>5, <2>1, PutType DEF PubClaimError, TypeInv, TypeOK
  <2>3. Typed /\ Told
    BY <1>5, AnswerType DEF PubClaimError
  <2>4. TypeOK'
    BY <1>5, <2>2, <2>3 DEF PubClaimError, Fault, TypeInv, TypeOK, copy
  <2> QED
    BY <2>3, <2>4 DEF TypeInv
<1>6. CASE PubProbeManifest(i)
  <2>1. Typed /\ Told
    <3>1. CASE TryAgain(i)
      BY <1>6, <3>1, TryAgainType DEF PubProbeManifest
    <3>2. CASE ~TryAgain(i)
      <4> DEFINE p == [q EXCEPT !.pc = "head"]
      <4>1. p \in PubRecs /\ PubTyped(p)
        BY <1>0, <1>6 DEF PubProbeManifest, PubRecs, PubPcs, PubTyped
      <4>2. pb' = [pb EXCEPT ![i] = p] /\ pb[i].pc # "sync" /\ sy' = sy /\ UNCHANGED status
        BY <1>6, <3>2 DEF PubProbeManifest
      <4> HIDE DEF p
      <4> QED
        BY <1>0, <4>1, <4>2, PubUpdate
    <3> QED
      BY <3>1, <3>2
  <2>2. TypeOK'
    BY <1>6, <2>1 DEF PubProbeManifest, TypeInv, TypeOK, bucket, copy
  <2> QED
    BY <2>1, <2>2 DEF TypeInv
<1>7. CASE PubProbeSlot(i)
  <2>1. q.seq \in Seqs /\ q.push \in Pushes
    BY <1>0, <1>7 DEF PubProbeSlot, PubTyped, PubRecs
  <2> DEFINE burned == q.burned \cup {<<q.seq, log[q.seq].ver>>}
  <2>2. burned \in SUBSET (Nat \X Nat) /\ q.seq + 1 \in Nat /\ q.seq + 1 # 0
    <3>1. q.seq \in Nat /\ q.seq + 1 \in Nat /\ q.seq + 1 # 0
      BY <2>1, ConstantsAssumption DEF Seqs
    <3>2. log[q.seq].ver \in Nat
      BY <2>1 DEF TypeInv, TypeOK
    <3>3. q.burned \in SUBSET (Nat \X Nat)
      BY <1>0 DEF PubRecs
    <3>4. <<q.seq, log[q.seq].ver>> \in Nat \X Nat
      BY <3>1, <3>2
    <3> QED
      BY <3>1, <3>3, <3>4
  <2>3. Typed /\ Told
    <3>1. CASE Answer(i, "error")
      BY <1>7, <3>1, AnswerType DEF PubProbeSlot
    <3>2. CASE ~Answer(i, "error")
      <4> DEFINE p1 == [q EXCEPT !.pc = "claim"]
                 p2 == [q EXCEPT !.pc = "probe", !.probes = q.probes + 1]
                 p3 == [q EXCEPT !.pc = "claim", !.burned = burned, !.seq = q.seq + 1]
      <4>0. q.seq # 0
        BY <2>1, ConstantsAssumption DEF Seqs
      <4>1. p1 \in PubRecs /\ PubTyped(p1)
        BY <1>0, <2>1, <4>0 DEF PubRecs, PubPcs, PubTyped
      <4>2. p2 \in PubRecs /\ PubTyped(p2)
        <5>1. q.probes + 1 \in Nat
          BY <1>0 DEF PubRecs
        <5>2. p2 \in PubRecs
          BY <1>0, <5>1 DEF PubRecs, PubPcs
        <5> QED
          BY <1>0, <2>1, <5>2 DEF PubTyped, PubRecs
      <4> HIDE DEF burned
      <4>3. p3 \in PubRecs
        BY <1>0, <2>2 DEF PubRecs, PubPcs
      <4>4. PubTyped(p3)
        BY <1>0, <2>1, <2>2 DEF PubTyped, PubRecs
      <4>5. \/ pb' = [pb EXCEPT ![i] = p1]
            \/ pb' = [pb EXCEPT ![i] = p2]
            \/ pb' = [pb EXCEPT ![i] = p3]
        BY <1>7, <3>2 DEF PubProbeSlot, burned
      <4>6. pb[i].pc # "sync" /\ sy' = sy /\ UNCHANGED status
        BY <1>7, <3>2 DEF PubProbeSlot
      <4> HIDE DEF p1, p2, p3
      <4> QED
        BY <1>0, <4>1, <4>2, <4>3, <4>4, <4>5, <4>6, PubUpdate
    <3> QED
      BY <3>1, <3>2
  <2>4. TypeOK'
    BY <1>7, <2>3 DEF PubProbeSlot, TypeInv, TypeOK, bucket, copy
  <2> QED
    BY <2>3, <2>4 DEF TypeInv
<1>8. ASSUME q.pc = "cas", NEW pc \in {"drop", "landed"}, pb' = [pb EXCEPT ![i].pc = pc], sy' = sy
      PROVE  Typed
  <2> DEFINE p == [q EXCEPT !.pc = pc]
  <2>1. p \in PubRecs /\ PubTyped(p)
    BY <1>0, <1>8 DEF PubRecs, PubPcs, PubTyped
  <2>2. pb' = [pb EXCEPT ![i] = p]
    BY <1>8
  <2> HIDE DEF p
  <2> QED
    BY <1>8, <2>1, <2>2, PubUpdate
<1>9. ASSUME q.pc = "cas" PROVE Updated(i) \in Manifests
  <2>1. q.seq \in Seqs /\ q.man \in Manifests
    BY <1>0, <1>9 DEF PubTyped, PubRecs
  <2>2. q.seq \in 0 .. MaxSeq /\ q.man.segs \cup {q.seq} \in SUBSET Seqs /\ q.man.rev + 1 \in Nat
    BY <2>1, ConstantsAssumption DEF Manifests, Seqs
  <2> QED
    BY <2>2 DEF Updated, Manifests
<1>10. CASE PubCas(i)
  <2>1. Typed
    <3>1. CASE pb' = [pb EXCEPT ![i].pc = "drop"]
      BY <1>8, <1>10, <3>1 DEF PubCas
    <3>2. CASE pb' # [pb EXCEPT ![i].pc = "drop"]
      <4> DEFINE p == [q EXCEPT !.pc = "local", !.man = Updated(i), !.ver = mversion + 1]
      <4>1. Updated(i) \in Manifests /\ mversion + 1 \in Nat
        BY <1>0, <1>9, <1>10 DEF PubCas
      <4> HIDE DEF Updated
      <4>2. p \in PubRecs
        BY <1>0, <4>1 DEF PubRecs, PubPcs
      <4>3. PubTyped(p)
        BY <1>0, <1>10 DEF PubCas, PubTyped, PubRecs
      <4>4. pb' = [pb EXCEPT ![i] = p] /\ pb[i].pc # "sync" /\ sy' = sy
        BY <1>10, <3>2 DEF PubCas
      <4> HIDE DEF p
      <4> QED
        BY <4>2, <4>3, <4>4, PubUpdate
    <3> QED
      BY <3>1, <3>2
  <2>2. manifest' \in Manifests /\ mversion' \in Nat
    BY <1>0, <1>9, <1>10 DEF PubCas, SwapManifest
  <2>3. TypeOK'
    BY <1>10, <2>1, <2>2 DEF PubCas, TypeInv, TypeOK, copy
  <2> QED
    BY <2>1, <2>3 DEF TypeInv
<1>11. CASE PubCasFault(i)
  <2>1. Typed
    BY <1>8, <1>11 DEF PubCasFault
  <2>2. manifest' \in Manifests /\ mversion' \in Nat
    BY <1>0, <1>9, <1>11 DEF PubCasFault, SwapManifest
  <2>3. TypeOK'
    BY <1>11, <2>1, <2>2 DEF PubCasFault, Fault, TypeInv, TypeOK, copy
  <2> QED
    BY <2>1, <2>3 DEF TypeInv
<1>12. CASE PubLanded(i)
  <2>1. Typed /\ Told
    <3>1. CASE Answer(i, "error")
      BY <1>12, <3>1, AnswerType DEF PubLanded
    <3>2. CASE ~Answer(i, "error")
      <4> DEFINE p == [q EXCEPT !.pc = "headver", !.man = manifest]
      <4>1. p \in PubRecs /\ PubTyped(p)
        BY <1>0, <1>12 DEF PubLanded, PubRecs, PubPcs, PubTyped
      <4>2. pb' = [pb EXCEPT ![i] = p] /\ pb[i].pc # "sync" /\ sy' = sy /\ UNCHANGED status
        BY <1>12, <3>2 DEF PubLanded
      <4> HIDE DEF p
      <4> QED
        BY <1>0, <4>1, <4>2, PubUpdate
    <3> QED
      BY <3>1, <3>2
  <2>2. TypeOK'
    BY <1>12, <2>1 DEF PubLanded, TypeInv, TypeOK, bucket, copy
  <2> QED
    BY <2>1, <2>2 DEF TypeInv
<1>13. CASE PubHeadVersion(i)
  <2> DEFINE p == [q EXCEPT !.pc = "local", !.ver = mversion]
  <2>1. p \in PubRecs /\ PubTyped(p)
    BY <1>0, <1>13 DEF PubHeadVersion, PubRecs, PubPcs, PubTyped
  <2>2. pb' = [pb EXCEPT ![i] = p] /\ pb[i].pc # "sync" /\ sy' = sy
    BY <1>13 DEF PubHeadVersion
  <2> HIDE DEF p
  <2>3. Typed
    BY <2>1, <2>2, PubUpdate
  <2>4. TypeOK'
    BY <1>13, <2>3 DEF PubHeadVersion, TypeInv, TypeOK, bucket, copy
  <2> QED
    BY <2>3, <2>4 DEF TypeInv
<1>14. ASSUME q.pc = "local" PROVE ApplyTxn(TxnOf[q.push], refs[i]) \in RefMaps
  <2>1. TxnOf[q.push] \in Txns /\ refs[i] \in RefMaps
    BY <1>0, <1>14, ConstantsAssumption DEF PubTyped, TypeInv, TypeOK
  <2> QED
    BY <2>1, ApplyType
<1>15. ASSUME q.pc = "local", pb' = [pb EXCEPT ![i].pc = "sweep"], sy' = sy PROVE Typed
  <2> DEFINE p == [q EXCEPT !.pc = "sweep"]
  <2>1. p \in PubRecs /\ PubTyped(p)
    BY <1>0, <1>15 DEF PubRecs, PubPcs, PubTyped
  <2>2. pb' = [pb EXCEPT ![i] = p]
    BY <1>15
  <2> HIDE DEF p
  <2> QED
    BY <1>15, <2>1, <2>2, PubUpdate
<1>16. CASE PubLocalCommit(i)
  <2>1. Typed
    BY <1>15, <1>16 DEF PubLocalCommit
  <2>2. q.man \in Manifests /\ q.ver \in Nat /\ q.seq \in Nat
    BY <1>0 DEF PubRecs
  <2>3. refs' \in [Instances -> RefMaps]
    BY <1>14, <1>16 DEF PubLocalCommit, TypeInv, TypeOK
  <2>4. TypeOK'
    BY <1>16, <2>1, <2>2, <2>3 DEF PubLocalCommit, TypeInv, TypeOK, bucket
  <2> QED
    BY <2>1, <2>4 DEF TypeInv
<1>17. CASE PubLocalCommitError(i)
  <2>1. Typed
    BY <1>15, <1>17 DEF PubLocalCommitError
  <2>2. refs' \in [Instances -> RefMaps]
    BY <1>14, <1>17 DEF PubLocalCommitError, TypeInv, TypeOK
  <2>3. TypeOK'
    BY <1>17, <2>1, <2>2 DEF PubLocalCommitError, Fault, TypeInv, TypeOK, bucket
  <2> QED
    BY <2>1, <2>3 DEF TypeInv
<1>18. CASE PubSweep(i)
  <2>1. Typed /\ Told
    BY <1>18, AnswerType DEF PubSweep
  <2>2. log' \in [Seqs -> [push : Pushes \cup {NoPush}, ver : Nat]]
    BY <1>18, DropType DEF PubSweep, TypeInv, TypeOK
  <2>3. faults' \in Nat /\ UNCHANGED <<manifest, mversion, copy, sy>>
    BY <1>18 DEF PubSweep, Fault, TypeInv, TypeOK
  <2>4. TypeOK'
    BY <2>1, <2>2, <2>3 DEF TypeInv, TypeOK, copy
  <2> QED
    BY <2>1, <2>4 DEF TypeInv
<1>19. CASE PubDrop(i)
  <2>1. Typed /\ Told
    BY <1>19, TryAgainType DEF PubDrop
  <2>2. log' \in [Seqs -> [push : Pushes \cup {NoPush}, ver : Nat]]
    BY <1>19, DropType DEF PubDrop, TypeInv, TypeOK
  <2>3. faults' \in Nat /\ UNCHANGED <<manifest, mversion, copy, sy>>
    BY <1>19 DEF PubDrop, Fault, TypeInv, TypeOK
  <2>4. TypeOK'
    BY <2>1, <2>2, <2>3 DEF TypeInv, TypeOK, copy
  <2> QED
    BY <2>1, <2>4 DEF TypeInv
<1>20. CASE PubReadError(i)
  <2>1. Typed /\ Told
    BY <1>20, AnswerType DEF PubReadError
  <2>2. TypeOK'
    BY <1>20, <2>1 DEF PubReadError, Fault, TypeInv, TypeOK, bucket, copy
  <2> QED
    BY <2>1, <2>2 DEF TypeInv
<1> QED
  BY <1>1, <1>2, <1>3, <1>4, <1>5, <1>6, <1>7, <1>10, <1>11, <1>12, <1>13, <1>16, <1>17,
     <1>18, <1>19, <1>20 DEF PubStep, PubFault

\* Every step does.
LEMMA TypeStep == TypeInv /\ [Next]_vars => TypeInv'
<1> SUFFICES ASSUME TypeInv, [Next]_vars PROVE TypeInv'
  OBVIOUS
<1>1. ASSUME NEW i \in Instances, Open(i) PROVE TypeInv'
  <2>1. refs' \in [Instances -> RefMaps] /\ applied' \in [Instances -> Nat]
    <3>1. manifest.segs \in SUBSET Seqs /\ manifest.head \in Nat
      BY ConstantsAssumption DEF TypeInv, TypeOK, Manifests
    <3>2. Readable(manifest.segs) => Fold(manifest.segs, Entry) \in RefMaps
      BY <3>1, FoldType, NoRefsType DEF Fold, TypeInv
    <3> QED
      BY <1>1, <3>1, <3>2 DEF Open, TypeInv, TypeOK
  <2>2. TypeOK'
    BY <1>1, <2>1 DEF Open, TypeInv, TypeOK, bucket
  <2> QED
    BY <1>1, <2>2 DEF Open, TypeInv, SyncTyped
<1>2. ASSUME NEW i \in Instances, Crash(i) PROVE TypeInv'
  <2>1. PubTyped(IdlePub)
    BY DEF PubTyped, IdlePub
  <2>2. pb' \in [Instances -> PubRecs] /\ \A j \in Instances : PubTyped(pb'[j]) /\ SyncTyped(j)'
    BY <1>2, <2>1, IdleType, PubUpdate DEF Crash
  <2>3. TypeOK'
    BY <1>2, <2>2, IdleType DEF Crash, Fault, TypeInv, TypeOK, bucket, Statuses
  <2> QED
    BY <2>2, <2>3 DEF TypeInv
<1>3. ASSUME NEW i \in Instances, Repair(i) PROVE TypeInv'
  <2>1. TypeOK'
    BY <1>3 DEF Repair, Fault, TypeInv, TypeOK, bucket, SyncRecs, SyncPcs
  <2>2. \A j \in Instances : SyncTyped(j)'
    BY <1>3 DEF Repair, TypeInv, TypeOK, SyncTyped
  <2> QED
    BY <1>3, <2>1, <2>2 DEF Repair, TypeInv
<1>4. ASSUME NEW i \in Instances, NEW p \in Pushes, NEW synced \in BOOLEAN, Submit(i, p, synced)
      PROVE  TypeInv'
  <2> DEFINE c == IF synced THEN "read" ELSE "sync"
             q == [IdlePub EXCEPT !.pc = c, !.push = p]
  <2>1. c \in PubPcs /\ c \in {"read", "sync"}
    BY DEF PubPcs
  <2>2. pb' = [pb EXCEPT ![i] = q] /\ pb[i].pc = "idle" /\ sy' = sy
    BY <1>4 DEF Submit
  <2> HIDE DEF c
  <2>3. q \in PubRecs
    BY <2>1, IdleType DEF PubRecs
  <2>4. PubTyped(q)
    BY <2>1 DEF PubTyped, IdlePub
  <2> HIDE DEF q
  <2>5. pb' \in [Instances -> PubRecs] /\ \A j \in Instances : PubTyped(pb'[j]) /\ SyncTyped(j)'
    BY <2>2, <2>3, <2>4, PubUpdate
  <2>6. TypeOK'
    BY <1>4, <2>5 DEF Submit, TypeInv, TypeOK, bucket, copy, Statuses
  <2> QED
    BY <2>5, <2>6 DEF TypeInv
<1>5. CASE UNCHANGED vars
  BY <1>5 DEF vars, TypeInv, TypeOK, SyncTyped
<1> QED
  BY <1>1, <1>2, <1>3, <1>4, <1>5, SyncGetType, SyncStepType, PubStepType DEF Next

\* Type correctness: every reachable state of the publish path, whatever
\* crashes, failures and races it meets, is well typed (refs stay total maps,
\* listed segments and claimed slots stay sequence numbers).
THEOREM TypeCorrect == Spec => []TypeOK
<1>1. TypeInv => TypeOK
  BY DEF TypeInv
<1> QED
  BY <1>1, TypeInit, TypeStep, PTL DEF Spec

(***************************************************************************)
(* The inductive invariant.                                                *)
(***************************************************************************)

\* m is the bucket's manifest or an earlier one of its line: revisions name
\* versions, and an older manifest lists a prefix of the log.
Snap(m) ==
    /\ m.rev >= 1 /\ m.rev <= mversion
    /\ m.head <= manifest.head
    /\ m.segs = {s \in manifest.segs : s <= m.head}
    /\ m.rev = mversion => m = manifest

\* A version goes with its manifest; 0 is no version.
VersionOf(v, m) == v = 0 \/ v = m.rev

BucketInv ==
    /\ Snap(manifest) /\ manifest.rev = mversion
    /\ Snap(EmptyManifest)
    /\ manifest.segs \subseteq DOMAIN Entry
    /\ \A s \in manifest.segs :
          VerifyTxn(Entry[s], Fold({t \in manifest.segs : t < s}, Entry))

\* For each ref, the copy holds the current value or has yet to replay a
\* committed entry that writes it.
CatchUp(i) ==
    \A r \in Refs : \/ \E s \in manifest.segs : s > applied[i] /\ r \in DOMAIN Entry[s]
                    \/ refs[i][r] = BucketRefs[r]

\* A copy is what its manifest says; refs may be otherwise only before the
\* first sync, when nobody publishes from them.
CopyInv(i) ==
    /\ Snap(man[i]) /\ VersionOf(ver[i], man[i])
    /\ life[i] # "down" => applied[i] = man[i].head
    /\ life[i] = "synced" => /\ verified[i] \/ sy[i].pc = "apply"
                             /\ sy[i].pc \in {"idle", "apply"}
    /\ life[i] # "down" /\ (verified[i] \/ sy[i].pc = "apply") => CatchUp(i)
    /\ life[i] = "down" => sy[i].pc = "idle" /\ ~verified[i]
    /\ sy[i].pc # "idle" => /\ ~verified[i]
                            /\ Snap(sy[i].man) /\ sy[i].ver = sy[i].man.rev
                            /\ man[i].head <= sy[i].man.head
    /\ sy[i].pc = "replay" => refs[i] = NoRefs

\* The publisher between verification and CAS: what it verified still holds
\* unless its base version is out of date.
Verifying == {"claim", "probe", "head", "cas"}

VerifyInv(i) ==
    LET q == pb[i] IN
    /\ Snap(q.man) /\ VersionOf(q.ver, q.man)
    /\ q.man.head <= applied[i] /\ q.man.head < q.seq
    /\ \A b \in q.burned : q.man.head < b[1] /\ b[1] < q.seq
    /\ q.ver = mversion => VerifyTxn(TxnOf[q.push], BucketRefs)

\* The publisher with a segment of its own in the bucket, not committed.
Owning == {"cas", "drop", "landed"}

OwnerInv(i) ==
    LET q == pb[i] IN
    /\ q.seq \in Seqs /\ q.seq \notin manifest.segs
    /\ q.sver <= log[q.seq].ver
    /\ q.seq > manifest.head => log[q.seq] = [push |-> q.push, ver |-> q.sver]

\* The publisher whose segment is committed ...
WonInv(i) ==
    LET q == pb[i] IN
    /\ q.seq <= manifest.head
    /\ \A b \in q.burned : b[1] < q.seq /\ b[1] \notin manifest.segs

\* ... and not yet applied to its own copy.
LocalInv(i) ==
    LET q == pb[i] IN
    /\ Snap(q.man) /\ q.ver = q.man.rev /\ q.man.head = q.seq
    /\ q.seq \in manifest.segs /\ log[q.seq].push = q.push
    /\ \A s \in manifest.segs : s < q.seq => s <= applied[i]

PubInv(i) ==
    /\ pb[i].pc # "idle" => life[i] # "down"
    /\ pb[i].pc \notin {"idle", "sync"} => life[i] = "synced"
    /\ pb[i].pc \notin {"readver", "headver"}
    /\ pb[i].pc \in {"sync", "read"} => pb[i].burned = {}
    /\ pb[i].pc \in Verifying => VerifyInv(i)
    /\ pb[i].pc \in Owning => OwnerInv(i)
    /\ pb[i].pc \in {"local", "sweep"} => WonInv(i)
    /\ pb[i].pc = "local" => LocalInv(i)

\* No two publishers own the same version of the same segment.
OwnInv ==
    \A i, j \in Instances :
        i # j /\ pb[i].pc \in Owning /\ pb[j].pc \in Owning =>
            pb[i].seq # pb[j].seq \/ pb[i].sver # pb[j].sver

IInv ==
    /\ TypeInv
    /\ BucketInv
    /\ \A i \in Instances : CopyInv(i) /\ PubInv(i)
    /\ OwnInv

(***************************************************************************)
(* Steps that leave the committed log alone.                               *)
(***************************************************************************)

\* Listed seqs are seqs, in the form the lemmas on replay want.
LEMMA SegsType ==
    ASSUME TypeInv
    PROVE  /\ manifest.head \in Nat
           /\ SeqSet(manifest.segs)
           /\ \A s \in manifest.segs : s \in Nat /\ s > 0
           /\ \A S \in SUBSET manifest.segs : SeqSet(S)
<1>1. manifest.segs \in SUBSET (1 .. MaxSeq) /\ MaxSeq \in Nat /\ manifest.head \in Nat
  BY ConstantsAssumption DEF TypeInv, TypeOK, Manifests, Seqs
<1>2. SeqSet(manifest.segs)
  BY <1>1 DEF SeqSet
<1> QED
  BY <1>1, <1>2, SeqSetFacts

\* The manifest stays and listed segments keep what they hold.
Quiet ==
    /\ UNCHANGED <<manifest, mversion>>
    /\ \A s \in manifest.segs : log'[s] = log[s]

\* Such a step changes nothing that is committed.
LEMMA QuietBucket ==
    ASSUME IInv, TypeInv', Quiet
    PROVE  /\ BucketInv'
           /\ BucketRefs' = BucketRefs
           /\ \A s \in manifest.segs : s \in DOMAIN Entry' /\ Entry'[s] = Entry[s]
<1>1. \A s \in manifest.segs : s \in DOMAIN Entry' /\ Entry'[s] = Entry[s]
  BY DEF Quiet, Entry, IInv, BucketInv, TypeInv, TypeOK
<1> HIDE DEF Entry
<1>3. ASSUME NEW S \in SUBSET manifest.segs PROVE Fold(S, Entry') = Fold(S, Entry)
  <2>1. SeqSet(S) /\ \A s \in S : Entry'[s] = Entry[s]
    BY <1>1, SegsType DEF IInv
  <2> QED
    BY <2>1, ReplayCong DEF Fold
<1>4. BucketRefs' = BucketRefs
  BY <1>3 DEF BucketRefs, Quiet
<1>5. BucketInv'
  <2>1. (Snap(manifest) /\ manifest.rev = mversion /\ Snap(EmptyManifest))'
    BY DEF IInv, BucketInv, Quiet, Snap
  <2>2. (manifest.segs \subseteq DOMAIN Entry)'
    BY <1>1 DEF Quiet
  <2>3. ASSUME NEW s \in manifest.segs
        PROVE  VerifyTxn(Entry'[s], Fold({t \in manifest.segs : t < s}, Entry'))
    <3>1. VerifyTxn(Entry[s], Fold({t \in manifest.segs : t < s}, Entry))
      BY DEF IInv, BucketInv
    <3>2. {t \in manifest.segs : t < s} \in SUBSET manifest.segs
      OBVIOUS
    <3>3. Fold({t \in manifest.segs : t < s}, Entry') = Fold({t \in manifest.segs : t < s}, Entry)
      BY <1>3, <3>2
    <3> QED
      BY <1>1, <3>1, <3>3
  <2> QED
    BY <2>1, <2>2, <2>3 DEF BucketInv, Quiet
<1> QED
  BY <1>1, <1>4, <1>5

\* Instance j does nothing.
Idles(j) ==
    /\ life'[j] = life[j] /\ man'[j] = man[j] /\ ver'[j] = ver[j] /\ refs'[j] = refs[j]
    /\ applied'[j] = applied[j] /\ verified'[j] = verified[j] /\ sy'[j] = sy[j]
    /\ pb'[j] = pb[j]

\* Its slot above the head, if it has one, is left alone.
SlotKept(j) ==
    /\ \A s \in Seqs : log[s].ver <= log'[s].ver
    /\ pb[j].pc \in Owning /\ pb[j].seq > manifest.head => log'[pb[j].seq] = log[pb[j].seq]

\* A step of another instance that is quiet leaves j's part of the invariant.
LEMMA QuietCopy ==
    ASSUME IInv, TypeInv', Quiet, NEW j \in Instances,
           life'[j] = life[j], man'[j] = man[j], ver'[j] = ver[j], refs'[j] = refs[j],
           applied'[j] = applied[j], verified'[j] = verified[j], sy'[j] = sy[j]
    PROVE  CopyInv(j)'
<1>1. CopyInv(j)
  BY DEF IInv
<1>2. \A m : Snap(m)' <=> Snap(m)
  BY DEF Snap, Quiet
<1>3. CatchUp(j)' <=> CatchUp(j)
  <2>1. /\ BucketRefs' = BucketRefs
        /\ \A s \in manifest.segs : s \in DOMAIN Entry' /\ Entry'[s] = Entry[s]
    BY QuietBucket
  <2> HIDE DEF Entry, BucketRefs
  <2> QED
    BY <2>1 DEF CatchUp, Quiet
<1> HIDE DEF Snap, CatchUp
<1> QED
  BY <1>1, <1>2, <1>3 DEF CopyInv, VersionOf

\* Nor does it disturb a publisher that stands still while its copy, at most,
\* moves forward.
LEMMA QuietPub ==
    ASSUME IInv, TypeInv', Quiet, NEW j \in Instances, SlotKept(j),
           pb'[j] = pb[j], life'[j] = life[j], applied[j] <= applied'[j]
    PROVE  PubInv(j)'
<1>1. PubInv(j)
  BY DEF IInv
<1>2. \A m : Snap(m)' <=> Snap(m)
  BY DEF Snap, Quiet
<1>3. BucketRefs' = BucketRefs
  BY QuietBucket
<1>4. applied[j] \in Nat /\ applied'[j] \in Nat /\ pb[j] \in PubRecs /\ manifest \in Manifests
  BY DEF IInv, TypeInv, TypeOK
<1> HIDE DEF Snap, BucketRefs
<1>5. pb[j].pc \in Verifying /\ VerifyInv(j) => VerifyInv(j)'
  <2>1. pb[j].man.head \in Nat
    BY <1>4, ConstantsAssumption DEF PubRecs, Manifests
  <2> QED
    BY <1>2, <1>3, <1>4, <2>1 DEF VerifyInv, VersionOf, Quiet
<1>6. pb[j].pc \in Owning /\ OwnerInv(j) => OwnerInv(j)'
  <2>1. pb[j].seq \in Seqs => log[pb[j].seq].ver \in Nat /\ log'[pb[j].seq].ver \in Nat
    BY DEF IInv, TypeInv, TypeOK
  <2>2. pb[j].sver \in Nat
    BY <1>4 DEF PubRecs
  <2> QED
    BY <2>1, <2>2 DEF OwnerInv, Quiet, SlotKept
<1>7. WonInv(j) => WonInv(j)'
  BY DEF WonInv, Quiet
<1>8. LocalInv(j) => LocalInv(j)'
  <2>1. \A s \in manifest.segs : s \in Nat
    BY SegsType DEF IInv
  <2> QED
    BY <1>2, <1>4, <2>1 DEF LocalInv, Quiet
<1> HIDE DEF VerifyInv, OwnerInv, WonInv, LocalInv
<1> QED
  BY <1>1, <1>5, <1>6, <1>7, <1>8 DEF PubInv

\* A quiet step of instance i alone.
LEMMA QuietStep ==
    ASSUME IInv, TypeInv', NEW i \in Instances, Quiet,
           \A j \in Instances : j # i => Idles(j) /\ SlotKept(j),
           CopyInv(i)', PubInv(i)',
           pb'[i].pc \in Owning => /\ pb[i].pc \in Owning
                                   /\ pb'[i].seq = pb[i].seq /\ pb'[i].sver = pb[i].sver
    PROVE  IInv'
<1>1. BucketInv'
  BY QuietBucket
<1>2. ASSUME NEW j \in Instances, j # i PROVE CopyInv(j)' /\ PubInv(j)'
  <2>1. Idles(j) /\ SlotKept(j) /\ applied[j] <= applied'[j]
    BY <1>2 DEF Idles, IInv, TypeInv, TypeOK
  <2> QED
    BY <2>1, QuietCopy, QuietPub DEF Idles
<1>3. OwnInv'
  BY DEF IInv, OwnInv, Idles
<1> QED
  BY <1>1, <1>2, <1>3 DEF IInv

\* A publisher without a push, or waiting for a sync, has nothing to keep.
LEMMA PubRests ==
    ASSUME NEW i \in Instances, TypeInv',
           \/ pb'[i] = IdlePub
           \/ pb'[i].pc = "sync" /\ pb'[i].burned = {} /\ life'[i] # "down"
    PROVE  PubInv(i)' /\ pb'[i].pc \notin Owning
<1>1. CASE pb'[i] = IdlePub
  BY <1>1 DEF PubInv, IdlePub, Verifying, Owning
<1>2. CASE pb'[i].pc = "sync" /\ pb'[i].burned = {} /\ life'[i] # "down"
  BY <1>2 DEF PubInv, Verifying, Owning
<1> QED
  BY <1>1, <1>2

\* An untouched log keeps every slot.
LEMMA LogKept ==
    ASSUME IInv, UNCHANGED bucket
    PROVE  Quiet /\ \A j \in Instances : SlotKept(j)
BY DEF Quiet, SlotKept, bucket, IInv, TypeInv, TypeOK

(***************************************************************************)
(* The life of an instance and its syncs.                                  *)
(***************************************************************************)

\* Opening: a copy read from the bucket, or one left unverified.
LEMMA OpenStep ==
    ASSUME IInv, TypeInv', NEW i \in Instances, Open(i)
    PROVE  IInv'
<1>1. Quiet /\ \A j \in Instances : j # i => Idles(j) /\ SlotKept(j)
  <2>1. Quiet /\ \A j \in Instances : SlotKept(j)
    BY LogKept DEF Open
  <2> QED
    BY <2>1 DEF Open, Idles, IInv, TypeInv, TypeOK
<1>2. pb'[i] = pb[i] /\ pb[i].pc = "idle" /\ sy'[i] = sy[i] /\ sy[i].pc = "idle"
  BY DEF Open, IInv, PubInv, CopyInv
<1>3. PubInv(i)'
  BY <1>2 DEF PubInv, Verifying, Owning
<1>4. CopyInv(i)'
  <2>1. /\ man'[i] = manifest /\ ver'[i] = mversion /\ life'[i] = "open"
        /\ verified'[i] => refs'[i] = BucketRefs
        /\ applied'[i] = manifest.head
    BY DEF Open, IInv, TypeInv, TypeOK, BucketRefs
  <2>2. Snap(manifest)' /\ manifest.rev = mversion /\ BucketRefs' = BucketRefs
    BY <1>1, QuietBucket DEF IInv, BucketInv, Quiet
  <2>3. manifest' = manifest
    BY <1>1 DEF Quiet
  <2>4. verified'[i] => CatchUp(i)'
    BY <2>1, <2>2 DEF CatchUp
  <2> HIDE DEF Snap, CatchUp
  <2> QED
    BY <1>2, <2>1, <2>2, <2>3, <2>4 DEF CopyInv, VersionOf
<1> QED
  BY <1>1, <1>2, <1>3, <1>4, QuietStep DEF Owning

\* A crash leaves nothing in memory to be wrong.
LEMMA CrashStep ==
    ASSUME IInv, TypeInv', NEW i \in Instances, Crash(i)
    PROVE  IInv'
<1>1. Quiet /\ \A j \in Instances : j # i => Idles(j) /\ SlotKept(j)
  <2>1. Quiet /\ \A j \in Instances : SlotKept(j)
    BY LogKept DEF Crash
  <2> QED
    BY <2>1 DEF Crash, Idles, IInv, TypeInv, TypeOK
<1>2. /\ pb'[i] = IdlePub /\ sy'[i] = IdleSync /\ man'[i] = EmptyManifest
      /\ ver'[i] = 0 /\ life'[i] = "down" /\ ~verified'[i]
  BY DEF Crash, IInv, TypeInv, TypeOK
<1>3. PubInv(i)' /\ pb'[i].pc \notin Owning
  BY <1>2, PubRests
<1>4. CopyInv(i)'
  <2>1. Snap(EmptyManifest)'
    BY <1>1, QuietBucket DEF BucketInv
  <2> QED
    BY <1>2, <2>1 DEF CopyInv, VersionOf, IdleSync
<1> QED
  BY <1>1, <1>3, <1>4, QuietStep

\* A sync returns with the manifest it read or kept.
LEMMA SyncGetStep ==
    ASSUME IInv, TypeInv', NEW i \in Instances, NEW who \in {"reader", "pub"}, SyncGet(i, who)
    PROVE  IInv'
<1> DEFINE keep == NotModified(i) \/ StaleRead(i)
           m == IF keep THEN man[i] ELSE manifest
           v == IF keep THEN ver[i] ELSE mversion
<1>0. /\ UNCHANGED <<bucket, refs, applied>> /\ life[i] # "down" /\ sy[i].pc = "idle"
      /\ who = "pub" => pb[i].pc = "sync"
      /\ \/ /\ verified[i] /\ (keep \/ SameRevision(i)) /\ SyncReturns(i, who)
            /\ man' = [man EXCEPT ![i] = m] /\ ver' = [ver EXCEPT ![i] = v] /\ UNCHANGED verified
         \/ /\ sy' = [sy EXCEPT ![i] = [pc |-> IF verified[i] THEN "apply" ELSE "reset",
                                         who |-> who, man |-> m, ver |-> v]]
            /\ verified' = [verified EXCEPT ![i] = FALSE]
            /\ UNCHANGED <<life, man, ver, pb>>
  BY DEF SyncGet
<1>1. CopyInv(i) /\ PubInv(i) /\ BucketInv
  BY DEF IInv
<1>2. Quiet /\ \A j \in Instances : SlotKept(j)
  BY <1>0, LogKept
<1>3. \A j \in Instances : j # i => Idles(j)
  BY <1>0 DEF SyncReturns, Idles, IInv, TypeInv, TypeOK
<1>4. /\ man[i].rev \in Nat /\ mversion \in Nat /\ man[i].head \in Nat /\ manifest.head \in Nat
      /\ verified[i] \in BOOLEAN
  BY ConstantsAssumption DEF IInv, TypeInv, TypeOK, Manifests
<1>5. /\ Snap(m) /\ v = m.rev /\ man[i].head <= m.head
      /\ keep \/ SameRevision(i) => m.head = man[i].head
  BY <1>1, <1>4 DEF CopyInv, BucketInv, Snap, VersionOf, NotModified, StaleRead, SameRevision
<1>6. \A n : Snap(n)' <=> Snap(n)
  BY <1>2 DEF Snap, Quiet
<1>7. CatchUp(i) => CatchUp(i)'
  <2>1. /\ BucketRefs' = BucketRefs
        /\ \A s \in manifest.segs : s \in DOMAIN Entry' /\ Entry'[s] = Entry[s]
    BY <1>2, QuietBucket
  <2> HIDE DEF Entry, BucketRefs
  <2> QED
    BY <1>0, <1>2, <2>1 DEF CatchUp, Quiet
<1> HIDE DEF m, v, keep, Snap, CatchUp
<1>8. CASE /\ verified[i] /\ (keep \/ SameRevision(i)) /\ SyncReturns(i, who)
           /\ man' = [man EXCEPT ![i] = m] /\ ver' = [ver EXCEPT ![i] = v] /\ UNCHANGED verified
  <2>1. /\ man'[i] = m /\ ver'[i] = v /\ life'[i] = "synced" /\ sy'[i] = IdleSync
        /\ verified'[i] /\ refs'[i] = refs[i] /\ applied'[i] = applied[i]
    BY <1>0, <1>8 DEF SyncReturns, IInv, TypeInv, TypeOK
  <2>2. CopyInv(i)'
    BY <1>0, <1>1, <1>5, <1>6, <1>7, <2>1 DEF CopyInv, VersionOf, IdleSync
  <2>3. PubInv(i)' /\ (pb'[i].pc \in Owning => pb'[i] = pb[i])
    <3>1. CASE who = "pub"
      <4>1. pb'[i] = [pb[i] EXCEPT !.pc = "read"]
        BY <1>8, <3>1 DEF SyncReturns, IInv, TypeInv, TypeOK
      <4>2. pb'[i].pc = "read" /\ pb'[i].burned = {}
        BY <1>0, <1>1, <3>1, <4>1 DEF PubInv, IInv, TypeInv, TypeOK, PubRecs
      <4> QED
        BY <2>1, <4>2 DEF PubInv, Verifying, Owning
    <3>2. CASE who # "pub"
      <4>1. pb' = pb /\ applied[i] <= applied'[i]
        BY <1>8, <2>1, <3>2 DEF SyncReturns, IInv, TypeInv, TypeOK
      <4>2. CASE life[i] = "synced"
        BY <1>2, <2>1, <4>1, <4>2, QuietPub
      <4>3. CASE life[i] # "synced"
        BY <1>1, <2>1, <4>1, <4>3 DEF PubInv, Verifying, Owning
      <4> QED
        BY <4>1, <4>2, <4>3
    <3> QED
      BY <3>1, <3>2
  <2> QED
    BY <1>2, <1>3, <2>2, <2>3, QuietStep
<1>9. CASE /\ sy' = [sy EXCEPT ![i] = [pc |-> IF verified[i] THEN "apply" ELSE "reset",
                                        who |-> who, man |-> m, ver |-> v]]
           /\ verified' = [verified EXCEPT ![i] = FALSE]
           /\ UNCHANGED <<life, man, ver, pb>>
  <2>1. /\ sy'[i].pc = IF verified[i] THEN "apply" ELSE "reset"
        /\ sy'[i].man = m /\ sy'[i].ver = v /\ ~verified'[i]
        /\ refs'[i] = refs[i] /\ applied'[i] = applied[i]
        /\ life'[i] = life[i] /\ man'[i] = man[i] /\ ver'[i] = ver[i] /\ pb'[i] = pb[i]
    BY <1>0, <1>9 DEF IInv, TypeInv, TypeOK
  <2>2. CopyInv(i)'
    BY <1>0, <1>1, <1>4, <1>5, <1>6, <1>7, <2>1 DEF CopyInv, VersionOf
  <2>3. PubInv(i)'
    BY <1>2, <1>4, <2>1, QuietPub DEF IInv, TypeInv, TypeOK
  <2> QED
    BY <1>2, <1>3, <2>1, <2>2, <2>3, QuietStep
<1> QED
  BY <1>0, <1>8, <1>9

\* Replaying the tail, or the whole log over nothing, catches the copy up with
\* the manifest of the sync.
LEMMA InstallStep ==
    ASSUME IInv, TypeInv', NEW i \in Instances, sy[i].pc \in {"apply", "replay"},
           Install(i), refs' = [refs EXCEPT ![i] = Replay(@, TailSeqs(i), Entry)], UNCHANGED bucket
    PROVE  IInv'
<1> DEFINE h == sy[i].man.head
           a == IF sy[i].pc = "apply" THEN applied[i] ELSE 0
           rs == refs[i]
<1>1. CopyInv(i) /\ PubInv(i) /\ BucketInv /\ life[i] # "down"
  BY DEF IInv, CopyInv
<1>2. Quiet /\ \A j \in Instances : SlotKept(j)
  BY LogKept
<1>3. \A j \in Instances : j # i => Idles(j)
  BY DEF Install, SyncReturns, Idles, IInv, TypeInv, TypeOK
<1>4. /\ man'[i] = sy[i].man /\ ver'[i] = sy[i].ver /\ applied'[i] = h /\ verified'[i]
      /\ life'[i] = "synced" /\ sy'[i] = IdleSync /\ refs'[i] = Replay(rs, TailSeqs(i), Entry)
  BY DEF Install, SyncReturns, IInv, TypeInv, TypeOK
<1>5. h \in Nat /\ a \in Nat /\ applied[i] \in Nat
  BY ConstantsAssumption DEF IInv, TypeInv, TypeOK, SyncRecs, Manifests
<1>6. Snap(sy[i].man) /\ sy[i].ver = sy[i].man.rev /\ applied[i] <= h
  BY <1>1 DEF CopyInv
<1>7. TailSeqs(i) = {s \in manifest.segs : s <= h /\ s > a}
  <2>1. \A s \in manifest.segs : s \in Nat /\ s > 0
    BY SegsType DEF IInv
  <2> QED
    BY <1>5, <1>6, <2>1 DEF TailSeqs, Snap
<1>8. \A r \in Refs : \/ \E s \in manifest.segs : s > a /\ r \in DOMAIN Entry[s]
                      \/ rs[r] = Fold(manifest.segs, Entry)[r]
  <2>1. CASE sy[i].pc = "apply"
    BY <1>1, <2>1 DEF CopyInv, CatchUp, BucketRefs
  <2>2. CASE sy[i].pc = "replay"
    <3>1. rs = NoRefs /\ a = 0
      BY <1>1, <2>2 DEF CopyInv
    <3>2. \A s \in manifest.segs : s > 0
      BY SegsType DEF IInv
    <3> HIDE DEF Entry, rs, a
    <3> QED
      BY <3>1, <3>2, FoldNone DEF Fold
  <2> QED
    BY <2>1, <2>2
<1>9. CatchUp(i)'
  <2>1. /\ BucketRefs' = BucketRefs /\ manifest' = manifest
        /\ \A s \in manifest.segs : s \in DOMAIN Entry' /\ Entry'[s] = Entry[s]
    BY <1>2, QuietBucket DEF Quiet
  <2>2. ASSUME NEW r \in Refs, ~\E s \in manifest.segs : s > h /\ r \in DOMAIN Entry[s]
        PROVE  refs'[i][r] = BucketRefs[r]
    <3>1. SeqSet(manifest.segs)
      BY SegsType DEF IInv
    <3> DEFINE T == {s \in manifest.segs : s <= h /\ s > a}
    <3>2. Replay(rs, T, Entry)[r] = Fold(manifest.segs, Entry)[r]
      <4> HIDE DEF Entry, rs, h, a
      <4> QED
        BY <1>5, <1>8, <2>2, <3>1, ReplayCatchesUp
    <3> HIDE DEF Entry
    <3> QED
      BY <1>4, <1>7, <3>2 DEF BucketRefs
  <2> HIDE DEF Entry, BucketRefs
  <2> QED
    BY <1>4, <2>1, <2>2 DEF CatchUp
<1>10. CopyInv(i)'
  <2>1. Snap(sy[i].man)  /\ \A n : Snap(n)' <=> Snap(n)
    BY <1>2, <1>6 DEF Snap, Quiet
  <2> HIDE DEF Snap, CatchUp
  <2> QED
    BY <1>4, <1>6, <1>9, <2>1 DEF CopyInv, VersionOf, IdleSync
<1>11. PubInv(i)' /\ (pb'[i].pc \in Owning => pb'[i] = pb[i])
  <2>1. CASE sy[i].who = "pub"
    <3>1. pb'[i] = [pb[i] EXCEPT !.pc = "read"] /\ pb[i].pc = "sync"
      BY <2>1 DEF Install, SyncReturns, IInv, TypeInv, TypeOK, SyncTyped
    <3>2. pb'[i].pc = "read" /\ pb'[i].burned = {}
      BY <1>1, <3>1 DEF PubInv, IInv, TypeInv, TypeOK, PubRecs
    <3> QED
      BY <1>4, <3>2 DEF PubInv, Verifying, Owning
  <2>2. CASE sy[i].who # "pub"
    <3>1. pb' = pb /\ applied[i] <= applied'[i]
      BY <1>4, <1>6, <2>2 DEF Install, SyncReturns
    <3>2. CASE life[i] = "synced"
      BY <1>2, <1>4, <3>1, <3>2, QuietPub
    <3>3. CASE life[i] # "synced"
      BY <1>1, <1>4, <3>1, <3>3 DEF PubInv, Verifying, Owning
    <3> QED
      BY <3>1, <3>2, <3>3
  <2> QED
    BY <2>1, <2>2
<1> QED
  BY <1>2, <1>3, <1>10, <1>11, QuietStep

\* The later steps of a sync; none of them can fail for a missing segment.
LEMMA SyncStepStep ==
    ASSUME Races = {}, IInv, TypeInv', NEW i \in Instances, SyncStep(i)
    PROVE  IInv'
<1>1. CASE SyncApply(i)
  BY <1>1, InstallStep DEF SyncApply, Install
<1>2. CASE SyncReplay(i)
  BY <1>2, InstallStep DEF SyncReplay
<1>3. CASE SyncReset(i)
  <2>1. CopyInv(i) /\ PubInv(i) /\ BucketInv
    BY DEF IInv
  <2>2. Quiet /\ \A j \in Instances : SlotKept(j)
    BY <1>3, LogKept DEF SyncReset
  <2>3. \A j \in Instances : j # i => Idles(j)
    BY <1>3 DEF SyncReset, Idles, IInv, TypeInv, TypeOK
  <2>4. sy[i].pc = "reset"
    <3>1. CASE sy[i].pc = "apply"
      <4>1. applied[i] <= sy[i].man.head /\ applied[i] > sy[i].man.head
        BY <1>3, <2>1, <3>1 DEF SyncReset, CopyInv
      <4>2. applied[i] \in Nat /\ sy[i].man.head \in Nat
        BY ConstantsAssumption DEF IInv, TypeInv, TypeOK, SyncRecs, Manifests
      <4> QED
        BY <4>1, <4>2
    <3> QED
      BY <1>3, <3>1 DEF SyncReset
  <2>5. /\ sy'[i] = [sy[i] EXCEPT !.pc = "replay"] /\ refs'[i] = NoRefs
        /\ life'[i] = life[i] /\ man'[i] = man[i] /\ ver'[i] = ver[i] /\ pb'[i] = pb[i]
        /\ applied'[i] = applied[i] /\ verified'[i] = verified[i]
    BY <1>3 DEF SyncReset, IInv, TypeInv, TypeOK
  <2>6. sy'[i].pc = "replay" /\ sy'[i].man = sy[i].man /\ sy'[i].ver = sy[i].ver
    BY <2>5 DEF IInv, TypeInv, TypeOK, SyncRecs
  <2>7. \A n : Snap(n)' <=> Snap(n)
    BY <2>2 DEF Snap, Quiet
  <2>8. CopyInv(i)'
    <3> HIDE DEF Snap, CatchUp
    <3> QED
      BY <2>1, <2>4, <2>5, <2>6, <2>7 DEF CopyInv, VersionOf
  <2>9. PubInv(i)'
    BY <2>2, <2>5, QuietPub DEF IInv, TypeInv, TypeOK
  <2> QED
    BY <2>2, <2>3, <2>5, <2>8, <2>9, QuietStep
<1>4. CASE SyncFail(i)
  <2>1. ~Readable(TailSeqs(i)) /\ sy[i].pc # "idle"
    BY <1>4 DEF SyncFail
  <2>2. Snap(sy[i].man)
    BY <2>1 DEF IInv, CopyInv
  <2>3. TailSeqs(i) \subseteq manifest.segs
    BY <2>2 DEF Snap, TailSeqs
  <2> QED
    BY <2>1, <2>3 DEF IInv, BucketInv, Readable
<1> QED
  BY <1>1, <1>2, <1>3, <1>4 DEF SyncStep

(***************************************************************************)
(* The publisher.                                                          *)
(***************************************************************************)

\* The publisher of i moves; no copy and nothing committed changes.
LEMMA PubMoves ==
    ASSUME IInv, TypeInv', NEW i \in Instances, Quiet, UNCHANGED <<copy, sy>>,
           \A j \in Instances : j # i => pb'[j] = pb[j] /\ SlotKept(j),
           PubInv(i)',
           pb'[i].pc \in Owning => /\ pb[i].pc \in Owning
                                   /\ pb'[i].seq = pb[i].seq /\ pb'[i].sver = pb[i].sver
    PROVE  IInv'
<1>1. CopyInv(i)'
  BY QuietCopy DEF copy
<1>2. \A j \in Instances : j # i => Idles(j) /\ SlotKept(j)
  BY DEF Idles, copy
<1> QED
  BY <1>1, <1>2, QuietStep

\* Answering, or going back to sync, ends what the publisher had to keep.
LEMMA PubLetsGo ==
    ASSUME IInv, TypeInv', NEW i \in Instances, UNCHANGED copy, pb[i].pc # "idle",
           TryAgain(i) \/ (\E a \in {"ok", "rejected", "error"} : Answer(i, a))
    PROVE  /\ PubInv(i)' /\ pb'[i].pc \notin Owning
           /\ \A j \in Instances : j # i => pb'[j] = pb[j]
<1>1. pb \in [Instances -> PubRecs] /\ life[i] # "down" /\ life'[i] = life[i]
  BY DEF IInv, TypeInv, TypeOK, PubInv, copy
<1>2. CASE \E a \in {"ok", "rejected", "error"} : Answer(i, a)
  BY <1>1, <1>2, PubRests DEF Answer
<1>3. CASE ~\E a \in {"ok", "rejected", "error"} : Answer(i, a)
  <2> DEFINE q == [IdlePub EXCEPT !.pc = "sync", !.push = pb[i].push,
                                  !.attempts = pb[i].attempts + 1]
  <2>1. pb' = [pb EXCEPT ![i] = q]
    BY <1>3 DEF TryAgain
  <2>2. q.pc = "sync" /\ q.burned = {}
    BY DEF IdlePub
  <2> HIDE DEF q
  <2> QED
    BY <1>1, <2>1, <2>2, PubRests
<1> QED
  BY <1>2, <1>3

\* A push is handed to an idle publisher.
LEMMA SubmitStep ==
    ASSUME IInv, TypeInv', NEW i \in Instances, NEW p \in Pushes, NEW synced \in BOOLEAN,
           Submit(i, p, synced)
    PROVE  IInv'
<1> DEFINE c == IF synced THEN "read" ELSE "sync"
           q == [IdlePub EXCEPT !.pc = c, !.push = p]
<1>1. /\ pb' = [pb EXCEPT ![i] = q] /\ UNCHANGED <<bucket, copy, sy>> /\ life[i] # "down"
      /\ c \in {"read", "sync"} /\ (c = "read" => life[i] = "synced")
  BY DEF Submit
<1> HIDE DEF c
<1>2. q.pc = c /\ q.burned = {}
  BY DEF IdlePub
<1> HIDE DEF q
<1>3. Quiet /\ \A j \in Instances : SlotKept(j)
  BY <1>1, LogKept
<1>4. pb'[i] = q /\ life'[i] = life[i] /\ \A j \in Instances : j # i => pb'[j] = pb[j]
  BY <1>1 DEF IInv, TypeInv, TypeOK, copy
<1>5. PubInv(i)' /\ pb'[i].pc \notin Owning
  BY <1>1, <1>2, <1>4 DEF PubInv, Verifying, Owning
<1> QED
  BY <1>1, <1>3, <1>4, <1>5, PubMoves

\* A copy at the bucket's version holds the bucket's refs: what the publisher
\* verifies against it holds of the repository as long as the version stays.
LEMMA VersionMeansCurrent ==
    ASSUME IInv, NEW i \in Instances, life[i] # "down", verified[i] \/ sy[i].pc = "apply",
           ver[i] = mversion
    PROVE  man[i] = manifest /\ \A r \in Refs : refs[i][r] = BucketRefs[r]
<1>1. CopyInv(i) /\ BucketInv
  BY DEF IInv
<1>2. man[i] = manifest
  BY <1>1 DEF CopyInv, BucketInv, Snap, VersionOf, IInv, TypeInv, TypeOK, Manifests
<1>3. applied[i] = manifest.head /\ CatchUp(i)
  BY <1>1, <1>2 DEF CopyInv
<1>4. \A s \in manifest.segs : ~(s > applied[i])
  <2>1. manifest.head \in Nat /\ \A s \in manifest.segs : s \in Nat
    BY SegsType DEF IInv
  <2>2. \A s \in manifest.segs : s <= manifest.head
    BY <1>1 DEF BucketInv, Snap
  <2> QED
    BY <1>3, <2>1, <2>2
<1> QED
  BY <1>2, <1>3, <1>4 DEF CatchUp

\* What the publisher verified against its copy it verified against the bucket,
\* unless its version is out of date.
LEMMA VerifyStep ==
    ASSUME Races = {}, IInv, TypeInv', NEW i \in Instances, PubVerify(i)
    PROVE  IInv'
<1>1. CopyInv(i) /\ PubInv(i) /\ pb[i] \in PubRecs /\ pb \in [Instances -> PubRecs]
  BY DEF IInv, TypeInv, TypeOK
<1>2. pb[i].pc = "read" /\ UNCHANGED <<bucket, copy, sy>>
  BY <1>1 DEF PubVerify, PubInv
<1>3. Quiet /\ \A j \in Instances : SlotKept(j)
  BY <1>2, LogKept
<1>4. CASE Answer(i, "rejected")
  <2>1. /\ PubInv(i)' /\ pb'[i].pc \notin Owning
        /\ \A j \in Instances : j # i => pb'[j] = pb[j]
    BY <1>2, <1>4, PubLetsGo
  <2> QED
    BY <1>2, <1>3, <2>1, PubMoves
<1>5. CASE ~Answer(i, "rejected")
  <2>1. /\ pb' = [pb EXCEPT ![i].pc = "claim", ![i].man = man[i], ![i].ver = ver[i],
                             ![i].seq = man[i].head + 1]
        /\ VerifyTxn(TxnOf[pb[i].push], refs[i])
    BY <1>2, <1>5 DEF PubVerify
  <2>2. /\ pb'[i].pc = "claim" /\ pb'[i].man = man[i] /\ pb'[i].ver = ver[i]
        /\ pb'[i].seq = man[i].head + 1 /\ pb'[i].burned = {} /\ pb'[i].push = pb[i].push
        /\ \A j \in Instances : j # i => pb'[j] = pb[j]
    BY <1>1, <1>2, <2>1 DEF PubRecs, PubInv
  <2>3. life[i] = "synced" /\ life'[i] = life[i] /\ applied'[i] = applied[i]
    BY <1>1, <1>2 DEF PubInv, copy
  <2>4. applied[i] = man[i].head /\ man[i].head \in Nat
    BY <1>1, <2>3, ConstantsAssumption DEF CopyInv, IInv, TypeInv, TypeOK, Manifests
  <2>5. ver[i] = mversion => VerifyTxn(TxnOf[pb[i].push], BucketRefs)
    <3>1. ver[i] = mversion => \A r \in Refs : refs[i][r] = BucketRefs[r]
      BY <1>1, <2>3, VersionMeansCurrent DEF CopyInv
    <3>2. DOMAIN TxnOf[pb[i].push] \subseteq Refs
      <4>1. TxnOf[pb[i].push] \in Txns
        BY <1>2, ConstantsAssumption DEF IInv, TypeInv, PubTyped
      <4> QED
        BY <4>1, TxnType
    <3> HIDE DEF BucketRefs
    <3> QED
      BY <2>1, <3>1, <3>2 DEF VerifyTxn
  <2>6. VerifyInv(i)'
    <3>1. BucketRefs' = BucketRefs /\ \A n : Snap(n)' <=> Snap(n)
      BY <1>3, QuietBucket DEF Snap, Quiet
    <3>2. Snap(man[i]) /\ VersionOf(ver[i], man[i])
      BY <1>1 DEF CopyInv
    <3> HIDE DEF Snap, BucketRefs
    <3> QED
      BY <1>3, <2>2, <2>3, <2>4, <2>5, <3>1, <3>2 DEF VerifyInv, VersionOf, Quiet
  <2>7. PubInv(i)'
    BY <2>2, <2>3, <2>6 DEF PubInv, Verifying, Owning
  <2> QED
    BY <1>2, <1>3, <2>2, <2>7, PubMoves DEF Owning
<1> QED
  BY <1>4, <1>5

\* A segment is created only where there is none: not at a listed seq, nor at
\* the slot of an owner above the head.
LEMMA PutQuiet ==
    ASSUME IInv, TypeInv', NEW i \in Instances, NEW s \in Seqs, log[s].push = NoPush,
           NEW p \in Pushes, PutSegment(s, p), UNCHANGED <<manifest, mversion>>
    PROVE  /\ Quiet /\ \A j \in Instances : SlotKept(j)
           /\ s \notin manifest.segs /\ log'[s] = [push |-> p, ver |-> log[s].ver + 1]
<1>1. s \notin manifest.segs
  BY DEF IInv, BucketInv, Entry
<1>2. log \in [Seqs -> [push : Pushes \cup {NoPush}, ver : Nat]] /\ manifest.segs \subseteq Seqs
  BY DEF IInv, TypeInv, TypeOK, Manifests
<1>3. Quiet
  BY <1>1, <1>2 DEF PutSegment, Quiet
<1>4. \A t \in Seqs : log[t].ver <= log'[t].ver
  <2> TAKE t \in Seqs
  <2>1. log[t].ver \in Nat
    BY <1>2
  <2> QED
    BY <1>2, <2>1 DEF PutSegment
<1>5. ASSUME NEW j \in Instances, pb[j].pc \in Owning, pb[j].seq > manifest.head
      PROVE  log'[pb[j].seq] = log[pb[j].seq]
  <2>1. OwnerInv(j) /\ pb[j].push \in Pushes
    BY <1>5 DEF IInv, PubInv, TypeInv, PubTyped, Owning
  <2>2. log[pb[j].seq].push # NoPush
    BY <1>5, <2>1, ConstantsAssumption DEF OwnerInv
  <2> QED
    BY <1>2, <2>2 DEF PutSegment
<1>6. log'[s] = [push |-> p, ver |-> log[s].ver + 1]
  BY <1>2 DEF PutSegment
<1> QED
  BY <1>1, <1>3, <1>4, <1>5, <1>6 DEF SlotKept

\* Claiming a slot: a new version of a segment nobody owns, or a taken one.
LEMMA ClaimStep ==
    ASSUME IInv, TypeInv', NEW i \in Instances, PubClaim(i)
    PROVE  IInv' /\ Quiet
<1> DEFINE q == pb[i]
<1>1. CopyInv(i) /\ PubInv(i) /\ q \in PubRecs /\ pb \in [Instances -> PubRecs]
  BY DEF IInv, TypeInv, TypeOK
<1>2. q.pc = "claim" /\ q.seq \in Seqs /\ q.push \in Pushes /\ UNCHANGED <<copy, sy>>
      /\ UNCHANGED <<manifest, mversion>>
  BY <1>1, ConstantsAssumption DEF PubClaim, IInv, TypeInv, PubTyped, PubRecs, Seqs
<1>3. VerifyInv(i) /\ life[i] = "synced" /\ life'[i] = life[i] /\ applied'[i] = applied[i]
  BY <1>1, <1>2 DEF PubInv, Verifying, copy
<1>4. CASE log[q.seq].push = NoPush
  <2>1. /\ PutSegment(q.seq, q.push)
        /\ pb' = [pb EXCEPT ![i].pc = "cas", ![i].sver = log[q.seq].ver + 1]
    BY <1>4 DEF PubClaim
  <2>2. /\ Quiet /\ \A j \in Instances : SlotKept(j)
        /\ q.seq \notin manifest.segs
        /\ log'[q.seq] = [push |-> q.push, ver |-> log[q.seq].ver + 1]
    BY <1>2, <1>4, <2>1, PutQuiet
  <2>3. /\ pb'[i].pc = "cas" /\ pb'[i].sver = log[q.seq].ver + 1 /\ pb'[i].man = q.man
        /\ pb'[i].ver = q.ver /\ pb'[i].seq = q.seq /\ pb'[i].burned = q.burned
        /\ pb'[i].push = q.push /\ \A j \in Instances : j # i => pb'[j] = pb[j]
    BY <1>1, <2>1 DEF PubRecs
  <2>4. VerifyInv(i)'
    <3>1. BucketRefs' = BucketRefs /\ \A n : Snap(n)' <=> Snap(n)
      BY <2>2, QuietBucket DEF Snap, Quiet
    <3> HIDE DEF Snap, BucketRefs
    <3> QED
      BY <1>2, <1>3, <2>3, <3>1 DEF VerifyInv, VersionOf
  <2>5. log[q.seq].ver \in Nat
    BY <1>2 DEF IInv, TypeInv, TypeOK
  <2>6. OwnerInv(i)'
    BY <1>2, <2>2, <2>3, <2>5 DEF OwnerInv
  <2>7. PubInv(i)'
    BY <1>3, <2>3, <2>4, <2>6 DEF PubInv, Verifying, Owning
  <2>8. CopyInv(i)'
    BY <1>2, <2>2, QuietCopy DEF copy
  <2>9. OwnInv'
    <3>1. ASSUME NEW j \in Instances, j # i, pb[j].pc \in Owning, pb[j].seq = q.seq
          PROVE  pb[j].sver # log[q.seq].ver + 1
      <4>1. pb[j].sver <= log[q.seq].ver /\ pb[j].sver \in Nat
        BY <1>1, <3>1 DEF IInv, PubInv, OwnerInv, PubRecs
      <4> QED
        BY <2>5, <4>1
    <3> QED
      BY <2>3, <3>1 DEF OwnInv, IInv
  <2>10. ASSUME NEW j \in Instances, j # i PROVE CopyInv(j)' /\ PubInv(j)'
    <3>1. applied'[j] = applied[j] /\ applied[j] <= applied'[j]
      BY <1>2 DEF copy, IInv, TypeInv, TypeOK
    <3> QED
      BY <1>2, <2>2, <2>3, <2>10, <3>1, QuietCopy, QuietPub DEF copy
  <2> QED
    BY <2>2, <2>7, <2>8, <2>9, <2>10, QuietBucket DEF IInv
<1>5. CASE log[q.seq].push # NoPush
  <2>1. pb' = [pb EXCEPT ![i].pc = "probe", ![i].probes = 0] /\ UNCHANGED log
    BY <1>5 DEF PubClaim
  <2>2. Quiet /\ \A j \in Instances : SlotKept(j)
    BY <1>2, <2>1, LogKept DEF bucket
  <2>3. /\ pb'[i].pc = "probe" /\ pb'[i].man = q.man
        /\ pb'[i].ver = q.ver /\ pb'[i].seq = q.seq /\ pb'[i].burned = q.burned
        /\ pb'[i].push = q.push /\ \A j \in Instances : j # i => pb'[j] = pb[j]
    BY <1>1, <2>1 DEF PubRecs
  <2>4. VerifyInv(i)'
    <3>1. BucketRefs' = BucketRefs /\ \A n : Snap(n)' <=> Snap(n)
      BY <2>2, QuietBucket DEF Snap, Quiet
    <3> HIDE DEF Snap, BucketRefs
    <3> QED
      BY <1>2, <1>3, <2>3, <3>1 DEF VerifyInv, VersionOf
  <2>5. PubInv(i)'
    BY <1>3, <2>3, <2>4 DEF PubInv, Verifying, Owning
  <2> QED
    BY <1>2, <2>2, <2>3, <2>5, PubMoves DEF Owning
<1> QED
  BY <1>4, <1>5

\* A failed claim may leave an orphan and nothing else.
LEMMA ClaimErrorStep ==
    ASSUME IInv, TypeInv', NEW i \in Instances, PubClaimError(i)
    PROVE  IInv' /\ Quiet
<1>1. pb[i].seq \in Seqs /\ pb[i].push \in Pushes /\ UNCHANGED <<copy, sy, manifest, mversion>>
  <2>1. pb[i].pc = "claim" /\ pb[i].seq <= MaxSeq /\ UNCHANGED <<copy, sy, manifest, mversion>>
    BY DEF PubClaimError
  <2>2. PubTyped(pb[i]) /\ pb[i] \in PubRecs
    BY DEF IInv, TypeInv, TypeOK
  <2>3. pb[i].push \in Pushes /\ pb[i].seq # 0 /\ pb[i].seq \in Nat
    BY <2>1, <2>2, ConstantsAssumption DEF PubTyped, PubRecs
  <2>4. pb[i].seq \in Seqs
    BY <2>1, <2>3, ConstantsAssumption DEF Seqs
  <2> QED
    BY <2>1, <2>3, <2>4
<1>2. Quiet /\ \A j \in Instances : SlotKept(j)
  <2>1. CASE UNCHANGED log
    BY <1>1, <2>1, LogKept DEF bucket
  <2>2. CASE log[pb[i].seq].push = NoPush /\ PutSegment(pb[i].seq, pb[i].push)
    BY <1>1, <2>2, PutQuiet
  <2> QED
    BY <2>1, <2>2 DEF PubClaimError
<1>3. /\ PubInv(i)' /\ pb'[i].pc \notin Owning
      /\ \A j \in Instances : j # i => pb'[j] = pb[j]
  <2>1. Answer(i, "error") /\ pb[i].pc # "idle"
    BY DEF PubClaimError
  <2> QED
    BY <1>1, <2>1, PubLetsGo
<1> QED
  BY <1>1, <1>2, <1>3, PubMoves

\* Probing a taken slot; a burned seq lies between the base's head and the
\* seq tried next.
LEMMA ProbeStep ==
    ASSUME IInv, TypeInv', NEW i \in Instances, PubProbeManifest(i) \/ PubProbeSlot(i)
    PROVE  IInv'
<1> DEFINE q == pb[i]
<1>1. PubInv(i) /\ q \in PubRecs /\ pb \in [Instances -> PubRecs]
  BY DEF IInv, TypeInv, TypeOK
<1>2. q.pc \in {"probe", "head"} /\ q.seq \in Seqs /\ UNCHANGED <<bucket, copy, sy>>
  BY DEF PubProbeManifest, PubProbeSlot, IInv, TypeInv, PubTyped
<1>3. Quiet /\ \A j \in Instances : SlotKept(j)
  BY <1>2, LogKept
<1>4. VerifyInv(i) /\ life[i] = "synced" /\ life'[i] = life[i] /\ applied'[i] = applied[i]
  BY <1>1, <1>2 DEF PubInv, Verifying, copy
<1>5. CASE TryAgain(i) \/ Answer(i, "error")
  BY <1>2, <1>3, <1>5, PubLetsGo, PubMoves
<1>6. ASSUME NEW p \in PubRecs, p.pc \in {"claim", "probe", "head"}, pb' = [pb EXCEPT ![i] = p],
             p.man = q.man, p.ver = q.ver, p.push = q.push, q.seq <= p.seq,
             \A b \in p.burned : b \in q.burned \/ (b[1] = q.seq /\ q.seq < p.seq)
      PROVE  IInv'
  <2>1. pb'[i] = p /\ \A j \in Instances : j # i => pb'[j] = pb[j]
    BY <1>1, <1>6
  <2>2. q.man.head < p.seq /\ \A b \in p.burned : q.man.head < b[1] /\ b[1] < p.seq
    <3>1. q.seq \in Nat /\ p.seq \in Nat /\ q.man.head \in Nat
      BY <1>1, <1>6, ConstantsAssumption DEF PubRecs, Manifests
    <3>2. \A b \in q.burned : b[1] \in Nat
      BY <1>1 DEF PubRecs
    <3> QED
      BY <1>4, <1>6, <3>1, <3>2 DEF VerifyInv
  <2>3. VerifyInv(i)'
    <3>1. BucketRefs' = BucketRefs /\ \A n : Snap(n)' <=> Snap(n)
      BY <1>3, QuietBucket DEF Snap, Quiet
    <3> HIDE DEF Snap, BucketRefs
    <3> QED
      BY <1>3, <1>4, <1>6, <2>1, <2>2, <3>1 DEF VerifyInv, VersionOf, Quiet
  <2>4. PubInv(i)'
    BY <1>4, <1>6, <2>1, <2>3 DEF PubInv, Verifying, Owning
  <2> QED
    BY <1>2, <1>3, <1>6, <2>1, <2>4, PubMoves DEF Owning
<1>7. CASE PubProbeManifest(i) /\ ~TryAgain(i)
  <2> DEFINE p == [q EXCEPT !.pc = "head"]
  <2>1. pb' = [pb EXCEPT ![i] = p]
    BY <1>7 DEF PubProbeManifest
  <2>2. /\ p \in PubRecs /\ p.pc = "head" /\ p.man = q.man /\ p.ver = q.ver
        /\ p.push = q.push /\ p.seq = q.seq /\ q.seq <= p.seq /\ p.burned = q.burned
    BY <1>1 DEF PubRecs, PubPcs
  <2> HIDE DEF p
  <2> QED
    BY <1>6, <2>1, <2>2
<1>8. CASE PubProbeSlot(i) /\ ~Answer(i, "error")
  <2> DEFINE burned == q.burned \cup {<<q.seq, log[q.seq].ver>>}
             p1 == [q EXCEPT !.pc = "claim"]
             p2 == [q EXCEPT !.pc = "probe", !.probes = q.probes + 1]
             p3 == [q EXCEPT !.pc = "claim", !.burned = burned, !.seq = q.seq + 1]
  <2>1. \/ pb' = [pb EXCEPT ![i] = p1]
        \/ pb' = [pb EXCEPT ![i] = p2]
        \/ pb' = [pb EXCEPT ![i] = p3]
    BY <1>8 DEF PubProbeSlot
  <2>2. q.seq \in Nat
    BY <1>1 DEF PubRecs
  <2>3. pb' \in [Instances -> PubRecs]
    BY DEF TypeInv, TypeOK
  <2>4. /\ p1.pc = "claim" /\ p1.man = q.man /\ p1.ver = q.ver
        /\ p1.push = q.push /\ p1.seq = q.seq /\ p1.burned = q.burned
    BY <1>1 DEF PubRecs
  <2>5. /\ p2.pc = "probe" /\ p2.man = q.man /\ p2.ver = q.ver
        /\ p2.push = q.push /\ p2.seq = q.seq /\ p2.burned = q.burned
    BY <1>1 DEF PubRecs
  <2>6. /\ p3.pc = "claim" /\ p3.man = q.man /\ p3.ver = q.ver
        /\ p3.push = q.push /\ p3.seq = q.seq + 1 /\ p3.burned = burned
    BY <1>1 DEF PubRecs
  <2>7. \A b \in burned : b \in q.burned \/ b[1] = q.seq
    OBVIOUS
  <2> HIDE DEF p1, p2, p3, burned
  <2>8. CASE pb' = [pb EXCEPT ![i] = p1]
    <3>1. p1 \in PubRecs
      BY <1>1, <2>3, <2>8
    <3>2. q.seq <= p1.seq /\ \A b \in p1.burned : b \in q.burned
      BY <2>2, <2>4
    <3> QED
      BY <1>6, <2>4, <2>8, <3>1, <3>2
  <2>9. CASE pb' = [pb EXCEPT ![i] = p2]
    <3>1. p2 \in PubRecs
      BY <1>1, <2>3, <2>9
    <3>2. q.seq <= p2.seq /\ \A b \in p2.burned : b \in q.burned
      BY <2>2, <2>5
    <3> QED
      BY <1>6, <2>5, <2>9, <3>1, <3>2
  <2>10. CASE pb' = [pb EXCEPT ![i] = p3]
    <3>1. p3 \in PubRecs
      BY <1>1, <2>3, <2>10
    <3>2. q.seq <= p3.seq /\ q.seq < p3.seq
      BY <2>2, <2>6
    <3> QED
      BY <1>6, <2>6, <2>7, <2>10, <3>1, <3>2
  <2> QED
    BY <2>1, <2>8, <2>9, <2>10
<1> QED
  BY <1>5, <1>7, <1>8

\* A CAS that is refused or fails leaves the publisher with its segment.
LEMMA CasLostStep ==
    ASSUME IInv, TypeInv', NEW i \in Instances, pb[i].pc = "cas",
           NEW c \in {"drop", "landed"}, pb' = [pb EXCEPT ![i].pc = c],
           UNCHANGED <<bucket, copy, sy>>
    PROVE  IInv'
<1>1. PubInv(i) /\ pb[i] \in PubRecs /\ pb \in [Instances -> PubRecs]
  BY DEF IInv, TypeInv, TypeOK
<1>2. Quiet /\ \A j \in Instances : SlotKept(j)
  BY LogKept
<1>3. /\ pb'[i].pc = c /\ pb'[i].seq = pb[i].seq /\ pb'[i].sver = pb[i].sver
      /\ pb'[i].push = pb[i].push /\ \A j \in Instances : j # i => pb'[j] = pb[j]
  BY <1>1 DEF PubRecs
<1>4. OwnerInv(i) /\ life[i] = "synced" /\ life'[i] = life[i] /\ log' = log
  BY <1>1 DEF PubInv, Owning, copy, bucket
<1>5. OwnerInv(i)'
  BY <1>2, <1>3, <1>4 DEF OwnerInv, Quiet
<1>6. PubInv(i)'
  BY <1>3, <1>4, <1>5 DEF PubInv, Verifying, Owning
<1> QED
  BY <1>2, <1>3, <1>6, PubMoves DEF Owning

\* An unapplied CAS is found not to have landed.
LEMMA LandedStep ==
    ASSUME IInv, TypeInv', NEW i \in Instances, PubLanded(i)
    PROVE  IInv'
<1>1. OwnerInv(i) /\ pb[i].pc = "landed"
  BY DEF PubLanded, IInv, PubInv, Owning
<1>2. Answer(i, "error") /\ UNCHANGED <<bucket, copy, sy>>
  BY <1>1 DEF PubLanded, OwnerInv
<1>3. Quiet /\ \A j \in Instances : SlotKept(j)
  BY <1>2, LogKept
<1> QED
  BY <1>1, <1>2, <1>3, PubLetsGo, PubMoves

\* Dropping one's own slot, by the version one wrote, hits nobody else's.
LEMMA DropStep ==
    ASSUME IInv, TypeInv', NEW i \in Instances, PubDrop(i)
    PROVE  IInv' /\ Quiet
<1> DEFINE q == pb[i]
<1>1. OwnerInv(i) /\ q.pc = "drop" /\ TryAgain(i) /\ UNCHANGED <<manifest, mversion, copy, sy>>
  BY DEF PubDrop, IInv, PubInv, Owning
<1>2. manifest.segs \subseteq Seqs /\ \A s \in Seqs : log[s].ver \in Nat
  BY DEF IInv, TypeInv, TypeOK, Manifests
<1>3. Quiet /\ \A j \in Instances : j # i => SlotKept(j)
  <2>1. CASE UNCHANGED log
    BY <1>1, <2>1, LogKept DEF bucket
  <2>2. CASE DropSegments({<<q.seq, q.sver>>})
    <3>1. \A s \in Seqs : s # q.seq \/ log[s].ver # q.sver => log'[s] = log[s]
      BY <2>2 DEF DropSegments
    <3>2. \A s \in Seqs : log'[s].ver = log[s].ver
      BY <2>2 DEF DropSegments
    <3>3. Quiet
      BY <1>1, <1>2, <3>1 DEF Quiet, OwnerInv
    <3>4. ASSUME NEW j \in Instances, j # i, pb[j].pc \in Owning, pb[j].seq > manifest.head
          PROVE  log'[pb[j].seq] = log[pb[j].seq]
      <4>1. OwnerInv(j)
        BY <3>4 DEF IInv, PubInv
      <4>2. pb[j].seq \in Seqs /\ log[pb[j].seq].ver = pb[j].sver
        BY <3>4, <4>1 DEF OwnerInv
      <4>3. pb[j].seq # q.seq \/ pb[j].sver # q.sver
        BY <1>1, <3>4 DEF IInv, OwnInv, Owning
      <4> QED
        BY <3>1, <4>2, <4>3
    <3> QED
      BY <1>2, <3>2, <3>3, <3>4 DEF SlotKept
  <2> QED
    BY <2>1, <2>2 DEF PubDrop
<1>4. /\ PubInv(i)' /\ pb'[i].pc \notin Owning
      /\ \A j \in Instances : j # i => pb'[j] = pb[j]
  BY <1>1, PubLetsGo
<1> QED
  BY <1>1, <1>3, <1>4, PubMoves

\* Burned seqs lie below the winner's and are not listed.
LEMMA SweepStep ==
    ASSUME IInv, TypeInv', NEW i \in Instances, PubSweep(i)
    PROVE  IInv' /\ Quiet
<1> DEFINE q == pb[i]
<1>1. WonInv(i) /\ q.pc = "sweep" /\ Answer(i, "ok") /\ UNCHANGED <<manifest, mversion, copy, sy>>
  BY DEF PubSweep, IInv, PubInv
<1>2. manifest.segs \subseteq Seqs /\ \A s \in Seqs : s \in Nat /\ log[s].ver \in Nat
  <2>1. manifest.segs \subseteq Seqs
    BY DEF IInv, TypeInv, TypeOK, Manifests
  <2>2. \A s \in Seqs : s \in Nat
    BY ConstantsAssumption DEF Seqs
  <2>3. \A s \in Seqs : log[s].ver \in Nat
    BY DEF IInv, TypeInv, TypeOK
  <2> QED
    BY <2>1, <2>2, <2>3
<1>3. Quiet /\ \A j \in Instances : j # i => SlotKept(j)
  <2>1. CASE UNCHANGED log
    BY <1>1, <2>1, LogKept DEF bucket
  <2>2. CASE DropSegments(q.burned)
    <3>1. \A s \in Seqs : <<s, log[s].ver>> \notin q.burned => log'[s] = log[s]
      BY <2>2 DEF DropSegments
    <3>2. \A s \in Seqs : log'[s].ver = log[s].ver
      BY <2>2 DEF DropSegments
    <3>3. \A s \in Seqs : <<s, log[s].ver>> \in q.burned => s < q.seq /\ s \notin manifest.segs
      BY <1>1 DEF WonInv
    <3>4. Quiet
      BY <1>1, <1>2, <3>1, <3>3 DEF Quiet
    <3>5. ASSUME NEW j \in Instances, pb[j].pc \in Owning, pb[j].seq > manifest.head
          PROVE  log'[pb[j].seq] = log[pb[j].seq]
      <4>1. pb[j].seq \in Seqs
        BY <3>5 DEF IInv, PubInv, OwnerInv
      <4>2. ~(pb[j].seq < q.seq)
        <5>1. q.seq <= manifest.head /\ q.seq \in Nat /\ manifest.head \in Nat
          BY <1>1, SegsType DEF WonInv, IInv, TypeInv, TypeOK, PubRecs
        <5> QED
          BY <1>2, <3>5, <4>1, <5>1
      <4> QED
        BY <3>1, <3>3, <4>1, <4>2
    <3> QED
      BY <1>2, <3>2, <3>4, <3>5 DEF SlotKept
  <2> QED
    BY <2>1, <2>2 DEF PubSweep
<1>4. /\ PubInv(i)' /\ pb'[i].pc \notin Owning
      /\ \A j \in Instances : j # i => pb'[j] = pb[j]
  BY <1>1, PubLetsGo
<1> QED
  BY <1>1, <1>3, <1>4, PubMoves

(***************************************************************************)
(* The commit.                                                             *)
(***************************************************************************)

\* A successful swap appends one entry, verified against the refs that the
\* log before it defines.
LEMMA CommitFacts ==
    ASSUME IInv, TypeInv', NEW i \in Instances, pb[i].pc = "cas", SwapManifest(i), UNCHANGED log
    PROVE  /\ pb[i].man = manifest /\ pb[i].seq \in Seqs /\ pb[i].seq > manifest.head
           /\ manifest'.head = pb[i].seq /\ manifest'.segs = manifest.segs \cup {pb[i].seq}
           /\ manifest'.rev = mversion + 1 /\ mversion' = mversion + 1
           /\ Entry' = Entry /\ pb[i].seq \in DOMAIN Entry
           /\ Entry[pb[i].seq] = TxnOf[pb[i].push]
           /\ BucketRefs' = ApplyTxn(TxnOf[pb[i].push], BucketRefs)
           /\ BucketInv'
           /\ \A m \in Manifests : Snap(m) => Snap(m)'
<1> DEFINE q == pb[i]
           n == pb[i].seq
<1>1. VerifyInv(i) /\ OwnerInv(i) /\ BucketInv /\ q \in PubRecs /\ q.push \in Pushes
  BY DEF IInv, PubInv, Verifying, Owning, TypeInv, TypeOK, PubTyped
<1>2. q.man = manifest
  <2>1. q.ver = mversion /\ mversion >= 1 /\ mversion \in Nat
    BY <1>1 DEF SwapManifest, BucketInv, Snap, IInv, TypeInv, TypeOK
  <2> QED
    BY <1>1, <2>1 DEF VerifyInv, VersionOf, Snap
<1>3. n \in Seqs /\ n \in Nat /\ n > 0 /\ manifest.head \in Nat /\ mversion \in Nat /\ n > manifest.head
  <2>1. n \in Seqs /\ manifest.head < n
    BY <1>1, <1>2 DEF VerifyInv, OwnerInv
  <2>2. n \in Nat /\ n > 0
    BY <2>1, ConstantsAssumption DEF Seqs
  <2>3. manifest.head \in Nat
    BY SegsType DEF IInv
  <2>4. mversion \in Nat
    BY DEF IInv, TypeInv, TypeOK
  <2> QED
    BY <2>1, <2>2, <2>3, <2>4
<1>4. /\ manifest'.head = n /\ manifest'.segs = manifest.segs \cup {n}
      /\ manifest'.rev = mversion + 1 /\ mversion' = mversion + 1
  BY <1>1, <1>2 DEF SwapManifest, Updated, BucketInv
<1>5. Entry' = Entry
  BY DEF Entry
<1>6. n \in DOMAIN Entry /\ Entry[n] = TxnOf[q.push]
  <2>1. log[n].push = q.push
    BY <1>1, <1>3 DEF OwnerInv
  <2> QED
    BY <1>1, <1>3, <2>1, ConstantsAssumption DEF Entry
<1>7. \A s \in manifest.segs : s \in Nat /\ s <= manifest.head /\ s < n
  <2>1. \A s \in manifest.segs : s \in Nat
    BY SegsType DEF IInv
  <2>2. \A s \in manifest.segs : s <= manifest.head
    BY <1>1 DEF BucketInv, Snap
  <2> QED
    BY <1>3, <2>1, <2>2
<1> HIDE DEF Entry
<1>8. BucketRefs' = ApplyTxn(TxnOf[q.push], BucketRefs)
  <2>1. SeqSet(manifest.segs)
    BY SegsType DEF IInv
  <2>2. Replay(NoRefs, manifest.segs \cup {n}, Entry)
          = ApplyTxn(Entry[n], Replay(NoRefs, manifest.segs, Entry))
    BY <1>3, <1>7, <2>1, ReplayAppend
  <2> QED
    BY <1>4, <1>5, <1>6, <2>2 DEF BucketRefs, Fold
<1>9. ASSUME NEW m \in Manifests, Snap(m) PROVE Snap(m)'
  <2>1. m.head \in Nat /\ m.rev \in Nat /\ m.head <= manifest.head /\ m.rev <= mversion
    BY <1>9, ConstantsAssumption DEF Snap, Manifests
  <2>2. m.head <= n /\ ~(n <= m.head) /\ m.rev <= mversion + 1 /\ m.rev # mversion + 1
    BY <1>3, <2>1
  <2> QED
    BY <1>4, <1>9, <2>2 DEF Snap
<1>10. BucketInv'
  <2>1. Snap(manifest)' /\ (manifest.rev = mversion)'
    <3>1. \A s \in manifest.segs \cup {n} : s <= n
      BY <1>3, <1>7
    <3> QED
      BY <1>3, <1>4, <3>1 DEF Snap
  <2>2. Snap(EmptyManifest)'
    BY <1>1, <1>9, IdleType DEF BucketInv
  <2>3. (manifest.segs \subseteq DOMAIN Entry)'
    BY <1>1, <1>4, <1>5, <1>6 DEF BucketInv
  <2>4. ASSUME NEW s \in manifest.segs \cup {n}
        PROVE  VerifyTxn(Entry[s], Fold({t \in manifest.segs \cup {n} : t < s}, Entry))
    <3>1. CASE s = n
      <4>1. {t \in manifest.segs \cup {n} : t < s} = manifest.segs
        BY <1>3, <1>7, <3>1
      <4>2. VerifyTxn(TxnOf[q.push], BucketRefs)
        BY <1>1 DEF VerifyInv, SwapManifest
      <4> QED
        BY <1>6, <3>1, <4>1, <4>2 DEF BucketRefs
    <3>2. CASE s # n
      <4>1. {t \in manifest.segs \cup {n} : t < s} = {t \in manifest.segs : t < s}
        <5>1. s \in manifest.segs /\ ~(n < s)
          BY <1>3, <1>7, <3>2
        <5> QED
          BY <5>1
      <4>2. VerifyTxn(Entry[s], Fold({t \in manifest.segs : t < s}, Entry))
        BY <1>1, <3>2 DEF BucketInv
      <4> QED
        BY <4>1, <4>2
    <3> QED
      BY <3>1, <3>2
  <2> QED
    BY <1>4, <1>5, <2>1, <2>2, <2>3, <2>4 DEF BucketInv
<1> QED
  BY <1>2, <1>3, <1>4, <1>5, <1>6, <1>8, <1>9, <1>10

\* The commit preserves the invariant: older copies have one more entry to
\* replay, and no other publisher owned this slot or still has a current base.
LEMMA CasWonStep ==
    ASSUME IInv, TypeInv', NEW i \in Instances, pb[i].pc = "cas", SwapManifest(i),
           UNCHANGED <<log, copy, sy>>,
           pb' = [pb EXCEPT ![i].pc = "local", ![i].man = Updated(i), ![i].ver = mversion + 1]
    PROVE  IInv'
<1> DEFINE q == pb[i]
           n == pb[i].seq
<1>1. /\ q.man = manifest /\ n \in Seqs /\ n > manifest.head
      /\ manifest'.head = n /\ manifest'.segs = manifest.segs \cup {n}
      /\ manifest'.rev = mversion + 1 /\ mversion' = mversion + 1
      /\ Entry' = Entry /\ n \in DOMAIN Entry /\ Entry[n] = TxnOf[q.push]
      /\ BucketRefs' = ApplyTxn(TxnOf[q.push], BucketRefs)
      /\ BucketInv'
      /\ \A m \in Manifests : Snap(m) => Snap(m)'
  BY CommitFacts
<1>2. pb \in [Instances -> PubRecs] /\ q \in PubRecs /\ VerifyInv(i) /\ OwnerInv(i)
  BY DEF IInv, PubInv, Verifying, Owning, TypeInv, TypeOK
<1>3. /\ n \in Nat /\ manifest.head \in Nat /\ mversion \in Nat
      /\ \A s \in manifest.segs : s \in Nat /\ s <= manifest.head
  <2>1. \A s \in manifest.segs : s <= manifest.head
    BY DEF IInv, BucketInv, Snap
  <2>2. n \in Nat
    BY <1>1, ConstantsAssumption DEF Seqs
  <2> QED
    BY <2>1, <2>2, SegsType DEF IInv, TypeInv, TypeOK
<1>4. \A j \in Instances : j # i => pb'[j] = pb[j]
  BY <1>2
<1>5. /\ pb'[i].pc = "local" /\ pb'[i].man = manifest' /\ pb'[i].ver = mversion + 1
      /\ pb'[i].seq = n /\ pb'[i].burned = q.burned /\ pb'[i].push = q.push
  BY <1>2 DEF PubRecs, SwapManifest
<1> HIDE DEF Entry, BucketRefs, Snap
<1>6. ASSUME NEW j \in Instances PROVE CopyInv(j)'
  <2>1. CopyInv(j)
    BY DEF IInv
  <2>2. /\ life'[j] = life[j] /\ man'[j] = man[j] /\ ver'[j] = ver[j] /\ refs'[j] = refs[j]
        /\ applied'[j] = applied[j] /\ verified'[j] = verified[j] /\ sy'[j] = sy[j]
    BY DEF copy
  <2>3. man[j] \in Manifests /\ sy[j].man \in Manifests
    BY DEF IInv, TypeInv, TypeOK, SyncRecs
  <2>4. life[j] # "down" /\ CatchUp(j) => CatchUp(j)'
    <3> SUFFICES ASSUME life[j] # "down", CatchUp(j), NEW r \in Refs
                 PROVE  \/ \E s \in manifest'.segs : s > applied[j] /\ r \in DOMAIN Entry[s]
                        \/ refs[j][r] = BucketRefs'[r]
      BY <1>1, <2>2 DEF CatchUp
    <3>1. CASE r \in DOMAIN Entry[n]
      <4>1. n > applied[j]
        <5>1. applied[j] <= manifest.head /\ applied[j] \in Nat
          BY <2>1 DEF CopyInv, Snap, IInv, TypeInv, TypeOK
        <5> QED
          BY <1>1, <1>3, <5>1
      <4> QED
        BY <1>1, <3>1, <4>1
    <3>2. CASE r \notin DOMAIN Entry[n]
      <4>1. BucketRefs'[r] = BucketRefs[r]
        BY <1>1, <3>2 DEF ApplyTxn
      <4> QED
        BY <1>1, <4>1 DEF CatchUp
    <3> QED
      BY <3>1, <3>2
  <2> HIDE DEF CatchUp
  <2> QED
    BY <1>1, <2>1, <2>2, <2>3, <2>4 DEF CopyInv, VersionOf
<1>7. PubInv(i)'
  <2>1. WonInv(i)'
    <3>1. \A b \in q.burned : manifest.head < b[1] /\ b[1] < n /\ b[1] \in Nat
      BY <1>1, <1>2 DEF VerifyInv, PubRecs
    <3>2. \A b \in q.burned : b[1] < n /\ b[1] \notin manifest.segs \cup {n}
      BY <1>3, <3>1
    <3>3. n <= n
      BY <1>3
    <3>4. pb'[i].seq <= manifest'.head
      BY <1>1, <1>5, <3>3
    <3>5. \A b \in pb'[i].burned : b[1] < pb'[i].seq /\ b[1] \notin manifest'.segs
      BY <1>1, <1>5, <3>2
    <3> QED
      BY <3>4, <3>5 DEF WonInv
  <2>2. LocalInv(i)'
    <3>1. Snap(manifest)'
      BY <1>1 DEF BucketInv
    <3>2. log'[n].push = q.push
      BY <1>1, <1>2 DEF OwnerInv
    <3>3. \A s \in manifest.segs \cup {n} : s < n => s <= applied[i]
      <4>1. manifest.head <= applied[i] /\ applied[i] \in Nat
        BY <1>1, <1>2 DEF VerifyInv, IInv, TypeInv, TypeOK
      <4> QED
        BY <1>3, <4>1
    <3> QED
      BY <1>1, <1>5, <3>1, <3>2, <3>3 DEF LocalInv, copy
  <2>3. life'[i] = "synced"
    BY DEF IInv, PubInv, copy
  <2> HIDE DEF WonInv, LocalInv
  <2> QED
    BY <1>5, <2>1, <2>2, <2>3 DEF PubInv, Verifying, Owning
<1>8. ASSUME NEW j \in Instances, j # i PROVE PubInv(j)'
  <2> DEFINE p == pb[j]
  <2>1. PubInv(j) /\ pb'[j] = p /\ p \in PubRecs /\ life'[j] = life[j] /\ applied'[j] = applied[j]
    BY <1>2, <1>4, <1>8 DEF IInv, copy
  <2>2. p.man \in Manifests /\ p.seq \in Nat /\ p.man.rev \in Nat
    BY <2>1 DEF PubRecs, Manifests
  <2>3. VerifyInv(j) => VerifyInv(j)'
    <3> SUFFICES ASSUME VerifyInv(j) PROVE VerifyInv(j)'
      OBVIOUS
    <3>1. p.ver # mversion + 1
      <4>1. p.man.rev <= mversion /\ (p.ver = 0 \/ p.ver = p.man.rev)
        BY DEF VerifyInv, VersionOf, Snap
      <4> QED
        BY <1>3, <2>2, <4>1
    <3> QED
      BY <1>1, <2>1, <2>2, <3>1 DEF VerifyInv, VersionOf
  <2>4. p.pc \in Owning /\ OwnerInv(j) => OwnerInv(j)'
    <3> SUFFICES ASSUME p.pc \in Owning, OwnerInv(j) PROVE OwnerInv(j)'
      OBVIOUS
    <3>1. p.seq # n
      <4> SUFFICES ASSUME p.seq = n PROVE FALSE
        OBVIOUS
      <4>1. log[n].ver = p.sver /\ log[n].ver = q.sver
        BY <1>1, <1>2 DEF OwnerInv
      <4> QED
        BY <1>8, <4>1 DEF IInv, OwnInv, Owning
    <3>2. p.seq > n => p.seq > manifest.head
      BY <1>1, <1>3, <2>2
    <3> QED
      BY <1>1, <2>1, <3>1, <3>2 DEF OwnerInv
  <2>5. WonInv(j) => WonInv(j)'
    <3> SUFFICES ASSUME WonInv(j) PROVE WonInv(j)'
      OBVIOUS
    <3>1. p.seq <= manifest.head
      BY DEF WonInv
    <3>2. p.seq <= n /\ \A b \in p.burned : b[1] \in Nat /\ b[1] # n
      <4>1. \A b \in p.burned : b[1] \in Nat /\ b[1] < p.seq
        BY <2>1 DEF WonInv, PubRecs
      <4> QED
        BY <1>1, <1>3, <2>2, <3>1, <4>1
    <3> QED
      BY <1>1, <2>1, <3>2 DEF WonInv
  <2>6. LocalInv(j) /\ WonInv(j) => LocalInv(j)'
    <3> SUFFICES ASSUME LocalInv(j), WonInv(j) PROVE LocalInv(j)'
      OBVIOUS
    <3>1. ~(n < p.seq)
      BY <1>1, <1>3, <2>2 DEF WonInv
    <3> QED
      BY <1>1, <2>1, <2>2, <3>1 DEF LocalInv
  <2> HIDE DEF VerifyInv, OwnerInv, WonInv, LocalInv
  <2> QED
    BY <2>1, <2>3, <2>4, <2>5, <2>6 DEF PubInv
<1>9. OwnInv'
  <2> SUFFICES ASSUME NEW j \in Instances, NEW k \in Instances, j # k,
                      pb'[j].pc \in Owning, pb'[k].pc \in Owning
               PROVE  pb'[j].seq # pb'[k].seq \/ pb'[j].sver # pb'[k].sver
    BY DEF OwnInv
  <2>1. j # i /\ k # i
    BY <1>5 DEF Owning
  <2> QED
    BY <1>4, <2>1 DEF IInv, OwnInv
<1> QED
  BY <1>1, <1>6, <1>7, <1>8, <1>9 DEF IInv

\* Applying the committed entry catches the copy up with it, even over a sync
\* that went past it: what it overwrites has a later writer in the log.
LEMMA LocalCommitStep ==
    ASSUME IInv, TypeInv', NEW i \in Instances, PubLocalCommit(i)
    PROVE  IInv'
<1> DEFINE q == pb[i]
           n == pb[i].seq
           txn == TxnOf[pb[i].push]
<1>1. /\ CopyInv(i) /\ PubInv(i) /\ BucketInv /\ q \in PubRecs /\ pb \in [Instances -> PubRecs]
      /\ q.pc = "local" /\ sy[i].pc = "idle" /\ UNCHANGED <<bucket, life, verified, sy>>
  BY DEF PubLocalCommit, IInv, TypeInv, TypeOK
<1>2. LocalInv(i) /\ WonInv(i) /\ life[i] = "synced" /\ verified[i] /\ CatchUp(i)
  BY <1>1 DEF PubInv, CopyInv
<1>3. Quiet /\ \A j \in Instances : SlotKept(j)
  BY <1>1, LogKept
<1>4. /\ pb'[i] = [q EXCEPT !.pc = "sweep"] /\ refs'[i] = ApplyTxn(txn, refs[i])
      /\ man'[i] = q.man /\ ver'[i] = q.ver /\ applied'[i] = n
      /\ life'[i] = "synced" /\ verified'[i] /\ sy'[i] = sy[i]
  BY <1>1, <1>2 DEF PubLocalCommit, IInv, TypeInv, TypeOK
<1>5. \A j \in Instances : j # i => Idles(j)
  BY DEF PubLocalCommit, Idles, IInv, TypeInv, TypeOK
<1>6. pb'[i].pc = "sweep" /\ pb'[i].seq = n /\ pb'[i].burned = q.burned
  BY <1>1, <1>4 DEF PubRecs
<1>7. PubInv(i)'
  <2>1. WonInv(i)'
    BY <1>2, <1>3, <1>6 DEF WonInv, Quiet
  <2> QED
    BY <1>4, <1>6, <2>1 DEF PubInv, Verifying, Owning
<1>8. Entry[n] = txn /\ n \in manifest.segs /\ n \in Nat /\ applied[i] \in Nat
      /\ (\A s \in manifest.segs : s \in Nat /\ (s < n => s <= applied[i]))
  <2>1. n \in DOMAIN Entry
    BY <1>1, <1>2 DEF BucketInv, LocalInv
  <2>2. Entry[n] = txn
    BY <1>2, <2>1 DEF Entry, LocalInv
  <2> QED
    BY <1>1, <1>2, <2>2, SegsType DEF LocalInv, IInv, TypeInv, TypeOK, PubRecs
<1>9. CatchUp(i)'
  <2>1. /\ BucketRefs' = BucketRefs /\ manifest' = manifest
        /\ \A s \in manifest.segs : s \in DOMAIN Entry' /\ Entry'[s] = Entry[s]
    BY <1>3, QuietBucket DEF Quiet
  <2>2. ASSUME NEW r \in Refs, \A s \in manifest.segs : s > n => r \notin DOMAIN Entry[s]
        PROVE  refs'[i][r] = BucketRefs[r]
    <3>1. CASE r \in DOMAIN txn
      <4>1. SeqSet(manifest.segs)
        BY SegsType DEF IInv
      <4>2. \A t \in manifest.segs : r \in DOMAIN Entry[t] => t <= n
        BY <1>8, <2>2
      <4> HIDE DEF Entry
      <4>3. Replay(NoRefs, manifest.segs, Entry)[r] = Entry[n][r].new
        BY <1>8, <3>1, <4>1, <4>2, FoldLast
      <4> QED
        BY <1>4, <1>8, <3>1, <4>3 DEF BucketRefs, Fold, ApplyTxn
    <3>2. CASE r \notin DOMAIN txn
      <4>1. \A s \in manifest.segs : s > applied[i] => r \notin DOMAIN Entry[s]
        <5> TAKE s \in manifest.segs
        <5> HAVE s > applied[i]
        <5>1. s = n \/ s > n
          BY <1>8
        <5> QED
          BY <1>8, <2>2, <3>2, <5>1
      <4>2. refs[i][r] = BucketRefs[r]
        BY <1>2, <4>1 DEF CatchUp
      <4> QED
        BY <1>4, <3>2, <4>2 DEF ApplyTxn
    <3> QED
      BY <3>1, <3>2
  <2> HIDE DEF Entry, BucketRefs
  <2> QED
    BY <1>4, <2>1, <2>2 DEF CatchUp
<1>10. CopyInv(i)'
  <2>1. \A m : Snap(m)' <=> Snap(m)
    BY <1>3 DEF Snap, Quiet
  <2>2. Snap(q.man) /\ q.ver = q.man.rev /\ q.man.head = n
    BY <1>2 DEF LocalInv
  <2> HIDE DEF Snap, CatchUp
  <2> QED
    BY <1>1, <1>4, <1>9, <2>1, <2>2 DEF CopyInv, VersionOf
<1> QED
  BY <1>3, <1>5, <1>6, <1>7, <1>10, QuietStep DEF Owning

\* A failed local commit forgets the version.
LEMMA LocalErrorStep ==
    ASSUME Races = {}, IInv, TypeInv', NEW i \in Instances, PubLocalCommitError(i)
    PROVE  IInv'
<1> DEFINE q == pb[i]
<1>1. /\ CopyInv(i) /\ PubInv(i) /\ q \in PubRecs /\ pb \in [Instances -> PubRecs]
      /\ q.pc = "local" /\ UNCHANGED <<bucket, life, man, applied, verified, sy, refs>>
  BY DEF PubLocalCommitError, IInv, TypeInv, TypeOK
<1>2. Quiet /\ \A j \in Instances : SlotKept(j)
  BY <1>1, LogKept
<1>3. pb'[i] = [q EXCEPT !.pc = "sweep"] /\ ver'[i] = 0 /\ \A j \in Instances : j # i => Idles(j)
  BY <1>1 DEF PubLocalCommitError, Idles, IInv, TypeInv, TypeOK
<1>4. pb'[i].pc = "sweep" /\ pb'[i].seq = q.seq /\ pb'[i].burned = q.burned
  BY <1>1, <1>3 DEF PubRecs
<1>5. PubInv(i)'
  <2>1. WonInv(i) /\ life[i] = "synced"
    BY <1>1 DEF PubInv
  <2>2. WonInv(i)'
    BY <1>2, <1>4, <2>1 DEF WonInv, Quiet
  <2> QED
    BY <1>1, <1>4, <2>1, <2>2 DEF PubInv, Verifying, Owning
<1>6. CopyInv(i)'
  <2>1. \A m : Snap(m)' <=> Snap(m)
    BY <1>2 DEF Snap, Quiet
  <2>2. CatchUp(i)' <=> CatchUp(i)
    <3>1. /\ BucketRefs' = BucketRefs /\ manifest' = manifest
          /\ \A s \in manifest.segs : s \in DOMAIN Entry' /\ Entry'[s] = Entry[s]
      BY <1>2, QuietBucket DEF Quiet
    <3> HIDE DEF Entry, BucketRefs
    <3> QED
      BY <1>1, <3>1 DEF CatchUp
  <2> HIDE DEF Snap, CatchUp
  <2> QED
    BY <1>1, <1>3, <2>1, <2>2 DEF CopyInv, VersionOf
<1> QED
  BY <1>2, <1>3, <1>4, <1>5, <1>6, QuietStep DEF Owning

(***************************************************************************)
(* The theorems.                                                           *)
(***************************************************************************)

\* The initial state satisfies the invariant.
LEMMA InvInit == Init => IInv
<1> SUFFICES ASSUME Init PROVE IInv
  OBVIOUS
<1>1. TypeInv
  BY TypeInit
<1>2. Snap(EmptyManifest)
  BY DEF Init, Snap, EmptyManifest
<1>3. BucketInv
  BY <1>2 DEF Init, BucketInv, EmptyManifest
<1>4. \A i \in Instances : CopyInv(i) /\ PubInv(i)
  BY <1>2 DEF Init, CopyInv, PubInv, VersionOf, IdleSync, IdlePub, Verifying, Owning
<1>5. OwnInv
  BY DEF Init, OwnInv, IdlePub, Owning
<1> QED
  BY <1>1, <1>3, <1>4, <1>5 DEF IInv

\* A step commits an entry or is quiet, and preserves the invariant.
LEMMA InvStep ==
    ASSUME Races = {}, IInv, [Next]_vars
    PROVE  /\ IInv'
           /\ \/ Quiet
              \/ \E i \in Instances : pb[i].pc = "cas" /\ SwapManifest(i) /\ UNCHANGED log
<1>0. TypeInv'
  BY TypeStep DEF IInv
<1> DEFINE Commits == \E i \in Instances : pb[i].pc = "cas" /\ SwapManifest(i) /\ UNCHANGED log
<1>1. ASSUME UNCHANGED bucket PROVE Quiet
  BY <1>1, LogKept
<1>2. ASSUME NEW i \in Instances, Open(i) PROVE IInv' /\ Quiet
  BY <1>0, <1>1, <1>2, OpenStep DEF Open
<1>3. ASSUME NEW i \in Instances, Crash(i) PROVE IInv' /\ Quiet
  BY <1>0, <1>1, <1>3, CrashStep DEF Crash
<1>4. ASSUME NEW i \in Instances, Repair(i) PROVE FALSE
  BY <1>4 DEF Repair
<1>5. ASSUME NEW i \in Instances, NEW who \in {"reader", "pub"}, SyncGet(i, who)
      PROVE  IInv' /\ Quiet
  BY <1>0, <1>1, <1>5, SyncGetStep DEF SyncGet
<1>6. ASSUME NEW i \in Instances, SyncStep(i) PROVE IInv' /\ Quiet
  <2>1. UNCHANGED bucket
    BY <1>6 DEF SyncStep, SyncApply, SyncReset, SyncReplay, SyncFail
  <2> QED
    BY <1>0, <1>1, <1>6, <2>1, SyncStepStep
<1>7. ASSUME NEW i \in Instances, NEW p \in Pushes, NEW synced \in BOOLEAN, Submit(i, p, synced)
      PROVE  IInv' /\ Quiet
  BY <1>0, <1>1, <1>7, SubmitStep DEF Submit
<1>8. ASSUME NEW i \in Instances, PubStep(i) PROVE IInv' /\ (Quiet \/ Commits)
  <2>1. CASE PubReadManifest(i) \/ PubHeadVersion(i)
    BY <2>1 DEF PubReadManifest, PubHeadVersion, IInv, PubInv
  <2>2. CASE PubVerify(i)
    BY <1>0, <1>1, <2>2, VerifyStep DEF PubVerify
  <2>3. CASE PubClaim(i)
    BY <1>0, <2>3, ClaimStep
  <2>4. CASE PubProbeManifest(i) \/ PubProbeSlot(i)
    BY <1>0, <1>1, <2>4, ProbeStep DEF PubProbeManifest, PubProbeSlot
  <2>5. CASE PubCas(i)
    <3>1. CASE SwapManifest(i)
      <4>1. pb[i].ver = mversion
        BY <3>1 DEF SwapManifest
      <4>2. /\ pb[i].pc = "cas" /\ UNCHANGED <<log, copy, sy>>
            /\ pb' = [pb EXCEPT ![i].pc = "local", ![i].man = Updated(i), ![i].ver = mversion + 1]
        BY <2>5, <4>1 DEF PubCas
      <4> QED
        BY <1>0, <3>1, <4>2, CasWonStep
    <3>2. CASE ~SwapManifest(i)
      <4>1. /\ pb[i].pc = "cas" /\ UNCHANGED <<bucket, copy, sy>>
            /\ pb' = [pb EXCEPT ![i].pc = "drop"]
        BY <2>5, <3>2 DEF PubCas, bucket
      <4> QED
        BY <1>0, <1>1, <4>1, CasLostStep
    <3> QED
      BY <3>1, <3>2
  <2>6. CASE PubLanded(i)
    BY <1>0, <1>1, <2>6, LandedStep DEF PubLanded
  <2>7. CASE PubLocalCommit(i)
    BY <1>0, <1>1, <2>7, LocalCommitStep DEF PubLocalCommit
  <2>8. CASE PubSweep(i)
    BY <1>0, <2>8, SweepStep
  <2>9. CASE PubDrop(i)
    BY <1>0, <2>9, DropStep
  <2>10. CASE SyncGet(i, "pub")
    BY <1>5, <2>10
  <2> QED
    BY <1>8, <2>1, <2>2, <2>3, <2>4, <2>5, <2>6, <2>7, <2>8, <2>9, <2>10 DEF PubStep
<1>9. ASSUME NEW i \in Instances, PubFault(i) PROVE IInv' /\ Quiet
  <2>1. CASE PubClaimError(i)
    BY <1>0, <2>1, ClaimErrorStep
  <2>2. CASE PubCasFault(i)
    <3>1. PICK c \in {"drop", "landed"} : pb' = [pb EXCEPT ![i].pc = c]
      BY <2>2 DEF PubCasFault
    <3>2. pb[i].pc = "cas" /\ UNCHANGED <<bucket, copy, sy>>
      BY <2>2 DEF PubCasFault, bucket
    <3> QED
      BY <1>0, <1>1, <3>1, <3>2, CasLostStep
  <2>3. CASE PubLocalCommitError(i)
    BY <1>0, <1>1, <2>3, LocalErrorStep DEF PubLocalCommitError
  <2>4. CASE PubReadError(i)
    <3>1. Answer(i, "error") /\ UNCHANGED <<bucket, copy, sy>> /\ pb[i].pc # "idle"
      BY <2>4 DEF PubReadError
    <3>2. Quiet /\ \A j \in Instances : SlotKept(j)
      BY <3>1, LogKept
    <3> QED
      BY <1>0, <3>1, <3>2, PubLetsGo, PubMoves
  <2> QED
    BY <1>9, <2>1, <2>2, <2>3, <2>4 DEF PubFault
<1>10. CASE UNCHANGED vars
  <2>1. Quiet /\ \A j \in Instances : SlotKept(j)
    BY <1>10, LogKept DEF vars, bucket
  <2>2. ASSUME NEW j \in Instances PROVE CopyInv(j)' /\ PubInv(j)'
    <3>1. applied[j] <= applied'[j]
      BY <1>10 DEF vars, IInv, TypeInv, TypeOK
    <3> QED
      BY <1>0, <1>10, <2>1, <3>1, QuietCopy, QuietPub DEF vars
  <2>3. OwnInv'
    BY <1>10 DEF vars, IInv, OwnInv
  <2> QED
    BY <1>0, <2>1, <2>2, <2>3, QuietBucket DEF IInv
<1> QED
  BY <1>2, <1>3, <1>4, <1>5, <1>6, <1>7, <1>8, <1>9, <1>10 DEF Next

\* The invariant of the publish path, without the RaceKinds.
THEOREM Invariance ==
    ASSUME Races = {}
    PROVE  Spec => []IInv
<1>1. Init => IInv
  BY InvInit
<1>2. IInv /\ [Next]_vars => IInv'
  BY InvStep
<1> QED
  BY <1>1, <1>2, PTL DEF Spec

\* No committed segment is ever deleted, by a loser dropping its slot or a
\* winner sweeping what it burned.
THEOREM KeepsSegments ==
    ASSUME Races = {}
    PROVE  Spec => []SegmentsPresent
<1>1. IInv => SegmentsPresent
  BY DEF IInv, BucketInv, SegmentsPresent
<1> QED
  BY <1>1, Invariance, PTL

\* Every committed entry found the refs it was verified against.
THEOREM Serializable ==
    ASSUME Races = {}
    PROVE  Spec => []SerialHistory
<1>1. IInv => SerialHistory
  <2> SUFFICES ASSUME IInv PROVE SerialHistory
    OBVIOUS
  <2>1. Committed = manifest.segs
    BY DEF IInv, BucketInv, Committed
  <2> HIDE DEF Committed
  <2> QED
    BY <2>1 DEF IInv, BucketInv, SerialHistory
<1> QED
  BY <1>1, Invariance, PTL

\* A copy at the bucket's version serves the bucket's refs.
THEOREM ServesCurrent ==
    ASSUME Races = {}
    PROVE  Spec => []CurrentCopy
<1>1. IInv => CurrentCopy
  <2> SUFFICES ASSUME IInv, NEW i \in Instances, ver[i] = mversion, verified[i]
               PROVE  refs[i] = BucketRefs
    BY DEF CurrentCopy
  <2>1. life[i] # "down"
    BY DEF IInv, CopyInv
  <2>2. \A r \in Refs : refs[i][r] = BucketRefs[r]
    BY <2>1, VersionMeansCurrent
  <2>3. refs[i] \in [Refs -> RefValues]
    BY DEF IInv, TypeInv, TypeOK, RefMaps
  <2>4. BucketRefs = [r \in Refs |-> BucketRefs[r]]
    BY DEF BucketRefs, Fold, Replay
  <2> HIDE DEF BucketRefs
  <2> QED
    BY <2>2, <2>3, <2>4
<1> QED
  BY <1>1, Invariance, PTL

\* The log is only ever appended to, one entry above its head at a time.
THEOREM OnlyAppends ==
    ASSUME Races = {}
    PROVE  Spec => AppendOnly
<1> DEFINE A == /\ manifest.head <= manifest'.head
                /\ \A s \in manifest.segs : s \in manifest'.segs /\ log'[s] = log[s]
                /\ \A s \in manifest'.segs \ manifest.segs : s > manifest.head
<1>1. IInv /\ [Next]_vars => [A]_vars
  <2> SUFFICES ASSUME IInv, [Next]_vars PROVE A
    OBVIOUS
  <2>1. manifest.head \in Nat
    BY SegsType DEF IInv
  <2>2. CASE Quiet
    BY <2>1, <2>2 DEF Quiet
  <2>3. ASSUME NEW i \in Instances, pb[i].pc = "cas", SwapManifest(i), UNCHANGED log PROVE A
    <3>1. /\ pb[i].seq \in Seqs /\ pb[i].seq > manifest.head
          /\ manifest'.head = pb[i].seq /\ manifest'.segs = manifest.segs \cup {pb[i].seq}
      BY <2>3, CommitFacts, TypeStep DEF IInv
    <3>2. pb[i].seq \in Nat
      BY <3>1, ConstantsAssumption DEF Seqs
    <3> QED
      BY <2>1, <2>3, <3>1, <3>2
  <2> QED
    BY <2>2, <2>3, InvStep
<1> QED
  BY <1>1, Invariance, PTL DEF Spec, AppendOnly

(***************************************************************************)
(* What clients are told.                                                  *)
(***************************************************************************)

\* The pushes the manifest lists.
Done == {p \in Pushes : \E s \in manifest.segs : log[s].push = p}

Working == {"sync", "read"} \cup Verifying \cup Owning

\* The publisher's push is pending and its own; it is listed once the CAS is won
\* and not before.
TellsInv(i) ==
    /\ pb[i].pc = "idle" => pb[i].push = NoPush
    /\ pb[i].pc # "idle" => status[pb[i].push] = "pending"
    /\ pb[i].pc \in Working => pb[i].push \notin Done
    /\ pb[i].pc \in {"local", "sweep"} => pb[i].push \in Done

\* A push is worked on by one publisher and listed once; who has not been told
\* of a commit has none.
AnswerInv ==
    /\ \A i \in Instances : TellsInv(i)
    /\ \A i, j \in Instances : i # j /\ pb[i].pc # "idle" => pb[i].push # pb[j].push
    /\ \A s, t \in manifest.segs : log[s].push = log[t].push => s = t
    /\ \A p \in Pushes : /\ status[p] \in {"new", "rejected"} => p \notin Done
                         /\ status[p] = "ok" => p \in Done

Won == {"local", "sweep"}

\* Publisher i goes on with its push, or with none.
GoesOn(i) ==
    /\ UNCHANGED status
    /\ pb'[i].push = pb[i].push
    /\ pb'[i].pc = "idle" <=> pb[i].pc = "idle"
    /\ pb'[i].pc \in Working <=> pb[i].pc \in Working
    /\ pb'[i].pc \in Won <=> pb[i].pc \in Won

\* It takes push p on.
Begins(i, p) ==
    /\ pb[i].pc = "idle" /\ status[p] = "new"
    /\ status' = [status EXCEPT ![p] = "pending"]
    /\ pb'[i].push = p /\ pb'[i].pc \in {"sync", "read"}

\* It answers a: "ok" after a won CAS and "rejected" after a verification.
Replies(i, a) ==
    /\ pb[i].pc # "idle" /\ pb'[i] = IdlePub
    /\ a = "ok" => pb[i].pc = "sweep"
    /\ a = "rejected" => pb[i].pc = "read"
    /\ status' = [status EXCEPT ![pb[i].push] = a]

\* It wins its CAS.
Wins(i) ==
    /\ pb[i].pc = "cas" /\ SwapManifest(i) /\ UNCHANGED <<log, status>>
    /\ pb'[i].pc = "local" /\ pb'[i].push = pb[i].push

Others(i) == \A j \in Instances : j # i => pb'[j] = pb[j]

\* What a step is to the clients.
ClientStep(i) ==
    /\ Others(i)
    /\ \/ Quiet /\ GoesOn(i)
       \/ Quiet /\ \E p \in Pushes : Begins(i, p)
       \/ Quiet /\ \E a \in {"ok", "rejected", "error"} : Replies(i, a)
       \/ Wins(i)

\* A step that leaves the manifest's version commits nothing.
LEMMA NoSwap ==
    ASSUME Races = {}, IInv, [Next]_vars, UNCHANGED mversion
    PROVE  Quiet
<1>1. mversion \in Nat
  BY DEF IInv, TypeInv, TypeOK
<1>2. ASSUME NEW i \in Instances, SwapManifest(i) PROVE FALSE
  BY <1>1, <1>2 DEF SwapManifest
<1> QED
  BY <1>2, InvStep

\* An answer of the publisher, as the clients see it.
LEMMA AnswerSeen ==
    ASSUME TypeInv, NEW i \in Instances, NEW a \in {"ok", "rejected", "error"}, Answer(i, a),
           pb[i].pc # "idle", a = "ok" => pb[i].pc = "sweep", a = "rejected" => pb[i].pc = "read"
    PROVE  Others(i) /\ Replies(i, a)
<1>1. pb \in [Instances -> PubRecs]
  BY DEF TypeInv, TypeOK
<1> QED
  BY <1>1 DEF Answer, Others, Replies

\* A retry is an answer or goes on.
LEMMA TryAgainSeen ==
    ASSUME TypeInv, NEW i \in Instances, pb[i].pc \in Working, TryAgain(i)
    PROVE  Others(i) /\ (GoesOn(i) \/ Replies(i, "error"))
<1>1. pb \in [Instances -> PubRecs] /\ pb[i] \in PubRecs /\ pb[i].pc # "idle"
  BY DEF TypeInv, TypeOK, Working, Verifying, Owning
<1>2. CASE Answer(i, "error")
  BY <1>1, <1>2, AnswerSeen
<1>3. CASE ~Answer(i, "error")
  <2> DEFINE q == [IdlePub EXCEPT !.pc = "sync", !.push = pb[i].push, !.attempts = pb[i].attempts + 1]
  <2>1. pb' = [pb EXCEPT ![i] = q] /\ UNCHANGED status
    BY <1>3 DEF TryAgain
  <2>2. q.pc = "sync" /\ q.push = pb[i].push
    BY DEF IdlePub
  <2> HIDE DEF q
  <2>3. pb'[i] = q /\ Others(i)
    BY <1>1, <2>1 DEF Others
  <2> QED
    BY <1>1, <2>1, <2>2, <2>3 DEF GoesOn, Working, Won, Verifying, Owning
<1> QED
  BY <1>2, <1>3

\* The publisher moves within its work, or after it has won.
LEMMA MoveSeen ==
    ASSUME TypeInv, NEW i \in Instances, NEW q, pb' = [pb EXCEPT ![i] = q], UNCHANGED status,
           q.push = pb[i].push,
           \/ pb[i].pc \in Working /\ q.pc \in Working
           \/ pb[i].pc \in Won /\ q.pc \in Won
           \/ pb[i].pc = "idle" /\ q.pc = "idle"
    PROVE  Others(i) /\ GoesOn(i)
<1>1. pb'[i] = q /\ Others(i)
  BY DEF Others, TypeInv, TypeOK
<1>2. /\ \A c \in Working : c # "idle" /\ c \notin Won
      /\ \A c \in Won : c # "idle" /\ c \notin Working
      /\ "idle" \notin Working \cup Won
  BY DEF Working, Won, Verifying, Owning
<1> QED
  BY <1>1, <1>2 DEF GoesOn

\* A sync that returns, as the clients see it.
LEMMA ReturnSeen ==
    ASSUME TypeInv, NEW i \in Instances, NEW who \in {"reader", "pub"},
           who = "pub" => pb[i].pc = "sync", SyncReturns(i, who), UNCHANGED status,
           pb[i].pc \in {"idle"} \cup Working \cup Won
    PROVE  Others(i) /\ GoesOn(i)
<1>1. pb \in [Instances -> PubRecs] /\ pb[i] \in PubRecs
  BY DEF TypeInv, TypeOK
<1>2. CASE who = "pub"
  <2> DEFINE q == [pb[i] EXCEPT !.pc = "read"]
  <2>1. pb' = [pb EXCEPT ![i] = q] /\ pb[i].pc = "sync"
    BY <1>1, <1>2 DEF SyncReturns
  <2>2. q.push = pb[i].push /\ q.pc = "read"
    BY <1>1 DEF PubRecs
  <2> HIDE DEF q
  <2> QED
    BY <2>1, <2>2, MoveSeen DEF Working
<1>3. CASE who # "pub"
  BY <1>1, <1>3 DEF SyncReturns, Others, GoesOn
<1> QED
  BY <1>2, <1>3

\* The publisher is idle, works or has won; without races it knows no other.
LEMMA PubStages ==
    ASSUME IInv, NEW i \in Instances
    PROVE  pb[i].pc \in {"idle"} \cup Working \cup Won
BY DEF IInv, TypeInv, TypeOK, PubRecs, PubPcs, PubInv, Working, Won, Verifying, Owning

\* Every step is one of these to the clients.
LEMMA StepsSeen ==
    ASSUME Races = {}, IInv, AnswerInv, Next
    PROVE  \E i \in Instances : ClientStep(i)
<1>0. TypeInv /\ status \in [Pushes -> Statuses] /\ pb \in [Instances -> PubRecs]
  BY DEF IInv, TypeInv, TypeOK
<1>1. ASSUME UNCHANGED mversion PROVE Quiet
  BY <1>1, NoSwap
<1>2. ASSUME NEW i \in Instances, Open(i) PROVE ClientStep(i)
  <2>1. UNCHANGED <<mversion, pb, status>>
    BY <1>2 DEF Open, bucket
  <2> QED
    BY <1>1, <2>1 DEF ClientStep, Others, GoesOn
<1>3. ASSUME NEW i \in Instances, Crash(i) PROVE ClientStep(i)
  <2>1. /\ UNCHANGED mversion /\ Others(i) /\ pb'[i] = IdlePub
        /\ status' = [p \in Pushes |-> IF p = pb[i].push THEN "error" ELSE status[p]]
    BY <1>0, <1>3 DEF Crash, bucket, Others
  <2>2. CASE pb[i].pc = "idle"
    <3>1. pb[i].push = NoPush /\ NoPush \notin Pushes
      BY <2>2, ConstantsAssumption DEF AnswerInv, TellsInv
    <3>2. status' = status
      BY <1>0, <2>1, <3>1
    <3> QED
      BY <1>1, <2>1, <2>2, <3>1, <3>2
      DEF ClientStep, GoesOn, IdlePub, Working, Won, Verifying, Owning
  <2>3. CASE pb[i].pc # "idle"
    <3>1. status' = [status EXCEPT ![pb[i].push] = "error"]
      BY <1>0, <2>1
    <3>2. Replies(i, "error")
      BY <2>1, <2>3, <3>1 DEF Replies
    <3> QED
      BY <1>1, <2>1, <3>2 DEF ClientStep
  <2> QED
    BY <2>2, <2>3
<1>4. ASSUME NEW i \in Instances, Repair(i) PROVE FALSE
  BY <1>4 DEF Repair
<1>5. ASSUME NEW i \in Instances, NEW who \in {"reader", "pub"}, SyncGet(i, who)
      PROVE  ClientStep(i)
  <2>1. /\ UNCHANGED <<mversion, status>> /\ (who = "pub" => pb[i].pc = "sync")
        /\ SyncReturns(i, who) \/ UNCHANGED pb
    BY <1>5 DEF SyncGet, bucket
  <2>2. CASE SyncReturns(i, who)
    <3>1. Others(i) /\ GoesOn(i)
      BY <1>0, <2>1, <2>2, PubStages, ReturnSeen
    <3> QED
      BY <1>1, <2>1, <3>1 DEF ClientStep
  <2>3. CASE UNCHANGED pb
    BY <1>1, <2>1, <2>3 DEF ClientStep, Others, GoesOn
  <2> QED
    BY <2>1, <2>2, <2>3
<1>6. ASSUME NEW i \in Instances, SyncStep(i) PROVE ClientStep(i)
  <2>0. sy[i].who \in {"reader", "pub"} /\ (sy[i].pc # "idle" /\ sy[i].who = "pub" => pb[i].pc = "sync")
    BY <1>0 DEF TypeInv, TypeOK, SyncRecs, SyncTyped
  <2>1. CASE SyncApply(i) \/ SyncReplay(i)
    <3>1. UNCHANGED <<mversion, status>> /\ SyncReturns(i, sy[i].who) /\ sy[i].pc # "idle"
      BY <2>1 DEF SyncApply, SyncReplay, Install, bucket
    <3>2. Others(i) /\ GoesOn(i)
      BY <1>0, <2>0, <3>1, PubStages, ReturnSeen
    <3> QED
      BY <1>1, <3>1, <3>2 DEF ClientStep
  <2>2. CASE SyncReset(i)
    BY <1>1, <2>2 DEF SyncReset, bucket, ClientStep, Others, GoesOn
  <2>3. CASE SyncFail(i)
    <3>1. UNCHANGED mversion /\ SyncErrs(i, sy[i].who) /\ sy[i].pc # "idle"
      BY <2>3 DEF SyncFail, bucket
    <3>2. CASE sy[i].who = "pub"
      <4>1. Answer(i, "error") /\ pb[i].pc = "sync"
        BY <2>0, <3>1, <3>2 DEF SyncErrs, Answer
      <4>2. Others(i) /\ Replies(i, "error")
        BY <1>0, <4>1, AnswerSeen
      <4> QED
        BY <1>1, <3>1, <4>2 DEF ClientStep
    <3>3. CASE sy[i].who # "pub"
      BY <1>1, <3>1, <3>3 DEF SyncErrs, ClientStep, Others, GoesOn
    <3> QED
      BY <3>2, <3>3
  <2> QED
    BY <1>6, <2>1, <2>2, <2>3 DEF SyncStep
<1>7. ASSUME NEW i \in Instances, NEW p \in Pushes, NEW synced \in BOOLEAN, Submit(i, p, synced)
      PROVE  ClientStep(i)
  <2> DEFINE q == [IdlePub EXCEPT !.pc = IF synced THEN "read" ELSE "sync", !.push = p]
  <2>1. /\ UNCHANGED mversion /\ pb' = [pb EXCEPT ![i] = q] /\ pb[i].pc = "idle"
        /\ status[p] = "new" /\ status' = [status EXCEPT ![p] = "pending"]
    BY <1>7 DEF Submit, bucket
  <2>2. q.push = p /\ q.pc \in {"sync", "read"}
    BY DEF IdlePub
  <2> HIDE DEF q
  <2>3. pb'[i] = q /\ Others(i)
    BY <1>0, <2>1 DEF Others
  <2>4. Begins(i, p)
    BY <2>1, <2>2, <2>3 DEF Begins
  <2> QED
    BY <1>1, <2>1, <2>3, <2>4 DEF ClientStep
<1>8. ASSUME NEW i \in Instances, Others(i), UNCHANGED mversion,
             GoesOn(i) \/ \E a \in {"ok", "rejected", "error"} : Replies(i, a)
      PROVE  ClientStep(i)
  BY <1>1, <1>8 DEF ClientStep
<1>9. ASSUME NEW i \in Instances, UNCHANGED <<mversion, status>>, pb'[i].push = pb[i].push, Others(i),
             \/ pb[i].pc \in Working /\ pb'[i].pc \in Working
             \/ pb[i].pc \in Won /\ pb'[i].pc \in Won
      PROVE  ClientStep(i)
  <2>1. GoesOn(i)
    BY <1>9 DEF GoesOn, Working, Won, Verifying, Owning
  <2> QED
    BY <1>8, <1>9, <2>1
<1>10. ASSUME NEW i \in Instances, PubStep(i) PROVE ClientStep(i)
  <2> USE DEF Working, Won, Verifying, Owning
  <2>0. pb[i] \in PubRecs
    BY <1>0
  <2>1. CASE PubReadManifest(i) \/ PubHeadVersion(i)
    BY <2>1 DEF PubReadManifest, PubHeadVersion, IInv, PubInv
  <2>2. CASE PubVerify(i)
    <3>1. UNCHANGED mversion /\ pb[i].pc = "read"
      BY <2>2 DEF PubVerify, bucket, IInv, PubInv
    <3>2. CASE Answer(i, "rejected")
      <4>1. Others(i) /\ Replies(i, "rejected")
        BY <1>0, <3>1, <3>2, AnswerSeen
      <4> QED
        BY <1>8, <3>1, <4>1
    <3>3. CASE ~Answer(i, "rejected")
      <4>1. UNCHANGED status /\ \E m : pb' = [pb EXCEPT ![i].pc = "claim", ![i].man = m, ![i].ver = ver[i],
                                  ![i].seq = m.head + 1]
        BY <2>2, <3>3 DEF PubVerify
      <4>2. pb'[i].pc = "claim" /\ pb'[i].push = pb[i].push /\ Others(i)
        BY <1>0, <2>0, <4>1 DEF Others, PubRecs
      <4> QED
        BY <1>9, <3>1, <4>1, <4>2
    <3> QED
      BY <3>2, <3>3
  <2>3. CASE PubClaim(i)
    <3>1. /\ UNCHANGED <<mversion, status>> /\ pb[i].pc = "claim"
          /\ pb'[i].pc \in {"cas", "probe"} /\ pb'[i].push = pb[i].push /\ Others(i)
      BY <1>0, <2>0, <2>3 DEF PubClaim, Others, PubRecs
    <3> QED
      BY <1>9, <3>1
  <2>4. CASE PubProbeManifest(i)
    <3>1. UNCHANGED mversion /\ pb[i].pc = "probe"
      BY <2>4 DEF PubProbeManifest, bucket
    <3>2. CASE TryAgain(i)
      BY <1>0, <1>8, <3>1, <3>2, TryAgainSeen
    <3>3. CASE ~TryAgain(i)
      <4>1. /\ UNCHANGED status /\ pb'[i].pc = "head" /\ pb'[i].push = pb[i].push /\ Others(i)
        BY <1>0, <2>0, <2>4, <3>3 DEF PubProbeManifest, Others, PubRecs
      <4> QED
        BY <1>9, <3>1, <4>1
    <3> QED
      BY <3>2, <3>3
  <2>5. CASE PubProbeSlot(i)
    <3>1. UNCHANGED mversion /\ pb[i].pc = "head"
      BY <2>5 DEF PubProbeSlot, bucket
    <3>2. CASE Answer(i, "error")
      BY <1>0, <1>8, <3>1, <3>2, AnswerSeen
    <3>3. CASE ~Answer(i, "error")
      <4>1. UNCHANGED status /\ Others(i) /\ pb'[i].push = pb[i].push /\ pb'[i].pc \in {"claim", "probe"}
        BY <1>0, <2>0, <2>5, <3>3 DEF PubProbeSlot, Others, PubRecs
      <4> QED
        BY <1>9, <3>1, <4>1
    <3> QED
      BY <3>2, <3>3
  <2>6. CASE PubCas(i)
    <3>1. UNCHANGED <<log, status>> /\ pb[i].pc = "cas"
      BY <2>6 DEF PubCas
    <3>2. CASE SwapManifest(i)
      <4>1. pb' = [pb EXCEPT ![i].pc = "local", ![i].man = Updated(i), ![i].ver = mversion + 1]
        BY <2>6, <3>2 DEF PubCas, SwapManifest
      <4>2. Others(i) /\ pb'[i].pc = "local" /\ pb'[i].push = pb[i].push
        BY <1>0, <2>0, <4>1 DEF Others, PubRecs
      <4> QED
        BY <3>1, <3>2, <4>2 DEF ClientStep, Wins
    <3>3. CASE ~SwapManifest(i)
      <4>1. UNCHANGED mversion /\ Others(i) /\ pb'[i].pc = "drop" /\ pb'[i].push = pb[i].push
        BY <1>0, <2>0, <2>6, <3>3 DEF PubCas, Others, PubRecs
      <4> QED
        BY <1>9, <3>1, <4>1
    <3> QED
      BY <3>2, <3>3
  <2>7. CASE PubLanded(i)
    <3>1. UNCHANGED mversion /\ pb[i].pc = "landed" /\ Answer(i, "error")
      BY <2>7 DEF PubLanded, bucket, IInv, PubInv, OwnerInv
    <3> QED
      BY <1>0, <1>8, <3>1, AnswerSeen
  <2>8. CASE PubLocalCommit(i)
    <3>1. /\ UNCHANGED <<mversion, status>> /\ pb[i].pc = "local" /\ Others(i)
          /\ pb'[i].pc = "sweep" /\ pb'[i].push = pb[i].push
      BY <1>0, <2>0, <2>8 DEF PubLocalCommit, bucket, Others, PubRecs
    <3> QED
      BY <1>9, <3>1
  <2>9. CASE PubSweep(i)
    <3>1. UNCHANGED mversion /\ pb[i].pc = "sweep" /\ Answer(i, "ok")
      BY <2>9 DEF PubSweep
    <3> QED
      BY <1>0, <1>8, <3>1, AnswerSeen
  <2>10. CASE PubDrop(i)
    <3>1. UNCHANGED mversion /\ pb[i].pc = "drop" /\ TryAgain(i)
      BY <2>10 DEF PubDrop
    <3> QED
      BY <1>0, <1>8, <3>1, TryAgainSeen
  <2>11. CASE SyncGet(i, "pub")
    BY <1>5, <2>11
  <2> QED
    BY <1>10, <2>1, <2>2, <2>3, <2>4, <2>5, <2>6, <2>7, <2>8, <2>9, <2>10, <2>11 DEF PubStep
<1>11. ASSUME NEW i \in Instances, PubFault(i) PROVE ClientStep(i)
  <2> USE DEF Working, Won, Verifying, Owning
  <2>0. pb[i] \in PubRecs
    BY <1>0
  <2>1. CASE PubClaimError(i) \/ PubReadError(i)
    <3>1. UNCHANGED mversion /\ pb[i].pc # "idle" /\ Answer(i, "error")
      BY <2>1 DEF PubClaimError, PubReadError, bucket
    <3> QED
      BY <1>0, <1>8, <3>1, AnswerSeen
  <2>2. CASE PubCasFault(i)
    <3>1. /\ UNCHANGED <<mversion, status>> /\ pb[i].pc = "cas" /\ Others(i)
          /\ pb'[i].pc \in {"drop", "landed"} /\ pb'[i].push = pb[i].push
      BY <1>0, <2>0, <2>2 DEF PubCasFault, Others, PubRecs
    <3> QED
      BY <1>9, <3>1
  <2>3. CASE PubLocalCommitError(i)
    <3>1. /\ UNCHANGED <<mversion, status>> /\ pb[i].pc = "local" /\ Others(i)
          /\ pb'[i].pc = "sweep" /\ pb'[i].push = pb[i].push
      BY <1>0, <2>0, <2>3 DEF PubLocalCommitError, bucket, Others, PubRecs
    <3> QED
      BY <1>9, <3>1
  <2> QED
    BY <1>11, <2>1, <2>2, <2>3 DEF PubFault
<1> QED
  BY <1>2, <1>3, <1>4, <1>5, <1>6, <1>7, <1>10, <1>11 DEF Next

\* A quiet step lists what was listed.
LEMMA QuietDone ==
    ASSUME IInv, Quiet
    PROVE  /\ Done' = Done
           /\ \A s \in manifest'.segs : s \in manifest.segs /\ log'[s] = log[s]
BY DEF Done, Quiet

\* A won CAS lists one more push.
LEMMA WinsDone ==
    ASSUME IInv, AnswerInv, TypeInv', NEW i \in Instances, Wins(i)
    PROVE  /\ Done' = Done \cup {pb[i].push}
           /\ pb[i].push \in Pushes /\ pb[i].push \notin Done
           /\ manifest'.segs = manifest.segs \cup {pb[i].seq}
           /\ log[pb[i].seq].push = pb[i].push /\ log' = log
<1>1. /\ pb[i].seq > manifest.head /\ manifest'.segs = manifest.segs \cup {pb[i].seq} /\ log' = log
  BY CommitFacts DEF Wins
<1>2. log[pb[i].seq].push = pb[i].push
  <2>1. OwnerInv(i)
    BY DEF IInv, PubInv, Owning, Wins
  <2> QED
    BY <1>1, <2>1 DEF OwnerInv
<1>3. pb[i].push \in Pushes /\ pb[i].push \notin Done
  BY DEF IInv, TypeInv, PubTyped, Wins, AnswerInv, TellsInv, Working, Verifying, Owning
<1>4. Done' = Done \cup {pb[i].push}
  BY <1>1, <1>2, <1>3 DEF Done
<1> QED
  BY <1>1, <1>2, <1>3, <1>4

\* Each kind of step keeps the invariant on answers.
LEMMA AnswerStep ==
    ASSUME IInv, AnswerInv, TypeInv', NEW i \in Instances, ClientStep(i)
    PROVE  AnswerInv'
<1>0. /\ status \in [Pushes -> Statuses]
      /\ pb[i].pc # "idle" => pb[i].push \in Pushes
      /\ \A j \in Instances : TellsInv(j)
      /\ \A j \in Instances : pb[j].pc # "idle" => pb[j].push \in Pushes
  BY DEF IInv, TypeInv, TypeOK, PubTyped, AnswerInv
<1>1. /\ \A c \in Working : c # "idle" /\ c \notin Won
      /\ \A c \in Won : c # "idle" /\ c \notin Working
      /\ "idle" \notin Working \cup Won /\ {"sync", "read", "cas"} \subseteq Working
      /\ Won = {"local", "sweep"}
  BY DEF Working, Won, Verifying, Owning
<1>2. NoPush \notin Pushes
  BY ConstantsAssumption
<1> HIDE DEF Working, Won
<1>3. \A j \in Instances : j # i => pb'[j] = pb[j]
  BY DEF ClientStep, Others
<1>4. CASE Quiet /\ GoesOn(i)
  <2>1. Done' = Done /\ \A s \in manifest'.segs : s \in manifest.segs /\ log'[s] = log[s]
    BY <1>4, QuietDone
  <2> HIDE DEF Done
  <2>2. ASSUME NEW j \in Instances PROVE TellsInv(j)'
    BY <1>0, <1>1, <1>3, <1>4, <2>1 DEF TellsInv, GoesOn
  <2>3. \A j, k \in Instances : j # k /\ pb'[j].pc # "idle" => pb'[j].push # pb'[k].push
    BY <1>3, <1>4 DEF GoesOn, AnswerInv
  <2> QED
    BY <1>4, <2>1, <2>2, <2>3 DEF AnswerInv, GoesOn
<1>5. ASSUME Quiet, NEW p \in Pushes, Begins(i, p) PROVE AnswerInv'
  <2>1. Done' = Done /\ \A s \in manifest'.segs : s \in manifest.segs /\ log'[s] = log[s]
    BY <1>5, QuietDone
  <2> HIDE DEF Done
  <2>2. /\ status[p] = "new" /\ p \notin Done /\ pb'[i].push = p /\ pb'[i].pc \in {"sync", "read"}
        /\ status'[p] = "pending" /\ \A r \in Pushes : r # p => status'[r] = status[r]
    <3>1. status[p] = "new" /\ pb'[i].push = p /\ pb'[i].pc \in {"sync", "read"}
      BY <1>5 DEF Begins
    <3>2. status'[p] = "pending" /\ \A r \in Pushes : r # p => status'[r] = status[r]
      BY <1>0, <1>5 DEF Begins
    <3>3. p \notin Done
      BY <3>1 DEF AnswerInv
    <3> QED
      BY <3>1, <3>2, <3>3
  <2>3. \A j \in Instances : pb[j].push # p
    <3>1. ASSUME NEW j \in Instances, pb[j].push = p PROVE FALSE
      BY <1>0, <1>2, <2>2, <3>1 DEF TellsInv
    <3> QED
      BY <3>1
  <2>4. ASSUME NEW j \in Instances PROVE TellsInv(j)'
    <3>1. CASE j = i
      BY <1>1, <2>1, <2>2, <3>1 DEF TellsInv
    <3>2. CASE j # i
      BY <1>0, <1>1, <1>3, <2>1, <2>2, <2>3, <3>2 DEF TellsInv
    <3> QED
      BY <3>1, <3>2
  <2>5. \A j, k \in Instances : j # k /\ pb'[j].pc # "idle" => pb'[j].push # pb'[k].push
    BY <1>3, <2>2, <2>3 DEF AnswerInv
  <2>6. \A r \in Pushes : /\ status'[r] \in {"new", "rejected"} => r \notin Done
                          /\ status'[r] = "ok" => r \in Done
    BY <2>2 DEF AnswerInv
  <2> QED
    BY <2>1, <2>4, <2>5, <2>6 DEF AnswerInv
<1>6. ASSUME Quiet, NEW a \in {"ok", "rejected", "error"}, Replies(i, a) PROVE AnswerInv'
  <2>1. Done' = Done /\ \A s \in manifest'.segs : s \in manifest.segs /\ log'[s] = log[s]
    BY <1>6, QuietDone
  <2> HIDE DEF Done
  <2> DEFINE p == pb[i].push
  <2>2. /\ p \in Pushes /\ pb[i].pc # "idle" /\ pb'[i].push = NoPush /\ pb'[i].pc = "idle"
        /\ status'[p] = a /\ \A r \in Pushes : r # p => status'[r] = status[r]
        /\ a = "ok" => p \in Done
        /\ a = "rejected" => p \notin Done
    <3>1. p \in Pushes /\ pb[i].pc # "idle" /\ pb'[i].push = NoPush /\ pb'[i].pc = "idle"
      BY <1>0, <1>6 DEF Replies, IdlePub
    <3>2. status'[p] = a /\ \A r \in Pushes : r # p => status'[r] = status[r]
      BY <1>0, <1>6, <3>1 DEF Replies
    <3>3. TellsInv(i) /\ (a = "ok" => pb[i].pc \in Won) /\ (a = "rejected" => pb[i].pc \in Working)
      BY <1>0, <1>1, <1>6 DEF Replies
    <3>4. (a = "ok" => p \in Done) /\ (a = "rejected" => p \notin Done)
      BY <1>1, <3>3 DEF TellsInv
    <3> QED
      BY <3>1, <3>2, <3>4
  <2>3. \A j \in Instances : j # i => pb[j].push # p
    BY <1>0, <2>2 DEF AnswerInv
  <2> HIDE DEF p
  <2>4. ASSUME NEW j \in Instances PROVE TellsInv(j)'
    <3>1. CASE j = i
      BY <1>1, <2>1, <2>2, <3>1 DEF TellsInv
    <3>2. CASE j # i
      BY <1>0, <1>1, <1>3, <2>1, <2>2, <2>3, <3>2 DEF TellsInv
    <3> QED
      BY <3>1, <3>2
  <2>5. \A j, k \in Instances : j # k /\ pb'[j].pc # "idle" => pb'[j].push # pb'[k].push
    BY <1>0, <1>2, <1>3, <2>2, <2>3 DEF AnswerInv
  <2>6. \A r \in Pushes : /\ status'[r] \in {"new", "rejected"} => r \notin Done
                          /\ status'[r] = "ok" => r \in Done
    BY <2>2 DEF AnswerInv
  <2> QED
    BY <2>1, <2>4, <2>5, <2>6 DEF AnswerInv
<1>7. CASE Wins(i)
  <2> DEFINE p == pb[i].push
             n == pb[i].seq
  <2>1. /\ Done' = Done \cup {p} /\ p \in Pushes /\ p \notin Done
        /\ manifest'.segs = manifest.segs \cup {n} /\ log[n].push = p /\ log' = log
    BY <1>7, WinsDone
  <2>2. \A s \in manifest.segs : log[s].push # p
    BY <2>1 DEF Done
  <2> HIDE DEF Done
  <2>3. /\ status' = status /\ pb'[i].pc = "local" /\ pb'[i].push = p /\ status[p] = "pending"
    BY <1>0, <1>7 DEF Wins, TellsInv
  <2>4. \A j \in Instances : j # i => pb[j].push # p
    BY <1>0, <1>7 DEF AnswerInv, Wins
  <2> HIDE DEF p, n
  <2>5. ASSUME NEW j \in Instances PROVE TellsInv(j)'
    <3>1. CASE j = i
      BY <1>1, <2>1, <2>3, <3>1 DEF TellsInv
    <3>2. CASE j # i
      BY <1>0, <1>1, <1>3, <2>1, <2>3, <2>4, <3>2 DEF TellsInv
    <3> QED
      BY <3>1, <3>2
  <2>6. \A j, k \in Instances : j # k /\ pb'[j].pc # "idle" => pb'[j].push # pb'[k].push
    <3>1. pb[i].pc # "idle" /\ pb'[i].push = pb[i].push
      BY <1>7 DEF Wins
    <3> QED
      BY <1>3, <3>1 DEF AnswerInv
  <2>7. \A s, t \in manifest'.segs : log'[s].push = log'[t].push => s = t
    BY <2>1, <2>2 DEF AnswerInv
  <2>8. \A r \in Pushes : /\ status'[r] \in {"new", "rejected"} => r \notin Done'
                          /\ status'[r] = "ok" => r \in Done'
    BY <2>1, <2>3 DEF AnswerInv
  <2> QED
    BY <2>5, <2>6, <2>7, <2>8 DEF AnswerInv
<1> QED
  BY <1>4, <1>5, <1>6, <1>7 DEF ClientStep

\* Each kind of step is a step of the register, or invisible to it.
LEMMA RegisterStep ==
    ASSUME IInv, AnswerInv, TypeInv', NEW i \in Instances, ClientStep(i)
    PROVE  [Register!Next]_(Register!vars)
<1>0. /\ pb[i].pc # "idle" => pb[i].push \in Pushes
      /\ TellsInv(i) /\ status \in [Pushes -> Statuses]
  BY DEF IInv, TypeInv, TypeOK, PubTyped, AnswerInv
<1>1. ASSUME Quiet PROVE BucketRefs' = BucketRefs /\ Done' = Done
  BY <1>1, QuietBucket, QuietDone
<1>2. CASE Quiet /\ GoesOn(i)
  <2>1. BucketRefs' = BucketRefs /\ Done' = Done /\ status' = status
    BY <1>1, <1>2 DEF GoesOn
  <2> HIDE DEF BucketRefs
  <2> QED
    BY <2>1 DEF Register!vars, Done
<1>3. ASSUME Quiet, NEW p \in Pushes, Begins(i, p) PROVE Register!Next
  <2>1. BucketRefs' = BucketRefs /\ Done' = Done
    BY <1>1, <1>3
  <2> HIDE DEF BucketRefs
  <2>2. Register!Begin(p)
    BY <1>3, <2>1 DEF Register!Begin, Begins, Done
  <2> QED
    BY <2>2 DEF Register!Next
<1>4. ASSUME Quiet, NEW a \in {"ok", "rejected", "error"}, Replies(i, a) PROVE Register!Next
  <2>1. BucketRefs' = BucketRefs /\ Done' = Done
    BY <1>1, <1>4
  <2>2. /\ pb[i].push \in Pushes /\ status[pb[i].push] = "pending"
        /\ a = "ok" => pb[i].push \in Done
        /\ a = "rejected" => pb[i].push \notin Done
    BY <1>0, <1>4 DEF Replies, TellsInv, Working
  <2> HIDE DEF BucketRefs
  <2>3. Register!Reply(pb[i].push, a)
    BY <1>4, <2>1, <2>2 DEF Register!Reply, Replies, Done
  <2> QED
    BY <2>2, <2>3 DEF Register!Next
<1>5. CASE Wins(i)
  <2>0. PICK p \in Pushes : p = pb[i].push
    BY <1>5, WinsDone
  <2>1. Done' = Done \cup {p} /\ p \notin Done
    BY <1>5, <2>0, WinsDone
  <2>2. /\ pb[i].pc = "cas" /\ pb[i].ver = mversion /\ status[p] = "pending" /\ status' = status
    BY <1>0, <1>5, <2>0 DEF Wins, SwapManifest, TellsInv
  <2>3. BucketRefs' = ApplyTxn(TxnOf[p], BucketRefs)
    BY <1>5, <2>0, CommitFacts DEF Wins
  <2>4. VerifyTxn(TxnOf[p], BucketRefs)
    BY <2>0, <2>2 DEF IInv, PubInv, Verifying, VerifyInv
  <2> HIDE DEF BucketRefs
  <2>5. Register!Commit(p)
    BY <2>1, <2>2, <2>3, <2>4
    DEF Register!Commit, Register!VerifyTxn, Register!ApplyTxn, VerifyTxn, ApplyTxn, Done
  <2>6. Register!Next
    BY <2>5 DEF Register!Next
  <2> QED
    BY <2>6
<1> QED
  BY <1>2, <1>3, <1>4, <1>5 DEF ClientStep

\* The invariant with what clients are told.
LEMMA AnswerInvariance ==
    ASSUME Races = {}
    PROVE  Spec => [](IInv /\ AnswerInv)
<1>1. Init => IInv /\ AnswerInv
  <2> SUFFICES ASSUME Init PROVE AnswerInv
    BY InvInit
  <2> QED
    BY DEF Init, AnswerInv, TellsInv, IdlePub, EmptyManifest, Done, Working, Verifying, Owning
<1>2. IInv /\ AnswerInv /\ [Next]_vars => (IInv /\ AnswerInv)'
  <2> SUFFICES ASSUME IInv, AnswerInv, [Next]_vars PROVE (IInv /\ AnswerInv)'
    OBVIOUS
  <2>1. IInv' /\ TypeInv'
    BY InvStep DEF IInv
  <2>2. CASE Next
    BY <2>1, <2>2, StepsSeen, AnswerStep
  <2>3. CASE UNCHANGED vars
    BY <2>1, <2>3 DEF vars, AnswerInv, TellsInv, Done
  <2> QED
    BY <2>1, <2>2, <2>3
<1> QED
  BY <1>1, <1>2, PTL DEF Spec

\* What a client is told is true for good: a push answered "ok" is one entry of
\* the log, however often it was tried, and one answered "rejected" is none.
THEOREM AnswersAreTrue ==
    ASSUME Races = {}
    PROVE  Spec => []TruthfulAnswers
<1>1. IInv /\ AnswerInv => TruthfulAnswers
  <2> SUFFICES ASSUME IInv, AnswerInv, NEW p \in Pushes
               PROVE  LET at == {s \in manifest.segs : log[s].push = p}
                      IN  /\ status[p] = "ok" => Cardinality(at) = 1
                          /\ status[p] = "rejected" => at = {}
    BY DEF TruthfulAnswers
  <2> DEFINE at == {s \in manifest.segs : log[s].push = p}
  <2>1. CASE status[p] = "ok"
    <3>1. PICK s \in manifest.segs : log[s].push = p
      BY <2>1 DEF AnswerInv, Done
    <3>2. at = {s}
      BY <3>1 DEF AnswerInv
    <3> QED
      BY <2>1, <3>2, FS_Singleton
  <2>2. status[p] = "rejected" => at = {}
    BY DEF AnswerInv, Done
  <2> QED
    BY <2>1, <2>2
<1> QED
  BY <1>1, AnswerInvariance, PTL

\* The bucket is a linearizable register of refs: a push takes effect at one
\* instant, the manifest CAS that lists its segment, while its old values are
\* the current ones, and its client is answered accordingly.
THEOREM ImplementsRegister ==
    ASSUME Races = {}
    PROVE  Spec => Linearizable
<1>1. Init => Register!Init
  <2> SUFFICES ASSUME Init PROVE Register!Init
    OBVIOUS
  <2>1. manifest.segs = {}
    BY DEF Init, EmptyManifest
  <2>2. BucketRefs = NoRefs
    BY <2>1 DEF BucketRefs, Fold, Replay, Writers, NoRefs
  <2> HIDE DEF BucketRefs
  <2> QED
    BY <2>1, <2>2 DEF Init, Register!Init, Register!NoRefs, NoRefs
<1>2. IInv /\ AnswerInv /\ [Next]_vars => [Register!Next]_(Register!vars)
  <2> SUFFICES ASSUME IInv, AnswerInv, [Next]_vars PROVE [Register!Next]_(Register!vars)
    OBVIOUS
  <2>1. TypeInv'
    BY InvStep DEF IInv
  <2>2. CASE Next
    BY <2>1, <2>2, StepsSeen, RegisterStep
  <2>3. CASE UNCHANGED vars
    BY <2>3 DEF vars, Register!vars, BucketRefs, Entry
  <2> QED
    BY <2>2, <2>3
<1> QED
  BY <1>1, <1>2, AnswerInvariance, PTL DEF Spec, Linearizable, Register!Spec
=============================================================================
