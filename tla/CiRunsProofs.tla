---------------------------- MODULE CiRunsProofs ----------------------------
(***************************************************************************)
(* Decentralised CI, for any number of runners, attempts and entries and   *)
(* any ttl: claims, results and what runners record fit together.          *)
(*                                                                         *)
(* The inductive invariant CiInv says what is behind RunsSound: entries    *)
(* are told apart by their oids, a clone holds nothing but what is on the  *)
(* server and the entry being pushed, and what a runner is about to sign   *)
(* or push is already justified by the server's entries.                   *)
(***************************************************************************)
EXTENDS CiRuns, CiCommand, TLAPS, NaturalsInduction, WellFoundedInduction, SequenceTheorems

(***************************************************************************)
(* CiRuns: the inductive invariant.                                        *)
(***************************************************************************)

RunnerPcs == {"idle", "claim", "push_claim", "recheck", "exec", "push_result"}
RunnerRecs == [pc : RunnerPcs, attempt : 1 .. MaxAttempts, claim : Int, entry : Logs, errors : Nat,
               processed : BOOLEAN]

CiTypes ==
    /\ clock \in 0 .. CiMaxTime /\ signed \in Nat
    /\ collab \in Logs /\ clone \in [Runners -> Logs] /\ rn \in [Runners -> RunnerRecs]

\* Entries are told apart by their oids, which come from n signatures made up to now.
Stamped(S, n, now) ==
    /\ \A x \in S : x.ts <= now /\ -n <= x.oid /\ x.oid <= n
    /\ \A x, y \in S : x.oid = y.oid => x = y

KnownClaims == collab.claims \cup UNION {clone[r].claims : r \in Runners}
KnownResults == collab.results \cup UNION {clone[r].results : r \in Runners}

\* A clone holds what is on the server and the entry that is being pushed.
CloneInv(r) ==
    /\ clone[r].claims \subseteq collab.claims \cup rn[r].entry.claims
    /\ clone[r].results \subseteq collab.results \cup rn[r].entry.results
    /\ rn[r].entry.claims \subseteq clone[r].claims
    /\ rn[r].entry.results \subseteq clone[r].results
    /\ rn[r].pc \notin {"push_claim", "push_result"} => rn[r].entry = Empty

Failed(a) == \E x \in collab.results : x.attempt = a - 1 /\ x.conclusion = "failure"
Claimed(r, o, a) == \E c \in collab.claims : c.oid = o /\ c.actor = r /\ c.attempt = a

\* What a runner is about to sign or push fits what is on the server.
RunnerInv(r) ==
    /\ rn[r].pc = "claim" /\ rn[r].attempt > 1 => Failed(rn[r].attempt)
    /\ \A c \in rn[r].entry.claims : c.attempt > 1 => Failed(c.attempt)
    /\ rn[r].pc = "exec" => Claimed(r, rn[r].claim, rn[r].attempt)
    /\ \A x \in rn[r].entry.results : Claimed(x.actor, x.claim, x.attempt)

CiInv ==
    /\ CiTypes
    /\ Stamped(KnownClaims, signed, clock) /\ Stamped(KnownResults, signed, clock)
    /\ \A r \in Runners : CloneInv(r) /\ RunnerInv(r)
    /\ ResultsAnswerClaims /\ RetriesFollowFailures /\ ProcessedSettled


(***************************************************************************)
(* The earliest of a set of entries, and the latest attempt.               *)
(***************************************************************************)

\* A nonempty set of natural numbers has a least element.
LEMMA LeastNat ==
    ASSUME NEW S \in SUBSET Nat, S # {}
    PROVE  \E m \in S : \A t \in S : m <= t
<1>1. PICK m \in S : \A t \in S : ~(<<t, m>> \in OpToRel(<, Nat))
  BY NatLessThanWellFounded, WFMin
<1>2. \A t \in S : ~(t < m)
  BY <1>1, Zenon DEF OpToRel
<1>3. \A t \in S : m <= t
  BY <1>2
<1> QED
  BY <1>3

\* Entries by their oids, none below -n.
Ordered(S, n) ==
    /\ \A x \in S : x.ts \in Nat /\ x.actor \in Nat /\ x.oid \in Int /\ -n <= x.oid
    /\ \A x, y \in S : x.oid = y.oid => x = y

\* min_by_key finds an entry of the set.
LEMMA EarliestIn ==
    ASSUME NEW S, S # {}, NEW n \in Nat, Ordered(S, n)
    PROVE  Earliest(S) \in S
<1>1. PICK t \in {x.ts : x \in S} : \A u \in {x.ts : x \in S} : t <= u
  <2>1. {x.ts : x \in S} \in SUBSET Nat /\ {x.ts : x \in S} # {}
    BY DEF Ordered
  <2> QED
    BY <2>1, LeastNat
<1> DEFINE A == {x \in S : x.ts = t}
<1>2. PICK a \in {x.actor : x \in A} : \A u \in {x.actor : x \in A} : a <= u
  <2>1. {x.actor : x \in A} \in SUBSET Nat /\ {x.actor : x \in A} # {}
    BY <1>1 DEF Ordered
  <2> QED
    BY <2>1, LeastNat
<1> DEFINE B == {x \in A : x.actor = a}
<1>3. PICK o \in {x.oid + n : x \in B} : \A u \in {x.oid + n : x \in B} : o <= u
  <2>1. \A x \in B : x.oid + n \in Nat
    BY DEF Ordered
  <2>2. {x.oid + n : x \in B} \in SUBSET Nat /\ {x.oid + n : x \in B} # {}
    BY <1>2, <2>1
  <2> QED
    BY <2>2, LeastNat
<1>4. PICK m \in B : o = m.oid + n
  BY <1>3
<1>5. ASSUME NEW y \in S \ {m} PROVE Before(m, y)
  <2>1. y.ts \in Nat /\ y.actor \in Nat /\ y.oid \in Int /\ m.oid \in Int /\ m.ts = t /\ m.actor = a
        /\ t \in Nat /\ a \in Nat /\ y.oid # m.oid
    BY <1>4 DEF Ordered
  <2>2. t <= y.ts
    BY <1>1
  <2>3. y.ts = t => a <= y.actor
    BY <1>2
  <2>4. y.ts = t /\ y.actor = a => m.oid + n <= y.oid + n
    BY <1>3, <1>4
  <2> QED
    BY <2>1, <2>2, <2>3, <2>4 DEF Before
<1>6. m \in S
  BY <1>4
<1> QED
  BY <1>5, <1>6 DEF Earliest

\* The latest attempt of a log is one of its attempts.
LEMMA LatestAttempt ==
    ASSUME CiAssumption, NEW l \in Logs, Attempts(l) # {}
    PROVE  Max(Attempts(l)) \in Attempts(l) /\ Max(Attempts(l)) \in 1 .. MaxAttempts
<1> DEFINE S == Attempts(l)
           D == {MaxAttempts - a : a \in S}
<1>1. S \subseteq 1 .. MaxAttempts /\ MaxAttempts \in Nat
  BY DEF CiAssumption, Attempts, Logs, Claims, Results
<1>2. PICK d \in D : \A e \in D : d <= e
  <2>1. D \in SUBSET Nat /\ D # {}
    BY <1>1
  <2> QED
    BY <2>1, LeastNat
<1>3. PICK m \in S : d = MaxAttempts - m
  BY <1>2
<1>4. \A a \in S : m >= a
  <2> TAKE a \in S
  <2>1. MaxAttempts - m <= MaxAttempts - a
    BY <1>2, <1>3
  <2> QED
    BY <1>1, <2>1
<1> HIDE DEF S
<1>5. Max(S) \in S
  BY <1>3, <1>4 DEF Max
<1> QED
  BY <1>1, <1>5 DEF S

\* A log as a runner may see it.
Sane(l, n) == l \in Logs /\ Ordered(l.claims, n) /\ Ordered(l.results, n)

\* Parts of an ordered set are ordered.
LEMMA OrderedPart ==
    ASSUME NEW S, NEW n, Ordered(S, n), NEW T \in SUBSET S
    PROVE  Ordered(T, n)
BY DEF Ordered

\* What decide answers, from what the log holds.
LEMMA DecideFacts ==
    ASSUME CiAssumption, NEW n \in Nat, NEW l, Sane(l, n), NEW r, NEW t, NEW d, d = Decide(l, r, t)
    PROVE  /\ d.what \in {"claim", "settled", "resume", "stand_down"}
           /\ d.attempt \in 1 .. MaxAttempts
           /\ d.what = "claim" /\ d.attempt > 1 =>
                 \/ \E x \in l.results : x.attempt = d.attempt - 1 /\ x.conclusion = "failure"
                 \/ \E c \in l.claims : c.attempt = d.attempt
           /\ d.what = "settled" => \E x \in l.results : x.conclusion # "error"
           /\ d.what = "resume" => \E c \in l.claims : c.oid = d.claim /\ c.actor = r /\ c.attempt = d.attempt
           /\ (\A c \in l.claims : ~LiveClaim(c, t)) => d.what \in {"claim", "settled"}
<1> DEFINE a == IF Attempts(l) = {} THEN 1 ELSE Max(Attempts(l))
           V == Valid(l, a, t)
           W == Answered(l, a, t)
           e == Earliest(W)
           w == Earliest(V)
<1>1. a \in 1 .. MaxAttempts /\ MaxAttempts \in Nat
  BY LatestAttempt DEF CiAssumption, Sane
<1> HIDE DEF a
<1>2. V \subseteq {c \in l.claims : c.attempt = a /\ LiveClaim(c, t)}
  BY DEF Valid, ClaimsOf
<1>3. W \subseteq {x \in l.results : x.attempt = a}
  BY DEF Answered, ResultsOf
<1>4. V # {} => w \in V
  <2>1. Ordered(V, n)
    BY <1>2, OrderedPart DEF Sane
  <2> QED
    BY <2>1, EarliestIn
<1>5. W # {} => e \in W
  <2>1. Ordered(W, n)
    BY <1>3, OrderedPart DEF Sane
  <2> QED
    BY <2>1, EarliestIn
<1>6. Done(l, a, t) <=> W # {} /\ e.conclusion # "error"
  BY DEF Done
<1>7. d = IF Done(l, a, t)
          THEN IF e.conclusion = "failure" /\ a < MaxAttempts THEN Act("claim", a + 1, 0) ELSE Act("settled", a, 0)
          ELSE IF V # {} THEN IF w.actor = r THEN Act("resume", a, w.oid) ELSE Act("stand_down", a, 0)
          ELSE Act("claim", IF ClaimsOf(l, a) = {} THEN 1 ELSE a, 0)
  BY DEF Decide, a
<1> HIDE DEF V, W, e, w
<1>8. CASE Done(l, a, t) /\ e.conclusion = "failure" /\ a < MaxAttempts
  <2>1. d.what = "claim" /\ d.attempt = a + 1
    BY <1>7, <1>8 DEF Act
  <2>2. e \in l.results /\ e.attempt = a /\ a + 1 - 1 = a /\ a + 1 \in 1 .. MaxAttempts
    BY <1>1, <1>3, <1>5, <1>6, <1>8
  <2> QED
    BY <1>1, <1>8, <2>1, <2>2
<1>9. CASE Done(l, a, t) /\ ~(e.conclusion = "failure" /\ a < MaxAttempts)
  <2>1. d.what = "settled" /\ d.attempt = a
    BY <1>7, <1>9 DEF Act
  <2> QED
    BY <1>1, <1>3, <1>5, <1>6, <1>9, <2>1
<1>10. CASE ~Done(l, a, t) /\ V # {}
  <2>1. /\ d.what \in {"resume", "stand_down"} /\ d.attempt = a
        /\ d.what = "resume" => d.claim = w.oid /\ w.actor = r
    BY <1>7, <1>10 DEF Act
  <2>2. w \in l.claims /\ w.attempt = a /\ LiveClaim(w, t)
    BY <1>2, <1>4, <1>10
  <2> QED
    BY <1>1, <2>1, <2>2
<1>11. CASE ~Done(l, a, t) /\ V = {}
  <2>1. d.what = "claim" /\ d.attempt = IF ClaimsOf(l, a) = {} THEN 1 ELSE a
    BY <1>7, <1>11 DEF Act
  <2>2. CASE ClaimsOf(l, a) = {}
    BY <1>1, <2>1, <2>2
  <2>3. CASE ClaimsOf(l, a) # {}
    BY <1>1, <2>1, <2>3 DEF ClaimsOf
  <2> QED
    BY <2>2, <2>3
<1> QED
  BY <1>8, <1>9, <1>10, <1>11


(***************************************************************************)
(* The steps.                                                              *)
(***************************************************************************)

\* A fetch adds what is on the server.
LEMMA MergeFacts ==
    ASSUME NEW k \in Logs, NEW l \in Logs
    PROVE  /\ Merge(k, l) \in Logs /\ Merge(k, l).claims = k.claims \cup l.claims
           /\ Merge(k, l).results = k.results \cup l.results
BY DEF Merge, Logs

\* A log of known entries is one that decide can read.
LEMMA KnownSane ==
    ASSUME CiAssumption, CiInv, NEW l \in Logs, l.claims \subseteq KnownClaims, l.results \subseteq KnownResults
    PROVE  Sane(l, signed)
<1>1. Runners \subseteq Nat /\ signed \in Nat /\ 0 .. CiMaxTime \subseteq Nat
  BY DEF CiAssumption, CiInv, CiTypes
<1>2. l.claims \subseteq Claims /\ l.results \subseteq Results
  BY DEF Logs
<1>3. \A x \in Claims : x.ts \in Nat /\ x.actor \in Nat /\ x.oid \in Int
  BY <1>1 DEF Claims
<1>4. \A x \in Results : x.ts \in Nat /\ x.actor \in Nat /\ x.oid \in Int
  BY <1>1 DEF Results
<1>5. Ordered(l.claims, signed) /\ Ordered(l.results, signed)
  BY <1>2, <1>3, <1>4 DEF CiInv, Stamped, Ordered
<1> QED
  BY <1>5 DEF Sane

\* What a runner sees when it is not pushing is on the server.
LEMMA ViewFacts ==
    ASSUME CiAssumption, CiInv, NEW r \in Runners, rn[r].pc \notin {"push_claim", "push_result"},
           NEW l \in Views(r)
    PROVE  l \in Logs /\ Sane(l, signed) /\ l.claims \subseteq collab.claims /\ l.results \subseteq collab.results
<1>1. CloneInv(r) /\ clone[r] \in Logs /\ collab \in Logs
  BY DEF CiInv, CiTypes
<1>2. rn[r].entry.claims = {} /\ rn[r].entry.results = {}
  BY <1>1 DEF CloneInv, Empty
<1>3. clone[r].claims \subseteq collab.claims /\ clone[r].results \subseteq collab.results
  BY <1>1, <1>2 DEF CloneInv
<1>4. l \in Logs /\ l.claims \subseteq collab.claims /\ l.results \subseteq collab.results
  <2>1. CASE l = Merge(clone[r], collab)
    BY <1>1, <1>3, <2>1, MergeFacts
  <2>2. CASE l = clone[r]
    BY <1>1, <1>3, <2>2
  <2> QED
    BY <2>1, <2>2 DEF Views
<1>5. l.claims \subseteq KnownClaims /\ l.results \subseteq KnownResults
  BY <1>4 DEF KnownClaims, KnownResults
<1> QED
  BY <1>4, <1>5, KnownSane

\* A part of stamped entries is stamped.
LEMMA StampedPart ==
    ASSUME NEW S, NEW n, NEW now, Stamped(S, n, now), NEW T \in SUBSET S
    PROVE  Stamped(T, n, now)
BY DEF Stamped

\* The other runners stand still.
LEMMA OthersRest ==
    ASSUME CiInv, NEW r \in Runners, NEW s \in Runners, s # r, clone'[s] = clone[s], rn'[s] = rn[s],
           collab.claims \subseteq collab'.claims, collab.results \subseteq collab'.results
    PROVE  CloneInv(s)' /\ RunnerInv(s)'
<1>1. CloneInv(s) /\ RunnerInv(s)
  BY DEF CiInv
<1>2. CloneInv(s)'
  BY <1>1 DEF CloneInv
<1>3. \A a : Failed(a) => Failed(a)'
  BY DEF Failed
<1>4. \A q, o, a : Claimed(q, o, a) => Claimed(q, o, a)'
  BY DEF Claimed
<1> HIDE DEF Failed, Claimed
<1>5. RunnerInv(s)'
  BY <1>1, <1>3, <1>4 DEF RunnerInv
<1> QED
  BY <1>2, <1>5

\* A runner takes over a view of the server and moves on, with nothing to push.
LEMMA RunnerMoves ==
    ASSUME CiInv, NEW r \in Runners, NEW q \in RunnerRecs, NEW l \in Logs,
           l.claims \subseteq collab.claims, l.results \subseteq collab.results,
           q.entry = Empty, q.pc \notin {"push_claim", "push_result"},
           q.pc = "claim" /\ q.attempt > 1 => Failed(q.attempt),
           q.pc = "exec" => Claimed(r, q.claim, q.attempt),
           q.processed => \E x \in collab.results : x.conclusion # "error",
           rn' = [rn EXCEPT ![r] = q], clone' = [clone EXCEPT ![r] = l],
           UNCHANGED <<clock, collab, signed>>
    PROVE  CiInv'
<1>0. CiTypes
  BY DEF CiInv
<1>1. /\ rn' \in [Runners -> RunnerRecs] /\ clone' \in [Runners -> Logs] /\ rn'[r] = q /\ clone'[r] = l
      /\ \A s \in Runners : s # r => rn'[s] = rn[s] /\ clone'[s] = clone[s]
  BY <1>0 DEF CiTypes
<1>2. CloneInv(r)' /\ RunnerInv(r)'
  BY <1>1 DEF CloneInv, RunnerInv, Empty, Failed, Claimed
<1>3. ASSUME NEW s \in Runners, s # r PROVE CloneInv(s)' /\ RunnerInv(s)'
  BY <1>1, <1>3, OthersRest
<1>4. KnownClaims' \subseteq KnownClaims /\ KnownResults' \subseteq KnownResults
  <2>1. \A s \in Runners : clone'[s].claims \subseteq collab.claims \cup clone[s].claims
    BY <1>1
  <2>2. \A s \in Runners : clone'[s].results \subseteq collab.results \cup clone[s].results
    BY <1>1
  <2> QED
    BY <2>1, <2>2 DEF KnownClaims, KnownResults
<1>5. Stamped(KnownClaims, signed, clock)' /\ Stamped(KnownResults, signed, clock)'
  BY <1>4, StampedPart DEF CiInv
<1>6. ProcessedSettled'
  BY <1>1 DEF CiInv, ProcessedSettled
<1> QED
  BY <1>0, <1>1, <1>2, <1>3, <1>5, <1>6 DEF CiInv, CiTypes, ResultsAnswerClaims, RetriesFollowFailures

\* A runner's entry reaches the server.
LEMMA PushMoves ==
    ASSUME CiInv, NEW r \in Runners, NEW q \in RunnerRecs,
           collab' = Merge(collab, rn[r].entry), rn' = [rn EXCEPT ![r] = q],
           q.entry = Empty, q.pc \in {"idle", "recheck"}, q.processed = rn[r].processed,
           UNCHANGED <<clock, clone, signed>>
    PROVE  CiInv'
<1>0. CiTypes /\ rn[r] \in RunnerRecs /\ rn[r].entry \in Logs /\ collab \in Logs
  BY DEF CiInv, CiTypes, RunnerRecs
<1>1. /\ rn' \in [Runners -> RunnerRecs] /\ rn'[r] = q /\ \A s \in Runners : s # r => rn'[s] = rn[s]
  BY <1>0 DEF CiTypes
<1>2. /\ collab' \in Logs
      /\ collab'.claims = collab.claims \cup rn[r].entry.claims
      /\ collab'.results = collab.results \cup rn[r].entry.results
  BY <1>0 DEF Merge, Logs
<1>3. CloneInv(r) /\ RunnerInv(r)
  BY DEF CiInv
<1>4. CloneInv(r)' /\ RunnerInv(r)'
  BY <1>1, <1>2, <1>3 DEF CloneInv, RunnerInv, Empty
<1>5. ASSUME NEW s \in Runners, s # r PROVE CloneInv(s)' /\ RunnerInv(s)'
  BY <1>1, <1>2, <1>5, OthersRest
<1>6. KnownClaims' \subseteq KnownClaims /\ KnownResults' \subseteq KnownResults
  BY <1>2, <1>3 DEF KnownClaims, KnownResults, CloneInv
<1>7. Stamped(KnownClaims, signed, clock)' /\ Stamped(KnownResults, signed, clock)'
  BY <1>6, StampedPart DEF CiInv
<1>8. ProcessedSettled'
  BY <1>1, <1>2 DEF CiInv, ProcessedSettled
<1>9. ResultsAnswerClaims'
  BY <1>2, <1>3 DEF CiInv, ResultsAnswerClaims, RunnerInv, Claimed
<1>10. RetriesFollowFailures'
  BY <1>2, <1>3 DEF CiInv, RetriesFollowFailures, RunnerInv, Failed
<1> QED
  BY <1>0, <1>1, <1>2, <1>4, <1>5, <1>7, <1>8, <1>9, <1>10 DEF CiInv, CiTypes

\* A new oid is nobody's.
LEMMA StampedMore ==
    ASSUME NEW S, NEW n \in Nat, NEW now, Stamped(S, n, now), \A x \in S : x.oid \in Int,
           NEW T, NEW y, T \subseteq S \cup {y}, y.ts <= now, y.oid \in {n + 1, -(n + 1)}
    PROVE  Stamped(T, n + 1, now)
<1>1. \A x \in S : x.ts <= now /\ -(n + 1) <= x.oid /\ x.oid <= n + 1 /\ x.oid # y.oid
  BY DEF Stamped
<1>2. -(n + 1) <= y.oid /\ y.oid <= n + 1
  OBVIOUS
<1> QED
  BY <1>1, <1>2 DEF Stamped

\* A runner signs a claim or a result in its clone.
LEMMA SignMoves ==
    ASSUME CiInv, NEW r \in Runners, NEW pc \in {"push_claim", "push_result"}, NEW o \in Int,
           NEW entry \in Logs, NEW y, Sign(r, entry, pc, o), rn[r].entry = Empty,
           y.ts = clock, y.oid \in {signed + 1, -(signed + 1)},
           entry.claims \subseteq {y}, entry.results \subseteq {y},
           \A c \in entry.claims : c.attempt > 1 => Failed(c.attempt),
           \A x \in entry.results : Claimed(x.actor, x.claim, x.attempt)
    PROVE  CiInv'
<1> DEFINE q == [rn[r] EXCEPT !.pc = pc, !.entry = entry, !.claim = o]
           l == Merge(clone[r], entry)
<1>0. /\ CiTypes /\ rn[r] \in RunnerRecs /\ clone[r] \in Logs /\ signed \in Nat /\ clock \in Nat
      /\ UNCHANGED <<clock, collab>> /\ signed' = signed + 1
  BY DEF CiInv, CiTypes, Sign
<1>1. rn' = [rn EXCEPT ![r] = q] /\ clone' = [clone EXCEPT ![r] = l]
  BY <1>0 DEF Sign, CiTypes
<1>2. /\ q \in RunnerRecs /\ q.pc = pc /\ q.entry = entry /\ q.processed = rn[r].processed
  BY <1>0 DEF RunnerRecs, RunnerPcs
<1>3. /\ l \in Logs /\ l.claims = clone[r].claims \cup entry.claims
      /\ l.results = clone[r].results \cup entry.results
  BY <1>0 DEF Merge, Logs
<1> HIDE DEF q, l
<1>4. /\ rn' \in [Runners -> RunnerRecs] /\ clone' \in [Runners -> Logs] /\ rn'[r] = q /\ clone'[r] = l
      /\ \A s \in Runners : s # r => rn'[s] = rn[s] /\ clone'[s] = clone[s]
  BY <1>0, <1>1, <1>2, <1>3 DEF CiTypes
<1>5. CloneInv(r)'
  <2>1. CloneInv(r)
    BY DEF CiInv
  <2> QED
    BY <1>0, <1>2, <1>3, <1>4, <2>1 DEF CloneInv, Empty
<1>6. RunnerInv(r)'
  BY <1>0, <1>2, <1>4 DEF RunnerInv, Failed, Claimed
<1>7. ASSUME NEW s \in Runners, s # r PROVE CloneInv(s)' /\ RunnerInv(s)'
  BY <1>0, <1>4, <1>7, OthersRest
<1>8. KnownClaims' \subseteq KnownClaims \cup {y} /\ KnownResults' \subseteq KnownResults \cup {y}
  <2>1. \A s \in Runners : clone'[s].claims \subseteq clone[s].claims \cup {y}
    BY <1>3, <1>4
  <2>2. \A s \in Runners : clone'[s].results \subseteq clone[s].results \cup {y}
    BY <1>3, <1>4
  <2> QED
    BY <1>0, <2>1, <2>2 DEF KnownClaims, KnownResults
<1>9. \A x \in KnownClaims \cup KnownResults : x.oid \in Int
  BY <1>0 DEF CiTypes, KnownClaims, KnownResults, Logs, Claims, Results
<1>10. Stamped(KnownClaims', signed + 1, clock) /\ Stamped(KnownResults', signed + 1, clock)
  <2>1. Stamped(KnownClaims, signed, clock) /\ Stamped(KnownResults, signed, clock) /\ y.ts <= clock
    BY <1>0 DEF CiInv
  <2> QED
    BY <1>0, <1>8, <1>9, <2>1, StampedMore
<1>11. Stamped(KnownClaims, signed, clock)' /\ Stamped(KnownResults, signed, clock)'
  BY <1>0, <1>10
<1>12. ProcessedSettled'
  BY <1>0, <1>2, <1>4 DEF CiInv, ProcessedSettled
<1> QED
  BY <1>0, <1>4, <1>5, <1>6, <1>7, <1>11, <1>12
  DEF CiInv, CiTypes, ResultsAnswerClaims, RetriesFollowFailures

\* A runner that rests.
LEMMA IdleFacts ==
    ASSUME CiAssumption, NEW b \in BOOLEAN
    PROVE  IdleRunner \in RunnerRecs /\ [IdleRunner EXCEPT !.processed = b] \in RunnerRecs
<1>1. Empty \in Logs /\ 1 \in 1 .. MaxAttempts
  BY DEF CiAssumption, Empty, Logs
<1> QED
  BY <1>1 DEF IdleRunner, RunnerRecs, RunnerPcs

\* A runner that gives up for now keeps what it has recorded.
LEMMA DeferFacts ==
    ASSUME CiAssumption, CiInv, NEW r \in Runners
    PROVE  /\ Defer(r) \in RunnerRecs /\ Defer(r).entry = Empty /\ Defer(r).pc = "idle"
           /\ Defer(r).processed = rn[r].processed
<1>1. rn[r].processed \in BOOLEAN
  BY DEF CiInv, CiTypes, RunnerRecs
<1>2. Defer(r) \in RunnerRecs
  BY <1>1, IdleFacts DEF Defer
<1> QED
  BY <1>2 DEF Defer, IdleRunner

\* The head of the loop keeps the invariant.
LEMMA LookStep ==
    ASSUME CiAssumption, CiInv, NEW r \in Runners, Look(r)
    PROVE  CiInv'
<1>1. PICK l \in Views(r) :
        LET d == Decide(l, r, clock) IN
        /\ clone' = [clone EXCEPT ![r] = l]
        /\ rn' = [rn EXCEPT ![r] =
              IF d.what = "settled" THEN [IdleRunner EXCEPT !.processed = TRUE]
              ELSE IF d.what = "stand_down" THEN Defer(r)
              ELSE IF d.what = "resume"
              THEN [rn[r] EXCEPT !.pc = "exec", !.attempt = d.attempt, !.claim = d.claim]
              ELSE [rn[r] EXCEPT !.pc = "claim", !.attempt = d.attempt]]
  BY DEF Look
<1>2. PICK d : d = Decide(l, r, clock)
  OBVIOUS
<1> DEFINE q == IF d.what = "settled" THEN [IdleRunner EXCEPT !.processed = TRUE]
                ELSE IF d.what = "stand_down" THEN Defer(r)
                ELSE IF d.what = "resume"
                THEN [rn[r] EXCEPT !.pc = "exec", !.attempt = d.attempt, !.claim = d.claim]
                ELSE [rn[r] EXCEPT !.pc = "claim", !.attempt = d.attempt]
<1>3. clone' = [clone EXCEPT ![r] = l] /\ rn' = [rn EXCEPT ![r] = q]
  BY <1>1, <1>2
<1>4. /\ rn[r] \in RunnerRecs /\ signed \in Nat /\ rn[r].pc = "idle" /\ rn[r].entry = Empty
      /\ UNCHANGED <<clock, collab, signed>> /\ RetriesFollowFailures
  BY DEF CiInv, CiTypes, CloneInv, Look
<1>5. /\ l \in Logs /\ Sane(l, signed) /\ l.claims \subseteq collab.claims
      /\ l.results \subseteq collab.results
  BY <1>4, ViewFacts
<1>6. /\ d.what \in {"claim", "settled", "resume", "stand_down"}
      /\ d.attempt \in 1 .. MaxAttempts
      /\ d.what = "claim" /\ d.attempt > 1 =>
            \/ \E x \in l.results : x.attempt = d.attempt - 1 /\ x.conclusion = "failure"
            \/ \E c \in l.claims : c.attempt = d.attempt
      /\ d.what = "settled" => \E x \in l.results : x.conclusion # "error"
      /\ d.what = "resume" => \E c \in l.claims : c.oid = d.claim /\ c.actor = r /\ c.attempt = d.attempt
  BY <1>2, <1>4, <1>5, DecideFacts
<1>7. d.what = "claim" /\ d.attempt > 1 => Failed(d.attempt)
  BY <1>4, <1>5, <1>6 DEF RetriesFollowFailures, Failed
<1>8. d.what = "resume" => Claimed(r, d.claim, d.attempt) /\ d.claim \in Int
  <2> SUFFICES ASSUME d.what = "resume" PROVE Claimed(r, d.claim, d.attempt) /\ d.claim \in Int
    OBVIOUS
  <2>1. PICK c \in l.claims : c.oid = d.claim /\ c.actor = r /\ c.attempt = d.attempt
    BY <1>6
  <2>2. c \in Claims
    BY <1>5 DEF Logs
  <2>3. c.oid \in Int
    BY <2>2 DEF Claims
  <2> QED
    BY <1>5, <2>1, <2>3 DEF Claimed
<1>9. d.what = "settled" => \E x \in collab.results : x.conclusion # "error"
  BY <1>5, <1>6
<1>10. CASE d.what = "settled"
  <2>1. q = [IdleRunner EXCEPT !.processed = TRUE]
    BY <1>10
  <2>2. q \in RunnerRecs /\ q.entry = Empty /\ q.pc = "idle" /\ q.processed
    BY <2>1, IdleFacts DEF IdleRunner
  <2> HIDE DEF q
  <2> QED
    BY <1>3, <1>4, <1>5, <1>9, <1>10, <2>2, RunnerMoves
<1>11. CASE d.what = "stand_down"
  <2>1. q = Defer(r)
    BY <1>11
  <2> HIDE DEF q
  <2>2. q \in RunnerRecs /\ q.entry = Empty /\ q.pc = "idle" /\ q.processed = rn[r].processed
    BY <2>1, DeferFacts
  <2>3. q.processed => \E x \in collab.results : x.conclusion # "error"
    BY <2>2 DEF CiInv, ProcessedSettled
  <2> QED
    BY <1>3, <1>4, <1>5, <2>2, <2>3, RunnerMoves
<1>12. CASE d.what = "resume"
  <2>1. q = [rn[r] EXCEPT !.pc = "exec", !.attempt = d.attempt, !.claim = d.claim]
    BY <1>12
  <2>2. /\ q \in RunnerRecs /\ q.entry = Empty /\ q.pc = "exec" /\ q.processed = rn[r].processed
        /\ q.attempt = d.attempt /\ q.claim = d.claim
    BY <1>4, <1>6, <1>8, <1>12, <2>1 DEF RunnerRecs, RunnerPcs
  <2> HIDE DEF q
  <2>3. q.processed => \E x \in collab.results : x.conclusion # "error"
    BY <2>2 DEF CiInv, ProcessedSettled
  <2> QED
    BY <1>3, <1>4, <1>5, <1>8, <1>12, <2>2, <2>3, RunnerMoves
<1>13. CASE d.what = "claim"
  <2>1. q = [rn[r] EXCEPT !.pc = "claim", !.attempt = d.attempt]
    BY <1>13
  <2>2. /\ q \in RunnerRecs /\ q.entry = Empty /\ q.pc = "claim" /\ q.processed = rn[r].processed
        /\ q.attempt = d.attempt
    BY <1>4, <1>6, <2>1 DEF RunnerRecs, RunnerPcs
  <2> HIDE DEF q
  <2>3. q.processed => \E x \in collab.results : x.conclusion # "error"
    BY <2>2 DEF CiInv, ProcessedSettled
  <2> QED
    BY <1>3, <1>4, <1>5, <1>7, <1>13, <2>2, <2>3, RunnerMoves
<1> QED
  BY <1>6, <1>10, <1>11, <1>12, <1>13

\* So does the second look, after the claim is pushed.
LEMMA RecheckStep ==
    ASSUME CiAssumption, CiInv, NEW r \in Runners, Recheck(r)
    PROVE  CiInv'
<1>1. PICK l \in Views(r) :
        LET d == Decide(l, r, clock) IN
        /\ clone' = [clone EXCEPT ![r] = l]
        /\ rn' = [rn EXCEPT ![r] = IF d.what = "resume" /\ d.claim = rn[r].claim
                                   THEN [rn[r] EXCEPT !.pc = "exec", !.attempt = d.attempt]
                                   ELSE Defer(r)]
  BY DEF Recheck
<1>2. PICK d : d = Decide(l, r, clock)
  OBVIOUS
<1> DEFINE q == IF d.what = "resume" /\ d.claim = rn[r].claim
                THEN [rn[r] EXCEPT !.pc = "exec", !.attempt = d.attempt] ELSE Defer(r)
<1>3. clone' = [clone EXCEPT ![r] = l] /\ rn' = [rn EXCEPT ![r] = q]
  BY <1>1, <1>2
<1>4. /\ rn[r] \in RunnerRecs /\ signed \in Nat /\ rn[r].pc = "recheck" /\ rn[r].entry = Empty
      /\ UNCHANGED <<clock, collab, signed>>
  BY DEF CiInv, CiTypes, CloneInv, Recheck
<1>5. /\ l \in Logs /\ Sane(l, signed) /\ l.claims \subseteq collab.claims
      /\ l.results \subseteq collab.results
  BY <1>4, ViewFacts
<1>6. /\ d.attempt \in 1 .. MaxAttempts
      /\ d.what = "resume" => \E c \in l.claims : c.oid = d.claim /\ c.actor = r /\ c.attempt = d.attempt
  BY <1>2, <1>4, <1>5, DecideFacts
<1>7. CASE d.what = "resume" /\ d.claim = rn[r].claim
  <2>1. q = [rn[r] EXCEPT !.pc = "exec", !.attempt = d.attempt]
    BY <1>7
  <2>2. /\ q \in RunnerRecs /\ q.entry = Empty /\ q.pc = "exec" /\ q.processed = rn[r].processed
        /\ q.attempt = d.attempt /\ q.claim = d.claim
    BY <1>4, <1>6, <1>7, <2>1 DEF RunnerRecs, RunnerPcs
  <2> HIDE DEF q
  <2>3. q.processed => \E x \in collab.results : x.conclusion # "error"
    BY <2>2 DEF CiInv, ProcessedSettled
  <2>4. Claimed(r, q.claim, q.attempt)
    BY <1>5, <1>6, <1>7, <2>2 DEF Claimed
  <2> QED
    BY <1>3, <1>4, <1>5, <2>2, <2>3, <2>4, RunnerMoves
<1>8. CASE ~(d.what = "resume" /\ d.claim = rn[r].claim)
  <2>1. q = Defer(r)
    BY <1>8
  <2> HIDE DEF q
  <2>2. q \in RunnerRecs /\ q.entry = Empty /\ q.pc = "idle" /\ q.processed = rn[r].processed
    BY <2>1, DeferFacts
  <2>3. q.processed => \E x \in collab.results : x.conclusion # "error"
    BY <2>2 DEF CiInv, ProcessedSettled
  <2> QED
    BY <1>3, <1>4, <1>5, <2>2, <2>3, RunnerMoves
<1> QED
  BY <1>7, <1>8

\* Signing a claim.
LEMMA SignClaimStep ==
    ASSUME CiAssumption, CiInv, NEW r \in Runners, SignClaim(r)
    PROVE  CiInv'
<1>1. PICK o \in NewOids(r, clone[r].claims) :
        Sign(r, [Empty EXCEPT !.claims =
                   {[oid |-> o, actor |-> r, ts |-> clock, attempt |-> rn[r].attempt]}], "push_claim", o)
  BY DEF SignClaim
<1>2. /\ rn[r].pc = "claim" /\ rn[r].entry = Empty /\ rn[r] \in RunnerRecs /\ signed \in Nat
      /\ clock \in 0 .. CiMaxTime /\ RunnerInv(r)
  BY DEF CiInv, CiTypes, CloneInv, SignClaim
<1>3. o \in {signed + 1, -(signed + 1)} /\ o \in Int
  BY <1>2 DEF NewOids
<1> DEFINE y == [oid |-> o, actor |-> r, ts |-> clock, attempt |-> rn[r].attempt]
           entry == [Empty EXCEPT !.claims = {y}]
<1>4. rn[r].attempt \in 1 .. MaxAttempts
  BY <1>2 DEF RunnerRecs
<1>5. y \in Claims /\ y.oid = o /\ y.ts = clock /\ y.attempt = rn[r].attempt
  BY <1>2, <1>3, <1>4 DEF Claims
<1>6. Sign(r, entry, "push_claim", o)
  BY <1>1
<1> HIDE DEF y
<1>7. entry \in Logs /\ entry.claims = {y} /\ entry.results = {}
  BY <1>5 DEF Empty, Logs
<1> HIDE DEF entry
<1>8. \A c \in entry.claims : c.attempt > 1 => Failed(c.attempt)
  BY <1>2, <1>5, <1>7 DEF RunnerInv
<1> QED
  BY <1>2, <1>3, <1>5, <1>6, <1>7, <1>8, SignMoves

\* Signing a result: the claim it answers is on the server.
LEMMA ExecuteStep ==
    ASSUME CiAssumption, CiInv, NEW r \in Runners, Execute(r)
    PROVE  CiInv'
<1>1. PICK o \in NewOids(r, clone[r].results), e \in Conclusions :
        Sign(r, [Empty EXCEPT !.results =
                   {[oid |-> o, actor |-> r, ts |-> clock, attempt |-> rn[r].attempt,
                     claim |-> rn[r].claim, conclusion |-> e]}], "push_result", rn[r].claim)
  BY DEF Execute
<1>2. /\ rn[r].pc = "exec" /\ rn[r].entry = Empty /\ rn[r] \in RunnerRecs /\ signed \in Nat
      /\ clock \in 0 .. CiMaxTime /\ RunnerInv(r)
  BY DEF CiInv, CiTypes, CloneInv, Execute
<1>3. o \in {signed + 1, -(signed + 1)} /\ o \in Int
  BY <1>2 DEF NewOids
<1> DEFINE y == [oid |-> o, actor |-> r, ts |-> clock, attempt |-> rn[r].attempt,
                 claim |-> rn[r].claim, conclusion |-> e]
           entry == [Empty EXCEPT !.results = {y}]
<1>4. rn[r].attempt \in 1 .. MaxAttempts /\ rn[r].claim \in Int
  BY <1>2 DEF RunnerRecs
<1>5. /\ y \in Results /\ y.oid = o /\ y.ts = clock /\ y.attempt = rn[r].attempt
      /\ y.actor = r /\ y.claim = rn[r].claim
  BY <1>2, <1>3, <1>4 DEF Results
<1>6. Sign(r, entry, "push_result", rn[r].claim)
  BY <1>1
<1> HIDE DEF y
<1>7. entry \in Logs /\ entry.claims = {} /\ entry.results = {y}
  BY <1>5 DEF Empty, Logs
<1> HIDE DEF entry
<1>8. \A x \in entry.results : Claimed(x.actor, x.claim, x.attempt)
  BY <1>2, <1>5, <1>7 DEF RunnerInv
<1> QED
  BY <1>2, <1>3, <1>4, <1>5, <1>6, <1>7, <1>8, SignMoves

\* The pushes: the entry arrives, whether or not the runner learns of it.
LEMMA PushStep ==
    ASSUME CiAssumption, CiInv, "lost" \notin Faults, NEW r \in Runners,
           PushClaim(r) \/ PushResult(r) \/ Lost(r)
    PROVE  CiInv'
<1>1. rn[r] \in RunnerRecs /\ CiTypes
  BY DEF CiInv, CiTypes
<1>2. CASE PushClaim(r)
  <2> DEFINE q == [rn[r] EXCEPT !.pc = "recheck", !.entry = Empty]
  <2>1. rn' = [rn EXCEPT ![r] = q]
    BY <1>1, <1>2 DEF PushClaim, CiTypes
  <2>2. Empty \in Logs
    BY DEF Empty, Logs
  <2>3. q \in RunnerRecs /\ q.entry = Empty /\ q.pc = "recheck" /\ q.processed = rn[r].processed
    BY <1>1, <2>2 DEF RunnerRecs, RunnerPcs
  <2> HIDE DEF q
  <2> QED
    BY <1>2, <2>1, <2>3, PushMoves DEF PushClaim
<1>3. CASE PushResult(r)
  <2>1. PICK n : n = IF \E x \in rn[r].entry.results : x.conclusion = "error"
                     THEN rn[r].errors + 1 ELSE rn[r].errors
    OBVIOUS
  <2>2. n \in Nat
    BY <1>1, <2>1 DEF RunnerRecs
  <2> DEFINE q == IF n < MaxErrors THEN [Defer(r) EXCEPT !.errors = n] ELSE Defer(r)
  <2>3. rn' = [rn EXCEPT ![r] = q]
    BY <1>3, <2>1 DEF PushResult
  <2>4. /\ Defer(r) \in RunnerRecs /\ Defer(r).entry = Empty /\ Defer(r).pc = "idle"
        /\ Defer(r).processed = rn[r].processed
    BY DeferFacts
  <2>5. q \in RunnerRecs /\ q.entry = Empty /\ q.pc = "idle" /\ q.processed = rn[r].processed
    BY <2>2, <2>4 DEF RunnerRecs
  <2> HIDE DEF q
  <2> QED
    BY <1>3, <2>3, <2>5, PushMoves DEF PushResult
<1>4. CASE Lost(r)
  <2>1. /\ collab' = Merge(collab, rn[r].entry) /\ rn' = [rn EXCEPT ![r] = Defer(r)]
        /\ UNCHANGED <<clock, clone, signed>>
    BY <1>4 DEF Lost
  <2> QED
    BY <2>1, DeferFacts, PushMoves
<1> QED
  BY <1>2, <1>3, <1>4

\* A runner that dies keeps its clone.
LEMMA CrashStep ==
    ASSUME CiAssumption, CiInv, NEW r \in Runners, RunnerCrash(r)
    PROVE  CiInv'
<1>1. /\ rn[r].pc \notin {"push_claim", "push_result"} /\ clone[r] \in Logs /\ CiTypes
      /\ rn' = [rn EXCEPT ![r] = Defer(r)] /\ UNCHANGED <<clock, collab, clone, signed>>
  BY DEF CiInv, CiTypes, RunnerCrash
<1>2. clone[r].claims \subseteq collab.claims /\ clone[r].results \subseteq collab.results
  <2>1. CloneInv(r)
    BY DEF CiInv
  <2> QED
    BY <1>1, <2>1 DEF CloneInv, Empty
<1>3. clone' = [clone EXCEPT ![r] = clone[r]]
  BY <1>1 DEF CiTypes
<1>4. /\ Defer(r) \in RunnerRecs /\ Defer(r).entry = Empty /\ Defer(r).pc = "idle"
      /\ Defer(r).processed = rn[r].processed
  BY DeferFacts
<1>5. Defer(r).processed => \E x \in collab.results : x.conclusion # "error"
  BY <1>4 DEF CiInv, ProcessedSettled
<1> QED
  BY <1>1, <1>2, <1>3, <1>4, <1>5, RunnerMoves

\* Time passes.
LEMMA CiTickStep ==
    ASSUME CiAssumption, CiInv, CiTick
    PROVE  CiInv'
<1>1. clock' \in 0 .. CiMaxTime /\ clock' = clock + 1 /\ clock \in Nat /\ UNCHANGED <<collab, clone, rn, signed>>
  BY DEF CiAssumption, CiInv, CiTypes, CiTick
<1>2. \A x \in KnownClaims \cup KnownResults : x.ts \in Nat
  <2>1. 0 .. CiMaxTime \subseteq Nat
    BY DEF CiAssumption
  <2>2. KnownClaims \subseteq Claims /\ KnownResults \subseteq Results
    BY DEF CiInv, CiTypes, KnownClaims, KnownResults, Logs
  <2> QED
    BY <2>1, <2>2 DEF Claims, Results
<1>3. Stamped(KnownClaims, signed, clock) /\ Stamped(KnownResults, signed, clock)
  BY DEF CiInv
<1>4. Stamped(KnownClaims, signed, clock') /\ Stamped(KnownResults, signed, clock')
  BY <1>1, <1>2, <1>3 DEF Stamped
<1>5. KnownClaims' = KnownClaims /\ KnownResults' = KnownResults
  BY <1>1 DEF KnownClaims, KnownResults
<1>6. \A r \in Runners : CloneInv(r)' /\ RunnerInv(r)'
  BY <1>1 DEF CiInv, CloneInv, RunnerInv, Failed, Claimed
<1> QED
  BY <1>1, <1>4, <1>5, <1>6 DEF CiInv, CiTypes, ResultsAnswerClaims, RetriesFollowFailures, ProcessedSettled

\* Nothing happens.
LEMMA CiRests ==
    ASSUME CiInv, UNCHANGED ciVars
    PROVE  CiInv'
<1>1. UNCHANGED <<clock, collab, clone, rn, signed>>
  BY DEF ciVars
<1>2. KnownClaims' = KnownClaims /\ KnownResults' = KnownResults
  BY <1>1 DEF KnownClaims, KnownResults
<1>3. \A r \in Runners : CloneInv(r)' /\ RunnerInv(r)'
  BY <1>1 DEF CiInv, CloneInv, RunnerInv, Failed, Claimed
<1> QED
  BY <1>1, <1>2, <1>3
  DEF CiInv, CiTypes, Stamped, ResultsAnswerClaims, RetriesFollowFailures, ProcessedSettled

\* Before anything is signed.
LEMMA CiStart ==
    ASSUME CiAssumption, CiInit
    PROVE  CiInv
<1>1. /\ clock = 0 /\ collab = Empty /\ clone = [r \in Runners |-> Empty]
      /\ rn = [r \in Runners |-> IdleRunner] /\ signed = 0
  BY DEF CiInit
<1>2. Empty \in Logs /\ Empty.claims = {} /\ Empty.results = {}
  BY DEF Empty, Logs
<1>3. IdleRunner \in RunnerRecs
  BY IdleFacts
<1>4. IdleRunner.pc = "idle" /\ IdleRunner.entry = Empty /\ ~IdleRunner.processed
  BY DEF IdleRunner
<1>5. CiTypes
  BY <1>1, <1>2, <1>3 DEF CiAssumption, CiTypes
<1>6. KnownClaims = {} /\ KnownResults = {}
  BY <1>1, <1>2 DEF KnownClaims, KnownResults
<1>7. Stamped(KnownClaims, signed, clock) /\ Stamped(KnownResults, signed, clock)
  BY <1>6 DEF Stamped
<1>8. \A r \in Runners : CloneInv(r) /\ RunnerInv(r)
  BY <1>1, <1>2, <1>4 DEF CloneInv, RunnerInv
<1> QED
  BY <1>1, <1>2, <1>4, <1>5, <1>7, <1>8 DEF CiInv, ResultsAnswerClaims, RetriesFollowFailures, ProcessedSettled

\* Once every claim that is known has expired, decide neither waits nor resumes.
LEMMA ExpiredHeals ==
    ASSUME CiAssumption, CiInv
    PROVE  SelfHeals
<1> SUFFICES ASSUME NEW r \in Runners
             PROVE  Decide(Merge(clone[r], collab), r, clock + ClaimTtl + 1).what \in {"claim", "settled"}
  BY DEF SelfHeals
<1>1. PICK l : l = Merge(clone[r], collab)
  OBVIOUS
<1>2. PICK t : t = clock + ClaimTtl + 1
  OBVIOUS
<1>3. clone[r] \in Logs /\ collab \in Logs /\ clock \in Nat /\ signed \in Nat /\ ClaimTtl \in Nat
  BY DEF CiAssumption, CiInv, CiTypes
<1>4. /\ l \in Logs /\ l.claims = clone[r].claims \cup collab.claims
      /\ l.results = clone[r].results \cup collab.results
  BY <1>1, <1>3, MergeFacts
<1>5. l.claims \subseteq KnownClaims /\ l.results \subseteq KnownResults
  BY <1>4 DEF KnownClaims, KnownResults
<1>6. Sane(l, signed)
  BY <1>4, <1>5, KnownSane
<1>7. \A c \in l.claims : ~LiveClaim(c, t)
  <2>1. \A c \in l.claims : c.ts \in Nat
    BY <1>6 DEF Sane, Ordered
  <2>2. \A c \in l.claims : c.ts <= clock
    BY <1>5 DEF CiInv, Stamped
  <2> QED
    BY <1>2, <1>3, <2>1, <2>2 DEF LiveClaim
<1>8. PICK d : d = Decide(l, r, t)
  OBVIOUS
<1>9. d.what \in {"claim", "settled"}
  BY <1>3, <1>6, <1>7, <1>8, DecideFacts
<1> QED
  BY <1>1, <1>2, <1>8, <1>9

\* RunsSound: where every push that is tried arrives (its answer may be lost, fetches may fail,
\* runners may die and clocks may tie), claims, results and what runners record fit together,
\* and no run waits for ever on a runner that is gone.
THEOREM RunsAreSound ==
    ASSUME "lost" \notin Faults
    PROVE  CiSpec => []RunsSound
<1>1. CiInit => CiInv
  BY CiAssumption, CiStart
<1>2. CiInv /\ [CiNext]_ciVars => CiInv'
  <2> SUFFICES ASSUME CiInv, [CiNext]_ciVars PROVE CiInv'
    OBVIOUS
  <2>1. ASSUME NEW r \in Runners, Look(r) PROVE CiInv'
    BY <2>1, CiAssumption, LookStep
  <2>2. ASSUME NEW r \in Runners, SignClaim(r) PROVE CiInv'
    BY <2>2, CiAssumption, SignClaimStep
  <2>3. ASSUME NEW r \in Runners, PushClaim(r) \/ PushResult(r) \/ Lost(r) PROVE CiInv'
    BY <2>3, CiAssumption, PushStep
  <2>4. ASSUME NEW r \in Runners, Recheck(r) PROVE CiInv'
    BY <2>4, CiAssumption, RecheckStep
  <2>5. ASSUME NEW r \in Runners, Execute(r) PROVE CiInv'
    BY <2>5, CiAssumption, ExecuteStep
  <2>6. ASSUME NEW r \in Runners, RunnerCrash(r) PROVE CiInv'
    BY <2>6, CiAssumption, CrashStep
  <2>7. CASE CiTick
    BY <2>7, CiAssumption, CiTickStep
  <2>8. CASE UNCHANGED ciVars
    BY <2>8, CiRests
  <2> QED
    BY <2>1, <2>2, <2>3, <2>4, <2>5, <2>6, <2>7, <2>8 DEF CiNext
<1>3. CiInv => RunsSound
  BY CiAssumption, ExpiredHeals DEF CiInv, RunsSound
<1> QED
  BY <1>1, <1>2, <1>3, PTL DEF CiSpec

(***************************************************************************)
(* CiCommand: one execution.  CmdInv: the log is the end of what was read, *)
(* every byte was read or is in a pipe, and who holds the pipes.  ObInv:   *)
(* what is named is there, and a reader of it finds it.                    *)
(***************************************************************************)

Procs == {"shell", "child", "daemon"}
CmdTypes ==
    cmd \in [pc : {"poll", "join", "done"}, procs : SUBSET Procs, holders : SUBSET Procs,
             status : {"none", "zero", "other"}, pipe : [Pipes -> Seq(Nat)], open : SUBSET Pipes,
             written : Nat, read : Seq(Nat), log : Seq(Nat), truncated : BOOLEAN, late : BOOLEAN,
             conclusion : {"none", "success", "failure", "timeout"}]

\* What a log keeps of a sequence of bytes.
LastOf(s) == SubSeq(s, Beyond(Len(s)) + 1, Len(s))
TailInv ==
    /\ cmd.log = LastOf(cmd.read)
    /\ cmd.truncated = (Len(cmd.read) > LogMax)

Bytes(s) == {s[i] : i \in 1..Len(s)}
\* Every byte that was written was read or is in a pipe.
ByteInv ==
    /\ \A b \in 1..cmd.written : b \in Bytes(cmd.read) \/ \E p \in Pipes : b \in Bytes(cmd.pipe[p])
    /\ Bytes(cmd.read) \subseteq 1..cmd.written
    /\ \A p \in Pipes : Bytes(cmd.pipe[p]) \subseteq 1..cmd.written

\* A pipe whose reader has ended is empty and nobody is left to write into it; the shell keeps
\* its pipes while it runs; and what the runner concluded stays so.
EndInv ==
    /\ \A p \in Pipes \ cmd.open : cmd.pipe[p] = <<>> /\ cmd.holders = {}
    /\ "shell" \in cmd.procs => "shell" \in cmd.holders /\ cmd.status = "none"
    /\ cmd.pc = "done" => cmd.open = {}
    /\ cmd.conclusion = "timeout" => cmd.procs \cap InGroup = {}
    /\ cmd.conclusion = "success" => cmd.status = "zero"

CmdInv == CmdTypes /\ TailInv /\ ByteInv /\ EndInv

\* Making room as bytes come keeps the end of all of them.
LEMMA LastOfMore ==
    ASSUME NEW s \in Seq(Nat), NEW t \in Seq(Nat), Len(t) < LogMax
    PROVE  LET l == LastOf(s)
               drop == Beyond(Len(l) + Len(t))
           IN  /\ LastOf(s \o t) = SubSeq(l, drop + 1, Len(l)) \o t
               /\ LastOf(s \o t) \in Seq(Nat)
               /\ (Len(s \o t) > LogMax) = (Len(s) > LogMax \/ drop > 0)
<1> DEFINE l == LastOf(s)
           drop == Beyond(Len(l) + Len(t))
           k == SubSeq(l, drop + 1, Len(l))
           u == s \o t
           b == Beyond(Len(s))
<1>1. LogMax \in Nat
  BY CommandAssumption
<1>2. Len(s) \in Nat /\ Len(t) \in Nat /\ b \in Nat /\ b <= Len(s)
  BY <1>1, LenProperties DEF Beyond
<1>3. /\ l \in Seq(Nat) /\ Len(l) = Len(s) - b
      /\ \A i \in 1..Len(l) : l[i] = s[b + i]
  <2>1. \A i \in b + 1..Len(s) : s[i] \in Nat
    BY <1>2, ElementOfSeq
  <2>2. b + 1 \in Int /\ Len(s) \in Int
    BY <1>2
  <2>3. /\ l \in Seq(Nat) /\ Len(l) = (IF b + 1 <= Len(s) THEN Len(s) - (b + 1) + 1 ELSE 0)
        /\ \A i \in 1..Len(s) - (b + 1) + 1 : l[i] = s[b + 1 + i - 1]
    BY <2>1, <2>2, SubSeqProperties DEF LastOf
  <2> HIDE DEF l, b
  <2> QED
    BY <1>2, <2>3
<1>4. u \in Seq(Nat) /\ Len(u) = Len(s) + Len(t)
      /\ \A i \in 1..Len(u) : u[i] = IF i <= Len(s) THEN s[i] ELSE t[i - Len(s)]
  BY ConcatProperties
<1>5. drop \in Nat /\ drop <= Len(l) /\ Beyond(Len(u)) = b + drop /\ b + drop <= Len(u)
      /\ (Len(u) > LogMax) = (Len(s) > LogMax \/ drop > 0)
  <2>1. Len(l) = IF Len(s) > LogMax THEN LogMax ELSE Len(s)
    BY <1>1, <1>2, <1>3 DEF Beyond
  <2> HIDE DEF l, u
  <2>2. CASE Len(s) > LogMax
    <3>1. b = Len(s) - LogMax /\ Len(l) = LogMax
      BY <2>1, <2>2 DEF Beyond
    <3>2. drop = Len(t) /\ Beyond(Len(u)) = Len(s) + Len(t) - LogMax /\ Len(u) > LogMax
      BY <1>1, <1>2, <1>4, <2>2, <3>1 DEF Beyond
    <3> HIDE DEF b, drop
    <3> QED
      BY <1>1, <1>2, <1>4, <2>2, <3>1, <3>2
  <2>3. CASE ~(Len(s) > LogMax)
    <3>1. b = 0 /\ Len(l) = Len(s)
      BY <2>1, <2>3 DEF Beyond
    <3> HIDE DEF b
    <3>2. /\ drop = IF Len(s) + Len(t) > LogMax THEN Len(s) + Len(t) - LogMax ELSE 0
          /\ Beyond(Len(u)) = drop
      <4>1. Len(u) = Len(s) + Len(t)
        BY <1>4
      <4>2. drop = Beyond(Len(s) + Len(t))
        BY <3>1
      <4> HIDE DEF drop
      <4> QED
        BY <1>1, <1>2, <4>1, <4>2 DEF Beyond
    <3> HIDE DEF drop
    <3>3. drop \in Nat /\ drop <= Len(s)
      BY <1>1, <1>2, <2>3, <3>2
    <3>4. Len(u) > LogMax <=> drop > 0
      BY <1>1, <1>2, <1>4, <3>2
    <3>5. b + drop = drop /\ drop <= Len(u)
      BY <1>2, <1>4, <3>1, <3>3
    <3> QED
      BY <2>3, <3>1, <3>2, <3>3, <3>4, <3>5
  <2> QED
    BY <2>2, <2>3
<1>6. /\ k \in Seq(Nat) /\ Len(k) = Len(l) - drop
      /\ \A i \in 1..Len(k) : k[i] = l[drop + i]
  <2>1. \A i \in drop + 1..Len(l) : l[i] \in Nat
    <3> HIDE DEF l, drop, b
    <3>1. \A i \in 1..Len(l) : l[i] \in Nat
      BY <1>3, ElementOfSeq
    <3>2. Len(l) \in Nat
      BY <1>3, LenProperties
    <3> QED
      BY <1>5, <3>1, <3>2
  <2>2. drop + 1 \in Int /\ Len(l) \in Int
    BY <1>2, <1>3, <1>5
  <2>3. /\ k \in Seq(Nat) /\ Len(k) = (IF drop + 1 <= Len(l) THEN Len(l) - (drop + 1) + 1 ELSE 0)
        /\ \A i \in 1..Len(l) - (drop + 1) + 1 : k[i] = l[drop + 1 + i - 1]
    <3> HIDE DEF l, drop
    <3> QED
      BY <2>1, <2>2, SubSeqProperties
  <2> HIDE DEF l, drop, k, b
  <2>4. Len(l) \in Nat /\ drop \in Nat /\ drop <= Len(l)
    BY <1>3, <1>5, LenProperties
  <2>5. Len(k) = Len(l) - drop
    BY <2>3, <2>4
  <2>6. ASSUME NEW i \in 1..Len(k)
        PROVE  k[i] = l[drop + i]
    <3>1. i \in 1..Len(l) - (drop + 1) + 1 /\ drop + 1 + i - 1 = drop + i
      BY <2>4, <2>5
    <3> QED
      BY <2>3, <3>1
  <2> QED
    BY <2>3, <2>5, <2>6
<1>7. /\ k \o t \in Seq(Nat) /\ Len(k \o t) = Len(k) + Len(t)
      /\ \A i \in 1..Len(k) + Len(t) : (k \o t)[i] = IF i <= Len(k) THEN k[i] ELSE t[i - Len(k)]
  <2> HIDE DEF k
  <2> QED
    BY <1>6, ConcatProperties
<1>8. /\ LastOf(u) \in Seq(Nat) /\ Len(LastOf(u)) = Len(u) - (b + drop)
      /\ \A i \in 1..Len(LastOf(u)) : LastOf(u)[i] = u[b + drop + i]
  <2> DEFINE c == b + drop
             v == SubSeq(u, c + 1, Len(u))
  <2>1. c \in Nat /\ c <= Len(u) /\ Len(u) \in Nat
    BY <1>2, <1>4, <1>5
  <2>2. LastOf(u) = v
    BY <1>5 DEF LastOf
  <2> HIDE DEF b, drop, u, c
  <2>3. \A i \in c + 1..Len(u) : u[i] \in Nat
    BY <1>4, <2>1, ElementOfSeq
  <2>4. c + 1 \in Int /\ Len(u) \in Int
    BY <2>1
  <2>5. /\ v \in Seq(Nat) /\ Len(v) = (IF c + 1 <= Len(u) THEN Len(u) - (c + 1) + 1 ELSE 0)
        /\ \A i \in 1..Len(u) - (c + 1) + 1 : v[i] = u[c + 1 + i - 1]
    BY <2>3, <2>4, SubSeqProperties
  <2> HIDE DEF v
  <2>6. v \in Seq(Nat) /\ Len(v) = Len(u) - c /\ \A i \in 1..Len(v) : v[i] = u[c + i]
    BY <2>1, <2>5
  <2> QED
    BY <2>2, <2>6 DEF c
<1> HIDE DEF b, drop, u, k, l
<1>9. Len(LastOf(u)) = Len(k \o t)
  BY <1>2, <1>3, <1>4, <1>5, <1>6, <1>7, <1>8
<1>10. ASSUME NEW i \in 1..Len(LastOf(u))
       PROVE  LastOf(u)[i] = (k \o t)[i]
  <2> DEFINE j == b + drop + i
  <2>0. LastOf(u)[i] = u[b + drop + i]
    BY <1>8
  <2>1. j \in 1..Len(u) /\ LastOf(u)[i] = u[j]
    <3>1. Len(u) \in Nat /\ b \in Nat /\ drop \in Nat /\ i \in 1..Len(u) - (b + drop)
      BY <1>2, <1>4, <1>5, <1>8
    <3>2. j \in 1..Len(u)
      BY <3>1
    <3> QED
      BY <2>0, <3>2
  <2>2. CASE i <= Len(k)
    <3>1. i \in 1..Len(k) /\ drop + i \in 1..Len(l) /\ j <= Len(s) /\ j = b + (drop + i)
      BY <1>2, <1>3, <1>5, <1>6, <2>2
    <3>2. k[i] = s[b + (drop + i)]
      BY <1>3, <1>6, <3>1
    <3>3. (k \o t)[i] = k[i]
      BY <1>7, <1>9, <2>2
    <3> HIDE DEF j
    <3> QED
      BY <1>4, <2>1, <3>1, <3>2, <3>3
  <2>3. CASE ~(i <= Len(k))
    <3>1. ~(j <= Len(s)) /\ j - Len(s) = i - Len(k)
      BY <1>2, <1>3, <1>5, <1>6, <2>3
    <3>2. (k \o t)[i] = t[i - Len(k)]
      BY <1>7, <1>9, <2>3
    <3> HIDE DEF j
    <3>3. u[j] = t[j - Len(s)]
      BY <1>4, <2>1, <3>1
    <3> QED
      BY <2>1, <3>1, <3>2, <3>3
  <2> QED
    BY <2>2, <2>3
<1>11. LastOf(u) = k \o t
  BY <1>7, <1>8, <1>9, <1>10, SeqEqual
<1> QED
  BY <1>5, <1>8, <1>11 DEF b, drop, u, k, l

\* The bytes of a sequence that was cut, put together or written to.
LEMMA BytesAppend ==
    ASSUME NEW s \in Seq(Nat), NEW x \in Nat
    PROVE  Bytes(Append(s, x)) = Bytes(s) \cup {x}
<1>1. Len(s) \in Nat
  BY LenProperties
<1>2. /\ Len(Append(s, x)) = Len(s) + 1
      /\ \A i \in 1..Len(s) : Append(s, x)[i] = s[i]
      /\ Append(s, x)[Len(s) + 1] = x
  BY AppendProperties
<1>3. 1..Len(s) + 1 = 1..Len(s) \cup {Len(s) + 1}
  BY <1>1
<1> QED
  BY <1>2, <1>3 DEF Bytes

LEMMA BytesConcat ==
    ASSUME NEW s \in Seq(Nat), NEW t \in Seq(Nat)
    PROVE  Bytes(s \o t) = Bytes(s) \cup Bytes(t)
<1>1. Len(s) \in Nat /\ Len(t) \in Nat
  BY LenProperties
<1>2. /\ Len(s \o t) = Len(s) + Len(t)
      /\ \A i \in 1..Len(s) + Len(t) : (s \o t)[i] = IF i <= Len(s) THEN s[i] ELSE t[i - Len(s)]
  BY ConcatProperties
<1>3. ASSUME NEW b \in Bytes(s \o t)
      PROVE  b \in Bytes(s) \cup Bytes(t)
  <2>1. PICK i \in 1..Len(s) + Len(t) : b = (s \o t)[i]
    BY <1>2 DEF Bytes
  <2>2. CASE i <= Len(s)
    BY <1>1, <1>2, <2>1, <2>2 DEF Bytes
  <2>3. CASE ~(i <= Len(s))
    <3>1. i - Len(s) \in 1..Len(t) /\ b = t[i - Len(s)]
      BY <1>1, <1>2, <2>1, <2>3
    <3> QED
      BY <3>1 DEF Bytes
  <2> QED
    BY <2>2, <2>3
<1>4. ASSUME NEW b \in Bytes(s)
      PROVE  b \in Bytes(s \o t)
  <2>1. PICK i \in 1..Len(s) : b = s[i]
    BY DEF Bytes
  <2>2. i \in 1..Len(s) + Len(t) /\ (s \o t)[i] = b
    BY <1>1, <1>2, <2>1
  <2> QED
    BY <1>2, <2>2 DEF Bytes
<1>5. ASSUME NEW b \in Bytes(t)
      PROVE  b \in Bytes(s \o t)
  <2>1. PICK i \in 1..Len(t) : b = t[i]
    BY DEF Bytes
  <2>2. i + Len(s) \in 1..Len(s) + Len(t) /\ ~(i + Len(s) <= Len(s)) /\ i + Len(s) - Len(s) = i
    BY <1>1
  <2>3. (s \o t)[i + Len(s)] = b
    BY <1>2, <2>1, <2>2
  <2> QED
    BY <1>2, <2>2, <2>3 DEF Bytes
<1> QED
  BY <1>3, <1>4, <1>5

LEMMA CutInTwo ==
    ASSUME NEW s \in Seq(Nat), NEW n \in 1..Len(s)
    PROVE  /\ SubSeq(s, 1, n) \in Seq(Nat) /\ Len(SubSeq(s, 1, n)) = n
           /\ SubSeq(s, n + 1, Len(s)) \in Seq(Nat)
           /\ Bytes(s) = Bytes(SubSeq(s, 1, n)) \cup Bytes(SubSeq(s, n + 1, Len(s)))
<1>1. Len(s) \in Nat /\ \A i \in 1..Len(s) : s[i] \in Nat
  BY LenProperties, ElementOfSeq
<1>2. /\ SubSeq(s, 1, n) \in Seq(Nat)
      /\ Len(SubSeq(s, 1, n)) = IF 1 <= n THEN n - 1 + 1 ELSE 0
  <2>1. \A i \in 1..n : s[i] \in Nat
    BY <1>1
  <2> QED
    BY <1>1, <2>1, SubSeqProperties
<1>3. SubSeq(s, n + 1, Len(s)) \in Seq(Nat)
  <2>1. \A i \in n + 1..Len(s) : s[i] \in Nat
    BY <1>1
  <2> QED
    BY <1>1, <2>1, SubSeqProperties
<1>4. SubSeq(s, 1, n) \o SubSeq(s, n + 1, Len(s)) = s
  <2>1. 1 \in 1..Len(s) + 1 /\ n \in 1 - 1..Len(s) /\ Len(s) \in n..Len(s)
    BY <1>1
  <2>2. SubSeq(s, 1, n) \o SubSeq(s, n + 1, Len(s)) = SubSeq(s, 1, Len(s))
    BY <2>1, ConcatAdjacentSubSeq
  <2> QED
    BY <2>2, SubSeqFull
<1>5. Len(SubSeq(s, 1, n)) = n
  BY <1>1, <1>2
<1>6. Bytes(s) = Bytes(SubSeq(s, 1, n)) \cup Bytes(SubSeq(s, n + 1, Len(s)))
  BY <1>2, <1>3, <1>4, BytesConcat
<1> QED
  BY <1>2, <1>3, <1>5, <1>6

\* Steps of processes and of the runner that leave bytes alone.
LEMMA QuietCommand ==
    ASSUME CmdInv, CmdTypes', EndInv',
           cmd'.pipe = cmd.pipe, cmd'.written = cmd.written, cmd'.read = cmd.read, cmd'.log = cmd.log,
           cmd'.truncated = cmd.truncated
    PROVE  CmdInv'
<1>1. TailInv'
  BY DEF CmdInv, TailInv
<1>2. ByteInv'
  BY DEF CmdInv, ByteInv
<1> QED
  BY <1>1, <1>2 DEF CmdInv

LEMMA CmdProcs ==
    ASSUME CmdInv, ProcStarts \/ ProcCloses \/ ProcExits \/ DrainEnds \/ Deadline
    PROVE  CmdInv'
<1> USE DEF CmdInv
<1>1. CASE ProcStarts
  <2>1. PICK k \in CmdKinds \ cmd.procs :
            /\ "shell" \in cmd.procs
            /\ cmd' = [cmd EXCEPT !.procs = @ \cup {k}, !.holders = @ \cup {k}]
    BY <1>1 DEF ProcStarts
  <2>2. k \in Procs /\ k # "shell"
    BY CommandAssumption DEF Procs
  <2>3. CmdTypes'
    BY <2>1, <2>2 DEF CmdTypes
  <2>4. EndInv'
    BY <2>1, <2>2 DEF CmdTypes, EndInv, InGroup
  <2> QED
    BY <2>1, <2>3, <2>4, QuietCommand DEF CmdTypes
<1>2. CASE ProcCloses
  <2>1. PICK k \in cmd.holders \ {"shell"} : cmd' = [cmd EXCEPT !.holders = @ \ {k}]
    BY <1>2 DEF ProcCloses
  <2>3. CmdTypes'
    BY <2>1 DEF CmdTypes
  <2>4. EndInv'
    BY <2>1 DEF CmdTypes, EndInv, InGroup
  <2> QED
    BY <2>1, <2>3, <2>4, QuietCommand DEF CmdTypes
<1>3. CASE ProcExits
  <2>1. PICK k \in cmd.procs, code \in {"zero", "other"} :
            /\ k # "shell" => code = "zero"
            /\ cmd' = [cmd EXCEPT !.procs = @ \ {k}, !.holders = @ \ {k},
                                  !.status = IF k = "shell" THEN code ELSE @]
    BY <1>3 DEF ProcExits
  <2>3. CmdTypes'
    BY <2>1 DEF CmdTypes
  <2>4. EndInv'
    BY <2>1 DEF CmdTypes, EndInv, InGroup
  <2> QED
    BY <2>1, <2>3, <2>4, QuietCommand DEF CmdTypes
<1>4. CASE DrainEnds
  <2>1. PICK p \in cmd.open :
            /\ cmd.pipe[p] = <<>> /\ cmd.holders = {}
            /\ cmd' = [cmd EXCEPT !.open = @ \ {p}]
    BY <1>4 DEF DrainEnds
  <2>3. CmdTypes'
    BY <2>1 DEF CmdTypes
  <2>4. EndInv'
    BY <2>1 DEF CmdTypes, EndInv, InGroup
  <2> QED
    BY <2>1, <2>3, <2>4, QuietCommand DEF CmdTypes
<1>5. CASE Deadline
  <2>3. CmdTypes'
    BY <1>5 DEF CmdTypes, Deadline
  <2>4. EndInv'
    BY <1>5 DEF CmdTypes, EndInv, InGroup, Deadline
  <2> QED
    BY <1>5, <2>3, <2>4, QuietCommand DEF CmdTypes, Deadline
<1> QED
  BY <1>1, <1>2, <1>3, <1>4, <1>5

LEMMA CmdRunner ==
    ASSUME CmdInv, SeesExit \/ KillsTree \/ Joined
    PROVE  CmdInv'
<1> USE DEF CmdInv
<1>1. CASE SeesExit
  <2>1. CmdTypes'
    BY <1>1 DEF CmdTypes, SeesExit
  <2>2. EndInv'
    BY <1>1 DEF CmdTypes, EndInv, InGroup, SeesExit
  <2> QED
    BY <1>1, <2>1, <2>2, QuietCommand DEF CmdTypes, SeesExit
<1>2. CASE KillsTree
  <2>1. CmdTypes'
    BY <1>2 DEF CmdTypes, KillsTree
  <2>2. EndInv'
    BY <1>2 DEF CmdTypes, EndInv, InGroup, KillsTree
  <2> QED
    BY <1>2, <2>1, <2>2, QuietCommand DEF CmdTypes, KillsTree
<1>3. CASE Joined
  <2>1. CmdTypes'
    BY <1>3 DEF CmdTypes, Joined
  <2>2. EndInv'
    BY <1>3 DEF CmdTypes, EndInv, InGroup, Joined
  <2> QED
    BY <1>3, <2>1, <2>2, QuietCommand DEF CmdTypes, Joined
<1> QED
  BY <1>1, <1>2, <1>3

LEMMA CmdWrites ==
    ASSUME CmdInv, ProcWrites
    PROVE  CmdInv'
<1>1. PICK k \in cmd.holders, p \in Pipes :
          cmd' = [cmd EXCEPT !.pipe[p] = Append(@, cmd.written + 1), !.written = @ + 1]
  BY DEF ProcWrites
<1>2. CmdTypes
  BY DEF CmdInv
<1>3. cmd.pipe[p] \in Seq(Nat) /\ cmd.written \in Nat /\ cmd.written + 1 \in Nat
  BY <1>2 DEF CmdTypes
<1>4. Append(cmd.pipe[p], cmd.written + 1) \in Seq(Nat)
  BY <1>3, AppendProperties
<1>5. /\ cmd'.pipe = [cmd.pipe EXCEPT ![p] = Append(cmd.pipe[p], cmd.written + 1)]
      /\ cmd'.written = cmd.written + 1 /\ cmd'.read = cmd.read /\ cmd'.log = cmd.log
      /\ cmd'.truncated = cmd.truncated
  BY <1>1, <1>2 DEF CmdTypes
<1>6. CmdTypes'
  <2>1. PICK x \in Seq(Nat), w \in Nat : cmd' = [cmd EXCEPT !.pipe[p] = x, !.written = w]
    BY <1>1, <1>3, <1>4
  <2> QED
    BY <1>2, <2>1 DEF CmdTypes
<1>7. TailInv'
  BY <1>5 DEF CmdInv, TailInv
<1>8. ByteInv'
  <2>1. Bytes(cmd'.pipe[p]) = Bytes(cmd.pipe[p]) \cup {cmd.written + 1}
    BY <1>2, <1>3, <1>5, BytesAppend DEF CmdTypes
  <2>2. \A q \in Pipes \ {p} : cmd'.pipe[q] = cmd.pipe[q]
    BY <1>2, <1>5 DEF CmdTypes
  <2>3. 1..cmd'.written = 1..cmd.written \cup {cmd.written + 1}
    BY <1>3, <1>5
  <2>4. \A q \in Pipes : Bytes(cmd'.pipe[q]) = Bytes(cmd.pipe[q]) \cup (IF q = p THEN {cmd.written + 1} ELSE {})
    BY <2>1, <2>2
  <2>5. ByteInv
    BY DEF CmdInv
  <2> HIDE DEF Bytes
  <2> QED
    BY <1>5, <2>3, <2>4, <2>5 DEF ByteInv
<1>9. EndInv'
  <2>1. cmd.open = Pipes
    BY <1>1, <1>2 DEF CmdInv, CmdTypes, EndInv
  <2> QED
    BY <1>1, <1>2, <2>1 DEF CmdInv, CmdTypes, EndInv
<1> QED
  BY <1>6, <1>7, <1>8, <1>9 DEF CmdInv

LEMMA CmdReads ==
    ASSUME CmdInv, DrainReads
    PROVE  CmdInv'
<1>0. PICK p \in cmd.open : \E n \in 1..Len(cmd.pipe[p]) :
          LET chunk == SubSeq(cmd.pipe[p], 1, n)
          IN  /\ n <= ChunkMax
              /\ cmd' = [Appended(cmd, chunk) EXCEPT !.pipe[p] = SubSeq(@, n + 1, Len(@)),
                                                     !.read = @ \o chunk]
  BY DEF DrainReads
<1>1. PICK n \in 1..Len(cmd.pipe[p]) :
          LET chunk == SubSeq(cmd.pipe[p], 1, n)
          IN  /\ n <= ChunkMax
              /\ cmd' = [Appended(cmd, chunk) EXCEPT !.pipe[p] = SubSeq(@, n + 1, Len(@)),
                                                     !.read = @ \o chunk]
  BY <1>0
<1>2. CmdTypes
  BY DEF CmdInv
<1> DEFINE chunk == SubSeq(cmd.pipe[p], 1, n)
           left == SubSeq(cmd.pipe[p], n + 1, Len(cmd.pipe[p]))
           drop == Beyond(Len(cmd.log) + Len(chunk))
           log == SubSeq(cmd.log, drop + 1, Len(cmd.log)) \o chunk
<1>3. p \in Pipes /\ cmd.pipe[p] \in Seq(Nat) /\ cmd.read \in Seq(Nat) /\ cmd.log = LastOf(cmd.read)
      /\ cmd.truncated = (Len(cmd.read) > LogMax)
  BY <1>2 DEF CmdTypes, CmdInv, TailInv
<1>4. /\ chunk \in Seq(Nat) /\ Len(chunk) = n /\ left \in Seq(Nat)
      /\ Bytes(cmd.pipe[p]) = Bytes(chunk) \cup Bytes(left)
  BY <1>3, CutInTwo
<1>5. Len(chunk) < LogMax /\ ~(Len(chunk) >= LogMax)
  BY <1>1, <1>4, CommandAssumption
<1>6. /\ LastOf(cmd.read \o chunk) = log
      /\ LastOf(cmd.read \o chunk) \in Seq(Nat)
      /\ (Len(cmd.read \o chunk) > LogMax) = (Len(cmd.read) > LogMax \/ drop > 0)
  <2> HIDE DEF chunk
  <2>1. LET l == LastOf(cmd.read)
            d == Beyond(Len(l) + Len(chunk))
        IN  /\ LastOf(cmd.read \o chunk) = SubSeq(l, d + 1, Len(l)) \o chunk
            /\ LastOf(cmd.read \o chunk) \in Seq(Nat)
            /\ (Len(cmd.read \o chunk) > LogMax) = (Len(cmd.read) > LogMax \/ d > 0)
    BY <1>3, <1>4, <1>5, LastOfMore
  <2> QED
    BY <1>3, <2>1
<1>7. cmd.read \o chunk \in Seq(Nat) /\ Bytes(cmd.read \o chunk) = Bytes(cmd.read) \cup Bytes(chunk)
  <2> HIDE DEF chunk
  <2> QED
    BY <1>3, <1>4, ConcatProperties, BytesConcat
<1>8. Appended(cmd, chunk) = [cmd EXCEPT !.log = log, !.truncated = @ \/ drop > 0]
  BY <1>5 DEF Appended
<1>9. cmd' = [[cmd EXCEPT !.log = log, !.truncated = @ \/ drop > 0]
                 EXCEPT !.pipe[p] = SubSeq(@, n + 1, Len(@)), !.read = @ \o chunk]
  BY <1>1, <1>8
<1>10. /\ cmd'.pipe = [cmd.pipe EXCEPT ![p] = left] /\ cmd'.read = cmd.read \o chunk
       /\ cmd'.log = log /\ cmd'.truncated = (cmd.truncated \/ drop > 0)
       /\ cmd'.pc = cmd.pc /\ cmd'.procs = cmd.procs /\ cmd'.holders = cmd.holders
       /\ cmd'.status = cmd.status /\ cmd'.open = cmd.open /\ cmd'.written = cmd.written
       /\ cmd'.late = cmd.late /\ cmd'.conclusion = cmd.conclusion
  <2> HIDE DEF drop, log, chunk
  <2> QED
    BY <1>2, <1>3, <1>9 DEF CmdTypes
<1>11. CmdTypes'
  <2> HIDE DEF drop, log, chunk, left
  <2>1. [cmd.pipe EXCEPT ![p] = left] \in [Pipes -> Seq(Nat)]
    BY <1>2, <1>4 DEF CmdTypes
  <2>2. (cmd.truncated \/ drop > 0) \in BOOLEAN
    OBVIOUS
  <2>3. cmd' \in [pc : {"poll", "join", "done"}, procs : SUBSET Procs, holders : SUBSET Procs,
             status : {"none", "zero", "other"}, pipe : [Pipes -> Seq(Nat)], open : SUBSET Pipes,
             written : Nat, read : Seq(Nat), log : Seq(Nat), truncated : BOOLEAN, late : BOOLEAN,
             conclusion : {"none", "success", "failure", "timeout"}]
    <3>1. log \in Seq(Nat)
      BY <1>6
    <3> HIDE <1>6
    <3> QED
      BY <1>2, <1>4, <1>7, <1>9, <2>1, <2>2, <3>1 DEF CmdTypes, left
  <2> QED
    BY <2>3 DEF CmdTypes
<1> HIDE DEF drop, log, chunk, left
<1>12. TailInv'
  BY <1>3, <1>6, <1>10 DEF TailInv
<1>13. ByteInv'
  <2>1. cmd'.pipe[p] = left /\ \A q \in Pipes \ {p} : cmd'.pipe[q] = cmd.pipe[q]
    BY <1>2, <1>3, <1>10 DEF CmdTypes
  <2>2. ByteInv
    BY DEF CmdInv
  <2>3. \A q \in Pipes : Bytes(cmd.pipe[q]) = Bytes(cmd'.pipe[q]) \cup (IF q = p THEN Bytes(chunk) ELSE {})
    BY <1>3, <1>4, <2>1
  <2>4. Bytes(cmd'.read) = Bytes(cmd.read) \cup Bytes(chunk) /\ cmd'.written = cmd.written
    BY <1>7, <1>10
  <2>5. Bytes(chunk) \subseteq Bytes(cmd.pipe[p])
    BY <1>4
  <2>6. \A b \in 1..cmd.written : b \in Bytes(cmd'.read) \/ \E q \in Pipes : b \in Bytes(cmd'.pipe[q])
    BY <2>2, <2>3, <2>4 DEF ByteInv
  <2>7. Bytes(cmd'.read) \subseteq 1..cmd.written
    BY <1>3, <2>2, <2>4, <2>5 DEF ByteInv
  <2>8. \A q \in Pipes : Bytes(cmd'.pipe[q]) \subseteq 1..cmd.written
    BY <2>2, <2>3 DEF ByteInv
  <2> QED
    BY <2>4, <2>6, <2>7, <2>8 DEF ByteInv
<1>14. EndInv'
  <2>1. \A q \in Pipes \ cmd'.open : cmd'.pipe[q] = cmd.pipe[q]
    BY <1>2, <1>10 DEF CmdTypes
  <2> QED
    BY <1>10, <2>1 DEF CmdInv, EndInv
<1> QED
  BY <1>11, <1>12, <1>13, <1>14 DEF CmdInv

\* At the end all bytes have been read.
LEMMA LogFrom ==
    ASSUME CmdInv
    PROVE  LogExact
<1>1. cmd.log = SubSeq(cmd.read, Beyond(Len(cmd.read)) + 1, Len(cmd.read)) /\ cmd.truncated = (Len(cmd.read) > LogMax)
  BY DEF CmdInv, TailInv, LastOf
<1>2. ASSUME cmd.pc = "done"
      PROVE  /\ {cmd.read[i] : i \in 1..Len(cmd.read)} = 1..cmd.written
             /\ cmd.conclusion = "timeout" => cmd.procs \cap InGroup = {}
             /\ cmd.conclusion = "success" => cmd.status = "zero"
  <2>1. \A p \in Pipes : cmd.pipe[p] = <<>>
    BY <1>2 DEF CmdInv, EndInv
  <2>2. \A p \in Pipes : Bytes(cmd.pipe[p]) = {}
    <3>1. Len(<<>>) = 0 /\ 1..0 = {}
      BY EmptySeq
    <3> QED
      BY <2>1, <3>1 DEF Bytes
  <2>3. Bytes(cmd.read) = 1..cmd.written
    BY <2>2 DEF CmdInv, ByteInv
  <2> QED
    BY <2>3 DEF CmdInv, EndInv, Bytes
<1> QED
  BY <1>1, <1>2 DEF LogExact

(* The objects of a run.                                                  *)

Digests == Contents \cup {0}
ObRecs ==
    [pc : {"idle", "stat", "hash", "digest", "upload", "publish"}, file : Digests \ {Log}, oid : Digests,
     sha : Digests \ {Log}, ok : BOOLEAN, rounds : Nat, rewrites : Nat, faults : Nat, shadows : Nat]
ObTypes ==
    /\ ob \in ObRecs
    /\ obRemote \in [CiActors -> [Contents -> Digests]] /\ obLocal \in [CiActors -> [Contents -> Digests]]
    /\ obResult \in [log : Digests, artifact : Digests, oid : Digests]
    /\ rd \in [pc : {"idle", "local", "head", "fetch", "again", "done"}, sha : Digests, got : Digests, there : BOOLEAN]

\* What is named is there: what the runner has uploaded, and what the result says.
NamedInv ==
    /\ ob.pc \in {"hash", "digest"} => ob.file # 0
    /\ ob.pc = "digest" \/ ob.sha # 0 => ob.oid # 0
    /\ ob.pc = "publish" /\ ob.ok /\ ob.sha # 0 => obRemote[RunnerActor][ob.sha] = ob.oid
    /\ obResult.artifact # 0 => obResult.oid # 0 /\ obRemote[RunnerActor][obResult.artifact] = obResult.oid

\* A reader of an object that is there finds it at the end of its way.
ReaderInv ==
    /\ rd.pc # "idle" => rd.sha # 0
    /\ rd.pc # "done" => rd.got = 0
    /\ rd.there => rd.pc # "idle" /\ obRemote[RunnerActor][rd.sha] = rd.sha /\ Fits(rd.sha)
    /\ rd.there /\ rd.pc = "again" => obLocal[RunnerActor][rd.sha] = rd.sha
    /\ rd.pc = "done" /\ rd.there => rd.got = rd.sha
    /\ rd.pc = "done" /\ rd.got # 0 => Fits(rd.got)

ObInv == ObTypes /\ NamedInv /\ ReaderInv

\* A ref of the runner that holds an object keeps it.
RefsStay == \A c \in Contents : obRemote[RunnerActor][c] # 0 => obRemote'[RunnerActor][c] = obRemote[RunnerActor][c]

LEMMA ObCollects ==
    ASSUME ObInv, ObExecute \/ ObRewrite \/ CollectArtifact \/ PublishResult
    PROVE  ObInv'
<1>0. ObTypes /\ NamedInv /\ ReaderInv /\ ob \in ObRecs
  BY DEF ObInv, ObTypes
<1>5. Log \in Digests /\ 0 \in Digests \ {Log} /\ Contents \ {Log} \subseteq Digests \ {Log} /\ 0 \notin Contents
  BY DEF Digests, Contents, Log
<1>1. CASE ObExecute
  <2>1. PICK f \in {0} \cup (Contents \ {Log}) :
            ob' = [ob EXCEPT !.pc = "stat", !.file = f, !.oid = 0, !.sha = 0, !.rounds = @ + 1]
    BY <1>1 DEF ObExecute
  <2>2. UNCHANGED <<obRemote, obLocal, obResult, rd>>
    BY <1>1 DEF ObExecute
  <2>3. f \in Digests \ {Log}
    BY <1>5
  <2>4. ob' \in ObRecs /\ ob'.pc = "stat" /\ ob'.sha = 0
    <3>1. PICK n \in Nat : ob' = [ob EXCEPT !.pc = "stat", !.file = f, !.oid = 0, !.sha = 0, !.rounds = n]
      <4>1. ob.rounds + 1 \in Nat
        BY <1>0 DEF ObRecs
      <4> QED
        BY <2>1, <4>1
    <3> QED
      BY <1>0, <1>5, <2>3, <3>1 DEF ObRecs
  <2> QED
    BY <1>0, <2>2, <2>4 DEF ObInv, ObTypes, NamedInv, ReaderInv
<1>2. CASE ObRewrite
  <2>1. PICK f \in Contents \ {Log, ob.file} : ob' = [ob EXCEPT !.file = f, !.rewrites = @ + 1]
    BY <1>2 DEF ObRewrite
  <2>2. UNCHANGED <<obRemote, obLocal, obResult, rd>>
    BY <1>2 DEF ObRewrite
  <2>3. f \in Digests \ {Log} /\ f # 0
    BY <1>5
  <2>4. /\ ob' \in ObRecs /\ ob'.pc = ob.pc /\ ob'.sha = ob.sha /\ ob'.oid = ob.oid /\ ob'.file # 0
        /\ ob'.ok = ob.ok
    <3>1. PICK n \in Nat : ob' = [ob EXCEPT !.file = f, !.rewrites = n]
      <4>1. ob.rewrites + 1 \in Nat
        BY <1>0 DEF ObRecs
      <4> QED
        BY <2>1, <4>1
    <3> QED
      BY <1>0, <2>3, <3>1 DEF ObRecs
  <2> QED
    BY <1>0, <2>2, <2>4 DEF ObInv, ObTypes, NamedInv, ReaderInv
<1>3. CASE CollectArtifact
  <2>1. UNCHANGED <<obRemote, obLocal, obResult, rd>>
    BY <1>3 DEF CollectArtifact
  <2>2. ReaderInv' /\ (ob' \in ObRecs => ObTypes')
    BY <1>0, <2>1 DEF ReaderInv, ObTypes
  <2>3. CASE ob.pc = "stat" /\ ob' = [ob EXCEPT !.pc = IF ob.file # 0 /\ Fits(ob.file) THEN "hash" ELSE "upload"]
    <3>1. ob' \in ObRecs
      BY <1>0, <2>3 DEF ObRecs
    <3>2. NamedInv'
      BY <1>0, <2>1, <2>3 DEF ObRecs, NamedInv
    <3> QED
      BY <2>2, <3>1, <3>2 DEF ObInv
  <2>4. CASE ob.pc = "hash" /\ ob' = [ob EXCEPT !.pc = "digest", !.oid = ob.file]
    <3>1. ob' \in ObRecs
      BY <1>0, <2>4 DEF ObRecs
    <3>2. NamedInv'
      BY <1>0, <2>1, <2>4 DEF ObRecs, NamedInv
    <3> QED
      BY <2>2, <3>1, <3>2 DEF ObInv
  <2>5. CASE ob.pc = "digest" /\ ob' = [ob EXCEPT !.pc = "upload", !.sha = ob.file]
    <3>1. ob' \in ObRecs
      BY <1>0, <2>5 DEF ObRecs
    <3>2. NamedInv'
      BY <1>0, <2>1, <2>5 DEF ObRecs, NamedInv
    <3> QED
      BY <2>2, <3>1, <3>2 DEF ObInv
  <2> QED
    BY <1>3, <2>3, <2>4, <2>5 DEF CollectArtifact
<1>4. CASE PublishResult
  <2>1. ob' = [ob EXCEPT !.pc = "idle"] /\ ob.pc = "publish"
        /\ obResult' = [log |-> Log, artifact |-> IF ob.ok THEN ob.sha ELSE 0, oid |-> ob.oid]
        /\ UNCHANGED <<obRemote, obLocal, rd>>
    BY <1>4 DEF PublishResult
  <2>2. ob' \in ObRecs /\ obResult' \in [log : Digests, artifact : Digests, oid : Digests]
    BY <1>0, <1>5, <2>1 DEF ObRecs
  <2>3. NamedInv'
    BY <1>0, <2>1 DEF ObRecs, NamedInv
  <2> QED
    BY <1>0, <2>1, <2>2, <2>3 DEF ObInv, ObTypes, ReaderInv
<1> QED
  BY <1>1, <1>2, <1>3, <1>4

LEMMA ObUploads ==
    ASSUME ObInv, UploadObjects
    PROVE  ObInv'
<1> DEFINE refused == {c \in DOMAIN RunRefs : obRemote[RunnerActor][c] \notin {0, RunRefs[c]}}
           land(cs) == [obRemote EXCEPT ![RunnerActor] = [c \in Contents |-> IF c \in cs THEN RunRefs[c] ELSE @[c]]]
<1>1. ObTypes /\ NamedInv /\ ReaderInv
  BY DEF ObInv
<1>2. /\ DOMAIN RunRefs \subseteq Contents /\ \A c \in DOMAIN RunRefs : RunRefs[c] \in Digests
      /\ ob.sha # 0 => ob.sha \in DOMAIN RunRefs /\ RunRefs[ob.sha] = ob.oid
  <2>1. ob.sha \in Digests \ {Log} /\ ob.oid \in Digests
    BY <1>1 DEF ObTypes, ObRecs
  <2>2. Log \in Contents /\ Log \in Digests /\ Digests = Contents \cup {0}
    BY DEF Digests, Contents, Log
  <2> QED
    BY <2>1, <2>2 DEF RunRefs
<1>3. PICK cs \in SUBSET (DOMAIN RunRefs \ refused) : obRemote' = land(cs) /\ (ob'.ok => cs = DOMAIN RunRefs)
  <2>2. CASE obRemote' = land(DOMAIN RunRefs \ refused) /\ ob' = [ob EXCEPT !.pc = "publish", !.ok = (refused = {})]
    BY <1>1, <2>2 DEF ObTypes, ObRecs
  <2>3. CASE (obRemote' = land({}) \/ obRemote' = land(DOMAIN RunRefs \ refused))
             /\ ob' = [ob EXCEPT !.pc = "publish", !.ok = FALSE, !.faults = @ + 1]
    <3>1. ob'.ok = FALSE
      BY <1>1, <2>3 DEF ObTypes, ObRecs
    <3> HIDE DEF refused, land
    <3> QED
      BY <2>3, <3>1
  <2> QED
    BY <2>2, <2>3 DEF UploadObjects
<1>4. ob'.pc = "publish" /\ ob'.sha = ob.sha /\ ob'.oid = ob.oid /\ ob'.file = ob.file
  <2>1. \/ ob' = [ob EXCEPT !.pc = "publish", !.ok = (refused = {})]
        \/ ob' = [ob EXCEPT !.pc = "publish", !.ok = FALSE, !.faults = @ + 1]
    BY DEF UploadObjects
  <2> HIDE DEF refused
  <2> QED
    BY <1>1, <2>1 DEF ObTypes, ObRecs
<1>5. UNCHANGED <<obLocal, obResult, rd>>
  BY DEF UploadObjects
<1>6. RunnerActor \in CiActors
  BY DEF RunnerActor, CiActors
<1>7. \A c \in Contents : obRemote'[RunnerActor][c] = IF c \in cs THEN RunRefs[c] ELSE obRemote[RunnerActor][c]
  <2> HIDE DEF refused
  <2> QED
    BY <1>1, <1>3, <1>6 DEF ObTypes
<1>8. obRemote' \in [CiActors -> [Contents -> Digests]]
  <2> HIDE DEF refused
  <2> QED
    BY <1>1, <1>2, <1>3, <1>6 DEF ObTypes
<1>9. RefsStay
  BY <1>3, <1>7 DEF RefsStay
<1>10. ObTypes'
  <2>1. ob' \in ObRecs
    <3>1. \/ ob' = [ob EXCEPT !.pc = "publish", !.ok = (refused = {})]
          \/ ob' = [ob EXCEPT !.pc = "publish", !.ok = FALSE, !.faults = @ + 1]
      BY DEF UploadObjects
    <3>2. (refused = {}) \in BOOLEAN /\ ob \in ObRecs
      BY <1>1 DEF ObTypes
    <3>3. PICK ok \in BOOLEAN, n \in Nat : ob' = [ob EXCEPT !.pc = "publish", !.ok = ok, !.faults = n]
      <4> HIDE DEF refused
      <4>1. CASE ob' = [ob EXCEPT !.pc = "publish", !.ok = (refused = {})]
        <5>1. ob' = [ob EXCEPT !.pc = "publish", !.ok = (refused = {}), !.faults = ob.faults] /\ ob.faults \in Nat
          BY <3>2, <4>1 DEF ObRecs
        <5> QED
          BY <3>2, <5>1
      <4>2. CASE ob' = [ob EXCEPT !.pc = "publish", !.ok = FALSE, !.faults = @ + 1]
        <5>1. ob.faults + 1 \in Nat
          BY <3>2 DEF ObRecs
        <5> QED
          BY <4>2, <5>1
      <4> QED
        BY <3>1, <4>1, <4>2
    <3> QED
      BY <3>2, <3>3 DEF ObRecs
  <2> QED
    BY <1>1, <1>5, <1>8, <2>1 DEF ObTypes
<1>11. NamedInv'
  <2>1. ob'.ok /\ ob.sha # 0 => obRemote'[RunnerActor][ob.sha] = ob.oid
    <3> HIDE DEF refused
    <3> QED
      BY <1>2, <1>3, <1>7
  <2>2. obResult.artifact # 0 => obRemote'[RunnerActor][obResult.artifact] = obResult.oid
    <3>1. obResult.artifact # 0 => obResult.artifact \in Contents
      BY <1>1 DEF ObTypes, Digests
    <3> QED
      BY <1>1, <1>9, <3>1 DEF NamedInv, RefsStay
  <2> QED
    BY <1>1, <1>4, <1>5, <2>1, <2>2 DEF NamedInv
<1>12. ReaderInv'
  <2>1. rd.there => obRemote'[RunnerActor][rd.sha] = rd.sha
    <3>1. rd.there => rd.sha \in Contents
      BY <1>1 DEF ObTypes, Digests, ReaderInv
    <3> QED
      BY <1>1, <1>9, <3>1 DEF ReaderInv, RefsStay
  <2> QED
    BY <1>1, <1>5, <2>1 DEF ReaderInv
<1> QED
  BY <1>10, <1>11, <1>12 DEF ObInv

LEMMA ObShadowed ==
    ASSUME ObInv, Shadows
    PROVE  ObInv'
<1>1. ObTypes /\ NamedInv /\ ReaderInv
  BY DEF ObInv
<1>2. PICK c \in Contents, o \in Contents :
          /\ obRemote' = [obRemote EXCEPT ![2][c] = o]
          /\ obLocal' \in {obLocal, [obLocal EXCEPT ![2][c] = o]}
  BY DEF Shadows
<1>3. ob' = [ob EXCEPT !.shadows = @ + 1] /\ UNCHANGED <<obResult, rd>>
  BY DEF Shadows
<1>4. obRemote'[RunnerActor] = obRemote[RunnerActor] /\ obLocal'[RunnerActor] = obLocal[RunnerActor]
  BY <1>1, <1>2 DEF ObTypes, RunnerActor, CiActors
<1>5. ObTypes'
  <2>1. obRemote' \in [CiActors -> [Contents -> Digests]] /\ obLocal' \in [CiActors -> [Contents -> Digests]]
    BY <1>1, <1>2 DEF ObTypes, CiActors, Digests
  <2>2. ob' \in ObRecs
    BY <1>1, <1>3 DEF ObTypes, ObRecs
  <2> QED
    BY <1>1, <1>3, <2>1, <2>2 DEF ObTypes
<1>6. NamedInv'
  BY <1>1, <1>3, <1>4 DEF ObTypes, ObRecs, NamedInv
<1>7. ReaderInv'
  BY <1>1, <1>3, <1>4 DEF ReaderInv
<1> QED
  BY <1>5, <1>6, <1>7 DEF ObInv

LEMMA ObReads ==
    ASSUME ObInv, ReadStarts \/ ReadLocal \/ HeadSize \/ FetchArtifact \/ WebGet
    PROVE  ObInv'
<1>1. ObTypes /\ NamedInv /\ ReaderInv
  BY DEF ObInv
<1>2. RunnerActor \in CiActors /\ 0 \in Digests /\ Contents \subseteq Digests /\ 0 \notin Contents
  BY DEF RunnerActor, CiActors, Digests, Contents
<1>3. CASE ReadStarts
  <2>1. ObTypes'
    BY <1>1, <1>2, <1>3 DEF ReadStarts, ObTypes
  <2>2. NamedInv'
    BY <1>1, <1>3 DEF ReadStarts, NamedInv
  <2>3. ReaderInv'
    <3>1. PICK c \in {obResult.log, obResult.artifact} \ {0} :
              rd' = [pc |-> "local", sha |-> c, got |-> 0, there |-> obRemote[RunnerActor][c] = c /\ Fits(c)]
      BY <1>3 DEF ReadStarts
    <3>2. /\ rd'.pc = "local" /\ rd'.sha = c /\ rd'.got = 0 /\ c # 0
          /\ rd'.there <=> obRemote[RunnerActor][c] = c /\ Fits(c)
      BY <3>1
    <3>3. UNCHANGED obRemote
      BY <1>3 DEF ReadStarts
    <3> QED
      BY <3>2, <3>3 DEF ReaderInv
  <2> QED
    BY <2>1, <2>2, <2>3 DEF ObInv
<1>4. CASE ReadLocal
  <2>0. rd.pc \in {"local", "again"} /\ rd.sha \in Contents /\ rd.got = 0
    BY <1>1, <1>4 DEF ReadLocal, ReaderInv, ObTypes, Digests
  <2>1. ObTypes'
    BY <1>1, <1>2, <1>4 DEF ReadLocal, ObTypes
  <2>2. NamedInv'
    BY <1>1, <1>4 DEF ReadLocal, NamedInv
  <2>3. ReaderInv'
    <3>1. Verified(obLocal, rd.sha) => Fits(rd.sha)
      BY DEF Verified
    <3>2. rd.there /\ rd.pc = "again" => Verified(obLocal, rd.sha)
      BY <1>1, <1>2, <2>0 DEF ReaderInv, Verified, Candidates
    <3> QED
      BY <1>1, <1>4, <2>0, <3>1, <3>2 DEF ReadLocal, ReaderInv, ObTypes
  <2> QED
    BY <2>1, <2>2, <2>3 DEF ObInv
<1>5. CASE HeadSize
  <2>1. ObTypes'
    BY <1>1, <1>5 DEF HeadSize, ObTypes
  <2>2. NamedInv'
    BY <1>1, <1>5 DEF HeadSize, NamedInv
  <2>3. ReaderInv'
    <3>1. rd.there => SizeAnswer(obRemote[RunnerActor][rd.sha]) = 200
      BY <1>1, <1>5 DEF SizeAnswer, ReaderInv
    <3> QED
      BY <1>1, <1>5, <3>1 DEF HeadSize, ReaderInv, ObTypes
  <2> QED
    BY <2>1, <2>2, <2>3 DEF ObInv
<1>6. CASE FetchArtifact
  <2>0. rd.sha \in Contents
    BY <1>1, <1>6 DEF FetchArtifact, ReaderInv, ObTypes, Digests
  <2>1. ObTypes'
    BY <1>1, <1>2, <1>6, <2>0 DEF FetchArtifact, ObTypes
  <2>2. NamedInv'
    BY <1>1, <1>6 DEF FetchArtifact, NamedInv
  <2>3. obLocal'[RunnerActor][rd.sha] = obRemote[RunnerActor][rd.sha]
    BY <1>1, <1>2, <1>6, <2>0 DEF FetchArtifact, ObTypes
  <2>4. ReaderInv'
    BY <1>1, <1>6, <2>0, <2>3 DEF FetchArtifact, ReaderInv, ObTypes
  <2> QED
    BY <2>1, <2>2, <2>4 DEF ObInv
<1>7. CASE WebGet
  <2>1. PICK c \in {obResult.log, obResult.artifact} \ {0} :
            rd' = [pc |-> "done", sha |-> c, got |-> IF Verified(obRemote, c) THEN c ELSE 0,
                   there |-> obRemote[RunnerActor][c] = c /\ Fits(c)]
    BY <1>7 DEF WebGet
  <2>2. UNCHANGED <<ob, obRemote, obLocal, obResult>>
    BY <1>7 DEF WebGet
  <2>3. ObTypes'
    BY <1>1, <1>2, <2>1, <2>2 DEF ObTypes
  <2>4. NamedInv'
    BY <1>1, <2>2 DEF NamedInv
  <2>5. ReaderInv'
    <3>1. Verified(obRemote, c) => Fits(c)
      BY DEF Verified
    <3>2. c # 0 /\ (obRemote[RunnerActor][c] = c /\ Fits(c) => Verified(obRemote, c))
      BY <1>2, <2>1 DEF Verified, Candidates
    <3> QED
      BY <2>1, <2>2, <3>1, <3>2 DEF ReaderInv
  <2> QED
    BY <2>3, <2>4, <2>5 DEF ObInv
<1> QED
  BY <1>3, <1>4, <1>5, <1>6, <1>7

\* ci_cmd.rs and the endpoints of api.rs, for any processes, bytes, reads, runs, rewritten
\* files, failed pushes and refs of others: the log of a run is the end of all that was
\* written, and a reader ends with the bytes a result names, or with none.
THEOREM CommandsAreSound == CommandSpec => []CommandSound
<1>1. CommandInit => CmdInv /\ ObInv
  <2> SUFFICES ASSUME CommandInit PROVE CmdInv /\ ObInv
    OBVIOUS
  <2>1. <<>> \in Seq(Nat) /\ Len(<<>>) = 0
    BY EmptySeq
  <2>2. CmdTypes
    BY <2>1 DEF CommandInit, NewCommand, CmdTypes, Procs, Pipes
  <2>3. TailInv
    <3>1. LogMax \in Nat
      BY CommandAssumption
    <3>2. Beyond(0) = 0
      BY <3>1 DEF Beyond
    <3>3. SubSeq(<<>>, 1, 0) = <<>>
      BY SubSeqEmpty
    <3> QED
      <4>1. cmd.log = <<>> /\ cmd.read = <<>> /\ cmd.truncated = FALSE
        BY DEF CommandInit, NewCommand
      <4>2. LastOf(<<>>) = <<>>
        BY <2>1, <3>2, <3>3 DEF LastOf
      <4>3. (Len(cmd.read) > LogMax) = FALSE
        BY <2>1, <3>1, <4>1
      <4> QED
        BY <4>1, <4>2, <4>3 DEF TailInv
  <2>4. ByteInv
    BY <2>1 DEF CommandInit, NewCommand, ByteInv, Bytes, Pipes
  <2>5. EndInv
    BY DEF CommandInit, NewCommand, EndInv
  <2>6. ObTypes
    <3>1. 0 \in Digests \ {Log} /\ 0 \in Digests
      BY DEF Digests, Log
    <3>2. ob \in ObRecs
      BY <3>1 DEF CommandInit, RunnerAtRest, ObRecs
    <3>3. obRemote \in [CiActors -> [Contents -> Digests]] /\ obLocal \in [CiActors -> [Contents -> Digests]]
      BY <3>1 DEF CommandInit, NoObjects
    <3> QED
      BY <3>1, <3>2, <3>3 DEF CommandInit, NotReading, ObTypes
  <2>7. NamedInv /\ ReaderInv
    BY DEF CommandInit, RunnerAtRest, NoObjects, NotReading, NamedInv, ReaderInv
  <2> QED
    BY <2>2, <2>3, <2>4, <2>5, <2>6, <2>7 DEF CmdInv, ObInv
<1>2. CmdInv /\ ObInv /\ [CommandNext \/ ObjectsNext]_commandVars => (CmdInv /\ ObInv)'
  <2> SUFFICES ASSUME CmdInv, ObInv, [CommandNext \/ ObjectsNext]_commandVars
               PROVE  CmdInv' /\ ObInv'
    OBVIOUS
  <2>1. ASSUME UNCHANGED cmd PROVE CmdInv'
    BY <2>1 DEF CmdInv, CmdTypes, TailInv, ByteInv, EndInv
  <2>2. ASSUME UNCHANGED <<ob, obRemote, obLocal, obResult, rd>> PROVE ObInv'
    BY <2>2 DEF ObInv, ObTypes, NamedInv, ReaderInv
  <2>3. CASE CommandNext
    BY <2>2, <2>3, CmdProcs, CmdRunner, CmdWrites, CmdReads DEF CommandNext
  <2>4. CASE ObjectsNext
    BY <2>1, <2>4, ObCollects, ObUploads, ObShadowed, ObReads DEF ObjectsNext
  <2>5. CASE UNCHANGED commandVars
    BY <2>1, <2>2, <2>5 DEF commandVars
  <2> QED
    BY <2>3, <2>4, <2>5
<1>3. CmdInv /\ ObInv => CommandSound
  <2>1. ObInv => ObjectsServed
    BY DEF ObInv, NamedInv, ReaderInv, ObjectsServed
  <2> QED
    BY <2>1, LogFrom DEF CommandSound
<1> QED
  BY <1>1, <1>2, <1>3, PTL DEF CommandSpec
=============================================================================
