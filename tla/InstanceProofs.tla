--------------------------- MODULE InstanceProofs ---------------------------
(***************************************************************************)
(* What one serving instance promises.                                     *)
(*                                                                         *)
(* Receive, for any clients, pushes, refs, histories and policies, with or *)
(* without a broker: the inductive invariant ReceiveInv says where a       *)
(* request can be (HopInv), that what waits to be published was cleared by *)
(* the rules it was judged by, and what the client was told of what landed *)
(* (Stories).                                                              *)
(*                                                                         *)
(* PackCopy, for any packs, requests and writers: the inductive invariant  *)
(* PackInv says that manifests are one line on which objects are only      *)
(* gained (LineInv), who is behind whom (RevInv), who holds which lock     *)
(* (LockInv), what a reconciliation has and has still to fetch (PhaseInv), *)
(* and what a guard, a staged pack and a copy that counts as ready are     *)
(* owed (GuardInv, StageInv, ReadyInv).                                    *)
(*                                                                         *)
(* Adverts, for any number of refs, entries, clients and repairs: the      *)
(* inductive invariant AdInv says that the ref files, and a parse of them  *)
(* that is current, are never behind the entry that Level names            *)
(* (FilesInv), that what a request has read so far is not behind the       *)
(* version it read before, as long as that is the version of the copy and  *)
(* nothing took the refs back (Shown), so that the advert of the newest    *)
(* version is good; and that a commit which finds its place taken by a     *)
(* sync has spoilt whoever reads, and one which does not brings a version  *)
(* nobody has seen (LateInv).                                              *)
(***************************************************************************)
EXTENDS Receive, PackCopy, Adverts, TLAPS, FiniteSetTheorems, NaturalsInduction, WellFoundedInduction

(***************************************************************************)
(* Receive: the inductive invariant.                                       *)
(***************************************************************************)

RunPcs == {"none", "ingest", "connectivity", "policy", "publish", "done"}
AllObjs == {1} \cup UNION {p.objs : p \in Pushes \cup {NoPush}}
AllNames == UNION {DOMAIN p.txn : p \in Pushes \cup {NoPush}}
RunRecs == [pc : RunPcs, has : SUBSET AllObjs, rules : Policies \cup {{}}, denied : SUBSET AllNames]

Tips == {0, 1} \cup {p.txn[b].new : p \in Pushes, b \in AllNames}
LandedRecs == [client : Clients, refs : SUBSET AllNames, was : [Names -> Tips], rules : Policies \cup {{}}]

RcvTypes ==
    /\ tipOf \in [Names -> Tips] /\ landed \in Seq(LandedRecs)
    /\ stored \subseteq AllObjs /\ doc \in Policies \cup {{}}
    /\ push \in [Clients -> Pushes \cup {NoPush}]
    /\ run \in [Clients -> [Where -> RunRecs]]
    /\ hop \in [Clients -> {"none", "sent", "given up", "answered"}]
    /\ told = [c \in Clients |-> told[c]]

Landed(c) == \E k \in DOMAIN landed : landed[k].client = c

\* Where the request of c is.
HopInv(c) ==
    /\ push[c] = NoPush => hop[c] = "none" /\ run[c]["front"].pc = "none" /\ DOMAIN told[c] = {} /\ ~Landed(c)
    /\ hop[c] = "none" => run[c]["broker"].pc = "none" /\ (Landed(c) => run[c]["front"].pc = "done")
    /\ hop[c] = "sent" => run[c]["front"].pc = "none" /\ run[c]["broker"].pc # "done" /\ ~Landed(c)
    /\ hop[c] = "answered" => run[c]["front"].pc = "none" /\ run[c]["broker"].pc = "done"

\* The refs of p that are not denied pass the rules, judged by the old values that p names.
Cleared(p, rules, denied) ==
    /\ \A b \in DOMAIN p.txn \ denied :
          ~deny_reason(rules, p.who, b, p.txn[b], p.txn[b].old \notin ancestry[p.txn[b].new])
    /\ p.atomic => denied = {}

LandedRefs(c) == UNION {landed[k].refs : k \in {j \in DOMAIN landed : landed[j].client = c}}

\* ReportTrue for one client: its push, its hop, what it was told and the refs that landed.
StoryTrue(p, h, t, refs) ==
    \A b \in DOMAIN t :
        /\ t[b] = "ok" => b \in refs \/ (p.atomic /\ \E o \in DOMAIN t : t[o] = "refused")
        /\ t[b] = "refused" => b \notin refs \/ h = "given up"

Stories == \A c \in Clients : StoryTrue(push[c], hop[c], told[c], LandedRefs(c))

ReceiveInv ==
    /\ RcvTypes
    /\ \A c \in Clients : HopInv(c)
    /\ \A c \in Clients, w \in Where :
          run[c][w].pc = "publish" => Cleared(push[c], run[c][w].rules, run[c][w].denied)
    /\ Stories /\ PushesGuarded

(***************************************************************************)
(* Receive: the steps.                                                     *)
(***************************************************************************)

\* A rule that stops an update stops it when it is forced as well.
LEMMA ForceHits ==
    ASSUME NEW op, NEW f, NEW g, f => g
    PROVE  Hits(op, f) \subseteq Hits(op, g)
<1>1. CASE op = "noop"
  BY <1>1 DEF Hits
<1>2. CASE op # "noop" /\ op = "update"
  BY <1>2 DEF Hits
<1>3. CASE op # "noop" /\ op # "update"
  BY <1>3 DEF Hits
<1> QED
  BY <1>1, <1>2, <1>3

\* deny_reason looks at the two values of an update and no further.
LEMMA DenyMore ==
    ASSUME NEW rules, NEW who, NEW b, NEW u, NEW v, u.old = v.old, u.new = v.new, NEW f, NEW g, f => g,
           deny_reason(rules, who, b, u, f)
    PROVE  deny_reason(rules, who, b, v, g)
<1>1. classify(u) = classify(v)
  BY DEF classify
<1>2. (f \/ b \in Tags) => (g \/ b \in Tags)
  OBVIOUS
<1>3. Hits(classify(u), f \/ b \in Tags) \subseteq Hits(classify(v), g \/ b \in Tags)
  BY <1>1, <1>2, ForceHits
<1> QED
  BY <1>3 DEF deny_reason

\* What happens to the request of one client leaves the others alone.
LEMMA OtherClients ==
    ASSUME ReceiveInv, NEW c \in Clients, NEW d \in Clients, d # c, push'[d] = push[d], run'[d] = run[d],
           hop'[d] = hop[d], told'[d] = told[d], Landed(d)' <=> Landed(d)
    PROVE  HopInv(d)' /\ \A w \in Where : (run[d][w].pc = "publish" =>
                                             Cleared(push[d], run[d][w].rules, run[d][w].denied))'
<1> HIDE DEF Landed, Cleared
<1>1. HopInv(d)'
  BY DEF ReceiveInv, HopInv
<1>2. ASSUME NEW p, NEW rules, NEW denied, Cleared(p, rules, denied) PROVE Cleared(p, rules, denied)
  BY <1>2
<1> QED
  BY <1>1 DEF ReceiveInv

\* A run takes its place among the others.
LEMMA RunSet ==
    ASSUME RcvTypes, NEW c \in Clients, NEW w \in Where, NEW q \in RunRecs, run' = [run EXCEPT ![c][w] = q]
    PROVE  /\ run' \in [Clients -> [Where -> RunRecs]] /\ run'[c][w] = q
           /\ \A v \in Where : v # w => run'[c][v] = run[c][v]
           /\ \A d \in Clients : d # c => run'[d] = run[d]
BY DEF RcvTypes

\* A handler at its first step.
LEMMA FirstRun == [NoRun EXCEPT !.pc = "ingest"] \in RunRecs /\ [NoRun EXCEPT !.pc = "ingest"].pc = "ingest"
BY DEF NoRun, RunRecs, RunPcs

\* ReportTrue is about each client's story.
LEMMA StoryForm ==
    ASSUME Stories
    PROVE  ReportTrue
<1> SUFFICES ASSUME NEW c \in Clients, NEW b \in DOMAIN told[c]
             PROVE  /\ told[c][b] = "ok" =>
                          \/ LandedBy(c, b)
                          \/ push[c].atomic /\ \E o \in DOMAIN told[c] : told[c][o] = "refused"
                    /\ told[c][b] = "refused" => ~LandedBy(c, b) \/ hop[c] = "given up"
  BY DEF ReportTrue
<1>1. LandedBy(c, b) <=> b \in LandedRefs(c)
  BY DEF LandedBy, LandedRefs
<1>2. StoryTrue(push[c], hop[c], told[c], LandedRefs(c))
  BY DEF Stories
<1> QED
  BY <1>1, <1>2 DEF StoryTrue

\* Nothing is told and nothing lands.
LEMMA SameStory ==
    ASSUME UNCHANGED <<push, hop, told, landed>>, Stories, PushesGuarded
    PROVE  Stories' /\ PushesGuarded'
<1>1. push' = push /\ hop' = hop /\ told' = told /\ landed' = landed
  OBVIOUS
<1>2. \A c : LandedRefs(c)' = LandedRefs(c)
  BY <1>1 DEF LandedRefs
<1>3. Stories'
  BY <1>1, <1>2 DEF Stories
<1>4. PushesGuarded'
  BY <1>1 DEF PushesGuarded, Txn
<1> QED
  BY <1>3, <1>4

\* A run that goes on says nothing to the client.
LEMMA RunGoesOn ==
    ASSUME ReceiveInv, NEW c \in Clients, NEW w \in Where, NEW q \in RunRecs, run' = [run EXCEPT ![c][w] = q],
           run[c][w].pc \in {"ingest", "connectivity", "policy"}, q.pc \in {"connectivity", "policy", "publish"},
           q.pc = "publish" => Cleared(push[c], q.rules, q.denied),
           UNCHANGED <<tipOf, stored, doc, push, told, hop, landed>>
    PROVE  ReceiveInv'
<1>0. RcvTypes
  BY DEF ReceiveInv
<1>1. /\ run' \in [Clients -> [Where -> RunRecs]] /\ run'[c][w] = q
      /\ \A v \in Where : v # w => run'[c][v] = run[c][v]
      /\ \A d \in Clients : d # c => run'[d] = run[d]
  BY <1>0, RunSet
<1>2. RcvTypes'
  BY <1>0, <1>1 DEF RcvTypes
<1>3. \A d \in Clients : Landed(d)' <=> Landed(d)
  BY DEF Landed
<1>4. HopInv(c)'
  <2>1. HopInv(c)
    BY DEF ReceiveInv
  <2>2. \A v \in Where : /\ run[c][v].pc = "none" => run'[c][v].pc = "none"
                         /\ run[c][v].pc = "done" <=> run'[c][v].pc = "done"
    BY <1>1
  <2> QED
    BY <1>3, <2>1, <2>2 DEF HopInv, Where
<1>5. ASSUME NEW v \in Where, run'[c][v].pc = "publish"
      PROVE  Cleared(push[c], run'[c][v].rules, run'[c][v].denied)
  BY <1>1, <1>5 DEF ReceiveInv
<1>6. ASSUME NEW d \in Clients, d # c
      PROVE  HopInv(d)' /\ \A v \in Where : (run[d][v].pc = "publish" =>
                                              Cleared(push[d], run[d][v].rules, run[d][v].denied))'
  BY <1>1, <1>3, <1>6, OtherClients
<1>7. Stories' /\ PushesGuarded'
  BY SameStory DEF ReceiveInv
<1> QED
  BY <1>2, <1>4, <1>5, <1>6, <1>7 DEF ReceiveInv

\* A run at work is where the hop says, and before it ends nothing of the request has landed
\* unless the front gave up on the broker.
LEMMA AtWork ==
    ASSUME ReceiveInv, NEW c \in Clients, NEW w \in Where, run[c][w].pc \notin {"none", "done"}
    PROVE  /\ push[c] # NoPush /\ push[c] \in Pushes
           /\ w = "front" => hop[c] \in {"none", "given up"}
           /\ w = "broker" => hop[c] \in {"sent", "given up"}
           /\ hop[c] # "given up" => ~Landed(c) /\ LandedRefs(c) = {}
<1>1. HopInv(c) /\ RcvTypes
  BY DEF ReceiveInv
<1>2. /\ w = "front" => hop[c] \in {"none", "given up"}
      /\ w = "broker" => hop[c] \in {"sent", "given up"}
      /\ push[c] # NoPush
  BY <1>1 DEF HopInv, RcvTypes, Where
<1>3. hop[c] # "given up" => ~Landed(c)
  BY <1>1, <1>2 DEF HopInv, Where
<1>4. ~Landed(c) => LandedRefs(c) = {}
  BY DEF Landed, LandedRefs
<1>5. push[c] \in Pushes
  BY <1>1, <1>2 DEF RcvTypes
<1> QED
  BY <1>2, <1>3, <1>4, <1>5

\* The end of a run: what it tells the client is true of what has landed by then.
LEMMA ReportMoves ==
    ASSUME ReceiveInv, NEW c \in Clients, NEW w \in Where, NEW t, Report(c, w, t),
           run[c][w].pc \notin {"none", "done"}, push' = push,
           \A d \in Clients : d # c => (Landed(d)' <=> Landed(d)) /\ LandedRefs(d)' = LandedRefs(d),
           LandedRefs(c) \subseteq LandedRefs(c)',
           \A b \in DOMAIN t : t[b] = "ok" =>
               b \in LandedRefs(c)' \/ (push[c].atomic /\ \E o \in DOMAIN t : t[o] = "refused"),
           \A b \in DOMAIN t : t[b] = "refused" => b \notin LandedRefs(c)' \/ hop[c] = "given up"
    PROVE  /\ run' \in [Clients -> [Where -> RunRecs]]
           /\ hop' \in [Clients -> {"none", "sent", "given up", "answered"}]
           /\ told' = [d \in Clients |-> told'[d]]
           /\ \A d \in Clients : HopInv(d)'
           /\ \A d \in Clients, v \in Where :
                 run'[d][v].pc = "publish" => Cleared(push[d], run'[d][v].rules, run'[d][v].denied)
           /\ Stories'
<1>0. RcvTypes /\ HopInv(c)
  BY DEF ReceiveInv
<1> DEFINE q == [NoRun EXCEPT !.pc = "done"]
<1>1. q \in RunRecs /\ q.pc = "done"
  BY DEF NoRun, RunRecs, RunPcs
<1>2. run' = [run EXCEPT ![c][w] = q]
  BY DEF Report
<1> HIDE DEF q
<1>3. /\ run' \in [Clients -> [Where -> RunRecs]] /\ run'[c][w] = q
      /\ \A v \in Where : v # w => run'[c][v] = run[c][v]
      /\ \A d \in Clients : d # c => run'[d] = run[d]
  BY <1>0, <1>1, <1>2, RunSet
<1>4. /\ hop' \in [Clients -> {"none", "sent", "given up", "answered"}]
      /\ hop'[c] = IF hop[c] = "sent" THEN "answered" ELSE hop[c]
      /\ \A d \in Clients : d # c => hop'[d] = hop[d]
  BY <1>0 DEF Report, RcvTypes
<1>5. /\ told' = [d \in Clients |-> told'[d]]
      /\ told'[c] = IF w = "front" \/ hop[c] = "sent" THEN t ELSE told[c]
      /\ \A d \in Clients : d # c => told'[d] = told[d]
  <2>1. CASE w = "front" \/ hop[c] = "sent"
    <3>1. told' = [told EXCEPT ![c] = t]
      BY <2>1 DEF Report
    <3> QED
      BY <1>0, <2>1, <3>1 DEF RcvTypes
  <2>2. CASE ~(w = "front" \/ hop[c] = "sent")
    <3>1. told' = told
      BY <2>2 DEF Report
    <3> QED
      BY <1>0, <2>2, <3>1 DEF RcvTypes
  <2> QED
    BY <2>1, <2>2
<1>6. /\ push[c] # NoPush
      /\ w = "front" => hop[c] \in {"none", "given up"}
      /\ w = "broker" => hop[c] \in {"sent", "given up"}
  BY AtWork
<1>7. HopInv(c)'
  <2>1. push'[c] # NoPush
    BY <1>6
  <2>2. CASE w = "front"
    BY <1>0, <1>1, <1>3, <1>4, <1>6, <2>1, <2>2 DEF HopInv, Where
  <2>3. CASE w = "broker"
    BY <1>0, <1>1, <1>3, <1>4, <1>6, <2>1, <2>3 DEF HopInv, Where
  <2> QED
    BY <2>2, <2>3 DEF Where
<1>8. ASSUME NEW v \in Where, run'[c][v].pc = "publish"
      PROVE  Cleared(push[c], run'[c][v].rules, run'[c][v].denied)
  BY <1>1, <1>3, <1>8 DEF ReceiveInv
<1>9. ASSUME NEW d \in Clients, d # c
      PROVE  HopInv(d)' /\ \A v \in Where : (run[d][v].pc = "publish" =>
                                              Cleared(push[d], run[d][v].rules, run[d][v].denied))'
  BY <1>3, <1>4, <1>5, <1>9, OtherClients
<1>10. StoryTrue(push[c], hop'[c], told'[c], LandedRefs(c)')
  <2>1. StoryTrue(push[c], hop[c], told[c], LandedRefs(c))
    BY DEF ReceiveInv, Stories
  <2>2. hop[c] = "given up" => hop'[c] = "given up"
    BY <1>4
  <2>3. CASE w = "front" \/ hop[c] = "sent"
    <3>1. told'[c] = t
      BY <1>5, <2>3
    <3>2. PICK L : L = LandedRefs(c)'
      OBVIOUS
    <3>3. PICK h : h = hop'[c]
      OBVIOUS
    <3>4. \A b \in DOMAIN t : t[b] = "ok" =>
              b \in L \/ (push[c].atomic /\ \E o \in DOMAIN t : t[o] = "refused")
      BY <3>2
    <3>5. \A b \in DOMAIN t : t[b] = "refused" => b \notin L \/ h = "given up"
      BY <2>2, <3>2, <3>3
    <3>6. StoryTrue(push[c], h, t, L)
      BY <3>4, <3>5 DEF StoryTrue
    <3> QED
      BY <3>1, <3>2, <3>3, <3>6
  <2>4. CASE ~(w = "front" \/ hop[c] = "sent")
    <3>1. hop'[c] = "given up" /\ told'[c] = told[c]
      BY <1>4, <1>5, <1>6, <2>4 DEF Where
    <3> QED
      BY <2>1, <3>1 DEF StoryTrue
  <2> QED
    BY <2>3, <2>4
<1>11. Stories'
  <2>1. ASSUME NEW d \in Clients PROVE StoryTrue(push[d], hop'[d], told'[d], LandedRefs(d)')
    <3>1. CASE d = c
      BY <1>10, <3>1
    <3>2. CASE d # c
      <4>1. StoryTrue(push[d], hop[d], told[d], LandedRefs(d))
        BY DEF ReceiveInv, Stories
      <4> QED
        BY <1>4, <1>5, <3>2, <4>1
    <3> QED
      BY <3>1, <3>2
  <2> QED
    BY <2>1 DEF Stories
<1> QED
  BY <1>3, <1>4, <1>5, <1>7, <1>8, <1>9, <1>11

\* A run that ends without a commit.
LEMMA RunEnds ==
    ASSUME ReceiveInv, NEW c \in Clients, NEW w \in Where, NEW t, Report(c, w, t),
           run[c][w].pc \notin {"none", "done"}, UNCHANGED <<tipOf, stored, doc, push, landed>>,
           \A b \in DOMAIN t : t[b] = "ok" => push[c].atomic /\ \E o \in DOMAIN t : t[o] = "refused"
    PROVE  ReceiveInv'
<1>1. \A d \in Clients : (Landed(d)' <=> Landed(d)) /\ LandedRefs(d)' = LandedRefs(d)
  BY DEF Landed, LandedRefs
<1>2. \A b \in DOMAIN t : t[b] = "refused" => b \notin LandedRefs(c)' \/ hop[c] = "given up"
  BY <1>1, AtWork
<1>3. /\ run' \in [Clients -> [Where -> RunRecs]]
      /\ hop' \in [Clients -> {"none", "sent", "given up", "answered"}]
      /\ told' = [d \in Clients |-> told'[d]]
      /\ \A d \in Clients : HopInv(d)'
      /\ \A d \in Clients, v \in Where :
            run'[d][v].pc = "publish" => Cleared(push[d], run'[d][v].rules, run'[d][v].denied)
      /\ Stories'
  BY <1>1, <1>2, ReportMoves
<1>4. RcvTypes'
  BY <1>3 DEF ReceiveInv, RcvTypes
<1>5. PushesGuarded'
  <2>1. landed' = landed /\ push' = push
    OBVIOUS
  <2> QED
    BY <2>1 DEF ReceiveInv, PushesGuarded, Txn
<1> QED
  BY <1>3, <1>4, <1>5 DEF ReceiveInv

\* A request arrives: nothing of it has been told or has landed.
LEMMA PushArrives ==
    ASSUME ReceiveAssumption, ReceiveInv, NEW c \in Clients, RefusePush(c) \/ AcceptPush(c)
    PROVE  ReceiveInv'
<1>0. RcvTypes /\ HopInv(c)
  BY DEF ReceiveInv
<1>1. /\ push[c] = NoPush /\ hop[c] = "none" /\ run[c]["front"].pc = "none" /\ run[c]["broker"].pc = "none"
      /\ DOMAIN told[c] = {} /\ ~Landed(c)
  BY <1>0 DEF RefusePush, AcceptPush, HopInv
<1>2. PICK p \in Pushes : push' = [push EXCEPT ![c] = p]
  BY DEF RefusePush, AcceptPush
<1>3. /\ push' \in [Clients -> Pushes \cup {NoPush}] /\ push'[c] = p /\ p # NoPush
      /\ \A d \in Clients : d # c => push'[d] = push[d]
  BY <1>0, <1>2 DEF RcvTypes, ReceiveAssumption
<1>4. UNCHANGED <<tipOf, stored, doc, landed>>
  BY DEF RefusePush, AcceptPush
<1>5. \A d \in Clients : (Landed(d)' <=> Landed(d)) /\ LandedRefs(d)' = LandedRefs(d)
  BY <1>4 DEF Landed, LandedRefs
<1>6. LandedRefs(c) = {}
  BY <1>1 DEF Landed, LandedRefs
<1>7. PushesGuarded'
  <2>1. \A k \in DOMAIN landed : landed[k].client # c /\ landed[k].client \in Clients
    <3>1. \A k \in DOMAIN landed : landed[k] \in LandedRecs
      <4>1. landed \in Seq(LandedRecs)
        BY <1>0 DEF RcvTypes
      <4> QED
        BY <4>1
    <3> QED
      BY <1>1, <3>1 DEF Landed, LandedRecs
  <2>2. \A k \in DOMAIN landed : push'[landed[k].client] = push[landed[k].client]
    BY <1>3, <2>1
  <2> QED
    BY <1>4, <2>2 DEF ReceiveInv, PushesGuarded, Txn
<1>8. CASE RefusePush(c)
  <2>1. run' = run /\ hop' = hop /\ told' = [told EXCEPT ![c] = [b \in DOMAIN push'[c].txn |-> "refused"]]
    BY <1>8 DEF RefusePush
  <2>2. /\ told' = [d \in Clients |-> told'[d]] /\ told'[c] = [b \in DOMAIN p.txn |-> "refused"]
        /\ \A d \in Clients : d # c => told'[d] = told[d]
    BY <1>0, <1>3, <2>1 DEF RcvTypes
  <2>3. HopInv(c)'
    BY <1>1, <1>3, <1>5, <2>1 DEF HopInv
  <2>4. ASSUME NEW d \in Clients, d # c
        PROVE  HopInv(d)' /\ \A v \in Where : (run[d][v].pc = "publish" =>
                                                Cleared(push[d], run[d][v].rules, run[d][v].denied))'
    BY <1>3, <1>5, <2>1, <2>2, <2>4, OtherClients
  <2>5. \A v \in Where : run'[c][v].pc # "publish"
    BY <1>1, <2>1 DEF Where
  <2>6. Stories'
    <3>1. StoryTrue(p, hop[c], [b \in DOMAIN p.txn |-> "refused"], {})
      BY DEF StoryTrue
    <3>2. \A d \in Clients : StoryTrue(push[d], hop[d], told[d], LandedRefs(d))
      BY DEF ReceiveInv, Stories
    <3>3. \A d \in Clients : StoryTrue(push'[d], hop'[d], told'[d], LandedRefs(d)')
      BY <1>3, <1>5, <1>6, <2>1, <2>2, <3>1, <3>2
    <3> QED
      BY <3>3 DEF Stories
  <2>7. RcvTypes'
    BY <1>0, <1>3, <1>4, <2>1, <2>2 DEF RcvTypes
  <2> QED
    BY <1>7, <2>3, <2>4, <2>5, <2>6, <2>7 DEF ReceiveInv
<1>9. CASE AcceptPush(c)
  <2>1. told' = told /\ hop' = [hop EXCEPT ![c] = IF Broker THEN "sent" ELSE "none"]
    BY <1>9 DEF AcceptPush
  <2>2. /\ hop' \in [Clients -> {"none", "sent", "given up", "answered"}]
        /\ hop'[c] = IF Broker THEN "sent" ELSE "none"
        /\ \A d \in Clients : d # c => hop'[d] = hop[d]
    BY <1>0, <2>1 DEF RcvTypes
  <2>3. /\ run' \in [Clients -> [Where -> RunRecs]]
        /\ \A d \in Clients : d # c => run'[d] = run[d]
        /\ run'[c]["broker"].pc = "none"
        /\ Broker => run'[c]["front"].pc = "none"
        /\ ~Broker => run'[c]["front"].pc = "ingest"
    <3>1. CASE Broker
      BY <1>0, <1>1, <1>9, <3>1 DEF AcceptPush, RcvTypes
    <3>2. CASE ~Broker
      <4>1. PICK q \in RunRecs : run' = [run EXCEPT ![c]["front"] = q] /\ q.pc = "ingest"
        BY <1>9, <3>2, FirstRun DEF AcceptPush, Start
      <4>2. "front" \in Where /\ "broker" \in Where /\ "front" # "broker"
        BY DEF Where
      <4>3. RcvTypes
        BY <1>0
      <4>4. /\ run' \in [Clients -> [Where -> RunRecs]] /\ run'[c]["front"] = q
            /\ run'[c]["broker"] = run[c]["broker"]
            /\ \A d \in Clients : d # c => run'[d] = run[d]
        <5>1. PICK w \in Where, v \in Where : w = "front" /\ v = "broker" /\ v # w
          BY <4>2
        <5>2. run' = [run EXCEPT ![c][w] = q]
          BY <4>1, <5>1
        <5>3. /\ run' \in [Clients -> [Where -> RunRecs]] /\ run'[c][w] = q
              /\ \A u \in Where : u # w => run'[c][u] = run[c][u]
              /\ \A d \in Clients : d # c => run'[d] = run[d]
          BY <4>3, <5>2, RunSet
        <5> QED
          BY <5>1, <5>3
      <4> QED
        BY <1>1, <3>2, <4>1, <4>4
    <3> QED
      BY <3>1, <3>2
  <2>4. HopInv(c)'
    BY <1>1, <1>3, <1>5, <2>1, <2>2, <2>3 DEF HopInv
  <2>5. ASSUME NEW d \in Clients, d # c
        PROVE  HopInv(d)' /\ \A v \in Where : (run[d][v].pc = "publish" =>
                                                Cleared(push[d], run[d][v].rules, run[d][v].denied))'
    BY <1>3, <1>5, <2>1, <2>2, <2>3, <2>5, OtherClients
  <2>6. \A v \in Where : run'[c][v].pc # "publish"
    BY <2>3 DEF Where
  <2>7. Stories'
    <3>1. StoryTrue(p, hop'[c], told'[c], {})
      BY <1>1, <2>1 DEF StoryTrue
    <3>2. \A d \in Clients : StoryTrue(push[d], hop[d], told[d], LandedRefs(d))
      BY DEF ReceiveInv, Stories
    <3>3. \A d \in Clients : StoryTrue(push'[d], hop'[d], told'[d], LandedRefs(d)')
      BY <1>3, <1>5, <1>6, <2>1, <2>2, <3>1, <3>2
    <3> QED
      BY <3>3 DEF Stories
  <2>8. RcvTypes'
    BY <1>0, <1>3, <1>4, <2>1, <2>2, <2>3 DEF RcvTypes
  <2> QED
    BY <1>7, <2>4, <2>5, <2>6, <2>7, <2>8 DEF ReceiveInv
<1> QED
  BY <1>8, <1>9

\* The broker gets the request, perhaps long after the front gave up on it.
LEMMA BrokerStep ==
    ASSUME ReceiveInv, NEW c \in Clients, BrokerReceives(c)
    PROVE  ReceiveInv'
<1>0. RcvTypes /\ HopInv(c)
  BY DEF ReceiveInv
<1>1. PICK q \in RunRecs : q = [NoRun EXCEPT !.pc = "ingest"] /\ q.pc = "ingest"
  BY FirstRun
<1>2. /\ run' = [run EXCEPT ![c]["broker"] = q] /\ UNCHANGED <<tipOf, stored, doc, push, hop, told, landed>>
      /\ hop[c] \in {"sent", "given up"}
  BY <1>1 DEF BrokerReceives, Start
<1>3. "front" \in Where /\ "broker" \in Where /\ "front" # "broker"
  BY DEF Where
<1>4. /\ run' \in [Clients -> [Where -> RunRecs]] /\ run'[c]["broker"] = q
      /\ run'[c]["front"] = run[c]["front"]
      /\ \A d \in Clients : d # c => run'[d] = run[d]
  <2>1. RcvTypes /\ run' = [run EXCEPT ![c]["broker"] = q]
    BY <1>0, <1>2
  <2>2. PICK w \in Where, v \in Where : w = "broker" /\ v = "front" /\ v # w
    BY <1>3
  <2>3. run' = [run EXCEPT ![c][w] = q]
    BY <2>1, <2>2
  <2>4. /\ run' \in [Clients -> [Where -> RunRecs]] /\ run'[c][w] = q
        /\ \A u \in Where : u # w => run'[c][u] = run[c][u]
        /\ \A d \in Clients : d # c => run'[d] = run[d]
    BY <2>1, <2>3, RunSet
  <2> QED
    BY <2>2, <2>4
<1>5. \A d \in Clients : (Landed(d)' <=> Landed(d))
  BY <1>2 DEF Landed
<1>6. HopInv(c)'
  BY <1>0, <1>1, <1>2, <1>4, <1>5 DEF HopInv
<1>7. ASSUME NEW d \in Clients, d # c
      PROVE  HopInv(d)' /\ \A v \in Where : (run[d][v].pc = "publish" =>
                                              Cleared(push[d], run[d][v].rules, run[d][v].denied))'
  BY <1>2, <1>4, <1>5, <1>7, OtherClients
<1>8. ASSUME NEW v \in Where, run'[c][v].pc = "publish"
      PROVE  Cleared(push[c], run'[c][v].rules, run'[c][v].denied)
  BY <1>1, <1>4, <1>8 DEF ReceiveInv, Where
<1>9. Stories' /\ PushesGuarded'
  BY <1>2, SameStory DEF ReceiveInv
<1>10. RcvTypes'
  BY <1>0, <1>2, <1>4 DEF RcvTypes
<1> QED
  BY <1>2, <1>6, <1>7, <1>8, <1>9, <1>10 DEF ReceiveInv

\* A story that is true stays so when the front gives up.
LEMMA GivenUp ==
    ASSUME NEW p, NEW h, NEW t, NEW refs, StoryTrue(p, h, t, refs)
    PROVE  StoryTrue(p, "given up", t, refs)
BY DEF StoryTrue

\* The front gives up on the broker and goes on by itself, or says that it cannot.
LEMMA ForwardStep ==
    ASSUME ReceiveInv, NEW c \in Clients, ForwardFails(c)
    PROVE  ReceiveInv'
<1>0. RcvTypes /\ HopInv(c)
  BY DEF ReceiveInv
<1>1. /\ hop[c] = "sent" /\ hop' = [hop EXCEPT ![c] = "given up"]
      /\ UNCHANGED <<tipOf, stored, doc, push, landed>>
  BY DEF ForwardFails
<1>2. /\ hop' \in [Clients -> {"none", "sent", "given up", "answered"}] /\ hop'[c] = "given up"
      /\ \A d \in Clients : d # c => hop'[d] = hop[d]
  BY <1>0, <1>1 DEF RcvTypes
<1>3. /\ run' \in [Clients -> [Where -> RunRecs]]
      /\ \A d \in Clients : d # c => run'[d] = run[d]
      /\ run'[c]["broker"] = run[c]["broker"] /\ run'[c]["front"].pc # "publish"
  <2>1. CASE push[c].small
    <3>1. PICK q \in RunRecs : run' = [run EXCEPT ![c]["front"] = q] /\ q.pc = "ingest"
      BY <2>1, FirstRun DEF ForwardFails, Start
    <3>2. "front" \in Where /\ "broker" \in Where /\ "front" # "broker"
      BY DEF Where
    <3>3. RcvTypes
      BY <1>0
    <3>4. /\ run' \in [Clients -> [Where -> RunRecs]] /\ run'[c]["front"] = q
          /\ run'[c]["broker"] = run[c]["broker"]
          /\ \A d \in Clients : d # c => run'[d] = run[d]
      <4>1. PICK w \in Where, v \in Where : w = "front" /\ v = "broker" /\ v # w
        BY <3>2
      <4>2. run' = [run EXCEPT ![c][w] = q]
        BY <3>1, <4>1
      <4>3. /\ run' \in [Clients -> [Where -> RunRecs]] /\ run'[c][w] = q
            /\ \A u \in Where : u # w => run'[c][u] = run[c][u]
            /\ \A d \in Clients : d # c => run'[d] = run[d]
        BY <3>3, <4>2, RunSet
      <4> QED
        BY <4>1, <4>3
    <3> QED
      BY <3>1, <3>4
  <2>2. CASE ~push[c].small
    BY <1>0, <1>1, <2>2 DEF ForwardFails, RcvTypes, HopInv
  <2> QED
    BY <2>1, <2>2
<1>4. /\ told' = [d \in Clients |-> told'[d]]
      /\ told'[c] = told[c] \/ told'[c] = [b \in DOMAIN Txn(c) |-> "unavailable"]
      /\ \A d \in Clients : d # c => told'[d] = told[d]
  <2>1. told' = told \/ told' = [told EXCEPT ![c] = [b \in DOMAIN Txn(c) |-> "unavailable"]]
    BY DEF ForwardFails, Tell
  <2> QED
    BY <1>0, <2>1 DEF RcvTypes
<1>5. \A d \in Clients : (Landed(d)' <=> Landed(d)) /\ LandedRefs(d)' = LandedRefs(d)
  BY <1>1 DEF Landed, LandedRefs
<1>6. HopInv(c)'
  BY <1>0, <1>1, <1>2 DEF HopInv
<1>7. ASSUME NEW d \in Clients, d # c
      PROVE  HopInv(d)' /\ \A v \in Where : (run[d][v].pc = "publish" =>
                                              Cleared(push[d], run[d][v].rules, run[d][v].denied))'
  BY <1>1, <1>2, <1>3, <1>4, <1>5, <1>7, OtherClients
<1>8. ASSUME NEW v \in Where, run'[c][v].pc = "publish"
      PROVE  Cleared(push[c], run'[c][v].rules, run'[c][v].denied)
  BY <1>3, <1>8 DEF ReceiveInv, Where
<1>9. Stories'
  <2>1. \A d \in Clients : StoryTrue(push[d], hop[d], told[d], LandedRefs(d))
    BY DEF ReceiveInv, Stories
  <2>2. StoryTrue(push[c], "given up", told'[c], LandedRefs(c))
    <3>1. CASE told'[c] = told[c]
      BY <2>1, <3>1, GivenUp
    <3>2. CASE told'[c] = [b \in DOMAIN Txn(c) |-> "unavailable"]
      BY <3>2 DEF StoryTrue
    <3> QED
      BY <1>4, <3>1, <3>2
  <2>3. \A d \in Clients : StoryTrue(push'[d], hop'[d], told'[d], LandedRefs(d)')
    BY <1>1, <1>2, <1>4, <1>5, <2>1, <2>2
  <2> QED
    BY <2>3 DEF Stories
<1>10. PushesGuarded'
  BY <1>1 DEF ReceiveInv, PushesGuarded, Txn
<1>11. RcvTypes'
  BY <1>0, <1>1, <1>2, <1>3, <1>4 DEF RcvTypes
<1> QED
  BY <1>1, <1>6, <1>7, <1>8, <1>9, <1>10, <1>11 DEF ReceiveInv

\* One more entry of client c.
LEMMA LandedMore ==
    ASSUME RcvTypes, NEW c \in Clients, NEW e \in LandedRecs, e.client = c, landed' = Append(landed, e)
    PROVE  /\ landed' \in Seq(LandedRecs)
           /\ \A d \in Clients : d # c => (Landed(d)' <=> Landed(d)) /\ LandedRefs(d)' = LandedRefs(d)
           /\ LandedRefs(c)' = LandedRefs(c) \cup e.refs
           /\ \A k \in DOMAIN landed' : (k \in DOMAIN landed /\ landed'[k] = landed[k]) \/ landed'[k] = e
<1>1. landed \in Seq(LandedRecs)
  BY DEF RcvTypes
<1> DEFINE n == Len(landed) + 1
<1>2. /\ DOMAIN landed' = DOMAIN landed \cup {n} /\ landed'[n] = e /\ landed' \in Seq(LandedRecs)
      /\ \A k \in DOMAIN landed : landed'[k] = landed[k]
  BY <1>1
<1> HIDE DEF n
<1>3. \A d \in Clients : d # c => (Landed(d)' <=> Landed(d))
  BY <1>2 DEF Landed
<1>4. \A d \in Clients : d # c => LandedRefs(d)' = LandedRefs(d)
  BY <1>2 DEF LandedRefs
<1>5. LandedRefs(c)' = LandedRefs(c) \cup e.refs
  BY <1>2 DEF LandedRefs
<1> QED
  BY <1>2, <1>3, <1>4, <1>5

\* A commit passes the rules it was judged by, for the tips it replaces.
LEMMA PublishStep ==
    ASSUME ReceiveAssumption, ReceiveInv, NEW c \in Clients, NEW w \in Where, PublishPush(c, w)
    PROVE  ReceiveInv'
<1>0. RcvTypes /\ HopInv(c) /\ run[c][w] \in RunRecs /\ run[c][w].pc = "publish"
  BY DEF ReceiveInv, RcvTypes, PublishPush, At
<1>1. push[c] \in Pushes /\ (hop[c] # "given up" => LandedRefs(c) = {})
  BY <1>0, AtWork
<1>2. Cleared(push[c], run[c][w].rules, run[c][w].denied)
  BY <1>0 DEF ReceiveInv
<1> DEFINE denied == run[c][w].denied
           refs == DOMAIN Txn(c) \ denied
           ok == \A b \in refs : Txn(c)[b].old = tipOf[b]
<1>3. CASE ~ok
  <2>1. Report(c, w, Verdicts(c, w, FALSE)) /\ UNCHANGED <<tipOf, stored, doc, push, landed>>
    BY <1>3 DEF PublishPush
  <2>2. \A b \in DOMAIN Verdicts(c, w, FALSE) : Verdicts(c, w, FALSE)[b] # "ok"
    BY DEF Verdicts
  <2> QED
    BY <1>0, <2>1, <2>2, RunEnds
<1>4. CASE ok
  <2> DEFINE e == [client |-> c, refs |-> refs, was |-> tipOf, rules |-> run[c][w].rules]
  <2>1. /\ landed' = Append(landed, e) /\ push' = push /\ doc' = doc
        /\ tipOf' = [b \in Names |-> IF b \in refs THEN Txn(c)[b].new ELSE tipOf[b]]
        /\ stored' = stored \cup push[c].objs
        /\ Report(c, w, Verdicts(c, w, TRUE)) \/ Report(c, w, Errors(c))
    BY <1>4 DEF PublishPush
  <2>2. refs \subseteq AllNames /\ refs \subseteq DOMAIN push[c].txn
    BY <1>1 DEF AllNames, Txn
  <2>3. e \in LandedRecs /\ e.client = c /\ e.refs = refs /\ e.was = tipOf /\ e.rules = run[c][w].rules
    <3>1. run[c][w].rules \in Policies \cup {{}} /\ tipOf \in [Names -> Tips]
      BY <1>0 DEF RunRecs, RcvTypes
    <3> HIDE DEF refs
    <3> QED
      BY <2>2, <3>1 DEF LandedRecs
  <2>4. \A b \in refs : Txn(c)[b].old = tipOf[b]
    BY <1>4
  <2>5. tipOf' \in [Names -> Tips] /\ stored' \subseteq AllObjs
    <3>1. \A b \in refs : push[c].txn[b].new \in Tips
      <4>1. ASSUME NEW p \in Pushes, NEW b \in AllNames PROVE p.txn[b].new \in Tips
        BY <4>1 DEF Tips
      <4> HIDE DEF refs
      <4> QED
        BY <1>1, <2>2, <4>1
    <3>2. push[c].objs \subseteq AllObjs
      BY <1>1 DEF AllObjs
    <3> HIDE DEF refs
    <3> QED
      BY <1>0, <2>1, <3>1, <3>2 DEF RcvTypes, Txn
  <2> HIDE DEF refs, e, ok
  <2>6. /\ landed' \in Seq(LandedRecs)
        /\ \A d \in Clients : d # c => (Landed(d)' <=> Landed(d)) /\ LandedRefs(d)' = LandedRefs(d)
        /\ LandedRefs(c)' = LandedRefs(c) \cup refs
        /\ \A k \in DOMAIN landed' : (k \in DOMAIN landed /\ landed'[k] = landed[k]) \/ landed'[k] = e
    BY <1>0, <2>1, <2>3, LandedMore
  <2>7. PICK t : Report(c, w, t) /\ (t = Verdicts(c, w, TRUE) \/ t = Errors(c))
    BY <2>1
  <2>8. \A b \in DOMAIN t : t[b] = "ok" => b \in refs
    BY <2>7 DEF Verdicts, Errors, refs
  <2>9. \A b \in DOMAIN t : t[b] = "refused" => b \notin refs
    BY <2>7 DEF Verdicts, Errors, refs
  <2>10. \A b \in DOMAIN t : t[b] = "ok" =>
            b \in LandedRefs(c)' \/ (push[c].atomic /\ \E o \in DOMAIN t : t[o] = "refused")
    BY <2>6, <2>8
  <2>11. \A b \in DOMAIN t : t[b] = "refused" => b \notin LandedRefs(c)' \/ hop[c] = "given up"
    BY <1>1, <2>6, <2>9
  <2>12. /\ run' \in [Clients -> [Where -> RunRecs]]
         /\ hop' \in [Clients -> {"none", "sent", "given up", "answered"}]
         /\ told' = [d \in Clients |-> told'[d]]
         /\ \A d \in Clients : HopInv(d)'
         /\ \A d \in Clients, v \in Where :
               run'[d][v].pc = "publish" => Cleared(push[d], run'[d][v].rules, run'[d][v].denied)
         /\ Stories'
    <3>1. LandedRefs(c) \subseteq LandedRefs(c)'
      BY <2>6
    <3> QED
      BY <1>0, <2>1, <2>6, <2>7, <2>10, <2>11, <3>1, ReportMoves
  <2>13. RcvTypes'
    BY <1>0, <2>1, <2>5, <2>6, <2>12 DEF RcvTypes
  <2>14. /\ \A b \in e.refs :
              LET u == [old |-> e.was[b], new |-> Txn(e.client)[b].new] IN
              ~deny_reason(e.rules, push[e.client].who, b, u, u.old \notin ancestry[u.new])
         /\ push[e.client].atomic => e.refs = DOMAIN Txn(e.client)
    <3>1. ASSUME NEW b \in refs,
                 NEW u, u = [old |-> tipOf[b], new |-> Txn(c)[b].new]
          PROVE  ~deny_reason(run[c][w].rules, push[c].who, b, u, u.old \notin ancestry[u.new])
      <4>1. u.old = push[c].txn[b].old /\ u.new = push[c].txn[b].new
        BY <2>4, <3>1 DEF Txn
      <4>2. ~deny_reason(run[c][w].rules, push[c].who, b, push[c].txn[b],
                         push[c].txn[b].old \notin ancestry[push[c].txn[b].new])
        BY <1>2 DEF Cleared, refs, Txn
      <4>3. (u.old \notin ancestry[u.new]) => (push[c].txn[b].old \notin ancestry[push[c].txn[b].new])
        BY <4>1
      <4> QED
        BY <4>1, <4>2, <4>3, DenyMore
    <3>2. push[c].atomic => refs = DOMAIN Txn(c)
      BY <1>2 DEF Cleared, refs
    <3> QED
      BY <2>3, <3>1, <3>2
  <2>15. PushesGuarded'
    <3>1. ASSUME NEW k \in DOMAIN landed', NEW f, f = landed'[k]
          PROVE  /\ \A b \in f.refs :
                       LET u == [old |-> f.was[b], new |-> Txn(f.client)[b].new] IN
                       ~deny_reason(f.rules, push[f.client].who, b, u, u.old \notin ancestry[u.new])
                 /\ push[f.client].atomic => f.refs = DOMAIN Txn(f.client)
      <4>1. CASE f = e
        BY <2>14, <4>1
      <4>2. CASE k \in DOMAIN landed /\ f = landed[k]
        BY <4>2 DEF ReceiveInv, PushesGuarded
      <4> QED
        BY <2>6, <3>1, <4>1, <4>2
    <3>2. \A d : Txn(d)' = Txn(d)
      BY <2>1 DEF Txn
    <3> QED
      BY <2>1, <3>1, <3>2 DEF PushesGuarded
  <2> QED
    BY <2>1, <2>12, <2>13, <2>15 DEF ReceiveInv
<1> QED
  BY <1>3, <1>4

\* The run of a request on one host, up to the commit.
LEMMA RunStep ==
    ASSUME ReceiveAssumption, ReceiveInv, NEW c \in Clients, NEW w \in Where,
           Ingest(c, w) \/ CheckConnectivity(c, w) \/ Evaluate(c, w) \/ RunFails(c, w)
    PROVE  ReceiveInv'
<1>0. RcvTypes /\ run[c][w] \in RunRecs
  BY DEF ReceiveInv, RcvTypes
<1>1. \A b \in DOMAIN [d \in DOMAIN Txn(c) |-> "refused"] : [d \in DOMAIN Txn(c) |-> "refused"][b] # "ok"
  OBVIOUS
<1>2. ASSUME RefusalReport(c, w), run[c][w].pc \notin {"none", "done"},
             UNCHANGED <<tipOf, stored, doc, push, landed>>
      PROVE  ReceiveInv'
  BY <1>1, <1>2, RunEnds DEF RefusalReport
<1>3. CASE Ingest(c, w)
  <2>1. run[c][w].pc = "ingest" /\ UNCHANGED <<tipOf, stored, doc, push, landed>>
    BY <1>3 DEF Ingest, At
  <2>2. CASE RefusalReport(c, w)
    BY <1>2, <2>1, <2>2
  <2>3. CASE /\ run' = [run EXCEPT ![c][w].pc = "connectivity", ![c][w].has = stored \cup push[c].objs]
             /\ UNCHANGED <<told, hop>>
    <3> DEFINE q == [run[c][w] EXCEPT !.pc = "connectivity", !.has = stored \cup push[c].objs]
    <3>1. push[c].objs \subseteq AllObjs
      BY <1>0, <2>1, AtWork DEF AllObjs
    <3>2. stored \cup push[c].objs \in SUBSET AllObjs
      BY <1>0, <3>1 DEF RcvTypes
    <3>3. q \in RunRecs /\ q.pc = "connectivity"
      BY <1>0, <3>2 DEF RunRecs, RunPcs
    <3>4. run' = [run EXCEPT ![c][w] = q]
      BY <1>0, <2>3 DEF RcvTypes
    <3> HIDE DEF q
    <3>5. /\ run[c][w].pc \in {"ingest", "connectivity", "policy"} /\ q.pc \in {"connectivity", "policy", "publish"}
          /\ q.pc = "publish" => Cleared(push[c], q.rules, q.denied)
          /\ UNCHANGED <<tipOf, stored, doc, push, told, hop, landed>>
      BY <2>1, <2>3, <3>3
    <3> QED
      BY <3>3, <3>4, <3>5, RunGoesOn
  <2> QED
    BY <1>3, <2>2, <2>3 DEF Ingest
<1>4. CASE CheckConnectivity(c, w)
  <2>1. run[c][w].pc = "connectivity" /\ UNCHANGED <<tipOf, stored, doc, push, landed>>
    BY <1>4 DEF CheckConnectivity, At
  <2>2. CASE RefusalReport(c, w)
    BY <1>2, <2>1, <2>2
  <2>3. CASE run' = [run EXCEPT ![c][w].pc = "policy"] /\ UNCHANGED <<told, hop>>
    <3> DEFINE q == [run[c][w] EXCEPT !.pc = "policy"]
    <3>1. q \in RunRecs /\ q.pc = "policy"
      BY <1>0 DEF RunRecs, RunPcs
    <3>2. run' = [run EXCEPT ![c][w] = q]
      BY <1>0, <2>3 DEF RcvTypes
    <3> HIDE DEF q
    <3>3. /\ run[c][w].pc \in {"ingest", "connectivity", "policy"} /\ q.pc \in {"connectivity", "policy", "publish"}
          /\ q.pc = "publish" => Cleared(push[c], q.rules, q.denied)
          /\ UNCHANGED <<tipOf, stored, doc, push, told, hop, landed>>
      BY <2>1, <2>3, <3>1
    <3> QED
      BY <3>1, <3>2, <3>3, RunGoesOn
  <2> QED
    BY <1>4, <2>2, <2>3 DEF CheckConnectivity
<1>5. CASE Evaluate(c, w)
  <2>1. run[c][w].pc = "policy" /\ UNCHANGED <<tipOf, stored, doc, push, landed>>
    BY <1>5 DEF Evaluate, At
  <2>2. PICK denied : denied = Denied(c, run[c][w].has)
    OBVIOUS
  <2> DEFINE nothing == denied = DOMAIN Txn(c) \/ (push[c].atomic /\ denied # {})
  <2>3. denied \subseteq DOMAIN Txn(c)
    BY <2>2 DEF Denied
  <2>4. CASE nothing
    <3> DEFINE t == [b \in DOMAIN Txn(c) |-> IF b \in denied THEN "refused" ELSE "ok"]
    <3>1. Report(c, w, t)
      BY <1>5, <2>2, <2>4 DEF Evaluate
    <3>2. \A b \in DOMAIN t : t[b] = "ok" => push[c].atomic /\ \E o \in DOMAIN t : t[o] = "refused"
      BY <2>3, <2>4
    <3> HIDE DEF t
    <3> QED
      BY <2>1, <3>1, <3>2, RunEnds
  <2>5. CASE ~nothing
    <3> DEFINE q == [run[c][w] EXCEPT !.pc = "publish", !.rules = doc, !.denied = denied]
    <3>1. run' = [run EXCEPT ![c][w].pc = "publish", ![c][w].rules = doc, ![c][w].denied = denied]
          /\ UNCHANGED <<told, hop>>
      BY <1>5, <2>2, <2>5 DEF Evaluate
    <3>2. run' = [run EXCEPT ![c][w] = q]
      BY <1>0, <3>1 DEF RcvTypes
    <3>3. doc \in Policies \cup {{}} /\ denied \in SUBSET AllNames
      BY <1>0, <2>1, <2>3, AtWork DEF RcvTypes, AllNames, Txn
    <3>4. q \in RunRecs /\ q.pc = "publish" /\ q.rules = doc /\ q.denied = denied
      BY <1>0, <3>3 DEF RunRecs, RunPcs
    <3> HIDE DEF q
    <3>5. Cleared(push[c], doc, denied)
      <4>1. ASSUME NEW b \in DOMAIN push[c].txn \ denied
            PROVE  ~deny_reason(doc, push[c].who, b, push[c].txn[b],
                                push[c].txn[b].old \notin ancestry[push[c].txn[b].new])
        <5>1. ~deny_reason(doc, push[c].who, b, push[c].txn[b], Forced(c, b, run[c][w].has))
          BY <2>2 DEF Denied, Txn
        <5>2. (push[c].txn[b].old \notin ancestry[push[c].txn[b].new]) => Forced(c, b, run[c][w].has)
          BY DEF Forced, is_ancestor, Txn
        <5>3. PICK u : u = push[c].txn[b]
          OBVIOUS
        <5>4. PICK f : f = (u.old \notin ancestry[u.new])
          OBVIOUS
        <5>5. PICK g : g = Forced(c, b, run[c][w].has)
          OBVIOUS
        <5>6. (f => g) /\ ~deny_reason(doc, push[c].who, b, u, g)
          BY <5>1, <5>2, <5>3, <5>4, <5>5
        <5>7. ~deny_reason(doc, push[c].who, b, u, f)
          BY <5>6, DenyMore
        <5> QED
          BY <5>3, <5>4, <5>7
      <4>2. push[c].atomic => denied = {}
        BY <2>5
      <4> QED
        BY <4>1, <4>2 DEF Cleared
    <3>6. /\ run[c][w].pc \in {"ingest", "connectivity", "policy"} /\ q.pc \in {"connectivity", "policy", "publish"}
          /\ q.pc = "publish" => Cleared(push[c], q.rules, q.denied)
          /\ UNCHANGED <<tipOf, stored, doc, push, told, hop, landed>>
      BY <2>1, <3>1, <3>4, <3>5
    <3> QED
      BY <3>2, <3>4, <3>6, RunGoesOn
  <2> QED
    BY <2>4, <2>5
<1>6. CASE RunFails(c, w)
  <2>1. /\ run[c][w].pc \notin {"none", "done"} /\ Report(c, w, Errors(c))
        /\ UNCHANGED <<tipOf, stored, doc, push, landed>>
    BY <1>6 DEF RunFails
  <2>2. \A b \in DOMAIN Errors(c) : Errors(c)[b] # "ok"
    BY DEF Errors
  <2> QED
    BY <2>1, <2>2, RunEnds
<1> QED
  BY <1>3, <1>4, <1>5, <1>6

\* Another document of rules, or nothing at all.
LEMMA PolicyStep ==
    ASSUME ReceiveInv, doc' \in Policies \cup {{}}, UNCHANGED <<tipOf, stored, push, run, hop, told, landed>>
    PROVE  ReceiveInv'
<1>1. \A d \in Clients : Landed(d)' <=> Landed(d)
  BY DEF Landed
<1>2. \A d \in Clients : HopInv(d)'
  BY <1>1 DEF ReceiveInv, HopInv
<1>3. RcvTypes'
  BY DEF ReceiveInv, RcvTypes
<1>4. Stories' /\ PushesGuarded'
  BY SameStory DEF ReceiveInv
<1> QED
  BY <1>2, <1>3, <1>4 DEF ReceiveInv

\* Before the first request.
LEMMA ReceiveStart ==
    ASSUME ReceiveInit
    PROVE  ReceiveInv
<1>1. /\ tipOf = [b \in Names |-> IF b \in Branches THEN 1 ELSE 0] /\ stored = {1} /\ doc = {}
      /\ push = [c \in Clients |-> NoPush] /\ run = [c \in Clients |-> [w \in Where |-> NoRun]]
      /\ hop = [c \in Clients |-> "none"] /\ told = [c \in Clients |-> <<>>] /\ landed = <<>>
  BY DEF ReceiveInit
<1>2. NoRun \in RunRecs /\ NoRun.pc = "none"
  BY DEF NoRun, RunRecs, RunPcs
<1>3. tipOf \in [Names -> Tips] /\ stored \subseteq AllObjs /\ landed \in Seq(LandedRecs)
  BY <1>1 DEF Tips, AllObjs
<1>4. RcvTypes
  BY <1>1, <1>2, <1>3 DEF RcvTypes
<1>5. DOMAIN landed = {} /\ \A c \in Clients : DOMAIN told[c] = {} /\ ~Landed(c)
  BY <1>1 DEF Landed
<1>6. \A c \in Clients : HopInv(c)
  BY <1>1, <1>2, <1>5 DEF HopInv, Where
<1>7. Stories
  BY <1>5 DEF Stories, StoryTrue
<1>8. PushesGuarded
  BY <1>5 DEF PushesGuarded
<1>9. \A c \in Clients, w \in Where : run[c][w].pc # "publish"
  BY <1>1, <1>2
<1> QED
  BY <1>4, <1>6, <1>7, <1>8, <1>9 DEF ReceiveInv

\* ReceiveInv is inductive.
LEMMA ReceiveInvariance == ReceiveSpec => []ReceiveInv
<1>1. ReceiveInit => ReceiveInv
  BY ReceiveStart
<1>2. ReceiveInv /\ [ReceiveNext]_receiveVars => ReceiveInv'
  <2> SUFFICES ASSUME ReceiveInv, [ReceiveNext]_receiveVars PROVE ReceiveInv'
    OBVIOUS
  <2>1. ASSUME NEW rules \in Policies, PutPolicy(rules) PROVE ReceiveInv'
    BY <2>1, PolicyStep DEF PutPolicy
  <2>2. ASSUME NEW c \in Clients, RefusePush(c) \/ AcceptPush(c) PROVE ReceiveInv'
    BY <2>2, ReceiveAssumption, PushArrives
  <2>3. ASSUME NEW c \in Clients, BrokerReceives(c) PROVE ReceiveInv'
    BY <2>3, BrokerStep
  <2>4. ASSUME NEW c \in Clients, ForwardFails(c) PROVE ReceiveInv'
    BY <2>4, ForwardStep
  <2>5. ASSUME NEW c \in Clients, NEW w \in Where,
               Ingest(c, w) \/ CheckConnectivity(c, w) \/ Evaluate(c, w) \/ RunFails(c, w)
        PROVE  ReceiveInv'
    BY <2>5, ReceiveAssumption, RunStep
  <2>6. ASSUME NEW c \in Clients, NEW w \in Where, PublishPush(c, w) PROVE ReceiveInv'
    BY <2>6, ReceiveAssumption, PublishStep
  <2>7. CASE UNCHANGED receiveVars
    <3>1. doc' \in Policies \cup {{}}
      BY <2>7 DEF receiveVars, ReceiveInv, RcvTypes
    <3> QED
      BY <2>7, <3>1, PolicyStep DEF receiveVars
  <2> QED
    BY <2>1, <2>2, <2>3, <2>4, <2>5, <2>6, <2>7 DEF ReceiveNext
<1> QED
  BY <1>1, <1>2, PTL DEF ReceiveSpec

\* ReportTrue: whatever becomes of the hop to the broker, a ref reported ok has landed (or an
\* atomic push says which ref held it back), and a refused one has not unless the front gave
\* up on the broker's answer.
THEOREM ReportsAreTrue == ReceiveSpec => []ReportTrue
<1>1. ReceiveInv => ReportTrue
  BY StoryForm DEF ReceiveInv
<1> QED
  BY <1>1, ReceiveInvariance, PTL

\* PushesGuarded: no update lands that the rules read for it forbid, judged by the tip it
\* really replaces, although the rules are checked against the old value the client names and
\* tips move in between; and an atomic push lands whole or not at all.
THEOREM RulesAreKept == ReceiveSpec => []PushesGuarded
<1>1. ReceiveInv => PushesGuarded
  BY DEF ReceiveInv
<1> QED
  BY <1>1, ReceiveInvariance, PTL

(***************************************************************************)
(* PackCopy: the inductive invariant.                                      *)
(***************************************************************************)

\* What the theorem is about: no crash between the renames of one pack, no sync between a CAS
\* and its local commit, and no pack that is read from the bucket.
PacksAtHome == PackFaults = {} /\ \A p \in Packs : Plan[p] # "Remote"

Phase == {"install", "index", "prune", "finish"}     \* under pack_mutex
Pruning == {"prune", "finish"}                       \* under prune_lock as well
Guarded == {"guard", "reading"}
Staged == {"staged", "landed", "done"}
Mans == [packs : SUBSET Packs, rev : Nat]
PSts == [rev : Nat, packsRev : Nat, dirty : BOOLEAN, pending : SUBSET Packs, remote : SUBSET Packs]
SReqs == [pc : {"idle", "refs", "packs"} \cup Phase \cup Guarded, man : Mans, todo : SUBSET Packs,
          drop : SUBSET Packs, keep : SUBSET Packs, saw : SUBSET Packs]
WReqs == [pc : {"idle", "open", "ingested"} \cup Staged, pack : Packs \cup {"none"}, sup : SUBSET Packs,
          man : Mans, guard : 0 .. 2]

PackTypes ==
    /\ live \in Mans /\ known \in Mans /\ pst \in PSts
    /\ files \in [pack : SUBSET Packs, idx : SUBSET Packs]
    /\ proven \in BOOLEAN /\ stage \in [Packs -> Int]
    /\ held \in [sync : Syncers \cup {"none"}, pack : Syncers \cup {"none"},
                 prune : Syncers \cup PackWriters \cup {"none"}]
    /\ sreq \in [Syncers -> SReqs] /\ wreq \in [PackWriters -> WReqs]

\* Of two manifests of one line the later holds what the earlier holds, and one revision is one
\* manifest.
Ordered(m, n) == m.rev <= n.rev => ObjectsOf(m.packs) \subseteq ObjectsOf(n.packs) /\ (m.rev = n.rev => m = n)
HeldMans == {live, known, Manifest({}, 0)} \cup {sreq[s].man : s \in Syncers}
                                           \cup {wreq[w].man : w \in PackWriters}
LineInv == \A m, n \in HeldMans : m.rev <= live.rev /\ Ordered(m, n)

\* Revisions move forward: those the packs are reconciled with, the handle's, the state file's.
RevInv ==
    /\ pst.packsRev <= known.rev /\ known.rev <= pst.rev /\ pst.remote = {}
    /\ \A s \in Syncers :
          IF sreq[s].pc = "refs" THEN held.sync = s /\ known.rev < sreq[s].man.rev /\ sreq[s].man.rev = pst.rev
                                 ELSE sreq[s].man.rev <= known.rev
    /\ \A w \in PackWriters : wreq[w].pc = "landed" =>
          /\ wreq[w].man.rev = known.rev + 1
          /\ wreq[w].man.packs = (known.packs \ wreq[w].sup) \cup {wreq[w].pack}
          /\ \A s \in Syncers : sreq[s].pc # "refs"
          /\ \A v \in PackWriters : wreq[v].pc = "landed" => v = w
    /\ \A w \in PackWriters : wreq[w].pc # "idle" => ObjectsOf(wreq[w].sup) \subseteq ObjectsOf({wreq[w].pack})

LockInv ==
    /\ \A s \in Syncers : /\ sreq[s].pc \in Phase => held.pack = s /\ ~proven
                          /\ sreq[s].pc \in Pruning => held.prune = s
    /\ \A w \in PackWriters : wreq[w].pc \in {"open", "ingested"} => held.prune = w /\ ~proven

\* A pack without its index is the one being installed.
HalfInv == \A p \in files.pack \ files.idx : \E s \in Syncers : sreq[s].pc = "index" /\ p \in sreq[s].keep

\* A reconciliation has, or is still to fetch, what its manifest lists, and accounts for the rest.
PhaseInv(s) ==
    /\ sreq[s].pc \in Phase => \A p \in sreq[s].man.packs : p \in files.pack \/ p \in sreq[s].todo
    /\ sreq[s].pc \in Pruning => /\ sreq[s].todo = {} /\ sreq[s].drop \cap sreq[s].man.packs = {}
                                 /\ files.pack \subseteq sreq[s].man.packs \cup sreq[s].drop \cup sreq[s].keep
    /\ sreq[s].pc = "finish" => sreq[s].drop = {}

\* The packs of us hold every object of the packs of ps.
Covered(ps, us) == ObjectsOf(ps) \subseteq ObjectsOf(us)

\* Under a guard, or about to take it: everything is there, and a reconciliation beside it has
\* no older manifest.
GuardInv(s) ==
    sreq[s].pc \in Guarded => /\ Covered(sreq[s].man.packs, Usable)
                              /\ sreq[s].pc = "reading" => sreq[s].saw \subseteq Usable
                              /\ \A t \in Syncers : sreq[t].pc \in Phase => sreq[s].man.rev <= sreq[t].man.rev

\* Guards are counted, and no two writers have the same pack.
StageInv ==
    /\ \A w \in PackWriters :
          /\ wreq[w].pc # "idle" => wreq[w].pack \in Packs
          /\ wreq[w].pc \in Staged => stage[wreq[w].pack] = wreq[w].guard /\ wreq[w].guard >= 1
          /\ wreq[w].pc \in Staged /\ held.prune = w => wreq[w].guard = 2
          /\ wreq[w].pc \in Staged \cup {"ingested"} => wreq[w].pack \in files.pack /\ wreq[w].pack \in files.idx
          /\ \A v \in PackWriters : v # w /\ wreq[v].pc # "idle" /\ wreq[w].pc # "idle" => wreq[v].pack # wreq[w].pack
    /\ \A p \in Packs : (\A w \in PackWriters : wreq[w].pc \in Staged => wreq[w].pack # p) => stage[p] = 0

\* What counts as reconciled has everything, and what is too much is remembered.
ReadyInv ==
    proven /\ pst.packsRev = pst.rev =>
        /\ Covered(known.packs, Usable)
        /\ files.pack \subseteq known.packs \cup pst.pending \cup {p \in Packs : stage[p] > 0}

PackInv ==
    /\ PackTypes /\ LineInv /\ RevInv /\ LockInv /\ HalfInv /\ StageInv /\ ReadyInv
    /\ \A s \in Syncers : PhaseInv(s) /\ GuardInv(s)

LEMMA ObjectsGrow ==
    ASSUME NEW a, NEW b, a \subseteq b
    PROVE  ObjectsOf(a) \subseteq ObjectsOf(b)
  BY DEF ObjectsOf

\* A pack that holds what S holds may take its place.
LEMMA ObjectsSwap ==
    ASSUME NEW a, NEW S, NEW p, ObjectsOf(S) \subseteq ObjectsOf({p})
    PROVE  ObjectsOf(a) \subseteq ObjectsOf((a \ S) \cup {p})
  BY DEF ObjectsOf

\* One syncing request takes a step.
LEMMA SyncTurn ==
    ASSUME PackTypes, NEW s \in Syncers, NEW q \in SReqs, sreq' = [sreq EXCEPT ![s] = q]
    PROVE  /\ sreq' \in [Syncers -> SReqs] /\ sreq'[s] = q
           /\ \A t \in Syncers : t # s => sreq'[t] = sreq[t]
  BY DEF PackTypes

\* One writer takes a step.
LEMMA WriteTurn ==
    ASSUME PackTypes, NEW w \in PackWriters, NEW q \in WReqs, wreq' = [wreq EXCEPT ![w] = q]
    PROVE  /\ wreq' \in [PackWriters -> WReqs] /\ wreq'[w] = q
           /\ \A v \in PackWriters : v # w => wreq'[v] = wreq[v]
  BY DEF PackTypes

LEMMA HeldOnes ==
    /\ live \in HeldMans /\ known \in HeldMans
    /\ \A s \in Syncers : sreq[s].man \in HeldMans
    /\ \A w \in PackWriters : wreq[w].man \in HeldMans
    /\ Manifest({}, 0) \in HeldMans
  BY DEF HeldMans

\* Nobody holds a manifest that nobody held before.
LEMMA LineKeeps ==
    ASSUME LineInv, live' = live, known' \in HeldMans, \A s \in Syncers : sreq'[s].man \in HeldMans,
           \A w \in PackWriters : wreq'[w].man \in HeldMans
    PROVE  LineInv'
<1>1. HeldMans' \subseteq HeldMans
  BY HeldOnes DEF HeldMans
<1> QED
  BY <1>1 DEF LineInv

\* The next manifest of the line.
LEMMA LineGrows ==
    ASSUME PackTypes, LineInv, live' \in Mans, live'.rev = live.rev + 1,
           ObjectsOf(live.packs) \subseteq ObjectsOf(live'.packs), known' = known,
           \A s \in Syncers : sreq'[s].man \in HeldMans,
           \A w \in PackWriters : wreq'[w].man \in HeldMans \cup {live'}
    PROVE  LineInv'
<1>1. HeldMans' \subseteq HeldMans \cup {live'}
  BY HeldOnes DEF HeldMans
<1>2. \A m \in HeldMans : m \in Mans
  BY DEF HeldMans, PackTypes, SReqs, WReqs, Mans, Manifest
<1>3. live \in HeldMans /\ live \in Mans
  BY HeldOnes, <1>2
<1>4. ASSUME NEW m \in HeldMans \cup {live'} PROVE m.rev <= live'.rev
  BY <1>2, <1>3, <1>4 DEF LineInv, Mans
<1>5. ASSUME NEW m \in HeldMans \cup {live'}, NEW n \in HeldMans \cup {live'} PROVE Ordered(m, n)
  <2>1. CASE m \in HeldMans /\ n \in HeldMans
    BY <2>1 DEF LineInv
  <2>2. CASE m \in HeldMans /\ n = live'
    <3>1. m.rev <= live.rev /\ Ordered(m, live) /\ m.rev \in Nat /\ live.rev \in Nat
      BY <1>2, <1>3, <2>2 DEF LineInv, Mans
    <3>2. ObjectsOf(m.packs) \subseteq ObjectsOf(live.packs) /\ m.rev # n.rev
      BY <2>2, <3>1 DEF Ordered
    <3> QED
      BY <2>2, <3>2 DEF Ordered
  <2>3. CASE m = live' /\ n \in HeldMans
    <3>1. n.rev <= live.rev /\ n.rev \in Nat /\ live.rev \in Nat
      BY <1>2, <1>3, <2>3 DEF LineInv, Mans
    <3> QED
      BY <2>3, <3>1 DEF Ordered
  <2>4. CASE m = live' /\ n = live'
    BY <2>4 DEF Ordered
  <2> QED
    BY <1>5, <2>1, <2>2, <2>3, <2>4
<1> QED
  BY <1>1, <1>4, <1>5 DEF LineInv

\* What git can use while nothing is read from the bucket.
LEMMA UsableIs ==
    ASSUME RevInv
    PROVE  Usable = {p \in files.pack : p \in files.idx}
  BY DEF RevInv, Usable

LEMMA UsableGrows ==
    ASSUME pst.remote = {}, pst'.remote = {}, files.pack \subseteq files'.pack, files.idx \subseteq files'.idx
    PROVE  Usable \subseteq Usable' /\ ObjectsOf(Usable) \subseteq ObjectsOf(Usable')
<1>1. Usable \subseteq Usable'
  BY DEF Usable
<1> QED
  BY <1>1, ObjectsGrow

\* Two requests are never under pack_mutex at once.
LEMMA OnePhase ==
    ASSUME LockInv, NEW s \in Syncers, NEW t \in Syncers, sreq[s].pc \in Phase, sreq[t].pc \in Phase
    PROVE  s = t
  BY DEF LockInv

\* Under pack_mutex and not between two renames, every pack has its index.
LEMMA NoHalf ==
    ASSUME LockInv, HalfInv, NEW s \in Syncers, sreq[s].pc \in Phase \ {"index"}
    PROVE  files.pack \subseteq files.idx
  BY OnePhase DEF HalfInv, Phase

LEMMA HalfKeeps ==
    ASSUME HalfInv, files' = files,
           \A t \in Syncers : sreq[t].pc = "index" => sreq'[t].pc = "index" /\ sreq'[t].keep = sreq[t].keep
    PROVE  HalfInv'
  BY DEF HalfInv

LEMMA StageKeeps ==
    ASSUME StageInv, wreq' = wreq, stage' = stage, files.pack \subseteq files'.pack, files.idx \subseteq files'.idx,
           \A w \in PackWriters : held'.prune = w => held.prune = w
    PROVE  StageInv'
<1>1. \A w \in PackWriters : wreq[w].pc \in Staged \cup {"ingested"} => wreq[w].pack \in files'.pack /\ wreq[w].pack \in files'.idx
  BY DEF StageInv
<1> QED
  BY <1>1 DEF StageInv

LEMMA ReadyKeeps ==
    ASSUME ReadyInv, RevInv, proven' => proven, known' = known, stage' = stage, files' = files, pst'.remote = {},
           pst'.packsRev = pst'.rev => pst.packsRev = pst.rev /\ pst.pending \subseteq pst'.pending
    PROVE  ReadyInv'
<1>1. Usable' = Usable
  BY DEF Usable, RevInv
<1> QED
  BY <1>1 DEF ReadyInv

\* The guard of t, which does nothing, when nothing it needs is removed.
LEMMA GuardKeeps ==
    ASSUME NEW t \in Syncers, GuardInv(t), sreq'[t] = sreq[t], Usable \subseteq Usable',
           \A u \in Syncers : sreq'[u].pc \in Phase =>
               (sreq[u].pc \in Phase /\ sreq'[u].man = sreq[u].man)
               \/ (sreq[t].pc \in Guarded => sreq[t].man.rev <= sreq'[u].man.rev)
    PROVE  GuardInv(t)'
<1>1. ObjectsOf(Usable) \subseteq ObjectsOf(Usable')
  BY ObjectsGrow
<1>2. sreq[t].pc \in Guarded => Covered(sreq[t].man.packs, Usable')
  BY <1>1 DEF GuardInv, Covered
<1> QED
  BY <1>2 DEF GuardInv

\* The part of t in a reconciliation, when it does nothing and no file comes or goes.
LEMMA PhaseKeeps ==
    ASSUME NEW t \in Syncers, PhaseInv(t), sreq'[t] = sreq[t], files.pack \subseteq files'.pack,
           sreq[t].pc \in Pruning => files' = files
    PROVE  PhaseInv(t)'
  BY DEF PhaseInv

\* Pushes and compactions of other instances: the line goes on, the copy rests.
LEMMA ElsewhereStep ==
    ASSUME PackInv, live' \in Mans, live'.rev = live.rev + 1, ObjectsOf(live.packs) \subseteq ObjectsOf(live'.packs),
           UNCHANGED <<known, pst, files, proven, stage, held, sreq, wreq>>
    PROVE  PackInv'
<1>1. PackTypes' /\ LineInv'
  <2>1. PackTypes'
    BY DEF PackInv, PackTypes
  <2>2. LineInv'
    BY HeldOnes, LineGrows DEF PackInv
  <2> QED
    BY <2>1, <2>2
<1>2. Usable' = Usable
  BY DEF Usable
<1> QED
  BY <1>1, <1>2 DEF PackInv, RevInv, LockInv, HalfInv, StageInv, ReadyInv, PhaseInv, GuardInv

\* A sync reads a newer manifest.
LEMMA RefsApplyStep ==
    ASSUME PacksAtHome, PackAssumption, PackInv, NEW s \in Syncers, SyncRefsApply(s)
    PROVE  PackInv'
<1> DEFINE q == [IdleReq EXCEPT !.pc = "refs", !.man = live]
<1>0. PackTypes /\ LineInv /\ RevInv /\ LockInv /\ HalfInv /\ StageInv /\ ReadyInv
  BY DEF PackInv
<1>1. /\ sreq[s].pc = "idle" /\ held.sync = "none" /\ live.rev > known.rev
      /\ held' = [held EXCEPT !.sync = s] /\ sreq' = [sreq EXCEPT ![s] = q]
      /\ UNCHANGED <<live, known, files, proven, stage, wreq>>
  BY DEF SyncRefsApply
<1>2. \A w \in PackWriters : wreq[w].pc # "landed"
  BY DEF SyncRefsApply, MayOvertake, PacksAtHome
<1>3. PICK sup \in SUBSET Packs : pst' = [pst EXCEPT !.rev = live.rev, !.pending = pst.pending \cup sup]
  <2>1. {} \in SUBSET Packs /\ known.packs \ live.packs \in SUBSET Packs
    BY <1>0 DEF PackTypes, Mans
  <2> QED
    BY <2>1 DEF SyncRefsApply
<1>4. q \in SReqs /\ q.pc = "refs" /\ q.man = live
  BY <1>0 DEF SReqs, IdleReq, PackTypes, Mans, Manifest
<1> HIDE DEF q
<1>5. /\ sreq' \in [Syncers -> SReqs] /\ sreq'[s] = q
      /\ \A t \in Syncers : t # s => sreq'[t] = sreq[t]
  BY <1>0, <1>1, <1>4, SyncTurn
<1>6. /\ pst' \in PSts /\ pst'.rev = live.rev /\ pst'.packsRev = pst.packsRev /\ pst'.remote = {}
      /\ held' \in [sync : Syncers \cup {"none"}, pack : Syncers \cup {"none"},
                    prune : Syncers \cup PackWriters \cup {"none"}]
      /\ held'.sync = s /\ held'.pack = held.pack /\ held'.prune = held.prune
  BY <1>0, <1>1, <1>3 DEF PackTypes, PSts, Mans, RevInv
<1>7. PackTypes'
  BY <1>0, <1>1, <1>5, <1>6 DEF PackTypes
<1>8. LineInv'
  BY <1>0, <1>1, <1>4, <1>5, HeldOnes, LineKeeps
<1>9. RevInv'
  <2>1. \A t \in Syncers : sreq[t].pc # "refs"
    BY <1>0, <1>1 DEF RevInv, PackAssumption
  <2>2. known.rev \in Nat /\ live.rev \in Nat /\ pst.packsRev \in Nat
    BY <1>0 DEF PackTypes, Mans, PSts
  <2>3. pst'.packsRev <= known.rev /\ known.rev <= pst'.rev
    BY <1>0, <1>1, <1>6, <2>2 DEF RevInv
  <2>4. \A t \in Syncers :
          IF sreq'[t].pc = "refs" THEN held'.sync = t /\ known.rev < sreq'[t].man.rev /\ sreq'[t].man.rev = pst'.rev
                                  ELSE sreq'[t].man.rev <= known.rev
    BY <1>0, <1>1, <1>4, <1>5, <1>6, <2>1, <2>2 DEF RevInv
  <2> QED
    BY <1>0, <1>1, <1>2, <1>6, <2>3, <2>4 DEF RevInv
<1>10. LockInv'
  BY <1>0, <1>1, <1>4, <1>5, <1>6 DEF LockInv, Phase, Pruning
<1>11. HalfInv' /\ StageInv'
  BY <1>0, <1>1, <1>5, <1>6, HalfKeeps, StageKeeps
<1>12. ReadyInv'
  BY <1>0, <1>1, <1>6 DEF ReadyInv, RevInv, PackTypes, Mans, PSts
<1>13. Usable' = Usable
  BY <1>0, <1>1, <1>6 DEF Usable, RevInv
<1>14. \A t \in Syncers : PhaseInv(t)' /\ GuardInv(t)'
  <2>1. PhaseInv(s)' /\ GuardInv(s)'
    BY <1>4, <1>5 DEF PhaseInv, GuardInv, Phase, Pruning, Guarded
  <2>2. ASSUME NEW t \in Syncers, t # s PROVE PhaseInv(t)'
    BY <1>1, <1>5, <2>2, PhaseKeeps DEF PackInv
  <2>3. ASSUME NEW t \in Syncers, t # s PROVE GuardInv(t)'
    <3>1. \A u \in Syncers : sreq'[u].pc \in Phase => sreq[u].pc \in Phase /\ sreq'[u].man = sreq[u].man
      BY <1>4, <1>5 DEF Phase
    <3> QED
      BY <1>5, <1>13, <2>3, <3>1, GuardKeeps DEF PackInv
  <2> QED
    BY <2>1, <2>2, <2>3
<1> QED
  BY <1>7, <1>8, <1>9, <1>10, <1>11, <1>12, <1>14 DEF PackInv

\* A sync installs the manifest it read.
LEMMA RefsInstallStep ==
    ASSUME PackAssumption, PackInv, NEW s \in Syncers, SyncRefsInstall(s)
    PROVE  PackInv'
<1> DEFINE q == [sreq[s] EXCEPT !.pc = "packs"]
<1>0. PackTypes /\ LineInv /\ RevInv /\ LockInv /\ HalfInv /\ StageInv /\ ReadyInv
  BY DEF PackInv
<1>1. /\ sreq[s].pc = "refs" /\ known' = sreq[s].man /\ held' = [held EXCEPT !.sync = "none"]
      /\ UNCHANGED <<live, pst, files, proven, stage, wreq>> /\ sreq[s] \in SReqs
  BY <1>0 DEF SyncRefsInstall, PackTypes
<1>2. sreq' = [sreq EXCEPT ![s] = q]
  BY <1>0 DEF SyncRefsInstall, PackTypes
<1>3. q \in SReqs /\ q.pc = "packs" /\ q.man = sreq[s].man
  BY <1>1 DEF SReqs
<1> HIDE DEF q
<1>4. /\ sreq' \in [Syncers -> SReqs] /\ sreq'[s] = q
      /\ \A t \in Syncers : t # s => sreq'[t] = sreq[t]
  BY <1>0, <1>2, <1>3, SyncTurn
<1>5. /\ held' \in [sync : Syncers \cup {"none"}, pack : Syncers \cup {"none"},
                    prune : Syncers \cup PackWriters \cup {"none"}]
      /\ held'.pack = held.pack /\ held'.prune = held.prune
  BY <1>0, <1>1 DEF PackTypes
<1>6. known' \in Mans
  BY <1>1 DEF SReqs
<1>7. PackTypes'
  BY <1>0, <1>1, <1>4, <1>5, <1>6 DEF PackTypes
<1>8. LineInv'
  BY <1>0, <1>1, <1>3, <1>4, HeldOnes, LineKeeps
<1>9. known.rev \in Nat /\ known'.rev \in Nat /\ pst.rev \in Nat /\ pst.packsRev \in Nat
  BY <1>0, <1>6 DEF PackTypes, Mans, PSts
<1>10. pst.packsRev < pst.rev /\ known'.rev = pst.rev /\ known.rev < known'.rev
  BY <1>0, <1>1, <1>9 DEF RevInv
<1>11. RevInv'
  <2>1. \A t \in Syncers : t # s => sreq[t].pc # "refs" /\ sreq[t].man.rev <= known.rev
    BY <1>0, <1>1 DEF RevInv
  <2>2. \A w \in PackWriters : wreq[w].pc # "landed"
    BY <1>0, <1>1 DEF RevInv
  <2>3. \A t \in Syncers : sreq'[t].pc # "refs" /\ sreq'[t].man.rev <= known'.rev
    <3>1. \A t \in Syncers : sreq[t].man.rev \in Nat
      BY <1>0 DEF PackTypes, SReqs, Mans
    <3> QED
      BY <1>1, <1>3, <1>4, <1>9, <1>10, <2>1, <3>1
  <2>4. pst'.packsRev <= known'.rev /\ known'.rev <= pst'.rev /\ pst'.remote = {}
    BY <1>0, <1>1, <1>9, <1>10 DEF RevInv
  <2> QED
    BY <1>0, <1>1, <2>2, <2>3, <2>4 DEF RevInv
<1>12. LockInv'
  BY <1>0, <1>1, <1>3, <1>4, <1>5 DEF LockInv, Phase, Pruning
<1>13. HalfInv' /\ StageInv'
  BY <1>0, <1>1, <1>4, <1>5, HalfKeeps, StageKeeps
<1>14. ReadyInv'
  BY <1>1, <1>9, <1>10 DEF ReadyInv
<1>15. Usable' = Usable
  BY <1>1 DEF Usable
<1>16. \A t \in Syncers : PhaseInv(t)' /\ GuardInv(t)'
  <2>1. PhaseInv(s)' /\ GuardInv(s)'
    BY <1>3, <1>4 DEF PhaseInv, GuardInv, Phase, Pruning, Guarded
  <2>2. ASSUME NEW t \in Syncers, t # s PROVE PhaseInv(t)'
    BY <1>1, <1>4, <2>2, PhaseKeeps DEF PackInv
  <2>3. ASSUME NEW t \in Syncers, t # s PROVE GuardInv(t)'
    <3>1. \A u \in Syncers : sreq'[u].pc \in Phase => sreq[u].pc \in Phase /\ sreq'[u].man = sreq[u].man
      BY <1>3, <1>4 DEF Phase
    <3> QED
      BY <1>4, <1>15, <2>3, <3>1, GuardKeeps DEF PackInv
  <2> QED
    BY <2>1, <2>2, <2>3
<1> QED
  BY <1>7, <1>8, <1>11, <1>12, <1>13, <1>14, <1>16 DEF PackInv

\* A request moves on and touches nothing: it is at rest, waits for its packs, or is guarded.
LEMMA RestStep ==
    ASSUME PackInv, NEW s \in Syncers, NEW q \in SReqs, sreq' = [sreq EXCEPT ![s] = q],
           q.pc \in {"idle", "packs"} \cup Guarded, q.man \in HeldMans, q.man.rev <= known.rev,
           sreq[s].pc \notin Phase \cup {"refs"},
           q.pc \in Guarded => /\ Covered(q.man.packs, Usable) /\ (q.pc = "reading" => q.saw \subseteq Usable)
                               /\ \A t \in Syncers : sreq[t].pc \in Phase => q.man.rev <= sreq[t].man.rev,
           UNCHANGED <<live, known, pst, files, proven, stage, held, wreq>>
    PROVE  PackInv'
<1>0. PackTypes /\ LineInv /\ RevInv /\ LockInv /\ HalfInv /\ StageInv /\ ReadyInv
  BY DEF PackInv
<1>1. /\ sreq' \in [Syncers -> SReqs] /\ sreq'[s] = q
      /\ \A t \in Syncers : t # s => sreq'[t] = sreq[t]
  BY <1>0, SyncTurn
<1>2. q.pc \notin Phase /\ q.pc \notin Pruning /\ q.pc # "refs"
  BY DEF Phase, Pruning, Guarded
<1>3. PackTypes'
  BY <1>0, <1>1 DEF PackTypes
<1>4. LineInv'
  BY <1>0, <1>1, HeldOnes, LineKeeps
<1>5. RevInv'
  <2>1. \A t \in Syncers :
          IF sreq'[t].pc = "refs" THEN held'.sync = t /\ known'.rev < sreq'[t].man.rev /\ sreq'[t].man.rev = pst'.rev
                                  ELSE sreq'[t].man.rev <= known'.rev
    BY <1>0, <1>1, <1>2 DEF RevInv
  <2>2. \A t \in Syncers : sreq'[t].pc = "refs" => sreq[t].pc = "refs"
    BY <1>1, <1>2
  <2> QED
    BY <1>0, <2>1, <2>2 DEF RevInv
<1>6. LockInv'
  BY <1>0, <1>1, <1>2 DEF LockInv
<1>7. HalfInv' /\ StageInv'
  <2>1. \A t \in Syncers : sreq[t].pc = "index" => sreq'[t].pc = "index" /\ sreq'[t].keep = sreq[t].keep
    BY <1>1 DEF Phase
  <2> QED
    BY <1>0, <2>1, HalfKeeps, StageKeeps
<1>8. Usable' = Usable
  BY DEF Usable
<1>9. ReadyInv'
  BY <1>0, <1>8 DEF ReadyInv
<1>10. \A t \in Syncers : PhaseInv(t)' /\ GuardInv(t)'
  <2>0. \A u \in Syncers : sreq'[u].pc \in Phase => u # s /\ sreq[u].pc \in Phase /\ sreq'[u].man = sreq[u].man
    BY <1>1, <1>2
  <2>1. PhaseInv(s)'
    BY <1>1, <1>2 DEF PhaseInv, Phase, Pruning
  <2>2. GuardInv(s)'
    BY <1>1, <1>8, <2>0 DEF GuardInv
  <2>3. ASSUME NEW t \in Syncers, t # s PROVE PhaseInv(t)'
    BY <1>1, <2>3, PhaseKeeps DEF PackInv
  <2>4. ASSUME NEW t \in Syncers, t # s PROVE GuardInv(t)'
    BY <1>1, <1>8, <2>0, <2>4, GuardKeeps DEF PackInv
  <2> QED
    BY <2>1, <2>2, <2>3, <2>4
<1> QED
  BY <1>3, <1>4, <1>5, <1>6, <1>7, <1>9, <1>10 DEF PackInv

\* Nothing new, packs that are ready, a guard taken or dropped.
LEMMA QuietSyncs ==
    ASSUME PackInv, NEW s \in Syncers, SyncRefsFresh(s) \/ SyncPacksReady(s) \/ TakeGuard(s) \/ DropGuard(s)
    PROVE  PackInv'
<1>0. PackTypes /\ RevInv /\ LockInv /\ ReadyInv /\ GuardInv(s) /\ sreq[s] \in SReqs
  BY DEF PackInv, PackTypes
<1>1. known.rev \in Nat /\ known \in Mans
  BY <1>0 DEF PackTypes, Mans
<1>2. CASE SyncRefsFresh(s) \/ DropGuard(s)
  <2>1. PICK q \in {IdleReq, [IdleReq EXCEPT !.pc = "packs"]} : sreq' = [sreq EXCEPT ![s] = q]
    BY <1>2 DEF SyncRefsFresh, DropGuard
  <2>2. q \in SReqs /\ q.pc \in {"idle", "packs"} /\ q.man = Manifest({}, 0) /\ q.man.rev = 0
    BY DEF IdleReq, SReqs, Mans, Manifest
  <2>3. /\ sreq[s].pc \notin Phase \cup {"refs"} /\ UNCHANGED <<live, known, pst, files, proven, stage, held, wreq>>
    BY <1>2 DEF SyncRefsFresh, DropGuard, Phase
  <2>4. q.pc \notin Guarded /\ q.man \in HeldMans /\ q.man.rev <= known.rev
    BY <1>1, <2>2, HeldOnes DEF Guarded
  <2> QED
    BY <2>1, <2>2, <2>3, <2>4, RestStep
<1>3. CASE SyncPacksReady(s)
  <2> DEFINE q == [sreq[s] EXCEPT !.pc = "guard", !.man = known]
  <2>1. /\ sreq[s].pc = "packs" /\ proven /\ pst.packsRev = pst.rev
        /\ UNCHANGED <<live, known, pst, files, proven, stage, held, wreq>>
    BY <1>3 DEF SyncPacksReady, level_satisfied, packs_ready
  <2>2. sreq' = [sreq EXCEPT ![s] = q]
    BY <1>0, <1>3 DEF SyncPacksReady, PackTypes
  <2>3. q \in SReqs /\ q.pc = "guard" /\ q.man = known
    BY <1>0, <1>1 DEF SReqs, Guarded
  <2> HIDE DEF q
  <2>4. Covered(q.man.packs, Usable) /\ \A t \in Syncers : sreq[t].pc \notin Phase
    BY <1>0, <2>1, <2>3 DEF ReadyInv, LockInv
  <2>5. sreq[s].pc \notin Phase \cup {"refs"} /\ q.pc \in Guarded /\ q.man \in HeldMans /\ q.man.rev <= known.rev
    BY <1>1, <2>1, <2>3, HeldOnes DEF Phase, Guarded
  <2> QED
    BY <2>1, <2>2, <2>3, <2>4, <2>5, RestStep
<1>4. CASE TakeGuard(s)
  <2> DEFINE q == [sreq[s] EXCEPT !.pc = "reading", !.saw = Usable \cap known.packs]
  <2>1. sreq[s].pc = "guard" /\ UNCHANGED <<live, known, pst, files, proven, stage, held, wreq>>
    BY <1>4 DEF TakeGuard
  <2>2. sreq' = [sreq EXCEPT ![s] = q]
    BY <1>0, <1>4 DEF TakeGuard, PackTypes
  <2>3. q \in SReqs /\ q.pc = "reading" /\ q.man = sreq[s].man /\ q.saw \subseteq Usable
    <3>1. Usable \cap known.packs \in SUBSET Packs
      BY <1>1 DEF Mans
    <3> QED
      BY <1>0, <3>1 DEF SReqs, Guarded
  <2> HIDE DEF q
  <2>4. /\ Covered(q.man.packs, Usable)
        /\ \A t \in Syncers : sreq[t].pc \in Phase => q.man.rev <= sreq[t].man.rev
    BY <1>0, <2>1, <2>3 DEF GuardInv, Guarded
  <2>5. sreq[s].pc \notin Phase \cup {"refs"} /\ q.pc \in Guarded /\ q.man \in HeldMans /\ q.man.rev <= known.rev
    BY <1>0, <2>1, <2>3, HeldOnes DEF Phase, Guarded, RevInv
  <2> QED
    BY <2>1, <2>2, <2>3, <2>4, <2>5, RestStep
<1> QED
  BY <1>2, <1>3, <1>4

\* A request under pack_mutex takes a step: what is left to show is about the files.
LEMMA PackTurn ==
    ASSUME PackInv, NEW s \in Syncers, NEW q \in SReqs, sreq' = [sreq EXCEPT ![s] = q],
           sreq[s].pc # "refs", q.pc # "refs", q.man \in HeldMans, q.man.rev <= known.rev,
           UNCHANGED <<live, known, stage, wreq>>,
           pst' \in PSts, pst'.rev = pst.rev, pst'.packsRev <= known.rev, pst'.remote = {},
           files' \in [pack : SUBSET Packs, idx : SUBSET Packs], proven' \in BOOLEAN,
           held' \in [sync : Syncers \cup {"none"}, pack : Syncers \cup {"none"},
                      prune : Syncers \cup PackWriters \cup {"none"}],
           held'.sync = held.sync, \A w \in PackWriters : held'.prune = w <=> held.prune = w,
           \A t \in Syncers : t # s => sreq[t].pc \notin Phase,
           q.pc \in Phase => held'.pack = s /\ ~proven',
           q.pc \in Pruning => held'.prune = s,
           \A w \in PackWriters : wreq[w].pc \in {"open", "ingested"} => ~proven',
           \A w \in PackWriters : wreq[w].pc \in Staged \cup {"ingested"} =>
               wreq[w].pack \in files'.pack /\ wreq[w].pack \in files'.idx,
           HalfInv', ReadyInv', PhaseInv(s)', \A t \in Syncers : GuardInv(t)'
    PROVE  PackInv'
<1>0. PackTypes /\ LineInv /\ RevInv /\ LockInv /\ StageInv
  BY DEF PackInv
<1>1. /\ sreq' \in [Syncers -> SReqs] /\ sreq'[s] = q
      /\ \A t \in Syncers : t # s => sreq'[t] = sreq[t]
  BY <1>0, SyncTurn
<1>2. PackTypes'
  BY <1>0, <1>1 DEF PackTypes
<1>3. LineInv'
  BY <1>0, <1>1, HeldOnes, LineKeeps
<1>4. RevInv'
  <2>1. \A t \in Syncers :
          IF sreq'[t].pc = "refs" THEN held'.sync = t /\ known'.rev < sreq'[t].man.rev /\ sreq'[t].man.rev = pst'.rev
                                  ELSE sreq'[t].man.rev <= known'.rev
    BY <1>0, <1>1 DEF RevInv
  <2>2. \A t \in Syncers : sreq'[t].pc = "refs" => sreq[t].pc = "refs"
    BY <1>1
  <2>3. pst'.packsRev <= known'.rev /\ known'.rev <= pst'.rev /\ pst'.remote = {}
    BY <1>0 DEF RevInv
  <2>4. \A w \in PackWriters : wreq'[w].pc = "landed" =>
          /\ wreq'[w].man.rev = known'.rev + 1
          /\ wreq'[w].man.packs = (known'.packs \ wreq'[w].sup) \cup {wreq'[w].pack}
          /\ \A t \in Syncers : sreq'[t].pc # "refs"
          /\ \A v \in PackWriters : wreq'[v].pc = "landed" => v = w
    BY <1>0, <2>2 DEF RevInv
  <2>5. \A w \in PackWriters : wreq'[w].pc # "idle" => ObjectsOf(wreq'[w].sup) \subseteq ObjectsOf({wreq'[w].pack})
    BY <1>0 DEF RevInv
  <2> QED
    BY <2>1, <2>3, <2>4, <2>5 DEF RevInv
<1>5. LockInv'
  <2>1. \A t \in Syncers : t # s => sreq'[t].pc \notin Phase /\ sreq'[t].pc \notin Pruning
    BY <1>1 DEF Phase, Pruning
  <2>2. \A t \in Syncers : (sreq'[t].pc \in Phase => held'.pack = t /\ ~proven')
                           /\ (sreq'[t].pc \in Pruning => held'.prune = t)
    BY <1>1, <2>1
  <2>3. \A w \in PackWriters : wreq'[w].pc \in {"open", "ingested"} => held'.prune = w /\ ~proven'
    BY <1>0 DEF LockInv
  <2> QED
    BY <2>2, <2>3 DEF LockInv
<1>6. StageInv'
  BY <1>0 DEF StageInv
<1>7. \A t \in Syncers : PhaseInv(t)'
  <2>1. \A t \in Syncers : t # s => PhaseInv(t)'
    BY <1>1 DEF PhaseInv, Phase, Pruning
  <2> QED
    BY <2>1
<1> QED
  BY <1>2, <1>3, <1>4, <1>5, <1>6, <1>7 DEF PackInv

\* reconcile_packs begins.
LEMMA PacksBeginStep ==
    ASSUME PacksAtHome, PackAssumption, PackInv, NEW s \in Syncers, SyncPacksBegin(s)
    PROVE  PackInv'
<1> DEFINE q == [sreq[s] EXCEPT !.pc = "install", !.man = known, !.todo = known.packs \ files.pack]
<1>0. PackTypes /\ RevInv /\ LockInv /\ HalfInv /\ StageInv /\ sreq[s] \in SReqs
  BY DEF PackInv, PackTypes
<1>1. known \in Mans /\ known.packs \subseteq Packs /\ known.rev \in Nat /\ pst \in PSts /\ pst.packsRev \in Nat
  BY <1>0 DEF PackTypes, Mans, PSts
<1>2. /\ sreq[s].pc = "packs" /\ held.pack = "none" /\ held' = [held EXCEPT !.pack = s] /\ proven' = FALSE
      /\ UNCHANGED <<live, known, files, stage, wreq>>
  BY DEF SyncPacksBegin
<1>3. {p \in known.packs \ files.pack : Plan[p] # "Remote"} = known.packs \ files.pack
      /\ {p \in known.packs : Plan[p] = "Remote"} = {}
  BY <1>1 DEF PacksAtHome
<1>4. sreq' = [sreq EXCEPT ![s] = q]
  BY <1>0, <1>3 DEF SyncPacksBegin, PackTypes
<1>5. pst' \in PSts /\ pst'.rev = pst.rev /\ pst'.packsRev = pst.packsRev /\ pst'.remote = {}
  BY <1>1, <1>3 DEF SyncPacksBegin, PSts
<1>6. q \in SReqs /\ q.pc = "install" /\ q.man = known /\ q.todo = known.packs \ files.pack
  BY <1>0, <1>1 DEF SReqs, Phase
<1> HIDE DEF q
<1>7. /\ sreq' \in [Syncers -> SReqs] /\ sreq'[s] = q
      /\ \A t \in Syncers : t # s => sreq'[t] = sreq[t]
  BY <1>0, <1>4, <1>6, SyncTurn
<1>8. /\ held' \in [sync : Syncers \cup {"none"}, pack : Syncers \cup {"none"},
                    prune : Syncers \cup PackWriters \cup {"none"}]
      /\ held'.sync = held.sync /\ held'.prune = held.prune /\ held'.pack = s
  BY <1>0, <1>2 DEF PackTypes
<1>9. \A t \in Syncers : sreq[t].pc \notin Phase
  BY <1>0, <1>2 DEF LockInv, PackAssumption
<1>10. HalfInv' /\ ReadyInv'
  <2>1. \A t \in Syncers : sreq[t].pc # "index"
    BY <1>9 DEF Phase
  <2> QED
    BY <1>0, <1>2, <2>1, HalfKeeps DEF ReadyInv
<1>11. PhaseInv(s)'
  BY <1>2, <1>6, <1>7 DEF PhaseInv, Pruning
<1>12. Usable' = Usable
  BY <1>0, <1>2, <1>5 DEF Usable, RevInv
<1>13. \A t \in Syncers : GuardInv(t)'
  <2>1. GuardInv(s)'
    BY <1>6, <1>7 DEF GuardInv, Guarded
  <2>2. ASSUME NEW t \in Syncers, t # s PROVE GuardInv(t)'
    <3>1. sreq[t].pc \in Guarded => sreq[t].man.rev <= known.rev
      BY <1>0 DEF RevInv, Guarded
    <3>2. \A u \in Syncers : sreq'[u].pc \in Phase => u = s
      BY <1>7, <1>9
    <3>3. \A u \in Syncers : sreq'[u].pc \in Phase => (sreq[t].pc \in Guarded => sreq[t].man.rev <= sreq'[u].man.rev)
      BY <1>6, <1>7, <3>1, <3>2
    <3> QED
      BY <1>7, <1>12, <2>2, <3>3, GuardKeeps DEF PackInv
  <2> QED
    BY <2>1, <2>2
<1>14. pst'.packsRev <= known.rev /\ q.man \in HeldMans /\ q.man.rev <= known.rev /\ q.pc # "refs" /\ q.pc \notin Pruning
  BY <1>0, <1>1, <1>5, <1>6, HeldOnes DEF RevInv, Pruning
<1>15. files' \in [pack : SUBSET Packs, idx : SUBSET Packs] /\ proven' \in BOOLEAN
  BY <1>0, <1>2 DEF PackTypes
<1>16. \A w \in PackWriters : wreq[w].pc \in Staged \cup {"ingested"} =>
               wreq[w].pack \in files'.pack /\ wreq[w].pack \in files'.idx
  BY <1>0, <1>2 DEF StageInv
<1> QED
  BY <1>2, <1>4, <1>5, <1>6, <1>8, <1>9, <1>10, <1>11, <1>13, <1>14, <1>15, <1>16, PackTurn

\* A pack's rename, and its index's: files only come.
LEMMA InstallTurn ==
    ASSUME PackInv, NEW s \in Syncers, NEW q \in SReqs, sreq' = [sreq EXCEPT ![s] = q],
           sreq[s].pc \in {"install", "index"}, q.pc \in {"install", "index"}, q.man = sreq[s].man,
           UNCHANGED <<live, known, pst, proven, stage, held, wreq>>,
           files' \in [pack : SUBSET Packs, idx : SUBSET Packs],
           files.pack \subseteq files'.pack, files.idx \subseteq files'.idx,
           \A p \in files'.pack \ files'.idx : q.pc = "index" /\ p \in q.keep,
           \A p \in q.man.packs : p \in files'.pack \/ p \in q.todo
    PROVE  PackInv'
<1>0. PackTypes /\ RevInv /\ LockInv /\ StageInv /\ pst \in PSts /\ known \in Mans
  BY DEF PackInv, PackTypes
<1>1. /\ sreq' \in [Syncers -> SReqs] /\ sreq'[s] = q
      /\ \A t \in Syncers : t # s => sreq'[t] = sreq[t]
  BY <1>0, SyncTurn
<1>2. sreq[s].pc \in Phase /\ q.pc \in Phase /\ q.pc \notin Pruning /\ q.pc \notin Guarded /\ q.pc # "refs" /\ sreq[s].pc # "refs"
  BY DEF Phase, Pruning, Guarded
<1>3. \A t \in Syncers : t # s => sreq[t].pc \notin Phase
  BY <1>0, <1>2, OnePhase
<1>4. held.pack = s /\ ~proven
  BY <1>0, <1>2 DEF LockInv
<1>5. HalfInv' /\ ReadyInv'
  BY <1>1, <1>4 DEF HalfInv, ReadyInv
<1>6. PhaseInv(s)'
  BY <1>1, <1>2 DEF PhaseInv, Pruning
<1>7. Usable \subseteq Usable'
  BY <1>0, UsableGrows DEF RevInv
<1>8. \A t \in Syncers : GuardInv(t)'
  <2>1. GuardInv(s)'
    BY <1>1, <1>2 DEF GuardInv
  <2>2. ASSUME NEW t \in Syncers, t # s PROVE GuardInv(t)'
    <3>1. \A u \in Syncers : sreq'[u].pc \in Phase => sreq[u].pc \in Phase /\ sreq'[u].man = sreq[u].man
      BY <1>1, <1>2
    <3> QED
      BY <1>1, <1>7, <2>2, <3>1, GuardKeeps DEF PackInv
  <2> QED
    BY <2>1, <2>2
<1>9. pst'.packsRev <= known.rev /\ q.man \in HeldMans /\ q.man.rev <= known.rev /\ pst'.remote = {}
  BY <1>0, <1>2, HeldOnes DEF RevInv
<1>10. /\ held' \in [sync : Syncers \cup {"none"}, pack : Syncers \cup {"none"},
                    prune : Syncers \cup PackWriters \cup {"none"}]
       /\ proven' \in BOOLEAN /\ ~proven' /\ held'.pack = s
  BY <1>0, <1>4 DEF PackTypes
<1>11. \A w \in PackWriters : wreq[w].pc \in Staged \cup {"ingested"} =>
               wreq[w].pack \in files'.pack /\ wreq[w].pack \in files'.idx
  BY <1>0 DEF StageInv
<1> QED
  BY <1>0, <1>2, <1>3, <1>5, <1>6, <1>8, <1>9, <1>10, <1>11, PackTurn

\* install_pack, or a link into the mount: the pack.
LEMMA RenameStep ==
    ASSUME PackInv, NEW s \in Syncers, NEW p \in Packs, RenamePack(s, p)
    PROVE  PackInv'
<1> DEFINE q == [sreq[s] EXCEPT !.todo = sreq[s].todo \ {p},
                                !.pc = IF p \in files.pack THEN sreq[s].pc ELSE "index",
                                !.keep = IF p \in files.pack THEN sreq[s].keep ELSE {p}]
<1>0. PackTypes /\ LockInv /\ HalfInv /\ PhaseInv(s) /\ sreq[s] \in SReqs
  BY DEF PackInv, PackTypes
<1>1. /\ sreq[s].pc = "install" /\ files' = [files EXCEPT !.pack = files.pack \cup {p}]
      /\ UNCHANGED <<live, known, pst, proven, stage, held, wreq>>
  BY DEF RenamePack
<1>2. sreq' = [sreq EXCEPT ![s] = q]
  BY <1>0 DEF RenamePack, PackTypes
<1>3. /\ files' \in [pack : SUBSET Packs, idx : SUBSET Packs]
      /\ files'.pack = files.pack \cup {p} /\ files'.idx = files.idx
  BY <1>0, <1>1 DEF PackTypes
<1>4. /\ q \in SReqs /\ q.pc \in {"install", "index"} /\ q.man = sreq[s].man /\ q.todo = sreq[s].todo \ {p}
      /\ p \notin files.pack => q.pc = "index" /\ q.keep = {p}
  BY <1>0, <1>1 DEF SReqs, Phase
<1> HIDE DEF q
<1>5. files.pack \subseteq files.idx
  BY <1>0, <1>1, NoHalf DEF Phase
<1>6. \A x \in files'.pack \ files'.idx : q.pc = "index" /\ x \in q.keep
  BY <1>3, <1>4, <1>5
<1>7. \A x \in q.man.packs : x \in files'.pack \/ x \in q.todo
  BY <1>0, <1>1, <1>3, <1>4 DEF PhaseInv, Phase
<1> QED
  BY <1>1, <1>2, <1>3, <1>4, <1>6, <1>7, InstallTurn

\* ... and its index.
LEMMA InstallIdxStep ==
    ASSUME PackInv, NEW s \in Syncers, SyncInstallIdx(s)
    PROVE  PackInv'
<1> DEFINE q == [sreq[s] EXCEPT !.pc = "install", !.keep = {}]
<1>0. PackTypes /\ LockInv /\ HalfInv /\ PhaseInv(s) /\ sreq[s] \in SReqs
  BY DEF PackInv, PackTypes
<1>1. /\ sreq[s].pc = "index" /\ files' = [files EXCEPT !.idx = files.idx \cup sreq[s].keep]
      /\ UNCHANGED <<live, known, pst, proven, stage, held, wreq>>
  BY DEF SyncInstallIdx
<1>2. sreq' = [sreq EXCEPT ![s] = q]
  BY <1>0 DEF SyncInstallIdx, PackTypes
<1>3. /\ files' \in [pack : SUBSET Packs, idx : SUBSET Packs]
      /\ files'.pack = files.pack /\ files'.idx = files.idx \cup sreq[s].keep
  BY <1>0, <1>1 DEF PackTypes, SReqs
<1>4. q \in SReqs /\ q.pc = "install" /\ q.man = sreq[s].man /\ q.todo = sreq[s].todo
  BY <1>0 DEF SReqs, Phase
<1> HIDE DEF q
<1>5. \A x \in files.pack \ files.idx : x \in sreq[s].keep
  BY <1>0, <1>1, OnePhase DEF HalfInv, Phase
<1>6. files'.pack \ files'.idx = {}
  BY <1>3, <1>5
<1>7. \A x \in q.man.packs : x \in files'.pack \/ x \in q.todo
  BY <1>0, <1>1, <1>3, <1>4 DEF PhaseInv, Phase
<1> QED
  BY <1>1, <1>2, <1>3, <1>4, <1>6, <1>7, InstallTurn

\* pack_mutex is released: a download failed, or a writer has prune_lock.
LEMMA LeaveStep ==
    ASSUME PackAssumption, PackInv, NEW s \in Syncers, SyncPacksFail(s) \/ SyncPruneBusy(s)
    PROVE  PackInv'
<1>0. PackTypes /\ RevInv /\ LockInv /\ HalfInv /\ StageInv /\ PhaseInv(s) /\ sreq[s] \in SReqs /\ pst \in PSts /\ known \in Mans
  BY DEF PackInv, PackTypes
<1>1. /\ sreq[s].pc = "install" /\ held' = [held EXCEPT !.pack = "none"]
      /\ UNCHANGED <<live, known, files, proven, stage, wreq>>
  BY DEF SyncPacksFail, SyncPruneBusy
<1>2. PICK b \in BOOLEAN : pst' = [pst EXCEPT !.dirty = b]
  <2>1. pst.dirty \in BOOLEAN /\ [pst EXCEPT !.dirty = pst.dirty] = pst
    BY <1>0 DEF PSts
  <2>2. CASE SyncPacksFail(s)
    BY <2>1, <2>2 DEF SyncPacksFail
  <2>3. CASE SyncPruneBusy(s)
    BY <2>1, <2>3 DEF SyncPruneBusy
  <2> QED
    BY <2>2, <2>3
<1>3. pst' \in PSts /\ pst'.rev = pst.rev /\ pst'.packsRev = pst.packsRev /\ pst'.remote = {} /\ pst'.pending = pst.pending
  BY <1>0, <1>2 DEF PSts, RevInv
<1>4. PICK q \in SReqs :
          /\ sreq' = [sreq EXCEPT ![s] = q]
          /\ \/ q.pc = "idle" /\ q.man = Manifest({}, 0)
             \/ q.pc = "guard" /\ q.man = sreq[s].man /\ sreq[s].todo = {}
  <2>1. CASE SyncPacksFail(s)
    <3>1. IdleReq \in SReqs /\ IdleReq.pc = "idle" /\ IdleReq.man = Manifest({}, 0)
      BY DEF IdleReq, SReqs, Manifest, Mans
    <3>2. sreq' = [sreq EXCEPT ![s] = IdleReq]
      BY <2>1 DEF SyncPacksFail
    <3> QED
      BY <3>1, <3>2
  <2>2. CASE SyncPruneBusy(s)
    <3> DEFINE r == [sreq[s] EXCEPT !.pc = "guard"]
    <3>1. sreq' = [sreq EXCEPT ![s] = r] /\ sreq[s].todo = {}
      BY <1>0, <2>2 DEF SyncPruneBusy, PackTypes
    <3>2. r \in SReqs /\ r.pc = "guard" /\ r.man = sreq[s].man
      BY <1>0 DEF SReqs, Guarded
    <3> QED
      BY <3>1, <3>2
  <2> QED
    BY <2>1, <2>2
<1>5. /\ sreq' \in [Syncers -> SReqs] /\ sreq'[s] = q
      /\ \A t \in Syncers : t # s => sreq'[t] = sreq[t]
  BY <1>0, <1>4, SyncTurn
<1>6. sreq[s].pc \in Phase /\ sreq[s].pc \in Phase \ {"index"}
  BY <1>1 DEF Phase
<1>7. (\A t \in Syncers : t # s => sreq[t].pc \notin Phase) /\ files.pack \subseteq files.idx /\ ~proven
  <2>1. files.pack \subseteq files.idx
    BY <1>0, <1>6, NoHalf
  <2> QED
    BY <1>0, <1>6, <2>1, OnePhase DEF LockInv
<1>8. q.pc \notin Phase /\ q.pc \notin Pruning /\ q.pc # "refs" /\ sreq[s].pc # "refs"
  BY <1>1, <1>4 DEF Phase, Pruning
<1>9. Usable' = Usable /\ Usable = files.pack
  BY <1>0, <1>1, <1>3, <1>7 DEF Usable, RevInv
<1>10. HalfInv' /\ ReadyInv' /\ PhaseInv(s)'
  <2>1. HalfInv'
    BY <1>1, <1>7 DEF HalfInv
  <2>2. ReadyInv'
    BY <1>1, <1>7 DEF ReadyInv
  <2>3. PhaseInv(s)'
    BY <1>5, <1>8 DEF PhaseInv, Pruning
  <2> QED
    BY <2>1, <2>2, <2>3
<1>11. \A t \in Syncers : GuardInv(t)'
  <2>0. \A u \in Syncers : sreq'[u].pc \notin Phase
    BY <1>5, <1>7, <1>8
  <2>1. GuardInv(s)'
    <3>1. CASE q.pc = "idle"
      BY <1>5, <3>1 DEF GuardInv, Guarded
    <3>2. CASE q.pc = "guard"
      <4>1. q.man.packs \subseteq files.pack
        BY <1>0, <1>4, <1>6, <3>2 DEF PhaseInv
      <4>2. Covered(q.man.packs, Usable)
        BY <1>9, <4>1, ObjectsGrow DEF Covered
      <4> QED
        BY <1>5, <1>9, <2>0, <3>2, <4>2 DEF GuardInv
    <3> QED
      BY <1>4, <3>1, <3>2
  <2>2. ASSUME NEW t \in Syncers, t # s PROVE GuardInv(t)'
    BY <1>5, <1>9, <2>0, <2>2, GuardKeeps DEF PackInv
  <2> QED
    BY <2>1, <2>2
<1>12. pst'.packsRev <= known.rev /\ q.man \in HeldMans /\ q.man.rev <= known.rev
  BY <1>0, <1>1, <1>3, <1>4, HeldOnes DEF RevInv, Manifest, Mans
<1>13. /\ held' \in [sync : Syncers \cup {"none"}, pack : Syncers \cup {"none"},
                     prune : Syncers \cup PackWriters \cup {"none"}]
       /\ held'.sync = held.sync /\ held'.prune = held.prune
       /\ proven' \in BOOLEAN /\ ~proven' /\ files' \in [pack : SUBSET Packs, idx : SUBSET Packs]
  BY <1>0, <1>1, <1>7 DEF PackTypes
<1>14. \A w \in PackWriters : wreq[w].pc \in Staged \cup {"ingested"} =>
               wreq[w].pack \in files'.pack /\ wreq[w].pack \in files'.idx
  BY <1>0, <1>1 DEF StageInv
<1> QED
  BY <1>1, <1>3, <1>4, <1>7, <1>8, <1>10, <1>11, <1>12, <1>13, <1>14, PackTurn

\* The scan of what the manifest does not list, with prune_lock.
LEMMA PruneScanStep ==
    ASSUME PackAssumption, PackInv, NEW s \in Syncers, SyncPruneScan(s)
    PROVE  PackInv'
<1> DEFINE gone == (pst.pending \cup files.pack) \ sreq[s].man.packs
           busy == {p \in gone : stage[p] > 0}
           q == [sreq[s] EXCEPT !.pc = "prune", !.drop = gone \ busy, !.keep = busy]
<1>0. PackTypes /\ RevInv /\ LockInv /\ HalfInv /\ StageInv /\ PhaseInv(s) /\ sreq[s] \in SReqs /\ pst \in PSts /\ known \in Mans
  BY DEF PackInv, PackTypes
<1>1. /\ sreq[s].pc = "install" /\ sreq[s].todo = {} /\ held.prune = "none" /\ held' = [held EXCEPT !.prune = s]
      /\ UNCHANGED <<live, known, files, proven, stage, wreq>> /\ pst' = [pst EXCEPT !.pending = {}]
  BY DEF SyncPruneScan
<1>2. sreq' = [sreq EXCEPT ![s] = q]
  BY <1>0 DEF SyncPruneScan, PackTypes
<1>3. pst' \in PSts /\ pst'.rev = pst.rev /\ pst'.packsRev = pst.packsRev /\ pst'.remote = {}
  BY <1>0, <1>1 DEF PSts, RevInv
<1>4. gone \in SUBSET Packs
  BY <1>0 DEF PackTypes, PSts
<1>5. /\ q \in SReqs /\ q.pc = "prune" /\ q.man = sreq[s].man /\ q.todo = {} /\ q.drop \cap q.man.packs = {}
      /\ files.pack \subseteq q.man.packs \cup q.drop \cup q.keep
  <2>1. busy \in SUBSET Packs /\ gone \ busy \in SUBSET Packs
    BY <1>4
  <2>2. q \in SReqs
    BY <1>0, <2>1 DEF SReqs, Phase
  <2>3. q.pc = "prune" /\ q.man = sreq[s].man /\ q.todo = {} /\ q.drop = gone \ busy /\ q.keep = busy
    BY <1>0, <1>1 DEF SReqs
  <2>4. files.pack \subseteq sreq[s].man.packs \cup (gone \ busy) \cup busy /\ (gone \ busy) \cap sreq[s].man.packs = {}
    OBVIOUS
  <2> HIDE DEF q, gone, busy
  <2> QED
    BY <2>2, <2>3, <2>4
<1> HIDE DEF q
<1>6. /\ sreq' \in [Syncers -> SReqs] /\ sreq'[s] = q
      /\ \A t \in Syncers : t # s => sreq'[t] = sreq[t]
  BY <1>0, <1>2, <1>5, SyncTurn
<1>7. sreq[s].pc \in Phase /\ sreq[s].pc \in Phase \ {"index"} /\ sreq[s].pc # "refs"
  BY <1>1 DEF Phase
<1>8. q.pc \in Phase /\ q.pc \in Pruning /\ q.pc # "refs" /\ q.pc \notin Guarded
  BY <1>5 DEF Phase, Pruning, Guarded
<1>9. (\A t \in Syncers : t # s => sreq[t].pc \notin Phase) /\ files.pack \subseteq files.idx /\ ~proven /\ held.pack = s
  <2>1. files.pack \subseteq files.idx
    BY <1>0, <1>7, NoHalf
  <2> QED
    BY <1>0, <1>7, <2>1, OnePhase DEF LockInv
<1>10. Usable' = Usable
  BY <1>0, <1>1, <1>3 DEF Usable, RevInv
<1>11. HalfInv' /\ ReadyInv' /\ PhaseInv(s)'
  <2>1. HalfInv' /\ ReadyInv'
    BY <1>1, <1>9 DEF HalfInv, ReadyInv
  <2>2. \A p \in q.man.packs : p \in files'.pack
    BY <1>0, <1>1, <1>5, <1>7 DEF PhaseInv
  <2>3. PhaseInv(s)'
    BY <1>1, <1>5, <1>6, <2>2 DEF PhaseInv
  <2> QED
    BY <2>1, <2>3
<1>12. \A t \in Syncers : GuardInv(t)'
  <2>1. GuardInv(s)'
    BY <1>6, <1>8 DEF GuardInv
  <2>2. ASSUME NEW t \in Syncers, t # s PROVE GuardInv(t)'
    <3>1. \A u \in Syncers : sreq'[u].pc \in Phase => sreq[u].pc \in Phase /\ sreq'[u].man = sreq[u].man
      BY <1>5, <1>6, <1>7
    <3> QED
      BY <1>6, <1>10, <2>2, <3>1, GuardKeeps DEF PackInv
  <2> QED
    BY <2>1, <2>2
<1>13. pst'.packsRev <= known.rev /\ q.man \in HeldMans /\ q.man.rev <= known.rev
  BY <1>0, <1>3, <1>5, <1>7, HeldOnes DEF RevInv
<1>14. /\ held' \in [sync : Syncers \cup {"none"}, pack : Syncers \cup {"none"},
                     prune : Syncers \cup PackWriters \cup {"none"}]
       /\ held'.sync = held.sync /\ held'.pack = s /\ held'.prune = s
       /\ proven' \in BOOLEAN /\ ~proven' /\ files' \in [pack : SUBSET Packs, idx : SUBSET Packs]
  BY <1>0, <1>1, <1>9 DEF PackTypes
<1>15. \A w \in PackWriters : held'.prune = w <=> held.prune = w
  BY <1>1, <1>14 DEF PackAssumption
<1>16. \A w \in PackWriters : wreq[w].pc \in Staged \cup {"ingested"} =>
               wreq[w].pack \in files'.pack /\ wreq[w].pack \in files'.idx
  BY <1>0, <1>1 DEF StageInv
<1> QED
  BY <1>1, <1>2, <1>3, <1>5, <1>7, <1>8, <1>9, <1>11, <1>12, <1>13, <1>14, <1>15, <1>16, PackTurn

\* What is not listed, not staged and not read is removed.
LEMMA PruneRemoveStep ==
    ASSUME PackAssumption, PackInv, NEW s \in Syncers, SyncPruneRemove(s)
    PROVE  PackInv'
<1> DEFINE safe == {p \in sreq[s].drop : p \notin known.packs /\ stage[p] = 0}
           now  == IF NoReaders THEN safe ELSE {}
           q == [sreq[s] EXCEPT !.pc = "finish", !.drop = {}, !.keep = sreq[s].keep \cup (sreq[s].drop \ now)]
<1>0. PackTypes /\ LineInv /\ RevInv /\ LockInv /\ HalfInv /\ StageInv /\ PhaseInv(s) /\ sreq[s] \in SReqs /\ pst \in PSts /\ known \in Mans
  BY DEF PackInv, PackTypes
<1>1. sreq[s].pc = "prune" /\ UNCHANGED <<live, known, pst, proven, stage, held, wreq>>
  BY DEF SyncPruneRemove
<1>2. files' = [pack |-> files.pack \ now, idx |-> files.idx \ now] /\ sreq' = [sreq EXCEPT ![s] = q]
  BY <1>0 DEF SyncPruneRemove, PackTypes
<1>3. now \subseteq sreq[s].drop /\ (\A p \in now : stage[p] = 0) /\ (~NoReaders => now = {})
  OBVIOUS
<1>4. /\ q \in SReqs /\ q.pc = "finish" /\ q.man = sreq[s].man /\ q.todo = sreq[s].todo /\ q.drop = {}
      /\ q.keep = sreq[s].keep \cup (sreq[s].drop \ now)
  <2>1. sreq[s].keep \cup (sreq[s].drop \ now) \in SUBSET Packs
    BY <1>0 DEF SReqs
  <2> HIDE DEF now
  <2> QED
    BY <1>0, <2>1 DEF SReqs, Phase
<1>5. files'.pack = files.pack \ now /\ files'.idx = files.idx \ now
  BY <1>2
<1>6. files' \in [pack : SUBSET Packs, idx : SUBSET Packs]
  <2> HIDE DEF now
  <2>1. files.pack \ now \in SUBSET Packs /\ files.idx \ now \in SUBSET Packs
    BY <1>0 DEF PackTypes
  <2> QED
    BY <1>2, <2>1
<1> HIDE DEF q, now, safe
<1>7. /\ sreq' \in [Syncers -> SReqs] /\ sreq'[s] = q
      /\ \A t \in Syncers : t # s => sreq'[t] = sreq[t]
  BY <1>0, <1>2, <1>4, SyncTurn
<1>8. sreq[s].pc \in Phase /\ sreq[s].pc \in Phase \ {"index"} /\ sreq[s].pc \in Pruning /\ sreq[s].pc # "refs"
  BY <1>1 DEF Phase, Pruning
<1>9. q.pc \in Phase /\ q.pc \in Pruning /\ q.pc # "refs" /\ q.pc \notin Guarded
  BY <1>4 DEF Phase, Pruning, Guarded
<1>10. /\ \A t \in Syncers : t # s => sreq[t].pc \notin Phase
       /\ files.pack \subseteq files.idx /\ ~proven /\ held.pack = s /\ held.prune = s
  <2>1. files.pack \subseteq files.idx
    BY <1>0, <1>8, NoHalf
  <2> QED
    BY <1>0, <1>8, <2>1, OnePhase DEF LockInv
<1>11. Usable = files.pack /\ Usable' = files'.pack
  <2>1. files'.pack \subseteq files'.idx
    BY <1>5, <1>10
  <2> QED
    BY <1>0, <1>1, <1>10, <2>1 DEF Usable, RevInv
<1>12. \A p \in q.man.packs : p \in files'.pack
  BY <1>0, <1>3, <1>4, <1>5, <1>8 DEF PhaseInv
<1>13. HalfInv' /\ ReadyInv' /\ PhaseInv(s)'
  <2>1. HalfInv'
    BY <1>5, <1>10 DEF HalfInv
  <2>2. ReadyInv'
    BY <1>1, <1>10 DEF ReadyInv
  <2>3. files'.pack \subseteq q.man.packs \cup q.drop \cup q.keep /\ q.todo = {}
    BY <1>0, <1>4, <1>5, <1>8 DEF PhaseInv
  <2>4. PhaseInv(s)'
    BY <1>4, <1>7, <1>12, <2>3 DEF PhaseInv
  <2> QED
    BY <2>1, <2>2, <2>4
<1>14. \A t \in Syncers : GuardInv(t)'
  <2>0. \A u \in Syncers : sreq'[u].pc \in Phase => u = s
    BY <1>7, <1>10
  <2>1. GuardInv(s)'
    BY <1>7, <1>9 DEF GuardInv
  <2>2. ASSUME NEW t \in Syncers, t # s, sreq[t].pc \in Guarded PROVE GuardInv(t)'
    <3>1. GuardInv(t) /\ sreq[t].man.rev <= sreq[s].man.rev
      BY <1>8, <2>2 DEF PackInv, GuardInv
    <3>2. Covered(sreq[t].man.packs, sreq[s].man.packs)
      BY <1>0, <3>1, HeldOnes DEF LineInv, Ordered, Covered
    <3>3. Covered(sreq[s].man.packs, Usable')
      BY <1>4, <1>11, <1>12, ObjectsGrow DEF Covered
    <3>4. Covered(sreq'[t].man.packs, Usable')
      BY <1>7, <2>2, <3>2, <3>3 DEF Covered
    <3>5. sreq[t].pc = "reading" => sreq[t].saw \subseteq Usable'
      <4>1. sreq[t].pc = "reading" => now = {}
        BY <1>3, <2>2 DEF NoReaders
      <4> QED
        BY <1>5, <1>11, <2>2, <3>1, <4>1 DEF GuardInv
    <3>6. \A u \in Syncers : sreq'[u].pc \in Phase => sreq'[t].man.rev <= sreq'[u].man.rev
      BY <1>4, <1>7, <2>0, <2>2, <3>1
    <3> QED
      BY <1>7, <2>2, <3>4, <3>5, <3>6 DEF GuardInv
  <2>3. ASSUME NEW t \in Syncers, t # s, sreq[t].pc \notin Guarded PROVE GuardInv(t)'
    BY <1>7, <2>3 DEF GuardInv
  <2> QED
    BY <2>1, <2>2, <2>3
<1>15. pst'.packsRev <= known.rev /\ q.man \in HeldMans /\ q.man.rev <= known.rev /\ pst'.remote = {}
  BY <1>0, <1>1, <1>4, <1>8, HeldOnes DEF RevInv
<1>16. /\ held' \in [sync : Syncers \cup {"none"}, pack : Syncers \cup {"none"},
                     prune : Syncers \cup PackWriters \cup {"none"}]
       /\ held'.pack = s /\ held'.prune = s /\ proven' \in BOOLEAN /\ ~proven'
  BY <1>0, <1>1, <1>10 DEF PackTypes
<1>17. ASSUME NEW w \in PackWriters, wreq[w].pc \in Staged \cup {"ingested"}
       PROVE  wreq[w].pack \in files'.pack /\ wreq[w].pack \in files'.idx
  <2>1. wreq[w].pc # "ingested"
    BY <1>0, <1>10 DEF LockInv, PackAssumption
  <2>2. wreq[w].pc \in Staged
    BY <1>17, <2>1
  <2>3. stage[wreq[w].pack] # 0
    <3>1. wreq[w].guard \in 0 .. 2
      BY <1>0 DEF PackTypes, WReqs
    <3> QED
      BY <1>0, <2>2, <3>1 DEF StageInv
  <2>4. wreq[w].pack \notin now
    BY <1>3, <2>3
  <2> QED
    BY <1>0, <1>5, <1>17, <2>4 DEF StageInv
<1> QED
  BY <1>0, <1>1, <1>2, <1>4, <1>6, <1>8, <1>9, <1>10, <1>13, <1>14, <1>15, <1>16, <1>17, PackTurn

\* The end of reconcile_packs.
LEMMA PruneFinishStep ==
    ASSUME PackAssumption, PackInv, NEW s \in Syncers, SyncPruneFinish(s)
    PROVE  PackInv'
<1> DEFINE q == [sreq[s] EXCEPT !.pc = "guard", !.keep = {}]
           left == IF sreq[s].keep = {} THEN pst.pending ELSE sreq[s].keep
<1>0. PackTypes /\ LineInv /\ RevInv /\ LockInv /\ HalfInv /\ StageInv /\ PhaseInv(s) /\ sreq[s] \in SReqs /\ pst \in PSts /\ known \in Mans
  BY DEF PackInv, PackTypes
<1>1. /\ sreq[s].pc = "finish" /\ held' = [held EXCEPT !.pack = "none", !.prune = "none"]
      /\ UNCHANGED <<live, known, files, stage, wreq>>
      /\ proven' = (proven \/ (pst'.packsRev = pst'.rev /\ pst'.pending = {}))
  BY DEF SyncPruneFinish
<1>2. sreq' = [sreq EXCEPT ![s] = q]
  BY <1>0 DEF SyncPruneFinish, PackTypes
<1>3. pst' = [pst EXCEPT !.pending = left, !.packsRev = sreq[s].man.rev, !.dirty = FALSE]
  BY DEF SyncPruneFinish
<1>4. left \in SUBSET Packs /\ sreq[s].keep \subseteq left
  BY <1>0 DEF PSts, SReqs
<1> HIDE DEF left
<1>5. sreq[s].man \in Mans /\ sreq[s].man.rev \in Nat /\ known.rev \in Nat /\ pst.rev \in Nat
  BY <1>0 DEF SReqs, Mans, PSts
<1>6. pst' \in PSts /\ pst'.rev = pst.rev /\ pst'.packsRev = sreq[s].man.rev /\ pst'.remote = {} /\ pst'.pending = left
  BY <1>0, <1>3, <1>4, <1>5 DEF PSts, RevInv
<1>7. q \in SReqs /\ q.pc = "guard" /\ q.man = sreq[s].man
  BY <1>0 DEF SReqs, Guarded
<1> HIDE DEF q
<1>8. /\ sreq' \in [Syncers -> SReqs] /\ sreq'[s] = q
      /\ \A t \in Syncers : t # s => sreq'[t] = sreq[t]
  BY <1>0, <1>2, <1>7, SyncTurn
<1>9. sreq[s].pc \in Phase /\ sreq[s].pc \in Phase \ {"index"} /\ sreq[s].pc \in Pruning /\ sreq[s].pc # "refs"
  BY <1>1 DEF Phase, Pruning
<1>10. q.pc \notin Phase /\ q.pc \notin Pruning /\ q.pc # "refs"
  BY <1>7 DEF Phase, Pruning
<1>11. /\ \A t \in Syncers : t # s => sreq[t].pc \notin Phase
       /\ files.pack \subseteq files.idx /\ held.pack = s /\ held.prune = s
  <2>1. files.pack \subseteq files.idx
    BY <1>0, <1>9, NoHalf
  <2> QED
    BY <1>0, <1>9, <2>1, OnePhase DEF LockInv
<1>12. Usable = files.pack /\ Usable' = Usable
  BY <1>0, <1>1, <1>6, <1>11 DEF Usable, RevInv
<1>13. sreq[s].man.rev <= known.rev /\ known.rev <= pst.rev /\ sreq[s].man.packs \subseteq Usable
  BY <1>0, <1>9, <1>12 DEF RevInv, PhaseInv
<1>14. ReadyInv'
  <2>1. SUFFICES ASSUME sreq[s].man.rev = pst.rev
                 PROVE  /\ Covered(known.packs, Usable)
                        /\ files.pack \subseteq known.packs \cup left \cup {p \in Packs : stage[p] > 0}
    BY <1>1, <1>6, <1>12 DEF ReadyInv
  <2>2. sreq[s].man.rev = known.rev
    BY <1>5, <1>13, <2>1
  <2>3. sreq[s].man = known
    BY <1>0, <1>5, <2>2, HeldOnes DEF LineInv, Ordered
  <2>4. files.pack \subseteq known.packs \cup sreq[s].keep
    BY <1>0, <1>1, <1>9, <2>3 DEF PhaseInv
  <2> QED
    BY <1>4, <1>13, <2>3, <2>4, ObjectsGrow DEF Covered
<1>15. HalfInv' /\ PhaseInv(s)'
  <2>1. HalfInv'
    BY <1>1, <1>11 DEF HalfInv
  <2>2. PhaseInv(s)'
    BY <1>8, <1>10 DEF PhaseInv, Pruning
  <2> QED
    BY <2>1, <2>2
<1>16. \A t \in Syncers : GuardInv(t)'
  <2>0. \A u \in Syncers : sreq'[u].pc \notin Phase
    BY <1>8, <1>10, <1>11
  <2>1. GuardInv(s)'
    <3>1. Covered(q.man.packs, Usable')
      BY <1>7, <1>12, <1>13, ObjectsGrow DEF Covered
    <3> QED
      BY <1>7, <1>8, <2>0, <3>1 DEF GuardInv
  <2>2. ASSUME NEW t \in Syncers, t # s PROVE GuardInv(t)'
    BY <1>8, <1>12, <2>0, <2>2, GuardKeeps DEF PackInv
  <2> QED
    BY <2>1, <2>2
<1>17. pst'.packsRev <= known.rev /\ q.man \in HeldMans /\ q.man.rev <= known.rev
  BY <1>6, <1>7, <1>13, HeldOnes
<1>18. /\ held' \in [sync : Syncers \cup {"none"}, pack : Syncers \cup {"none"},
                     prune : Syncers \cup PackWriters \cup {"none"}]
       /\ held'.sync = held.sync /\ held'.prune = "none"
       /\ files' \in [pack : SUBSET Packs, idx : SUBSET Packs]
  BY <1>0, <1>1 DEF PackTypes
<1>19. proven' \in BOOLEAN
  BY <1>0, <1>1 DEF PackTypes
<1>20. \A w \in PackWriters : (held'.prune = w <=> held.prune = w) /\ wreq[w].pc \notin {"open", "ingested"}
  BY <1>0, <1>11, <1>18 DEF PackAssumption, LockInv
<1>21. \A w \in PackWriters : wreq[w].pc \in Staged \cup {"ingested"} =>
               wreq[w].pack \in files'.pack /\ wreq[w].pack \in files'.idx
  BY <1>0, <1>1 DEF StageInv
<1> QED
  BY <1>1, <1>2, <1>6, <1>7, <1>9, <1>10, <1>11, <1>14, <1>15, <1>16, <1>17, <1>18, <1>19, <1>20, <1>21, PackTurn

\* w goes to q: the guards of its pack p are counted right, and nobody else has that pack.
StageMoves(w, q, p) ==
    /\ p \in Packs /\ wreq' = [wreq EXCEPT ![w] = q] /\ (q.pc # "idle" => q.pack = p)
    /\ files.pack \subseteq files'.pack /\ files.idx \subseteq files'.idx /\ stage' \in [Packs -> Int]
    /\ \A v \in PackWriters : v # w => (held'.prune = v => held.prune = v)
    /\ wreq[w].pc # "idle" => wreq[w].pack = p
    /\ \A v \in PackWriters : v # w /\ wreq[v].pc # "idle" => wreq[v].pack # p
    /\ \A x \in Packs : x # p => stage'[x] = stage[x]
    /\ q.pc \in Staged => stage'[p] = q.guard /\ q.guard >= 1 /\ (held'.prune = w => q.guard = 2)
    /\ q.pc \in Staged \cup {"ingested"} => p \in files'.pack /\ p \in files'.idx
    /\ q.pc \notin Staged => stage'[p] = 0

LEMMA StageTurn ==
    ASSUME PackTypes, StageInv, NEW w \in PackWriters, NEW q \in WReqs, NEW p, StageMoves(w, q, p)
    PROVE  StageInv'
<1>0. /\ p \in Packs /\ wreq' = [wreq EXCEPT ![w] = q] /\ (q.pc # "idle" => q.pack = p)
      /\ files.pack \subseteq files'.pack /\ files.idx \subseteq files'.idx /\ stage' \in [Packs -> Int]
      /\ \A v \in PackWriters : v # w => (held'.prune = v => held.prune = v)
      /\ wreq[w].pc # "idle" => wreq[w].pack = p
      /\ \A v \in PackWriters : v # w /\ wreq[v].pc # "idle" => wreq[v].pack # p
      /\ \A x \in Packs : x # p => stage'[x] = stage[x]
      /\ q.pc \in Staged => stage'[p] = q.guard /\ q.guard >= 1 /\ (held'.prune = w => q.guard = 2)
      /\ q.pc \in Staged \cup {"ingested"} => p \in files'.pack /\ p \in files'.idx
      /\ q.pc \notin Staged => stage'[p] = 0
  BY DEF StageMoves
<1>1. /\ wreq' \in [PackWriters -> WReqs] /\ wreq'[w] = q
      /\ \A v \in PackWriters : v # w => wreq'[v] = wreq[v]
  BY <1>0, WriteTurn
<1>2. q.pc \in Staged => q.pc # "idle"
  BY DEF Staged
<1>3. \A v \in PackWriters : v # w /\ wreq[v].pc \in Staged => wreq[v].pc # "idle" /\ wreq[v].pack \in Packs /\ wreq[v].pack # p
  BY <1>0 DEF Staged, StageInv
<1>4. \A v \in PackWriters : wreq'[v].pc # "idle" => wreq'[v].pack \in Packs
  BY <1>0, <1>1 DEF StageInv
<1>5. \A v \in PackWriters : wreq'[v].pc \in Staged => stage'[wreq'[v].pack] = wreq'[v].guard /\ wreq'[v].guard >= 1
  BY <1>0, <1>1, <1>2, <1>3 DEF StageInv
<1>6. \A v \in PackWriters : wreq'[v].pc \in Staged /\ held'.prune = v => wreq'[v].guard = 2
  BY <1>0, <1>1 DEF StageInv
<1>7. \A v \in PackWriters : wreq'[v].pc \in Staged \cup {"ingested"} => wreq'[v].pack \in files'.pack /\ wreq'[v].pack \in files'.idx
  BY <1>0, <1>1, <1>2 DEF StageInv
<1>8. \A u, v \in PackWriters : v # u /\ wreq'[v].pc # "idle" /\ wreq'[u].pc # "idle" => wreq'[v].pack # wreq'[u].pack
  BY <1>0, <1>1 DEF StageInv
<1>9. ASSUME NEW x \in Packs, \A v \in PackWriters : wreq'[v].pc \in Staged => wreq'[v].pack # x
      PROVE  stage'[x] = 0
  <2>1. CASE x = p
    BY <1>0, <1>1, <1>2, <1>9, <2>1
  <2>2. CASE x # p
    <3>1. wreq[w].pc \in Staged => wreq[w].pack = p
      BY <1>0 DEF Staged
    <3>2. \A v \in PackWriters : wreq[v].pc \in Staged => wreq[v].pack # x
      BY <1>1, <1>9, <2>2, <3>1
    <3> QED
      BY <1>0, <2>2, <3>2 DEF StageInv
  <2> QED
    BY <2>1, <2>2
<1> QED
  BY <1>4, <1>5, <1>6, <1>7, <1>8, <1>9 DEF StageInv

\* A writer takes a step that leaves every manifest alone and removes no file.
LEMMA WriterTurn ==
    ASSUME PackInv, NEW w \in PackWriters, NEW q \in WReqs, wreq' = [wreq EXCEPT ![w] = q],
           UNCHANGED <<live, known, sreq>>, q.man \in HeldMans,
           q.pc = "landed" => wreq[w].pc = "landed" /\ q.man = wreq[w].man /\ q.sup = wreq[w].sup /\ q.pack = wreq[w].pack,
           q.pc # "idle" => ObjectsOf(q.sup) \subseteq ObjectsOf({q.pack}),
           files' \in [pack : SUBSET Packs, idx : SUBSET Packs], stage' \in [Packs -> Int],
           files.pack \subseteq files'.pack, files.idx \subseteq files'.idx,
           files'.pack \ files'.idx \subseteq files.pack \ files.idx,
           \A s \in Syncers : sreq[s].pc \in Pruning => files' = files,
           pst' \in PSts, pst'.rev = pst.rev, pst'.packsRev = pst.packsRev, pst'.remote = {},
           proven' \in BOOLEAN, proven' => proven,
           held' \in [sync : Syncers \cup {"none"}, pack : Syncers \cup {"none"},
                      prune : Syncers \cup PackWriters \cup {"none"}],
           held'.sync = held.sync, held'.pack = held.pack,
           \A s \in Syncers : held.prune = s => held'.prune = s,
           \A v \in PackWriters : v # w => (held.prune = v => held'.prune = v),
           q.pc \in {"open", "ingested"} => held'.prune = w /\ ~proven',
           StageInv', ReadyInv'
    PROVE  PackInv'
<1>0. PackTypes /\ LineInv /\ RevInv /\ LockInv /\ HalfInv
  BY DEF PackInv
<1>1. /\ wreq' \in [PackWriters -> WReqs] /\ wreq'[w] = q
      /\ \A v \in PackWriters : v # w => wreq'[v] = wreq[v]
  BY <1>0, WriteTurn
<1>2. PackTypes'
  BY <1>0, <1>1 DEF PackTypes
<1>3. LineInv'
  BY <1>0, <1>1, HeldOnes, LineKeeps
<1>4. RevInv'
  <2>1. \A v \in PackWriters : wreq'[v].pc = "landed" =>
          wreq[v].pc = "landed" /\ wreq'[v].man = wreq[v].man /\ wreq'[v].sup = wreq[v].sup /\ wreq'[v].pack = wreq[v].pack
    BY <1>1
  <2>2. \A v \in PackWriters : wreq'[v].pc = "landed" =>
          /\ wreq'[v].man.rev = known'.rev + 1
          /\ wreq'[v].man.packs = (known'.packs \ wreq'[v].sup) \cup {wreq'[v].pack}
          /\ \A s \in Syncers : sreq'[s].pc # "refs"
    BY <1>0, <2>1 DEF RevInv
  <2>3. \A u, v \in PackWriters : wreq'[u].pc = "landed" /\ wreq'[v].pc = "landed" => v = u
    BY <1>0, <2>1 DEF RevInv
  <2>4. \A v \in PackWriters : wreq'[v].pc # "idle" => ObjectsOf(wreq'[v].sup) \subseteq ObjectsOf({wreq'[v].pack})
    BY <1>0, <1>1 DEF RevInv
  <2>5. /\ pst'.packsRev <= known'.rev /\ known'.rev <= pst'.rev /\ pst'.remote = {}
        /\ \A s \in Syncers :
             IF sreq'[s].pc = "refs" THEN held'.sync = s /\ known'.rev < sreq'[s].man.rev /\ sreq'[s].man.rev = pst'.rev
                                     ELSE sreq'[s].man.rev <= known'.rev
    BY <1>0 DEF RevInv
  <2> QED
    BY <2>2, <2>3, <2>4, <2>5 DEF RevInv
<1>5. LockInv'
  <2>1. \A s \in Syncers : (sreq'[s].pc \in Phase => held'.pack = s /\ ~proven')
                           /\ (sreq'[s].pc \in Pruning => held'.prune = s)
    BY <1>0 DEF LockInv
  <2>2. \A v \in PackWriters : wreq'[v].pc \in {"open", "ingested"} => held'.prune = v /\ ~proven'
    BY <1>0, <1>1 DEF LockInv
  <2> QED
    BY <2>1, <2>2 DEF LockInv
<1>6. HalfInv'
  BY <1>0 DEF HalfInv
<1>7. Usable \subseteq Usable'
  BY <1>0, UsableGrows DEF RevInv
<1>8. ASSUME NEW t \in Syncers PROVE PhaseInv(t)' /\ GuardInv(t)'
  <2>1. PhaseInv(t)'
    BY PhaseKeeps DEF PackInv
  <2>2. GuardInv(t)'
    BY <1>7, GuardKeeps DEF PackInv
  <2> QED
    BY <2>1, <2>2
<1> QED
  BY <1>2, <1>3, <1>4, <1>5, <1>6, <1>8 DEF PackInv

\* A push or a compaction takes prune_lock.
LEMMA WriteBeginStep ==
    ASSUME PackAssumption, PackInv, NEW w \in PackWriters, NEW p \in Packs, NEW S \in SUBSET known.packs, WriteBegin(w, p, S)
    PROVE  PackInv'
<1> DEFINE q == [IdleWrite EXCEPT !.pc = "open", !.pack = p, !.sup = S]
<1>0. PackTypes /\ RevInv /\ LockInv /\ StageInv /\ pst \in PSts /\ known \in Mans
  BY DEF PackInv, PackTypes
<1>1. /\ wreq[w].pc = "idle" /\ held.prune = "none" /\ p \notin files.pack /\ (S # {} => Holds[p] = ObjectsOf(S))
      /\ held' = [held EXCEPT !.prune = w] /\ proven' = FALSE /\ wreq' = [wreq EXCEPT ![w] = q]
      /\ UNCHANGED <<live, known, pst, files, stage, sreq>>
  BY DEF WriteBegin
<1>2. S \in SUBSET Packs
  BY <1>0 DEF Mans
<1>3. q \in WReqs /\ q.pc = "open" /\ q.pack = p /\ q.sup = S /\ q.man = Manifest({}, 0)
  <2>1. 0 \in 0 .. 2 /\ 0 \in Nat
    OBVIOUS
  <2> QED
    BY <1>2, <2>1 DEF WReqs, IdleWrite, Manifest, Mans, Staged
<1> HIDE DEF q
<1>4. ObjectsOf(q.sup) \subseteq ObjectsOf({q.pack})
  BY <1>1, <1>3 DEF ObjectsOf
<1>5. /\ held' \in [sync : Syncers \cup {"none"}, pack : Syncers \cup {"none"},
                    prune : Syncers \cup PackWriters \cup {"none"}]
      /\ held'.sync = held.sync /\ held'.pack = held.pack /\ held'.prune = w
      /\ files' \in [pack : SUBSET Packs, idx : SUBSET Packs] /\ stage' \in [Packs -> Int]
  BY <1>0, <1>1 DEF PackTypes
<1>6. \A v \in PackWriters \cup Syncers : held.prune # v
  BY <1>1 DEF PackAssumption
<1>7. \A v \in PackWriters : v # w /\ wreq[v].pc # "idle" => wreq[v].pack # p
  <2>1. \A v \in PackWriters : wreq[v].pc \notin {"open", "ingested"}
    BY <1>0, <1>6 DEF LockInv
  <2>2. \A v \in PackWriters : wreq[v].pc # "idle" => wreq[v].pc \in Staged
    <3>1. \A v \in PackWriters : wreq[v].pc \in {"idle", "open", "ingested"} \cup Staged
      BY <1>0 DEF PackTypes, WReqs
    <3> QED
      BY <2>1, <3>1
  <2> QED
    BY <1>0, <1>1, <2>2 DEF StageInv
<1>8. stage[p] = 0
  <2>1. wreq[w].pc \notin Staged
    BY <1>1 DEF Staged
  <2>2. \A v \in PackWriters : wreq[v].pc \in Staged => wreq[v].pack # p
    BY <1>7, <2>1 DEF Staged
  <2> QED
    BY <1>0, <2>2 DEF StageInv
<1>9. q.pc \notin Staged /\ q.pc \notin Staged \cup {"ingested"} /\ q.pc # "idle" /\ q.pc # "landed"
  BY <1>3 DEF Staged
<1>10. StageInv'
  <2>1. StageMoves(w, q, p)
    BY <1>1, <1>3, <1>5, <1>7, <1>8, <1>9 DEF StageMoves
  <2> QED
    BY <1>0, <1>3, <2>1, StageTurn
<1>11. ReadyInv' /\ pst'.remote = {} /\ q.man \in HeldMans
  BY <1>0, <1>1, <1>3, HeldOnes DEF ReadyInv, RevInv
<1> QED
  BY <1>0, <1>1, <1>3, <1>4, <1>5, <1>6, <1>9, <1>10, <1>11, WriterTurn

\* The pack is put in place.
LEMMA WriteIngestStep ==
    ASSUME PackAssumption, PackInv, NEW w \in PackWriters, WriteIngest(w)
    PROVE  PackInv'
<1> DEFINE q == [wreq[w] EXCEPT !.pc = "ingested"]
<1>0. PackTypes /\ RevInv /\ LockInv /\ StageInv /\ pst \in PSts /\ wreq[w] \in WReqs
  BY DEF PackInv, PackTypes
<1>1. /\ wreq[w].pc = "open" /\ UNCHANGED <<live, known, pst, proven, stage, held, sreq>>
      /\ files' = [pack |-> files.pack \cup {wreq[w].pack}, idx |-> files.idx \cup {wreq[w].pack}]
  BY DEF WriteIngest
<1>2. wreq' = [wreq EXCEPT ![w] = q]
  BY <1>0 DEF WriteIngest, PackTypes
<1>3. wreq[w].pack \in Packs /\ held.prune = w /\ ~proven
  BY <1>0, <1>1 DEF StageInv, LockInv
<1>4. q \in WReqs /\ q.pc = "ingested" /\ q.pack = wreq[w].pack /\ q.sup = wreq[w].sup /\ q.man = wreq[w].man
  BY <1>0 DEF WReqs
<1> HIDE DEF q
<1>5. /\ files' \in [pack : SUBSET Packs, idx : SUBSET Packs]
      /\ files'.pack = files.pack \cup {wreq[w].pack} /\ files'.idx = files.idx \cup {wreq[w].pack}
      /\ stage' \in [Packs -> Int] /\ proven' \in BOOLEAN
      /\ held' \in [sync : Syncers \cup {"none"}, pack : Syncers \cup {"none"},
                    prune : Syncers \cup PackWriters \cup {"none"}]
  BY <1>0, <1>1, <1>3 DEF PackTypes
<1>6. \A s \in Syncers : sreq[s].pc \notin Pruning
  BY <1>0, <1>3 DEF LockInv, PackAssumption
<1>7. q.pc \notin Staged /\ q.pc # "idle" /\ q.pc # "landed" /\ wreq[w].pc # "idle" /\ wreq[w].pc \notin Staged
  BY <1>1, <1>4 DEF Staged
<1>8. \A v \in PackWriters : v # w /\ wreq[v].pc # "idle" => wreq[v].pack # wreq[w].pack
  BY <1>0, <1>7 DEF StageInv
<1>9. stage[wreq[w].pack] = 0
  <2>1. \A v \in PackWriters : wreq[v].pc \in Staged => wreq[v].pack # wreq[w].pack
    BY <1>7, <1>8 DEF Staged
  <2> QED
    BY <1>0, <1>3, <2>1 DEF StageInv
<1>10. StageInv'
  <2>1. StageMoves(w, q, wreq[w].pack)
    BY <1>1, <1>2, <1>3, <1>4, <1>5, <1>7, <1>8, <1>9 DEF StageMoves
  <2> QED
    BY <1>0, <1>4, <2>1, StageTurn
<1>11. ReadyInv' /\ pst'.remote = {} /\ q.man \in HeldMans /\ ObjectsOf(q.sup) \subseteq ObjectsOf({q.pack})
  BY <1>0, <1>1, <1>3, <1>4, <1>7, HeldOnes DEF ReadyInv, RevInv
<1>12. files'.pack \ files'.idx \subseteq files.pack \ files.idx
  BY <1>5
<1> QED
  BY <1>0, <1>1, <1>2, <1>3, <1>4, <1>5, <1>6, <1>7, <1>10, <1>11, <1>12, WriterTurn

\* The push is refused, or its pack is staged.
LEMMA WriteRefuseStep ==
    ASSUME PackAssumption, PackInv, NEW w \in PackWriters, WriteRefuse(w)
    PROVE  PackInv'
<1>0. PackTypes /\ RevInv /\ LockInv /\ StageInv /\ pst \in PSts
  BY DEF PackInv, PackTypes
<1>1. /\ wreq[w].pc = "ingested" /\ held' = [held EXCEPT !.prune = "none"] /\ wreq' = [wreq EXCEPT ![w] = IdleWrite]
      /\ UNCHANGED <<live, known, pst, files, proven, stage, sreq>>
  BY DEF WriteRefuse
<1>2. wreq[w].pack \in Packs /\ held.prune = w /\ ~proven
  BY <1>0, <1>1 DEF StageInv, LockInv
<1>3. IdleWrite \in WReqs /\ IdleWrite.pc = "idle" /\ IdleWrite.man = Manifest({}, 0)
  BY DEF WReqs, IdleWrite, Manifest, Mans
<1>4. /\ files' \in [pack : SUBSET Packs, idx : SUBSET Packs]
      /\ stage' \in [Packs -> Int] /\ proven' \in BOOLEAN
      /\ held' \in [sync : Syncers \cup {"none"}, pack : Syncers \cup {"none"},
                    prune : Syncers \cup PackWriters \cup {"none"}]
      /\ held'.sync = held.sync /\ held'.pack = held.pack /\ held'.prune = "none"
  BY <1>0, <1>1 DEF PackTypes
<1>5. /\ \A v \in PackWriters : held'.prune # v
      /\ \A v \in PackWriters : v # w => held.prune # v
      /\ \A s \in Syncers : held.prune # s
  BY <1>2, <1>4 DEF PackAssumption
<1>6. "idle" \notin Staged \cup {"ingested"} /\ wreq[w].pc # "idle" /\ wreq[w].pc \notin Staged
  BY <1>1 DEF Staged
<1>7. \A v \in PackWriters : v # w /\ wreq[v].pc # "idle" => wreq[v].pack # wreq[w].pack
  BY <1>0, <1>6 DEF StageInv
<1>8. stage[wreq[w].pack] = 0
  <2>1. \A v \in PackWriters : wreq[v].pc \in Staged => wreq[v].pack # wreq[w].pack
    BY <1>6, <1>7 DEF Staged
  <2> QED
    BY <1>0, <1>2, <2>1 DEF StageInv
<1>9. StageInv'
  <2>1. StageMoves(w, IdleWrite, wreq[w].pack)
    BY <1>1, <1>2, <1>3, <1>4, <1>5, <1>6, <1>7, <1>8 DEF StageMoves
  <2> QED
    BY <1>0, <1>3, <2>1, StageTurn
<1>10. ReadyInv' /\ pst'.remote = {} /\ IdleWrite.man \in HeldMans
  BY <1>0, <1>1, <1>2, <1>3, HeldOnes DEF ReadyInv, RevInv
<1> QED
  BY <1>0, <1>1, <1>3, <1>4, <1>5, <1>9, <1>10, WriterTurn

LEMMA WriteStageStep ==
    ASSUME PackAssumption, PackInv, NEW w \in PackWriters, WriteStage(w)
    PROVE  PackInv'
<1> DEFINE q == [wreq[w] EXCEPT !.pc = "staged", !.guard = 2]
           p == wreq[w].pack
<1>0. PackTypes /\ RevInv /\ LockInv /\ StageInv /\ pst \in PSts /\ wreq[w] \in WReqs
  BY DEF PackInv, PackTypes
<1>1. /\ wreq[w].pc = "ingested" /\ stage' = [stage EXCEPT ![p] = stage[p] + 2]
      /\ UNCHANGED <<live, known, pst, files, proven, held, sreq>>
  BY DEF WriteStage
<1>2. wreq' = [wreq EXCEPT ![w] = q]
  BY <1>0 DEF WriteStage, PackTypes
<1>3. p \in Packs /\ held.prune = w /\ ~proven /\ p \in files.pack /\ p \in files.idx
  BY <1>0, <1>1 DEF StageInv, LockInv
<1>4. q \in WReqs /\ q.pc = "staged" /\ q.pack = p /\ q.sup = wreq[w].sup /\ q.man = wreq[w].man /\ q.guard = 2
  <2>1. 2 \in 0 .. 2
    OBVIOUS
  <2> QED
    BY <1>0, <2>1 DEF WReqs, Staged
<1> HIDE DEF q
<1>5. q.pc \in Staged /\ q.pc # "idle" /\ q.pc # "landed" /\ wreq[w].pc # "idle" /\ wreq[w].pc \notin Staged
  BY <1>1, <1>4 DEF Staged
<1>6. \A v \in PackWriters : v # w /\ wreq[v].pc # "idle" => wreq[v].pack # p
  BY <1>0, <1>5 DEF StageInv
<1>7. stage[p] = 0
  <2>1. \A v \in PackWriters : wreq[v].pc \in Staged => wreq[v].pack # p
    BY <1>5, <1>6 DEF Staged
  <2> QED
    BY <1>0, <1>3, <2>1 DEF StageInv
<1>8. /\ stage' \in [Packs -> Int] /\ stage'[p] = 2 /\ \A x \in Packs : x # p => stage'[x] = stage[x]
      /\ files' \in [pack : SUBSET Packs, idx : SUBSET Packs] /\ proven' \in BOOLEAN
      /\ held' \in [sync : Syncers \cup {"none"}, pack : Syncers \cup {"none"},
                    prune : Syncers \cup PackWriters \cup {"none"}]
  BY <1>0, <1>1, <1>3, <1>7 DEF PackTypes
<1> HIDE DEF p
<1>9. StageInv'
  <2>1. wreq[w].pack = p
    BY DEF p
  <2> QED
    <3>1. StageMoves(w, q, p)
      BY <1>1, <1>2, <1>3, <1>4, <1>5, <1>6, <1>8, <2>1 DEF StageMoves
    <3> QED
      BY <1>0, <1>4, <3>1, StageTurn
<1>10. ReadyInv' /\ pst'.remote = {} /\ q.man \in HeldMans /\ ObjectsOf(q.sup) \subseteq ObjectsOf({q.pack})
  BY <1>0, <1>1, <1>3, <1>4, <1>5, HeldOnes DEF ReadyInv, RevInv, p
<1>11. q.pc \notin {"open", "ingested"}
  BY <1>4
<1> QED
  BY <1>0, <1>1, <1>2, <1>4, <1>5, <1>8, <1>9, <1>10, <1>11, WriterTurn

LEMMA WriteFailStep ==
    ASSUME PackInv, NEW w \in PackWriters, WriteFail(w)
    PROVE  PackInv'
<1> DEFINE q == [wreq[w] EXCEPT !.pc = "done"]
<1>0. PackTypes /\ RevInv /\ StageInv /\ ReadyInv /\ pst \in PSts /\ wreq[w] \in WReqs
  BY DEF PackInv, PackTypes
<1>1. wreq[w].pc = "staged" /\ UNCHANGED <<live, known, pst, files, proven, stage, held, sreq>>
  BY DEF WriteFail
<1>2. wreq' = [wreq EXCEPT ![w] = q]
  BY <1>0 DEF WriteFail, PackTypes
<1>3. /\ q \in WReqs /\ q.pc = "done" /\ q.pack = wreq[w].pack /\ q.sup = wreq[w].sup /\ q.man = wreq[w].man
      /\ q.guard = wreq[w].guard
  BY <1>0 DEF WReqs, Staged
<1> HIDE DEF q
<1>4. wreq[w].pc \in Staged /\ q.pc \in Staged /\ q.pc # "idle" /\ q.pc # "landed" /\ wreq[w].pc # "idle" /\ q.pc \notin {"open", "ingested"}
  BY <1>1, <1>3 DEF Staged
<1>5. /\ wreq[w].pack \in Packs /\ wreq[w].pack \in files.pack /\ wreq[w].pack \in files.idx
      /\ stage[wreq[w].pack] = q.guard /\ q.guard >= 1 /\ (held.prune = w => q.guard = 2)
      /\ \A v \in PackWriters : v # w /\ wreq[v].pc # "idle" => wreq[v].pack # wreq[w].pack
  BY <1>0, <1>3, <1>4 DEF StageInv
<1>6. /\ stage' \in [Packs -> Int] /\ files' \in [pack : SUBSET Packs, idx : SUBSET Packs] /\ proven' \in BOOLEAN
      /\ held' \in [sync : Syncers \cup {"none"}, pack : Syncers \cup {"none"},
                    prune : Syncers \cup PackWriters \cup {"none"}]
  BY <1>0, <1>1 DEF PackTypes
<1>7. StageInv'
  <2>1. StageMoves(w, q, wreq[w].pack)
    BY <1>1, <1>2, <1>3, <1>4, <1>5, <1>6 DEF StageMoves
  <2> QED
    BY <1>0, <1>3, <2>1, StageTurn
<1>8. ReadyInv' /\ pst'.remote = {} /\ q.man \in HeldMans /\ ObjectsOf(q.sup) \subseteq ObjectsOf({q.pack})
  <2>1. pst'.remote = {} /\ ObjectsOf(q.sup) \subseteq ObjectsOf({q.pack})
    BY <1>0, <1>1, <1>3, <1>4 DEF RevInv
  <2>2. ReadyInv'
    BY <1>0, <1>1, <2>1, ReadyKeeps
  <2> QED
    BY <1>3, <2>1, <2>2, HeldOnes
<1> QED
  BY <1>0, <1>1, <1>2, <1>3, <1>4, <1>6, <1>7, <1>8, WriterTurn

\* The client goes away, or the writer is done: guards are dropped.
LEMMA WriteCancelStep ==
    ASSUME PackAssumption, PackInv, NEW w \in PackWriters, WriteCancel(w)
    PROVE  PackInv'
<1> DEFINE q == [wreq[w] EXCEPT !.guard = 1]
           p == wreq[w].pack
<1>0. PackTypes /\ RevInv /\ LockInv /\ StageInv /\ ReadyInv /\ pst \in PSts /\ wreq[w] \in WReqs
  BY DEF PackInv, PackTypes
<1>1. /\ wreq[w].pc \in {"staged", "landed"} /\ held.prune = w /\ held' = [held EXCEPT !.prune = "none"]
      /\ Unstaged(p, 1) /\ UNCHANGED <<live, known, files, proven, sreq>>
  BY DEF WriteCancel
<1>2. wreq' = [wreq EXCEPT ![w] = q]
  BY <1>0 DEF WriteCancel, PackTypes
<1>3. /\ q \in WReqs /\ q.pc = wreq[w].pc /\ q.pack = p /\ q.sup = wreq[w].sup /\ q.man = wreq[w].man /\ q.guard = 1
  <2>1. 1 \in 0 .. 2
    OBVIOUS
  <2> QED
    BY <1>0, <2>1 DEF WReqs
<1> HIDE DEF q
<1>4. wreq[w].pc \in Staged /\ q.pc # "idle" /\ wreq[w].pc # "idle" /\ q.pc \notin {"open", "ingested"}
  BY <1>1, <1>3 DEF Staged
<1>5. /\ p \in Packs /\ p \in files.pack /\ p \in files.idx /\ stage[p] = 2
      /\ \A v \in PackWriters : v # w /\ wreq[v].pc # "idle" => wreq[v].pack # p
  BY <1>0, <1>1, <1>4 DEF StageInv
<1>6. /\ pst' = pst /\ stage' \in [Packs -> Int] /\ stage'[p] = 1 /\ \A x \in Packs : x # p => stage'[x] = stage[x]
  BY <1>0, <1>1, <1>5 DEF Unstaged, PackTypes
<1>7. /\ files' \in [pack : SUBSET Packs, idx : SUBSET Packs] /\ proven' \in BOOLEAN
      /\ held' \in [sync : Syncers \cup {"none"}, pack : Syncers \cup {"none"},
                    prune : Syncers \cup PackWriters \cup {"none"}]
      /\ held'.sync = held.sync /\ held'.pack = held.pack /\ held'.prune = "none"
  BY <1>0, <1>1 DEF PackTypes
<1>8. /\ \A v \in PackWriters : held'.prune # v
      /\ \A v \in PackWriters : v # w => held.prune # v
      /\ \A s \in Syncers : held.prune # s
  BY <1>1, <1>7 DEF PackAssumption
<1>9. StageInv'
  <2>1. wreq[w].pack = p
    OBVIOUS
  <2> HIDE DEF p
  <2>2. StageMoves(w, q, p)
    BY <1>1, <1>2, <1>3, <1>4, <1>5, <1>6, <1>8, <2>1 DEF StageMoves
  <2> QED
    BY <1>0, <1>3, <2>2, StageTurn
<1>10. pst'.remote = {} /\ q.man \in HeldMans /\ ObjectsOf(q.sup) \subseteq ObjectsOf({q.pack})
  BY <1>0, <1>3, <1>4, <1>6, HeldOnes DEF RevInv
<1>11. ReadyInv'
  <2>1. Usable' = Usable
    BY <1>1, <1>6 DEF Usable
  <2>2. \A x \in Packs : stage[x] > 0 => stage'[x] > 0
    BY <1>6
  <2> QED
    BY <1>0, <1>1, <1>6, <2>1, <2>2 DEF ReadyInv
<1>12. UNCHANGED <<live, known, sreq, files, proven>> /\ pst' = pst
  BY <1>1, <1>6
<1>13. /\ q.pc = "landed" => wreq[w].pc = "landed" /\ q.man = wreq[w].man /\ q.sup = wreq[w].sup /\ q.pack = wreq[w].pack
       /\ q.pc # "idle" => ObjectsOf(q.sup) \subseteq ObjectsOf({q.pack})
       /\ ~(q.pc \in {"open", "ingested"}) /\ q \in WReqs
  BY <1>3, <1>4, <1>10
<1>14. pst' \in PSts /\ stage' \in [Packs -> Int]
  BY <1>0, <1>6
<1>15. held'.sync = held.sync /\ held'.pack = held.pack
  BY <1>7
<1> QED
  BY <1>2, <1>7, <1>8, <1>9, <1>10, <1>11, <1>12, <1>13, <1>14, <1>15, WriterTurn

LEMMA WriteEndStep ==
    ASSUME PackAssumption, PackInv, NEW w \in PackWriters, WriteEnd(w)
    PROVE  PackInv'
<1> DEFINE p == wreq[w].pack
<1>0. PackTypes /\ RevInv /\ LockInv /\ StageInv /\ ReadyInv /\ pst \in PSts /\ wreq[w] \in WReqs /\ known \in Mans
  BY DEF PackInv, PackTypes
<1>1. /\ wreq[w].pc = "done" /\ held' = [held EXCEPT !.prune = IF held.prune = w THEN "none" ELSE held.prune]
      /\ Unstaged(p, wreq[w].guard) /\ UNCHANGED <<live, known, files, proven, sreq>>
      /\ wreq' = [wreq EXCEPT ![w] = IdleWrite]
  BY DEF WriteEnd
<1>2. IdleWrite \in WReqs /\ IdleWrite.pc = "idle" /\ IdleWrite.man = Manifest({}, 0)
  BY DEF WReqs, IdleWrite, Manifest, Mans
<1>3. wreq[w].pc \in Staged /\ wreq[w].pc # "idle" /\ "idle" \notin Staged \cup {"ingested"}
  BY <1>1 DEF Staged
<1>4. /\ p \in Packs /\ p \in files.pack /\ p \in files.idx /\ stage[p] = wreq[w].guard /\ wreq[w].guard \in Int
      /\ \A v \in PackWriters : v # w /\ wreq[v].pc # "idle" => wreq[v].pack # p
  BY <1>0, <1>3 DEF StageInv, WReqs
<1>5. stage' \in [Packs -> Int] /\ stage'[p] = 0 /\ \A x \in Packs : x # p => stage'[x] = stage[x]
  BY <1>0, <1>1, <1>4 DEF Unstaged, PackTypes
<1>6. /\ pst' \in PSts /\ pst'.rev = pst.rev /\ pst'.packsRev = pst.packsRev /\ pst'.remote = {}
      /\ pst.pending \subseteq pst'.pending /\ (p \in known.packs \/ p \in pst'.pending)
  BY <1>0, <1>1, <1>4 DEF Unstaged, PSts, RevInv
<1>7. /\ files' \in [pack : SUBSET Packs, idx : SUBSET Packs] /\ proven' \in BOOLEAN
      /\ held' \in [sync : Syncers \cup {"none"}, pack : Syncers \cup {"none"},
                    prune : Syncers \cup PackWriters \cup {"none"}]
      /\ held'.sync = held.sync /\ held'.pack = held.pack
      /\ held'.prune = IF held.prune = w THEN "none" ELSE held.prune
  BY <1>0, <1>1 DEF PackTypes
<1>8. /\ \A v \in PackWriters : v # w => (held'.prune = v <=> held.prune = v)
      /\ \A s \in Syncers : held.prune = s => held'.prune = s
  BY <1>7 DEF PackAssumption
<1>9. StageInv'
  <2>1. wreq[w].pack = p
    OBVIOUS
  <2> HIDE DEF p
  <2>2. StageMoves(w, IdleWrite, p)
    BY <1>1, <1>2, <1>3, <1>4, <1>5, <1>8, <2>1 DEF StageMoves
  <2> QED
    BY <1>0, <1>2, <2>2, StageTurn
<1>10. ReadyInv'
  <2>1. Usable' = Usable
    BY <1>0, <1>1, <1>6 DEF Usable, RevInv
  <2>2. \A x \in Packs : stage[x] > 0 => x = p \/ stage'[x] > 0
    BY <1>5
  <2> HIDE DEF p
  <2> QED
    BY <1>0, <1>1, <1>6, <2>1, <2>2 DEF ReadyInv
<1>11. IdleWrite.man \in HeldMans
  BY <1>2, HeldOnes
<1>12. /\ IdleWrite.pc # "landed" /\ IdleWrite.pc \notin {"open", "ingested"}
       /\ \A v \in PackWriters : v # w => (held.prune = v => held'.prune = v)
  BY <1>2, <1>8
<1>13. UNCHANGED <<live, known, sreq>> /\ files' = files /\ proven' = proven
  BY <1>1
<1>14. /\ files.pack \subseteq files'.pack /\ files.idx \subseteq files'.idx
       /\ files'.pack \ files'.idx \subseteq files.pack \ files.idx
  BY <1>13
<1>15. /\ stage' \in [Packs -> Int] /\ pst' \in PSts /\ pst'.rev = pst.rev /\ pst'.packsRev = pst.packsRev
       /\ pst'.remote = {} /\ wreq' = [wreq EXCEPT ![w] = IdleWrite]
  BY <1>1, <1>5, <1>6
<1>16. PICK q \in WReqs : q = IdleWrite
  BY <1>2
<1> HIDE DEF p
<1> QED
  BY <1>2, <1>7, <1>8, <1>9, <1>10, <1>11, <1>12, <1>13, <1>14, <1>15, <1>16, WriterTurn

\* A writer's manifest step: known, or the line, goes on, and every file stays.
LEMMA CommitTurn ==
    ASSUME PackInv, PackTypes', LineInv', RevInv', StageInv', ReadyInv',
           UNCHANGED <<files, proven, held, sreq>>, pst'.remote = {},
           \A v \in PackWriters : wreq'[v].pc \in {"open", "ingested"} => wreq[v].pc = wreq'[v].pc
    PROVE  PackInv'
<1>0. RevInv /\ LockInv /\ HalfInv
  BY DEF PackInv
<1>1. LockInv'
  BY <1>0 DEF LockInv
<1>2. HalfInv'
  BY <1>0 DEF HalfInv
<1>3. Usable' = Usable
  BY <1>0 DEF Usable, RevInv
<1>4. \A t \in Syncers : PhaseInv(t)' /\ GuardInv(t)'
  BY <1>3 DEF PackInv, PhaseInv, GuardInv
<1> QED
  BY <1>1, <1>2, <1>4 DEF PackInv

\* The manifest CAS lands.
LEMMA WriteCasStep ==
    ASSUME PackAssumption, PackInv, NEW w \in PackWriters, WriteCas(w)
    PROVE  PackInv'
<1> DEFINE m == Manifest((live.packs \ wreq[w].sup) \cup {wreq[w].pack}, live.rev + 1)
           q == [wreq[w] EXCEPT !.pc = "landed", !.man = m]
<1>0. PackTypes /\ LineInv /\ RevInv /\ LockInv /\ StageInv /\ ReadyInv /\ pst \in PSts /\ wreq[w] \in WReqs /\ live \in Mans
  BY DEF PackInv, PackTypes
<1>1. /\ wreq[w].pc = "staged" /\ known.rev = live.rev /\ live' = m
      /\ UNCHANGED <<known, pst, files, proven, stage, held, sreq>>
  BY DEF WriteCas
<1>2. wreq' = [wreq EXCEPT ![w] = q]
  BY <1>0, <1>1 DEF WriteCas, PackTypes
<1>3. wreq[w].pc \in Staged /\ wreq[w].pc # "idle"
  BY <1>1 DEF Staged
<1>4. /\ wreq[w].pack \in Packs /\ wreq[w].pack \in files.pack /\ wreq[w].pack \in files.idx
      /\ stage[wreq[w].pack] = wreq[w].guard /\ wreq[w].guard >= 1 /\ (held.prune = w => wreq[w].guard = 2)
      /\ \A v \in PackWriters : v # w /\ wreq[v].pc # "idle" => wreq[v].pack # wreq[w].pack
      /\ ObjectsOf(wreq[w].sup) \subseteq ObjectsOf({wreq[w].pack})
  BY <1>0, <1>3 DEF StageInv, RevInv
<1>5. m \in Mans /\ m.rev = live.rev + 1 /\ m.packs = (live.packs \ wreq[w].sup) \cup {wreq[w].pack} /\ live.rev \in Nat
  BY <1>0, <1>4 DEF Mans, Manifest
<1> HIDE DEF m
<1>6. /\ q \in WReqs /\ q.pc = "landed" /\ q.pack = wreq[w].pack /\ q.sup = wreq[w].sup /\ q.man = m
      /\ q.guard = wreq[w].guard
  BY <1>0, <1>5 DEF WReqs, Staged
<1> HIDE DEF q
<1>7. /\ wreq' \in [PackWriters -> WReqs] /\ wreq'[w] = q
      /\ \A v \in PackWriters : v # w => wreq'[v] = wreq[v]
  BY <1>0, <1>2, <1>6, WriteTurn
<1>8. PackTypes'
  BY <1>0, <1>1, <1>5, <1>7 DEF PackTypes
<1>9. LineInv'
  <2>1. ObjectsOf(live.packs) \subseteq ObjectsOf(live'.packs)
    <3>1. ObjectsOf(live.packs) \subseteq ObjectsOf((live.packs \ wreq[w].sup) \cup {wreq[w].pack})
      BY <1>4, ObjectsSwap
    <3> QED
      BY <1>1, <1>5, <3>1
  <2>2. live' \in Mans /\ live'.rev = live.rev + 1
    BY <1>1, <1>5
  <2>3. \A s \in Syncers : sreq'[s].man \in HeldMans
    BY <1>1, HeldOnes
  <2>4. \A v \in PackWriters : wreq'[v].man \in HeldMans \cup {live'}
    BY <1>1, <1>6, <1>7, HeldOnes
  <2> QED
    BY <1>0, <1>1, <2>1, <2>2, <2>3, <2>4, LineGrows
<1>10. RevInv'
  <2>1. known = live
    BY <1>0, <1>1, <1>5, HeldOnes DEF LineInv, Ordered
  <2>2. \A s \in Syncers : sreq[s].pc # "refs"
    <3>1. \A s \in Syncers : sreq[s].man.rev <= live.rev /\ sreq[s].man.rev \in Nat
      BY <1>0, HeldOnes DEF LineInv, PackTypes, SReqs, Mans
    <3> QED
      BY <1>0, <1>1, <1>5, <3>1 DEF RevInv
  <2>3. \A v \in PackWriters : wreq[v].pc # "landed"
    <3>1. \A v \in PackWriters : wreq[v].man.rev <= live.rev /\ wreq[v].man.rev \in Nat
      BY <1>0, HeldOnes DEF LineInv, PackTypes, WReqs, Mans
    <3> QED
      BY <1>0, <1>1, <1>5, <3>1 DEF RevInv
  <2>4. \A v \in PackWriters : wreq'[v].pc = "landed" => v = w
    BY <1>7, <2>3
  <2>5. wreq'[w].man.rev = known'.rev + 1 /\ wreq'[w].man.packs = (known'.packs \ wreq'[w].sup) \cup {wreq'[w].pack}
    BY <1>1, <1>5, <1>6, <1>7, <2>1
  <2>6. \A v \in PackWriters : wreq'[v].pc # "idle" => ObjectsOf(wreq'[v].sup) \subseteq ObjectsOf({wreq'[v].pack})
    <3>1. \A v \in PackWriters : wreq[v].pc # "idle" => ObjectsOf(wreq[v].sup) \subseteq ObjectsOf({wreq[v].pack})
      BY <1>0 DEF RevInv
    <3>2. wreq'[w].sup = wreq[w].sup /\ wreq'[w].pack = wreq[w].pack
      BY <1>6, <1>7
    <3>3. ObjectsOf(wreq'[w].sup) \subseteq ObjectsOf({wreq'[w].pack})
      BY <1>4, <3>2
    <3> QED
      BY <1>7, <3>1, <3>3
  <2> QED
    BY <1>0, <1>1, <2>2, <2>4, <2>5, <2>6 DEF RevInv
<1>11. StageInv'
  <2>1. q.pc \in Staged /\ stage \in [Packs -> Int]
    BY <1>0, <1>6 DEF Staged, PackTypes
  <2>2. StageMoves(w, q, wreq[w].pack)
    BY <1>1, <1>2, <1>4, <1>6, <2>1 DEF StageMoves
  <2> QED
    BY <1>0, <1>6, <2>2, StageTurn
<1>12. ReadyInv' /\ pst'.remote = {}
  <2>1. pst'.remote = {}
    BY <1>0, <1>1 DEF RevInv
  <2> QED
    BY <1>0, <1>1, <2>1, ReadyKeeps
<1>13. \A v \in PackWriters : wreq'[v].pc \in {"open", "ingested"} => wreq[v].pc = wreq'[v].pc
  BY <1>6, <1>7
<1> QED
  BY <1>1, <1>8, <1>9, <1>10, <1>11, <1>12, <1>13, CommitTurn

\* It lost: the writer syncs the refs.
LEMMA WriteRetryStep ==
    ASSUME PacksAtHome, PackAssumption, PackInv, NEW w \in PackWriters, WriteRetry(w)
    PROVE  PackInv'
<1>0. PackTypes /\ LineInv /\ RevInv /\ StageInv /\ pst \in PSts /\ live \in Mans /\ known \in Mans
  BY DEF PackInv, PackTypes
<1>1. /\ known.rev < live.rev /\ held.sync = "none" /\ known' = live
      /\ UNCHANGED <<live, files, proven, stage, held, sreq, wreq>>
  BY DEF WriteRetry
<1>2. \A v \in PackWriters : wreq[v].pc # "landed"
  BY DEF WriteRetry, MayOvertake, PacksAtHome
<1>3. PICK sup \in SUBSET Packs : pst' = [pst EXCEPT !.rev = live.rev, !.pending = pst.pending \cup sup]
  <2>1. {} \in SUBSET Packs /\ known.packs \ live.packs \in SUBSET Packs
    BY <1>0 DEF Mans
  <2> QED
    BY <2>1 DEF WriteRetry
<1>4. pst' \in PSts /\ pst'.rev = live.rev /\ pst'.packsRev = pst.packsRev /\ pst'.remote = {}
  BY <1>0, <1>3 DEF PSts, Mans, RevInv
<1>5. PackTypes'
  BY <1>0, <1>1, <1>4 DEF PackTypes
<1>6. LineInv'
  BY <1>0, <1>1, HeldOnes, LineKeeps
<1>7. known.rev \in Nat /\ live.rev \in Nat /\ pst.packsRev \in Nat /\ pst.packsRev <= known.rev
  BY <1>0 DEF Mans, PSts, RevInv
<1>8. RevInv'
  <2>1. \A s \in Syncers : sreq[s].pc # "refs"
    BY <1>0, <1>1 DEF RevInv, PackAssumption
  <2>2. \A s \in Syncers : sreq[s].man.rev <= known.rev /\ sreq[s].man.rev \in Nat
    BY <1>0, <2>1 DEF RevInv, PackTypes, SReqs, Mans
  <2>3. \A s \in Syncers : sreq[s].man.rev <= live.rev
    BY <1>1, <1>7, <2>2
  <2>4. pst'.packsRev <= live.rev
    BY <1>1, <1>4, <1>7
  <2> QED
    BY <1>0, <1>1, <1>2, <1>4, <1>7, <2>1, <2>3, <2>4 DEF RevInv
<1>9. StageInv'
  BY <1>0, <1>1, StageKeeps
<1>10. ReadyInv'
  BY <1>1, <1>4, <1>7 DEF ReadyInv
<1> QED
  BY <1>1, <1>4, <1>5, <1>6, <1>8, <1>9, <1>10, CommitTurn

\* The local commit.
LEMMA WriteLocalStep ==
    ASSUME PackAssumption, PackInv, NEW w \in PackWriters, WriteLocal(w)
    PROVE  PackInv'
<1> DEFINE q == [wreq[w] EXCEPT !.pc = "done"]
           ready == ~pst.dirty /\ pst.packsRev = pst.rev /\ pst.pending \cup wreq[w].sup = {}
<1>0. /\ PackTypes /\ LineInv /\ RevInv /\ StageInv /\ ReadyInv /\ pst \in PSts /\ known \in Mans
      /\ wreq[w] \in WReqs /\ wreq[w].man \in Mans /\ wreq[w].sup \in SUBSET Packs
  BY DEF PackInv, PackTypes, WReqs
<1>1. wreq[w].pc = "landed" /\ known' = wreq[w].man /\ UNCHANGED <<live, files, proven, stage, held, sreq>>
  BY DEF WriteLocal
<1>2. wreq' = [wreq EXCEPT ![w] = q]
  BY <1>0 DEF WriteLocal, PackTypes
<1>3. /\ pst' \in PSts /\ pst'.rev = wreq[w].man.rev /\ pst'.remote = {}
      /\ pst'.packsRev = IF ready THEN wreq[w].man.rev ELSE pst.packsRev
  BY <1>0 DEF WriteLocal, PSts, RevInv, Mans
<1>4. ready => pst.packsRev = pst.rev /\ pst.pending = {} /\ wreq[w].sup = {}
  OBVIOUS
<1>5. /\ q \in WReqs /\ q.pc = "done" /\ q.pack = wreq[w].pack /\ q.sup = wreq[w].sup /\ q.man = wreq[w].man
      /\ q.guard = wreq[w].guard
  BY <1>0 DEF WReqs, Staged
<1> HIDE DEF q, ready
<1>6. /\ wreq' \in [PackWriters -> WReqs] /\ wreq'[w] = q
      /\ \A v \in PackWriters : v # w => wreq'[v] = wreq[v]
  BY <1>0, <1>2, <1>5, WriteTurn
<1>7. wreq[w].pc \in Staged /\ q.pc \in Staged /\ wreq[w].pc # "idle"
  BY <1>1, <1>5 DEF Staged
<1>8. /\ wreq[w].pack \in Packs /\ wreq[w].pack \in files.pack /\ wreq[w].pack \in files.idx
      /\ stage[wreq[w].pack] = wreq[w].guard /\ wreq[w].guard >= 1 /\ (held.prune = w => wreq[w].guard = 2)
      /\ \A v \in PackWriters : v # w /\ wreq[v].pc # "idle" => wreq[v].pack # wreq[w].pack
      /\ ObjectsOf(wreq[w].sup) \subseteq ObjectsOf({wreq[w].pack})
  BY <1>0, <1>7 DEF StageInv, RevInv
<1>9. /\ known.rev \in Nat /\ pst.packsRev \in Nat /\ wreq[w].man.rev = known.rev + 1 /\ pst.packsRev <= known.rev
      /\ wreq[w].man.packs = (known.packs \ wreq[w].sup) \cup {wreq[w].pack}
      /\ \A s \in Syncers : sreq[s].pc # "refs" /\ sreq[s].man.rev <= known.rev
      /\ \A v \in PackWriters : wreq[v].pc = "landed" => v = w
  BY <1>0, <1>1 DEF RevInv, Mans, PSts
<1>10. PackTypes'
  BY <1>0, <1>1, <1>3, <1>6 DEF PackTypes
<1>11. LineInv'
  <2>1. \A v \in PackWriters : wreq'[v].man \in HeldMans
    BY <1>5, <1>6, HeldOnes
  <2> QED
    BY <1>0, <1>1, <2>1, HeldOnes, LineKeeps
<1>12. RevInv'
  <2>1. \A s \in Syncers : sreq'[s].man.rev <= known'.rev
    <3>1. \A s \in Syncers : sreq[s].man.rev \in Nat
      BY <1>0 DEF PackTypes, SReqs, Mans
    <3> QED
      BY <1>1, <1>9, <3>1
  <2>2. \A v \in PackWriters : wreq'[v].pc # "landed"
    BY <1>5, <1>6, <1>9
  <2>3. \A v \in PackWriters : wreq'[v].pc # "idle" => ObjectsOf(wreq'[v].sup) \subseteq ObjectsOf({wreq'[v].pack})
    <3>1. \A v \in PackWriters : wreq[v].pc # "idle" => ObjectsOf(wreq[v].sup) \subseteq ObjectsOf({wreq[v].pack})
      BY <1>0 DEF RevInv
    <3>2. wreq'[w].sup = wreq[w].sup /\ wreq'[w].pack = wreq[w].pack
      BY <1>5, <1>6
    <3>3. ObjectsOf(wreq'[w].sup) \subseteq ObjectsOf({wreq'[w].pack})
      BY <1>8, <3>2
    <3> QED
      BY <1>6, <3>1, <3>3
  <2>4. pst'.packsRev <= known'.rev /\ known'.rev <= pst'.rev
    BY <1>1, <1>3, <1>9
  <2>5. \A s \in Syncers : sreq'[s].pc # "refs"
    BY <1>1, <1>9
  <2> QED
    BY <1>3, <2>1, <2>2, <2>3, <2>4, <2>5 DEF RevInv
<1>13. StageInv'
  <2>1. stage \in [Packs -> Int]
    BY <1>0 DEF PackTypes
  <2>2. StageMoves(w, q, wreq[w].pack)
    BY <1>1, <1>2, <1>5, <1>7, <1>8, <2>1 DEF StageMoves
  <2> QED
    BY <1>0, <1>5, <2>2, StageTurn
<1>14. ReadyInv'
  <2>1. Usable' = Usable
    BY <1>0, <1>1, <1>3 DEF Usable, RevInv
  <2>2. SUFFICES ASSUME proven, pst'.packsRev = pst'.rev
                 PROVE  /\ Covered(known'.packs, Usable)
                        /\ files.pack \subseteq known'.packs \cup pst'.pending \cup {p \in Packs : stage[p] > 0}
    BY <1>1, <2>1 DEF ReadyInv
  <2>3. ready
    BY <1>3, <1>9, <2>2
  <2>4. /\ Covered(known.packs, Usable)
        /\ files.pack \subseteq known.packs \cup {p \in Packs : stage[p] > 0}
    BY <1>0, <1>4, <2>2, <2>3 DEF ReadyInv
  <2>5. known'.packs = known.packs \cup {wreq[w].pack}
    BY <1>1, <1>4, <1>9, <2>3
  <2>6. wreq[w].pack \in Usable
    BY <1>8 DEF Usable
  <2>7. Covered(known'.packs, Usable)
    BY <2>4, <2>5, <2>6 DEF Covered, ObjectsOf
  <2> QED
    BY <2>4, <2>5, <2>7
<1>15. \A v \in PackWriters : wreq'[v].pc \in {"open", "ingested"} => wreq[v].pc = wreq'[v].pc
  BY <1>5, <1>6
<1> QED
  BY <1>1, <1>3, <1>10, <1>11, <1>12, <1>13, <1>14, <1>15, CommitTurn

\* Everybody at rest and nothing staged: a start, or a restart.
LEMMA FreshStart ==
    /\ IdleReq \in SReqs /\ IdleReq.pc = "idle" /\ IdleReq.man = Manifest({}, 0)
    /\ IdleWrite \in WReqs /\ IdleWrite.pc = "idle" /\ IdleWrite.man = Manifest({}, 0)
    /\ Manifest({}, 0).rev = 0 /\ "idle" \notin Phase \cup Pruning \cup Guarded \cup Staged \cup {"ingested"}
<1>1. 0 \in 0 .. 2 /\ 0 \in Nat
  OBVIOUS
<1> QED
  BY <1>1 DEF IdleReq, IdleWrite, SReqs, WReqs, Mans, Manifest, Phase, Pruning, Guarded, Staged

LEMMA PackRestartStep ==
    ASSUME PacksAtHome, PackAssumption, PackInv, PackRestart
    PROVE  PackInv'
<1>0. PackTypes /\ LineInv /\ RevInv /\ HalfInv /\ pst \in PSts /\ live \in Mans /\ known \in Mans
  BY DEF PackInv, PackTypes
<1>1. /\ known' = live /\ pst' = [pst EXCEPT !.rev = live.rev] /\ proven' = FALSE /\ stage' = [p \in Packs |-> 0]
      /\ held' = [sync |-> "none", pack |-> "none", prune |-> "none"]
      /\ sreq' = [s \in Syncers |-> IdleReq] /\ wreq' = [w \in PackWriters |-> IdleWrite]
      /\ UNCHANGED <<live, files>> /\ \A s \in Syncers : sreq[s].pc # "index"
  BY DEF PackRestart, PacksAtHome
<1>2. /\ \A s \in Syncers : sreq'[s] = IdleReq
      /\ \A w \in PackWriters : wreq'[w] = IdleWrite
      /\ sreq' \in [Syncers -> SReqs] /\ wreq' \in [PackWriters -> WReqs]
      /\ stage' \in [Packs -> Int] /\ \A p \in Packs : stage'[p] = 0
  BY <1>1, FreshStart
<1>3. pst' \in PSts /\ pst'.rev = live.rev /\ pst'.packsRev = pst.packsRev /\ pst'.remote = {}
  BY <1>0, <1>1 DEF PSts, Mans, RevInv
<1>4. PackTypes'
  BY <1>0, <1>1, <1>2, <1>3 DEF PackTypes
<1>5. LineInv'
  BY <1>0, <1>1, <1>2, FreshStart, HeldOnes, LineKeeps
<1>6. RevInv'
  <2>1. known.rev <= live.rev /\ known.rev \in Nat /\ live.rev \in Nat /\ pst.packsRev \in Nat /\ pst.packsRev <= known.rev
    BY <1>0, HeldOnes DEF LineInv, Mans, PSts, RevInv
  <2>2. pst'.packsRev <= known'.rev /\ known'.rev <= pst'.rev /\ 0 <= known'.rev
    BY <1>1, <1>3, <2>1
  <2> QED
    BY <1>2, <1>3, <2>2, FreshStart DEF RevInv
<1>7. LockInv' /\ StageInv' /\ \A s \in Syncers : PhaseInv(s)' /\ GuardInv(s)'
  <2>1. LockInv'
    BY <1>2, FreshStart DEF LockInv
  <2>2. StageInv'
    BY <1>2, FreshStart DEF StageInv
  <2>3. \A s \in Syncers : PhaseInv(s)' /\ GuardInv(s)'
    BY <1>2, FreshStart DEF PhaseInv, GuardInv, Pruning
  <2> QED
    BY <2>1, <2>2, <2>3
<1>8. HalfInv' /\ ReadyInv'
  BY <1>0, <1>1 DEF HalfInv, ReadyInv
<1> QED
  BY <1>4, <1>5, <1>6, <1>7, <1>8 DEF PackInv

LEMMA PackInitInv ==
    ASSUME PackAssumption, PackInit
    PROVE  PackInv
<1>0. 0 \in Nat /\ 1 \in Nat
  OBVIOUS
<1>1. /\ \A s \in Syncers : sreq[s] = IdleReq
      /\ \A w \in PackWriters : wreq[w] = IdleWrite
      /\ sreq \in [Syncers -> SReqs] /\ wreq \in [PackWriters -> WReqs]
      /\ stage \in [Packs -> Int] /\ \A p \in Packs : stage[p] = 0
  BY FreshStart DEF PackInit
<1>2. live = known /\ live \in Mans /\ live.rev = 1
  BY <1>0 DEF PackInit, Manifest, Mans, PackAssumption
<1>3. pst \in PSts /\ pst.rev = 1 /\ pst.packsRev = 1 /\ pst.remote = {} /\ ~proven /\ proven \in BOOLEAN
  BY <1>0 DEF PackInit, PSts
<1>4. files \in [pack : SUBSET Packs, idx : SUBSET Packs] /\ files.pack = files.idx
  BY DEF PackInit, PackAssumption
<1>5. held \in [sync : Syncers \cup {"none"}, pack : Syncers \cup {"none"},
                prune : Syncers \cup PackWriters \cup {"none"}]
  BY DEF PackInit
<1>6. PackTypes
  BY <1>1, <1>2, <1>3, <1>4, <1>5 DEF PackTypes
<1>7. LineInv
  <2>1. HeldMans \subseteq {live, Manifest({}, 0)}
    BY <1>1, <1>2, FreshStart DEF HeldMans
  <2>2. ObjectsOf(Manifest({}, 0).packs) = {}
    BY DEF ObjectsOf, Manifest
  <2>3. \A m, n \in {live, Manifest({}, 0)} : m.rev <= live.rev /\ Ordered(m, n)
    BY <1>2, <2>2, FreshStart DEF Ordered
  <2> QED
    BY <2>1, <2>3 DEF LineInv
<1>8. RevInv
  BY <1>1, <1>2, <1>3, FreshStart DEF RevInv
<1>9. LockInv
  BY <1>1, FreshStart DEF LockInv
<1>10. StageInv
  BY <1>1, FreshStart DEF StageInv
<1>11. \A s \in Syncers : PhaseInv(s) /\ GuardInv(s)
  BY <1>1, FreshStart DEF PhaseInv, GuardInv, Pruning
<1>12. HalfInv /\ ReadyInv
  BY <1>3, <1>4 DEF HalfInv, ReadyInv
<1> QED
  BY <1>6, <1>7, <1>8, <1>9, <1>10, <1>11, <1>12 DEF PackInv

LEMMA PackNextInv ==
    ASSUME PacksAtHome, PackAssumption, PackInv, [PackNext]_packVars
    PROVE  PackInv'
<1>0. PackTypes /\ LineInv /\ live \in Mans
  BY DEF PackInv, PackTypes
<1>1. ASSUME NEW p \in Packs, PushElsewhere(p) \/ \E S \in SUBSET live.packs : CompactElsewhere(p, S) PROVE PackInv'
  <2>1. PICK S \in SUBSET live.packs : /\ live' = Manifest((live.packs \ S) \cup {p}, live.rev + 1)
                                       /\ S = {} \/ Holds[p] = ObjectsOf(S)
                                       /\ UNCHANGED <<known, pst, files, proven, stage, held, sreq, wreq>>
    <3>1. CASE PushElsewhere(p)
      <4>1. live.packs \cup {p} = (live.packs \ {}) \cup {p} /\ {} \in SUBSET live.packs
        OBVIOUS
      <4> QED
        BY <3>1, <4>1 DEF PushElsewhere
    <3>2. CASE \E S \in SUBSET live.packs : CompactElsewhere(p, S)
      BY <3>2 DEF CompactElsewhere
    <3> QED
      BY <1>1, <3>1, <3>2
  <2>2. ObjectsOf(S) \subseteq ObjectsOf({p})
    BY <2>1 DEF ObjectsOf
  <2>3. live' \in Mans /\ live'.rev = live.rev + 1 /\ live'.packs = (live.packs \ S) \cup {p}
    BY <1>0, <2>1 DEF Mans, Manifest
  <2>4. ObjectsOf(live.packs) \subseteq ObjectsOf((live.packs \ S) \cup {p})
    BY <2>2, ObjectsSwap
  <2> QED
    BY <2>1, <2>3, <2>4, ElsewhereStep
<1>2. ASSUME NEW s \in Syncers,
             \/ SyncRefsApply(s) \/ SyncRefsInstall(s) \/ SyncRefsFresh(s)
             \/ SyncPacksReady(s) \/ SyncPacksBegin(s)
             \/ \E p \in Packs : SyncInstallPack(s, p) \/ SyncLinkPack(s, p)
             \/ SyncInstallIdx(s) \/ SyncPacksFail(s)
             \/ SyncPruneBusy(s) \/ SyncPruneScan(s) \/ SyncPruneRemove(s) \/ SyncPruneFinish(s)
             \/ TakeGuard(s) \/ DropGuard(s)
      PROVE  PackInv'
  BY <1>2, RefsApplyStep, RefsInstallStep, QuietSyncs, PacksBeginStep, RenameStep, InstallIdxStep, LeaveStep,
     PruneScanStep, PruneRemoveStep, PruneFinishStep DEF SyncInstallPack, SyncLinkPack
<1>3. ASSUME NEW w \in PackWriters,
             \/ \E p \in Packs, S \in SUBSET known.packs : WriteBegin(w, p, S)
             \/ WriteIngest(w) \/ WriteRefuse(w) \/ WriteStage(w)
             \/ WriteCas(w) \/ WriteRetry(w) \/ WriteFail(w)
             \/ WriteLocal(w) \/ WriteCancel(w) \/ WriteEnd(w)
      PROVE  PackInv'
  BY <1>3, WriteBeginStep, WriteIngestStep, WriteRefuseStep, WriteStageStep, WriteCasStep, WriteRetryStep,
     WriteFailStep, WriteLocalStep, WriteCancelStep, WriteEndStep
<1>4. CASE UNCHANGED packVars
  <2>1. Usable' = Usable
    BY <1>4 DEF packVars, Usable
  <2> QED
    <3>1. PackTypes' /\ LockInv' /\ HalfInv'
      BY <1>4 DEF packVars, PackInv, PackTypes, LockInv, HalfInv
    <3>2. LineInv' /\ RevInv'
      BY <1>4 DEF packVars, PackInv, LineInv, HeldMans, RevInv
    <3>3. StageInv' /\ ReadyInv'
      BY <1>4, <2>1 DEF packVars, PackInv, StageInv, ReadyInv
    <3>4. \A s \in Syncers : PhaseInv(s)' /\ GuardInv(s)'
      BY <1>4, <2>1 DEF packVars, PackInv, PhaseInv, GuardInv
    <3> QED
      BY <3>1, <3>2, <3>3, <3>4 DEF PackInv
<1> QED
  BY <1>1, <1>2, <1>3, <1>4, PackRestartStep DEF PackNext

\* From the invariant to what a request may rely on.
LEMMA PackInvServes ==
    ASSUME PackInv
    PROVE  PacksServed
<1>0. PackTypes /\ RevInv /\ StageInv /\ ReadyInv /\ Usable = {p \in files.pack : p \in files.idx}
  BY UsableIs DEF PackInv
<1>1. StagedKept
  BY <1>0 DEF StagedKept, StageInv, Staged
<1>2. ReaderKeepsPacks /\ GuardServes
  BY DEF ReaderKeepsPacks, GuardServes, PackInv, GuardInv, Guarded, Covered
<1>3. ReadyComplete /\ GarbageRemembered
  BY <1>0 DEF ReadyComplete, GarbageRemembered, level_satisfied, packs_ready, ReadyInv, Covered
<1> QED
  BY <1>1, <1>2, <1>3 DEF PacksServed

\* For every set of packs, requests and writers, and every history of pushes and compactions here
\* and elsewhere, of syncs, failed downloads, refusals, cancelled clients and restarts: a request
\* under its guard finds every object of the manifest it synced, a pack that is about to be
\* published is not pruned under its writer, what counts as ready misses no object, and no pack is
\* left that nobody would prune (reconcile_packs of wal/sync.rs, StagedPackGuard, wal/publish.rs).
THEOREM PacksAreServed ==
    ASSUME PacksAtHome
    PROVE  PackSpec => []PacksServed
<1>1. PackInit => PackInv
  BY PackInitInv, PackAssumption
<1>2. PackInv /\ [PackNext]_packVars => PackInv'
  BY PackNextInv, PackAssumption
<1>3. PackInv => PacksServed
  BY PackInvServes
<1> QED
  BY <1>1, <1>2, <1>3, PTL DEF PackSpec

(***************************************************************************)
(* Adverts: the inductive invariant.                                       *)
(***************************************************************************)

AdLast == Cardinality(AdSeqs)
RefFiles == [AdRefs -> Nat]
Parses == [key : Int, data : RefFiles]
ViewRecs == [pc : {"idle", "sync", "load", "loaded", "version", "key", "packed", "loose", "advert", "done"},
             since : Nat, upto : Nat, ver : Int, key : Int, data : RefFiles, disturbed : BOOLEAN, torn : BOOLEAN]
PubRecs == [pc : {"idle", "lock", "write", "patch", "version"}, next : Nat, upto : Nat, before : Parses,
            behind : BOOLEAN]
AdvertRecs == [data : RefFiles, torn : BOOLEAN, there : BOOLEAN]

AdTypes ==
    /\ adHead \in 0 .. AdLast /\ acked \in Nat /\ packed \in RefFiles /\ loose \in RefFiles /\ refs_gen \in Nat
    /\ parsed \in Parses /\ copyAt \in Nat \cup {None} /\ appliedTo \in Nat
    /\ view \in [Viewers -> ViewRecs] /\ pub \in PubRecs
    /\ adverts \in [{None} \cup 0 .. AdLast -> AdvertRecs]

InReading(x) == x.pc \in {"version", "key", "packed", "loose", "advert"}
PastVersion(x) == x.pc \in {"key", "packed", "loose", "advert"}
Publishing == pub.pc \in {"write", "patch", "version"}

\* Who holds the mutex, and how far each has come.
Numbers ==
    /\ acked <= adHead /\ copyAt <= adHead /\ appliedTo <= adHead /\ parsed.key <= refs_gen
    /\ Publishing <=> mutex = "pub"
    /\ repair.pc = "replay" <=> mutex = "repair"
    /\ mutex = "repair" => copyAt # None
    /\ mutex # "repair" /\ copyAt # None => appliedTo = copyAt
    /\ pub.pc # "idle" => copyAt # None /\ 1 <= pub.next /\ pub.next <= pub.upto /\ pub.upto <= adHead
    /\ pub.pc = "lock" => copyAt >= pub.next - 1
    /\ pub.pc = "version" => pub.next = pub.upto
    /\ pub.before.key # None => pub.pc = "patch"
    /\ adverts[None].there => adverts[None].torn

\* Nobody has read a version from n on.
Unseen(n) ==
    /\ \A k \in DOMAIN adverts : k >= n => ~adverts[k].there
    /\ \A v \in Viewers : PastVersion(view[v]) => view[v].ver < n

Held(x, v) ==
    /\ x.pc \in {"load", "loaded"} <=> mutex = v
    /\ mutex = v => copyAt < x.upto /\ x.upto <= adHead /\ x.since <= x.upto
    /\ x.pc \in {"sync", "load", "loaded"} => ~x.disturbed /\ ~x.torn
    /\ x.key <= refs_gen /\ x.since <= acked
    /\ InReading(x) /\ x.torn => x.disturbed

\* The entry that the ref files are not behind.
Level == IF pub.pc \in {"write", "patch"} THEN pub.next - 1 ELSE IF pub.pc = "version" THEN pub.next ELSE appliedTo
Above(d, k) == \A b \in AdRefs : d[b] >= RefsAt(k)[b]

FilesInv ==
    /\ Above(Overlay(packed, loose), Level)
    /\ pub.pc = "patch" => loose[Touches[pub.next]] = pub.next
    /\ parsed.key = refs_gen => Above(parsed.data, Level)
    /\ pub.before.key # None => Above(pub.before.data, Level)

LateInv ==
    /\ Publishing /\ (\E v \in Viewers : InReading(view[v]) /\ ~view[v].torn) => copyAt < pub.next /\ Unseen(pub.upto)
    /\ pub.pc = "lock" /\ copyAt = pub.next - 1 => Unseen(pub.next)
    /\ \A u, v \in Viewers : mutex = u /\ PastVersion(view[v]) /\ ~view[v].torn => view[v].ver # view[u].upto
    /\ \A v \in Viewers : mutex = "repair" /\ InReading(view[v]) => view[v].torn
    /\ \A v \in Viewers : PastVersion(view[v]) /\ ~view[v].torn /\ view[v].ver = adHead => copyAt = adHead

\* The advert of k shows all of it, and so does what a request has read so far.
Good(k) == adverts[k].there /\ ~adverts[k].torn => Above(adverts[k].data, k)
Got(x, k) == (x.pc = "loose" => Above(Overlay(x.data, loose), k)) /\ (x.pc = "advert" => Above(x.data, k))

Shown(x, v) ==
    /\ x.pc = "loaded" => Above(packed, x.upto)
    /\ x.pc = "loose" /\ x.key = refs_gen => Above(Overlay(x.data, loose), Level)
    /\ mutex = v => Good(x.upto)
    /\ InReading(x) /\ ~x.disturbed => x.since <= appliedTo /\ Good(copyAt) /\ Got(x, x.since)
    /\ PastVersion(x) /\ ~x.torn /\ x.ver # None /\ x.ver = copyAt => Got(x, x.ver)
    /\ x.pc = "done" /\ ~x.disturbed /\ ~x.torn => Above(x.data, x.since)

AdMain == FilesInv /\ LateInv /\ Good(adHead) /\ \A v \in Viewers : Shown(view[v], v)
AdInv ==
    /\ AdTypes /\ Numbers /\ Unseen(adHead + 1) /\ \A v \in Viewers : Held(view[v], v)
    /\ ~pub.behind => AdMain

-----------------------------------------------------------------------------
(* The refs after an entry. *)

\* A nonempty set of naturals with an upper bound has a greatest element.
LEMMA GreatestExists ==
    ASSUME NEW N \in Nat, NEW S \in SUBSET (0 .. N), S # {}
    PROVE  \E m \in S : \A t \in S : t <= m
<1> DEFINE D == {e \in Nat : \E t \in S : e = N - t}
<1>1. D \subseteq Nat /\ D # {}
  <2>1. PICK t \in S : TRUE
    OBVIOUS
  <2>2. N - t \in D
    BY <2>1
  <2> QED
    BY <2>2
<1>2. PICK d \in D : \A e \in D : ~(<<e, d>> \in OpToRel(<, Nat))
  <2> HIDE DEF D
  <2> QED
    BY <1>1, NatLessThanWellFounded, WFMin
<1>3. \A e \in D : ~(e < d)
  BY <1>1, <1>2, Zenon DEF OpToRel
<1>4. PICK m \in S : d = N - m
  OBVIOUS
<1>5. \A t \in S : t <= m
  <2> TAKE t \in S
  <2>1. N - t \in D
    OBVIOUS
  <2> QED
    BY <1>3, <1>4, <2>1
<1> QED
  BY <1>4, <1>5

\* What the CHOOSE of replay and RefsAt finds.
LEMMA GreatestFound ==
    ASSUME NEW N \in Nat, NEW S \in SUBSET (1 .. N), S # {}
    PROVE  LET m == CHOOSE j \in S : \A i \in S : i <= j IN m \in S /\ \A i \in S : i <= m
<1>1. S \in SUBSET (0 .. N)
  OBVIOUS
<1>2. \E m \in S : \A t \in S : t <= m
  BY <1>1, GreatestExists
<1> QED
  BY <1>2

LEMMA RefsForm ==
    ASSUME NEW k \in Nat, NEW b \in AdRefs
    PROVE  /\ RefsAt(k)[b] \in Nat /\ RefsAt(k)[b] <= k
           /\ \A i \in 1 .. k : Touches[i] = b => i <= RefsAt(k)[b]
           /\ RefsAt(k)[b] # 0 => RefsAt(k)[b] \in 1 .. k /\ Touches[RefsAt(k)[b]] = b
<1>1. PICK S : S = {j \in 1 .. k : Touches[j] = b}
  OBVIOUS
<1>2. PICK r : r = RefsAt(k)[b]
  OBVIOUS
<1>3. r = IF S = {} THEN 0 ELSE CHOOSE j \in S : \A i \in S : i <= j
  BY <1>1, <1>2 DEF RefsAt
<1>4. S \in SUBSET (1 .. k)
  BY <1>1
<1>5. CASE S = {}
  BY <1>1, <1>2, <1>3, <1>5
<1>6. CASE S # {}
  <2>1. r \in S /\ \A i \in S : i <= r
    BY <1>3, <1>4, <1>6, GreatestFound
  <2> QED
    BY <1>1, <1>2, <2>1
<1> QED
  BY <1>5, <1>6

LEMMA RefsMono ==
    ASSUME NEW k \in Nat, NEW l \in Nat, k <= l, NEW b \in AdRefs
    PROVE  RefsAt(k)[b] <= RefsAt(l)[b]
<1>1. PICK r : r = RefsAt(k)[b]
  OBVIOUS
<1>2. r \in Nat /\ r <= k /\ (r # 0 => r \in 1 .. k /\ Touches[r] = b) /\ RefsAt(l)[b] \in Nat
  BY <1>1, RefsForm
<1>3. CASE r = 0
  BY <1>1, <1>2, <1>3
<1>4. CASE r # 0
  <2>1. r \in 1 .. l /\ Touches[r] = b
    BY <1>2, <1>4
  <2> QED
    BY <1>1, <2>1, RefsForm
<1> QED
  BY <1>3, <1>4

LEMMA AboveLess ==
    ASSUME NEW d \in RefFiles, NEW k \in Nat, NEW l \in Nat, k <= l, Above(d, l)
    PROVE  Above(d, k)
<1> SUFFICES ASSUME NEW b \in AdRefs PROVE d[b] >= RefsAt(k)[b]
  BY DEF Above
<1>1. RefsAt(k)[b] \in Nat /\ RefsAt(l)[b] \in Nat /\ RefsAt(k)[b] <= RefsAt(l)[b]
  BY RefsForm, RefsMono
<1>2. d[b] \in Nat /\ d[b] >= RefsAt(l)[b]
  BY DEF Above, RefFiles
<1> QED
  BY <1>1, <1>2

\* A write of n puts a ref above all that comes up to n.
LEMMA AbovePut ==
    ASSUME NEW d \in RefFiles, NEW k \in Nat, NEW n \in Nat, k <= n, NEW r \in AdRefs,
           \A b \in AdRefs : b # r => d[b] >= RefsAt(k)[b]
    PROVE  [d EXCEPT ![r] = n] \in RefFiles /\ Above([d EXCEPT ![r] = n], k)
<1>1. RefsAt(k)[r] \in Nat /\ RefsAt(k)[r] <= k
  BY RefsForm
<1>2. n >= RefsAt(k)[r]
  BY <1>1
<1>3. [d EXCEPT ![r] = n][r] = n /\ \A b \in AdRefs : b # r => [d EXCEPT ![r] = n][b] = d[b]
  BY DEF RefFiles
<1>4. [d EXCEPT ![r] = n] \in RefFiles
  BY DEF RefFiles
<1> QED
  BY <1>2, <1>3, <1>4 DEF Above

\* Entry n changes the ref it touches and no other.
LEMMA NextEntry ==
    ASSUME NEW n \in Nat, n >= 1, NEW b \in AdRefs, b # Touches[n]
    PROVE  RefsAt(n)[b] <= RefsAt(n - 1)[b]
<1>1. PICK r : r = RefsAt(n)[b]
  OBVIOUS
<1>2. n - 1 \in Nat
  OBVIOUS
<1>3. r \in Nat /\ r <= n /\ (r # 0 => r \in 1 .. n /\ Touches[r] = b) /\ RefsAt(n - 1)[b] \in Nat
  BY <1>1, <1>2, RefsForm
<1>4. CASE r = 0
  BY <1>1, <1>3, <1>4
<1>5. CASE r # 0
  <2>1. r # n
    BY <1>3, <1>5
  <2>2. r \in 1 .. (n - 1) /\ Touches[r] = b
    BY <1>3, <1>5, <2>1
  <2> QED
    BY <1>1, <1>2, <2>2, RefsForm
<1> QED
  BY <1>4, <1>5

LEMMA AboveNext ==
    ASSUME NEW d \in RefFiles, NEW n \in Nat, n >= 1, Touches[n] \in AdRefs, Above(d, n - 1)
    PROVE  Above([d EXCEPT ![Touches[n]] = n], n)
<1>1. ASSUME NEW b \in AdRefs, b # Touches[n] PROVE d[b] >= RefsAt(n)[b]
  <2>1. RefsAt(n)[b] <= RefsAt(n - 1)[b] /\ RefsAt(n)[b] \in Nat
    BY <1>1, NextEntry, RefsForm
  <2>2. RefsAt(n - 1)[b] \in Nat /\ d[b] >= RefsAt(n - 1)[b]
    <3>1. n - 1 \in Nat
      OBVIOUS
    <3> QED
      BY <1>1, <3>1, RefsForm DEF Above
  <2>3. d[b] \in Nat
    BY <1>1 DEF RefFiles
  <2> QED
    BY <2>1, <2>2, <2>3
<1>2. n <= n
  OBVIOUS
<1> QED
  BY <1>1, <1>2, AbovePut

\* A file hides what is below it.
LEMMA OverlayForm ==
    ASSUME NEW d \in RefFiles, NEW e \in RefFiles
    PROVE  /\ Overlay(d, e) \in RefFiles
           /\ \A b \in AdRefs : Overlay(d, e)[b] = IF e[b] # 0 THEN e[b] ELSE d[b]
BY DEF Overlay, RefFiles

LEMMA OverlayPut ==
    ASSUME NEW d \in RefFiles, NEW e \in RefFiles, NEW r \in AdRefs, NEW n \in Nat, n # 0
    PROVE  Overlay(d, [e EXCEPT ![r] = n]) = [Overlay(d, e) EXCEPT ![r] = n]
BY DEF Overlay, RefFiles

LEMMA AbsentForm ==
    /\ Absent \in RefFiles /\ \A d \in RefFiles : Overlay(d, Absent) = d
    /\ \A d \in RefFiles : Above(d, 0)
<1>1. Absent \in RefFiles /\ \A d \in RefFiles : Overlay(d, Absent) = d
  BY DEF Absent, RefFiles, Overlay
<1>2. ASSUME NEW d \in RefFiles PROVE Above(d, 0)
  <2> SUFFICES ASSUME NEW b \in AdRefs PROVE d[b] >= RefsAt(0)[b]
    BY DEF Above
  <2>1. RefsAt(0)[b] \in Nat /\ RefsAt(0)[b] <= 0 /\ d[b] \in Nat
    BY <1>2, RefsForm DEF RefFiles
  <2> QED
    BY <2>1
<1> QED
  BY <1>1, <1>2

\* replay_log: the new entries on top of what is there.
LEMMA ReplayAbove ==
    ASSUME NEW d \in RefFiles, NEW a \in Nat, NEW u \in Nat, Above(d, a), NEW f,
           f = [b \in AdRefs |-> LET new == {j \in (a + 1) .. u : Touches[j] = b} IN
                                 IF new = {} THEN d[b] ELSE CHOOSE j \in new : \A i \in new : i <= j]
    PROVE  f \in RefFiles /\ Above(f, u)
<1>1. ASSUME NEW b \in AdRefs PROVE f[b] \in Nat /\ f[b] >= RefsAt(u)[b]
  <2>1. PICK S : S = {j \in (a + 1) .. u : Touches[j] = b}
    OBVIOUS
  <2>2. f[b] = IF S = {} THEN d[b] ELSE CHOOSE j \in S : \A i \in S : i <= j
    BY <1>1, <2>1
  <2>3. PICK r : r = RefsAt(u)[b]
    OBVIOUS
  <2>4. r \in Nat /\ r <= u /\ (r # 0 => r \in 1 .. u /\ Touches[r] = b)
    BY <1>1, <2>3, RefsForm
  <2>5. d[b] \in Nat /\ d[b] >= RefsAt(a)[b] /\ RefsAt(a)[b] \in Nat
    BY <1>1, RefsForm DEF RefFiles, Above
  <2>6. r \in 1 .. a /\ Touches[r] = b => r <= RefsAt(a)[b]
    BY <1>1, RefsForm
  <2>7. CASE S = {}
    <3>1. r = 0 \/ (r \in 1 .. a /\ Touches[r] = b)
      BY <2>1, <2>4, <2>7
    <3> QED
      BY <2>2, <2>3, <2>4, <2>5, <2>6, <2>7, <3>1
  <2>8. CASE S # {}
    <3>1. S \in SUBSET (1 .. u)
      BY <2>1
    <3>2. f[b] \in S /\ \A i \in S : i <= f[b]
      BY <2>2, <2>8, <3>1, GreatestFound
    <3>3. f[b] \in Nat /\ f[b] >= a + 1
      BY <2>1, <3>2
    <3>4. CASE r \in S
      BY <2>3, <2>4, <3>2, <3>3, <3>4
    <3>5. CASE r \notin S
      <4>1. r = 0 \/ r <= a
        BY <2>1, <2>4, <3>5
      <4> QED
        BY <2>3, <2>4, <3>3, <4>1
    <3> QED
      BY <3>4, <3>5
  <2> QED
    BY <2>7, <2>8
<1>2. f \in RefFiles
  <2>1. f = [b \in AdRefs |-> f[b]]
    OBVIOUS
  <2> QED
    BY <1>1, <2>1 DEF RefFiles
<1> QED
  BY <1>1, <1>2 DEF Above

\* What it brings is a ref file, and no ref goes back.
LEMMA ReplayType ==
    ASSUME NEW d \in RefFiles, NEW a \in Nat, NEW u \in Nat, NEW f,
           f = [b \in AdRefs |-> LET new == {j \in (a + 1) .. u : Touches[j] = b} IN
                                 IF new = {} THEN d[b] ELSE CHOOSE j \in new : \A i \in new : i <= j]
    PROVE  f \in RefFiles
<1>1. ASSUME NEW b \in AdRefs PROVE f[b] \in Nat
  <2>1. PICK S : S = {j \in (a + 1) .. u : Touches[j] = b}
    OBVIOUS
  <2>2. f[b] = IF S = {} THEN d[b] ELSE CHOOSE j \in S : \A i \in S : i <= j
    BY <1>1, <2>1
  <2>3. d[b] \in Nat
    BY <1>1 DEF RefFiles
  <2>4. S \in SUBSET (1 .. u)
    BY <2>1
  <2>5. S # {} => f[b] \in S
    BY <2>2, <2>4, GreatestFound
  <2>6. CASE S = {}
    BY <2>2, <2>3, <2>6
  <2>7. CASE S # {}
    <3>1. \A s \in S : s \in Nat
      BY <2>1
    <3> QED
      BY <2>5, <2>7, <3>1
  <2> QED
    BY <2>6, <2>7
<1>2. f = [b \in AdRefs |-> f[b]]
  OBVIOUS
<1> QED
  BY <1>1, <1>2 DEF RefFiles

LEMMA ReplayStays ==
    ASSUME NEW d \in RefFiles, NEW a \in Nat, NEW u \in Nat, Above(d, a), NEW f,
           f = [b \in AdRefs |-> LET new == {j \in (a + 1) .. u : Touches[j] = b} IN
                                 IF new = {} THEN d[b] ELSE CHOOSE j \in new : \A i \in new : i <= j]
    PROVE  Above(f, a)
<1>0. f \in RefFiles /\ Above(f, u)
  BY ReplayAbove
<1>1. CASE a <= u
  BY <1>0, <1>1, AboveLess
<1>2. CASE u < a
  <2>1. ASSUME NEW b \in AdRefs PROVE f[b] = d[b]
    <3>1. {j \in (a + 1) .. u : Touches[j] = b} = {}
      BY <1>2
    <3> QED
      BY <2>1, <3>1
  <2> QED
    BY <2>1 DEF Above
<1> QED
  BY <1>1, <1>2

\* New files under the ones that hide them.
LEMMA OverlayAbove ==
    ASSUME NEW p \in RefFiles, NEW f \in RefFiles, NEW e \in RefFiles, NEW k \in Nat, Above(Overlay(p, e), k), Above(f, k)
    PROVE  Above(Overlay(f, e), k)
<1>1. ASSUME NEW b \in AdRefs PROVE Overlay(f, e)[b] >= RefsAt(k)[b]
  <2>1. Overlay(f, e)[b] = (IF e[b] # 0 THEN e[b] ELSE f[b]) /\ Overlay(p, e)[b] = (IF e[b] # 0 THEN e[b] ELSE p[b])
    BY <1>1, OverlayForm
  <2>2. Overlay(p, e)[b] >= RefsAt(k)[b] /\ f[b] >= RefsAt(k)[b]
    BY <1>1 DEF Above
  <2> QED
    BY <2>1, <2>2
<1> QED
  BY <1>1 DEF Above

-----------------------------------------------------------------------------
(* A request takes a step of its own. *)

Sees(v, q) == view' = [view EXCEPT ![v] = q]

LEMMA ViewSet ==
    ASSUME AdTypes, NEW v \in Viewers, NEW q \in ViewRecs, Sees(v, q)
    PROVE  /\ view' \in [Viewers -> ViewRecs] /\ view'[v] = q
           /\ \A w \in Viewers : w # v => view'[w] = view[w]
BY DEF AdTypes, Sees

LEMMA LevelNat ==
    ASSUME AdTypes, Numbers
    PROVE  Level \in Nat
<1>1. appliedTo \in Nat /\ pub.next \in Nat /\ (pub.pc # "idle" => 1 <= pub.next)
  BY DEF AdTypes, PubRecs, Numbers
<1> QED
  BY <1>1 DEF Level

LEMMA HeldSame ==
    ASSUME NEW x, NEW v, view'[v] = x, Held(x, v)'
    PROVE  Held(view[v], v)'
BY DEF Held, InReading

LEMMA ShownSame ==
    ASSUME NEW x, NEW v, view'[v] = x, Shown(x, v)'
    PROVE  Shown(view[v], v)'
<1>1. Got(x, x.since)' => Got(view[v], view[v].since)'
  BY DEF Got
<1>2. Got(x, x.ver)' => Got(view[v], view[v].ver)'
  BY DEF Got
<1>3. Good(x.upto)' => Good(view[v].upto)'
  BY DEF Good
<1> QED
  BY <1>1, <1>2, <1>3 DEF Shown, InReading, PastVersion

LEMMA UnseenTurn ==
    ASSUME AdTypes, NEW v \in Viewers, NEW q \in ViewRecs, Sees(v, q), adverts' = adverts, NEW n \in Int,
           Unseen(n), PastVersion(q) => q.ver < n
    PROVE  Unseen(n)'
<1>1. view'[v] = q /\ \A w \in Viewers : w # v => view'[w] = view[w]
  BY ViewSet
<1> QED
  BY <1>1 DEF Unseen, PastVersion

\* A request that reads goes on with the version it has read, or reads the copy's.
GoesOn(v, q) ==
    /\ mutex # v
    /\ InReading(q) => (InReading(view[v]) /\ q.torn = view[v].torn) \/ mutex = "free"
    /\ PastVersion(q) => /\ InReading(view[v]) /\ q.torn = view[v].torn
                         /\ q.ver = copyAt \/ (PastVersion(view[v]) /\ q.ver = view[v].ver)

\* The five parts of LateInv, over what the step leaves.
LEMMA LateAgain ==
    ASSUME UNCHANGED <<adHead, copyAt, mutex, pub>>,
           \A w \in Viewers : Publishing /\ InReading(view'[w]) /\ ~view'[w].torn => copyAt < pub.next /\ Unseen(pub.upto)',
           pub.pc = "lock" /\ copyAt = pub.next - 1 => Unseen(pub.next)',
           \A u, w \in Viewers : mutex = u /\ PastVersion(view'[w]) /\ ~view'[w].torn => view'[w].ver # view'[u].upto,
           \A w \in Viewers : mutex = "repair" /\ InReading(view'[w]) => view'[w].torn,
           \A w \in Viewers : PastVersion(view'[w]) /\ ~view'[w].torn /\ view'[w].ver = adHead => copyAt = adHead
    PROVE  LateInv'
<1>1. Publishing' = Publishing
  BY DEF Publishing
<1>9. (Publishing /\ (\E w \in Viewers : InReading(view[w]) /\ ~view[w].torn) => copyAt < pub.next /\ Unseen(pub.upto))'
  BY <1>1 DEF InReading
<1>10. (pub.pc = "lock" /\ copyAt = pub.next - 1 => Unseen(pub.next))'
  OBVIOUS
<1>11. (\A u, w \in Viewers : mutex = u /\ PastVersion(view[w]) /\ ~view[w].torn => view[w].ver # view[u].upto)'
  BY DEF PastVersion
<1>12. (\A w \in Viewers : mutex = "repair" /\ InReading(view[w]) => view[w].torn)'
  BY DEF InReading
<1>13. (\A w \in Viewers : PastVersion(view[w]) /\ ~view[w].torn /\ view[w].ver = adHead => copyAt = adHead)'
  BY DEF PastVersion
<1> QED
  BY <1>9, <1>10, <1>11, <1>12, <1>13 DEF LateInv

LEMMA LateTurn ==
    ASSUME AdInv, ~pub.behind, NEW v \in Viewers, NEW q \in ViewRecs, Sees(v, q), GoesOn(v, q),
           UNCHANGED <<adHead, copyAt, mutex, pub, adverts>>
    PROVE  LateInv'
<1>0. AdTypes /\ Numbers /\ LateInv /\ \A w \in Viewers : Held(view[w], w)
  BY DEF AdInv, AdMain
<1>1. view'[v] = q /\ \A w \in Viewers : w # v => view'[w] = view[w]
  BY <1>0, ViewSet
<1>2. /\ copyAt \in Int /\ pub.next \in Nat /\ pub.upto \in Nat /\ adHead \in Int
      /\ pub.pc # "idle" => pub.next <= pub.upto
  BY <1>0 DEF AdTypes, PubRecs, None, Numbers
<1>3. Publishing' = Publishing /\ (Publishing => mutex = "pub" /\ pub.pc # "idle")
  BY <1>0 DEF Publishing, Numbers
<1>4. ASSUME Publishing, NEW w \in Viewers, InReading(view'[w]), ~view'[w].torn
      PROVE  copyAt < pub.next /\ Unseen(pub.upto)'
  <2>1. InReading(view[w]) /\ ~view[w].torn
    <3>1. CASE w = v
      BY <1>1, <1>3, <1>4, <3>1 DEF GoesOn
    <3>2. CASE w # v
      BY <1>1, <1>4, <3>2
    <3> QED
      BY <3>1, <3>2
  <2>2. copyAt < pub.next /\ Unseen(pub.upto)
    BY <1>0, <1>4, <2>1 DEF LateInv
  <2>3. ASSUME PastVersion(q) PROVE q.ver < pub.upto
    <3>1. CASE q.ver = copyAt
      BY <1>2, <1>3, <1>4, <2>2, <3>1
    <3>2. CASE q.ver = view[v].ver /\ PastVersion(view[v])
      BY <2>2, <3>2 DEF Unseen
    <3> QED
      BY <2>3, <3>1, <3>2 DEF GoesOn
  <2>4. PICK n \in Int : n = pub.upto /\ n = pub'.upto
    BY <1>2
  <2>5. Unseen(n)'
    BY <1>0, <2>2, <2>3, <2>4, UnseenTurn
  <2> QED
    BY <2>2, <2>4, <2>5 DEF Unseen
<1>5. ASSUME pub.pc = "lock", copyAt = pub.next - 1 PROVE Unseen(pub.next)'
  <2>1. Unseen(pub.next)
    BY <1>0, <1>5 DEF LateInv
  <2>2. ASSUME PastVersion(q) PROVE q.ver < pub.next
    <3>1. CASE q.ver = copyAt
      BY <1>2, <1>5, <3>1
    <3>2. CASE q.ver = view[v].ver /\ PastVersion(view[v])
      BY <2>1, <3>2 DEF Unseen
    <3> QED
      BY <2>2, <3>1, <3>2 DEF GoesOn
  <2>3. PICK n \in Int : n = pub.next /\ n = pub'.next
    BY <1>2
  <2>4. Unseen(n)'
    BY <1>0, <2>1, <2>2, <2>3, UnseenTurn
  <2> QED
    BY <2>3, <2>4 DEF Unseen
<1>6. ASSUME NEW u \in Viewers, NEW w \in Viewers, mutex = u, PastVersion(view'[w]), ~view'[w].torn
      PROVE  view'[w].ver # view'[u].upto
  <2>1. view'[u] = view[u]
    BY <1>1, <1>6 DEF GoesOn
  <2>2. copyAt < view[u].upto /\ view[u].upto \in Nat
    BY <1>0, <1>6 DEF Held, AdTypes, ViewRecs
  <2>3. copyAt # view[u].upto
    BY <1>2, <2>2
  <2>4. CASE w # v
    BY <1>0, <1>1, <1>6, <2>1, <2>4 DEF LateInv
  <2>5. CASE w = v
    <3>1. q.ver = copyAt \/ (PastVersion(view[v]) /\ q.ver = view[v].ver /\ ~view[v].torn)
      BY <1>1, <1>6, <2>5 DEF GoesOn
    <3>2. PastVersion(view[v]) /\ ~view[v].torn => view[v].ver # view[u].upto
      BY <1>0, <1>6 DEF LateInv
    <3> QED
      BY <1>1, <2>1, <2>3, <2>5, <3>1, <3>2
  <2> QED
    BY <2>4, <2>5
<1>7. ASSUME NEW w \in Viewers, mutex = "repair", InReading(view'[w]) PROVE view'[w].torn
  <2>1. CASE w # v
    BY <1>0, <1>1, <1>7, <2>1 DEF LateInv
  <2>2. CASE w = v
    BY <1>0, <1>1, <1>7, <2>2 DEF LateInv, GoesOn
  <2> QED
    BY <2>1, <2>2
<1>8. ASSUME NEW w \in Viewers, PastVersion(view'[w]), ~view'[w].torn, view'[w].ver = adHead PROVE copyAt = adHead
  <2>1. CASE w # v
    BY <1>0, <1>1, <1>8, <2>1 DEF LateInv
  <2>2. CASE w = v
    BY <1>0, <1>1, <1>8, <2>2 DEF LateInv, GoesOn
  <2> QED
    BY <2>1, <2>2
<1> QED
  BY <1>4, <1>5, <1>6, <1>7, <1>8, LateAgain

\* Nothing but a request, and perhaps the parsed snapshot, changes.
LEMMA ViewTurn ==
    ASSUME AdInv, NEW v \in Viewers, NEW q \in ViewRecs, Sees(v, q), GoesOn(v, q),
           UNCHANGED <<adHead, acked, packed, loose, refs_gen, copyAt, appliedTo, mutex, pub, repair, adverts>>,
           parsed' \in Parses, parsed'.key <= refs_gen,
           ~pub.behind /\ parsed'.key = refs_gen => Above(parsed'.data, Level),
           Held(q, v), ~pub.behind => Shown(q, v)
    PROVE  AdInv'
<1>0. AdTypes /\ Numbers /\ Unseen(adHead + 1) /\ \A w \in Viewers : Held(view[w], w)
  BY DEF AdInv
<1>1. view' \in [Viewers -> ViewRecs] /\ view'[v] = q /\ \A w \in Viewers : w # v => view'[w] = view[w]
  BY <1>0, ViewSet
<1>2. AdTypes'
  BY <1>0, <1>1 DEF AdTypes
<1>3. Numbers'
  BY <1>0 DEF Numbers, Publishing
<1>4. Unseen(adHead + 1)'
  <2>1. PICK n \in Int : n = adHead + 1 /\ n = adHead' + 1
    BY <1>0 DEF AdTypes
  <2>2. copyAt < n
    BY <1>0, <2>1 DEF AdTypes, Numbers, None
  <2>3. PastVersion(q) => q.ver < n
    BY <1>0, <2>1, <2>2 DEF Unseen, GoesOn
  <2>4. Unseen(n)'
    BY <1>0, <2>1, <2>3, UnseenTurn
  <2> QED
    BY <2>1, <2>4 DEF Unseen
<1>5. ASSUME NEW w \in Viewers PROVE Held(view[w], w)'
  <2>1. PICK x : x = view'[w] /\ ((x = q /\ w = v) \/ x = view[w])
    BY <1>1, <1>5
  <2>2. Held(x, w)
    BY <1>0, <1>5, <2>1
  <2>3. Held(x, w)'
    BY <2>2 DEF Held
  <2> QED
    BY <2>1, <2>3, HeldSame
<1>6. ASSUME ~pub.behind PROVE AdMain'
  <2>0. FilesInv /\ Good(adHead) /\ \A w \in Viewers : Shown(view[w], w)
    BY <1>6 DEF AdInv, AdMain
  <2>1. LateInv'
    BY <1>6, LateTurn
  <2>2. FilesInv'
    BY <1>6, <2>0 DEF FilesInv, Level
  <2>3. Good(adHead)'
    BY <2>0 DEF Good
  <2>4. ASSUME NEW w \in Viewers PROVE Shown(view[w], w)'
    <3>1. PICK x : x = view'[w] /\ ((x = q /\ w = v) \/ x = view[w])
      BY <1>1, <2>4
    <3>2. Shown(x, w)
      BY <1>6, <2>0, <2>4, <3>1
    <3>3. Shown(x, w)'
      BY <3>2 DEF Shown, Good, Got, Level
    <3> QED
      BY <3>1, <3>3, ShownSame
  <2> QED
    BY <2>1, <2>2, <2>3, <2>4 DEF AdMain
<1> QED
  BY <1>2, <1>3, <1>4, <1>5, <1>6 DEF AdInv

-----------------------------------------------------------------------------
(* The steps of a request that leave the copy alone. *)

LEMMA ViewerNames == ASSUME NEW v \in Viewers PROVE v # "free" /\ v # "pub" /\ v # "repair"
BY AdvertsAssumption

LEMMA LastNat == AdLast \in Nat
BY AdvertsAssumption, FS_CardinalityType DEF AdLast, AdSeqs

LEMMA ViewForm ==
    ASSUME AdTypes, NEW v \in Viewers
    PROVE  view[v] \in ViewRecs
BY DEF AdTypes

\* What an undisturbed request relies on: the files are not behind the copy.
LEMMA ReaderLevel ==
    ASSUME AdInv, ~pub.behind, NEW v \in Viewers, InReading(view[v]), ~view[v].torn
    PROVE  /\ mutex # "repair" /\ appliedTo <= Level /\ copyAt <= Level
           /\ copyAt # None => appliedTo = copyAt
<1>0. AdTypes /\ Numbers /\ LateInv
  BY DEF AdInv, AdMain
<1>1. copyAt \in Nat \cup {-1} /\ appliedTo \in Nat /\ pub.next \in Nat
  BY <1>0 DEF AdTypes, PubRecs, None
<1>2. mutex # "repair"
  BY <1>0 DEF LateInv
<1>3. copyAt # None => appliedTo = copyAt
  BY <1>0, <1>2 DEF Numbers
<1>4. CASE Publishing
  <2>1. copyAt < pub.next /\ copyAt # None
    BY <1>0, <1>4 DEF LateInv, Publishing, Numbers
  <2>2. Level = pub.next - 1 \/ Level = pub.next
    BY <1>4 DEF Level, Publishing
  <2> QED
    BY <1>1, <1>2, <1>3, <2>1, <2>2
<1>5. CASE ~Publishing
  <2>1. Level = appliedTo
    BY <1>5 DEF Level, Publishing
  <2>2. copyAt = -1 \/ appliedTo = copyAt
    BY <1>3 DEF None
  <2> QED
    BY <1>1, <1>2, <1>3, <2>1, <2>2
<1> QED
  BY <1>4, <1>5

LEMMA StepAskRefs ==
    ASSUME AdInv, NEW v \in Viewers, AskRefs(v)
    PROVE  AdInv'
<1>0. AdTypes /\ Numbers /\ Held(view[v], v) /\ view[v] \in ViewRecs
  BY ViewForm DEF AdInv
<1>1. PICK q : q = [view[v] EXCEPT !.pc = "sync", !.since = acked, !.disturbed = FALSE, !.torn = FALSE, !.data = Absent]
  OBVIOUS
<1>2. q \in ViewRecs /\ q.pc = "sync" /\ q.since = acked /\ ~q.disturbed /\ ~q.torn /\ q.key = view[v].key
  BY <1>0, <1>1, AbsentForm DEF ViewRecs, AdTypes
<1>3. Sees(v, q)
  BY <1>1 DEF Sees, AskRefs
<1>4. mutex # v
  BY <1>0 DEF Held, AskRefs
<1>5. ~InReading(q) /\ ~PastVersion(q)
  BY <1>2 DEF InReading, PastVersion
<1>6. GoesOn(v, q)
  BY <1>4, <1>5 DEF GoesOn
<1>7. Held(q, v)
  <2>1. acked <= acked /\ q.key <= refs_gen
    BY <1>0, <1>2 DEF AdTypes, Held
  <2> QED
    BY <1>2, <1>4, <1>5, <2>1 DEF Held
<1>8. Shown(q, v)
  BY <1>2, <1>4, <1>5 DEF Shown
<1>9. UNCHANGED <<adHead, acked, packed, loose, refs_gen, parsed, copyAt, appliedTo, mutex, pub, repair, adverts>>
  BY DEF AskRefs, copyVars
<1>10. parsed \in Parses /\ parsed.key <= refs_gen /\ (~pub.behind /\ parsed.key = refs_gen => Above(parsed.data, Level))
  BY <1>0 DEF AdTypes, Numbers, AdInv, AdMain, FilesInv
<1> QED
  BY <1>2, <1>3, <1>6, <1>7, <1>8, <1>9, <1>10, ViewTurn

\* freshness_check finds the copy at the newest version.
LEMMA StepFresh ==
    ASSUME AdInv, NEW v \in Viewers, FreshnessCheck(v), copyAt = adHead
    PROVE  AdInv'
<1>0. AdTypes /\ Numbers /\ Held(view[v], v) /\ view[v] \in ViewRecs
  BY ViewForm DEF AdInv
<1>1. PICK q : q = [view[v] EXCEPT !.pc = "version"]
  OBVIOUS
<1>2. /\ q \in ViewRecs /\ q.pc = "version" /\ q.since = view[v].since /\ q.key = view[v].key
      /\ q.disturbed = view[v].disturbed /\ q.torn = view[v].torn
  BY <1>0, <1>1 DEF ViewRecs
<1>3. Sees(v, q)
  BY <1>1 DEF Sees, FreshnessCheck
<1>4. mutex # v /\ mutex = "free"
  BY ViewerNames DEF FreshnessCheck
<1>5. ~PastVersion(q)
  BY <1>2 DEF PastVersion
<1>6. GoesOn(v, q)
  BY <1>4, <1>5 DEF GoesOn
<1>7. ~view[v].disturbed /\ ~view[v].torn /\ view[v].since <= acked /\ view[v].key <= refs_gen
  BY <1>0 DEF Held, FreshnessCheck
<1>8. Held(q, v)
  BY <1>2, <1>4, <1>7 DEF Held
<1>9. ASSUME ~pub.behind PROVE Shown(q, v)
  <2>1. q.since <= appliedTo
    <3>1. appliedTo = copyAt /\ acked <= adHead
      BY <1>0, <1>4 DEF Numbers, AdTypes, None
    <3>2. q.since \in Nat /\ acked \in Nat /\ adHead \in Nat
      BY <1>0, <1>2 DEF AdTypes, ViewRecs
    <3> QED
      BY <1>2, <1>7, <3>1, <3>2
  <2>2. Good(copyAt)
    BY <1>9 DEF AdInv, AdMain
  <2>3. Got(q, q.since)
    BY <1>2 DEF Got
  <2> QED
    BY <1>2, <1>4, <1>5, <2>1, <2>2, <2>3 DEF Shown
<1>10. UNCHANGED <<adHead, acked, packed, loose, refs_gen, parsed, copyAt, appliedTo, mutex, pub, repair, adverts>>
  BY DEF FreshnessCheck, copyVars
<1>11. parsed \in Parses /\ parsed.key <= refs_gen /\ (~pub.behind /\ parsed.key = refs_gen => Above(parsed.data, Level))
  BY <1>0 DEF AdTypes, Numbers, AdInv, AdMain, FilesInv
<1> QED
  BY <1>2, <1>3, <1>6, <1>8, <1>9, <1>10, <1>11, ViewTurn

Answered(q, x, d, t, n) == q = [x EXCEPT !.pc = "done", !.data = d, !.torn = t, !.upto = n, !.ver = n, !.key = n]

LEMMA GivenForm ==
    ASSUME NEW x \in ViewRecs, NEW d \in RefFiles, NEW t \in BOOLEAN, NEW n \in Nat, NEW q, Answered(q, x, d, t, n)
    PROVE  /\ q \in ViewRecs /\ q.pc = "done" /\ q.since = x.since /\ q.key = n /\ q.data = d
           /\ q.disturbed = x.disturbed /\ q.torn = t
<1>1. n \in Int
  OBVIOUS
<1>2. q.pc = "done" /\ q.since = x.since /\ q.key = n /\ q.data = d /\ q.disturbed = x.disturbed /\ q.torn = t
  BY DEF ViewRecs, Answered
<1>3. q \in ViewRecs
  BY <1>1 DEF ViewRecs, Answered
<1> QED
  BY <1>2, <1>3

\* The copy's version has an advert: it is given.
LEMMA StepGiven ==
    ASSUME AdInv, NEW v \in Viewers, ReadVersion(v), adverts[copyAt].there
    PROVE  AdInv'
<1>0. AdTypes /\ Numbers /\ Held(view[v], v) /\ view[v] \in ViewRecs
  BY ViewForm DEF AdInv
<1>1. PICK q : q = [view[v] EXCEPT !.pc = "done", !.data = adverts[copyAt].data, !.torn = adverts[copyAt].torn,
                                   !.upto = 0, !.ver = 0, !.key = 0]
  OBVIOUS
<1>2. copyAt \in {None} \cup 0 .. AdLast
  BY <1>0, LastNat DEF AdTypes, Numbers, None
<1>3. adverts[copyAt] \in AdvertRecs
  BY <1>0, <1>2 DEF AdTypes
<1>4. /\ q \in ViewRecs /\ q.pc = "done" /\ q.since = view[v].since /\ q.key = 0 /\ q.data = adverts[copyAt].data
      /\ q.disturbed = view[v].disturbed /\ q.torn = adverts[copyAt].torn
  <2>1. PICK d \in RefFiles, t \in BOOLEAN : d = adverts[copyAt].data /\ t = adverts[copyAt].torn
    BY <1>3 DEF AdvertRecs
  <2>4. PICK n \in Nat : n = 0
    OBVIOUS
  <2>2. Answered(q, view[v], d, t, n)
    BY <1>1, <2>1, <2>4 DEF Answered
  <2>3. /\ q \in ViewRecs /\ q.pc = "done" /\ q.since = view[v].since /\ q.key = n /\ q.data = d
        /\ q.disturbed = view[v].disturbed /\ q.torn = t
    BY <1>0, <2>2, GivenForm
  <2> QED
    BY <2>1, <2>3, <2>4
<1>5. Sees(v, q)
  BY <1>1 DEF Sees, ReadVersion, Given
<1>6. mutex # v
  BY <1>0 DEF Held, ReadVersion
<1>7. ~InReading(q) /\ ~PastVersion(q)
  BY <1>4 DEF InReading, PastVersion
<1>8. GoesOn(v, q)
  BY <1>6, <1>7 DEF GoesOn
<1>9. Held(q, v)
  <2>1. 0 <= refs_gen /\ view[v].since <= acked
    BY <1>0 DEF AdTypes, Held
  <2> QED
    BY <1>4, <1>6, <1>7, <2>1 DEF Held
<1>10. ASSUME ~pub.behind PROVE Shown(q, v)
  <2>1. ASSUME ~q.disturbed, ~q.torn PROVE Above(q.data, q.since)
    <3>1. InReading(view[v]) /\ ~view[v].torn
      BY <1>0, <1>4, <2>1 DEF Held, ReadVersion, InReading
    <3>2. Shown(view[v], v)
      BY <1>10 DEF AdInv, AdMain
    <3>3. view[v].since <= appliedTo /\ Good(copyAt)
      BY <1>4, <2>1, <3>1, <3>2 DEF Shown
    <3>4. copyAt # None
      BY <1>0, <1>4, <2>1 DEF Numbers
    <3>5. appliedTo = copyAt
      BY <1>10, <3>1, <3>4, ReaderLevel
    <3>6. Above(q.data, copyAt)
      BY <1>4, <2>1, <3>3 DEF Good
    <3>7. q.data \in RefFiles /\ copyAt \in Nat /\ q.since \in Nat
      BY <1>0, <1>4, <3>4 DEF AdTypes, ViewRecs
    <3> QED
      BY <1>4, <3>3, <3>5, <3>6, <3>7, AboveLess
  <2> QED
    BY <1>4, <1>6, <1>7, <2>1 DEF Shown
<1>11. UNCHANGED <<adHead, acked, packed, loose, refs_gen, parsed, copyAt, appliedTo, mutex, pub, repair, adverts>>
  BY DEF ReadVersion, copyVars
<1>12. parsed \in Parses /\ parsed.key <= refs_gen /\ (~pub.behind /\ parsed.key = refs_gen => Above(parsed.data, Level))
  BY <1>0 DEF AdTypes, Numbers, AdInv, AdMain, FilesInv
<1> QED
  BY <1>4, <1>5, <1>8, <1>9, <1>10, <1>11, <1>12, ViewTurn

\* A request goes on reading: what it keeps, and what the step has to show.
LEMMA ReadOn ==
    ASSUME AdInv, NEW v \in Viewers, InReading(view[v]), NEW q \in ViewRecs, Sees(v, q), PastVersion(q),
           q.since = view[v].since, q.disturbed = view[v].disturbed, q.torn = view[v].torn, q.key <= refs_gen,
           q.ver = copyAt \/ (PastVersion(view[v]) /\ q.ver = view[v].ver),
           UNCHANGED <<adHead, acked, packed, loose, refs_gen, copyAt, appliedTo, mutex, pub, repair, adverts>>,
           parsed' \in Parses, parsed'.key <= refs_gen,
           ~pub.behind /\ parsed'.key = refs_gen => Above(parsed'.data, Level),
           ~pub.behind => /\ q.pc = "loose" /\ q.key = refs_gen => Above(Overlay(q.data, loose), Level)
                          /\ ~q.disturbed => Got(q, q.since)
                          /\ ~q.torn /\ q.ver # None /\ q.ver = copyAt => Got(q, q.ver)
    PROVE  AdInv'
<1>0. AdTypes /\ Numbers /\ Held(view[v], v) /\ view[v] \in ViewRecs
  BY ViewForm DEF AdInv
<1>1. q.pc \in {"key", "packed", "loose", "advert"} /\ InReading(q)
  BY DEF PastVersion, InReading
<1>2. mutex # v
  BY <1>0 DEF Held, InReading
<1>3. GoesOn(v, q)
  BY <1>2 DEF GoesOn
<1>4. Held(q, v)
  BY <1>0, <1>1, <1>2 DEF Held
<1>5. ASSUME ~pub.behind PROVE Shown(q, v)
  <2>1. Shown(view[v], v)
    BY <1>5 DEF AdInv, AdMain
  <2>2. ~q.disturbed => q.since <= appliedTo /\ Good(copyAt)
    BY <2>1 DEF Shown
  <2> QED
    BY <1>1, <1>2, <1>5, <2>2 DEF Shown
<1> QED
  BY <1>3, <1>4, <1>5, ViewTurn

LEMMA StepVersion ==
    ASSUME AdInv, NEW v \in Viewers, ReadVersion(v), ~adverts[copyAt].there
    PROVE  AdInv'
<1>0. AdTypes /\ Numbers /\ Held(view[v], v) /\ view[v] \in ViewRecs
  BY ViewForm DEF AdInv
<1>1. PICK q : q = [view[v] EXCEPT !.pc = "key", !.ver = copyAt]
  OBVIOUS
<1>2. copyAt \in Int
  BY <1>0 DEF AdTypes, None
<1>3. /\ q \in ViewRecs /\ q.pc = "key" /\ q.since = view[v].since /\ q.key = view[v].key /\ q.ver = copyAt
      /\ q.disturbed = view[v].disturbed /\ q.torn = view[v].torn
  BY <1>0, <1>1, <1>2 DEF ViewRecs
<1>4. Sees(v, q)
  BY <1>1 DEF Sees, ReadVersion
<1>5. InReading(view[v]) /\ PastVersion(q) /\ q.key <= refs_gen
  BY <1>0, <1>3 DEF InReading, PastVersion, ReadVersion, Held
<1>6. Got(q, q.since) /\ Got(q, q.ver)
  BY <1>3 DEF Got
<1>7. UNCHANGED <<adHead, acked, packed, loose, refs_gen, parsed, copyAt, appliedTo, mutex, pub, repair, adverts>>
  BY DEF ReadVersion, copyVars
<1>8. parsed \in Parses /\ parsed.key <= refs_gen /\ (~pub.behind /\ parsed.key = refs_gen => Above(parsed.data, Level))
  BY <1>0 DEF AdTypes, Numbers, AdInv, AdMain, FilesInv
<1> QED
  BY <1>3, <1>4, <1>5, <1>6, <1>7, <1>8, ReadOn

\* refs_arc: the parsed snapshot is current.
LEMMA StepParsed ==
    ASSUME AdInv, NEW v \in Viewers, ReadKey(v), parsed.key = refs_gen
    PROVE  AdInv'
<1>0. AdTypes /\ Numbers /\ Held(view[v], v) /\ view[v] \in ViewRecs
  BY ViewForm DEF AdInv
<1>1. PICK q : q = [view[v] EXCEPT !.pc = "advert", !.data = parsed.data]
  OBVIOUS
<1>2. parsed.data \in RefFiles
  BY <1>0 DEF AdTypes, Parses
<1>3. /\ q \in ViewRecs /\ q.pc = "advert" /\ q.since = view[v].since /\ q.key = view[v].key /\ q.ver = view[v].ver
      /\ q.disturbed = view[v].disturbed /\ q.torn = view[v].torn /\ q.data = parsed.data
  BY <1>0, <1>1, <1>2 DEF ViewRecs
<1>4. Sees(v, q)
  BY <1>1 DEF Sees, ReadKey
<1>5. InReading(view[v]) /\ PastVersion(view[v]) /\ PastVersion(q) /\ q.key <= refs_gen
  BY <1>0, <1>3 DEF InReading, PastVersion, ReadKey, Held
<1>6. parsed \in Parses /\ parsed.key <= refs_gen /\ (~pub.behind /\ parsed.key = refs_gen => Above(parsed.data, Level))
  BY <1>0 DEF AdTypes, Numbers, AdInv, AdMain, FilesInv
<1>7. ASSUME ~pub.behind, NEW k \in Nat, k <= Level PROVE Got(q, k)
  <2>1. Above(parsed.data, k)
    BY <1>0, <1>2, <1>6, <1>7, LevelNat, AboveLess
  <2> QED
    BY <1>3, <2>1 DEF Got
<1>8. ASSUME ~pub.behind, ~q.disturbed PROVE Got(q, q.since)
  <2>1. ~view[v].torn
    BY <1>0, <1>3, <1>5, <1>8 DEF Held
  <2>2. Shown(view[v], v)
    BY <1>8 DEF AdInv, AdMain
  <2>3. view[v].since <= appliedTo
    BY <1>3, <1>5, <1>8, <2>2 DEF Shown
  <2>4. appliedTo <= Level
    BY <1>5, <1>8, <2>1, ReaderLevel
  <2>5. q.since \in Nat /\ appliedTo \in Nat /\ Level \in Nat
    BY <1>0, <1>3, LevelNat DEF AdTypes, ViewRecs
  <2>6. q.since <= Level
    BY <1>3, <2>3, <2>4, <2>5
  <2> QED
    BY <1>7, <1>8, <2>5, <2>6
<1>9. ASSUME ~pub.behind, ~q.torn, q.ver # None, q.ver = copyAt PROVE Got(q, q.ver)
  <2>1. copyAt <= Level
    BY <1>3, <1>5, <1>9, ReaderLevel
  <2>2. q.ver \in Nat
    BY <1>0, <1>9 DEF AdTypes
  <2> QED
    BY <1>7, <1>9, <2>1, <2>2
<1>10. UNCHANGED <<adHead, acked, packed, loose, refs_gen, parsed, copyAt, appliedTo, mutex, pub, repair, adverts>>
  BY DEF ReadKey, copyVars
<1> QED
  BY <1>3, <1>4, <1>5, <1>6, <1>8, <1>9, <1>10, ReadOn

LEMMA StepStale ==
    ASSUME AdInv, NEW v \in Viewers, ReadKey(v), parsed.key # refs_gen
    PROVE  AdInv'
<1>0. AdTypes /\ Numbers /\ Held(view[v], v) /\ view[v] \in ViewRecs
  BY ViewForm DEF AdInv
<1>1. PICK q : q = [view[v] EXCEPT !.pc = "packed", !.key = refs_gen]
  OBVIOUS
<1>2. refs_gen \in Int /\ refs_gen <= refs_gen
  BY <1>0 DEF AdTypes
<1>3. /\ q \in ViewRecs /\ q.pc = "packed" /\ q.since = view[v].since /\ q.key = refs_gen /\ q.ver = view[v].ver
      /\ q.disturbed = view[v].disturbed /\ q.torn = view[v].torn
  BY <1>0, <1>1, <1>2 DEF ViewRecs
<1>4. Sees(v, q)
  BY <1>1 DEF Sees, ReadKey
<1>5. InReading(view[v]) /\ PastVersion(view[v]) /\ PastVersion(q) /\ q.key <= refs_gen
  BY <1>2, <1>3 DEF InReading, PastVersion, ReadKey
<1>6. Got(q, q.since) /\ Got(q, q.ver)
  BY <1>3 DEF Got
<1>7. UNCHANGED <<adHead, acked, packed, loose, refs_gen, parsed, copyAt, appliedTo, mutex, pub, repair, adverts>>
  BY DEF ReadKey, copyVars
<1>8. parsed \in Parses /\ parsed.key <= refs_gen /\ (~pub.behind /\ parsed.key = refs_gen => Above(parsed.data, Level))
  BY <1>0 DEF AdTypes, Numbers, AdInv, AdMain, FilesInv
<1> QED
  BY <1>3, <1>4, <1>5, <1>6, <1>7, <1>8, ReadOn

\* packed-refs is read: with the ref files as they are now it would be complete.
LEMMA StepPacked ==
    ASSUME AdInv, NEW v \in Viewers, ReadPacked(v)
    PROVE  AdInv'
<1>0. AdTypes /\ Numbers /\ Held(view[v], v) /\ view[v] \in ViewRecs
  BY ViewForm DEF AdInv
<1>1. PICK q : q = [view[v] EXCEPT !.pc = "loose", !.data = packed]
  OBVIOUS
<1>2. packed \in RefFiles /\ loose \in RefFiles /\ Overlay(packed, loose) \in RefFiles
  BY <1>0, OverlayForm DEF AdTypes
<1>3. /\ q \in ViewRecs /\ q.pc = "loose" /\ q.since = view[v].since /\ q.key = view[v].key /\ q.ver = view[v].ver
      /\ q.disturbed = view[v].disturbed /\ q.torn = view[v].torn /\ q.data = packed
  BY <1>0, <1>1, <1>2 DEF ViewRecs
<1>4. Sees(v, q)
  BY <1>1 DEF Sees, ReadPacked
<1>5. InReading(view[v]) /\ PastVersion(view[v]) /\ PastVersion(q) /\ q.key <= refs_gen
  BY <1>0, <1>3 DEF InReading, PastVersion, ReadPacked, Held
<1>6. ~pub.behind => Above(Overlay(packed, loose), Level)
  BY DEF AdInv, AdMain, FilesInv
<1>7. ASSUME ~pub.behind, NEW k \in Nat, k <= Level PROVE Got(q, k)
  <2>1. Above(Overlay(packed, loose), k)
    BY <1>0, <1>2, <1>6, <1>7, LevelNat, AboveLess
  <2> QED
    BY <1>3, <2>1 DEF Got
<1>8. ASSUME ~pub.behind, ~q.disturbed PROVE Got(q, q.since)
  <2>1. ~view[v].torn
    BY <1>0, <1>3, <1>5, <1>8 DEF Held
  <2>2. Shown(view[v], v)
    BY <1>8 DEF AdInv, AdMain
  <2>3. view[v].since <= appliedTo
    BY <1>3, <1>5, <1>8, <2>2 DEF Shown
  <2>4. appliedTo <= Level
    BY <1>5, <1>8, <2>1, ReaderLevel
  <2>5. q.since \in Nat /\ appliedTo \in Nat /\ Level \in Nat
    BY <1>0, <1>3, LevelNat DEF AdTypes, ViewRecs
  <2>6. q.since <= Level
    BY <1>3, <2>3, <2>4, <2>5
  <2> QED
    BY <1>7, <1>8, <2>5, <2>6
<1>9. ASSUME ~pub.behind, ~q.torn, q.ver # None, q.ver = copyAt PROVE Got(q, q.ver)
  <2>1. copyAt <= Level
    BY <1>3, <1>5, <1>9, ReaderLevel
  <2>2. q.ver \in Nat
    BY <1>0, <1>9 DEF AdTypes
  <2> QED
    BY <1>7, <1>9, <2>1, <2>2
<1>10. UNCHANGED <<adHead, acked, packed, loose, refs_gen, parsed, copyAt, appliedTo, mutex, pub, repair, adverts>>
  BY DEF ReadPacked, copyVars
<1>11. parsed \in Parses /\ parsed.key <= refs_gen /\ (~pub.behind /\ parsed.key = refs_gen => Above(parsed.data, Level))
  BY <1>0 DEF AdTypes, Numbers, AdInv, AdMain, FilesInv
<1> QED
  BY <1>3, <1>4, <1>5, <1>6, <1>8, <1>9, <1>10, <1>11, ReadOn

\* The files of refs/ are read; the parse is kept under the key read before it.
LEMMA StepLoose ==
    ASSUME AdInv, NEW v \in Viewers, ReadLoose(v)
    PROVE  AdInv'
<1>0. AdTypes /\ Numbers /\ Held(view[v], v) /\ view[v] \in ViewRecs
  BY ViewForm DEF AdInv
<1>1. PICK d : d = Overlay(view[v].data, loose)
  OBVIOUS
<1>2. d \in RefFiles
  BY <1>0, <1>1, OverlayForm DEF AdTypes, ViewRecs
<1>3. PICK q : q = [view[v] EXCEPT !.pc = "advert", !.data = d]
  OBVIOUS
<1>4. /\ q \in ViewRecs /\ q.pc = "advert" /\ q.since = view[v].since /\ q.key = view[v].key /\ q.ver = view[v].ver
      /\ q.disturbed = view[v].disturbed /\ q.torn = view[v].torn /\ q.data = d
  BY <1>0, <1>2, <1>3 DEF ViewRecs
<1>5. Sees(v, q)
  BY <1>0, <1>1, <1>3 DEF Sees, ReadLoose, AdTypes, ViewRecs
<1>6. InReading(view[v]) /\ PastVersion(view[v]) /\ PastVersion(q) /\ q.key <= refs_gen /\ view[v].pc = "loose"
  BY <1>0, <1>4 DEF InReading, PastVersion, ReadLoose, Held
<1>7. parsed' = [key |-> view[v].key, data |-> d]
  BY <1>1 DEF ReadLoose
<1>8. parsed' \in Parses /\ parsed'.key = view[v].key /\ parsed'.data = d
  BY <1>0, <1>2, <1>7 DEF Parses, ViewRecs
<1>9. ASSUME ~pub.behind
      PROVE  /\ view[v].key = refs_gen => Above(d, Level)
             /\ ~q.disturbed => Got(q, q.since)
             /\ ~q.torn /\ q.ver # None /\ q.ver = copyAt => Got(q, q.ver)
  <2>1. Shown(view[v], v)
    BY <1>9 DEF AdInv, AdMain
  <2>2. view[v].key = refs_gen => Above(d, Level)
    BY <1>1, <1>6, <2>1 DEF Shown
  <2>3. ~q.disturbed => Above(d, view[v].since)
    BY <1>1, <1>4, <1>6, <2>1 DEF Shown, Got
  <2>4. ~q.torn /\ q.ver # None /\ q.ver = copyAt => Above(d, view[v].ver)
    BY <1>1, <1>4, <1>6, <2>1 DEF Shown, Got
  <2> QED
    BY <1>4, <2>2, <2>3, <2>4 DEF Got
<1>10. UNCHANGED <<adHead, acked, packed, loose, refs_gen, copyAt, appliedTo, mutex, pub, repair, adverts>>
  BY DEF ReadLoose
<1> QED
  BY <1>4, <1>5, <1>6, <1>8, <1>9, <1>10, ReadOn

\* freshness_check finds the copy behind: the request takes the mutex.
LEMMA StepLoad ==
    ASSUME AdInv, NEW v \in Viewers, FreshnessCheck(v), copyAt # adHead
    PROVE  AdInv'
<1>0. /\ AdTypes /\ Numbers /\ Held(view[v], v) /\ view[v] \in ViewRecs /\ Unseen(adHead + 1)
      /\ \A w \in Viewers : Held(view[w], w)
  BY ViewForm DEF AdInv
<1>1. PICK q : q = [view[v] EXCEPT !.pc = "load", !.upto = adHead]
  OBVIOUS
<1>2. /\ q \in ViewRecs /\ q.pc = "load" /\ q.since = view[v].since /\ q.key = view[v].key /\ q.upto = adHead
      /\ q.disturbed = view[v].disturbed /\ q.torn = view[v].torn
  <2>1. PICK n \in Nat : n = adHead
    BY <1>0 DEF AdTypes
  <2>2. q = [view[v] EXCEPT !.pc = "load", !.upto = n]
    BY <1>1, <2>1
  <2> QED
    BY <1>0, <2>1, <2>2 DEF ViewRecs
<1>3. Sees(v, q)
  BY <1>0, <1>1 DEF Sees, FreshnessCheck, AdTypes, ViewRecs
<1>4. view[v].pc = "sync" /\ mutex = "free" /\ mutex' = v
  BY DEF FreshnessCheck
<1>5. ~PastVersion(q) /\ ~InReading(q) /\ ~InReading(view[v])
  BY <1>2, <1>4 DEF PastVersion, InReading
<1>6. UNCHANGED <<adHead, acked, packed, loose, refs_gen, parsed, copyAt, appliedTo, pub, repair, adverts>>
  BY DEF FreshnessCheck, copyVars
<1>7. view' \in [Viewers -> ViewRecs] /\ view'[v] = q /\ \A w \in Viewers : w # v => view'[w] = view[w]
  BY <1>0, <1>2, <1>3, ViewSet
<1>8. v # "free" /\ v # "pub" /\ v # "repair"
  BY ViewerNames
<1>9. copyAt < adHead /\ acked <= adHead /\ view[v].since <= acked /\ view[v].since <= adHead
  <2>1. copyAt \in Int /\ adHead \in Int /\ acked \in Int /\ view[v].since \in Int
    BY <1>0 DEF AdTypes, None, ViewRecs
  <2>2. copyAt <= adHead /\ acked <= adHead /\ view[v].since <= acked
    BY <1>0 DEF Numbers, Held
  <2> QED
    BY <2>1, <2>2
<1>10. ~Publishing
  BY <1>0, <1>4 DEF Numbers
<1>11. AdTypes'
  BY <1>0, <1>6, <1>7 DEF AdTypes
<1>12. Numbers'
  BY <1>0, <1>4, <1>6, <1>8, <1>10 DEF Numbers, Publishing
<1>13. ASSUME NEW n \in Int, Unseen(n) PROVE Unseen(n)'
  BY <1>0, <1>2, <1>3, <1>5, <1>6, <1>13, UnseenTurn
<1>14. Unseen(adHead + 1)'
  <2>1. PICK n \in Int : n = adHead + 1 /\ n = adHead' + 1
    BY <1>0, <1>6 DEF AdTypes
  <2>2. Unseen(n)'
    BY <1>0, <1>13, <2>1
  <2> QED
    BY <2>1, <2>2 DEF Unseen
<1>15. ASSUME NEW w \in Viewers PROVE Held(view[w], w)'
  <2>1. CASE w = v
    <3>0. ~view[v].disturbed /\ ~view[v].torn /\ view[v].key <= refs_gen
      BY <1>0, <1>4 DEF Held
    <3>1. adHead <= adHead
      BY <1>0 DEF AdTypes
    <3>2. Held(q, v)'
      BY <1>2, <1>4, <1>5, <1>6, <1>9, <3>0, <3>1 DEF Held
    <3> QED
      BY <1>7, <2>1, <3>2, HeldSame
  <2>2. CASE w # v
    <3>1. PICK x : x = view[w] /\ x = view'[w]
      BY <1>7, <1>15, <2>2
    <3>2. Held(x, w) /\ mutex # w
      BY <1>0, <1>4, <1>15, <3>1, ViewerNames
    <3>3. Held(x, w)'
      BY <1>4, <1>6, <2>2, <3>2 DEF Held
    <3> QED
      BY <3>1, <3>3, HeldSame
  <2> QED
    BY <2>1, <2>2
<1>16. ASSUME ~pub.behind PROVE AdMain'
  <2>0. FilesInv /\ LateInv /\ Good(adHead) /\ \A w \in Viewers : Shown(view[w], w)
    BY <1>16 DEF AdInv, AdMain
  <2>1. FilesInv'
    BY <1>6, <2>0 DEF FilesInv, Level
  <2>2. Good(adHead)'
    BY <1>6, <2>0 DEF Good
  <2>3. ASSUME NEW w \in Viewers PROVE Shown(view[w], w)'
    <3>1. CASE w = v
      <4>1. Good(q.upto)'
        BY <1>2, <1>6, <2>2 DEF Good
      <4>2. Shown(q, v)'
        BY <1>2, <1>4, <1>5, <4>1 DEF Shown, InReading, PastVersion
      <4> QED
        BY <1>7, <3>1, <4>2, ShownSame
    <3>2. CASE w # v
      <4>1. PICK x : x = view[w] /\ x = view'[w]
        BY <1>7, <2>3, <3>2
      <4>2. Shown(x, w)
        BY <2>0, <2>3, <4>1
      <4>3. Shown(x, w)'
        BY <1>4, <1>6, <3>2, <4>2 DEF Shown, Good, Got, Level
      <4> QED
        BY <4>1, <4>3, ShownSame
    <3> QED
      BY <3>1, <3>2
  <2>4. LateInv'
    <3>1. ~Publishing'
      BY <1>6, <1>10 DEF Publishing
    <3>2. (pub.pc = "lock" /\ copyAt = pub.next - 1 => Unseen(pub.next))'
      <4>1. PICK n \in Int : n = pub.next /\ n = pub'.next
        BY <1>0, <1>6 DEF AdTypes, PubRecs
      <4>2. ASSUME pub.pc = "lock", copyAt = pub.next - 1 PROVE Unseen(pub.next)'
        <5>1. Unseen(n)'
          BY <1>13, <2>0, <4>1, <4>2 DEF LateInv
        <5> QED
          BY <4>1, <5>1 DEF Unseen
      <4> QED
        BY <1>6, <4>2
    <3>3. ASSUME NEW u \in Viewers, NEW w \in Viewers, mutex' = u, PastVersion(view'[w]), ~view'[w].torn
          PROVE  view'[w].ver # view'[u].upto
      <4>1. u = v /\ w # v /\ view'[u].upto = adHead
        BY <1>2, <1>4, <1>5, <1>7, <3>3
      <4>2. view[w].ver # adHead
        BY <1>7, <2>0, <3>3, <4>1 DEF LateInv
      <4> QED
        BY <1>7, <4>1, <4>2
    <3>4. ASSUME NEW w \in Viewers, PastVersion(view'[w]), ~view'[w].torn PROVE view'[w].ver # adHead
      BY <1>5, <1>7, <2>0, <3>4 DEF LateInv
    <3>5. mutex' # "repair"
      BY <1>4, <1>8
    <3>6. (\A u, w \in Viewers : mutex = u /\ PastVersion(view[w]) /\ ~view[w].torn => view[w].ver # view[u].upto)'
      BY <3>3 DEF PastVersion
    <3>7. (\A w \in Viewers : PastVersion(view[w]) /\ ~view[w].torn /\ view[w].ver = adHead => copyAt = adHead)'
      BY <1>6, <3>4 DEF PastVersion
    <3> QED
      BY <3>1, <3>2, <3>5, <3>6, <3>7 DEF LateInv
  <2> QED
    BY <2>1, <2>2, <2>3, <2>4 DEF AdMain
<1>17. (~pub.behind)' => ~pub.behind
  BY <1>6
<1> QED
  BY <1>11, <1>12, <1>14, <1>15, <1>16, <1>17 DEF AdInv

\* The advert is kept under the version read first.
LEMMA StepKeep ==
    ASSUME AdInv, NEW v \in Viewers, KeepAdvert(v)
    PROVE  AdInv'
<1>0. /\ AdTypes /\ Numbers /\ Held(view[v], v) /\ view[v] \in ViewRecs /\ Unseen(adHead + 1)
      /\ \A w \in Viewers : Held(view[w], w)
  BY ViewForm DEF AdInv
<1>1. PICK q : q = [view[v] EXCEPT !.pc = "done", !.data = view[v].data, !.torn = view[v].torn, !.upto = 0, !.ver = 0,
                                   !.key = 0]
  OBVIOUS
<1>2. /\ q \in ViewRecs /\ q.pc = "done" /\ q.since = view[v].since /\ q.key = 0 /\ q.data = view[v].data
      /\ q.disturbed = view[v].disturbed /\ q.torn = view[v].torn
  <2>1. PICK d \in RefFiles, t \in BOOLEAN : d = view[v].data /\ t = view[v].torn
    BY <1>0 DEF ViewRecs
  <2>2. PICK n \in Nat : n = 0
    OBVIOUS
  <2>3. Answered(q, view[v], d, t, n)
    BY <1>1, <2>1, <2>2 DEF Answered
  <2>4. /\ q \in ViewRecs /\ q.pc = "done" /\ q.since = view[v].since /\ q.key = n /\ q.data = d
        /\ q.disturbed = view[v].disturbed /\ q.torn = t
    BY <1>0, <2>3, GivenForm
  <2> QED
    BY <2>1, <2>2, <2>4
<1>3. Sees(v, q)
  BY <1>1 DEF Sees, KeepAdvert, Given
<1>4. view[v].pc = "advert" /\ InReading(view[v]) /\ PastVersion(view[v]) /\ ~InReading(q) /\ ~PastVersion(q)
  BY <1>2 DEF KeepAdvert, InReading, PastVersion
<1>5. UNCHANGED <<adHead, acked, packed, loose, refs_gen, parsed, copyAt, appliedTo, mutex, pub, repair>>
  BY DEF KeepAdvert, copyVars
<1>6. view' \in [Viewers -> ViewRecs] /\ view'[v] = q /\ \A w \in Viewers : w # v => view'[w] = view[w]
  BY <1>0, <1>2, <1>3, ViewSet
<1>7. PICK a : a = [data |-> view[v].data, torn |-> view[v].torn \/ view[v].ver = None, there |-> TRUE]
  OBVIOUS
<1>8. a \in AdvertRecs /\ a.data = view[v].data /\ (a.torn <=> view[v].torn \/ view[v].ver = None)
  BY <1>0, <1>7 DEF AdvertRecs, ViewRecs
<1>9. adverts' = [adverts EXCEPT ![view[v].ver] = a]
  BY <1>7 DEF KeepAdvert
<1>10. /\ adverts' \in [{None} \cup 0 .. AdLast -> AdvertRecs] /\ DOMAIN adverts' = DOMAIN adverts
       /\ \A k \in DOMAIN adverts : adverts'[k] = IF k = view[v].ver THEN a ELSE adverts[k]
  BY <1>0, <1>8, <1>9 DEF AdTypes
<1>11. mutex # v
  BY <1>0, <1>4 DEF Held
<1>12. AdTypes'
  BY <1>0, <1>5, <1>6, <1>10 DEF AdTypes
<1>13. Numbers'
  <2>1. None \in DOMAIN adverts
    BY <1>0 DEF AdTypes
  <2>2. adverts'[None].there => adverts'[None].torn
    BY <1>0, <1>8, <1>10, <2>1 DEF Numbers
  <2> QED
    BY <1>0, <1>5, <2>2 DEF Numbers, Publishing
<1>14. ASSUME NEW n \in Int, Unseen(n) PROVE Unseen(n)'
  <2>1. view[v].ver < n /\ view[v].ver \in Int
    BY <1>0, <1>4, <1>14 DEF Unseen, ViewRecs
  <2>2. ASSUME NEW k \in DOMAIN adverts, k >= n PROVE ~adverts'[k].there
    <3>1. k \in Int
      BY <1>0, <2>2 DEF AdTypes, None
    <3>2. k # view[v].ver
      BY <2>1, <2>2, <3>1
    <3> QED
      BY <1>10, <1>14, <2>2, <3>2 DEF Unseen
  <2>3. \A w \in Viewers : PastVersion(view'[w]) => view'[w].ver < n
    BY <1>4, <1>6, <1>14 DEF Unseen
  <2>4. (\A k \in DOMAIN adverts : k >= n => ~adverts[k].there)'
    BY <1>10, <2>2
  <2> QED
    BY <2>3, <2>4 DEF Unseen, PastVersion
<1>15. Unseen(adHead + 1)'
  <2>1. PICK n \in Int : n = adHead + 1 /\ n = adHead' + 1
    BY <1>0, <1>5 DEF AdTypes
  <2>2. Unseen(n)'
    BY <1>0, <1>14, <2>1
  <2> QED
    BY <2>1, <2>2 DEF Unseen
<1>16. ASSUME NEW w \in Viewers PROVE Held(view[w], w)'
  <2>1. Held(q, v)
    <3>1. 0 <= refs_gen /\ view[v].since <= acked
      BY <1>0 DEF AdTypes, Held
    <3> QED
      BY <1>2, <1>4, <1>11, <3>1 DEF Held
  <2>2. PICK x : x = view'[w] /\ ((x = q /\ w = v) \/ x = view[w])
    BY <1>6, <1>16
  <2>3. Held(x, w)
    BY <1>0, <1>16, <2>1, <2>2
  <2>4. Held(x, w)'
    BY <1>5, <2>3 DEF Held
  <2> QED
    BY <2>2, <2>4, HeldSame
<1>17. ASSUME ~pub.behind PROVE AdMain'
  <2>0. FilesInv /\ LateInv /\ Good(adHead) /\ \A w \in Viewers : Shown(view[w], w)
    BY <1>17 DEF AdInv, AdMain
  <2>1. FilesInv'
    BY <1>5, <2>0 DEF FilesInv, Level
  <2>2. Shown(view[v], v)
    BY <2>0
  <2>3. ~view[v].torn /\ view[v].ver # None /\ view[v].ver = copyAt => Above(view[v].data, view[v].ver)
    BY <1>4, <2>2 DEF Shown, Got
  <2>4. ASSUME NEW k \in DOMAIN adverts, Good(k), ~view[v].torn /\ k = view[v].ver => k = copyAt
        PROVE  Good(k)'
    <3>1. CASE k = view[v].ver
      BY <1>8, <1>10, <2>3, <2>4, <3>1 DEF Good
    <3>2. CASE k # view[v].ver
      BY <1>10, <2>4, <3>2 DEF Good
    <3> QED
      BY <3>1, <3>2
  <2>5. ASSUME NEW k \in Int, k <= adHead, k >= -1 PROVE k \in DOMAIN adverts
    BY <1>0, <2>5, LastNat DEF AdTypes, None
  <2>6. copyAt \in DOMAIN adverts /\ adHead \in DOMAIN adverts
    BY <1>0, <2>5 DEF AdTypes, Numbers, None
  <2>7. Good(adHead)'
    <3>1. PICK k : k = adHead /\ k = adHead'
      BY <1>5
    <3>2. Good(k)'
      BY <1>4, <2>0, <2>4, <2>6, <3>1 DEF LateInv
    <3> QED
      BY <3>1, <3>2 DEF Good
  <2>8. Good(copyAt) => Good(copyAt)'
    <3>1. PICK k : k = copyAt /\ k = copyAt'
      BY <1>5
    <3>2. Good(k) => Good(k)'
      BY <2>4, <2>6, <3>1
    <3> QED
      BY <3>1, <3>2 DEF Good
  <2>9. ASSUME NEW w \in Viewers PROVE Shown(view[w], w)'
    <3>1. CASE w = v
      <4>1. ~q.disturbed /\ ~q.torn => Above(q.data, q.since)
        BY <1>2, <1>4, <2>2 DEF Shown, Got
      <4>2. Shown(q, v)'
        BY <1>2, <1>4, <1>5, <1>11, <4>1 DEF Shown, InReading, PastVersion, Above
      <4> QED
        BY <1>6, <3>1, <4>2, ShownSame
    <3>2. CASE w # v
      <4>1. PICK x : x = view[w] /\ x = view'[w]
        BY <1>6, <2>9, <3>2
      <4>2. Shown(x, w)
        BY <2>0, <2>9, <4>1
      <4>3. ASSUME mutex = w PROVE Good(x.upto)'
        <5>1. x.upto \in Nat /\ x.upto <= adHead
          BY <1>0, <2>9, <4>1, <4>3 DEF Held, AdTypes, ViewRecs
        <5>2. ~view[v].torn => x.upto # view[v].ver
          BY <1>4, <2>0, <2>9, <4>1, <4>3 DEF LateInv
        <5>3. x.upto \in DOMAIN adverts
          BY <2>5, <5>1
        <5> QED
          BY <2>4, <4>2, <4>3, <5>2, <5>3 DEF Shown
      <4>4. Shown(x, w)'
        BY <1>5, <2>8, <4>2, <4>3 DEF Shown, Got, Level
      <4> QED
        BY <4>1, <4>4, ShownSame
    <3> QED
      BY <3>1, <3>2
  <2>10. LateInv'
    <3>0. /\ pub.next \in Int /\ pub.upto \in Int /\ pub' = pub /\ Publishing' = Publishing
      BY <1>0, <1>5 DEF AdTypes, PubRecs, Publishing
    <3>1. ASSUME Publishing, NEW w \in Viewers, InReading(view'[w]), ~view'[w].torn
          PROVE  copyAt < pub.next /\ Unseen(pub.upto)'
      <4>1. InReading(view[w]) /\ ~view[w].torn
        BY <1>4, <1>6, <3>1
      <4>2. copyAt < pub.next /\ Unseen(pub.upto)
        BY <2>0, <3>1, <4>1 DEF LateInv
      <4>3. PICK n \in Int : n = pub.upto /\ n = pub'.upto
        BY <3>0
      <4>4. Unseen(n)'
        BY <1>14, <4>2, <4>3
      <4> QED
        BY <4>2, <4>3, <4>4 DEF Unseen
    <3>2. ASSUME pub.pc = "lock", copyAt = pub.next - 1 PROVE Unseen(pub.next)'
      <4>1. PICK n \in Int : n = pub.next /\ n = pub'.next
        BY <3>0
      <4>2. Unseen(n)'
        BY <1>14, <2>0, <3>2, <4>1 DEF LateInv
      <4> QED
        BY <4>1, <4>2 DEF Unseen
    <3>3. ASSUME NEW u \in Viewers, NEW w \in Viewers, mutex = u, PastVersion(view'[w]), ~view'[w].torn
          PROVE  view'[w].ver # view'[u].upto
      BY <1>4, <1>6, <1>11, <2>0, <3>3 DEF LateInv
    <3>4. ASSUME NEW w \in Viewers, mutex = "repair", InReading(view'[w]) PROVE view'[w].torn
      BY <1>4, <1>6, <2>0, <3>4 DEF LateInv
    <3>5. ASSUME NEW w \in Viewers, PastVersion(view'[w]), ~view'[w].torn, view'[w].ver = adHead PROVE copyAt = adHead
      BY <1>4, <1>6, <2>0, <3>5 DEF LateInv
    <3> QED
      BY <1>5, <3>0, <3>1, <3>2, <3>3, <3>4, <3>5, LateAgain
  <2> QED
    BY <2>1, <2>7, <2>9, <2>10 DEF AdMain
<1>18. (~pub.behind)' => ~pub.behind
  BY <1>5
<1> QED
  BY <1>12, <1>13, <1>15, <1>16, <1>17, <1>18 DEF AdInv

-----------------------------------------------------------------------------
(* The ref files are replaced under the requests that read them. *)

Stirred(x, y, back) ==
    /\ y \in ViewRecs
    /\ y.pc = x.pc /\ y.since = x.since /\ y.upto = x.upto /\ y.ver = x.ver /\ y.key = x.key /\ y.data = x.data
    /\ InReading(x) => y.disturbed /\ (y.torn <=> x.torn \/ back)
    /\ ~InReading(x) => y = x

LEMMA DisturbForm ==
    ASSUME AdTypes, NEW back \in BOOLEAN
    PROVE  /\ Disturb(back) \in [Viewers -> ViewRecs]
           /\ \A w \in Viewers : Stirred(view[w], Disturb(back)[w], back)
<1>1. ASSUME NEW w \in Viewers PROVE Stirred(view[w], Disturb(back)[w], back)
  <2>1. view[w] \in ViewRecs
    BY <1>1 DEF AdTypes
  <2>2. w \in Reading <=> InReading(view[w])
    BY <1>1 DEF Reading, InReading
  <2>3. CASE InReading(view[w])
    <3>1. Disturb(back)[w] = [view[w] EXCEPT !.disturbed = TRUE, !.torn = @ \/ back]
      BY <1>1, <2>2, <2>3 DEF Disturb
    <3>2. PICK t \in BOOLEAN : t <=> view[w].torn \/ back
      OBVIOUS
    <3>3. view[w].torn \in BOOLEAN
      BY <2>1 DEF ViewRecs
    <3>4. t = (view[w].torn \/ back)
      BY <3>2, <3>3
    <3>5. Disturb(back)[w] = [view[w] EXCEPT !.disturbed = TRUE, !.torn = t]
      BY <2>1, <3>1, <3>4 DEF ViewRecs
    <3>6. Disturb(back)[w] \in ViewRecs
      BY <2>1, <3>5 DEF ViewRecs
    <3> QED
      BY <2>1, <2>3, <3>2, <3>5, <3>6 DEF Stirred, ViewRecs
  <2>4. CASE ~InReading(view[w])
    <3>1. Disturb(back)[w] = view[w]
      BY <1>1, <2>2, <2>4 DEF Disturb
    <3> QED
      BY <2>1, <2>4, <3>1 DEF Stirred
  <2> QED
    BY <2>3, <2>4
<1>2. Disturb(back) = [w \in Viewers |-> Disturb(back)[w]]
  BY DEF Disturb
<1> QED
  BY <1>1, <1>2 DEF Stirred

LEMMA UnseenStir ==
    ASSUME NEW n, Unseen(n), adverts' = adverts,
           \A w \in Viewers : PastVersion(view'[w]) => PastVersion(view[w]) /\ view'[w].ver = view[w].ver
    PROVE  Unseen(n)'
<1>1. \A w \in Viewers : PastVersion(view'[w]) => view'[w].ver < n
  BY DEF Unseen
<1> QED
  BY <1>1 DEF Unseen, PastVersion

LEMMA StirredVersion ==
    ASSUME NEW x, NEW y, NEW back, Stirred(x, y, back)
    PROVE  /\ InReading(y) <=> InReading(x)
           /\ PastVersion(y) <=> PastVersion(x)
           /\ y.ver = x.ver
BY DEF Stirred, InReading, PastVersion

LEMMA PastReads == ASSUME NEW x, PastVersion(x) PROVE InReading(x)
BY DEF PastVersion, InReading

\* The request that holds the mutex, and the others, after it has replaced a part of the refs.
Reaches(q, x, p) == q = [x EXCEPT !.pc = p]
Loads(v, p) == view' = [Disturb(FALSE) EXCEPT ![v].pc = p]

LEMMA LoaderForm ==
    ASSUME AdTypes, NEW v \in Viewers, ~InReading(view[v]), NEW p \in {"loaded", "version"}, NEW q,
           Reaches(q, view[v], p), Loads(v, p)
    PROVE  /\ view' \in [Viewers -> ViewRecs] /\ view'[v] = q /\ q \in ViewRecs
           /\ q.pc = p /\ q.since = view[v].since /\ q.key = view[v].key /\ q.upto = view[v].upto
           /\ q.disturbed = view[v].disturbed /\ q.torn = view[v].torn
           /\ \A w \in Viewers : w # v => Stirred(view[w], view'[w], FALSE)
<1>1. Disturb(FALSE) \in [Viewers -> ViewRecs] /\ \A w \in Viewers : Stirred(view[w], Disturb(FALSE)[w], FALSE)
  BY DisturbForm
<1>2. PICK d \in [Viewers -> ViewRecs] : d = Disturb(FALSE)
  BY <1>1
<1>3. d[v] = view[v]
  BY <1>1, <1>2 DEF Stirred
<1>4. view[v] \in ViewRecs
  BY DEF AdTypes
<1>5. q \in ViewRecs /\ q.pc = p /\ q.since = view[v].since /\ q.key = view[v].key /\ q.upto = view[v].upto
      /\ q.disturbed = view[v].disturbed /\ q.torn = view[v].torn
  BY <1>4 DEF ViewRecs, Reaches
<1>6. view' = [d EXCEPT ![v] = q]
  BY <1>2, <1>3 DEF Reaches, Loads
<1>7. view' \in [Viewers -> ViewRecs] /\ view'[v] = q /\ \A w \in Viewers : w # v => view'[w] = d[w]
  BY <1>5, <1>6
<1> QED
  BY <1>1, <1>2, <1>5, <1>7

LEMMA NobodyElse ==
    ASSUME AdInv, NEW v \in Viewers, mutex = v
    PROVE  /\ ~Publishing /\ repair.pc # "replay" /\ Level = appliedTo /\ pub.before.key = None
           /\ \A w \in Viewers : w # v => view[w].pc \notin {"load", "loaded"}
<1>0. Numbers /\ \A w \in Viewers : Held(view[w], w)
  BY DEF AdInv
<1>1. v # "free" /\ v # "pub" /\ v # "repair"
  BY ViewerNames
<1>2. ~Publishing /\ repair.pc # "replay"
  BY <1>0, <1>1 DEF Numbers
<1>3. Level = appliedTo /\ pub.before.key = None
  BY <1>0, <1>2 DEF Level, Publishing, Numbers
<1>4. \A w \in Viewers : w # v => view[w].pc \notin {"load", "loaded"}
  BY <1>0 DEF Held
<1> QED
  BY <1>2, <1>3, <1>4

LEMMA HeldStirred ==
    ASSUME NEW w, NEW x, NEW y, NEW back, Stirred(x, y, back), Held(x, w), AdTypes, AdTypes',
           x.key <= refs_gen, refs_gen' >= refs_gen, acked' = acked, mutex # w, mutex' # w
    PROVE  Held(y, w)'
<1>1. y.key \in Int /\ y.key <= refs_gen'
  BY DEF Stirred, ViewRecs, AdTypes
<1>2. y.since <= acked'
  BY DEF Stirred, Held
<1>3. y.pc \notin {"load", "loaded"}
  BY DEF Stirred, Held
<1>4. y.pc = "sync" => ~y.disturbed /\ ~y.torn
  BY DEF Stirred, Held, InReading
<1>5. InReading(y) /\ y.torn => y.disturbed
  BY StirredVersion DEF Stirred
<1> QED
  BY <1>1, <1>2, <1>3, <1>4, <1>5 DEF Held

\* replay_log, first half: packed-refs has the new entries.
LEMMA StepReplayPacked ==
    ASSUME AdInv, NEW v \in Viewers, ReplayPacked(v)
    PROVE  AdInv'
<1>0. /\ AdTypes /\ Numbers /\ Held(view[v], v) /\ view[v] \in ViewRecs /\ Unseen(adHead + 1)
      /\ \A w \in Viewers : Held(view[w], w)
  BY ViewForm DEF AdInv
<1>1. PICK q : q = [view[v] EXCEPT !.pc = "loaded"]
  OBVIOUS
<1>2. view[v].pc = "load" /\ ~InReading(view[v]) /\ mutex = v
  BY <1>0 DEF ReplayPacked, InReading, Held
<1>3. /\ view' \in [Viewers -> ViewRecs] /\ view'[v] = q /\ q \in ViewRecs
      /\ q.pc = "loaded" /\ q.since = view[v].since /\ q.key = view[v].key /\ q.upto = view[v].upto
      /\ q.disturbed = view[v].disturbed /\ q.torn = view[v].torn
      /\ \A w \in Viewers : w # v => Stirred(view[w], view'[w], FALSE)
  <2>1. Reaches(q, view[v], "loaded") /\ Loads(v, "loaded")
    BY <1>1 DEF Reaches, Loads, ReplayPacked
  <2> QED
    BY <1>0, <1>2, <2>1, LoaderForm
<1>4. UNCHANGED <<adHead, acked, parsed, copyAt, appliedTo, mutex, pub, repair, adverts, loose>> /\ refs_gen' = refs_gen + 1
  BY DEF ReplayPacked, Renew
<1>5. ~PastVersion(q) /\ ~InReading(q)
  BY <1>3 DEF PastVersion, InReading
<1>6. PICK d \in RefFiles : d = Overlay(packed, loose)
  BY <1>0, OverlayForm DEF AdTypes
<1>7. PICK f : f = packed'
  OBVIOUS
<1>8. f = [b \in AdRefs |-> LET new == {j \in (appliedTo + 1) .. view[v].upto : Touches[j] = b} IN
                            IF new = {} THEN d[b] ELSE CHOOSE j \in new : \A i \in new : i <= j]
  BY <1>6, <1>7 DEF ReplayPacked, Renew
<1>9. appliedTo \in Nat /\ view[v].upto \in Nat
  BY <1>0 DEF AdTypes, ViewRecs
<1>10. f \in RefFiles
  BY <1>8, <1>9, ReplayType
<1>11. AdTypes'
  <2>1. refs_gen' \in Nat
    BY <1>0, <1>4 DEF AdTypes
  <2> QED
    BY <1>0, <1>3, <1>4, <1>7, <1>10, <2>1 DEF AdTypes
<1>12. parsed'.key <= refs_gen' /\ parsed'.key # refs_gen' /\ refs_gen \in Nat
  BY <1>0, <1>4 DEF AdTypes, Parses, Numbers
<1>13. Numbers'
  BY <1>0, <1>4, <1>12 DEF Numbers, Publishing
<1>14. \A w \in Viewers : PastVersion(view'[w]) => w # v /\ PastVersion(view[w]) /\ view'[w].ver = view[w].ver
  BY <1>3, <1>5, StirredVersion
<1>15. ASSUME NEW n, Unseen(n) PROVE Unseen(n)'
  BY <1>4, <1>14, <1>15, UnseenStir
<1>16. Unseen(adHead + 1)'
  <2>1. PICK n : n = adHead + 1 /\ n = adHead' + 1
    BY <1>4
  <2>2. Unseen(n)'
    BY <1>0, <1>15, <2>1
  <2> QED
    BY <2>1, <2>2 DEF Unseen
<1>17. ASSUME NEW w \in Viewers PROVE Held(view[w], w)'
  <2>1. CASE w = v
    <3>1. q.key \in Int /\ q.key <= refs_gen'
      BY <1>0, <1>3, <1>4, <1>12 DEF Held, ViewRecs
    <3>2. Held(q, v)'
      BY <1>0, <1>2, <1>3, <1>4, <1>5, <3>1 DEF Held
    <3> QED
      BY <1>3, <2>1, <3>2, HeldSame
  <2>2. CASE w # v
    <3>1. PICK y : y = view'[w]
      OBVIOUS
    <3>2. Stirred(view[w], y, FALSE) /\ Held(view[w], w) /\ view[w].key <= refs_gen /\ mutex # w
      BY <1>0, <1>2, <1>3, <1>17, <2>2, <3>1 DEF Held
    <3>3. refs_gen' >= refs_gen
      BY <1>4, <1>12
    <3>4. Held(y, w)'
      BY <1>0, <1>4, <1>11, <3>2, <3>3, HeldStirred
    <3> QED
      BY <3>1, <3>4, HeldSame
  <2> QED
    BY <2>1, <2>2
<1>18. ASSUME ~pub.behind PROVE AdMain'
  <2>0. FilesInv /\ LateInv /\ Good(adHead) /\ \A w \in Viewers : Shown(view[w], w)
    BY <1>18 DEF AdInv, AdMain
  <2>1. ~Publishing /\ Level = appliedTo /\ pub.before.key = None /\ Level' = appliedTo
        /\ \A w \in Viewers : w # v => view[w].pc \notin {"load", "loaded"}
    BY <1>2, <1>4, NobodyElse DEF Level, Publishing
  <2>2. Above(d, appliedTo)
    BY <1>6, <2>0, <2>1 DEF FilesInv
  <2>3. Above(f, view[v].upto)
    BY <1>8, <1>9, <2>2, ReplayAbove
  <2>4. Above(f, appliedTo)
    BY <1>8, <1>9, <2>2, ReplayStays
  <2>5. FilesInv'
    <3>1. loose \in RefFiles /\ packed \in RefFiles
      BY <1>0 DEF AdTypes
    <3>2. Above(Overlay(f, loose), appliedTo)
      BY <1>6, <1>9, <1>10, <2>2, <2>4, <3>1, OverlayAbove
    <3>3. Above(Overlay(packed, loose), Level)'
      BY <1>4, <1>7, <2>1, <3>2
    <3> QED
      BY <1>4, <1>12, <2>1, <3>3 DEF FilesInv, Publishing
  <2>6. Good(adHead)'
    BY <1>4, <2>0 DEF Good
  <2>7. LateInv'
    <3>1. ASSUME pub.pc = "lock", copyAt = pub.next - 1 PROVE Unseen(pub.next)'
      <4>1. PICK n : n = pub.next /\ n = pub'.next
        BY <1>4
      <4>2. Unseen(n)'
        BY <1>15, <2>0, <3>1, <4>1 DEF LateInv
      <4> QED
        BY <4>1, <4>2 DEF Unseen
    <3>2. \A w \in Viewers : PastVersion(view'[w]) /\ ~view'[w].torn =>
              /\ PastVersion(view[w]) /\ ~view[w].torn /\ view'[w].ver = view[w].ver
      BY <1>3, <1>14, PastReads DEF Stirred
    <3>3. ASSUME NEW u \in Viewers, NEW w \in Viewers, mutex = u, PastVersion(view'[w]), ~view'[w].torn
          PROVE  view'[w].ver # view'[u].upto
      <4>1. view'[u].upto = view[u].upto
        BY <1>2, <1>3, <3>3
      <4> QED
        BY <2>0, <3>2, <3>3, <4>1 DEF LateInv
    <3>4. ASSUME NEW w \in Viewers, PastVersion(view'[w]), ~view'[w].torn, view'[w].ver = adHead PROVE copyAt = adHead
      BY <2>0, <3>2, <3>4 DEF LateInv
    <3>5. mutex # "repair"
      BY <1>2, ViewerNames
    <3> QED
      BY <1>4, <2>1, <3>1, <3>3, <3>4, <3>5, LateAgain
  <2>8. ASSUME NEW w \in Viewers PROVE Shown(view[w], w)'
    <3>1. CASE w = v
      <4>1. Good(q.upto)'
        BY <1>2, <1>3, <1>4, <2>0 DEF Shown, Good
      <4>2. (Above(packed, q.upto))'
        BY <1>3, <1>7, <2>3 DEF Above
      <4>3. Shown(q, v)'
        BY <1>3, <1>5, <4>1, <4>2 DEF Shown, InReading, PastVersion
      <4> QED
        BY <1>3, <3>1, <4>3, ShownSame
    <3>2. CASE w # v
      <4>1. PICK y : y = view'[w]
        OBVIOUS
      <4>2. PICK x : x = view[w]
        OBVIOUS
      <4>3. /\ Stirred(x, y, FALSE) /\ Shown(x, w) /\ x.pc # "loaded" /\ x.key <= refs_gen /\ mutex # w
            /\ x.key \in Int
        BY <1>0, <1>2, <1>3, <2>0, <2>1, <2>8, <3>2, <4>1, <4>2 DEF Held, AdTypes, ViewRecs
      <4>4. y.pc # "loaded" /\ y.key # refs_gen'
        BY <1>4, <1>12, <4>3 DEF Stirred
      <4>5. InReading(y) => y.disturbed
        BY <4>3, StirredVersion DEF Stirred
      <4>6. ASSUME PastVersion(y), ~y.torn, y.ver # None, y.ver = copyAt PROVE Got(y, y.ver)'
        <5>1. PastVersion(x) /\ ~x.torn /\ x.ver = y.ver
          BY <4>3, <4>6, StirredVersion, PastReads DEF Stirred
        <5>2. Got(x, x.ver)
          BY <4>3, <4>6, <5>1 DEF Shown
        <5> QED
          BY <1>4, <4>3, <5>1, <5>2 DEF Got, Stirred
      <4>7. y.pc = "done" /\ ~y.disturbed /\ ~y.torn => Above(y.data, y.since)
        BY <4>3 DEF Stirred, Shown, InReading
      <4>8. Shown(y, w)'
        BY <1>4, <4>3, <4>4, <4>5, <4>6, <4>7 DEF Shown, Above
      <4> QED
        BY <4>1, <4>8, ShownSame
    <3> QED
      BY <3>1, <3>2
  <2> QED
    BY <2>5, <2>6, <2>7, <2>8 DEF AdMain
<1>19. (~pub.behind)' => ~pub.behind
  BY <1>4
<1> QED
  BY <1>11, <1>13, <1>16, <1>17, <1>18, <1>19 DEF AdInv

\* replay_log, second half: refs/ is empty, the copy is at the version of the sync.
LEMMA StepReplayLoose ==
    ASSUME AdInv, NEW v \in Viewers, ReplayLoose(v)
    PROVE  AdInv'
<1>0. /\ AdTypes /\ Numbers /\ Held(view[v], v) /\ view[v] \in ViewRecs /\ Unseen(adHead + 1)
      /\ \A w \in Viewers : Held(view[w], w)
  BY ViewForm DEF AdInv
<1>1. PICK q : q = [view[v] EXCEPT !.pc = "version"]
  OBVIOUS
<1>2. view[v].pc = "loaded" /\ ~InReading(view[v]) /\ mutex = v
  BY <1>0 DEF ReplayLoose, InReading, Held
<1>3. /\ view' \in [Viewers -> ViewRecs] /\ view'[v] = q /\ q \in ViewRecs
      /\ q.pc = "version" /\ q.since = view[v].since /\ q.key = view[v].key /\ q.upto = view[v].upto
      /\ q.disturbed = view[v].disturbed /\ q.torn = view[v].torn
      /\ \A w \in Viewers : w # v => Stirred(view[w], view'[w], FALSE)
  <2>1. Reaches(q, view[v], "version") /\ Loads(v, "version")
    BY <1>1 DEF Reaches, Loads, ReplayLoose
  <2> QED
    BY <1>0, <1>2, <2>1, LoaderForm
<1>4. /\ UNCHANGED <<adHead, acked, parsed, packed, pub, repair, adverts>> /\ refs_gen' = refs_gen + 1
      /\ loose' = Absent /\ mutex' = "free"
  BY DEF ReplayLoose, Renew
<1>5. PICK k \in Nat : k = view[v].upto
  BY <1>0 DEF ViewRecs
<1>6. copyAt' = k /\ appliedTo' = k
  BY <1>5 DEF ReplayLoose
<1>7. copyAt < k /\ k <= adHead /\ view[v].since <= k /\ copyAt \in Int /\ adHead \in Int
  BY <1>0, <1>2, <1>5 DEF Held, AdTypes, None
<1>8. ~PastVersion(q)
  BY <1>3 DEF PastVersion
<1>9. ~Publishing /\ repair.pc # "replay" /\ pub.before.key = None
      /\ \A w \in Viewers : w # v => view[w].pc \notin {"load", "loaded"}
  BY <1>2, NobodyElse
<1>10. AdTypes'
  <2>1. refs_gen' \in Nat /\ loose' \in RefFiles /\ copyAt' \in Nat \cup {None} /\ appliedTo' \in Nat
    BY <1>0, <1>4, <1>6, AbsentForm DEF AdTypes
  <2> QED
    BY <1>0, <1>3, <1>4, <2>1 DEF AdTypes
<1>11. parsed'.key <= refs_gen' /\ parsed'.key # refs_gen' /\ refs_gen \in Nat /\ refs_gen' >= refs_gen
  BY <1>0, <1>4 DEF AdTypes, Parses, Numbers
<1>12. k # None
  BY <1>5 DEF None
<1>13. pub.pc = "lock" => k >= pub.next - 1 /\ k # pub.next - 1
  <2>1. pub.pc = "lock" => copyAt >= pub.next - 1
    BY <1>0 DEF Numbers
  <2>2. pub.next \in Int
    BY <1>0 DEF AdTypes, PubRecs
  <2> QED
    BY <1>7, <2>1, <2>2
<1>14. Numbers'
  BY <1>0, <1>4, <1>6, <1>7, <1>9, <1>11, <1>12, <1>13 DEF Numbers, Publishing
<1>15. \A w \in Viewers : PastVersion(view'[w]) => w # v /\ PastVersion(view[w]) /\ view'[w].ver = view[w].ver
  BY <1>3, <1>8, StirredVersion
<1>16. Unseen(adHead + 1)'
  <2>1. PICK n : n = adHead + 1 /\ n = adHead' + 1
    BY <1>4
  <2>2. Unseen(n)'
    BY <1>0, <1>4, <1>15, <2>1, UnseenStir
  <2> QED
    BY <2>1, <2>2 DEF Unseen
<1>17. ASSUME NEW w \in Viewers PROVE Held(view[w], w)'
  <2>0. mutex' # w
    BY <1>4, <1>17, ViewerNames
  <2>1. CASE w = v
    <3>1. q.key \in Int /\ q.key <= refs_gen'
      BY <1>0, <1>3, <1>4, <1>11 DEF Held, ViewRecs
    <3>2. ~q.torn /\ q.since <= acked'
      BY <1>0, <1>2, <1>3, <1>4 DEF Held
    <3>3. Held(q, v)'
      BY <1>3, <2>0, <2>1, <3>1, <3>2 DEF Held
    <3> QED
      BY <1>3, <2>1, <3>3, HeldSame
  <2>2. CASE w # v
    <3>1. PICK y : y = view'[w]
      OBVIOUS
    <3>2. Stirred(view[w], y, FALSE) /\ Held(view[w], w) /\ view[w].key <= refs_gen /\ mutex # w
      BY <1>0, <1>2, <1>3, <1>17, <2>2, <3>1 DEF Held
    <3>3. Held(y, w)'
      BY <1>0, <1>4, <1>10, <1>11, <2>0, <3>2, HeldStirred
    <3> QED
      BY <3>1, <3>3, HeldSame
  <2> QED
    BY <2>1, <2>2
<1>18. ASSUME ~pub.behind PROVE AdMain'
  <2>0. FilesInv /\ LateInv /\ Good(adHead) /\ \A w \in Viewers : Shown(view[w], w)
    BY <1>18 DEF AdInv, AdMain
  <2>1. Level' = k
    BY <1>4, <1>6, <1>9 DEF Level, Publishing
  <2>2. FilesInv'
    <3>1. Above(packed, k)
      BY <1>2, <1>5, <2>0 DEF Shown
    <3>2. packed \in RefFiles /\ Overlay(packed, Absent) = packed
      BY <1>0, AbsentForm DEF AdTypes
    <3>3. Above(Overlay(packed, loose), Level)'
      BY <1>4, <2>1, <3>1, <3>2
    <3> QED
      BY <1>4, <1>9, <1>11, <3>3 DEF FilesInv, Publishing
  <2>3. Good(adHead)'
    BY <1>4, <2>0 DEF Good
  <2>4. \A w \in Viewers : PastVersion(view'[w]) /\ ~view'[w].torn =>
            /\ PastVersion(view[w]) /\ ~view[w].torn /\ view'[w].ver = view[w].ver
    BY <1>3, <1>15, PastReads DEF Stirred
  <2>5. ASSUME NEW w \in Viewers, PastVersion(view'[w]), ~view'[w].torn
        PROVE  view'[w].ver # k /\ view'[w].ver # adHead
    <3>1. copyAt # adHead
      BY <1>5, <1>7
    <3> QED
      BY <1>2, <1>5, <2>0, <2>4, <2>5, <3>1 DEF LateInv
  <2>6. LateInv'
    <3>1. ~Publishing' /\ mutex' # "repair" /\ \A u \in Viewers : mutex' # u
      BY <1>4, <1>9, ViewerNames DEF Publishing
    <3>2. ~(pub.pc = "lock" /\ copyAt = pub.next - 1)'
      BY <1>4, <1>6, <1>13
    <3>3. (\A w \in Viewers : PastVersion(view[w]) /\ ~view[w].torn /\ view[w].ver = adHead => copyAt = adHead)'
      BY <1>4, <2>5 DEF PastVersion
    <3> QED
      BY <3>1, <3>2, <3>3 DEF LateInv
  <2>7. ASSUME NEW w \in Viewers PROVE Shown(view[w], w)'
    <3>0. mutex' # w
      BY <1>4, <2>7, ViewerNames
    <3>1. CASE w = v
      <4>1. Good(copyAt)'
        BY <1>2, <1>4, <1>5, <1>6, <2>0 DEF Shown, Good
      <4>2. q.since <= appliedTo'
        BY <1>3, <1>6, <1>7
      <4>3. Got(q, q.since)'
        BY <1>3 DEF Got
      <4>4. Shown(q, v)'
        BY <1>3, <1>8, <3>0, <3>1, <4>1, <4>2, <4>3 DEF Shown
      <4> QED
        BY <1>3, <3>1, <4>4, ShownSame
    <3>2. CASE w # v
      <4>1. PICK y : y = view'[w]
        OBVIOUS
      <4>2. PICK x : x = view[w]
        OBVIOUS
      <4>3. /\ Stirred(x, y, FALSE) /\ Shown(x, w) /\ x.pc # "loaded" /\ x.key <= refs_gen /\ x.key \in Int
        BY <1>0, <1>3, <1>9, <2>0, <2>7, <3>2, <4>1, <4>2 DEF Held, AdTypes, ViewRecs
      <4>4. y.pc # "loaded" /\ y.key # refs_gen'
        BY <1>4, <1>11, <4>3 DEF Stirred
      <4>5. InReading(y) => y.disturbed
        BY <4>3, StirredVersion DEF Stirred
      <4>6. PastVersion(y) /\ ~y.torn => y.ver # copyAt'
        BY <1>6, <2>5, <2>7, <4>1
      <4>7. y.pc = "done" /\ ~y.disturbed /\ ~y.torn => Above(y.data, y.since)
        BY <4>3 DEF Stirred, Shown, InReading
      <4>8. Shown(y, w)'
        BY <3>0, <4>4, <4>5, <4>6, <4>7 DEF Shown, Above
      <4> QED
        BY <4>1, <4>8, ShownSame
    <3> QED
      BY <3>1, <3>2
  <2> QED
    BY <2>2, <2>3, <2>6, <2>7 DEF AdMain
<1>19. (~pub.behind)' => ~pub.behind
  BY <1>4
<1> QED
  BY <1>10, <1>14, <1>16, <1>17, <1>18, <1>19 DEF AdInv

-----------------------------------------------------------------------------
(* Everybody who reads is torn: a repair, or a commit behind a sync. *)

\* What the requests are left with when the refs may have gone back.
LEMMA TornTurn ==
    ASSUME AdInv, AdTypes', view' = Disturb(TRUE), adverts' = adverts, adHead' = adHead, acked' = acked, pub'.behind = pub.behind,
           pub'.next = pub.next, refs_gen' >= refs_gen,
           \A w \in Viewers : mutex # w /\ mutex' # w
    PROVE  /\ Unseen(adHead + 1)' /\ \A w \in Viewers : Held(view[w], w)'
           /\ \A w \in Viewers : view'[w].pc = view[w].pc /\ (InReading(view'[w]) => view'[w].torn)
           /\ ~pub.behind /\ Unseen(pub.next) => Unseen(pub.next)'
           /\ ~pub.behind => Good(adHead)'
           /\ (~pub.behind /\ \A w \in Viewers : view[w].pc = "loose" /\ view[w].key = refs_gen' =>
                                                     Above(Overlay(view[w].data, loose'), Level')) =>
                  \A w \in Viewers : Shown(view[w], w)'
<1>0. AdTypes /\ Numbers /\ Unseen(adHead + 1) /\ \A w \in Viewers : Held(view[w], w)
  BY DEF AdInv
<1>1. \A w \in Viewers : Stirred(view[w], view'[w], TRUE)
  BY <1>0, DisturbForm
<1>2. \A w \in Viewers : PastVersion(view'[w]) => PastVersion(view[w]) /\ view'[w].ver = view[w].ver
  BY <1>1, StirredVersion
<1>3. ASSUME NEW n, Unseen(n) PROVE Unseen(n)'
  BY <1>2, <1>3, UnseenStir
<1>5. Unseen(adHead + 1)'
  <2>1. PICK n : n = adHead + 1 /\ n = adHead' + 1
    OBVIOUS
  <2>2. Unseen(n)'
    BY <1>0, <1>3, <2>1
  <2> QED
    BY <2>1, <2>2 DEF Unseen
<1>6. Unseen(pub.next) => Unseen(pub.next)'
  <2>1. PICK n : n = pub.next /\ n = pub'.next
    OBVIOUS
  <2>2. Unseen(n) => Unseen(n)'
    BY <1>3
  <2> QED
    BY <2>1, <2>2 DEF Unseen
<1>7. \A w \in Viewers : view'[w].pc = view[w].pc /\ (InReading(view'[w]) => view'[w].torn)
  BY <1>1, StirredVersion DEF Stirred
<1>8. ASSUME NEW w \in Viewers PROVE Held(view[w], w)'
  <2>1. PICK y : y = view'[w]
    OBVIOUS
  <2>2. Stirred(view[w], y, TRUE) /\ Held(view[w], w) /\ view[w].key <= refs_gen
    BY <1>0, <1>1, <1>8, <2>1 DEF Held
  <2>3. Held(y, w)'
    BY <1>0, <1>8, <2>2, HeldStirred
  <2> QED
    BY <2>1, <2>3, HeldSame
<1>9. ~pub.behind => Good(adHead)'
  BY DEF AdInv, AdMain, Good
<1>10. ASSUME ~pub.behind, NEW w \in Viewers,
              view[w].pc = "loose" /\ view[w].key = refs_gen' => Above(Overlay(view[w].data, loose'), Level')
       PROVE  Shown(view[w], w)'
  <2>1. PICK y : y = view'[w]
    OBVIOUS
  <2>2. PICK x : x = view[w]
    OBVIOUS
  <2>3. Stirred(x, y, TRUE) /\ Shown(x, w) /\ x.pc # "loaded"
    BY <1>0, <1>1, <1>10, <2>1, <2>2 DEF AdInv, AdMain, Held
  <2>4. y.pc # "loaded" /\ (y.pc = "loose" /\ y.key = refs_gen' => Above(Overlay(y.data, loose'), Level'))
    BY <1>10, <2>2, <2>3 DEF Stirred
  <2>5. InReading(y) => y.disturbed /\ y.torn
    BY <2>3, StirredVersion DEF Stirred
  <2>6. y.pc = "done" /\ ~y.disturbed /\ ~y.torn => Above(y.data, y.since)
    BY <2>3 DEF Stirred, Shown, InReading
  <2>7. Shown(y, w)'
    BY <1>10, <2>4, <2>5, <2>6, PastReads DEF Shown
  <2> QED
    BY <2>1, <2>7, ShownSame
<1> QED
  BY <1>3, <1>5, <1>6, <1>7, <1>8, <1>9, <1>10

LEMMA FreeMutex ==
    ASSUME AdInv, mutex = "free"
    PROVE  ~Publishing /\ repair.pc # "replay" /\ Level = appliedTo /\ pub.before.key = None
<1>0. Numbers
  BY DEF AdInv
<1>1. ~Publishing /\ repair.pc # "replay"
  BY <1>0 DEF Numbers
<1> QED
  BY <1>0, <1>1 DEF Level, Publishing, Numbers

\* rematerialize, first half: no refs, and every request that reads is torn.
LEMMA StepRepairReset ==
    ASSUME AdInv, RepairReset
    PROVE  AdInv'
<1>0. AdTypes /\ Numbers /\ \A w \in Viewers : Held(view[w], w)
  BY DEF AdInv
<1>1. /\ mutex = "free" /\ copyAt = adHead /\ mutex' = "repair" /\ packed' = Absent /\ loose' = Absent
      /\ refs_gen' = refs_gen + 2 /\ appliedTo' = 0 /\ view' = Disturb(TRUE) /\ repair'.pc = "replay"
      /\ UNCHANGED <<adHead, acked, parsed, copyAt, pub, adverts>>
  BY DEF RepairReset
<1>2. ~Publishing /\ pub.before.key = None
  BY <1>1, FreeMutex
<1>3. AdTypes'
  <2>1. view' \in [Viewers -> ViewRecs]
    BY <1>0, <1>1, DisturbForm
  <2>2. refs_gen' \in Nat /\ loose' \in RefFiles /\ packed' \in RefFiles /\ appliedTo' \in Nat
    BY <1>0, <1>1, AbsentForm DEF AdTypes
  <2> QED
    BY <1>0, <1>1, <2>1, <2>2 DEF AdTypes
<1>4. parsed'.key <= refs_gen' /\ parsed'.key # refs_gen' /\ refs_gen \in Nat /\ refs_gen' >= refs_gen
  BY <1>0, <1>1 DEF AdTypes, Parses, Numbers
<1>5. Numbers'
  <2>1. copyAt # None /\ 0 <= adHead
    BY <1>0, <1>1 DEF AdTypes, None
  <2> QED
    BY <1>0, <1>1, <1>2, <1>4, <2>1 DEF Numbers, Publishing
<1>6. \A w \in Viewers : mutex # w /\ mutex' # w
  BY <1>1, ViewerNames
<1>7. ASSUME NEW w \in Viewers PROVE view[w].key # refs_gen'
  <2>1. view[w].key \in Int /\ view[w].key <= refs_gen
    BY <1>0, <1>7 DEF Held, AdTypes, ViewRecs
  <2> QED
    BY <1>1, <1>4, <2>1
<1>8. /\ Unseen(adHead + 1)' /\ \A w \in Viewers : Held(view[w], w)'
      /\ \A w \in Viewers : InReading(view'[w]) => view'[w].torn
      /\ ~pub.behind /\ Unseen(pub.next) => Unseen(pub.next)'
      /\ ~pub.behind => Good(adHead)' /\ \A w \in Viewers : Shown(view[w], w)'
  BY <1>1, <1>3, <1>4, <1>6, <1>7, TornTurn
<1>9. ASSUME ~pub.behind PROVE AdMain'
  <2>1. FilesInv'
    <3>1. Level' = 0
      BY <1>1, <1>2 DEF Level, Publishing
    <3>2. Above(Overlay(packed, loose), Level)'
      BY <1>1, <3>1, AbsentForm
    <3> QED
      BY <1>1, <1>2, <1>4, <3>2 DEF FilesInv, Publishing
  <2>2. LateInv'
    <3>1. pub.pc = "lock" /\ copyAt = pub.next - 1 => Unseen(pub.next)
      BY <1>9 DEF AdInv, AdMain, LateInv
    <3>2. (pub.pc = "lock" /\ copyAt = pub.next - 1 => Unseen(pub.next))'
      BY <1>1, <1>8, <1>9, <3>1
    <3>3. ~Publishing'
      BY <1>1, <1>2 DEF Publishing
    <3>4. (\A u, w \in Viewers : mutex = u /\ PastVersion(view[w]) /\ ~view[w].torn => view[w].ver # view[u].upto)'
      BY <1>6
    <3>5. (\A w \in Viewers : mutex = "repair" /\ InReading(view[w]) => view[w].torn)'
      BY <1>8 DEF InReading
    <3>6. (\A w \in Viewers : PastVersion(view[w]) /\ ~view[w].torn /\ view[w].ver = adHead => copyAt = adHead)'
      BY <1>1
    <3> QED
      BY <3>2, <3>3, <3>4, <3>5, <3>6 DEF LateInv
  <2> QED
    BY <1>8, <1>9, <2>1, <2>2 DEF AdMain
<1>10. (~pub.behind)' => ~pub.behind
  BY <1>1
<1> QED
  BY <1>3, <1>5, <1>8, <1>9, <1>10 DEF AdInv

\* rematerialize, second half: the refs of the version the copy is at.
LEMMA StepRepairReplay ==
    ASSUME AdInv, RepairReplay
    PROVE  AdInv'
<1>0. AdTypes /\ Numbers /\ \A w \in Viewers : Held(view[w], w)
  BY DEF AdInv
<1>1. /\ repair.pc = "replay" /\ mutex' = "free" /\ packed' = RefsAt(copyAt) /\ loose' = Absent
      /\ refs_gen' = refs_gen + 2 /\ appliedTo' = copyAt /\ view' = Disturb(TRUE)
      /\ UNCHANGED <<adHead, acked, parsed, copyAt, pub, adverts>>
  BY DEF RepairReplay
<1>11. repair'.pc # "replay"
  BY DEF RepairReplay
<1>2. mutex = "repair" /\ copyAt # None /\ copyAt \in Nat /\ ~Publishing /\ pub.before.key = None
  BY <1>0, <1>1 DEF Numbers, AdTypes, Publishing
<1>12. RefsAt(copyAt) \in RefFiles
  <2>1. \A b \in AdRefs : RefsAt(copyAt)[b] \in Nat
    BY <1>2, RefsForm
  <2>2. RefsAt(copyAt) = [b \in AdRefs |-> RefsAt(copyAt)[b]]
    BY DEF RefsAt
  <2> QED
    BY <2>1, <2>2 DEF RefFiles
<1>3. AdTypes'
  <2>1. view' \in [Viewers -> ViewRecs]
    BY <1>0, <1>1, DisturbForm
  <2>2. refs_gen' \in Nat /\ loose' \in RefFiles /\ packed' \in RefFiles /\ appliedTo' \in Nat
    BY <1>0, <1>1, <1>2, <1>12, AbsentForm DEF AdTypes
  <2> QED
    BY <1>0, <1>1, <2>1, <2>2 DEF AdTypes
<1>4. parsed'.key <= refs_gen' /\ parsed'.key # refs_gen' /\ refs_gen \in Nat /\ refs_gen' >= refs_gen
  BY <1>0, <1>1 DEF AdTypes, Parses, Numbers
<1>5. Numbers'
  BY <1>0, <1>1, <1>2, <1>4, <1>11 DEF Numbers, Publishing
<1>6. \A w \in Viewers : mutex # w /\ mutex' # w
  BY <1>1, <1>2, ViewerNames
<1>7. ASSUME NEW w \in Viewers PROVE view[w].key # refs_gen'
  <2>1. view[w].key \in Int /\ view[w].key <= refs_gen
    BY <1>0, <1>7 DEF Held, AdTypes, ViewRecs
  <2> QED
    BY <1>1, <1>4, <2>1
<1>8. /\ Unseen(adHead + 1)' /\ \A w \in Viewers : Held(view[w], w)'
      /\ \A w \in Viewers : InReading(view'[w]) => view'[w].torn
      /\ ~pub.behind /\ Unseen(pub.next) => Unseen(pub.next)'
      /\ ~pub.behind => Good(adHead)' /\ \A w \in Viewers : Shown(view[w], w)'
  BY <1>1, <1>3, <1>4, <1>6, <1>7, TornTurn
<1>9. ASSUME ~pub.behind PROVE AdMain'
  <2>1. FilesInv'
    <3>1. Level' = copyAt
      BY <1>1, <1>2 DEF Level, Publishing
    <3>2. Above(RefsAt(copyAt), copyAt)
      <4>1. \A b \in AdRefs : RefsAt(copyAt)[b] \in Nat
        BY <1>2, RefsForm
      <4> QED
        BY <4>1 DEF Above
    <3>3. Overlay(RefsAt(copyAt), Absent) = RefsAt(copyAt)
      BY <1>12, AbsentForm
    <3>4. Above(Overlay(packed, loose), Level)'
      BY <1>1, <3>1, <3>2, <3>3
    <3> QED
      BY <1>1, <1>2, <1>4, <3>4 DEF FilesInv, Publishing
  <2>2. LateInv'
    <3>1. pub.pc = "lock" /\ copyAt = pub.next - 1 => Unseen(pub.next)
      BY <1>9 DEF AdInv, AdMain, LateInv
    <3>2. (pub.pc = "lock" /\ copyAt = pub.next - 1 => Unseen(pub.next))'
      BY <1>1, <1>8, <1>9, <3>1
    <3>3. ~Publishing'
      BY <1>1, <1>2 DEF Publishing
    <3>4. (\A u, w \in Viewers : mutex = u /\ PastVersion(view[w]) /\ ~view[w].torn => view[w].ver # view[u].upto)'
      BY <1>6
    <3>5. mutex' # "repair"
      BY <1>1
    <3>6. (\A w \in Viewers : PastVersion(view[w]) /\ ~view[w].torn /\ view[w].ver = adHead => copyAt = adHead)'
      BY <1>8, PastReads DEF PastVersion, InReading
    <3> QED
      BY <3>2, <3>3, <3>4, <3>5, <3>6 DEF LateInv
  <2> QED
    BY <1>8, <1>9, <2>1, <2>2 DEF AdMain
<1>10. (~pub.behind)' => ~pub.behind
  BY <1>1
<1> QED
  BY <1>3, <1>5, <1>8, <1>9, <1>10 DEF AdInv

-----------------------------------------------------------------------------
(* Commits. *)

\* The commit takes the mutex, a sync has been here before.
LEMMA StepLate ==
    ASSUME AdInv, PubTakesMutex, copyAt # pub.next - 1
    PROVE  AdInv'
<1>0. AdTypes /\ Numbers /\ \A w \in Viewers : Held(view[w], w)
  BY DEF AdInv
<1>1. /\ pub.pc = "lock" /\ mutex = "free" /\ mutex' = "pub" /\ view' = Disturb(TRUE)
      /\ UNCHANGED <<adHead, acked, repair, adverts, packed, loose, refs_gen, parsed, copyAt, appliedTo>>
  BY DEF PubTakesMutex, copyVars
<1>2. /\ pub' \in PubRecs /\ pub'.pc = "write" /\ pub'.next = pub.next /\ pub'.upto = pub.upto
      /\ pub'.before = pub.before /\ pub'.behind = pub.behind
  BY <1>0 DEF PubTakesMutex, AdTypes, PubRecs
<1>3. ~Publishing /\ repair.pc # "replay" /\ Level = appliedTo /\ pub.before.key = None
  BY <1>1, FreeMutex
<1>4. AdTypes'
  <2>1. view' \in [Viewers -> ViewRecs]
    BY <1>0, <1>1, DisturbForm
  <2> QED
    BY <1>0, <1>1, <1>2, <2>1 DEF AdTypes
<1>5. Numbers'
  BY <1>0, <1>1, <1>2, <1>3 DEF Numbers, Publishing
<1>6. \A w \in Viewers : mutex # w /\ mutex' # w
  BY <1>1, ViewerNames
<1>7. Level' = pub.next - 1 /\ pub.next - 1 <= Level /\ Level' \in Nat /\ Level \in Nat
  <2>1. Level' = pub.next - 1
    BY <1>2 DEF Level
  <2>2. copyAt # None /\ 1 <= pub.next /\ copyAt >= pub.next - 1
    BY <1>0, <1>1 DEF Numbers
  <2>3. appliedTo = copyAt
    BY <1>0, <1>1, <2>2 DEF Numbers
  <2>4. appliedTo \in Nat /\ pub.next \in Nat
    BY <1>0 DEF AdTypes, PubRecs
  <2> QED
    BY <1>3, <2>1, <2>2, <2>3, <2>4
<1>8. ASSUME NEW d \in RefFiles, Above(d, Level) PROVE Above(d, Level')
  BY <1>7, <1>8, AboveLess
<1>9. ASSUME ~pub.behind, NEW w \in Viewers, view[w].pc = "loose", view[w].key = refs_gen
      PROVE  Above(Overlay(view[w].data, loose), Level')
  <2>1. Above(Overlay(view[w].data, loose), Level)
    BY <1>9 DEF AdInv, AdMain, Shown
  <2>2. Overlay(view[w].data, loose) \in RefFiles
    BY <1>0, <1>9, OverlayForm DEF AdTypes, ViewRecs
  <2> QED
    BY <1>8, <2>1, <2>2
<1>10. refs_gen' >= refs_gen
  BY <1>0, <1>1 DEF AdTypes
<1>11. /\ Unseen(adHead + 1)' /\ \A w \in Viewers : Held(view[w], w)'
       /\ \A w \in Viewers : InReading(view'[w]) => view'[w].torn
       /\ ~pub.behind => Good(adHead)'
       /\ (~pub.behind /\ \A w \in Viewers : view[w].pc = "loose" /\ view[w].key = refs_gen' =>
                                                     Above(Overlay(view[w].data, loose'), Level')) =>
                  \A w \in Viewers : Shown(view[w], w)'
  BY <1>1, <1>2, <1>4, <1>6, <1>10, TornTurn
<1>12. ASSUME ~pub.behind PROVE AdMain'
  <2>0. FilesInv
    BY <1>12 DEF AdInv, AdMain
  <2>1. \A w \in Viewers : Shown(view[w], w)'
    BY <1>1, <1>9, <1>11, <1>12
  <2>2. FilesInv'
    <3>1. Overlay(packed, loose) \in RefFiles /\ parsed.data \in RefFiles
      BY <1>0, OverlayForm DEF AdTypes, Parses
    <3>2. Above(Overlay(packed, loose), Level') /\ (parsed.key = refs_gen => Above(parsed.data, Level'))
      BY <1>8, <2>0, <3>1 DEF FilesInv
    <3>3. Above(Overlay(packed, loose), Level)' /\ (parsed.key = refs_gen => Above(parsed.data, Level))'
      BY <1>1, <3>2
    <3> QED
      BY <1>2, <1>3, <3>3 DEF FilesInv
  <2>3. LateInv'
    <3>1. ~(\E w \in Viewers : InReading(view[w]) /\ ~view[w].torn)'
      BY <1>11 DEF InReading
    <3>2. (\A u, w \in Viewers : mutex = u /\ PastVersion(view[w]) /\ ~view[w].torn => view[w].ver # view[u].upto)'
      BY <1>6
    <3>3. mutex' # "repair" /\ pub'.pc # "lock"
      BY <1>1, <1>2
    <3>4. (\A w \in Viewers : PastVersion(view[w]) /\ ~view[w].torn /\ view[w].ver = adHead => copyAt = adHead)'
      BY <1>11, PastReads DEF PastVersion, InReading
    <3> QED
      BY <3>1, <3>2, <3>3, <3>4 DEF LateInv
  <2> QED
    BY <1>11, <1>12, <2>1, <2>2, <2>3 DEF AdMain
<1>13. (~pub.behind)' => ~pub.behind
  BY <1>2
<1> QED
  BY <1>4, <1>5, <1>11, <1>12, <1>13 DEF AdInv

LEMMA UnseenMore ==
    ASSUME AdTypes, NEW n \in Int, NEW m \in Int, n <= m, Unseen(n)
    PROVE  Unseen(m)
<1>1. ASSUME NEW k \in DOMAIN adverts, k >= m PROVE ~adverts[k].there
  <2>1. k \in Int
    BY <1>1 DEF AdTypes, None
  <2>2. k >= n
    BY <1>1, <2>1
  <2> QED
    BY <1>1, <2>2 DEF Unseen
<1>2. ASSUME NEW v \in Viewers, PastVersion(view[v]) PROVE view[v].ver < m
  <2>1. view[v].ver \in Int /\ view[v].ver < n
    BY <1>2 DEF AdTypes, ViewRecs, Unseen
  <2> QED
    BY <2>1
<1> QED
  BY <1>1, <1>2 DEF Unseen

LEMMA UnseenSame ==
    ASSUME NEW n, Unseen(n), view' = view, adverts' = adverts
    PROVE  Unseen(n)'
BY DEF Unseen

LEMMA NextLess ==
    ASSUME NEW a \in Int, NEW b \in Int, b >= a
    PROVE  a + 1 \in Int /\ b + 1 \in Int /\ a + 1 <= b + 1
OBVIOUS

\* The requests stand still.
LEMMA Steady ==
    ASSUME AdInv, AdTypes', view' = view, adverts' = adverts, acked' >= acked, refs_gen' >= refs_gen, adHead' >= adHead,
           \A w \in Viewers : (mutex' = w <=> mutex = w) /\ (mutex = w => copyAt' = copyAt)
    PROVE  /\ Unseen(adHead + 1)' /\ \A w \in Viewers : Held(view[w], w)'
<1>0. AdTypes /\ Numbers /\ Unseen(adHead + 1) /\ \A w \in Viewers : Held(view[w], w)
  BY DEF AdInv
<1>2. Unseen(adHead + 1)'
  <2>0. adHead \in Int /\ adHead' \in Int
    BY <1>0 DEF AdTypes
  <2>6. adHead + 1 \in Int /\ adHead' + 1 \in Int /\ adHead + 1 <= adHead' + 1
    BY <2>0, NextLess
  <2>1. PICK n \in Int : n = adHead + 1
    BY <2>6
  <2>2. PICK m : m = adHead' + 1
    OBVIOUS
  <2>3. m \in Int /\ n <= m
    BY <2>1, <2>2, <2>6
  <2>4. Unseen(m)
    BY <1>0, <2>1, <2>3, UnseenMore
  <2>5. Unseen(m)'
    BY <2>4, UnseenSame
  <2> QED
    BY <2>2, <2>5 DEF Unseen
<1>3. ASSUME NEW w \in Viewers PROVE Held(view[w], w)'
  <2>1. PICK x : x = view[w] /\ x = view'[w]
    OBVIOUS
  <2>2. Held(x, w) /\ x.key \in Int /\ x.since \in Int /\ x.upto \in Int
    BY <1>0, <1>3, <2>1 DEF AdTypes, ViewRecs
  <2>3. adHead \in Int /\ adHead' \in Int /\ refs_gen \in Int /\ refs_gen' \in Int /\ acked \in Int /\ acked' \in Int
    BY <1>0 DEF AdTypes
  <2>4. x.key <= refs_gen' /\ x.since <= acked'
    BY <2>2, <2>3 DEF Held
  <2>5. mutex = w => x.upto <= adHead'
    BY <2>2, <2>3 DEF Held
  <2>6. Held(x, w)'
    BY <1>3, <2>2, <2>4, <2>5 DEF Held
  <2> QED
    BY <2>1, <2>6, HeldSame
<1> QED
  BY <1>2, <1>3

\* A version nobody has seen has no advert.
LEMMA GoodUnseen ==
    ASSUME AdTypes, NEW n, NEW k \in 0 .. AdLast, k >= n, Unseen(n)
    PROVE  Good(k)
BY DEF Unseen, Good, AdTypes

\* The head moves, here or elsewhere: nothing of the copy does.
LEMMA HeadMoves ==
    ASSUME AdInv, ~pub.behind, AdTypes', adHead' > adHead,
           UNCHANGED <<packed, loose, refs_gen, parsed, copyAt, appliedTo, mutex, view, adverts>>,
           Publishing => pub' = pub, ~Publishing => ~Publishing',
           pub'.before.key # None => pub' = pub,
           (pub.pc = "lock" /\ copyAt = pub.next - 1 => Unseen(pub.next))'
    PROVE  AdMain'
<1>0. AdTypes /\ Numbers /\ Unseen(adHead + 1) /\ FilesInv /\ LateInv /\ \A w \in Viewers : Shown(view[w], w)
  BY DEF AdInv, AdMain
<1>1. adHead \in Int /\ adHead' \in 0 .. AdLast /\ adHead' >= adHead + 1
  BY <1>0 DEF AdTypes
<1>2. Level' = Level /\ (Publishing' => Publishing)
  BY DEF Level, Publishing
<1>3. FilesInv'
  <2>1. pub'.pc = "patch" => pub' = pub
    BY DEF Publishing
  <2> QED
    BY <1>0, <1>2, <2>1 DEF FilesInv
<1>4. Good(adHead)'
  <2>1. Good(adHead')
    BY <1>0, <1>1, GoodUnseen
  <2> QED
    BY <2>1 DEF Good
<1>5. ASSUME NEW w \in Viewers PROVE Shown(view[w], w)'
  <2>1. PICK x : x = view[w] /\ x = view'[w]
    OBVIOUS
  <2>2. Shown(x, w)
    BY <1>0, <1>5, <2>1
  <2>3. Shown(x, w)'
    BY <1>2, <2>2 DEF Shown, Good, Got
  <2> QED
    BY <2>1, <2>3, ShownSame
<1>6. LateInv'
  <2>1. ASSUME Publishing', NEW w \in Viewers, InReading(view[w]), ~view[w].torn
        PROVE  copyAt < pub'.next /\ Unseen(pub.upto)'
    <3>1. Publishing /\ pub' = pub
      BY <1>2, <2>1
    <3>2. copyAt < pub.next /\ Unseen(pub.upto)
      BY <1>0, <2>1, <3>1 DEF LateInv
    <3> QED
      BY <3>1, <3>2 DEF Unseen
  <2>2. (Publishing /\ (\E w \in Viewers : InReading(view[w]) /\ ~view[w].torn) => copyAt < pub.next /\ Unseen(pub.upto))'
    BY <2>1 DEF InReading
  <2>3. (\A u, w \in Viewers : mutex = u /\ PastVersion(view[w]) /\ ~view[w].torn => view[w].ver # view[u].upto)'
    BY <1>0 DEF LateInv, PastVersion
  <2>4. (\A w \in Viewers : mutex = "repair" /\ InReading(view[w]) => view[w].torn)'
    BY <1>0 DEF LateInv, InReading
  <2>5. ASSUME NEW w \in Viewers, PastVersion(view[w]) PROVE view[w].ver # adHead'
    <3>1. view[w].ver < adHead + 1 /\ view[w].ver \in Int
      BY <1>0, <2>5 DEF Unseen, AdTypes, ViewRecs
    <3> QED
      BY <1>1, <3>1
  <2>6. (\A w \in Viewers : PastVersion(view[w]) /\ ~view[w].torn /\ view[w].ver = adHead => copyAt = adHead)'
    BY <2>5 DEF PastVersion
  <2> QED
    BY <2>2, <2>3, <2>4, <2>6 DEF LateInv
<1> QED
  BY <1>3, <1>4, <1>5, <1>6 DEF AdMain

LEMMA SeqForm ==
    ASSUME NEW n \in AdSeqs
    PROVE  n \in Nat /\ 1 <= n /\ n <= AdLast /\ Touches[n] \in AdRefs
BY AdvertsAssumption, LastNat DEF AdSeqs, AdLast

LEMMA StepElsewhere ==
    ASSUME AdInv, CommitElsewhere
    PROVE  AdInv'
<1>0. AdTypes /\ Numbers
  BY DEF AdInv
<1>1. /\ adHead + 1 \in AdSeqs /\ adHead' = adHead + 1 /\ acked' = adHead + 1
      /\ UNCHANGED <<packed, loose, refs_gen, parsed, copyAt, appliedTo, mutex, view, pub, repair, adverts>>
  BY DEF CommitElsewhere, copyVars
<1>2. adHead \in Nat /\ adHead + 1 <= AdLast
  BY <1>0, <1>1, SeqForm DEF AdTypes
<1>3. AdTypes'
  <2>1. adHead' \in 0 .. AdLast /\ acked' \in Nat
    BY <1>1, <1>2, LastNat
  <2> QED
    BY <1>0, <1>1, <2>1 DEF AdTypes
<1>4. adHead' > adHead /\ adHead' >= adHead /\ acked' >= acked /\ refs_gen' >= refs_gen /\ acked' <= adHead'
      /\ copyAt <= adHead' /\ appliedTo <= adHead' /\ (pub.pc # "idle" => pub.upto <= adHead')
  <2>1. /\ acked <= adHead /\ copyAt <= adHead /\ appliedTo <= adHead /\ (pub.pc # "idle" => pub.upto <= adHead)
    BY <1>0 DEF Numbers
  <2>2. acked \in Int /\ copyAt \in Int /\ appliedTo \in Int /\ pub.upto \in Int /\ refs_gen \in Int
    BY <1>0 DEF AdTypes, None, PubRecs
  <2> QED
    BY <1>1, <1>2, <2>1, <2>2
<1>5. Numbers'
  BY <1>0, <1>1, <1>4 DEF Numbers, Publishing
<1>6. /\ Unseen(adHead + 1)' /\ \A w \in Viewers : Held(view[w], w)'
  BY <1>1, <1>3, <1>4, Steady
<1>7. ASSUME ~pub.behind PROVE AdMain'
  <2>1. pub.pc = "lock" /\ copyAt = pub.next - 1 => Unseen(pub.next)
    BY <1>7 DEF AdInv, AdMain, LateInv
  <2>2. (pub.pc = "lock" /\ copyAt = pub.next - 1 => Unseen(pub.next))'
    BY <1>1, <2>1 DEF Unseen
  <2>3. Publishing' = Publishing
    BY <1>1 DEF Publishing
  <2> QED
    BY <1>1, <1>3, <1>4, <1>7, <2>2, <2>3, HeadMoves
<1>8. (~pub.behind)' => ~pub.behind
  BY <1>1
<1> QED
  BY <1>3, <1>5, <1>6, <1>7, <1>8 DEF AdInv

LEMMA StepHere ==
    ASSUME AdInv, NEW n \in 1 .. 2, CommitHere(n)
    PROVE  AdInv'
<1>0. AdTypes /\ Numbers /\ Unseen(adHead + 1)
  BY DEF AdInv
<1>1. /\ adHead + n \in AdSeqs /\ adHead' = adHead + n /\ pub.pc = "idle" /\ copyAt = adHead
      /\ UNCHANGED <<acked, packed, loose, refs_gen, parsed, copyAt, appliedTo, mutex, view, repair, adverts>>
  BY DEF CommitHere, copyVars
<1>2. adHead \in Nat /\ adHead + n <= AdLast /\ adHead + n \in Nat /\ adHead + 1 \in Nat
  BY <1>0, <1>1, SeqForm DEF AdTypes
<1>3. /\ pub' \in PubRecs /\ pub'.pc = "lock" /\ pub'.next = adHead + 1 /\ pub'.upto = adHead + n
      /\ pub'.before = pub.before /\ pub'.behind = pub.behind
  <2>1. pub \in PubRecs /\ pub' = [pub EXCEPT !.pc = "lock", !.next = adHead + 1, !.upto = adHead + n]
    BY <1>0 DEF AdTypes, CommitHere
  <2>2. PICK a \in Nat, b \in Nat : a = adHead + 1 /\ b = adHead + n
    BY <1>2
  <2>3. pub' = [pub EXCEPT !.pc = "lock", !.next = a, !.upto = b]
    BY <2>1, <2>2
  <2> QED
    BY <2>1, <2>2, <2>3 DEF PubRecs
<1>4. AdTypes'
  <2>1. adHead' \in 0 .. AdLast
    BY <1>1, <1>2, LastNat
  <2> QED
    BY <1>0, <1>1, <1>3, <2>1 DEF AdTypes
<1>5. /\ adHead' > adHead /\ adHead' >= adHead /\ acked' >= acked /\ refs_gen' >= refs_gen /\ acked' <= adHead'
      /\ copyAt' <= adHead' /\ appliedTo' <= adHead'
  <2>1. /\ acked <= adHead /\ copyAt <= adHead /\ appliedTo <= adHead
    BY <1>0 DEF Numbers
  <2>2. acked \in Int /\ copyAt \in Int /\ appliedTo \in Int /\ refs_gen \in Int
    BY <1>0 DEF AdTypes, None
  <2> QED
    BY <1>1, <1>2, <2>1, <2>2
<1>6. ~Publishing /\ ~Publishing' /\ pub.before.key = None
  BY <1>0, <1>1, <1>3 DEF Publishing, Numbers
<1>7. Numbers'
  <2>1. /\ copyAt' # None /\ 1 <= pub'.next /\ pub'.next <= pub'.upto /\ pub'.upto <= adHead' /\ copyAt' >= pub'.next - 1
    BY <1>1, <1>2, <1>3 DEF None
  <2> QED
    BY <1>0, <1>1, <1>3, <1>5, <1>6, <2>1 DEF Numbers
<1>8. /\ Unseen(adHead + 1)' /\ \A w \in Viewers : Held(view[w], w)'
  BY <1>1, <1>4, <1>5, Steady
<1>9. ASSUME ~pub.behind PROVE AdMain'
  <2>1. Unseen(pub.next)'
    <3>1. PICK m : m = adHead + 1 /\ m = pub'.next
      BY <1>3
    <3>2. Unseen(m)'
      BY <1>0, <1>1, <3>1, UnseenSame
    <3> QED
      BY <3>1, <3>2 DEF Unseen
  <2> QED
    BY <1>1, <1>3, <1>4, <1>5, <1>6, <1>9, <2>1, HeadMoves
<1>10. (~pub.behind)' => ~pub.behind
  BY <1>3
<1> QED
  BY <1>4, <1>7, <1>8, <1>9, <1>10 DEF AdInv

\* The commit takes the mutex in time: the version it brings is one nobody has seen.
LEMMA StepInTime ==
    ASSUME AdInv, PubTakesMutex, copyAt = pub.next - 1
    PROVE  AdInv'
<1>0. AdTypes /\ Numbers
  BY DEF AdInv
<1>1. /\ pub.pc = "lock" /\ mutex = "free" /\ mutex' = "pub" /\ view' = view
      /\ UNCHANGED <<adHead, acked, repair, adverts, packed, loose, refs_gen, parsed, copyAt, appliedTo>>
  BY DEF PubTakesMutex, copyVars
<1>2. /\ pub' \in PubRecs /\ pub'.pc = "write" /\ pub'.next = pub.next /\ pub'.upto = pub.upto
      /\ pub'.before = pub.before /\ pub'.behind = pub.behind
  BY <1>0 DEF PubTakesMutex, AdTypes, PubRecs
<1>3. ~Publishing /\ repair.pc # "replay" /\ Level = appliedTo /\ pub.before.key = None
  BY <1>1, FreeMutex
<1>4. AdTypes'
  BY <1>0, <1>1, <1>2 DEF AdTypes
<1>5. Numbers'
  BY <1>0, <1>1, <1>2, <1>3 DEF Numbers, Publishing
<1>6. \A w \in Viewers : mutex # w /\ mutex' # w
  BY <1>1, ViewerNames
<1>7. acked' >= acked /\ refs_gen' >= refs_gen /\ adHead' >= adHead
  BY <1>0, <1>1 DEF AdTypes
<1>8. /\ Unseen(adHead + 1)' /\ \A w \in Viewers : Held(view[w], w)'
  BY <1>1, <1>4, <1>6, <1>7, Steady
<1>9. /\ Level' = Level /\ pub.next \in Int /\ pub.upto \in Int /\ pub.next <= pub.upto /\ copyAt < pub.next
  <2>1. copyAt # None /\ pub.next <= pub.upto
    BY <1>0, <1>1 DEF Numbers
  <2>2. appliedTo = copyAt
    BY <1>0, <1>1, <2>1 DEF Numbers
  <2>3. Level' = pub.next - 1
    BY <1>2 DEF Level
  <2>4. pub.next \in Int /\ pub.upto \in Int
    BY <1>0 DEF AdTypes, PubRecs
  <2> QED
    BY <1>3, <2>1, <2>2, <2>3, <2>4
<1>10. ASSUME ~pub.behind PROVE AdMain'
  <2>0. FilesInv /\ LateInv /\ Good(adHead) /\ \A w \in Viewers : Shown(view[w], w)
    BY <1>10 DEF AdInv, AdMain
  <2>1. FilesInv'
    BY <1>1, <1>2, <1>3, <1>9, <2>0 DEF FilesInv
  <2>2. Good(adHead)'
    BY <1>1, <2>0 DEF Good
  <2>3. ASSUME NEW w \in Viewers PROVE Shown(view[w], w)'
    <3>1. PICK x : x = view[w] /\ x = view'[w]
      BY <1>1
    <3>2. Shown(x, w)
      BY <2>0, <2>3, <3>1
    <3>3. Shown(x, w)'
      BY <1>1, <1>6, <1>9, <2>3, <3>2 DEF Shown, Good, Got
    <3> QED
      BY <3>1, <3>3, ShownSame
  <2>4. LateInv'
    <3>1. Unseen(pub.upto)'
      <4>1. Unseen(pub.next)
        BY <1>1, <2>0 DEF LateInv
      <4>2. PICK m : m = pub.upto /\ m = pub'.upto
        BY <1>2
      <4>3. Unseen(m)
        BY <1>0, <1>9, <4>1, <4>2, UnseenMore
      <4>4. Unseen(m)'
        BY <1>1, <4>3, UnseenSame
      <4> QED
        BY <4>2, <4>4 DEF Unseen
    <3>2. copyAt' < pub'.next
      BY <1>1, <1>2, <1>9
    <3>3. mutex' # "repair" /\ pub'.pc # "lock"
      BY <1>1, <1>2
    <3>4. (\A u, w \in Viewers : mutex = u /\ PastVersion(view[w]) /\ ~view[w].torn => view[w].ver # view[u].upto)'
      BY <1>6
    <3>5. (\A w \in Viewers : PastVersion(view[w]) /\ ~view[w].torn /\ view[w].ver = adHead => copyAt = adHead)'
      BY <1>1, <2>0 DEF LateInv, PastVersion
    <3> QED
      BY <3>1, <3>2, <3>3, <3>4, <3>5 DEF LateInv
  <2> QED
    BY <2>1, <2>2, <2>3, <2>4 DEF AdMain
<1>11. (~pub.behind)' => ~pub.behind
  BY <1>2
<1> QED
  BY <1>4, <1>5, <1>8, <1>10, <1>11 DEF AdInv

\* What is known while this instance's commit holds the mutex.
LEMMA Pushing ==
    ASSUME AdInv, Publishing
    PROVE  /\ mutex = "pub" /\ repair.pc # "replay" /\ copyAt \in Nat /\ copyAt # None /\ appliedTo = copyAt
           /\ pub.next \in Nat /\ 1 <= pub.next /\ pub.next <= pub.upto /\ pub.upto \in Nat /\ pub.upto <= adHead
           /\ pub.next \in AdSeqs /\ Touches[pub.next] \in AdRefs
           /\ \A w \in Viewers : mutex # w /\ view[w].pc \notin {"load", "loaded"}
<1>0. AdTypes /\ Numbers /\ \A w \in Viewers : Held(view[w], w)
  BY DEF AdInv
<1>1. mutex = "pub" /\ pub.pc # "idle"
  BY <1>0 DEF Numbers, Publishing
<1>2. copyAt # None /\ 1 <= pub.next /\ pub.next <= pub.upto /\ pub.upto <= adHead /\ repair.pc # "replay"
  BY <1>0, <1>1 DEF Numbers
<1>3. appliedTo = copyAt
  BY <1>0, <1>1, <1>2 DEF Numbers
<1>4. copyAt \in Nat /\ pub.next \in Nat /\ pub.upto \in Nat /\ adHead \in Nat /\ adHead <= AdLast
  BY <1>0, <1>2 DEF AdTypes, PubRecs
<1>5. pub.next \in 1 .. AdLast
  BY <1>2, <1>4, LastNat
<1>6. pub.next \in AdSeqs
  BY <1>5, AdvertsAssumption DEF AdSeqs, AdLast
<1>7. \A w \in Viewers : mutex # w
  BY <1>1, ViewerNames
<1>8. \A w \in Viewers : view[w].pc \notin {"load", "loaded"}
  BY <1>0, <1>7 DEF Held
<1> QED
  BY <1>1, <1>2, <1>3, <1>4, <1>6, <1>7, <1>8, SeqForm

\* A write of n to the files leaves what a request has read above all up to n.
LEMMA GotPut ==
    ASSUME NEW p \in RefFiles, NEW e \in RefFiles, NEW r \in AdRefs, NEW n \in Nat, n # 0,
           NEW k \in Nat, k <= n, Above(Overlay(p, e), k)
    PROVE  Above(Overlay(p, [e EXCEPT ![r] = n]), k)
<1>1. Overlay(p, e) \in RefFiles
  BY OverlayForm
<1>2. Above([Overlay(p, e) EXCEPT ![r] = n], k)
  BY <1>1, AbovePut DEF Above
<1> QED
  BY <1>2, OverlayPut

\* apply_ref_txn, first half: the ref file takes the update.
LEMMA StepUpdate ==
    ASSUME AdInv, UpdateRef
    PROVE  AdInv'
<1>0. AdTypes /\ Numbers /\ \A w \in Viewers : Held(view[w], w)
  BY DEF AdInv
<1>1. /\ pub.pc = "write" /\ loose' = [loose EXCEPT ![Touches[pub.next]] = pub.next]
      /\ UNCHANGED <<adHead, acked, packed, refs_gen, parsed, copyAt, appliedTo, mutex, view, repair, adverts>>
  BY DEF UpdateRef
<1>2. Publishing
  BY <1>1 DEF Publishing
<1>3. /\ mutex = "pub" /\ repair.pc # "replay" /\ copyAt \in Nat /\ copyAt # None /\ appliedTo = copyAt
      /\ pub.next \in Nat /\ 1 <= pub.next /\ pub.next <= pub.upto /\ pub.upto \in Nat /\ pub.upto <= adHead
      /\ pub.next \in AdSeqs /\ Touches[pub.next] \in AdRefs
      /\ \A w \in Viewers : mutex # w /\ view[w].pc \notin {"load", "loaded"}
  BY <1>2, Pushing
<1>4. PICK c : c = IF parsed.key = refs_gen THEN parsed ELSE [key |-> None, data |-> Absent]
  OBVIOUS
<1>5. c \in Parses /\ (c.key # None => c = parsed /\ parsed.key = refs_gen)
  <2>1. CASE parsed.key = refs_gen
    BY <1>0, <1>4, <2>1 DEF AdTypes
  <2>2. CASE parsed.key # refs_gen
    <3>1. c.key = None /\ c.data = Absent /\ c = [key |-> c.key, data |-> c.data]
      BY <1>4, <2>2
    <3>2. None \in Int
      BY DEF None
    <3> QED
      BY <3>1, <3>2, AbsentForm DEF Parses
  <2> QED
    BY <2>1, <2>2
<1>6. /\ pub' \in PubRecs /\ pub'.pc = "patch" /\ pub'.next = pub.next /\ pub'.upto = pub.upto
      /\ pub'.before = c /\ pub'.behind = pub.behind
  <2>1. pub \in PubRecs /\ pub' = [pub EXCEPT !.pc = "patch", !.before = c]
    BY <1>0, <1>4 DEF AdTypes, UpdateRef
  <2> QED
    BY <1>5, <2>1 DEF PubRecs
<1>7. PICK r \in AdRefs, n \in Nat : r = Touches[pub.next] /\ n = pub.next
  BY <1>3
<1>8. loose' = [loose EXCEPT ![r] = n] /\ loose \in RefFiles /\ packed \in RefFiles /\ n # 0
  BY <1>0, <1>1, <1>3, <1>7 DEF AdTypes
<1>9. loose' \in RefFiles /\ loose'[r] = n
  BY <1>8 DEF RefFiles
<1>10. AdTypes'
  BY <1>0, <1>1, <1>6, <1>9 DEF AdTypes
<1>11. Numbers'
  BY <1>0, <1>1, <1>2, <1>3, <1>6 DEF Numbers, Publishing
<1>12. acked' >= acked /\ refs_gen' >= refs_gen /\ adHead' >= adHead
  BY <1>0, <1>1 DEF AdTypes
<1>13. /\ Unseen(adHead + 1)' /\ \A w \in Viewers : Held(view[w], w)'
  BY <1>1, <1>3, <1>10, <1>12, Steady
<1>14. Level' = Level /\ Level = n - 1 /\ Level \in Nat /\ Level <= n
  <2>1. Level' = Level /\ Level = n - 1
    BY <1>1, <1>6, <1>7 DEF Level
  <2> QED
    BY <1>3, <1>7, <2>1
<1>15. ASSUME ~pub.behind PROVE AdMain'
  <2>0. FilesInv /\ LateInv /\ Good(adHead) /\ \A w \in Viewers : Shown(view[w], w)
    BY <1>15 DEF AdInv, AdMain
  <2>1. FilesInv'
    <3>1. Above(Overlay(packed, loose), Level)
      BY <2>0 DEF FilesInv
    <3>2. Above(Overlay(packed, loose'), Level)
      BY <1>7, <1>8, <1>14, <3>1, GotPut
    <3>5. Above(Overlay(packed, loose), Level)'
      BY <1>1, <1>14, <3>2
    <3>6. loose'[Touches[pub'.next]] = pub'.next
      BY <1>6, <1>7, <1>9
    <3>7. (parsed.key = refs_gen => Above(parsed.data, Level))'
      BY <1>1, <1>14, <2>0 DEF FilesInv
    <3>8. (pub.before.key # None => Above(pub.before.data, Level))'
      BY <1>5, <1>6, <1>14, <2>0 DEF FilesInv
    <3> QED
      BY <3>5, <3>6, <3>7, <3>8 DEF FilesInv
  <2>2. Good(adHead)'
    BY <1>1, <2>0 DEF Good
  <2>3. LateInv'
    <3>1. (Publishing /\ (\E w \in Viewers : InReading(view[w]) /\ ~view[w].torn) => copyAt < pub.next /\ Unseen(pub.upto))'
      BY <1>1, <1>2, <1>6, <2>0 DEF LateInv, InReading, Unseen
    <3>2. mutex' # "repair" /\ pub'.pc # "lock" /\ \A w \in Viewers : mutex' # w
      BY <1>1, <1>3, <1>6
    <3>3. (\A w \in Viewers : PastVersion(view[w]) /\ ~view[w].torn /\ view[w].ver = adHead => copyAt = adHead)'
      BY <1>1, <2>0 DEF LateInv, PastVersion
    <3> QED
      BY <3>1, <3>2, <3>3 DEF LateInv
  <2>4. ASSUME NEW w \in Viewers PROVE Shown(view[w], w)'
    <3>1. PICK x : x = view[w] /\ x = view'[w]
      BY <1>1
    <3>2. /\ Shown(x, w) /\ Held(x, w) /\ x.data \in RefFiles /\ x.since \in Nat /\ x.ver \in Int /\ x.pc # "loaded"
          /\ mutex' # w
      BY <1>0, <1>1, <1>3, <2>0, <2>4, <3>1 DEF AdTypes, ViewRecs
    <3>3. ASSUME NEW k \in Nat, k <= n, Above(Overlay(x.data, loose), k) PROVE Above(Overlay(x.data, loose'), k)
      BY <1>8, <3>2, <3>3, GotPut
    <3>4. ASSUME NEW k \in Nat, k <= n, Got(x, k) PROVE Got(x, k)'
      BY <3>3, <3>4 DEF Got
    <3>5. InReading(x) /\ ~x.torn => copyAt < n
      BY <1>2, <1>7, <2>0, <2>4, <3>1 DEF LateInv
    <3>6. x.pc = "loose" /\ x.key = refs_gen' => Above(Overlay(x.data, loose'), Level')
      BY <1>1, <1>14, <3>2, <3>3 DEF Shown
    <3>7. ASSUME InReading(x), ~x.disturbed PROVE x.since <= appliedTo' /\ Good(copyAt)' /\ Got(x, x.since)'
      <4>1. x.since <= appliedTo /\ Good(copyAt) /\ Got(x, x.since)
        BY <3>2, <3>7 DEF Shown
      <4>2. copyAt < n
        BY <3>2, <3>5, <3>7 DEF Held
      <4>3. x.since <= n
        BY <1>3, <3>2, <4>1, <4>2
      <4>4. Got(x, x.since)'
        BY <3>2, <3>4, <4>1, <4>3
      <4> QED
        BY <1>1, <4>1, <4>4 DEF Good
    <3>8. ASSUME PastVersion(x), ~x.torn, x.ver # None, x.ver = copyAt' PROVE Got(x, x.ver)'
      <4>1. x.ver = copyAt /\ Got(x, x.ver)
        BY <1>1, <3>2, <3>8 DEF Shown
      <4>2. x.ver \in Nat /\ x.ver <= n
        BY <1>3, <3>5, <3>8, <4>1, PastReads
      <4> QED
        BY <3>4, <4>1, <4>2
    <3>9. x.pc = "done" /\ ~x.disturbed /\ ~x.torn => Above(x.data, x.since)
      BY <3>2 DEF Shown
    <3>10. Shown(x, w)'
      BY <3>2, <3>6, <3>7, <3>8, <3>9 DEF Shown
    <3> QED
      BY <3>1, <3>10, ShownSame
  <2> QED
    BY <2>1, <2>2, <2>3, <2>4 DEF AdMain
<1>16. (~pub.behind)' => ~pub.behind
  BY <1>6
<1> QED
  BY <1>10, <1>11, <1>13, <1>15, <1>16 DEF AdInv

\* apply_ref_txn, second half: the snapshot of before takes it too, under a new generation.
LEMMA StepPatch ==
    ASSUME AdInv, PatchParsed
    PROVE  AdInv'
<1>0. AdTypes /\ Numbers /\ \A w \in Viewers : Held(view[w], w)
  BY DEF AdInv
<1>1. /\ pub.pc = "patch" /\ refs_gen' = refs_gen + 2
      /\ UNCHANGED <<adHead, acked, packed, loose, copyAt, appliedTo, mutex, view, repair, adverts>>
  BY DEF PatchParsed
<1>2. Publishing
  BY <1>1 DEF Publishing
<1>3. /\ mutex = "pub" /\ repair.pc # "replay" /\ copyAt \in Nat /\ copyAt # None /\ appliedTo = copyAt
      /\ pub.next \in Nat /\ 1 <= pub.next /\ pub.next <= pub.upto /\ pub.upto \in Nat /\ pub.upto <= adHead
      /\ pub.next \in AdSeqs /\ Touches[pub.next] \in AdRefs
      /\ \A w \in Viewers : mutex # w /\ view[w].pc \notin {"load", "loaded"}
  BY <1>2, Pushing
<1>4. PICK r \in AdRefs, n \in Nat : r = Touches[pub.next] /\ n = pub.next
  BY <1>3
<1>5. PICK c : c = [key |-> None, data |-> Absent]
  OBVIOUS
<1>6. c \in Parses /\ c.key = None
  <2>1. None \in Int
    BY DEF None
  <2> QED
    BY <1>5, <2>1, AbsentForm DEF Parses
<1>7. PICK m \in Nat : m = IF n = pub.upto THEN n ELSE n + 1
  OBVIOUS
<1>8. /\ pub' \in PubRecs /\ pub'.pc = (IF n = pub.upto THEN "version" ELSE "write") /\ pub'.next = m
      /\ pub'.upto = pub.upto /\ pub'.before = c /\ pub'.behind = pub.behind
  <2>1. pub \in PubRecs
    BY <1>0 DEF AdTypes
  <2>2. PICK p \in {"version", "write"} : p = IF n = pub.upto THEN "version" ELSE "write"
    OBVIOUS
  <2>3. pub' = [pub EXCEPT !.pc = p, !.next = m, !.before = c]
    BY <1>4, <1>5, <1>7, <2>1, <2>2 DEF PatchParsed, PubRecs
  <2> QED
    BY <1>6, <2>1, <2>2, <2>3 DEF PubRecs
<1>9. refs_gen \in Nat /\ refs_gen' \in Nat /\ refs_gen' >= refs_gen /\ refs_gen' # refs_gen /\ parsed.key < refs_gen'
  BY <1>0, <1>1 DEF AdTypes, Numbers, Parses
<1>10. parsed' \in Parses /\ parsed'.key <= refs_gen'
       /\ (parsed'.key = refs_gen' => pub.before.key # None /\ parsed'.data = [pub.before.data EXCEPT ![r] = n])
  <2>1. CASE pub.before.key = None
    <3>1. parsed' = parsed /\ parsed \in Parses
      BY <1>0, <2>1 DEF PatchParsed, AdTypes
    <3>2. parsed'.key <= refs_gen' /\ parsed'.key # refs_gen'
      BY <1>9, <3>1 DEF Parses
    <3> QED
      BY <3>1, <3>2
  <2>2. CASE pub.before.key # None
    <3>1. pub.before \in Parses
      BY <1>0 DEF AdTypes, PubRecs
    <3>2. PICK d : d = [pub.before.data EXCEPT ![r] = n]
      OBVIOUS
    <3>3. d \in RefFiles
      BY <3>1, <3>2 DEF Parses, RefFiles
    <3>4. PICK g \in Nat : g = refs_gen'
      BY <1>9
    <3>5. parsed' = [key |-> g, data |-> d]
      BY <1>1, <1>4, <2>2, <3>2, <3>4 DEF PatchParsed
    <3>6. g \in Int /\ g <= g
      BY <3>4
    <3> QED
      BY <2>2, <3>2, <3>3, <3>4, <3>5, <3>6 DEF Parses
  <2> QED
    BY <2>1, <2>2
<1>11. AdTypes'
  BY <1>0, <1>1, <1>8, <1>9, <1>10 DEF AdTypes
<1>12. m <= pub.upto /\ 1 <= m /\ n <= m /\ (pub'.pc = "version" => m = pub.upto)
  BY <1>3, <1>4, <1>7, <1>8
<1>13. pub'.pc \in {"version", "write"}
  BY <1>8
<1>14. Numbers'
  BY <1>0, <1>1, <1>2, <1>3, <1>6, <1>8, <1>10, <1>12, <1>13 DEF Numbers, Publishing
<1>15. acked' >= acked /\ adHead' >= adHead
  BY <1>0, <1>1 DEF AdTypes
<1>16. /\ Unseen(adHead + 1)' /\ \A w \in Viewers : Held(view[w], w)'
  BY <1>1, <1>3, <1>9, <1>11, <1>15, Steady
<1>17. Level' = n /\ Level = n - 1 /\ n >= 1
  <2>1. Level = n - 1
    BY <1>1, <1>4 DEF Level
  <2>2. CASE n = pub.upto
    BY <1>3, <1>4, <1>7, <1>8, <2>1, <2>2 DEF Level
  <2>3. CASE n # pub.upto
    BY <1>3, <1>4, <1>7, <1>8, <2>1, <2>3 DEF Level
  <2> QED
    BY <2>2, <2>3
<1>18. ASSUME ~pub.behind PROVE AdMain'
  <2>0. FilesInv /\ LateInv /\ Good(adHead) /\ \A w \in Viewers : Shown(view[w], w)
    BY <1>18 DEF AdInv, AdMain
  <2>1. ASSUME NEW d \in RefFiles, Above(d, n - 1) PROVE Above([d EXCEPT ![r] = n], n)
    BY <1>4, <1>17, <2>1, AboveNext
  <2>2. FilesInv'
    <3>1. PICK o \in RefFiles : o = Overlay(packed, loose)
      BY <1>0, OverlayForm DEF AdTypes
    <3>2. Above(o, n - 1)
      BY <1>17, <2>0, <3>1 DEF FilesInv
    <3>3. loose[r] = n
      BY <1>1, <1>4, <2>0 DEF FilesInv
    <3>4. o[r] = n
      BY <1>0, <1>17, <3>1, <3>3, OverlayForm DEF AdTypes
    <3>5. [o EXCEPT ![r] = n] = o
      BY <3>1, <3>4 DEF RefFiles
    <3>6. Above(o, n)
      BY <2>1, <3>2, <3>5
    <3>7. Above(Overlay(packed, loose), Level)'
      BY <1>1, <1>17, <3>1, <3>6
    <3>8. ASSUME parsed'.key = refs_gen' PROVE Above(parsed'.data, n)
      <4>1. pub.before.key # None /\ parsed'.data = [pub.before.data EXCEPT ![r] = n]
        BY <1>10, <3>8
      <4>2. Above(pub.before.data, n - 1) /\ pub.before.data \in RefFiles
        BY <1>0, <1>17, <2>0, <4>1 DEF FilesInv, AdTypes, PubRecs, Parses
      <4> QED
        BY <2>1, <4>1, <4>2
    <3>9. (parsed.key = refs_gen => Above(parsed.data, Level))'
      BY <1>17, <3>8
    <3> QED
      BY <1>6, <1>8, <1>13, <3>7, <3>9 DEF FilesInv
  <2>3. Good(adHead)'
    BY <1>1, <2>0 DEF Good
  <2>4. LateInv'
    <3>1. ASSUME NEW w \in Viewers, InReading(view[w]), ~view[w].torn PROVE copyAt < m /\ Unseen(pub.upto)
      <4>1. copyAt < n /\ Unseen(pub.upto)
        BY <1>2, <1>4, <2>0, <3>1 DEF LateInv
      <4> QED
        BY <1>3, <1>12, <4>1
    <3>2. (Publishing /\ (\E w \in Viewers : InReading(view[w]) /\ ~view[w].torn) => copyAt < pub.next /\ Unseen(pub.upto))'
      BY <1>1, <1>8, <3>1 DEF InReading, Unseen
    <3>3. mutex' # "repair" /\ pub'.pc # "lock" /\ \A w \in Viewers : mutex' # w
      BY <1>1, <1>3, <1>13
    <3>4. (\A w \in Viewers : PastVersion(view[w]) /\ ~view[w].torn /\ view[w].ver = adHead => copyAt = adHead)'
      BY <1>1, <2>0 DEF LateInv, PastVersion
    <3> QED
      BY <3>2, <3>3, <3>4 DEF LateInv
  <2>5. ASSUME NEW w \in Viewers PROVE Shown(view[w], w)'
    <3>1. PICK x : x = view[w] /\ x = view'[w]
      BY <1>1
    <3>2. Shown(x, w) /\ x.key \in Int /\ x.key <= refs_gen
      BY <1>0, <2>0, <2>5, <3>1 DEF AdTypes, ViewRecs, Held
    <3>3. x.key # refs_gen'
      BY <1>1, <1>9, <3>2
    <3>4. Shown(x, w)'
      BY <1>1, <3>2, <3>3 DEF Shown, Good, Got
    <3> QED
      BY <3>1, <3>4, ShownSame
  <2> QED
    BY <2>2, <2>3, <2>4, <2>5 DEF AdMain
<1>19. (~pub.behind)' => ~pub.behind
  BY <1>8
<1> QED
  BY <1>11, <1>14, <1>16, <1>18, <1>19 DEF AdInv

\* The commit is over: the copy has the version of the batch.
LEMMA StepAnswers ==
    ASSUME AdInv, PubAnswers
    PROVE  AdInv'
<1>0. AdTypes /\ Numbers /\ \A w \in Viewers : Held(view[w], w)
  BY DEF AdInv
<1>1. /\ pub.pc = "version" /\ copyAt' = pub.upto /\ appliedTo' = pub.upto /\ mutex' = "free"
      /\ acked' = (IF acked < pub.upto THEN pub.upto ELSE acked)
      /\ UNCHANGED <<adHead, packed, loose, refs_gen, parsed, view, repair, adverts>>
  BY DEF PubAnswers
<1>2. Publishing
  BY <1>1 DEF Publishing
<1>3. /\ mutex = "pub" /\ repair.pc # "replay" /\ copyAt \in Nat /\ copyAt # None /\ appliedTo = copyAt
      /\ pub.next \in Nat /\ 1 <= pub.next /\ pub.next <= pub.upto /\ pub.upto \in Nat /\ pub.upto <= adHead
      /\ pub.next \in AdSeqs /\ Touches[pub.next] \in AdRefs
      /\ \A w \in Viewers : mutex # w /\ view[w].pc \notin {"load", "loaded"}
  BY <1>2, Pushing
<1>4. pub.next = pub.upto /\ pub.before.key = None
  BY <1>0, <1>1 DEF Numbers
<1>5. /\ pub' \in PubRecs /\ pub'.pc = "idle" /\ pub'.before = pub.before /\ pub'.behind = pub.behind
  BY <1>0 DEF PubAnswers, AdTypes, PubRecs
<1>6. acked' \in Nat /\ acked' >= acked /\ acked' <= adHead /\ adHead' >= adHead /\ refs_gen' >= refs_gen
  <2>1. acked \in Nat /\ acked <= adHead /\ adHead \in Nat /\ refs_gen \in Nat
    BY <1>0 DEF AdTypes, Numbers
  <2> QED
    BY <1>1, <1>3, <2>1
<1>7. AdTypes'
  BY <1>0, <1>1, <1>3, <1>5, <1>6 DEF AdTypes
<1>8. ~Publishing'
  BY <1>5 DEF Publishing
<1>9. Numbers'
  BY <1>0, <1>1, <1>3, <1>4, <1>5, <1>6, <1>8 DEF Numbers
<1>10. \A w \in Viewers : mutex' # w /\ mutex # w
  BY <1>1, <1>3, ViewerNames
<1>11. /\ Unseen(adHead + 1)' /\ \A w \in Viewers : Held(view[w], w)'
  BY <1>1, <1>6, <1>7, <1>10, Steady
<1>12. Level' = Level /\ Level = pub.upto
  BY <1>1, <1>4, <1>5 DEF Level
<1>13. ASSUME ~pub.behind PROVE AdMain'
  <2>0. FilesInv /\ LateInv /\ Good(adHead) /\ \A w \in Viewers : Shown(view[w], w)
    BY <1>13 DEF AdInv, AdMain
  <2>1. FilesInv'
    BY <1>1, <1>4, <1>5, <1>12, <2>0 DEF FilesInv
  <2>2. Good(adHead)'
    BY <1>1, <2>0 DEF Good
  <2>3. \A w \in Viewers : InReading(view[w]) /\ ~view[w].torn => copyAt < pub.upto /\ Unseen(pub.upto)
    BY <1>2, <1>4, <2>0 DEF LateInv
  <2>4. LateInv'
    <3>1. ASSUME NEW w \in Viewers, PastVersion(view[w]), ~view[w].torn PROVE view[w].ver # adHead
      <4>1. copyAt < pub.upto
        BY <2>3, <3>1, PastReads
      <4>2. copyAt # adHead
        BY <1>0, <1>3, <4>1 DEF AdTypes
      <4> QED
        BY <2>0, <3>1, <4>2 DEF LateInv
    <3>2. (\A w \in Viewers : PastVersion(view[w]) /\ ~view[w].torn /\ view[w].ver = adHead => copyAt = adHead)'
      BY <1>1, <3>1 DEF PastVersion
    <3>3. mutex' # "repair" /\ pub'.pc # "lock"
      BY <1>1, <1>5
    <3> QED
      BY <1>8, <1>10, <3>2, <3>3 DEF LateInv
  <2>5. ASSUME NEW w \in Viewers PROVE Shown(view[w], w)'
    <3>1. PICK x : x = view[w] /\ x = view'[w]
      BY <1>1
    <3>2. Shown(x, w) /\ Held(x, w) /\ x.since \in Nat /\ x.ver \in Int /\ x.pc # "loaded"
      BY <1>0, <1>3, <2>0, <2>5, <3>1 DEF AdTypes, ViewRecs
    <3>3. InReading(x) /\ ~x.torn => copyAt < pub.upto /\ Unseen(pub.upto)
      BY <2>3, <2>5, <3>1
    <3>4. ASSUME InReading(x), ~x.disturbed PROVE x.since <= appliedTo' /\ Good(copyAt)' /\ Got(x, x.since)'
      <4>1. x.since <= appliedTo /\ Got(x, x.since)
        BY <3>2, <3>4 DEF Shown
      <4>2. copyAt < pub.upto /\ Unseen(pub.upto)
        BY <3>2, <3>3, <3>4 DEF Held
      <4>3. x.since <= pub.upto
        BY <1>3, <3>2, <4>1, <4>2
      <4>4. pub.upto \in 0 .. AdLast /\ pub.upto >= pub.upto
        BY <1>0, <1>3, LastNat DEF AdTypes
      <4>5. Good(pub.upto)
        BY <1>0, <4>2, <4>4, GoodUnseen
      <4> QED
        BY <1>1, <4>1, <4>3, <4>5 DEF Good, Got
    <3>5. PastVersion(x) /\ ~x.torn => x.ver # copyAt'
      <4>1. PastVersion(x) /\ ~x.torn => x.ver < pub.upto
        BY <2>5, <3>1, <3>3, PastReads DEF Unseen
      <4> QED
        BY <1>1, <1>3, <3>2, <4>1
    <3>6. x.pc = "loose" /\ x.key = refs_gen' => Above(Overlay(x.data, loose'), Level')
      BY <1>1, <1>12, <3>2 DEF Shown
    <3>7. x.pc = "done" /\ ~x.disturbed /\ ~x.torn => Above(x.data, x.since)
      BY <3>2 DEF Shown
    <3>8. Shown(x, w)'
      BY <1>10, <2>5, <3>2, <3>4, <3>5, <3>6, <3>7 DEF Shown
    <3> QED
      BY <3>1, <3>8, ShownSame
  <2> QED
    BY <2>1, <2>2, <2>4, <2>5 DEF AdMain
<1>14. (~pub.behind)' => ~pub.behind
  BY <1>5
<1> QED
  BY <1>7, <1>9, <1>11, <1>13, <1>14 DEF AdInv

\* The commit fails in this copy: the version is forgotten.
LEMMA StepFails ==
    ASSUME AdInv, PubFails
    PROVE  AdInv'
<1>0. AdTypes /\ Numbers /\ \A w \in Viewers : Held(view[w], w)
  BY DEF AdInv
<1>1. /\ pub.pc \in {"write", "version"} /\ copyAt' = None /\ mutex' = "free"
      /\ acked' = (IF acked < pub.upto THEN pub.upto ELSE acked)
      /\ UNCHANGED <<adHead, packed, loose, refs_gen, parsed, appliedTo, view, repair, adverts>>
  BY DEF PubFails
<1>2. Publishing
  BY <1>1 DEF Publishing
<1>3. /\ mutex = "pub" /\ repair.pc # "replay" /\ copyAt \in Nat /\ copyAt # None /\ appliedTo = copyAt
      /\ pub.next \in Nat /\ 1 <= pub.next /\ pub.next <= pub.upto /\ pub.upto \in Nat /\ pub.upto <= adHead
      /\ pub.next \in AdSeqs /\ Touches[pub.next] \in AdRefs
      /\ \A w \in Viewers : mutex # w /\ view[w].pc \notin {"load", "loaded"}
  BY <1>2, Pushing
<1>4. pub.before.key = None
  BY <1>0, <1>1 DEF Numbers
<1>5. /\ pub' \in PubRecs /\ pub'.pc = "idle" /\ pub'.before = pub.before
      /\ (~pub'.behind => ~pub.behind /\ ~(appliedTo >= pub.next))
  <2>1. pub \in PubRecs /\ pub' = [pub EXCEPT !.pc = "idle", !.behind = @ \/ appliedTo >= pub.next]
    BY <1>0 DEF PubFails, AdTypes
  <2>2. PICK t \in BOOLEAN : t <=> (pub.behind \/ appliedTo >= pub.next)
    OBVIOUS
  <2>3. pub.behind \in BOOLEAN
    BY <2>1 DEF PubRecs
  <2>4. t = (pub.behind \/ appliedTo >= pub.next)
    BY <2>2, <2>3
  <2>5. pub' = [pub EXCEPT !.pc = "idle", !.behind = t]
    BY <2>1, <2>4 DEF PubRecs
  <2> QED
    BY <2>1, <2>2, <2>5 DEF PubRecs
<1>6. acked' \in Nat /\ acked' >= acked /\ acked' <= adHead /\ adHead' >= adHead /\ refs_gen' >= refs_gen
  <2>1. acked \in Nat /\ acked <= adHead /\ adHead \in Nat /\ refs_gen \in Nat
    BY <1>0 DEF AdTypes, Numbers
  <2> QED
    BY <1>1, <1>3, <2>1
<1>7. AdTypes'
  BY <1>0, <1>1, <1>3, <1>5, <1>6 DEF AdTypes
<1>8. ~Publishing'
  BY <1>5 DEF Publishing
<1>9. Numbers'
  <2>1. copyAt' <= adHead'
    BY <1>0, <1>1 DEF AdTypes, None
  <2> QED
    BY <1>0, <1>1, <1>3, <1>4, <1>5, <1>6, <1>8, <2>1 DEF Numbers
<1>10. \A w \in Viewers : mutex' # w /\ mutex # w
  BY <1>1, <1>3, ViewerNames
<1>11. /\ Unseen(adHead + 1)' /\ \A w \in Viewers : Held(view[w], w)'
  BY <1>1, <1>6, <1>7, <1>10, Steady
<1>12. ASSUME ~pub'.behind PROVE AdMain'
  <2>0. ~pub.behind /\ FilesInv /\ LateInv /\ Good(adHead) /\ \A w \in Viewers : Shown(view[w], w)
    BY <1>5, <1>12 DEF AdInv, AdMain
  <2>1. Level' = appliedTo /\ Level' <= Level /\ Level \in Nat /\ Level' \in Nat
    <3>1. Level' = appliedTo
      BY <1>1, <1>5 DEF Level
    <3>2. Level = pub.next - 1 \/ Level = pub.next
      BY <1>1 DEF Level
    <3>3. ~(appliedTo >= pub.next) /\ appliedTo \in Nat
      BY <1>3, <1>5, <1>12
    <3> QED
      BY <1>3, <3>1, <3>2, <3>3
  <2>2. ASSUME NEW d \in RefFiles, Above(d, Level) PROVE Above(d, Level')
    BY <2>1, <2>2, AboveLess
  <2>3. FilesInv'
    <3>1. Overlay(packed, loose) \in RefFiles /\ parsed.data \in RefFiles
      BY <1>0, OverlayForm DEF AdTypes, Parses
    <3>2. Above(Overlay(packed, loose), Level') /\ (parsed.key = refs_gen => Above(parsed.data, Level'))
      BY <2>0, <2>2, <3>1 DEF FilesInv
    <3>3. Above(Overlay(packed, loose), Level)' /\ (parsed.key = refs_gen => Above(parsed.data, Level))'
      BY <1>1, <3>2
    <3> QED
      BY <1>4, <1>5, <3>3 DEF FilesInv
  <2>4. Good(adHead)'
    BY <1>1, <2>0 DEF Good
  <2>5. LateInv'
    <3>1. ASSUME NEW w \in Viewers, PastVersion(view[w]), ~view[w].torn PROVE view[w].ver # adHead
      <4>1. copyAt < pub.next
        BY <1>2, <2>0, <3>1, PastReads DEF LateInv
      <4>2. copyAt # adHead
        BY <1>0, <1>3, <4>1 DEF AdTypes
      <4> QED
        BY <2>0, <3>1, <4>2 DEF LateInv
    <3>2. (\A w \in Viewers : PastVersion(view[w]) /\ ~view[w].torn /\ view[w].ver = adHead => copyAt = adHead)'
      BY <1>1, <3>1 DEF PastVersion
    <3>3. mutex' # "repair" /\ pub'.pc # "lock"
      BY <1>1, <1>5
    <3> QED
      BY <1>8, <1>10, <3>2, <3>3 DEF LateInv
  <2>6. ASSUME NEW w \in Viewers PROVE Shown(view[w], w)'
    <3>1. PICK x : x = view[w] /\ x = view'[w]
      BY <1>1
    <3>2. Shown(x, w) /\ x.data \in RefFiles /\ x.pc # "loaded"
      BY <1>0, <1>3, <2>0, <2>6, <3>1 DEF AdTypes, ViewRecs
    <3>3. Good(copyAt)'
      BY <1>0, <1>1 DEF Good, Numbers
    <3>4. InReading(x) /\ ~x.disturbed => x.since <= appliedTo' /\ Got(x, x.since)'
      BY <1>1, <3>2 DEF Shown, Got
    <3>5. x.pc = "loose" /\ x.key = refs_gen' => Above(Overlay(x.data, loose'), Level')
      <4>1. Overlay(x.data, loose) \in RefFiles
        BY <1>0, <3>2, OverlayForm DEF AdTypes
      <4> QED
        BY <1>1, <2>2, <3>2, <4>1 DEF Shown
    <3>6. x.pc = "done" /\ ~x.disturbed /\ ~x.torn => Above(x.data, x.since)
      BY <3>2 DEF Shown
    <3>7. Shown(x, w)'
      BY <1>1, <1>10, <2>6, <3>2, <3>3, <3>4, <3>5, <3>6 DEF Shown
    <3> QED
      BY <3>1, <3>7, ShownSame
  <2> QED
    BY <2>3, <2>4, <2>5, <2>6 DEF AdMain
<1> QED
  BY <1>7, <1>9, <1>11, <1>12 DEF AdInv

-----------------------------------------------------------------------------
(* The theorem. *)

LEMMA AdInvInit ==
    ASSUME AdvertsInit
    PROVE  AdInv
<1>1. /\ adHead = 0 /\ acked = 0 /\ packed = Absent /\ loose = Absent /\ refs_gen = 0
      /\ parsed = [key |-> None, data |-> Absent] /\ copyAt = 0 /\ appliedTo = 0 /\ mutex = "free" /\ repair.pc = "idle"
  BY DEF AdvertsInit
<1>2. Absent \in RefFiles /\ None \in Int /\ None < 0 /\ AdLast \in Nat
  BY AbsentForm, LastNat DEF None
<1>3. parsed \in Parses /\ parsed.key = None
  BY <1>1, <1>2 DEF Parses
<1>4. pub \in PubRecs /\ pub.pc = "idle" /\ pub.before.key = None
  <2>1. PICK c \in Parses : c = [key |-> None, data |-> Absent] /\ c.key = None
    BY <1>1, <1>3
  <2>2. pub = [pc |-> "idle", next |-> 0, upto |-> 0, before |-> c, behind |-> FALSE]
    BY <2>1 DEF AdvertsInit
  <2> QED
    BY <2>1, <2>2 DEF PubRecs
<1>5. PICK z : z = [pc |-> "idle", since |-> 0, upto |-> 0, ver |-> 0, key |-> 0, data |-> Absent, disturbed |-> FALSE,
                    torn |-> FALSE]
  OBVIOUS
<1>6. z \in ViewRecs /\ z.pc = "idle" /\ z.key = 0 /\ z.since = 0 /\ ~InReading(z) /\ ~PastVersion(z)
  BY <1>2, <1>5 DEF ViewRecs, InReading, PastVersion
<1>7. view = [v \in Viewers |-> z]
  BY <1>5 DEF AdvertsInit
<1>8. view \in [Viewers -> ViewRecs] /\ \A v \in Viewers : view[v] = z
  BY <1>6, <1>7
<1>9. NoAdvert \in AdvertRecs /\ ~NoAdvert.there
  BY <1>2 DEF NoAdvert, AdvertRecs
<1>10. adverts = [k \in {None} \cup 0 .. AdLast |-> NoAdvert]
  BY DEF AdvertsInit, AdLast
<1>11. adverts \in [{None} \cup 0 .. AdLast -> AdvertRecs] /\ \A k \in {None} \cup 0 .. AdLast : ~adverts[k].there
  BY <1>9, <1>10
<1>12. AdTypes
  BY <1>1, <1>2, <1>3, <1>4, <1>8, <1>11 DEF AdTypes
<1>13. Numbers
  <2>1. ~adverts[None].there /\ ~Publishing
    BY <1>4, <1>11 DEF Publishing
  <2>2. parsed.key <= refs_gen
    BY <1>1, <1>2, <1>3
  <2> QED
    BY <1>1, <1>2, <1>4, <2>1, <2>2 DEF Numbers
<1>14. Unseen(adHead + 1)
  BY <1>6, <1>8, <1>11 DEF Unseen
<1>15. \A v \in Viewers : mutex # v
  BY <1>1, ViewerNames
<1>16. \A v \in Viewers : Held(view[v], v)
  BY <1>1, <1>6, <1>8, <1>15 DEF Held
<1>17. FilesInv
  <2>1. Level = 0
    BY <1>1, <1>4 DEF Level
  <2>2. Above(Overlay(packed, loose), 0)
    BY <1>1, AbsentForm
  <2>3. parsed.key # refs_gen
    BY <1>1, <1>2, <1>3
  <2> QED
    BY <1>4, <2>1, <2>2, <2>3 DEF FilesInv
<1>18. LateInv
  BY <1>1, <1>4, <1>6, <1>8, <1>15 DEF LateInv, Publishing
<1>19. Good(adHead)
  <2>1. adHead \in {None} \cup 0 .. AdLast
    BY <1>1, <1>2
  <2> QED
    BY <1>11, <2>1 DEF Good
<1>20. \A v \in Viewers : Shown(view[v], v)
  BY <1>6, <1>8, <1>15 DEF Shown
<1> QED
  BY <1>12, <1>13, <1>14, <1>16, <1>17, <1>18, <1>19, <1>20 DEF AdInv, AdMain

LEMMA AdInvNext ==
    ASSUME AdInv, [AdvertsNext]_advertVars
    PROVE  AdInv'
<1>1. ASSUME NEW v \in Viewers, AskRefs(v) PROVE AdInv'
  BY <1>1, StepAskRefs
<1>2. ASSUME NEW v \in Viewers, FreshnessCheck(v) PROVE AdInv'
  BY <1>2, StepFresh, StepLoad
<1>3. ASSUME NEW v \in Viewers, ReplayPacked(v) \/ ReplayLoose(v) PROVE AdInv'
  BY <1>3, StepReplayPacked, StepReplayLoose
<1>4. ASSUME NEW v \in Viewers, ReadVersion(v) PROVE AdInv'
  BY <1>4, StepGiven, StepVersion
<1>5. ASSUME NEW v \in Viewers, ReadKey(v) PROVE AdInv'
  BY <1>5, StepParsed, StepStale
<1>6. ASSUME NEW v \in Viewers, ReadPacked(v) \/ ReadLoose(v) PROVE AdInv'
  BY <1>6, StepPacked, StepLoose
<1>7. ASSUME NEW v \in Viewers, KeepAdvert(v) PROVE AdInv'
  BY <1>7, StepKeep
<1>8. CASE CommitElsewhere
  BY <1>8, StepElsewhere
<1>9. ASSUME NEW n \in 1 .. 2, CommitHere(n) PROVE AdInv'
  BY <1>9, StepHere
<1>10. CASE PubTakesMutex
  BY <1>10, StepLate, StepInTime
<1>11. CASE UpdateRef \/ PatchParsed
  BY <1>11, StepUpdate, StepPatch
<1>12. CASE PubAnswers \/ PubFails
  BY <1>12, StepAnswers, StepFails
<1>13. CASE RepairReset \/ RepairReplay
  BY <1>13, StepRepairReset, StepRepairReplay
<1>14. CASE UNCHANGED advertVars
  <2>1. UNCHANGED <<adHead, acked, packed, loose, refs_gen, parsed, copyAt, appliedTo, mutex, view, pub, repair, adverts>>
    BY <1>14 DEF advertVars
  <2>2. AdTypes /\ Numbers /\ Unseen(adHead + 1) /\ \A w \in Viewers : Held(view[w], w)
    BY DEF AdInv
  <2>3. AdTypes' /\ Numbers' /\ Unseen(adHead + 1)'
    BY <2>1, <2>2 DEF AdTypes, Numbers, Publishing, Unseen
  <2>4. (\A w \in Viewers : Held(view[w], w))'
    BY <2>1, <2>2 DEF Held, InReading
  <2>5. ASSUME ~pub.behind PROVE AdMain'
    <3>0. FilesInv /\ LateInv /\ Good(adHead) /\ \A w \in Viewers : Shown(view[w], w)
      BY <2>5 DEF AdInv, AdMain
    <3>1. FilesInv' /\ Good(adHead)'
      BY <2>1, <3>0 DEF FilesInv, Level, Good
    <3>2. LateInv'
      BY <2>1, <3>0 DEF LateInv, Publishing, Unseen, InReading, PastVersion
    <3>3. ASSUME NEW w \in Viewers PROVE Shown(view[w], w)'
      <4>1. PICK x : x = view[w] /\ x = view'[w]
        BY <2>1
      <4>2. Shown(x, w)
        BY <3>0, <3>3, <4>1
      <4>3. Shown(x, w)'
        BY <2>1, <4>2 DEF Shown, Good, Got, Level
      <4> QED
        BY <4>1, <4>3, ShownSame
    <3> QED
      BY <3>1, <3>2, <3>3 DEF AdMain
  <2> QED
    BY <2>1, <2>3, <2>4, <2>5 DEF AdInv
<1> QED
  BY <1>1, <1>2, <1>3, <1>4, <1>5, <1>6, <1>7, <1>8, <1>9, <1>10, <1>11, <1>12, <1>13, <1>14 DEF AdvertsNext

\* A client is shown every push answered before it asked (smart.rs:103-124, cache.rs, git lib.rs:1176-1215), for every
\* number of refs, entries, clients and repairs, under the exceptions AdvertsFresh names.
THEOREM AdvertsFreshAlways == AdvertsSpec => []AdvertsFresh
<1>1. AdvertsInit => AdInv
  BY AdInvInit
<1>2. AdInv /\ [AdvertsNext]_advertVars => AdInv'
  BY AdInvNext
<1>3. AdInv => AdvertsFresh
  <2> SUFFICES ASSUME AdInv, ~pub.behind, NEW v \in Viewers, view[v].pc = "done", ~view[v].disturbed, ~view[v].torn
               PROVE  Fresh(v)
    BY DEF AdvertsFresh
  <2>1. Shown(view[v], v)
    BY DEF AdInv, AdMain
  <2> QED
    BY <2>1 DEF Shown, Above, Fresh
<1> QED
  BY <1>1, <1>2, <1>3, PTL DEF AdvertsSpec
=============================================================================
