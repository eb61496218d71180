-------------------------- MODULE RepositoryProofs --------------------------
(***************************************************************************)
(* The life of a repository: created, imported into, deleted.              *)
(*                                                                         *)
(* RegistryLife, for any instances, generations and slots, as long as a    *)
(* name is not created again in the middle of its deletion: the inductive  *)
(* invariant RegInv says that the manifest is of the newest generation and *)
(* lists its own segments (NameInv), that every handle in use holds a      *)
(* manifest of this line or of an earlier generation (HostInv), when the   *)
(* copy is exact (FreshInv, SyncedInv) and whose a claimed slot is         *)
(* (SlotInv).                                                              *)
(*                                                                         *)
(* Import, for any packs, pushes and interruptions, as long as servers     *)
(* leave an unfinished import alone: the inductive invariant ImInv says    *)
(* that the manifest can be served (WalInv), what a marker left by an      *)
(* interrupted run can be trusted for (MarkInv), which source and which    *)
(* manifest a run works from (WorkInv), and how far it is (UpInv).         *)
(*                                                                         *)
(* Fetch, for any history, trees and requests: the inductive invariant     *)
(* FtInv says what the commits that the walk has yielded left in the set   *)
(* and where the trees in it came from (WalkInv), and that what was sent   *)
(* is all the client lacked (SentInv).                                     *)
(***************************************************************************)
EXTENDS RegistryLife, Import, Fetch, WellFoundedInduction, NaturalsInduction, TLAPS

(***************************************************************************)
(* RegistryLife: the inductive invariant.                                  *)
(***************************************************************************)

HasHandle == {"have", "synced", "slotted"}
RegMans == [gen : Nat, rev : Nat, head : Nat, segs : SUBSET Nat]
Handles == [man : RegMans, born : Nat, verified : BOOLEAN]
Dirs == [there : BOOLEAN, refs : SUBSET (Nat \X Nat), applied : Nat, rev : Nat]
Reqs == [pc : {"idle", "opening", "created"} \cup HasHandle, hd : 1 .. 2, saw : RegMans, slot : Nat]
Dels == [pc : {"idle", "manifest", "objects"}, at : Nat]

RegTypes ==
    /\ man \in RegMans /\ gens \in Nat
    /\ DOMAIN objs \subseteq Nat /\ \A s \in DOMAIN objs : objs[s] \in [gen : Nat, by : RegHosts]
    /\ cur \in [RegHosts -> 0 .. 2] /\ hnd \in [RegHosts -> [1 .. 2 -> Handles]]
    /\ copy \in [RegHosts -> Dirs] /\ req \in [RegHosts -> Reqs] /\ del \in [RegHosts -> Dels]

\* The handles that are in use: the registry's, and the one of the request.
Active(h) == {i \in 1 .. 2 : cur[h] = i \/ (req[h].pc \in HasHandle /\ req[h].hd = i)}

\* m is a manifest of the repository that is there, or of an earlier one.
OnLine(m) ==
    /\ m.gen <= gens
    /\ m.gen = man.gen => /\ m.rev <= man.rev /\ m.head <= man.head /\ (m.rev = man.rev => m = man)
                          /\ m.segs = {s \in man.segs : s <= m.head}

\* The bucket: the manifest is that of the newest generation, lists what is there and its own,
\* and is gone before a delete goes on to the objects.
NameInv ==
    /\ man.gen \in {0, gens} /\ (man.gen = 0 => man = NoMan)
    /\ \A s \in man.segs : s <= man.head
    /\ \A h \in RegHosts : del[h].pc = "objects" => man.gen = 0
    /\ SegmentsOwn

\* What the instances hold of it.
HostInv(h) ==
    /\ req[h].pc \in HasHandle => cur[h] \in {0, req[h].hd}
    /\ req[h].pc \in {"opening", "created"} => cur[h] = 0
    /\ req[h].pc \in {"opening", "created"} => req[h].saw.gen # 0 /\ OnLine(req[h].saw)
    /\ \A i \in Active(h) : /\ hnd[h][i].born # 0 /\ hnd[h][i].born <= hnd[h][i].man.gen
                            /\ OnLine(hnd[h][i].man)
    /\ req[h].pc \in {"synced", "slotted"} => hnd[h][req[h].hd].verified

\* A verified handle of the repository that is there, opened as such, has a copy that is exact.
CopyOf(m, c) == c.refs = Exact(m) /\ c.applied = m.head /\ c.rev = m.rev
FreshInv(h) ==
    \A i \in Active(h) :
        copy[h].there /\ hnd[h][i].verified /\ hnd[h][i].born = man.gen => CopyOf(hnd[h][i].man, copy[h])

\* A slot that was claimed for the manifest that is still there is the claimer's; one that is the
\* claimer's is not listed.
SlotInv(h) ==
    req[h].pc = "slotted" =>
        /\ req[h].slot \in DOMAIN objs /\ objs[req[h].slot].by = h => req[h].slot \notin man.segs
        /\ hnd[h][req[h].hd].man = man =>
              /\ req[h].slot \in DOMAIN objs /\ req[h].slot > man.head
              /\ objs[req[h].slot].gen = man.gen /\ objs[req[h].slot].by = h

\* What the request that has synced is given.
SyncedInv(h) ==
    req[h].pc = "synced" /\ copy[h].there /\ hnd[h][req[h].hd].born = req[h].saw.gen
        => copy[h].refs = Exact(req[h].saw)

RegInv ==
    /\ RegTypes /\ NameInv
    /\ \A h \in RegHosts : HostInv(h) /\ FreshInv(h) /\ SlotInv(h) /\ SyncedInv(h)

\* An instance that rests while the bucket, or another instance, moves on.
LEMMA HostKeeps ==
    ASSUME RegInv, NEW g \in RegHosts, cur'[g] = cur[g], hnd'[g] = hnd[g], copy'[g] = copy[g], req'[g] = req[g],
           \A m \in RegMans : m.gen # 0 /\ OnLine(m) => OnLine(m)',
           man'.gen = man.gen \/ man'.gen = 0 \/ man'.gen > gens
    PROVE  HostInv(g)' /\ FreshInv(g)' /\ SyncedInv(g)'
<1>0. HostInv(g) /\ FreshInv(g) /\ SyncedInv(g) /\ RegTypes
  BY DEF RegInv
<1>1. Active(g)' = Active(g)
  BY DEF Active
<1>2. /\ \A i \in 1 .. 2 : hnd[g][i] \in Handles /\ hnd[g][i].man \in RegMans /\ hnd[g][i].man.gen \in Nat /\ hnd[g][i].born \in Nat
      /\ req[g].saw \in RegMans /\ gens \in Nat
  BY <1>0 DEF RegTypes, Handles, Reqs, RegMans
<1>3. HostInv(g)'
  <2>1. \A i \in Active(g) : hnd[g][i].man.gen # 0
    BY <1>0, <1>2 DEF HostInv, Active
  <2>2. \A i \in Active(g) : OnLine(hnd[g][i].man)'
    BY <1>0, <1>2, <2>1 DEF HostInv, Active
  <2>3. req[g].pc \in {"opening", "created"} => OnLine(req[g].saw)'
    BY <1>0, <1>2 DEF HostInv
  <2> QED
    <3>1. /\ req[g].pc \in HasHandle => cur[g] \in {0, req[g].hd}
          /\ req[g].pc \in {"opening", "created"} => cur[g] = 0 /\ req[g].saw.gen # 0
          /\ \A i \in Active(g) : hnd[g][i].born # 0 /\ hnd[g][i].born <= hnd[g][i].man.gen
          /\ req[g].pc \in {"synced", "slotted"} => hnd[g][req[g].hd].verified
      BY <1>0 DEF HostInv
    <3> QED
      BY <1>1, <2>2, <2>3, <3>1 DEF HostInv, OnLine
<1>4. FreshInv(g)'
  <2>1. \A i \in Active(g) : hnd[g][i].born = man'.gen => hnd[g][i].born = man.gen
    BY <1>0, <1>2 DEF HostInv, Active, OnLine
  <2> QED
    BY <1>0, <1>1, <2>1 DEF FreshInv
<1>5. SyncedInv(g)'
  BY <1>0 DEF SyncedInv
<1> QED
  BY <1>3, <1>4, <1>5

\* A step on h that leaves the bucket alone.
LEMMA LocalTurn ==
    ASSUME RegInv, NEW h \in RegHosts, RegTypes', UNCHANGED <<man, objs, gens>>,
           \A g \in RegHosts : g # h => cur'[g] = cur[g] /\ hnd'[g] = hnd[g] /\ copy'[g] = copy[g] /\ req'[g] = req[g],
           \A g \in RegHosts : del'[g].pc = "objects" => del[g].pc = "objects",
           HostInv(h)', FreshInv(h)', SlotInv(h)', SyncedInv(h)'
    PROVE  RegInv'
<1>1. NameInv'
  BY DEF RegInv, NameInv, SegmentsOwn
<1>2. ASSUME NEW g \in RegHosts, g # h PROVE HostInv(g)' /\ FreshInv(g)' /\ SlotInv(g)' /\ SyncedInv(g)'
  <2>1. cur'[g] = cur[g] /\ hnd'[g] = hnd[g] /\ copy'[g] = copy[g] /\ req'[g] = req[g]
    BY <1>2
  <2>2. \A m \in RegMans : m.gen # 0 /\ OnLine(m) => OnLine(m)'
    BY DEF OnLine
  <2>3. HostInv(g)' /\ FreshInv(g)' /\ SyncedInv(g)'
    BY <2>1, <2>2, HostKeeps
  <2>4. SlotInv(g)'
    BY <2>1 DEF RegInv, SlotInv
  <2> QED
    BY <2>3, <2>4
<1> QED
  BY <1>1, <1>2 DEF RegInv

\* The request of h goes on to q, which has no handle or the registry's.
LEMMA RequestTurn ==
    ASSUME RegInv, NEW h \in RegHosts, NEW q \in Reqs, req' = [req EXCEPT ![h] = q],
           \/ q.pc = "idle"
           \/ q.pc = "have" /\ q.hd = cur[h]
           \/ q.pc = "opening" /\ q.saw = man /\ man.gen # 0 /\ cur[h] = 0,
           UNCHANGED <<man, objs, gens, cur, hnd, copy, del>>
    PROVE  RegInv'
<1>0. /\ RegTypes /\ NameInv /\ HostInv(h) /\ FreshInv(h) /\ req[h] \in Reqs /\ man \in RegMans /\ cur[h] \in 0 .. 2
      /\ gens \in Nat /\ man.gen \in Nat /\ man.head \in Nat /\ man.rev \in Nat
  BY DEF RegInv, RegTypes, RegMans
<1>1. UNCHANGED <<man, objs, gens, cur, hnd, copy, del>>
  OBVIOUS
<1>2. \/ q.pc = "idle"
      \/ q.pc = "have" /\ q.hd = cur[h]
      \/ q.pc = "opening" /\ q.saw = man /\ man.gen # 0 /\ cur[h] = 0
  OBVIOUS
<1>3. req' \in [RegHosts -> Reqs] /\ req'[h] = q /\ \A g \in RegHosts : g # h => req'[g] = req[g]
  BY <1>0, <1>2 DEF RegTypes
<1>4. RegTypes'
  BY <1>0, <1>1, <1>3 DEF RegTypes
<1>5. Active(h)' \subseteq Active(h) /\ Active(h)' \subseteq {cur[h]}
  <2>1. q.pc \in HasHandle => q.hd = cur[h]
    BY <1>2 DEF HasHandle
  <2>2. \A i \in 1 .. 2 : cur'[h] = i \/ (req'[h].pc \in HasHandle /\ req'[h].hd = i) => cur[h] = i
    BY <1>1, <1>3, <2>1
  <2> QED
    BY <2>2 DEF Active
<1>6. HostInv(h)'
  <2>1. OnLine(man)
    BY <1>0 DEF OnLine, NameInv
  <2>2. \A i \in Active(h)' : /\ hnd[h][i].born # 0 /\ hnd[h][i].born <= hnd[h][i].man.gen
                              /\ OnLine(hnd[h][i].man)
    BY <1>0, <1>5 DEF HostInv
  <2>4. \A m : OnLine(m)' <=> OnLine(m)
    BY <1>1 DEF OnLine
  <2>3. /\ req'[h].pc \in HasHandle => cur'[h] \in {0, req'[h].hd}
        /\ req'[h].pc \in {"opening", "created"} => cur'[h] = 0
        /\ req'[h].pc \in {"opening", "created"} => req'[h].saw.gen # 0 /\ OnLine(q.saw) /\ q = req'[h]
        /\ req'[h].pc \notin {"synced", "slotted"}
    BY <1>1, <1>2, <1>3, <2>1 DEF HasHandle
  <2> QED
    BY <1>1, <2>2, <2>3, <2>4 DEF HostInv
<1>7. FreshInv(h)'
  BY <1>0, <1>1, <1>5 DEF FreshInv
<1>8. SlotInv(h)' /\ SyncedInv(h)'
  BY <1>2, <1>3 DEF SlotInv, SyncedInv
<1> QED
  BY <1>1, <1>3, <1>4, <1>6, <1>7, <1>8, LocalTurn

\* open, up to the manifest, and the end of a request.
LEMMA OpenStep ==
    ASSUME RegInv, NEW h \in RegHosts, ReqOpen(h) \/ ReqEnd(h)
    PROVE  RegInv'
<1>0. man \in RegMans /\ cur[h] \in 0 .. 2
  BY DEF RegInv, RegTypes
<1>1. UNCHANGED <<man, objs, gens, cur, hnd, copy, del>>
  BY DEF ReqOpen, ReqEnd
<1>2. PICK q \in Reqs : /\ req' = [req EXCEPT ![h] = q]
                        /\ \/ q.pc = "idle"
                           \/ q.pc = "have" /\ q.hd = cur[h]
                           \/ q.pc = "opening" /\ q.saw = man /\ man.gen # 0 /\ cur[h] = 0
  <2>1. NoMan \in RegMans /\ 1 \in 1 .. 2 /\ 0 \in Nat
    BY DEF NoMan, RegMans
  <2>2. CASE ReqEnd(h)
    <3>1. IdleRequest \in Reqs /\ IdleRequest.pc = "idle"
      BY <2>1 DEF IdleRequest, Reqs
    <3> QED
      BY <2>2, <3>1 DEF ReqEnd
  <2>3. CASE ReqOpen(h) /\ cur[h] # 0
    <3> DEFINE q == [IdleRequest EXCEPT !.pc = "have", !.hd = cur[h]]
    <3>0. cur[h] \in 1 .. 2
      BY <1>0, <2>3
    <3>1. q \in Reqs /\ q.pc = "have" /\ q.hd = cur[h]
      BY <2>1, <3>0 DEF IdleRequest, Reqs, HasHandle
    <3> QED
      BY <2>3, <3>1 DEF ReqOpen
  <2>4. CASE ReqOpen(h) /\ cur[h] = 0
    <3> DEFINE q == [IdleRequest EXCEPT !.pc = "opening", !.saw = man]
    <3>1. q \in Reqs /\ q.pc = "opening" /\ q.saw = man
      BY <1>0, <2>1 DEF IdleRequest, Reqs
    <3> QED
      BY <2>4, <3>1 DEF ReqOpen
  <2> QED
    BY <2>2, <2>3, <2>4
<1> QED
  BY <1>1, <1>2, RequestTurn

\* The copy goes, or the handle leaves the registry.
LEMMA ForgetStep ==
    ASSUME RegInv, NEW h \in RegHosts, DelBegin(h) \/ DelDir(h) \/ EvictIdle(h) \/ RegRestart(h)
    PROVE  RegInv'
<1>0. RegTypes /\ HostInv(h) /\ FreshInv(h) /\ SlotInv(h) /\ SyncedInv(h)
  BY DEF RegInv
<1>1. UNCHANGED <<man, objs, gens, hnd, req>>
  BY DEF DelBegin, DelDir, EvictIdle, RegRestart
<1>2. cur' = cur \/ cur' = [cur EXCEPT ![h] = 0]
  BY DEF DelBegin, DelDir, EvictIdle, RegRestart
<1>3. copy' = copy \/ copy' = [copy EXCEPT ![h] = NoDir]
  BY DEF DelBegin, DelDir, EvictIdle, RegRestart
<1>4. /\ del' \in [RegHosts -> Dels] /\ \A g \in RegHosts : del'[g].pc = "objects" => del[g].pc = "objects"
  <2>1. del' = del \/ del' = [del EXCEPT ![h] = [del[h] EXCEPT !.pc = "manifest"]] \/ del' = [del EXCEPT ![h] = IdleDel]
    BY <1>0 DEF DelBegin, DelDir, EvictIdle, RegRestart, RegTypes
  <2>2. IdleDel \in Dels /\ IdleDel.pc = "idle"
    BY DEF IdleDel, Dels
  <2>3. [del[h] EXCEPT !.pc = "manifest"] \in Dels /\ [del[h] EXCEPT !.pc = "manifest"].pc = "manifest"
    BY <1>0 DEF RegTypes, Dels
  <2> QED
    <3>1. CASE del' = del
      BY <1>0, <3>1 DEF RegTypes
    <3>2. ASSUME NEW d \in Dels, d.pc # "objects", del' = [del EXCEPT ![h] = d]
          PROVE  del' \in [RegHosts -> Dels] /\ \A g \in RegHosts : del'[g].pc = "objects" => del[g].pc = "objects"
      BY <1>0, <3>2 DEF RegTypes
    <3> QED
      BY <2>1, <2>2, <2>3, <3>1, <3>2
<1>5. cur' \in [RegHosts -> 0 .. 2] /\ cur'[h] \in {cur[h], 0} /\ \A g \in RegHosts : g # h => cur'[g] = cur[g]
  BY <1>0, <1>2 DEF RegTypes
<1>6. /\ copy' \in [RegHosts -> Dirs] /\ (copy'[h] = copy[h] \/ ~copy'[h].there)
      /\ \A g \in RegHosts : g # h => copy'[g] = copy[g]
  <2>1. NoDir \in Dirs /\ ~NoDir.there
    BY DEF NoDir, Dirs
  <2> QED
    BY <1>0, <1>3, <2>1 DEF RegTypes
<1>7. RegTypes'
  BY <1>0, <1>1, <1>4, <1>5, <1>6 DEF RegTypes
<1>8. Active(h)' \subseteq Active(h)
  BY <1>1, <1>5 DEF Active
<1>9. HostInv(h)'
  <2>1. \A m : OnLine(m)' <=> OnLine(m)
    BY <1>1 DEF OnLine
  <2> QED
    BY <1>0, <1>1, <1>5, <1>8, <2>1 DEF HostInv
<1>10. FreshInv(h)'
  BY <1>0, <1>1, <1>6, <1>8 DEF FreshInv
<1>11. SlotInv(h)' /\ SyncedInv(h)'
  BY <1>0, <1>1, <1>6 DEF SlotInv, SyncedInv
<1> QED
  BY <1>1, <1>4, <1>5, <1>6, <1>7, <1>9, <1>10, <1>11, LocalTurn

\* What apply_delta makes of a copy, when the log of m can be read.
LEMMA ApplyType ==
    ASSUME RegTypes, NEW c \in Dirs, NEW m \in RegMans, Readable(m), NEW r \in BOOLEAN
    PROVE  /\ ApplyDelta(c, m, r) \in Dirs /\ ApplyDelta(c, m, r).there
           /\ ApplyDelta(c, m, r).applied = m.head /\ ApplyDelta(c, m, r).rev = m.rev
           /\ r => ApplyDelta(c, m, r).refs = Folded(m)
<1>1. Folded(m) \in SUBSET (Nat \X Nat)
  BY DEF RegTypes, RegMans, Readable, Folded
<1>2. c.refs \cup {x \in Folded(m) : x[2] > c.applied} \in SUBSET (Nat \X Nat)
  BY <1>1 DEF Dirs
<1> QED
  BY <1>1, <1>2 DEF ApplyDelta, Dirs, RegMans

\* The log of a manifest of the repository that is there is read as it was written.
LEMMA FoldedExact ==
    ASSUME RegInv, NEW m \in RegMans, OnLine(m), m.gen = man.gen
    PROVE  Readable(m) /\ Folded(m) = Exact(m)
<1>1. \A s \in m.segs : s \in DOMAIN objs /\ objs[s].gen = m.gen
  BY DEF RegInv, NameInv, SegmentsOwn, OnLine
<1> QED
  BY <1>1 DEF Readable, Folded, Exact

\* From an exact copy of an earlier manifest to an exact copy of a later one.
LEMMA ApplyMore ==
    ASSUME NEW c \in Dirs, NEW m0 \in RegMans, NEW m \in RegMans, CopyOf(m0, c), Folded(m) = Exact(m),
           m0.gen = m.gen, m0.rev <= m.rev, m0.head <= m.head, m0.segs = {s \in m.segs : s <= m0.head}
    PROVE  ApplyDelta(c, m, FALSE).refs = Exact(m)
<1>1. ~(c.applied > m.head \/ m.rev < c.rev)
  BY DEF CopyOf, RegMans
<1>2. ApplyDelta(c, m, FALSE).refs = c.refs \cup {x \in Exact(m) : x[2] > m0.head}
  BY <1>1 DEF ApplyDelta, CopyOf
<1>3. \A x : x \in Exact(m) <=> \E s \in m.segs : x = <<m.gen, s>>
  BY DEF Exact
<1>4. \A x : x \in Exact(m0) <=> \E s \in m.segs : s <= m0.head /\ x = <<m.gen, s>>
  BY DEF Exact
<1>5. \A s \in m.segs : s \in Nat /\ m0.head \in Nat
  BY DEF RegMans
<1>6. \A s \in m.segs : <<m.gen, s>>[2] = s
  OBVIOUS
<1>7. \A x : x \in c.refs \cup {y \in Exact(m) : y[2] > m0.head} <=> x \in Exact(m)
  <2>1. ASSUME NEW x, x \in Exact(m) PROVE x \in Exact(m0) \/ x[2] > m0.head
    <3>1. PICK s \in m.segs : x = <<m.gen, s>>
      BY <1>3, <2>1
    <3>2. s <= m0.head \/ s > m0.head
      BY <1>5
    <3> QED
      BY <1>4, <1>6, <3>1, <3>2
  <2>2. Exact(m0) \subseteq Exact(m)
    BY <1>3, <1>4
  <2> QED
    BY <2>1, <2>2 DEF CopyOf
<1> QED
  BY <1>2, <1>7

LEMMA StartPoints ==
    /\ NoMan \in RegMans /\ NoMan.gen = 0 /\ NoMan.segs = {}
    /\ IdleRequest \in Reqs /\ IdleRequest.pc = "idle"
    /\ NoDir \in Dirs /\ ~NoDir.there /\ NewDir \in Dirs
    /\ IdleDel \in Dels /\ IdleDel.pc = "idle"
    /\ "idle" \notin HasHandle
<1>1. 0 \in Nat /\ 1 \in 1 .. 2
  OBVIOUS
<1>2. NoMan \in RegMans /\ NoMan.gen = 0 /\ NoMan.segs = {}
  BY <1>1 DEF NoMan, RegMans
<1>3. IdleRequest \in Reqs /\ IdleRequest.pc = "idle"
  BY <1>1, <1>2 DEF IdleRequest, Reqs
<1>4. NoDir \in Dirs /\ ~NoDir.there /\ NewDir \in Dirs
  BY <1>1 DEF NoDir, NewDir, Dirs
<1> QED
  BY <1>1, <1>2, <1>3, <1>4 DEF IdleDel, Dels, HasHandle

\* A request that has no handle gets the new one of m.
LEMMA HandleTurn ==
    ASSUME RegInv, NEW h \in RegHosts, NEW i \in 1 .. 2, NEW m \in RegMans, NEW ok \in BOOLEAN, NEW d \in Dirs,
           req[h].pc \in {"opening", "created"}, m = req[h].saw,
           ok /\ m.gen = man.gen => CopyOf(m, d),
           UNCHANGED <<man, objs, gens, del>>,
           copy' = [copy EXCEPT ![h] = d], hnd' = [hnd EXCEPT ![h][i] = NewHandle(m, ok)],
           cur' = [cur EXCEPT ![h] = i], req' = [req EXCEPT ![h] = [IdleRequest EXCEPT !.pc = "have", !.hd = i]]
    PROVE  RegInv'
<1> DEFINE q == [IdleRequest EXCEPT !.pc = "have", !.hd = i]
           x == NewHandle(m, ok)
<1>0. RegTypes /\ HostInv(h) /\ m.gen \in Nat
  BY DEF RegInv, RegMans
<1>1. q \in Reqs /\ q.pc = "have" /\ q.hd = i
  <2>1. NoMan \in RegMans /\ 0 \in Nat
    BY StartPoints
  <2> QED
    BY <2>1 DEF IdleRequest, Reqs, HasHandle
<1>2. x \in Handles /\ x.man = m /\ x.born = m.gen /\ x.verified = ok
  BY <1>0 DEF NewHandle, Handles
<1>3. req' = [req EXCEPT ![h] = q] /\ hnd' = [hnd EXCEPT ![h] = [hnd[h] EXCEPT ![i] = x]]
  BY <1>0 DEF RegTypes
<1> HIDE DEF q, x
<1>4. /\ cur' \in [RegHosts -> 0 .. 2] /\ copy' \in [RegHosts -> Dirs] /\ req' \in [RegHosts -> Reqs]
      /\ cur'[h] = i /\ copy'[h] = d /\ req'[h] = q
      /\ \A g \in RegHosts : g # h => cur'[g] = cur[g] /\ copy'[g] = copy[g] /\ req'[g] = req[g]
  BY <1>0, <1>1, <1>3 DEF RegTypes
<1>5. /\ hnd' \in [RegHosts -> [1 .. 2 -> Handles]] /\ hnd'[h][i] = x
      /\ \A g \in RegHosts : g # h => hnd'[g] = hnd[g]
  BY <1>0, <1>2, <1>3 DEF RegTypes
<1>6. RegTypes'
  BY <1>0, <1>4, <1>5 DEF RegTypes
<1>7. Active(h)' = {i}
  <2>1. \A j \in 1 .. 2 : cur'[h] = j \/ (req'[h].pc \in HasHandle /\ req'[h].hd = j) <=> j = i
    BY <1>1, <1>4
  <2> QED
    BY <2>1 DEF Active
<1>8. HostInv(h)'
  <2>1. OnLine(m)'
    <3>1. OnLine(m) /\ m.gen # 0
      BY <1>0 DEF HostInv
    <3> QED
      BY <3>1 DEF OnLine
  <2>2. m.gen # 0 /\ m.gen <= m.gen
    BY <1>0 DEF HostInv
  <2>3. \A j \in Active(h)' : hnd'[h][j] = x
    BY <1>5, <1>7
  <2>4. \A j \in Active(h)' : hnd'[h][j].born # 0 /\ hnd'[h][j].born <= hnd'[h][j].man.gen /\ hnd'[h][j].man = m
    BY <1>2, <2>2, <2>3
  <2>5. req'[h].pc = "have" /\ cur'[h] \in {0, req'[h].hd}
    BY <1>1, <1>4
  <2> QED
    BY <2>1, <2>4, <2>5 DEF HostInv, OnLine
<1>9. FreshInv(h)'
  BY <1>2, <1>4, <1>5, <1>7 DEF FreshInv
<1>10. SlotInv(h)' /\ SyncedInv(h)'
  BY <1>1, <1>4 DEF SlotInv, SyncedInv
<1>11. \A g \in RegHosts : g # h => cur'[g] = cur[g] /\ hnd'[g] = hnd[g] /\ copy'[g] = copy[g] /\ req'[g] = req[g]
  BY <1>4, <1>5
<1> QED
  BY <1>6, <1>8, <1>9, <1>10, <1>11, LocalTurn

\* open and create: the handle is installed.
LEMMA InstallStep ==
    ASSUME RegInv, NEW h \in RegHosts, CreateInstall(h) \/ OpenInstall(h)
    PROVE  RegInv'
<1>0. /\ RegTypes /\ HostInv(h) /\ req[h].saw \in RegMans /\ copy[h] \in Dirs /\ Unused(h) \in 1 .. 2
  BY DEF RegInv, RegTypes, Reqs, Unused
<1>1. CASE CreateInstall(h)
  <2>1. /\ req[h].pc = "created" /\ UNCHANGED <<man, objs, gens, del>>
        /\ copy' = [copy EXCEPT ![h] = NewDir]
        /\ hnd' = [hnd EXCEPT ![h][Unused(h)] = NewHandle(req[h].saw, FALSE)]
        /\ cur' = [cur EXCEPT ![h] = Unused(h)]
        /\ req' = [req EXCEPT ![h] = [IdleRequest EXCEPT !.pc = "have", !.hd = Unused(h)]]
    BY <1>1 DEF CreateInstall
  <2> QED
    BY <1>0, <2>1, StartPoints, HandleTurn
<1>2. CASE OpenInstall(h)
  <2> DEFINE m == req[h].saw
             c == IF copy[h].there THEN copy[h] ELSE NewDir
             needs_apply == c.applied # m.head \/ m.head = 0
             d == IF needs_apply THEN ApplyDelta(c, m, TRUE) ELSE c
  <2>0. req[h].pc = "opening" /\ UNCHANGED <<man, objs, gens, del>> /\ c \in Dirs /\ needs_apply \in BOOLEAN
    BY <1>0, <1>2, StartPoints DEF OpenInstall
  <2>1. CASE needs_apply /\ ~Readable(m)
    <3>1. req' = [req EXCEPT ![h] = IdleRequest] /\ copy' = [copy EXCEPT ![h] = c] /\ UNCHANGED <<cur, hnd>>
      BY <1>2, <2>1 DEF OpenInstall
    <3> HIDE DEF c
    <3>2. /\ req'[h] = IdleRequest /\ RegTypes'
          /\ \A g \in RegHosts : g # h => copy'[g] = copy[g] /\ req'[g] = req[g]
      BY <1>0, <2>0, <3>1, StartPoints DEF RegTypes
    <3>3. Active(h)' = {}
      <4>1. cur'[h] = 0 /\ req'[h].pc \notin HasHandle
        BY <1>0, <2>0, <3>1, <3>2, StartPoints DEF HostInv
      <4>2. \A j \in 1 .. 2 : ~(cur'[h] = j \/ (req'[h].pc \in HasHandle /\ req'[h].hd = j))
        BY <4>1
      <4> QED
        BY <4>2 DEF Active
    <3>4. HostInv(h)' /\ FreshInv(h)' /\ SlotInv(h)' /\ SyncedInv(h)'
      BY <3>2, <3>3, StartPoints DEF HostInv, FreshInv, SlotInv, SyncedInv
    <3> QED
      BY <2>0, <3>1, <3>2, <3>4, LocalTurn
  <2>2. CASE ~(needs_apply /\ ~Readable(m))
    <3>1. /\ copy' = [copy EXCEPT ![h] = d]
          /\ hnd' = [hnd EXCEPT ![h][Unused(h)] = NewHandle(m, needs_apply)]
          /\ cur' = [cur EXCEPT ![h] = Unused(h)]
          /\ req' = [req EXCEPT ![h] = [IdleRequest EXCEPT !.pc = "have", !.hd = Unused(h)]]
      BY <1>2, <2>2 DEF OpenInstall
    <3> HIDE DEF c
    <3>2. needs_apply => /\ d = ApplyDelta(c, m, TRUE) /\ d \in Dirs /\ d.refs = Folded(m)
                         /\ d.applied = m.head /\ d.rev = m.rev
      BY <1>0, <2>0, <2>2, ApplyType
    <3>3. d \in Dirs
      BY <2>0, <3>2
    <3>4. needs_apply /\ m.gen = man.gen => CopyOf(m, d)
      <4>1. OnLine(m)
        BY <1>0, <2>0 DEF HostInv
      <4>2. m.gen = man.gen => Folded(m) = Exact(m)
        BY <1>0, <4>1, FoldedExact
      <4> QED
        BY <3>2, <4>2 DEF CopyOf
    <3> HIDE DEF d, needs_apply
    <3> QED
      BY <1>0, <2>0, <3>1, <3>3, <3>4, HandleTurn
  <2> QED
    BY <2>1, <2>2
<1> QED
  BY <1>1, <1>2

\* A sync that does not fail: what is held afterwards and what the copy is made of.
LEMMA SyncExact ==
    ASSUME RegInv, NEW h \in RegHosts, NEW i \in Active(h), man.gen # 0, copy[h].there, hnd[h][i].born = man.gen,
           NEW x, x = Refreshed(hnd[h][i].man, hnd[h][i].verified)
    PROVE  /\ x.man = man
           /\ CopyOf(man, IF x.apply THEN ApplyDelta(copy[h], x.man, x.rebuild) ELSE copy[h])
<1> DEFINE m0 == hnd[h][i].man
           v == hnd[h][i].verified
<1>0. /\ RegTypes /\ NameInv /\ HostInv(h) /\ FreshInv(h) /\ i \in 1 .. 2 /\ copy[h] \in Dirs
      /\ m0 \in RegMans /\ man \in RegMans /\ v \in BOOLEAN /\ gens \in Nat
  BY DEF RegInv, RegTypes, Handles, Active
<1>1. m0.gen \in Nat /\ m0.rev \in Nat /\ m0.head \in Nat /\ man.gen \in Nat /\ man.rev \in Nat /\ man.head \in Nat
  BY <1>0 DEF RegMans
<1>2. OnLine(m0) /\ m0.gen = man.gen
  <2>1. OnLine(m0) /\ hnd[h][i].born <= m0.gen
    BY <1>0 DEF HostInv
  <2>2. man.gen = gens
    BY <1>0 DEF NameInv
  <2> QED
    BY <1>1, <2>1, <2>2 DEF OnLine
<1>3. man = m0 \/ m0.rev < man.rev
  BY <1>1, <1>2 DEF OnLine
<1>4. /\ man = m0 => x = [man |-> m0, apply |-> ~v, rebuild |-> TRUE]
      /\ m0.rev < man.rev => x = [man |-> man, apply |-> TRUE, rebuild |-> ~v]
  <2>1. ~(man.rev < m0.rev /\ m0.rev < man.rev) /\ ~(man.rev = m0.rev /\ m0.rev < man.rev) /\ ~(man = m0 /\ m0.rev < man.rev)
    BY <1>1
  <2> QED
    BY <2>1 DEF Refreshed
<1>5. OnLine(man) /\ Readable(man) /\ Folded(man) = Exact(man)
  <2>1. OnLine(man)
    BY <1>0, <1>1 DEF OnLine, NameInv
  <2> QED
    BY <1>0, <2>1, FoldedExact
<1>6. \A r \in BOOLEAN : /\ ApplyDelta(copy[h], man, r).applied = man.head /\ ApplyDelta(copy[h], man, r).rev = man.rev
                         /\ r => ApplyDelta(copy[h], man, r).refs = Exact(man)
  BY <1>0, <1>5, ApplyType
<1>7. v => CopyOf(m0, copy[h])
  BY <1>0 DEF FreshInv
<1> HIDE DEF m0, v
<1>8. CASE man = m0
  <2>1. x.man = man /\ x.apply = ~v /\ x.rebuild = TRUE
    BY <1>4, <1>8
  <2>2. CASE v = TRUE
    BY <1>7, <1>8, <2>1, <2>2
  <2>3. CASE v = FALSE
    <3>1. CopyOf(man, ApplyDelta(copy[h], man, TRUE))
      BY <1>6 DEF CopyOf
    <3> QED
      BY <2>1, <2>3, <3>1
  <2> QED
    BY <1>0, <2>2, <2>3
<1>9. CASE m0.rev < man.rev
  <2>1. x.man = man /\ x.apply = TRUE /\ x.rebuild = ~v
    BY <1>4, <1>9
  <2>2. v => ApplyDelta(copy[h], man, FALSE).refs = Exact(man)
    <3>1. m0.rev <= man.rev /\ m0.head <= man.head /\ m0.segs = {s \in man.segs : s <= m0.head}
      BY <1>2 DEF OnLine
    <3> QED
      BY <1>0, <1>2, <1>5, <1>7, <3>1, ApplyMore
  <2> QED
    BY <1>0, <1>6, <2>1, <2>2 DEF CopyOf
<1> QED
  BY <1>3, <1>8, <1>9

\* sync_locked_inner.
LEMMA SyncStep ==
    ASSUME RegInv, NEW h \in RegHosts, ReqSync(h)
    PROVE  RegInv'
<1> DEFINE i == req[h].hd
           x == Refreshed(hnd[h][i].man, hnd[h][i].verified)
           fails == man.gen = 0 \/ ~copy[h].there \/ (x.apply /\ ~Readable(x.man))
           c == IF x.apply THEN ApplyDelta(copy[h], x.man, x.rebuild) ELSE copy[h]
           y == [hnd[h][i] EXCEPT !.man = x.man, !.verified = TRUE]
           q == [req[h] EXCEPT !.pc = "synced", !.saw = man]
<1>0. /\ RegTypes /\ NameInv /\ HostInv(h) /\ FreshInv(h) /\ req[h] \in Reqs /\ req[h].pc = "have"
      /\ i \in 1 .. 2 /\ hnd[h][i] \in Handles /\ copy[h] \in Dirs /\ man \in RegMans /\ UNCHANGED <<man, objs, gens, cur, del>>
  <2> HIDE DEF x, fails, c, y, q
  <2>1. RegTypes /\ NameInv /\ HostInv(h) /\ FreshInv(h)
    BY DEF RegInv
  <2>2. req[h].pc = "have" /\ UNCHANGED <<man, objs, gens, cur, del>>
    BY DEF ReqSync
  <2>3. req[h] \in Reqs /\ copy[h] \in Dirs /\ man \in RegMans /\ hnd[h] \in [1 .. 2 -> Handles]
    BY <2>1 DEF RegTypes
  <2>4. i \in 1 .. 2
    BY <2>3 DEF Reqs
  <2> QED
    BY <2>1, <2>2, <2>3, <2>4
<1>1. CASE fails
  <2>1. req' = [req EXCEPT ![h] = IdleRequest] /\ UNCHANGED <<copy, hnd>>
    BY <1>1 DEF ReqSync
  <2>2. IdleRequest \in Reqs /\ IdleRequest.pc = "idle"
    BY StartPoints
  <2>3. UNCHANGED <<man, objs, gens, cur, hnd, copy, del>>
    BY <1>0, <2>1
  <2> QED
    BY <2>1, <2>2, <2>3, RequestTurn
<1>2. CASE ~fails
  <2>1. /\ man.gen # 0 /\ copy[h].there /\ (x.apply => Readable(x.man))
        /\ copy' = [copy EXCEPT ![h] = c]
        /\ hnd' = [hnd EXCEPT ![h][i].man = x.man, ![h][i].verified = TRUE]
        /\ req' = [req EXCEPT ![h].pc = "synced", ![h].saw = man]
    BY <1>0, <1>2 DEF ReqSync
  <2>2. /\ x.man \in {man, hnd[h][i].man} /\ x.apply \in BOOLEAN /\ x.rebuild \in BOOLEAN
    BY <1>0 DEF Refreshed, Handles
  <2>3. hnd' = [hnd EXCEPT ![h] = [hnd[h] EXCEPT ![i] = y]] /\ req' = [req EXCEPT ![h] = q]
    BY <1>0, <2>1 DEF RegTypes
  <2>4. y \in Handles /\ y.man = x.man /\ y.born = hnd[h][i].born /\ y.verified = TRUE
    BY <1>0, <2>2 DEF Handles
  <2>5. q \in Reqs /\ q.pc = "synced" /\ q.saw = man /\ q.hd = i
    BY <1>0 DEF Reqs, HasHandle
  <2>6. c \in Dirs
    BY <1>0, <2>1, <2>2, ApplyType DEF Handles
  <2>7. Active(h) = {i}
    <3>1. cur[h] \in {0, i}
      BY <1>0 DEF HostInv, HasHandle
    <3>2. \A j \in 1 .. 2 : cur[h] = j \/ (req[h].pc \in HasHandle /\ req[h].hd = j) <=> j = i
      BY <1>0, <3>1 DEF HasHandle
    <3> QED
      BY <1>0, <3>2 DEF Active
  <2>8. hnd[h][i].born = man.gen => x.man = man /\ CopyOf(man, c)
    BY <2>1, <2>7, SyncExact
  <2> HIDE DEF x, y, c, q, fails
  <2>9. OnLine(x.man) /\ hnd[h][i].born <= x.man.gen /\ hnd[h][i].born # 0
    <3>1. OnLine(hnd[h][i].man) /\ hnd[h][i].born <= hnd[h][i].man.gen /\ hnd[h][i].born # 0
      BY <1>0, <2>7 DEF HostInv
    <3>2. /\ man.gen \in Nat /\ man.rev \in Nat /\ man.head \in Nat /\ hnd[h][i].man.gen \in Nat /\ hnd[h][i].born \in Nat
          /\ gens \in Nat
      BY <1>0 DEF RegTypes, Handles, RegMans
    <3>3. OnLine(man) /\ man.gen = gens
      <4>1. man.gen = gens /\ \A k \in man.segs : k <= man.head
        BY <1>0, <2>1 DEF NameInv
      <4>2. gens <= gens /\ man.rev <= man.rev /\ man.head <= man.head
        BY <3>2
      <4>3. man.segs = {k \in man.segs : k <= man.head}
        BY <4>1
      <4> QED
        BY <4>1, <4>2, <4>3 DEF OnLine
    <3>4. hnd[h][i].born <= man.gen
      <4>1. hnd[h][i].man.gen <= gens
        BY <3>1 DEF OnLine
      <4>2. PICK b \in Nat, g \in Nat : b = hnd[h][i].born /\ g = hnd[h][i].man.gen /\ b <= g
        BY <3>1, <3>2
      <4>3. man.gen = gens /\ gens \in Nat
        BY <3>2, <3>3
      <4>4. b <= gens
        BY <4>1, <4>2, <4>3
      <4> QED
        BY <4>2, <4>3, <4>4
    <3> QED
      BY <2>2, <3>1, <3>3, <3>4
  <2>10. /\ copy' \in [RegHosts -> Dirs] /\ req' \in [RegHosts -> Reqs] /\ copy'[h] = c /\ req'[h] = q
         /\ \A g \in RegHosts : g # h => copy'[g] = copy[g] /\ req'[g] = req[g]
    <3>1. copy' = [copy EXCEPT ![h] = c] /\ req' = [req EXCEPT ![h] = q]
      BY <2>1, <2>3
    <3>2. copy \in [RegHosts -> Dirs] /\ req \in [RegHosts -> Reqs] /\ c \in Dirs /\ q \in Reqs
      BY <1>0, <2>5, <2>6 DEF RegTypes
    <3> HIDE DEF i
    <3> QED
      BY <3>1, <3>2
  <2>11. /\ hnd' \in [RegHosts -> [1 .. 2 -> Handles]] /\ hnd'[h][i] = y
         /\ \A g \in RegHosts : g # h => hnd'[g] = hnd[g]
    BY <1>0, <2>3, <2>4 DEF RegTypes
  <2>12. RegTypes'
    BY <1>0, <2>10, <2>11 DEF RegTypes
  <2>13. Active(h)' = {i} /\ cur'[h] \in {0, i}
    <3>1. cur'[h] \in {0, i}
      BY <1>0 DEF HostInv, HasHandle
    <3>2. \A j \in 1 .. 2 : cur'[h] = j \/ (req'[h].pc \in HasHandle /\ req'[h].hd = j) <=> j = i
      BY <1>0, <2>5, <2>10, <3>1 DEF HasHandle
    <3> QED
      BY <1>0, <3>1, <3>2 DEF Active
  <2>14. HostInv(h)'
    <3>1. \A j \in Active(h)' : hnd'[h][j] = y
      BY <2>11, <2>13
    <3>2. \A j \in Active(h)' : hnd'[h][j].born # 0 /\ hnd'[h][j].born <= hnd'[h][j].man.gen /\ hnd'[h][j].man = x.man
      BY <2>4, <2>9, <3>1
    <3>3. OnLine(x.man) => \A j \in Active(h)' : OnLine(hnd[h][j].man)' 
      BY <1>0, <3>2 DEF OnLine
    <3>4. /\ req'[h].pc = "synced" /\ cur'[h] \in {0, req'[h].hd} /\ hnd'[h][req'[h].hd].verified
      BY <2>4, <2>5, <2>10, <2>11, <2>13
    <3> QED
      BY <2>9, <3>2, <3>3, <3>4 DEF HostInv
  <2>15. FreshInv(h)'
    BY <1>0, <2>4, <2>8, <2>10, <2>11, <2>13 DEF FreshInv
  <2>16. SlotInv(h)' /\ SyncedInv(h)'
    BY <2>4, <2>5, <2>8, <2>10, <2>11 DEF SlotInv, SyncedInv, CopyOf
  <2>17. \A g \in RegHosts : g # h => cur'[g] = cur[g] /\ hnd'[g] = hnd[g] /\ copy'[g] = copy[g] /\ req'[g] = req[g]
    BY <1>0, <2>10, <2>11
  <2> QED
    BY <1>0, <2>12, <2>14, <2>15, <2>16, <2>17, LocalTurn
<1> QED
  BY <1>1, <1>2

\* A step of h that moves the bucket on.
LEMMA BucketTurn ==
    ASSUME RegInv, NEW h \in RegHosts, RegTypes', NameInv',
           \A g \in RegHosts : g # h => cur'[g] = cur[g] /\ hnd'[g] = hnd[g] /\ copy'[g] = copy[g] /\ req'[g] = req[g],
           \A m \in RegMans : m.gen # 0 /\ OnLine(m) => OnLine(m)',
           man'.gen = man.gen \/ man'.gen = 0 \/ man'.gen > gens,
           \A g \in RegHosts : g # h => SlotInv(g)',
           HostInv(h)', FreshInv(h)', SlotInv(h)', SyncedInv(h)'
    PROVE  RegInv'
<1>1. ASSUME NEW g \in RegHosts, g # h PROVE HostInv(g)' /\ FreshInv(g)' /\ SlotInv(g)' /\ SyncedInv(g)'
  <2>1. cur'[g] = cur[g] /\ hnd'[g] = hnd[g] /\ copy'[g] = copy[g] /\ req'[g] = req[g]
    BY <1>1
  <2>2. HostInv(g)' /\ FreshInv(g)' /\ SyncedInv(g)'
    BY <2>1, HostKeeps
  <2> QED
    BY <1>1, <2>2
<1> QED
  BY <1>1 DEF RegInv

\* What a request knows of the manifest it holds.
LEMMA HeldFacts ==
    ASSUME RegInv, NEW h \in RegHosts, req[h].pc \in HasHandle
    PROVE  /\ req[h].hd \in Active(h) /\ req[h].hd \in 1 .. 2 /\ Active(h) = {req[h].hd}
           /\ hnd[h] \in [1 .. 2 -> Handles] /\ hnd[h][req[h].hd] \in Handles
           /\ hnd[h][req[h].hd].man \in RegMans /\ OnLine(hnd[h][req[h].hd].man)
           /\ hnd[h][req[h].hd].man.gen # 0
<1>0. RegTypes /\ HostInv(h)
  BY DEF RegInv
<1>1. req[h].hd \in 1 .. 2 /\ hnd[h] \in [1 .. 2 -> Handles] /\ hnd[h][req[h].hd] \in Handles
  BY <1>0 DEF RegTypes, Reqs
<1>2. hnd[h][req[h].hd].man \in RegMans /\ hnd[h][req[h].hd].born \in Nat /\ hnd[h][req[h].hd].man.gen \in Nat
  BY <1>1 DEF Handles, RegMans
<1>3. Active(h) = {req[h].hd}
  <2>1. cur[h] \in {0, req[h].hd}
    BY <1>0 DEF HostInv
  <2>2. \A j \in 1 .. 2 : cur[h] = j \/ (req[h].pc \in HasHandle /\ req[h].hd = j) <=> j = req[h].hd
    BY <1>1, <2>1
  <2> QED
    BY <1>1, <2>2 DEF Active
<1>4. OnLine(hnd[h][req[h].hd].man) /\ hnd[h][req[h].hd].man.gen # 0
  <2>1. /\ hnd[h][req[h].hd].born # 0 /\ hnd[h][req[h].hd].born <= hnd[h][req[h].hd].man.gen
        /\ OnLine(hnd[h][req[h].hd].man)
    BY <1>0, <1>3 DEF HostInv
  <2>2. \A b, g \in Nat : b # 0 /\ b <= g => g # 0
    OBVIOUS
  <2> QED
    BY <1>2, <2>1, <2>2
<1> QED
  BY <1>1, <1>2, <1>3, <1>4

\* create: the manifest of a new generation, once no delete is under way.
LEMMA CreateStep ==
    ASSUME RegInv, NEW h \in RegHosts, CreateDuringDelete = FALSE, ReqCreate(h)
    PROVE  RegInv'
<1>0. /\ RegTypes /\ gens \in Nat /\ cur[h] = 0 /\ req[h].pc = "idle"
      /\ \A g \in RegHosts : del[g].pc = "idle"
      /\ UNCHANGED <<objs, cur, hnd, copy, del>>
  BY DEF RegInv, RegTypes, ReqCreate
<1>a. PICK m1 : m1 = [gen |-> gens + 1, rev |-> 1, head |-> 0, segs |-> {}]
  OBVIOUS
<1>b. PICK q : q = [IdleRequest EXCEPT !.pc = "created", !.saw = m1]
  OBVIOUS
<1>1. gens' = gens + 1 /\ man' = m1 /\ req' = [req EXCEPT ![h] = q]
  BY <1>a, <1>b DEF ReqCreate
<1>2. m1 \in RegMans /\ m1.gen = gens + 1 /\ m1.segs = {} /\ gens + 1 \in Nat /\ gens + 1 > gens /\ m1.gen # 0
  BY <1>0, <1>a DEF RegMans
<1>3. q \in Reqs /\ q.pc = "created" /\ q.saw = m1
  <2>1. IdleRequest \in Reqs
    BY StartPoints
  <2> QED
    BY <1>2, <1>b, <2>1 DEF IdleRequest, Reqs
<1>4. OnLine(m1)'
  <2>1. m1.head <= m1.head /\ m1.rev <= m1.rev /\ m1.gen <= gens'
    BY <1>0, <1>1, <1>2 DEF RegMans
  <2> QED
    BY <1>1, <1>2, <2>1 DEF OnLine
<1>5. /\ req' \in [RegHosts -> Reqs] /\ req'[h] = q /\ \A g \in RegHosts : g # h => req'[g] = req[g]
  BY <1>0, <1>1, <1>3 DEF RegTypes
<1>6. RegTypes'
  BY <1>0, <1>1, <1>2, <1>5 DEF RegTypes
<1>7. NameInv'
  BY <1>0, <1>1, <1>2 DEF NameInv, SegmentsOwn
<1>8. \A m \in RegMans : m.gen # 0 /\ OnLine(m) => OnLine(m)'
  BY <1>0, <1>1, <1>2 DEF OnLine, RegMans
<1>9. ASSUME NEW g \in RegHosts, g # h PROVE SlotInv(g)'
  <2>1. req'[g] = req[g] /\ hnd'[g] = hnd[g]
    BY <1>0, <1>5, <1>9
  <2>2. SUFFICES ASSUME req[g].pc = "slotted" PROVE SlotInv(g)'
    BY <2>1 DEF SlotInv
  <2>3. OnLine(hnd[g][req[g].hd].man) /\ hnd[g][req[g].hd].man \in RegMans
    BY <2>2, HeldFacts DEF HasHandle
  <2>4. hnd[g][req[g].hd].man # man'
    <3>1. PICK held : held = hnd[g][req[g].hd].man
      OBVIOUS
    <3>2. held.gen <= gens /\ held.gen \in Nat
      BY <2>3, <3>1 DEF OnLine, RegMans
    <3>3. gens \in Nat
      BY <1>0
    <3>4. held.gen # gens + 1
      BY <3>2, <3>3
    <3> QED
      BY <1>1, <1>2, <3>1, <3>4
  <2> QED
    BY <1>1, <1>2, <2>1, <2>4 DEF SlotInv
<1>10. Active(h)' = {}
  <2>1. \A j \in 1 .. 2 : ~(cur'[h] = j \/ (req'[h].pc \in HasHandle /\ req'[h].hd = j))
    BY <1>0, <1>3, <1>5 DEF HasHandle
  <2> QED
    BY <2>1 DEF Active
<1>11. HostInv(h)' /\ FreshInv(h)' /\ SlotInv(h)' /\ SyncedInv(h)'
  <2>1. req'[h].pc = "created" /\ req'[h].saw = m1 /\ cur'[h] = 0 /\ "created" \notin HasHandle
    BY <1>0, <1>3, <1>5 DEF HasHandle
  <2>2. HostInv(h)'
    <3>1. OnLine(req[h].saw)'
      BY <1>4, <2>1 DEF OnLine
    <3> QED
      BY <1>2, <1>10, <2>1, <3>1 DEF HostInv
  <2> QED
    BY <1>10, <2>1, <2>2 DEF FreshInv, SlotInv, SyncedInv
<1>12. \A g \in RegHosts : g # h => cur'[g] = cur[g] /\ hnd'[g] = hnd[g] /\ copy'[g] = copy[g] /\ req'[g] = req[g]
  BY <1>0, <1>5
<1>13. man'.gen > gens
  BY <1>1, <1>2
<1> QED
  BY <1>6, <1>7, <1>8, <1>9, <1>11, <1>12, <1>13, BucketTurn

\* The manifest is gone, whatever is left of the log.
LEMMA GoneTurn ==
    ASSUME RegInv, man' = NoMan, UNCHANGED <<gens, cur, hnd, copy, req>>,
           DOMAIN objs' \subseteq DOMAIN objs, \A s \in DOMAIN objs' : objs'[s] = objs[s],
           del' \in [RegHosts -> Dels]
    PROVE  RegInv'
<1>1. man' \in RegMans /\ man'.gen = 0 /\ man'.segs = {}
  BY StartPoints
<1>2. RegTypes'
  BY <1>1 DEF RegInv, RegTypes
<1>3. NameInv'
  BY <1>1 DEF NameInv, SegmentsOwn, NoMan
<1>4. \A m \in RegMans : m.gen # 0 /\ OnLine(m) => OnLine(m)'
  BY <1>1 DEF OnLine
<1>5. ASSUME NEW g \in RegHosts PROVE HostInv(g)' /\ FreshInv(g)' /\ SlotInv(g)' /\ SyncedInv(g)'
  <2>1. cur'[g] = cur[g] /\ hnd'[g] = hnd[g] /\ copy'[g] = copy[g] /\ req'[g] = req[g]
    OBVIOUS
  <2>2. HostInv(g)' /\ FreshInv(g)' /\ SyncedInv(g)'
    BY <1>1, <1>4, <2>1, HostKeeps
  <2>3. req[g].pc = "slotted" => hnd[g][req[g].hd].man # man'
    BY <1>1, HeldFacts DEF HasHandle
  <2>4. SlotInv(g)'
    BY <1>1, <2>3 DEF SlotInv
  <2> QED
    BY <2>2, <2>4
<1> QED
  BY <1>2, <1>3, <1>5 DEF RegInv

\* A set of naturals that is not empty has a least member.
LEMMA LeastKey ==
    ASSUME NEW S, S \subseteq Nat, S # {}
    PROVE  /\ (CHOOSE x \in S : \A y \in S : x <= y) \in S
           /\ \A y \in S : (CHOOSE x \in S : \A z \in S : x <= z) <= y
<1>1. PICK n \in S : \A y \in S : <<y, n>> \notin OpToRel(<, Nat)
  BY NatLessThanWellFounded, WFMin
<1>2. \A y \in S : ~(y < n)
  BY <1>1, Zenon DEF OpToRel
<1>3. \A y \in S : n <= y
  BY <1>2
<1> QED
  BY <1>3

\* delete, in the bucket.
LEMMA DeleteStep ==
    ASSUME RegInv, NEW h \in RegHosts, DelManifest(h) \/ DelObject(h)
    PROVE  RegInv'
<1>0. RegTypes /\ NameInv /\ del \in [RegHosts -> Dels] /\ UNCHANGED <<gens, cur, hnd, copy, req>>
  BY DEF RegInv, RegTypes, DelManifest, DelObject
<1>1. CASE DelManifest(h)
  <2>1. man' = NoMan /\ objs' = objs /\ del' = [del EXCEPT ![h] = [pc |-> "objects", at |-> 0]]
    BY <1>1 DEF DelManifest
  <2>2. del' \in [RegHosts -> Dels]
    BY <1>0, <2>1 DEF Dels
  <2> QED
    BY <1>0, <2>1, <2>2, GoneTurn
<1>2. CASE DelObject(h)
  <2> DEFINE k == CHOOSE x \in Listed(h) : \A y \in Listed(h) : x <= y
  <2>1. /\ Listed(h) # {} /\ man = NoMan
        /\ IF k = ManifestKey THEN man' = NoMan /\ UNCHANGED objs
           ELSE objs' = [s \in DOMAIN objs \ {k} |-> objs[s]] /\ UNCHANGED man
        /\ del' = [del EXCEPT ![h].at = k]
    BY <1>0, <1>2 DEF DelObject, NameInv
  <2>2. k \in Nat
    <3>1. Listed(h) \subseteq Nat
      BY <1>0, RegistryAssumption DEF Listed, ManifestKey, RegTypes
    <3> QED
      BY <2>1, <3>1, LeastKey
  <2> HIDE DEF k
  <2>3. man' = NoMan /\ DOMAIN objs' \subseteq DOMAIN objs /\ \A s \in DOMAIN objs' : objs'[s] = objs[s]
    BY <2>1
  <2>4. del' \in [RegHosts -> Dels]
    BY <1>0, <2>1, <2>2 DEF Dels
  <2> QED
    BY <1>0, <2>3, <2>4, GoneTurn
<1> QED
  BY <1>1, <1>2

\* claim_log_slot: a key that nothing has is taken.
LEMMA SlotStep ==
    ASSUME RegInv, NEW h \in RegHosts, PubSlot(h)
    PROVE  RegInv'
<1> DEFINE m == hnd[h][req[h].hd].man
           free == {s \in m.head + 1 .. MaxSlot : s \notin DOMAIN objs}
<1>0. /\ RegTypes /\ NameInv /\ HostInv(h) /\ FreshInv(h) /\ req[h] \in Reqs /\ req[h].pc = "synced" /\ free # {}
      /\ UNCHANGED <<man, gens, cur, hnd, copy, del>>
  BY DEF RegInv, RegTypes, PubSlot
<1>1. /\ req[h].hd \in Active(h) /\ req[h].hd \in 1 .. 2 /\ Active(h) = {req[h].hd}
      /\ hnd[h][req[h].hd] \in Handles /\ m \in RegMans /\ m.gen \in Nat /\ m.head \in Nat
  BY <1>0, HeldFacts DEF HasHandle, RegMans
<1>2. PICK s \in Nat : /\ s > m.head /\ s \notin DOMAIN objs
                       /\ objs' = [k \in DOMAIN objs \cup {s} |-> IF k = s THEN [gen |-> m.gen, by |-> h] ELSE objs[k]]
                       /\ req' = [req EXCEPT ![h].pc = "slotted", ![h].slot = s]
  <2> DEFINE t == CHOOSE k \in free : \A l \in free : k <= l
  <2>1. free \subseteq Nat
    BY <1>1, RegistryAssumption
  <2>2. t \in free
    <3> HIDE DEF free
    <3> QED
      BY <1>0, <2>1, LeastKey
  <2>3. /\ objs' = [k \in DOMAIN objs \cup {t} |-> IF k = t THEN [gen |-> m.gen, by |-> h] ELSE objs[k]]
        /\ req' = [req EXCEPT ![h].pc = "slotted", ![h].slot = t]
    BY DEF PubSlot
  <2> HIDE DEF t
  <2>4. t \in Nat /\ t > m.head /\ t \notin DOMAIN objs
    BY <1>1, <2>2, RegistryAssumption
  <2> QED
    BY <2>3, <2>4
<1>3. /\ DOMAIN objs' = DOMAIN objs \cup {s} /\ \A k \in DOMAIN objs : objs'[k] = objs[k]
      /\ objs'[s] = [gen |-> m.gen, by |-> h]
  BY <1>2
<1>4. PICK q \in Reqs : q.pc = "slotted" /\ q.slot = s /\ q.hd = req[h].hd /\ req' = [req EXCEPT ![h] = q]
  <2> DEFINE p == [req[h] EXCEPT !.pc = "slotted", !.slot = s]
  <2>1. p \in Reqs /\ p.pc = "slotted" /\ p.slot = s /\ p.hd = req[h].hd
    BY <1>0, <1>2 DEF Reqs, HasHandle
  <2>2. req' = [req EXCEPT ![h] = p]
    BY <1>0, <1>2 DEF RegTypes
  <2> QED
    BY <2>1, <2>2
<1>5. /\ req' \in [RegHosts -> Reqs] /\ req'[h] = q /\ \A g \in RegHosts : g # h => req'[g] = req[g]
  BY <1>0, <1>4 DEF RegTypes
<1>6. RegTypes'
  <2>1. DOMAIN objs' \subseteq Nat /\ \A k \in DOMAIN objs' : objs'[k] \in [gen : Nat, by : RegHosts]
    BY <1>0, <1>1, <1>2, <1>3 DEF RegTypes
  <2> QED
    BY <1>0, <1>5, <2>1 DEF RegTypes
<1>7. NameInv'
  BY <1>0, <1>3 DEF NameInv, SegmentsOwn
<1>8. s \notin man.segs
  BY <1>0, <1>2 DEF NameInv, SegmentsOwn
<1>9. \A x \in RegMans : x.gen # 0 /\ OnLine(x) => OnLine(x)'
  BY <1>0 DEF OnLine
<1>10. ASSUME NEW g \in RegHosts, g # h PROVE SlotInv(g)'
  <2>1. SlotInv(g) /\ req'[g] = req[g] /\ hnd'[g] = hnd[g] /\ man' = man
    BY <1>0, <1>5, <1>10 DEF RegInv
  <2>2. s \in DOMAIN objs' /\ objs'[s].by = h
    BY <1>3
  <2> QED
    BY <1>2, <1>3, <1>10, <2>1, <2>2 DEF SlotInv
<1>11. Active(h)' = {req[h].hd}
  <2>1. req'[h].pc \in HasHandle /\ req'[h].hd = req[h].hd /\ req[h].pc \in HasHandle
    BY <1>0, <1>4, <1>5 DEF HasHandle
  <2> QED
    BY <1>0, <1>1, <2>1 DEF Active
<1>12. HostInv(h)'
  <2>1. \A x : OnLine(x)' <=> OnLine(x)
    BY <1>0 DEF OnLine
  <2>2. req'[h].pc = "slotted" /\ req'[h].hd = req[h].hd /\ cur[h] \in {0, req[h].hd} /\ hnd[h][req[h].hd].verified
    BY <1>0, <1>4, <1>5 DEF HostInv, HasHandle
  <2>3. \A i \in Active(h)' : hnd[h][i].born # 0 /\ hnd[h][i].born <= hnd[h][i].man.gen /\ OnLine(hnd[h][i].man)
    BY <1>0, <1>1, <1>11 DEF HostInv
  <2> QED
    BY <1>0, <2>1, <2>2, <2>3 DEF HostInv
<1>13. FreshInv(h)'
  BY <1>0, <1>1, <1>11 DEF FreshInv
<1>14. SlotInv(h)' /\ SyncedInv(h)'
  <2>1. /\ req'[h].pc = "slotted" /\ req'[h].hd = req[h].hd /\ req'[h].slot = s /\ hnd'[h] = hnd[h] /\ man' = man
        /\ s \in DOMAIN objs' /\ objs'[s].by = h /\ objs'[s].gen = m.gen
    BY <1>0, <1>3, <1>4, <1>5
  <2> QED
    BY <1>2, <1>8, <2>1 DEF SlotInv, SyncedInv
<1>15. \A g \in RegHosts : g # h => cur'[g] = cur[g] /\ hnd'[g] = hnd[g] /\ copy'[g] = copy[g] /\ req'[g] = req[g]
  BY <1>0, <1>5
<1> QED
  BY <1>0, <1>6, <1>7, <1>9, <1>10, <1>12, <1>13, <1>14, <1>15, BucketTurn

\* The manifest CAS that is lost: the slot is dropped if it is still the one that was written.
LEMMA LostStep ==
    ASSUME RegInv, NEW h \in RegHosts, req[h].pc = "slotted", man # hnd[h][req[h].hd].man,
           objs' = [k \in {s \in DOMAIN objs : s = req[h].slot => objs[s] # [gen |-> hnd[h][req[h].hd].man.gen, by |-> h]}
                       |-> objs[k]],
           req' = [req EXCEPT ![h] = IdleRequest], UNCHANGED <<man, gens, cur, hnd, copy, del>>
    PROVE  RegInv'
<1>0. RegTypes /\ NameInv /\ HostInv(h) /\ FreshInv(h) /\ SlotInv(h)
  BY DEF RegInv
<1>1. /\ DOMAIN objs' \subseteq DOMAIN objs /\ \A k \in DOMAIN objs' : objs'[k] = objs[k]
      /\ \A k \in DOMAIN objs : k \notin DOMAIN objs' => k = req[h].slot /\ objs[k].by = h
  <2>1. PICK own : own = [gen |-> hnd[h][req[h].hd].man.gen, by |-> h]
    OBVIOUS
  <2>2. PICK left : left = {k \in DOMAIN objs : k = req[h].slot => objs[k] # own}
    OBVIOUS
  <2>3. objs' = [k \in left |-> objs[k]]
    BY <2>1, <2>2
  <2>4. own.by = h
    BY <2>1
  <2> QED
    BY <2>2, <2>3, <2>4
<1>2. /\ req' \in [RegHosts -> Reqs] /\ req'[h] = IdleRequest /\ \A g \in RegHosts : g # h => req'[g] = req[g]
  BY <1>0, StartPoints DEF RegTypes
<1>3. RegTypes'
  BY <1>0, <1>1, <1>2 DEF RegTypes
<1>4. NameInv'
  <2>1. \A s \in man.segs : s \in DOMAIN objs'
    BY <1>0, <1>1 DEF NameInv, SegmentsOwn, SlotInv
  <2> QED
    BY <1>0, <1>1, <2>1 DEF NameInv, SegmentsOwn
<1>5. \A x \in RegMans : x.gen # 0 /\ OnLine(x) => OnLine(x)'
  BY DEF OnLine
<1>6. ASSUME NEW g \in RegHosts, g # h PROVE SlotInv(g)'
  <2>1. SlotInv(g) /\ req'[g] = req[g]
    BY <1>2, <1>6 DEF RegInv
  <2>2. \A k \in DOMAIN objs : objs[k].by = g => k \in DOMAIN objs'
    BY <1>1, <1>6
  <2>3. \A k \in DOMAIN objs' : k \in DOMAIN objs /\ objs'[k] = objs[k]
    BY <1>1
  <2> HIDE DEF SlotInv
  <2>4. SUFFICES ASSUME req[g].pc = "slotted" PROVE SlotInv(g)'
    BY <2>1 DEF SlotInv
  <2>5. req[g].slot \in DOMAIN objs' /\ objs'[req[g].slot].by = g => req[g].slot \notin man.segs
    BY <2>1, <2>3, <2>4 DEF SlotInv
  <2>6. hnd[g][req[g].hd].man = man =>
              /\ req[g].slot \in DOMAIN objs' /\ req[g].slot > man.head
              /\ objs'[req[g].slot].gen = man.gen /\ objs'[req[g].slot].by = g
    BY <2>1, <2>2, <2>3, <2>4 DEF SlotInv
  <2> QED
    BY <2>1, <2>5, <2>6 DEF SlotInv
<1>7. Active(h)' \subseteq Active(h)
  BY <1>2, StartPoints DEF Active
<1>8. HostInv(h)'
  <2>1. \A x : OnLine(x)' <=> OnLine(x)
    BY DEF OnLine
  <2>2. req'[h].pc = "idle" /\ req'[h].pc \notin HasHandle
    BY <1>2, StartPoints
  <2> QED
    BY <1>0, <1>7, <2>1, <2>2 DEF HostInv
<1>9. FreshInv(h)'
  BY <1>0, <1>7 DEF FreshInv
<1>10. SlotInv(h)' /\ SyncedInv(h)'
  BY <1>2, StartPoints DEF SlotInv, SyncedInv
<1>11. \A g \in RegHosts : g # h => cur'[g] = cur[g] /\ hnd'[g] = hnd[g] /\ copy'[g] = copy[g] /\ req'[g] = req[g]
  BY <1>2
<1> QED
  BY <1>3, <1>4, <1>5, <1>6, <1>8, <1>9, <1>10, <1>11, BucketTurn

\* The manifest CAS that is won, with the local commit.
Won(h, new, y) ==
    /\ req[h].pc = "slotted" /\ man = hnd[h][req[h].hd].man
    /\ new.gen = man.gen /\ new.rev = man.rev + 1 /\ new.head = req[h].slot /\ new.segs = man.segs \cup {req[h].slot}
    /\ y.man = new /\ y.born = hnd[h][req[h].hd].born /\ y.verified = hnd[h][req[h].hd].verified
    /\ man' = new /\ hnd' = [hnd EXCEPT ![h] = [hnd[h] EXCEPT ![req[h].hd] = y]]
    /\ copy' = [copy EXCEPT ![h] = IF copy[h].there /\ Readable(new) THEN ApplyDelta(copy[h], new, FALSE) ELSE copy[h]]
    /\ req' = [req EXCEPT ![h] = IdleRequest] /\ UNCHANGED <<objs, gens, cur, del>>
LEMMA WonStep ==
    ASSUME RegInv, NEW h \in RegHosts, NEW new \in RegMans, NEW y \in Handles, Won(h, new, y)
    PROVE  RegInv'
<1> DEFINE i == req[h].hd
           s == req[h].slot
           c == IF copy[h].there /\ Readable(new) THEN ApplyDelta(copy[h], new, FALSE) ELSE copy[h]
<1>0. /\ RegTypes /\ NameInv /\ HostInv(h) /\ FreshInv(h) /\ SlotInv(h) /\ copy[h] \in Dirs /\ s \in Nat
      /\ man \in RegMans /\ man.gen \in Nat /\ man.rev \in Nat /\ man.head \in Nat /\ man.segs \subseteq Nat /\ gens \in Nat
  BY DEF RegInv, RegTypes, RegMans, Reqs
<1>a. /\ req[h].pc = "slotted" /\ man = hnd[h][i].man /\ man' = new /\ objs' = objs /\ gens' = gens /\ cur' = cur /\ del' = del
      /\ req' = [req EXCEPT ![h] = IdleRequest]
  BY DEF Won
<1>1. i \in 1 .. 2 /\ Active(h) = {i} /\ hnd[h] \in [1 .. 2 -> Handles] /\ hnd[h][i] \in Handles /\ man.gen # 0
  BY <1>a, HeldFacts DEF HasHandle
<1>2. /\ new \in RegMans /\ new.gen = man.gen /\ new.rev = man.rev + 1 /\ new.head = s /\ new.segs = man.segs \cup {s}
      /\ new.rev > man.rev /\ new.rev \in Nat
  <2>1. new.gen = man.gen /\ new.rev = man.rev + 1 /\ new.head = s /\ new.segs = man.segs \cup {s}
    BY DEF Won
  <2> QED
    BY <1>0, <2>1 DEF RegMans
<1>3. s \in DOMAIN objs /\ s > man.head /\ objs[s].gen = man.gen /\ objs[s].by = h /\ s \notin man.segs
  BY <1>0, <1>a DEF SlotInv
<1>4. hnd' = [hnd EXCEPT ![h] = [hnd[h] EXCEPT ![i] = y]] /\ copy' = [copy EXCEPT ![h] = c]
  BY DEF Won
<1>5. y \in Handles /\ y.man = new /\ y.born = hnd[h][i].born /\ y.verified = hnd[h][i].verified
  BY DEF Won
<1>6. c \in Dirs /\ (c.there => copy[h].there)
  BY <1>0, <1>2, ApplyType
<1>b. s \in Nat /\ man.head \in Nat /\ man.rev \in Nat /\ new.rev \in Nat
  BY <1>0, <1>2
<1>7. NameInv'
  <2>1. \A k \in new.segs : k <= new.head /\ k \in DOMAIN objs /\ objs[k].gen = new.gen
    <3>1. \A k \in man.segs : k \in Nat /\ k <= man.head /\ k \in DOMAIN objs /\ objs[k].gen = man.gen
      BY <1>0 DEF NameInv, SegmentsOwn
    <3>2. \A k \in man.segs : k <= s
      BY <1>b, <1>3, <3>1
    <3>3. s <= s
      BY <1>b
    <3> QED
      BY <1>2, <1>3, <3>1, <3>2, <3>3
  <2> QED
    BY <1>a, <1>0, <1>1, <1>2, <2>1 DEF NameInv, SegmentsOwn
<1>8. \A x \in RegMans : x.gen # 0 /\ OnLine(x) => OnLine(x)'
  <2>1. SUFFICES ASSUME NEW x \in RegMans, x.gen # 0, OnLine(x) PROVE OnLine(x)'
    OBVIOUS
  <2>2. SUFFICES ASSUME x.gen = man.gen
                 PROVE  /\ x.rev <= new.rev /\ x.head <= new.head /\ x.rev # new.rev
                        /\ x.segs = {k \in new.segs : k <= x.head}
    BY <1>a, <1>2, <2>1 DEF OnLine
  <2>3. x.rev \in Nat /\ x.head \in Nat /\ x.rev <= man.rev /\ x.head <= man.head /\ x.segs = {k \in man.segs : k <= x.head}
    BY <1>a, <2>1, <2>2 DEF OnLine, RegMans
  <2>4. ~(s <= x.head)
    BY <1>b, <1>3, <2>3
  <2> QED
    <3>1. {k \in man.segs : k <= x.head} = {k \in new.segs : k <= x.head}
      BY <1>2, <2>4
    <3>2. x.rev <= new.rev /\ x.head <= new.head /\ x.rev # new.rev
      BY <1>b, <1>2, <1>3, <2>3
    <3> QED
      BY <2>3, <3>1, <3>2
<1>9. ASSUME NEW g \in RegHosts, g # h PROVE SlotInv(g)'
  <2>1. SlotInv(g) /\ req'[g] = req[g] /\ hnd'[g] = hnd[g]
    BY <1>a, <1>0, <1>4, <1>9 DEF RegInv, RegTypes
  <2>2. SUFFICES ASSUME req[g].pc = "slotted" PROVE SlotInv(g)'
    BY <1>a, <2>1 DEF SlotInv
  <2>3. hnd[g][req[g].hd].man # new
    <3>1. OnLine(hnd[g][req[g].hd].man)
      BY <1>a, <2>2, HeldFacts DEF HasHandle
    <3> QED
      <4>1. new.gen = man.gen /\ ~(new.rev <= man.rev)
        BY <1>b, <1>2
      <4> QED
        BY <3>1, <4>1 DEF OnLine
  <2>4. req[g].slot \in DOMAIN objs /\ objs[req[g].slot].by = g => req[g].slot \notin new.segs
    BY <1>a, <1>2, <1>3, <1>9, <2>1, <2>2 DEF SlotInv
  <2> QED
    BY <1>a, <2>1, <2>3, <2>4 DEF SlotInv
<1>10. hnd[h][i].verified /\ hnd[h][i].born # 0 /\ hnd[h][i].born <= new.gen
  BY <1>a, <1>0, <1>1, <1>2 DEF HostInv
<1>11. copy[h].there /\ hnd[h][i].born = man.gen => CopyOf(new, c)
  <2>1. SUFFICES ASSUME copy[h].there, hnd[h][i].born = man.gen PROVE CopyOf(new, c)
    OBVIOUS
  <2>2. CopyOf(man, copy[h])
    BY <1>a, <1>0, <1>1, <1>10, <2>1 DEF FreshInv
  <2>3. \A k \in new.segs : k \in DOMAIN objs /\ objs[k].gen = new.gen
    BY <1>a, <1>0, <1>2, <1>3 DEF NameInv, SegmentsOwn
  <2>4. Readable(new) /\ Folded(new) = Exact(new)
    BY <1>a, <2>3 DEF Readable, Folded, Exact
  <2>5. man.segs = {k \in new.segs : k <= man.head}
    <3>1. ~(s <= man.head)
      BY <1>0, <1>3
    <3>2. \A k \in man.segs : k <= man.head
      BY <1>0 DEF NameInv
    <3> QED
      BY <1>2, <3>1, <3>2
  <2>6. man.gen = new.gen /\ man.rev <= new.rev /\ man.head <= new.head
    BY <1>b, <1>2, <1>3
  <2>7. ApplyDelta(copy[h], new, FALSE).refs = Exact(new)
    BY <1>a, <1>0, <1>2, <2>2, <2>4, <2>5, <2>6, ApplyMore
  <2>8. c = ApplyDelta(copy[h], new, FALSE)
    BY <1>a, <2>1, <2>4
  <2> QED
    BY <1>a, <1>0, <1>2, <2>4, <2>7, <2>8, ApplyType DEF CopyOf
<1> HIDE DEF c
<1>12. /\ copy' \in [RegHosts -> Dirs] /\ req' \in [RegHosts -> Reqs] /\ copy'[h] = c /\ req'[h] = IdleRequest
       /\ \A g \in RegHosts : g # h => copy'[g] = copy[g] /\ req'[g] = req[g]
  <2>1. copy' = [copy EXCEPT ![h] = c] /\ copy \in [RegHosts -> Dirs]
    BY <1>a, <1>0, <1>4 DEF RegTypes
  <2>2. req' = [req EXCEPT ![h] = IdleRequest] /\ req \in [RegHosts -> Reqs] /\ IdleRequest \in Reqs
    BY <1>a, <1>0, StartPoints DEF RegTypes
  <2>3. copy' \in [RegHosts -> Dirs] /\ copy'[h] = c /\ \A g \in RegHosts : g # h => copy'[g] = copy[g]
    BY <1>a, <1>6, <2>1
  <2> QED
    BY <1>a, <2>2, <2>3
<1>13. /\ hnd' \in [RegHosts -> [1 .. 2 -> Handles]] /\ hnd'[h][i] = y
       /\ \A g \in RegHosts : g # h => hnd'[g] = hnd[g]
  <2>1. [hnd[h] EXCEPT ![i] = y] \in [1 .. 2 -> Handles] /\ [hnd[h] EXCEPT ![i] = y][i] = y
    BY <1>a, <1>1, <1>5
  <2>2. hnd \in [RegHosts -> [1 .. 2 -> Handles]]
    BY <1>a, <1>0 DEF RegTypes
  <2> QED
    BY <1>a, <1>4, <2>1, <2>2
<1>14. RegTypes'
  BY <1>a, <1>0, <1>2, <1>12, <1>13 DEF RegTypes
<1>15. Active(h)' \subseteq {i}
  <2>1. Active(h)' \subseteq Active(h)
    BY <1>a, <1>12, StartPoints DEF Active
  <2> QED
    BY <1>a, <1>1, <2>1
<1>16. HostInv(h)'
  <2>1. OnLine(new)'
    <3>1. new.head <= new.head /\ new.rev <= new.rev /\ new.gen <= gens'
      <4>1. man.gen = gens /\ gens \in Nat
        BY <1>0, <1>1 DEF NameInv
      <4>2. new.head \in Nat /\ new.rev \in Nat /\ new.gen = gens /\ gens' = gens
        BY <1>a, <1>b, <1>2, <4>1 DEF RegMans
      <4> QED
        BY <4>1, <4>2
    <3>2. new.segs = {k \in new.segs : k <= new.head}
      <4>1. \A k \in man'.segs : k <= man'.head
        BY <1>7 DEF NameInv
      <4> QED
        BY <1>a, <4>1
    <3> QED
      BY <1>a, <3>1, <3>2 DEF OnLine
  <2>2. \A j \in Active(h)' : hnd'[h][j] = y
    BY <1>a, <1>13, <1>15
  <2>3. \A j \in Active(h)' : hnd'[h][j].born # 0 /\ hnd'[h][j].born <= hnd'[h][j].man.gen /\ hnd'[h][j].man = new
    BY <1>a, <1>5, <1>10, <2>2
  <2>4. \A j \in Active(h)' : OnLine(hnd[h][j].man)'
    BY <1>a, <2>1, <2>3 DEF OnLine
  <2>5. req'[h].pc = "idle" /\ req'[h].pc \notin HasHandle
    BY <1>a, <1>12, StartPoints
  <2> QED
    BY <1>a, <2>3, <2>4, <2>5 DEF HostInv
<1>17. FreshInv(h)'
  <2>1. \A j \in Active(h)' : hnd'[h][j] = y
    BY <1>a, <1>13, <1>15
  <2>2. \A j \in Active(h)' : copy'[h].there /\ hnd'[h][j].born = man'.gen => CopyOf(hnd'[h][j].man, copy'[h])
    BY <1>a, <1>2, <1>5, <1>6, <1>11, <1>12, <2>1
  <2> QED
    BY <1>a, <2>2 DEF FreshInv, CopyOf
<1>18. SlotInv(h)' /\ SyncedInv(h)'
  BY <1>a, <1>12, StartPoints DEF SlotInv, SyncedInv
<1>19. \A g \in RegHosts : g # h => cur'[g] = cur[g] /\ hnd'[g] = hnd[g] /\ copy'[g] = copy[g] /\ req'[g] = req[g]
  BY <1>a, <1>12, <1>13
<1> QED
  BY <1>a, <1>2, <1>7, <1>8, <1>9, <1>14, <1>16, <1>17, <1>18, <1>19, BucketTurn

\* The manifest CAS of a push.
LEMMA CasStep ==
    ASSUME RegInv, NEW h \in RegHosts, PubCas(h)
    PROVE  RegInv'
<1> DEFINE m == hnd[h][req[h].hd].man
           new == [m EXCEPT !.rev = @ + 1, !.head = req[h].slot, !.segs = @ \cup {req[h].slot}]
<1>1. CASE man = m
  <2>1. PICK n : n = new
    OBVIOUS
  <2>2. n = [gen |-> man.gen, rev |-> man.rev + 1, head |-> req[h].slot, segs |-> man.segs \cup {req[h].slot}]
    BY <1>1, <2>1 DEF RegInv, RegTypes, RegMans
  <2> DEFINE y == [hnd[h][req[h].hd] EXCEPT !.man = n]
  <2>3. /\ req[h].pc = "slotted" /\ man' = n /\ hnd' = [hnd EXCEPT ![h][req[h].hd].man = n]
        /\ copy' = [copy EXCEPT ![h] = IF @.there /\ Readable(n) THEN ApplyDelta(@, n, FALSE) ELSE @]
        /\ req' = [req EXCEPT ![h] = IdleRequest] /\ UNCHANGED <<objs, gens, cur, del>>
    BY <1>1, <2>1 DEF PubCas
  <2>4. copy' = [copy EXCEPT ![h] = IF copy[h].there /\ Readable(n) THEN ApplyDelta(copy[h], n, FALSE) ELSE copy[h]]
    BY <2>3 DEF RegInv, RegTypes
  <2>5. hnd[h] \in [1 .. 2 -> Handles] /\ hnd[h][req[h].hd] \in Handles
    BY <2>3, HeldFacts DEF HasHandle
  <2>6. hnd' = [hnd EXCEPT ![h] = [hnd[h] EXCEPT ![req[h].hd] = y]]
    BY <2>3, <2>5 DEF RegInv, RegTypes
  <2>7. n \in RegMans
    BY <2>2 DEF RegInv, RegTypes, RegMans, Reqs
  <2>8. y \in Handles /\ y.man = n /\ y.born = hnd[h][req[h].hd].born /\ y.verified = hnd[h][req[h].hd].verified
    BY <2>5, <2>7 DEF Handles
  <2>9. Won(h, n, y)
    <3>1. /\ n.gen = man.gen /\ n.rev = man.rev + 1 /\ n.head = req[h].slot /\ n.segs = man.segs \cup {req[h].slot}
      BY <2>2
    <3>2. man = hnd[h][req[h].hd].man
      BY <1>1
    <3>3. /\ req[h].pc = "slotted" /\ man' = n /\ req' = [req EXCEPT ![h] = IdleRequest] /\ UNCHANGED <<objs, gens, cur, del>>
      BY <2>3
    <3> HIDE DEF new, y, m
    <3> QED
      BY <2>4, <2>6, <2>8, <3>1, <3>2, <3>3, Zenon DEF Won
  <2> HIDE DEF new, y
  <2> QED
    BY <2>7, <2>8, <2>9, WonStep
<1>2. CASE man # m
  <2>1. /\ objs' = [k \in {s \in DOMAIN objs : s = req[h].slot => objs[s] # [gen |-> m.gen, by |-> h]} |-> objs[k]]
        /\ req[h].pc = "slotted" /\ req' = [req EXCEPT ![h] = IdleRequest]
        /\ UNCHANGED <<man, gens, cur, hnd, copy, del>>
    BY <1>2 DEF PubCas
  <2> QED
    BY <1>2, <2>1, LostStep
<1> QED
  BY <1>1, <1>2

LEMMA RegInitInv == RegInit => RegInv
<1>1. SUFFICES ASSUME RegInit PROVE RegInv
  OBVIOUS
<1>2. NewHandle(NoMan, FALSE) \in Handles
  BY StartPoints DEF NewHandle, Handles, NoMan
<1>3. RegTypes
  <2>1. 0 \in Nat /\ 0 \in 0 .. 2 /\ DOMAIN objs = {}
    BY <1>1 DEF RegInit
  <2> QED
    BY <1>1, <1>2, <2>1, StartPoints DEF RegInit, RegTypes
<1>4. NameInv
  BY <1>1, StartPoints DEF RegInit, NameInv, SegmentsOwn
<1>5. ASSUME NEW h \in RegHosts PROVE HostInv(h) /\ FreshInv(h) /\ SlotInv(h) /\ SyncedInv(h)
  <2>1. req[h].pc = "idle" /\ req[h].pc \notin HasHandle /\ cur[h] = 0
    BY <1>1, StartPoints DEF RegInit
  <2>2. Active(h) = {}
    BY <2>1 DEF Active
  <2> QED
    BY <2>1, <2>2 DEF HostInv, FreshInv, SlotInv, SyncedInv
<1> QED
  BY <1>3, <1>4, <1>5 DEF RegInv

LEMMA RegNextInv ==
    ASSUME RegInv, CreateDuringDelete = FALSE, [RegNext]_regVars
    PROVE  RegInv'
<1>1. CASE RegNext
  <2>1. PICK h \in RegHosts :
            \/ ReqOpen(h) \/ OpenInstall(h) \/ ReqCreate(h) \/ CreateInstall(h) \/ ReqSync(h) \/ ReqEnd(h)
            \/ PubSlot(h) \/ PubCas(h) \/ DelBegin(h) \/ DelManifest(h) \/ DelObject(h) \/ DelDir(h)
            \/ EvictIdle(h) \/ RegRestart(h)
    BY <1>1 DEF RegNext
  <2> QED
    BY <2>1, OpenStep, InstallStep, CreateStep, SyncStep, SlotStep, CasStep, DeleteStep, ForgetStep
<1>2. CASE UNCHANGED regVars
  <2> USE <1>2 DEF regVars
  <2>1. RegTypes' /\ NameInv'
    BY DEF RegInv, RegTypes, NameInv, SegmentsOwn
  <2>2. \A h \in RegHosts : Active(h)' = Active(h)
    BY DEF Active
  <2>3. \A m : OnLine(m)' = OnLine(m)
    BY DEF OnLine
  <2>4. ASSUME NEW h \in RegHosts PROVE HostInv(h)'
    BY <2>2, <2>3, <2>4 DEF RegInv, HostInv, CopyOf, Exact, OnLine
  <2>5. ASSUME NEW h \in RegHosts PROVE FreshInv(h)'
    BY <2>2, <2>5 DEF RegInv, FreshInv, Exact
  <2>6. ASSUME NEW h \in RegHosts PROVE SlotInv(h)' /\ SyncedInv(h)'
    BY <2>2, <2>6 DEF RegInv, SlotInv, SyncedInv, Exact
  <2> QED
    BY <2>1, <2>4, <2>5, <2>6 DEF RegInv
<1> QED
  BY <1>1, <1>2

\* registry.rs, delete, create, open, publish and evict of one name: unless the name is created again
\* while a delete of it is still at work, what the manifest lists was written for the repository that
\* is there, and a handle that was opened on it serves its refs and no others.
THEOREM GenerationsStayApart ==
    ASSUME CreateDuringDelete = FALSE
    PROVE  RegSpec => []GenerationsApart
<1>1. RegInit => RegInv
  BY RegInitInv
<1>2. RegInv /\ [RegNext]_regVars => RegInv'
  BY RegNextInv
<1>3. RegInv => GenerationsApart
  BY DEF RegInv, NameInv, SyncedInv, GenerationsApart, FreshHandleExact
<1> QED
  BY <1>1, <1>2, <1>3, PTL DEF RegSpec

\* registry.rs, delete against a publish that is under way elsewhere: in the same circumstances a
\* repository that was deleted never comes back, a manifest that appears is that of a new one.
THEOREM DeletedStayDeleted ==
    ASSUME CreateDuringDelete = FALSE
    PROVE  RegSpec => NoResurrection
<1>1. RegInit => RegInv
  BY RegInitInv
<1>2. RegInv /\ [RegNext]_regVars => RegInv'
  BY RegNextInv
<1>3. RegInv /\ [RegNext]_regVars => [man.gen = 0 /\ man'.gen # 0 => man'.gen = gens + 1]_regVars
  <2>1. SUFFICES ASSUME RegInv, RegNext, man.gen = 0, man'.gen # 0 PROVE man'.gen = gens + 1
    OBVIOUS
  <2>2. PICK h \in RegHosts :
            \/ ReqOpen(h) \/ OpenInstall(h) \/ ReqCreate(h) \/ CreateInstall(h) \/ ReqSync(h) \/ ReqEnd(h)
            \/ PubSlot(h) \/ PubCas(h) \/ DelBegin(h) \/ DelManifest(h) \/ DelObject(h) \/ DelDir(h)
            \/ EvictIdle(h) \/ RegRestart(h)
    BY <2>1 DEF RegNext
  <2>3. CASE ReqCreate(h)
    BY <2>3 DEF ReqCreate
  <2>4. CASE PubCas(h)
    <3>1. req[h].pc = "slotted" /\ (man = hnd[h][req[h].hd].man \/ man' = man)
      BY <2>4 DEF PubCas
    <3> QED
      BY <2>1, <3>1, HeldFacts DEF HasHandle
  <2>5. CASE man' = man \/ man' = NoMan
    BY <2>1, <2>5, StartPoints
  <2> QED
    BY <2>2, <2>3, <2>4, <2>5
       DEF ReqOpen, OpenInstall, CreateInstall, ReqSync, ReqEnd, PubSlot, DelBegin, DelManifest, DelObject, DelDir,
           EvictIdle, RegRestart
<1> QED
  BY <1>1, <1>2, <1>3, PTL DEF RegSpec, NoResurrection

(***************************************************************************)
(* Import: the inductive invariant.                                        *)
(***************************************************************************)

PackIds == DOMAIN ImPacks
Objs2 == PackIds \X Kinds2
Tips0 == ImCommits \cup {0}
Hist0 == PackIds \cup {0}
ImWals == [ver : Nat, head : Nat, ck : Nat, packs : SUBSET PackIds, refs : Tips0, pushes : SUBSET Nat, history : Hist0]
Markers == [tips : Tips0, base : Nat, seq : Nat, phase : {"started", "verified", "side files", "history", "uploaded", "bundled"},
            uploaded : SUBSET Objs2, history : Hist0, bundle : Tips0]
Unread == {"base"}
Upload3 == {"heads", "upload", "mark"}
Write3 == {"refs", "bundle", "checkpoint", "cas"}
Claimed == {"verify", "side", "history"} \cup Upload3 \cup Write3
After == {"list", "unmark"}
Ends == {"idle", "done", "nothing to do", "refused", "failed"}
Importers == [pc : Unread \cup Claimed \cup After \cup Ends, replace : BOOLEAN, force : BOOLEAN, bundle : BOOLEAN,
              tips : Tips0, history : BOOLEAN, packs : SUBSET PackIds, base : Nat, given : SUBSET Nat,
              left : SUBSET PackIds, todo : SUBSET Objs2, present : SUBSET Objs2, hist : Hist0, entry : Tips0]
Sources2 == [tips : ImCommits, packs : SUBSET PackIds, changed : BOOLEAN]

ImTypes ==
    /\ imWal \in ImWals /\ imStore \subseteq Objs2
    /\ imCk \in [ImSeqs -> SUBSET PackIds] /\ imCkRefs \in [ImSeqs -> Tips0]
    /\ imSrc \in Sources2 /\ imMarker \in Markers /\ im \in Importers
    /\ imGiven \subseteq Nat /\ imCrashes \in 0 .. MaxCrashes /\ imAcked \in 0 .. MaxPushes

\* The packs that are wholly in the store.
Stored(packs) == \A p \in packs : StoredObjects(p) \subseteq imStore

\* The manifest can be served, and its head is within what pushes and imports make it.
WalInv ==
    /\ imWal.ck <= imWal.head /\ Stored(imWal.packs) /\ Closed(imWal.refs, imWal.packs)
    /\ imWal.ck > 0 /\ imWal.ck = imWal.head => imCk[imWal.ck] = imWal.packs /\ imCkRefs[imWal.ck] = imWal.refs
    /\ imWal.head <= imAcked + imCrashes + (IF im.pc \in After \cup {"done"} THEN 1 ELSE 0)
    /\ PushesKept

\* The marker is of a manifest that was there, and names what is stored; a marker that says verified
\* speaks of the source as it is, if it is of its refs.
MarkInv ==
    /\ imMarker.tips = 0 => imMarker = NoMarker
    /\ imMarker.base <= imWal.ver /\ imMarker.uploaded \subseteq imStore
    /\ imMarker.tips # 0 /\ imMarker.base = imWal.ver => imMarker.seq = imWal.head + 1
    /\ imMarker.tips = imSrc.tips /\ Done("verified") => Closed(imSrc.tips, imSrc.packs)

\* What an import works on: the source, and the manifest it read.
WorkInv ==
    /\ im.pc \in Unread \cup Claimed => im.tips = imSrc.tips /\ im.packs = imSrc.packs
    /\ im.pc \in Claimed =>
           /\ imMarker.tips = im.tips /\ imMarker.base = im.base /\ im.base <= imWal.ver
           /\ im.base = imWal.ver => im.given = imWal.pushes
           /\ imMarker.seq > imWal.ck /\ imMarker.seq \in ImSeqs
    /\ im.pc \in Claimed \ {"verify"} => Closed(im.tips, im.packs)

\* How far the packs are, and what is written for the manifest to come.
UpInv ==
    /\ im.pc \in Unread \cup Claimed /\ im.pc \notin {"upload", "mark"} => im.todo = {}
    /\ im.pc \in Upload3 => /\ im.present \subseteq imStore
                            /\ \A p \in im.packs \ im.left : StoredObjects(p) \subseteq imStore \cup im.todo
    /\ im.pc \in Write3 => Stored(im.packs)
    /\ im.pc \in Write3 \ {"refs"} => imCkRefs[imMarker.seq] = im.tips
    /\ im.pc = "cas" => imCk[imMarker.seq] = im.packs

ImInv == ImTypes /\ WalInv /\ MarkInv /\ WorkInv /\ UpInv

\* The first phase of a marker is before the one that says verified.
LEMMA NotYetVerified == PhaseNo("started") = 1 /\ PhaseNo("verified") = 2
<1>1. /\ DOMAIN Phases = 1 .. 6 /\ Phases[1] = "started" /\ Phases[2] = "verified" /\ Phases[3] = "side files"
      /\ Phases[4] = "history" /\ Phases[5] = "uploaded" /\ Phases[6] = "bundled"
  BY DEF Phases
<1>2. \A i \in 1 .. 6 : (Phases[i] = "started" <=> i = 1) /\ (Phases[i] = "verified" <=> i = 2)
  <2> TAKE i \in 1 .. 6
  <2>1. i = 1 \/ i = 2 \/ i = 3 \/ i = 4 \/ i = 5 \/ i = 6
    OBVIOUS
  <2> QED
    BY <1>1, <2>1
<1>3. 1 \in 1 .. 6 /\ 2 \in 1 .. 6
  OBVIOUS
<1> HIDE DEF Phases
<1> QED
  BY <1>1, <1>2, <1>3 DEF PhaseNo

\* What no import and no marker are.
LEMMA NothingYet ==
    /\ NoMarker \in Markers /\ NoMarker.tips = 0 /\ NoMarker.base = 0 /\ NoMarker.uploaded = {}
    /\ NoImport \in Importers /\ NoImport.pc = "idle" /\ NoImport.todo = {}
<1>1. 0 \in Tips0 /\ 0 \in Hist0 /\ 0 \in Nat
  BY DEF Tips0, Hist0
<1>2. NoMarker \in Markers
  BY <1>1 DEF NoMarker, Markers
<1>3. NoImport \in Importers
  BY <1>1 DEF NoImport, Importers, Ends
<1> QED
  BY <1>2, <1>3 DEF NoMarker, NoImport

\* The counts of the manifest.
LEMMA WalCounts ==
    ASSUME ImTypes
    PROVE  /\ imWal.ver \in Nat /\ imWal.head \in Nat /\ imWal.ck \in Nat /\ imAcked \in Nat /\ imCrashes \in Nat
           /\ imAcked <= MaxPushes /\ imCrashes <= MaxCrashes /\ MaxPushes \in Nat /\ MaxCrashes \in Nat
           /\ imMarker.base \in Nat /\ imMarker.seq \in Nat /\ im.base \in Nat
<1>1. imWal.ver \in Nat /\ imWal.head \in Nat /\ imWal.ck \in Nat
  BY DEF ImTypes, ImWals
<1>2. imMarker.base \in Nat /\ imMarker.seq \in Nat
  BY DEF ImTypes, Markers
<1>3. im.base \in Nat
  BY DEF ImTypes, Importers
<1>4. MaxPushes \in Nat /\ MaxCrashes \in Nat /\ imCrashes \in 0 .. MaxCrashes /\ imAcked \in 0 .. MaxPushes
  BY ImportAssumption DEF ImTypes
<1> QED
  BY <1>1, <1>2, <1>3, <1>4

\* The head is where a checkpoint can be.
LEMMA HeadInRange ==
    ASSUME ImTypes, WalInv
    PROVE  /\ imWal.head > 0 => imWal.head \in ImSeqs
           /\ imWal.ck > 0 => imWal.ck \in ImSeqs
           /\ imWal.head + 1 \in ImSeqs
<1>1. imWal.head <= MaxPushes + MaxCrashes + 1 /\ imWal.ck <= imWal.head
  BY WalCounts DEF WalInv
<1> QED
  BY <1>1, WalCounts DEF ImSeqs

\* The next marker is of the same import.
SameImport(k) == k.tips = imMarker.tips /\ k.base = imMarker.base /\ k.seq = imMarker.seq
SameRun(q) == q.tips = im.tips /\ q.packs = im.packs /\ q.base = im.base /\ q.given = im.given

\* A step of an import that has its marker, up to the manifest.
LEMMA ClaimTurn ==
    ASSUME ImInv, im.pc \in Claimed, Closed(im.tips, im.packs),
           NEW q \in Importers, im' = q, SameRun(q), q.pc \in Claimed \ {"verify"},
           NEW k \in Markers, imMarker' = k, SameImport(k), k.uploaded \subseteq imStore',
           imStore \subseteq imStore', imStore' \subseteq Objs2,
           imCk' \in [ImSeqs -> SUBSET PackIds], imCkRefs' \in [ImSeqs -> Tips0],
           \A s \in ImSeqs : s # imMarker.seq => imCk'[s] = imCk[s] /\ imCkRefs'[s] = imCkRefs[s],
           UNCHANGED <<imWal, imSrc, imGiven, imCrashes, imAcked>>, UpInv'
    PROVE  ImInv'
<1>0. ImTypes /\ WalInv /\ MarkInv /\ WorkInv
  BY DEF ImInv
<1>1. ImTypes'
  BY <1>0 DEF ImTypes
<1>2. WalInv'
  <2>1. Stored(imWal.packs)'
    BY <1>0 DEF WalInv, Stored
  <2>2. imWal.ck > 0 => imWal.ck \in ImSeqs /\ imWal.ck # imMarker.seq
    BY <1>0, HeadInRange, WalCounts DEF WorkInv
  <2>3. imWal.ck > 0 => imCk'[imWal.ck] = imCk[imWal.ck] /\ imCkRefs'[imWal.ck] = imCkRefs[imWal.ck]
    BY <2>2
  <2>4. im.pc \notin After \cup {"done"} /\ q.pc \notin After \cup {"done"}
    BY DEF Claimed, Upload3, Write3, After
  <2>5. PushesKept'
    BY <1>0 DEF WalInv, PushesKept
  <2> QED
    BY <1>0, <2>1, <2>3, <2>4, <2>5 DEF WalInv
<1>3. im.tips = imSrc.tips /\ im.packs = imSrc.packs /\ imMarker.tips = im.tips /\ im.tips # 0
  <2>1. imSrc.tips # 0
    BY <1>0, ImportAssumption DEF ImTypes, Sources2
  <2> QED
    BY <1>0, <2>1 DEF WorkInv
<1>4. MarkInv'
  BY <1>0, <1>3 DEF MarkInv, SameImport
<1>5. WorkInv'
  BY <1>0, <1>3 DEF WorkInv, SameImport, SameRun
<1> QED
  BY <1>1, <1>2, <1>4, <1>5 DEF ImInv

\* An import that ends, for now or for good, or has only to tidy up.
LEMMA EndTurn ==
    ASSUME ImInv, NEW q \in Importers, im' = q, q.pc \in Ends \cup After,
           imMarker' = imMarker \/ imMarker' = NoMarker,
           imCrashes' \in 0 .. MaxCrashes,
           imWal.head <= imAcked + imCrashes' + (IF q.pc \in After \cup {"done"} THEN 1 ELSE 0),
           UNCHANGED <<imWal, imStore, imCk, imCkRefs, imSrc, imGiven, imAcked>>
    PROVE  ImInv'
<1>0. ImTypes /\ WalInv /\ MarkInv
  BY DEF ImInv
<1>1. ImTypes'
  BY <1>0, NothingYet DEF ImTypes
<1>2. WalInv'
  BY <1>0 DEF WalInv, PushesKept, Stored
<1>3. MarkInv'
  <2>1. imSrc.tips # 0
    BY <1>0, ImportAssumption DEF ImTypes, Sources2
  <2>2. CASE imMarker' = imMarker
    BY <1>0, <2>2 DEF MarkInv, Done
  <2>3. CASE imMarker' = NoMarker
    BY <1>0, <2>1, <2>3, NothingYet, WalCounts DEF MarkInv
  <2> QED
    BY <2>2, <2>3
<1>4. q.pc \notin Unread \cup Claimed
  BY DEF Ends, After, Unread, Claimed, Upload3, Write3
<1>5. WorkInv'
  BY <1>4 DEF WorkInv
<1>6. UpInv'
  <2>1. q.pc \notin Upload3 /\ q.pc \notin Write3 /\ q.pc # "cas"
    BY <1>4 DEF Claimed, Write3
  <2> QED
    BY <1>4, <2>1 DEF UpInv
<1> QED
  BY <1>1, <1>2, <1>3, <1>5, <1>6 DEF ImInv

\* A run starts: the source is read.
LEMMA StartImportStep ==
    ASSUME ImInv, ImStart
    PROVE  ImInv'
<1>0. ImTypes /\ WalInv /\ MarkInv /\ UNCHANGED <<imWal, imStore, imCk, imCkRefs, imSrc, imMarker, imGiven, imCrashes, imAcked>>
  BY DEF ImInv, ImStart
<1>1. PICK q \in Importers : im' = q /\ q.pc = "base" /\ q.tips = imSrc.tips /\ q.packs = imSrc.packs /\ q.todo = {}
  <2>1. PICK replace \in BOOLEAN, force \in BOOLEAN, more \in BOOLEAN :
            im' = [NoImport EXCEPT !.pc = "base", !.replace = replace, !.force = force,
                     !.bundle = more, !.history = more, !.tips = SourceTips, !.packs = SourcePacks]
    BY DEF ImStart
  <2> DEFINE q == [NoImport EXCEPT !.pc = "base", !.replace = replace, !.force = force,
                     !.bundle = more, !.history = more, !.tips = SourceTips, !.packs = SourcePacks]
  <2>2. imSrc.tips \in Tips0 /\ imSrc.packs \in SUBSET PackIds
    BY <1>0 DEF ImTypes, Sources2, Tips0
  <2>3. NoImport \in Importers /\ NoImport.todo = {} /\ "base" \in Unread
    BY NothingYet DEF Unread
  <2>4. PICK t \in Tips0, ps \in SUBSET PackIds : t = SourceTips /\ ps = SourcePacks /\ t = imSrc.tips /\ ps = imSrc.packs
    BY <2>2 DEF SourceTips, SourcePacks
  <2>5. q = [NoImport EXCEPT !.pc = "base", !.replace = replace, !.force = force, !.bundle = more, !.history = more,
                             !.tips = t, !.packs = ps]
    BY <2>4
  <2>6. im' = q
    BY <2>1
  <2> HIDE DEF q
  <2>7. q \in Importers /\ q.pc = "base" /\ q.tips = t /\ q.packs = ps /\ q.todo = {}
    <3>1. PICK r : r = [NoImport EXCEPT !.pc = "base", !.replace = replace, !.force = force]
      OBVIOUS
    <3>2. r \in Importers /\ r.pc = "base" /\ r.todo = {}
      BY <2>3, <3>1 DEF Importers
    <3>3. PICK s : s = [r EXCEPT !.bundle = more, !.history = more]
      OBVIOUS
    <3>4. s \in Importers /\ s.pc = "base" /\ s.todo = {}
      BY <3>2, <3>3 DEF Importers
    <3>5. [s EXCEPT !.tips = t, !.packs = ps] \in Importers
      BY <3>4 DEF Importers
    <3>6. q = [s EXCEPT !.tips = t, !.packs = ps]
      BY <2>5, <3>1, <3>3
    <3>7. s \in Importers => /\ [s EXCEPT !.tips = t, !.packs = ps].tips = t
                            /\ [s EXCEPT !.tips = t, !.packs = ps].packs = ps
                            /\ [s EXCEPT !.tips = t, !.packs = ps].pc = s.pc
                            /\ [s EXCEPT !.tips = t, !.packs = ps].todo = s.todo
      BY DEF Importers
    <3> QED
      BY <3>4, <3>5, <3>6, <3>7
  <2> QED
    BY <2>4, <2>6, <2>7
<1>2. ImTypes'
  BY <1>0, <1>1 DEF ImTypes
<1>3. im.pc = "idle" /\ im.pc \notin After \cup {"done"} /\ q.pc \notin After \cup {"done"}
  BY <1>1 DEF ImStart, After
<1>4. WalInv'
  BY <1>0, <1>1, <1>3 DEF WalInv, PushesKept, Stored
<1>5. MarkInv'
  BY <1>0 DEF MarkInv, Done
<1>6. WorkInv' /\ UpInv'
  <2>1. q.pc \notin Claimed /\ q.pc \notin Upload3 /\ q.pc \notin Write3
    BY <1>1 DEF Claimed, Upload3, Write3
  <2> QED
    BY <1>0, <1>1, <2>1 DEF WorkInv, UpInv
<1> QED
  BY <1>2, <1>4, <1>5, <1>6 DEF ImInv

\* im with another pc.
LEMMA GoesTyped ==
    ASSUME ImTypes, NEW pc, pc \in Unread \cup Claimed \cup After \cup Ends
    PROVE  /\ [im EXCEPT !.pc = pc] \in Importers /\ [im EXCEPT !.pc = pc].pc = pc
           /\ SameRun([im EXCEPT !.pc = pc])
           /\ [im EXCEPT !.pc = pc].left = im.left /\ [im EXCEPT !.pc = pc].todo = im.todo
           /\ [im EXCEPT !.pc = pc].present = im.present
BY DEF ImTypes, Importers, SameRun

\* An import stops, where it was or by an interruption that is counted.
LEMMA StopTurn ==
    ASSUME ImInv, NEW pc \in Ends \ {"done"}, ImGoes(pc), imMarker' = imMarker \/ imMarker' = NoMarker,
           \/ im.pc \notin After \cup {"done"} /\ imCrashes' = imCrashes
           \/ imCrashes < MaxCrashes /\ imCrashes' = imCrashes + 1,
           UNCHANGED <<imWal, imStore, imCk, imCkRefs, imSrc, imGiven, imAcked>>
    PROVE  ImInv'
<1>0. ImTypes /\ WalInv
  BY DEF ImInv
<1>1. PICK q : q = [im EXCEPT !.pc = pc]
  OBVIOUS
<1>2. q \in Importers /\ q.pc = pc /\ im' = q
  BY <1>0, <1>1, GoesTyped DEF ImGoes
<1>3. imCrashes' \in 0 .. MaxCrashes
  BY <1>0, WalCounts
<1>4. q.pc \in Ends \cup After /\ q.pc \notin After \cup {"done"}
  BY <1>2 DEF Ends, After
<1>5. imWal.head <= imAcked + imCrashes'
  BY <1>0, WalCounts DEF WalInv
<1>6. imWal.head <= imAcked + imCrashes' + (IF q.pc \in After \cup {"done"} THEN 1 ELSE 0)
  BY <1>0, <1>3, <1>4, <1>5, WalCounts
<1> QED
  BY <1>2, <1>3, <1>4, <1>6, EndTurn

\* decide_resume and the marker to go on with.
LEMMA BaseStep ==
    ASSUME ImInv, ImBase
    PROVE  ImInv'
<1>0. /\ ImTypes /\ WalInv /\ MarkInv /\ WorkInv /\ UpInv /\ im.pc = "base"
      /\ UNCHANGED <<imWal, imStore, imCk, imCkRefs, imSrc, imGiven, imCrashes, imAcked>>
  BY DEF ImInv, ImBase
<1>1. im.pc \notin After \cup {"done"} /\ im.tips = imSrc.tips /\ im.packs = imSrc.packs /\ im.todo = {} /\ imSrc.tips # 0
  <2>1. imSrc.tips # 0
    BY <1>0, ImportAssumption DEF ImTypes, Sources2
  <2> QED
    BY <1>0, <2>1 DEF WorkInv, UpInv, After, Unread
<1>3. CASE ImGoes("nothing to do") /\ imMarker' = NoMarker
  <2>1. "nothing to do" \in Ends \ {"done"}
    BY DEF Ends
  <2> QED
    BY <1>0, <1>1, <1>3, <2>1, StopTurn
<1>4. CASE ImGoes("refused") /\ imMarker' = imMarker
  <2>1. "refused" \in Ends \ {"done"}
    BY DEF Ends
  <2> QED
    BY <1>0, <1>1, <1>4, <2>1, StopTurn
<1>5. CASE /\ im' = [im EXCEPT !.pc = "verify", !.base = imWal.ver, !.given = imWal.pushes]
           /\ \/ imMarker' = FreshMarker
              \/ imMarker' = imMarker /\ imMarker.tips = im.tips /\ imMarker.base = imWal.ver
  <2>1. PICK q \in Importers : /\ im' = q /\ q.pc = "verify" /\ q.base = imWal.ver /\ q.given = imWal.pushes
                               /\ q.tips = im.tips /\ q.packs = im.packs /\ q.todo = {}
    <3> DEFINE q == [im EXCEPT !.pc = "verify", !.base = imWal.ver, !.given = imWal.pushes]
    <3>1. imWal.ver \in Nat /\ imWal.pushes \in SUBSET Nat /\ "verify" \in Claimed
      BY <1>0 DEF ImTypes, ImWals, Claimed
    <3>2. q \in Importers /\ q.pc = "verify" /\ q.base = imWal.ver /\ q.given = imWal.pushes
          /\ q.tips = im.tips /\ q.packs = im.packs /\ q.todo = {}
      BY <1>0, <1>1, <3>1 DEF ImTypes, Importers
    <3> QED
      BY <1>5, <3>2
  <2>2. PICK k \in Markers : /\ imMarker' = k /\ k.tips = im.tips /\ k.base = imWal.ver /\ k.seq = imWal.head + 1
                             /\ k.uploaded \subseteq imStore
                             /\ PhaseNo(k.phase) >= PhaseNo("verified") => Closed(imSrc.tips, imSrc.packs)
    <3>1. CASE imMarker' = FreshMarker
      <4>1. NoMarker \in Markers /\ im.tips \in Tips0 /\ imWal.ver \in Nat /\ imWal.head + 1 \in Nat
        BY <1>0, WalCounts, NothingYet DEF ImTypes, Importers
      <4>2. /\ FreshMarker \in Markers /\ FreshMarker.tips = im.tips /\ FreshMarker.base = imWal.ver
            /\ FreshMarker.seq = imWal.head + 1 /\ FreshMarker.uploaded = {} /\ FreshMarker.phase = "started"
        BY <4>1 DEF FreshMarker, Markers, NoMarker
      <4> QED
        BY <3>1, <4>2, NotYetVerified
    <3>2. CASE imMarker' = imMarker /\ imMarker.tips = im.tips /\ imMarker.base = imWal.ver
      BY <1>0, <1>1, <3>2 DEF MarkInv, ImTypes, Done
    <3> QED
      BY <1>5, <3>1, <3>2
  <2>3. ImTypes'
    BY <1>0, <2>1, <2>2 DEF ImTypes
  <2>4. WalInv'
    <3>1. q.pc \notin After \cup {"done"}
      BY <2>1 DEF After
    <3> QED
      BY <1>0, <1>1, <2>1, <3>1 DEF WalInv, PushesKept, Stored
  <2>5. MarkInv'
    BY <1>0, <1>1, <2>2, WalCounts DEF MarkInv, Done
  <2>6. WorkInv'
    <3>1. imWal.head + 1 \in ImSeqs /\ imWal.head + 1 > imWal.ck
      BY <1>0, HeadInRange, WalCounts DEF WalInv
    <3>2. q.pc = "verify" /\ imWal.ver <= imWal.ver
      BY <1>0, <2>1, WalCounts
    <3> QED
      BY <1>0, <1>1, <2>1, <2>2, <3>1, <3>2 DEF WorkInv
  <2>7. UpInv'
    <3>1. q.pc \notin Upload3 /\ q.pc \notin Write3
      BY <2>1 DEF Upload3, Write3
    <3> QED
      BY <2>1, <3>1 DEF UpInv
  <2> QED
    BY <2>3, <2>4, <2>5, <2>6, <2>7 DEF ImInv
<1> QED
  BY <1>3, <1>4, <1>5 DEF ImBase, ResumeDecision

\* A step of an import that writes nothing but its marker.
LEMMA QuietTurn ==
    ASSUME ImInv, im.pc \in Claimed, Closed(im.tips, im.packs),
           NEW q \in Importers, im' = q, SameRun(q), q.pc \in Claimed \ {"verify"},
           NEW k \in Markers, imMarker' = k, SameImport(k), k.uploaded \subseteq imStore,
           UNCHANGED <<imWal, imStore, imCk, imCkRefs, imSrc, imGiven, imCrashes, imAcked>>, UpInv'
    PROVE  ImInv'
<1>1. imStore \subseteq imStore' /\ imStore' \subseteq Objs2 /\ k.uploaded \subseteq imStore'
  BY DEF ImInv, ImTypes
<1>2. /\ imCk' \in [ImSeqs -> SUBSET PackIds] /\ imCkRefs' \in [ImSeqs -> Tips0]
      /\ \A s \in ImSeqs : s # imMarker.seq => imCk'[s] = imCk[s] /\ imCkRefs'[s] = imCkRefs[s]
  BY DEF ImInv, ImTypes
<1> QED
  BY <1>1, <1>2, ClaimTurn

\* What every step of an import that has its marker can use.
LEMMA ClaimFacts ==
    ASSUME ImInv, im.pc \in Claimed
    PROVE  /\ ImTypes /\ im \in Importers /\ imMarker \in Markers /\ SameImport(imMarker)
           /\ imMarker.uploaded \subseteq imStore /\ imStore \subseteq Objs2
           /\ im.pc # "verify" => Closed(im.tips, im.packs)
           /\ im.pc \notin {"upload", "mark"} => im.todo = {}
           /\ imMarker.tips = im.tips /\ im.tips = imSrc.tips /\ im.packs = imSrc.packs
           /\ imMarker.seq \in ImSeqs
BY DEF ImInv, ImTypes, MarkInv, WorkInv, UpInv, SameImport

\* The checks before the upload, and the side file.
LEMMA CheckStep ==
    ASSUME ImInv, ImVerify \/ ImSide
    PROVE  ImInv'
<1>0. /\ im.pc \in {"verify", "side"} /\ im.pc \in Claimed
      /\ UNCHANGED <<imWal, imStore, imCk, imCkRefs, imSrc, imGiven, imCrashes, imAcked>>
  BY DEF ImVerify, ImSide, Claimed
<1>1. /\ ImTypes /\ im \in Importers /\ imMarker \in Markers /\ SameImport(imMarker) /\ im.todo = {}
      /\ imMarker.uploaded \subseteq imStore
  BY <1>0, ClaimFacts
<1>2. CASE ImGoes("refused") /\ imMarker' = imMarker
  <2>1. "refused" \in Ends \ {"done"} /\ im.pc \notin After \cup {"done"}
    BY <1>0 DEF Ends, After
  <2> QED
    BY <1>0, <1>2, <2>1, StopTurn
<1>3. ASSUME NEW pc \in {"side", "history"}, ImGoes(pc), Closed(im.tips, im.packs),
             \/ imMarker' = imMarker
             \/ \E ph \in {"verified", "side files"} : imMarker' = [imMarker EXCEPT !.phase = ph]
      PROVE  ImInv'
  <2>1. PICK q : q = [im EXCEPT !.pc = pc]
    OBVIOUS
  <2>2. q \in Importers /\ q.pc = pc /\ im' = q /\ SameRun(q) /\ q.todo = {} /\ q.pc \in Claimed \ {"verify"}
    BY <1>1, <1>3, <2>1, GoesTyped DEF ImGoes, Claimed
  <2>3. PICK k \in Markers : imMarker' = k /\ SameImport(k) /\ k.uploaded = imMarker.uploaded
    BY <1>1, <1>3 DEF Markers, SameImport
  <2>4. UpInv'
    <3>1. q.pc \notin Upload3 /\ q.pc \notin Write3
      BY <1>3, <2>2 DEF Upload3, Write3
    <3> QED
      BY <2>2, <3>1 DEF UpInv
  <2> QED
    BY <1>0, <1>1, <1>3, <2>2, <2>3, <2>4, QuietTurn
<1>4. CASE ImVerify
  <2>1. Done("verified") => Closed(im.tips, im.packs)
    BY <1>0, ClaimFacts DEF ImInv, MarkInv
  <2>2. CASE Closed(im.tips, im.packs)
    BY <1>3, <1>4, <2>2 DEF ImVerify, Mark
  <2>3. CASE ~Closed(im.tips, im.packs)
    BY <1>2, <1>4, <2>1, <2>3 DEF ImVerify
  <2> QED
    BY <2>2, <2>3
<1>5. CASE ImSide
  <2>1. Closed(im.tips, im.packs)
    BY <1>0, <1>5, ClaimFacts DEF ImSide
  <2>2. ImGoes("history") /\ imMarker' = [imMarker EXCEPT !.phase = IF Done("side files") THEN @ ELSE "side files"]
    BY <1>5 DEF ImSide, Mark
  <2>3. imMarker' = imMarker \/ imMarker' = [imMarker EXCEPT !.phase = "side files"]
    BY <1>1, <2>2 DEF Markers
  <2> QED
    BY <1>3, <2>1, <2>2, <2>3
<1> QED
  BY <1>4, <1>5

\* The history pack is known, and the uploads begin.
LEMMA HistoryStep ==
    ASSUME ImInv, ImHistory
    PROVE  ImInv'
<1>0. /\ im.pc = "history" /\ im.pc \in Claimed
      /\ UNCHANGED <<imWal, imStore, imCk, imCkRefs, imSrc, imGiven, imCrashes, imAcked>>
  BY DEF ImHistory, Claimed
<1>1. /\ ImTypes /\ im \in Importers /\ imMarker \in Markers /\ SameImport(imMarker) /\ im.todo = {}
      /\ imMarker.uploaded \subseteq imStore /\ Closed(im.tips, im.packs)
  BY <1>0, ClaimFacts
<1>2. PICK hist \in Hist0 : /\ im' = [im EXCEPT !.pc = "heads", !.left = im.packs, !.present = imMarker.uploaded, !.hist = hist]
                            /\ imMarker' = IF Done("history") THEN imMarker
                                           ELSE [imMarker EXCEPT !.phase = "history", !.history = hist]
  <2>1. PICK first \in im.packs :
            LET hist == IF im.history /\ imMarker.history = 0 THEN HistoryPackOf(first) ELSE imMarker.history
            IN  /\ im' = [im EXCEPT !.pc = "heads", !.left = im.packs, !.present = imMarker.uploaded, !.hist = hist]
                /\ imMarker' = IF Done("history") THEN imMarker
                               ELSE [imMarker EXCEPT !.phase = "history", !.history = hist]
    BY DEF ImHistory
  <2>2. first \in Hist0 /\ imMarker.history \in Hist0
    BY <1>1 DEF Importers, Markers, Hist0
  <2> QED
    BY <2>1, <2>2 DEF HistoryPackOf
<1>3. PICK q \in Importers : im' = q /\ q.pc = "heads" /\ SameRun(q) /\ q.left = im.packs /\ q.present = imMarker.uploaded /\ q.todo = {}
  <2> DEFINE q == [im EXCEPT !.pc = "heads", !.left = im.packs, !.present = imMarker.uploaded, !.hist = hist]
  <2>1. "heads" \in Claimed /\ imMarker.uploaded \in SUBSET Objs2
    BY <1>1 DEF Claimed, Upload3, Markers
  <2>2. q \in Importers /\ q.pc = "heads" /\ SameRun(q) /\ q.left = im.packs /\ q.present = imMarker.uploaded /\ q.todo = {}
    BY <1>1, <2>1 DEF Importers, SameRun
  <2> QED
    BY <1>2, <2>2
<1>4. PICK k \in Markers : imMarker' = k /\ SameImport(k) /\ k.uploaded = imMarker.uploaded
  <2>1. CASE Done("history")
    BY <1>1, <1>2, <2>1
  <2>2. CASE ~Done("history")
    <3>1. imMarker' = [imMarker EXCEPT !.phase = "history", !.history = hist]
      BY <1>2, <2>2
    <3> DEFINE k == [imMarker EXCEPT !.phase = "history", !.history = hist]
    <3>2. k \in Markers /\ SameImport(k) /\ k.uploaded = imMarker.uploaded
      BY <1>1 DEF Markers, SameImport
    <3> QED
      BY <3>1, <3>2
  <2> QED
    BY <2>1, <2>2
<1>5. UpInv'
  <2>1. q.pc = "heads" /\ "heads" \notin Write3 /\ q.packs = im.packs
    BY <1>3 DEF Write3, SameRun
  <2> QED
    BY <1>0, <1>1, <1>3, <2>1 DEF UpInv
<1>6. q.pc \in Claimed \ {"verify"}
  BY <1>3 DEF Claimed, Upload3
<1> QED
  BY <1>0, <1>1, <1>3, <1>4, <1>5, <1>6, QuietTurn

\* Heads and the end of the uploads: nothing is stored.
LEMMA HeadsStep ==
    ASSUME ImInv, ImHeads
    PROVE  ImInv'
<1>0. /\ im.pc = "heads" /\ im.pc \in Claimed /\ imMarker' = imMarker
      /\ UNCHANGED <<imWal, imStore, imCk, imCkRefs, imSrc, imGiven, imCrashes, imAcked>>
  BY DEF ImHeads, Claimed, Upload3
<1>1. /\ ImTypes /\ im \in Importers /\ imMarker \in Markers /\ SameImport(imMarker) /\ im.todo = {} /\ imStore \subseteq Objs2
      /\ imMarker.uploaded \subseteq imStore /\ Closed(im.tips, im.packs)
  BY <1>0, ClaimFacts
<1>2. PICK p \in im.left :
          im' = [im EXCEPT !.pc = "upload", !.left = @ \ {p},
                    !.todo = StoredObjects(p) \ (im.present \cup imStore),
                    !.present = @ \cup (StoredObjects(p) \cap imStore)]
  BY DEF ImHeads
<1>3. StoredObjects(p) \subseteq Objs2 /\ im.present \subseteq imStore
  <2>1. p \in PackIds
    BY <1>1 DEF Importers
  <2> QED
    BY <1>0, <2>1 DEF StoredObjects, Objs2, ImInv, UpInv, Upload3
<1>4. PICK q \in Importers : /\ im' = q /\ q.pc = "upload" /\ SameRun(q) /\ q.left = im.left \ {p}
                             /\ q.todo = StoredObjects(p) \ (im.present \cup imStore)
                             /\ q.present = im.present \cup (StoredObjects(p) \cap imStore)
  <2> DEFINE t == StoredObjects(p) \ (im.present \cup imStore)
             r == im.present \cup (StoredObjects(p) \cap imStore)
             q == [im EXCEPT !.pc = "upload", !.left = im.left \ {p}, !.todo = t, !.present = r]
  <2>1. t \in SUBSET Objs2 /\ r \in SUBSET Objs2 /\ "upload" \in Claimed /\ im.left \ {p} \in SUBSET PackIds
    BY <1>1, <1>3 DEF Claimed, Upload3, Importers
  <2>2. im' = q
    BY <1>1, <1>2 DEF Importers
  <2> HIDE DEF t, r
  <2>3. q \in Importers /\ q.pc = "upload" /\ SameRun(q) /\ q.left = im.left \ {p} /\ q.todo = t /\ q.present = r
    BY <1>1, <2>1 DEF Importers, SameRun
  <2> QED
    BY <2>2, <2>3 DEF t, r
<1>5. UpInv'
  <2>1. q.pc \in Upload3 /\ q.pc \notin Write3 /\ q.pc # "cas" /\ q.packs = im.packs
    BY <1>4 DEF Upload3, Write3, SameRun
  <2>2. q.present \subseteq imStore
    BY <1>3, <1>4
  <2>3. \A x \in im.packs \ im.left : StoredObjects(x) \subseteq imStore \cup im.todo
    BY <1>0 DEF ImInv, UpInv, Upload3
  <2>4. ASSUME NEW x \in q.packs \ q.left PROVE StoredObjects(x) \subseteq imStore \cup q.todo
    <3>1. CASE x = p
      BY <1>3, <1>4, <3>1
    <3>2. CASE x # p
      BY <1>1, <1>4, <2>1, <2>3, <2>4, <3>2
    <3> QED
      BY <3>1, <3>2
  <2> QED
    BY <1>0, <1>4, <2>1, <2>2, <2>4 DEF UpInv
<1>6. q.pc \in Claimed \ {"verify"}
  BY <1>4 DEF Claimed, Upload3
<1> QED
  BY <1>0, <1>1, <1>4, <1>5, <1>6, QuietTurn

\* An object is stored, or the pack is through.
LEMMA UploadObjectStep ==
    ASSUME ImInv, ImUpload
    PROVE  ImInv'
<1>0. /\ im.pc = "upload" /\ im.pc \in Claimed /\ imMarker' = imMarker
      /\ UNCHANGED <<imWal, imCk, imCkRefs, imSrc, imGiven, imCrashes, imAcked>>
  BY DEF ImUpload, Claimed, Upload3
<1>1. /\ ImTypes /\ im \in Importers /\ imMarker \in Markers /\ SameImport(imMarker) /\ imStore \subseteq Objs2
      /\ imMarker.uploaded \subseteq imStore /\ Closed(im.tips, im.packs)
  BY <1>0, ClaimFacts
<1>2. im.present \subseteq imStore /\ \A x \in im.packs \ im.left : StoredObjects(x) \subseteq imStore \cup im.todo
  BY <1>0 DEF ImInv, UpInv, Upload3
<1>3. CASE im.todo = {}
  <2>1. PICK q : q = [im EXCEPT !.pc = "heads"]
    OBVIOUS
  <2>2. im' = q /\ imStore' = imStore
    BY <1>3, <2>1 DEF ImUpload, ImGoes
  <2>3. "heads" \in Claimed
    BY DEF Claimed, Upload3
  <2>4. /\ q \in Importers /\ q.pc = "heads" /\ SameRun(q) /\ q.todo = {} /\ q.present = im.present /\ q.left = im.left
    BY <1>1, <1>3, <2>1, <2>3, GoesTyped
  <2>5. UpInv'
    <3>1. q.pc \notin Write3 /\ q.pc # "cas" /\ q.packs = im.packs
      BY <2>4 DEF Write3, SameRun
    <3> QED
      BY <1>0, <1>2, <1>3, <2>2, <2>4, <3>1 DEF UpInv
  <2>6. q.pc \in Claimed \ {"verify"}
    BY <2>3, <2>4
  <2> QED
    BY <1>0, <1>1, <2>2, <2>4, <2>5, <2>6, QuietTurn
<1>4. CASE im.todo # {}
  <2>1. PICK o \in im.todo : /\ imStore' = imStore \cup {o}
                             /\ im' = [im EXCEPT !.pc = "mark", !.todo = @ \ {o}, !.present = @ \cup {o}]
    BY <1>4 DEF ImUpload
  <2>2. PICK q \in Importers : im' = q /\ q.pc = "mark" /\ SameRun(q) /\ q.todo = im.todo \ {o} /\ q.present = im.present \cup {o} /\ q.left = im.left
    <3> DEFINE q == [im EXCEPT !.pc = "mark", !.todo = im.todo \ {o}, !.present = im.present \cup {o}]
    <3>1. "mark" \in Claimed /\ im.todo \ {o} \in SUBSET Objs2 /\ im.present \cup {o} \in SUBSET Objs2
      BY <1>1 DEF Claimed, Upload3, Importers
    <3>2. im' = q
      BY <1>1, <2>1 DEF Importers
    <3>3. q \in Importers /\ q.pc = "mark" /\ SameRun(q) /\ q.todo = im.todo \ {o} /\ q.present = im.present \cup {o} /\ q.left = im.left
      BY <1>1, <3>1 DEF Importers, SameRun
    <3> QED
      BY <3>2, <3>3
  <2>3. o \in Objs2 /\ imStore' \subseteq Objs2 /\ imStore \subseteq imStore' /\ imMarker.uploaded \subseteq imStore'
    BY <1>1, <2>1 DEF Importers
  <2>4. UpInv'
    <3>1. q.pc \notin Write3 /\ q.pc # "cas" /\ q.packs = im.packs
      BY <2>2 DEF Write3, SameRun
    <3>2. q.present \subseteq imStore' /\ \A x \in q.packs \ q.left : StoredObjects(x) \subseteq imStore' \cup q.todo
      BY <1>2, <2>1, <2>2, <3>1
    <3> QED
      BY <1>0, <2>2, <3>1, <3>2 DEF UpInv
  <2>5. q.pc \in Claimed \ {"verify"}
    BY <2>2 DEF Claimed, Upload3
  <2>6. /\ imCk' \in [ImSeqs -> SUBSET PackIds] /\ imCkRefs' \in [ImSeqs -> Tips0]
        /\ \A s \in ImSeqs : s # imMarker.seq => imCk'[s] = imCk[s] /\ imCkRefs'[s] = imCkRefs[s]
    BY <1>0, <1>1 DEF ImTypes
  <2> QED
    BY <1>0, <1>1, <2>2, <2>3, <2>4, <2>5, <2>6, ClaimTurn
<1> QED
  BY <1>3, <1>4

\* The marker names what was stored; when every pack is through, the import goes on to the checkpoint.
LEMMA MarkStep ==
    ASSUME ImInv, ImMark \/ ImUploaded
    PROVE  ImInv'
<1>0. /\ im.pc \in {"heads", "mark"} /\ im.pc \in Claimed
      /\ UNCHANGED <<imWal, imStore, imCk, imCkRefs, imSrc, imGiven, imCrashes, imAcked>>
  BY DEF ImMark, ImUploaded, Claimed, Upload3
<1>1. /\ ImTypes /\ im \in Importers /\ imMarker \in Markers /\ SameImport(imMarker) /\ imStore \subseteq Objs2
      /\ imMarker.uploaded \subseteq imStore /\ Closed(im.tips, im.packs) /\ (im.pc = "heads" => im.todo = {})
  BY <1>0, ClaimFacts
<1>2. im.present \subseteq imStore /\ \A x \in im.packs \ im.left : StoredObjects(x) \subseteq imStore \cup im.todo
  BY <1>0 DEF ImInv, UpInv, Upload3
<1>3. im.present \in SUBSET Objs2 /\ im.hist \in Hist0
  BY <1>1 DEF Importers
<1>4. CASE ImMark
  <2>1. PICK q : q = [im EXCEPT !.pc = "upload"]
    OBVIOUS
  <2>2. /\ im.pc = "mark" /\ im' = q /\ imMarker' = [imMarker EXCEPT !.uploaded = im.present, !.history = im.hist]
    BY <1>4, <2>1 DEF ImMark, Mark, ImGoes
  <2>3. "upload" \in Claimed
    BY DEF Claimed, Upload3
  <2>4. /\ q \in Importers /\ q.pc = "upload" /\ SameRun(q) /\ q.todo = im.todo /\ q.present = im.present /\ q.left = im.left
    BY <1>1, <2>1, <2>3, GoesTyped
  <2>5. PICK k \in Markers : imMarker' = k /\ SameImport(k) /\ k.uploaded = im.present
    <3> DEFINE k == [imMarker EXCEPT !.uploaded = im.present, !.history = im.hist]
    <3>1. k \in Markers /\ SameImport(k) /\ k.uploaded = im.present
      BY <1>1, <1>3 DEF Markers, SameImport
    <3> QED
      BY <2>2, <3>1
  <2>6. UpInv'
    <3>1. q.pc \notin Write3 /\ q.pc # "cas" /\ q.packs = im.packs
      BY <2>4 DEF Write3, SameRun
    <3> QED
      BY <1>0, <1>2, <2>2, <2>4, <3>1 DEF UpInv
  <2>7. q.pc \in Claimed \ {"verify"}
    BY <2>3, <2>4
  <2> QED
    BY <1>0, <1>1, <1>2, <2>2, <2>4, <2>5, <2>6, <2>7, QuietTurn
<1>5. CASE ImUploaded
  <2>1. PICK q : q = [im EXCEPT !.pc = "refs"]
    OBVIOUS
  <2>2. /\ im.pc = "heads" /\ im.left = {} /\ im' = q
        /\ imMarker' = imMarker \/ imMarker' = [imMarker EXCEPT !.phase = "uploaded", !.uploaded = im.present]
    BY <1>5, <2>1 DEF ImUploaded, Mark, ImGoes
  <2>3. "refs" \in Claimed
    BY DEF Claimed, Write3
  <2>4. /\ q \in Importers /\ q.pc = "refs" /\ SameRun(q) /\ q.todo = {}
    BY <1>1, <2>1, <2>2, <2>3, GoesTyped
  <2>5. PICK k \in Markers : imMarker' = k /\ SameImport(k) /\ k.uploaded \subseteq imStore
    <3>1. CASE imMarker' = imMarker
      BY <1>1, <3>1
    <3>2. CASE imMarker' = [imMarker EXCEPT !.phase = "uploaded", !.uploaded = im.present]
      <4> DEFINE k == [imMarker EXCEPT !.phase = "uploaded", !.uploaded = im.present]
      <4>1. k \in Markers /\ SameImport(k) /\ k.uploaded = im.present
        BY <1>1, <1>3 DEF Markers, SameImport
      <4> QED
        BY <1>2, <3>2, <4>1
    <3> QED
      BY <2>2, <3>1, <3>2
  <2>6. UpInv'
    <3>1. q.pc \notin Upload3 /\ q.pc # "cas" /\ q.packs = im.packs
      BY <2>4 DEF Upload3, SameRun
    <3>2. \A x \in im.packs : StoredObjects(x) \subseteq imStore
      BY <1>1, <1>2, <2>2
    <3> QED
      BY <1>0, <2>2, <2>4, <3>1, <3>2 DEF UpInv, Stored
  <2>7. q.pc \in Claimed \ {"verify"}
    BY <2>3, <2>4
  <2> QED
    BY <1>0, <1>1, <2>2, <2>4, <2>5, <2>6, <2>7, QuietTurn
<1> QED
  BY <1>4, <1>5

\* The ref snapshot, the bundle and the checkpoint, under the seq of the marker.
LEMMA WriteStep ==
    ASSUME ImInv, ImRefs \/ ImBundle \/ ImCheckpoint
    PROVE  ImInv'
<1>0. /\ im.pc \in {"refs", "bundle", "checkpoint"} /\ im.pc \in Claimed
      /\ UNCHANGED <<imWal, imStore, imSrc, imGiven, imCrashes, imAcked>>
  BY DEF ImRefs, ImBundle, ImCheckpoint, Claimed, Write3
<1>1. /\ ImTypes /\ im \in Importers /\ imMarker \in Markers /\ SameImport(imMarker) /\ im.todo = {} /\ imStore \subseteq Objs2
      /\ imMarker.uploaded \subseteq imStore /\ Closed(im.tips, im.packs) /\ imMarker.seq \in ImSeqs
  BY <1>0, ClaimFacts
<1>2. PICK q \in Importers, k \in Markers :
          /\ im' = q /\ SameRun(q) /\ q.todo = {}
          /\ q.pc = CASE im.pc = "refs" -> "bundle" [] im.pc = "bundle" -> "checkpoint" [] im.pc = "checkpoint" -> "cas"
          /\ imMarker' = k /\ SameImport(k) /\ k.uploaded = imMarker.uploaded
  <2>0. "bundle" \in Claimed /\ "checkpoint" \in Claimed /\ "cas" \in Claimed
    BY DEF Claimed, Write3
  <2>1. ASSUME NEW pc \in {"bundle", "cas"}, ImGoes(pc), imMarker' = imMarker,
               pc = CASE im.pc = "refs" -> "bundle" [] im.pc = "bundle" -> "checkpoint" [] im.pc = "checkpoint" -> "cas"
        PROVE  \E q \in Importers, k \in Markers :
                  /\ im' = q /\ SameRun(q) /\ q.todo = {}
                  /\ q.pc = CASE im.pc = "refs" -> "bundle" [] im.pc = "bundle" -> "checkpoint" [] im.pc = "checkpoint" -> "cas"
                  /\ imMarker' = k /\ SameImport(k) /\ k.uploaded = imMarker.uploaded
    <3> DEFINE q == [im EXCEPT !.pc = pc]
    <3>1. q \in Importers /\ im' = q /\ SameRun(q) /\ q.todo = {} /\ q.pc = pc
      BY <1>1, <2>0, <2>1, GoesTyped DEF ImGoes
    <3> HIDE DEF q
    <3> QED
      BY <1>1, <2>1, <3>1
  <2>2. CASE ImRefs
    BY <2>1, <2>2 DEF ImRefs
  <2>3. CASE ImCheckpoint
    BY <2>1, <2>3 DEF ImCheckpoint
  <2>4. CASE ImBundle
    <3>1. PICK entry \in Tips0 : /\ im' = [im EXCEPT !.pc = "checkpoint", !.entry = entry]
                                 /\ imMarker' = IF Done("bundled") THEN imMarker
                                                ELSE [imMarker EXCEPT !.phase = "bundled", !.bundle = entry]
      <4>1. im.tips \in Tips0 /\ imMarker.bundle \in Tips0
        BY <1>1 DEF Importers, Markers
      <4> QED
        BY <2>4, <4>1 DEF ImBundle
    <3> DEFINE q == [im EXCEPT !.pc = "checkpoint", !.entry = entry]
               k == [imMarker EXCEPT !.phase = "bundled", !.bundle = entry]
    <3>2. q \in Importers /\ SameRun(q) /\ q.todo = {} /\ q.pc = "checkpoint"
      BY <1>1, <2>0 DEF Importers, SameRun
    <3>3. k \in Markers /\ SameImport(k) /\ k.uploaded = imMarker.uploaded
      BY <1>1 DEF Markers, SameImport
    <3>4. im.pc = "bundle" /\ im' = q /\ (imMarker' = imMarker \/ imMarker' = k)
      BY <2>4, <3>1 DEF ImBundle
    <3> HIDE DEF q, k
    <3> QED
      BY <1>1, <3>2, <3>3, <3>4
  <2> QED
    BY <2>2, <2>3, <2>4
<1>3. q.pc \in Claimed \ {"verify"} /\ q.pc \in Write3 \ {"refs"} /\ q.packs = im.packs /\ q.tips = im.tips
  BY <1>0, <1>2 DEF Claimed, Write3, SameRun
<1>4. /\ imCk' \in [ImSeqs -> SUBSET PackIds] /\ imCkRefs' \in [ImSeqs -> Tips0]
      /\ \A s \in ImSeqs : s # imMarker.seq => imCk'[s] = imCk[s] /\ imCkRefs'[s] = imCkRefs[s]
      /\ im.pc = "refs" => imCkRefs'[imMarker.seq] = im.tips
      /\ im.pc # "refs" => imCkRefs' = imCkRefs
      /\ im.pc = "checkpoint" => imCk'[imMarker.seq] = im.packs
  <2>1. im.tips \in Tips0 /\ im.packs \in SUBSET PackIds /\ imCk \in [ImSeqs -> SUBSET PackIds] /\ imCkRefs \in [ImSeqs -> Tips0]
    BY <1>1 DEF Importers, ImTypes
  <2>2. CASE ImRefs
    BY <1>1, <2>1, <2>2 DEF ImRefs
  <2>3. CASE ImBundle
    BY <2>1, <2>3 DEF ImBundle
  <2>4. CASE ImCheckpoint
    BY <1>1, <2>1, <2>4 DEF ImCheckpoint
  <2> QED
    BY <2>2, <2>3, <2>4
<1>5. UpInv'
  <2>1. Stored(im.packs) /\ (im.pc # "refs" => imCkRefs[imMarker.seq] = im.tips)
    BY <1>0 DEF ImInv, UpInv, Write3
  <2>2. k.seq = imMarker.seq /\ q.pc \notin Upload3 /\ (q.pc = "cas" => im.pc = "checkpoint")
    BY <1>0, <1>2, <1>3 DEF SameImport, Write3, Upload3
  <2>3. Stored(im.packs)'
    <3>1. \A p \in im.packs : StoredObjects(p) \subseteq imStore'
      BY <1>0, <2>1 DEF Stored
    <3> QED
      BY <1>2, <1>3, <3>1 DEF Stored
  <2> QED
    BY <1>2, <1>3, <1>4, <2>1, <2>2, <2>3 DEF UpInv
<1>6. imStore \subseteq imStore' /\ imStore' \subseteq Objs2 /\ k.uploaded \subseteq imStore'
  BY <1>0, <1>1, <1>2
<1> QED
  BY <1>0, <1>1, <1>2, <1>3, <1>4, <1>5, <1>6, ClaimTurn

\* The manifest is written on the version that was read.
LEMMA PublishedStep ==
    ASSUME ImInv, NEW q \in Importers, im.pc = "cas", imWal.ver = im.base, imWal' = ImportManifest,
           imGiven' = imGiven \cup im.given, im' = q,
           \/ q.pc \in After /\ imCrashes' = imCrashes
           \/ q.pc = "failed" /\ imCrashes < MaxCrashes /\ imCrashes' = imCrashes + 1,
           UNCHANGED <<imStore, imCk, imCkRefs, imSrc, imMarker, imAcked>>
    PROVE  ImInv'
<1>0. im.pc \in Claimed /\ im.pc \in Write3 /\ im.pc \in Write3 \ {"refs"} /\ im.pc \notin After \cup {"done"}
  BY DEF Claimed, Write3, After
<1>1. /\ ImTypes /\ im \in Importers /\ imMarker \in Markers /\ Closed(im.tips, im.packs) /\ imMarker.seq \in ImSeqs
      /\ WalInv /\ MarkInv
  BY <1>0, ClaimFacts DEF ImInv
<1>2. /\ imMarker.seq = imWal.head + 1 /\ im.given = imWal.pushes /\ imMarker.base = imWal.ver
      /\ imMarker.tips = imSrc.tips /\ im.tips = imSrc.tips /\ im.packs = imSrc.packs
  <2>1. imSrc.tips # 0
    BY <1>1, ImportAssumption DEF ImTypes, Sources2
  <2> QED
    BY <1>0, <2>1 DEF ImInv, WorkInv, MarkInv
<1>3. Stored(im.packs) /\ imCkRefs[imMarker.seq] = im.tips /\ imCk[imMarker.seq] = im.packs
  BY <1>0 DEF ImInv, UpInv
<1>4. PICK w \in ImWals : /\ imWal' = w /\ w.ver = imWal.ver + 1 /\ w.head = imMarker.seq /\ w.ck = imMarker.seq
                          /\ w.packs = im.packs /\ w.refs = im.tips /\ w.pushes = {}
  <2>1. im.packs \in SUBSET PackIds /\ im.tips \in Tips0 /\ im.hist \in Hist0 /\ imMarker.seq \in Nat /\ imWal.ver + 1 \in Nat
    BY <1>1, WalCounts DEF Importers
  <2> DEFINE w == ImportManifest
  <2>2. /\ w \in ImWals /\ w.ver = imWal.ver + 1 /\ w.head = imMarker.seq /\ w.ck = imMarker.seq
        /\ w.packs = im.packs /\ w.refs = im.tips /\ w.pushes = {}
    BY <2>1 DEF ImportManifest, ImWals
  <2> HIDE DEF w
  <2>3. imWal' = w
    BY DEF w
  <2> QED
    BY <2>2, <2>3
<1>5. ImTypes'
  <2>1. imGiven' \subseteq Nat
    BY <1>1 DEF ImTypes, Importers
  <2>2. imCrashes' \in 0 .. MaxCrashes
    BY <1>1, WalCounts, ImportAssumption
  <2> QED
    BY <1>1, <1>4, <2>1, <2>2 DEF ImTypes
<1>6. WalInv'
  <2>1. Stored(w.packs) /\ Closed(w.refs, w.packs) /\ w.ck <= w.head
    BY <1>1, <1>3, <1>4, WalCounts
  <2>2. imWal.head <= imAcked + imCrashes
    BY <1>0, <1>1, WalCounts DEF WalInv
  <2>3. w.head <= imAcked + imCrashes' + (IF q.pc \in After \cup {"done"} THEN 1 ELSE 0)
    <3>1. CASE q.pc \in After /\ imCrashes' = imCrashes
      BY <1>1, <1>2, <1>4, <2>2, <3>1, WalCounts
    <3>2. CASE q.pc = "failed" /\ imCrashes' = imCrashes + 1
      <4>1. q.pc \notin After \cup {"done"}
        BY <3>2 DEF After
      <4> QED
        BY <1>1, <1>2, <1>4, <2>2, <3>2, <4>1, WalCounts
    <3> QED
      BY <3>1, <3>2
  <2>4. PushesKept'
    BY <1>1, <1>2, <1>4 DEF WalInv, PushesKept
  <2>5. imCk'[w.ck] = w.packs /\ imCkRefs'[w.ck] = w.refs
    BY <1>3, <1>4
  <2>6. Stored(w.packs)'
    BY <2>1 DEF Stored
  <2>7. Stored(imWal.packs)'
    BY <1>4, <2>6 DEF Stored
  <2> QED
    BY <1>4, <2>1, <2>3, <2>4, <2>5, <2>7 DEF WalInv
<1>7. MarkInv'
  <2>1. imMarker.base <= w.ver /\ imMarker.base # w.ver
    BY <1>1, <1>2, <1>4, WalCounts
  <2> QED
    BY <1>1, <1>4, <2>1 DEF MarkInv, Done
<1>8. WorkInv' /\ UpInv'
  <2>1. q.pc \notin Unread \cup Claimed /\ q.pc \notin Upload3 /\ q.pc \notin Write3 /\ q.pc # "cas"
    BY DEF Unread, Claimed, Upload3, Write3, After
  <2> QED
    BY <2>1 DEF WorkInv, UpInv
<1> QED
  BY <1>5, <1>6, <1>7, <1>8 DEF ImInv

\* The manifest CAS, and what follows it.
LEMMA ImportCasStep ==
    ASSUME ImInv, ImCas
    PROVE  ImInv'
<1>0. im.pc = "cas" /\ ImTypes /\ UNCHANGED <<imStore, imCk, imCkRefs, imSrc, imMarker, imAcked>> /\ im.pc \notin After \cup {"done"}
  BY DEF ImInv, ImCas, After
<1>1. CASE imWal.ver = im.base
  <2>1. PICK pc \in {"unmark", "list", "failed"} :
            /\ im' = [im EXCEPT !.pc = pc] /\ imWal' = ImportManifest /\ imGiven' = imGiven \cup im.given
            /\ \/ pc # "failed" /\ imCrashes' = imCrashes
               \/ pc = "failed" /\ imCrashes < MaxCrashes /\ imCrashes' = imCrashes + 1
    BY <1>1 DEF ImCas, ImGoes
  <2>2. pc \in After \cup Ends /\ (pc # "failed" => pc \in After)
    BY <2>1 DEF After, Ends
  <2>3. PICK q : q = [im EXCEPT !.pc = pc]
    OBVIOUS
  <2>4. q \in Importers /\ q.pc = pc /\ im' = q
    BY <1>0, <2>1, <2>2, <2>3, GoesTyped
  <2> QED
    BY <1>0, <1>1, <2>1, <2>2, <2>4, PublishedStep
<1>2. CASE imWal.ver # im.base
  <2>1. "refused" \in Ends \ {"done"} /\ ImGoes("refused") /\ UNCHANGED <<imWal, imGiven, imCrashes>>
    BY <1>2 DEF ImCas, Ends
  <2> QED
    BY <1>0, <2>1, StopTurn
<1> QED
  BY <1>1, <1>2

\* The bundle list, the marker's removal, interruptions, and the next run.
LEMMA TidyStep ==
    ASSUME ImInv, ImList \/ ImUnmark \/ ImCrash \/ ImAgain
    PROVE  ImInv'
<1>0. ImTypes /\ WalInv /\ UNCHANGED <<imWal, imStore, imCk, imCkRefs, imSrc, imGiven, imAcked>>
  BY DEF ImInv, ImList, ImUnmark, ImCrash, ImAgain
<1>1. CASE ImCrash
  <2>1. /\ "failed" \in Ends \ {"done"} /\ ImGoes("failed") /\ imMarker' = imMarker
        /\ imCrashes < MaxCrashes /\ imCrashes' = imCrashes + 1
    BY <1>1 DEF ImCrash, Ends
  <2> QED
    BY <1>0, <2>1, StopTurn
<1>2. CASE ImList \/ ImUnmark \/ ImAgain
  <2>1. PICK q \in Importers : /\ im' = q
                               /\ \/ q.pc \in After \cup {"done"} /\ im.pc \in After
                                  \/ q.pc = "idle" /\ im.pc \notin After \cup {"done"}
    <3>1. CASE ImAgain
      BY <3>1, NothingYet DEF ImAgain, After
    <3>2. CASE ImList \/ ImUnmark
      <4>1. PICK pc \in {"unmark", "done"} : im' = [im EXCEPT !.pc = pc] /\ im.pc \in After
        BY <3>2 DEF ImList, ImUnmark, Mark, ImGoes, After
      <4>2. pc \in After \cup Ends /\ pc \in After \cup {"done"}
        BY DEF After, Ends
      <4>3. PICK q : q = [im EXCEPT !.pc = pc]
        OBVIOUS
      <4>4. q \in Importers /\ q.pc = pc
        BY <1>0, <4>2, <4>3, GoesTyped
      <4> QED
        BY <4>1, <4>2, <4>3, <4>4
    <3> QED
      BY <1>2, <3>1, <3>2
  <2>2. /\ imCrashes' = imCrashes /\ imCrashes' \in 0 .. MaxCrashes
        /\ imMarker' = imMarker \/ imMarker' = NoMarker
    BY <1>0, <1>2 DEF ImList, ImUnmark, ImAgain, Mark, ImTypes
  <2>3. q.pc \in Ends \cup After /\ (q.pc = "idle" => q.pc \notin After \cup {"done"})
    BY <2>1 DEF Ends, After
  <2>4. imWal.head <= imAcked + imCrashes' + (IF q.pc \in After \cup {"done"} THEN 1 ELSE 0)
    BY <1>0, <2>1, <2>2, <2>3, WalCounts DEF WalInv
  <2> QED
    BY <1>0, <2>1, <2>2, <2>3, <2>4, EndTurn
<1> QED
  BY <1>1, <1>2

\* The source is packed anew or moves on between two runs.
LEMMA SourceStep ==
    ASSUME ImInv, SourceChanges
    PROVE  ImInv'
<1>0. /\ ImTypes /\ WalInv /\ MarkInv /\ im.pc = "idle"
      /\ UNCHANGED <<imWal, imStore, imCk, imCkRefs, imMarker, im, imGiven, imCrashes, imAcked>>
  BY DEF ImInv, SourceChanges
<1>1. PICK s \in Sources2 : imSrc' = s /\ Closed(s.tips, s.packs) /\ s.tips # 0
  <2>1. PICK c \in ImCommits, p \in PackIds : c \in ImPacks[p] /\ imSrc' = [tips |-> c, packs |-> {p}, changed |-> TRUE]
    <3>1. imSrc \in Sources2 /\ imSrc.tips \in ImCommits
      BY <1>0 DEF ImTypes, Sources2
    <3>2. CASE \E p \in DOMAIN ImPacks :
                   imSrc.tips \in ImPacks[p] /\ imSrc' = [imSrc EXCEPT !.packs = {p}, !.changed = TRUE]
      BY <3>1, <3>2 DEF PackIds, Sources2
    <3> QED
      BY <3>2 DEF SourceChanges, PackIds
  <2> DEFINE s == [tips |-> c, packs |-> {p}, changed |-> TRUE]
  <2>2. s \in Sources2 /\ s.tips = c /\ s.packs = {p} /\ c # 0
    BY ImportAssumption DEF Sources2
  <2>3. imSrc' = s
    BY <2>1
  <2> HIDE DEF s
  <2> QED
    BY <2>1, <2>2, <2>3 DEF Closed
<1>2. ImTypes'
  BY <1>0, <1>1 DEF ImTypes
<1>3. WalInv'
  BY <1>0 DEF WalInv, PushesKept, Stored
<1>4. MarkInv'
  BY <1>0, <1>1 DEF MarkInv, Done
<1>5. WorkInv' /\ UpInv'
  <2>1. im.pc \notin Unread \cup Claimed /\ im.pc \notin Upload3 /\ im.pc \notin Write3 /\ im.pc # "cas"
    BY <1>0 DEF Unread, Claimed, Upload3, Write3
  <2> QED
    BY <1>0, <2>1 DEF WorkInv, UpInv
<1> QED
  BY <1>2, <1>3, <1>4, <1>5 DEF ImInv

\* A push: the version moves on, so that an import that read the old one does not publish.
LEMMA PushStep ==
    ASSUME ImInv, ServerPush
    PROVE  ImInv'
<1>0. /\ ImTypes /\ WalInv /\ MarkInv /\ WorkInv /\ UpInv
      /\ UNCHANGED <<imCk, imCkRefs, imSrc, imMarker, im, imGiven, imCrashes>>
      /\ imAcked < MaxPushes /\ imAcked' = imAcked + 1
  BY DEF ImInv, ServerPush
<1>1. PICK p \in PackIds, c \in ImCommits, w \in ImWals :
          /\ c \in ImPacks[p] /\ imStore' = imStore \cup StoredObjects(p) /\ imWal' = w
          /\ w.ver = imWal.ver + 1 /\ w.head = imWal.head + 1 /\ w.ck = imWal.ck /\ w.packs = imWal.packs \cup {p}
          /\ w.refs = c /\ w.pushes = imWal.pushes \cup {imAcked + 1}
  <2>1. PICK p \in PackIds :
            /\ ImPacks[p] # {} /\ imStore' = imStore \cup StoredObjects(p)
            /\ imWal' = [imWal EXCEPT !.ver = @ + 1, !.head = @ + 1, !.packs = @ \cup {p},
                 !.refs = CHOOSE c \in ImPacks[p] : TRUE, !.pushes = @ \cup {imAcked + 1}]
    BY DEF ServerPush, PackIds
  <2>2. PICK c : c = CHOOSE d \in ImPacks[p] : TRUE
    OBVIOUS
  <2>3. c \in ImPacks[p] /\ c \in ImCommits /\ c \in Tips0
    BY <2>1, <2>2, ImportAssumption DEF PackIds, Tips0
  <2>4. imWal \in ImWals /\ imWal.ver + 1 \in Nat /\ imWal.head + 1 \in Nat /\ imAcked + 1 \in Nat
    BY <1>0, WalCounts DEF ImTypes
  <2> DEFINE w == [imWal EXCEPT !.ver = @ + 1, !.head = @ + 1, !.packs = @ \cup {p}, !.refs = c,
                                !.pushes = @ \cup {imAcked + 1}]
  <2>5. /\ w \in ImWals /\ w.ver = imWal.ver + 1 /\ w.head = imWal.head + 1 /\ w.ck = imWal.ck
        /\ w.packs = imWal.packs \cup {p} /\ w.refs = c /\ w.pushes = imWal.pushes \cup {imAcked + 1}
    BY <2>3, <2>4 DEF ImWals
  <2>6. imWal' = w
    BY <2>1, <2>2
  <2> HIDE DEF w
  <2> QED
    BY <2>1, <2>3, <2>5, <2>6
<1>2. imStore \subseteq imStore' /\ StoredObjects(p) \subseteq imStore' /\ imStore' \subseteq Objs2
  BY <1>0, <1>1 DEF ImTypes, StoredObjects, Objs2
<1>3. ImTypes'
  <2>1. imAcked' \in 0 .. MaxPushes
    BY <1>0, WalCounts
  <2> QED
    BY <1>0, <1>1, <1>2, <2>1 DEF ImTypes
<1>4. WalInv'
  <2>1. Closed(w.refs, w.packs)
    BY <1>1 DEF Closed
  <2>2. \A o \in w.packs : StoredObjects(o) \subseteq imStore'
    BY <1>0, <1>1, <1>2 DEF WalInv, Stored
  <2>3. Stored(imWal.packs)'
    BY <1>1, <2>2 DEF Stored
  <2>4. w.ck < w.head
    BY <1>0, <1>1, WalCounts DEF WalInv
  <2>5. w.head <= imAcked' + imCrashes + (IF im.pc \in After \cup {"done"} THEN 1 ELSE 0)
    <3>1. imWal.head <= imAcked + imCrashes + (IF im.pc \in After \cup {"done"} THEN 1 ELSE 0)
      BY <1>0 DEF WalInv
    <3> QED
      BY <1>0, <1>1, <3>1, WalCounts
  <2>6. PushesKept'
    <3>1. 1 .. (imAcked + 1) \subseteq (1 .. imAcked) \cup {imAcked + 1}
      BY <1>0, WalCounts
    <3> QED
      BY <1>0, <1>1, <3>1 DEF WalInv, PushesKept
  <2>7. w.ck <= w.head /\ w.ck # w.head
    BY <2>4, <1>1 DEF ImWals
  <2> QED
    BY <1>0, <1>1, <2>1, <2>3, <2>5, <2>6, <2>7 DEF WalInv
<1>5. imMarker.base <= w.ver /\ imMarker.base # w.ver
  BY <1>0, <1>1, WalCounts DEF MarkInv
<1>6. MarkInv'
  BY <1>0, <1>1, <1>2, <1>5 DEF MarkInv, Done
<1>7. WorkInv'
  BY <1>0, <1>1, <1>5 DEF WorkInv
<1>8. UpInv'
  <2>1. Stored(im.packs) => Stored(im.packs)'
    BY <1>0, <1>2 DEF Stored
  <2> QED
    BY <1>0, <1>2, <2>1 DEF UpInv
<1> QED
  BY <1>3, <1>4, <1>6, <1>7, <1>8 DEF ImInv

\* A checkpoint of a server, and the removal of what no manifest lists, while no import is unfinished.
LEMMA RestingStep ==
    ASSUME ImInv, ImBeside = {}, ServerCheckpoint \/ ServerPrune
    PROVE  ImInv'
<1>0. /\ ImTypes /\ WalInv /\ MarkInv
      /\ UNCHANGED <<imSrc, imMarker, im, imGiven, imCrashes, imAcked>>
      /\ imMarker = NoMarker /\ im.pc \in Ends
  BY DEF ImInv, ServerCheckpoint, ServerPrune, Beside, ImResting, Ends
<1>1. imSrc.tips # 0 /\ imMarker.uploaded = {} /\ imMarker.base = 0 /\ imMarker.tips = 0
  BY <1>0, NothingYet, ImportAssumption DEF ImTypes, Sources2
<1>2. WorkInv' /\ UpInv'
  <2>1. im.pc \notin Unread \cup Claimed /\ im.pc \notin Upload3 /\ im.pc \notin Write3 /\ im.pc # "cas"
    BY <1>0 DEF Ends, Unread, Claimed, Upload3, Write3
  <2> QED
    BY <1>0, <2>1 DEF WorkInv, UpInv
<1>3. CASE ServerCheckpoint
  <2>1. PICK w \in ImWals : /\ imWal' = w /\ w.ver = imWal.ver + 1 /\ w.head = imWal.head /\ w.ck = imWal.head
                            /\ w.packs = imWal.packs /\ w.refs = imWal.refs /\ w.pushes = imWal.pushes
    <3> DEFINE w == [imWal EXCEPT !.ver = @ + 1, !.ck = imWal.head]
    <3>1. imWal \in ImWals /\ imWal.ver + 1 \in Nat /\ imWal.head \in Nat
      BY <1>0, WalCounts DEF ImTypes
    <3>2. /\ w \in ImWals /\ w.ver = imWal.ver + 1 /\ w.head = imWal.head /\ w.ck = imWal.head
          /\ w.packs = imWal.packs /\ w.refs = imWal.refs /\ w.pushes = imWal.pushes
      BY <3>1 DEF ImWals
    <3>3. imWal' = w
      BY <1>3 DEF ServerCheckpoint
    <3> HIDE DEF w
    <3> QED
      BY <3>2, <3>3
  <2>2. imWal.head \in ImSeqs
    <3>1. imWal.head > 0
      BY <1>0, <1>3, WalCounts DEF ServerCheckpoint
    <3> QED
      BY <1>0, <3>1, HeadInRange
  <2>3. /\ imCk' \in [ImSeqs -> SUBSET PackIds] /\ imCkRefs' \in [ImSeqs -> Tips0]
        /\ imCk'[imWal.head] = imWal.packs /\ imCkRefs'[imWal.head] = imWal.refs
    <3>1. imWal.packs \in SUBSET PackIds /\ imWal.refs \in Tips0
      BY <1>0 DEF ImTypes, ImWals
    <3> QED
      BY <1>0, <1>3, <2>2, <3>1 DEF ImTypes, ServerCheckpoint
  <2>4. imStore' = imStore
    BY <1>3 DEF ServerCheckpoint
  <2>5. ImTypes'
    BY <1>0, <2>1, <2>3, <2>4 DEF ImTypes
  <2>6. WalInv'
    <3>1. w.ck <= w.head
      BY <1>0, <2>1, WalCounts
    <3>2. Stored(imWal.packs)'
      BY <1>0, <2>1, <2>4 DEF WalInv, Stored
    <3>3. PushesKept'
      BY <1>0, <2>1 DEF WalInv, PushesKept
    <3> QED
      BY <1>0, <2>1, <2>3, <3>1, <3>2, <3>3 DEF WalInv
  <2>7. MarkInv'
    <3>1. 0 <= w.ver
      BY <2>1 DEF ImWals
    <3> QED
      BY <1>0, <1>1, <2>1, <2>4, <3>1 DEF MarkInv, Done
  <2> QED
    BY <1>2, <2>5, <2>6, <2>7 DEF ImInv
<1>4. CASE ServerPrune
  <2>1. PICK o \in imStore : o[1] \notin imWal.packs /\ imStore' = imStore \ {o}
    BY <1>4 DEF ServerPrune
  <2>2. UNCHANGED <<imWal, imCk, imCkRefs>> /\ imStore' \subseteq Objs2
    BY <1>0, <1>4, <2>1 DEF ServerPrune, ImTypes
  <2>3. Stored(imWal.packs)'
    <3>1. ASSUME NEW p \in imWal.packs, NEW k \in Kinds2
          PROVE  <<p, k>> \in imStore'
      <4>1. <<p, k>> \in imStore
        BY <1>0 DEF WalInv, Stored, StoredObjects
      <4>2. <<p, k>> # o
        BY <2>1
      <4> QED
        BY <2>1, <4>1, <4>2
    <3> QED
      BY <2>2, <3>1 DEF Stored, StoredObjects
  <2>4. ImTypes'
    BY <1>0, <2>2 DEF ImTypes
  <2>5. WalInv'
    BY <1>0, <2>2, <2>3 DEF WalInv, PushesKept
  <2>6. MarkInv'
    BY <1>0, <1>1, <2>2 DEF MarkInv, Done
  <2> QED
    BY <1>2, <2>4, <2>5, <2>6 DEF ImInv
<1> QED
  BY <1>3, <1>4

\* Where an import starts: an empty repository, no marker.
LEMMA ImportStarts ==
    ASSUME NEW source \in Sources2, ImportInit(source)
    PROVE  ImInv
<1>1. /\ imWal = [ver |-> 0, head |-> 0, ck |-> 0, packs |-> {}, refs |-> 0, pushes |-> {}, history |-> 0]
      /\ imStore = {} /\ imCk = [s \in ImSeqs |-> {}] /\ imCkRefs = [s \in ImSeqs |-> 0] /\ imSrc = source
      /\ imMarker = NoMarker /\ im = NoImport /\ imGiven = {} /\ imCrashes = 0 /\ imAcked = 0
  BY DEF ImportInit
<1>2. 0 \in Tips0 /\ 0 \in Hist0 /\ 0 \in Nat /\ MaxPushes \in Nat /\ MaxCrashes \in Nat /\ source.tips # 0
  BY ImportAssumption DEF Tips0, Hist0, Sources2
<1>3. imWal \in ImWals
  BY <1>1, <1>2 DEF ImWals
<1>4. /\ imWal.ver = 0 /\ imWal.head = 0 /\ imWal.ck = 0 /\ imWal.packs = {} /\ imWal.refs = 0
  BY <1>1
<1>5. ImTypes
  <2>1. imCk \in [ImSeqs -> SUBSET PackIds] /\ imCkRefs \in [ImSeqs -> Tips0]
    BY <1>1, <1>2
  <2>2. imCrashes \in 0 .. MaxCrashes /\ imAcked \in 0 .. MaxPushes
    BY <1>1, <1>2
  <2> QED
    BY <1>1, <1>3, <2>1, <2>2, NothingYet DEF ImTypes
<1>6. im.pc = "idle" /\ im.pc \notin After \cup {"done"}
  BY <1>1, NothingYet DEF After
<1>7. WalInv
  <2>1. Stored(imWal.packs) /\ Closed(imWal.refs, imWal.packs)
    BY <1>4 DEF Stored, Closed
  <2>2. PushesKept
    BY <1>1 DEF PushesKept
  <2> QED
    BY <1>1, <1>4, <1>6, <2>1, <2>2 DEF WalInv
<1>8. MarkInv
  BY <1>1, <1>2, <1>4, NothingYet DEF MarkInv
<1>9. WorkInv /\ UpInv
  <2>1. im.pc \notin Unread \cup Claimed /\ im.pc \notin Upload3 /\ im.pc \notin Write3 /\ im.pc # "cas"
    BY <1>6 DEF Unread, Claimed, Upload3, Write3
  <2> QED
    BY <2>1 DEF WorkInv, UpInv
<1> QED
  BY <1>5, <1>7, <1>8, <1>9 DEF ImInv

\* Every step keeps the invariant.
LEMMA ImportStepKeeps ==
    ASSUME ImBeside = {}, ImInv, [ImportNext]_importVars
    PROVE  ImInv'
<1>1. CASE UNCHANGED importVars
  BY <1>1 DEF importVars, ImInv, ImTypes, WalInv, MarkInv, WorkInv, UpInv, Stored, PushesKept, Done
<1>2. CASE ImportNext
  <2>1. CASE ImStart
    BY <2>1, StartImportStep
  <2>2. CASE ImBase
    BY <2>2, BaseStep
  <2>3. CASE ImVerify \/ ImSide
    BY <2>3, CheckStep
  <2>4. CASE ImHistory
    BY <2>4, HistoryStep
  <2>5. CASE ImHeads
    BY <2>5, HeadsStep
  <2>6. CASE ImUpload
    BY <2>6, UploadObjectStep
  <2>7. CASE ImMark \/ ImUploaded
    BY <2>7, MarkStep
  <2>8. CASE ImRefs \/ ImBundle \/ ImCheckpoint
    BY <2>8, WriteStep
  <2>9. CASE ImCas
    BY <2>9, ImportCasStep
  <2>10. CASE ImList \/ ImUnmark \/ ImCrash \/ ImAgain
    BY <2>10, TidyStep
  <2>11. CASE SourceChanges
    BY <2>11, SourceStep
  <2>12. CASE ServerPush
    BY <2>12, PushStep
  <2>13. CASE ServerCheckpoint \/ ServerPrune
    BY <2>13, RestingStep
  <2> QED
    BY <1>2, <2>1, <2>2, <2>3, <2>4, <2>5, <2>6, <2>7, <2>8, <2>9, <2>10, <2>11, <2>12, <2>13 DEF ImportNext
<1> QED
  BY <1>1, <1>2

\* import_direct: for all packs, source repositories and numbers of pushes and interruptions: however
\* often an import is interrupted and run again, packed anew or moved on in between and raced by
\* pushes, what the manifest lists is in the store and holds what the refs reach, its checkpoint says
\* what it says, and an answered push is superseded only by an import that was shown it. Servers
\* checkpoint and prune only while no import is unfinished (ImBeside = {}).
THEOREM ImportsAreSound ==
    ASSUME ImBeside = {}, NEW source \in [tips : ImCommits, packs : SUBSET DOMAIN ImPacks, changed : BOOLEAN]
    PROVE  ImportInit(source) /\ [][ImportNext]_importVars => []ImportSound
<1>1. ImportInit(source) => ImInv
  BY ImportStarts DEF Sources2, PackIds
<1>2. ImInv /\ [ImportNext]_importVars => ImInv'
  BY ImportStepKeeps
<1>3. ImInv => ImportSound
  <2> SUFFICES ASSUME ImInv
               PROVE  ImportSound
    OBVIOUS
  <2>1. UNION {StoredObjects(p) : p \in imWal.packs} \subseteq imStore
    BY DEF ImInv, WalInv, Stored
  <2> QED
    BY <2>1 DEF ImInv, WalInv, ImportSound, Servable
<1> QED
  BY <1>1, <1>2, <1>3, PTL

(***************************************************************************)
(* Fetch, for any history, any trees and any requests: what an inductive   *)
(* argument over the walk shows of the pack.  LeastNumber stands in for    *)
(* induction along parents: a least commit for which a fact fails has only *)
(* parents for which it holds.                                             *)
(***************************************************************************)

\* A set of numbers that is not empty has a least one.
LEMMA LeastNumber ==
    ASSUME NEW S \in SUBSET Nat, S # {}
    PROVE  \E m \in S : \A t \in S : m <= t
BY LeastKey

\* The walk takes a commit that is left.
LEMMA LargestCommit ==
    ASSUME NEW S \in SUBSET FtCommits, S # {}
    PROVE  \E x \in S : \A y \in S : y <= x
<1> DEFINE T == {FtCount - x : x \in S}
<1>1. FtCount \in Nat /\ S \subseteq 1..FtCount
  BY FetchAssumption DEF FtCommits
<1>2. T \subseteq Nat /\ T # {}
  <2>1. \A x \in S : FtCount - x \in Nat
    BY <1>1
  <2> QED BY <2>1
<1>3. PICK m \in T : \A t \in T : m <= t
  <2> HIDE DEF T
  <2> QED BY <1>2, LeastNumber
<1>4. PICK x \in S : m = FtCount - x
  BY <1>3
<1>5. ASSUME NEW y \in S
      PROVE  y <= x
  <2>1. FtCount - y \in T
    BY <1>5
  <2>2. FtCount - x <= FtCount - y
    BY <2>1, <1>3, <1>4
  <2> QED BY <2>2, <1>1, <1>4, <1>5
<1> QED
  BY <1>4, <1>5

(***************************************************************************)
(* Histories.                                                              *)
(***************************************************************************)

AskOk == ask \in Requests /\ AskFits(ask)

\* What FetchAssumption says of a request.
LEMMA AskHistory ==
    ASSUME AskOk
    PROVE  /\ FtCommits \subseteq Nat
           /\ ask.wants \subseteq FtCommits /\ ask.client.commits \subseteq FtCommits
           /\ ask.client.shallow \subseteq ask.client.commits
           /\ ask.depth \in Nat /\ ask.tag \in BOOLEAN
           /\ ask.filter \in {"none", "blob:none", "blob:limit=1", "tree:0"}
           /\ \A c \in FtCommits :
                 /\ Parents(c) \subseteq FtCommits /\ ask.reach[c] \subseteq FtCommits
                 /\ \A p \in Parents(c) : p < c
                 /\ ask.reach[c] = {c} \cup UNION {ask.reach[p] : p \in Parents(c)}
           /\ \A c \in ask.client.commits \ ask.client.shallow : Parents(c) \subseteq ask.client.commits
<1>1. FtCommits \subseteq Nat
  BY FetchAssumption DEF FtCommits
<1>2. /\ ask.parents \in Histories /\ ask.reach \in Histories
      /\ ask.wants \subseteq FtCommits /\ ask.client.commits \subseteq FtCommits
      /\ ask.depth \in Nat /\ ask.tag \in BOOLEAN
      /\ ask.filter \in {"none", "blob:none", "blob:limit=1", "tree:0"}
  BY DEF AskOk, Requests
<1>3. ask.client.shallow \subseteq ask.client.commits
      /\ \A c \in ask.client.commits \ ask.client.shallow : Parents(c) \subseteq ask.client.commits
  BY DEF AskOk, AskFits, Parents
<1>4. ASSUME NEW c \in FtCommits
      PROVE  /\ Parents(c) \subseteq FtCommits /\ ask.reach[c] \subseteq FtCommits
             /\ \A p \in Parents(c) : p < c
             /\ ask.reach[c] = {c} \cup UNION {ask.reach[p] : p \in Parents(c)}
  <2>1. Parents(c) \subseteq FtCommits /\ ask.reach[c] \subseteq FtCommits
    BY <1>2, <1>4 DEF Histories, Parents
  <2>2. /\ \A p \in Parents(c) : p < c
        /\ ask.reach[c] = {c} \cup UNION {ask.reach[p] : p \in Parents(c)}
    BY <1>4 DEF AskOk, AskFits, Parents
  <2> QED BY <2>1, <2>2
<1> QED
  BY <1>1, <1>2, <1>3, <1>4

\* What a commit reaches holds the parents of every commit in it.
LEMMA ReachClosed ==
    ASSUME AskOk, NEW c \in FtCommits, NEW d \in ask.reach[c]
    PROVE  Parents(d) \subseteq ask.reach[c]
<1> DEFINE Bad == {x \in FtCommits : \E y \in ask.reach[x] : ~(Parents(y) \subseteq ask.reach[x])}
<1>1. SUFFICES ASSUME Bad # {} PROVE FALSE
  BY <1>1
<1>2. Bad \subseteq Nat
  BY AskHistory
<1>3. PICK x \in Bad : \A t \in Bad : x <= t
  <2> HIDE DEF Bad
  <2> QED BY <1>1, <1>2, LeastNumber
<1>4. PICK y \in ask.reach[x] : ~(Parents(y) \subseteq ask.reach[x])
  BY <1>3
<1>5. x \in FtCommits /\ x \in Nat /\ Parents(x) \subseteq FtCommits /\ (\A p \in Parents(x) : p < x)
      /\ ask.reach[x] = {x} \cup UNION {ask.reach[p] : p \in Parents(x)}
  BY AskHistory
<1>6. \A p \in Parents(x) : p \in ask.reach[p]
  BY AskHistory, <1>5
<1>7. y # x
  BY <1>4, <1>5, <1>6
<1>8. PICK p \in Parents(x) : y \in ask.reach[p]
  BY <1>4, <1>5, <1>7
<1>9. p \notin Bad
  <2> HIDE DEF Bad
  <2>1. p < x /\ p \in Nat
    BY <1>5, <1>8, AskHistory
  <2> QED BY <2>1, <1>3, <1>5
<1>10. Parents(y) \subseteq ask.reach[p]
  BY <1>8, <1>9, <1>5
<1> QED
  BY <1>10, <1>4, <1>5

\* A history holds its commits and the parents of each.
LEMMA HistoryFacts ==
    ASSUME AskOk, NEW S \in SUBSET FtCommits
    PROVE  /\ S \subseteq History(S) /\ History(S) \subseteq FtCommits
           /\ \A c \in History(S) : Parents(c) \subseteq History(S)
<1>1. S \subseteq History(S) /\ History(S) \subseteq FtCommits
  BY AskHistory DEF History
<1>2. \A c \in History(S) : Parents(c) \subseteq History(S)
  <2> TAKE c \in History(S)
  <2>1. PICK s \in S : c \in ask.reach[s]
    BY DEF History
  <2>2. Parents(c) \subseteq ask.reach[s]
    BY <2>1, ReachClosed
  <2> QED BY <2>2 DEF History
<1> QED
  BY <1>1, <1>2

\* A client whose history is not cut has what its commits reach.
LEMMA ClientClosed ==
    ASSUME AskOk, ask.client.shallow = {}
    PROVE  History(ask.client.commits) \subseteq ask.client.commits
<1> DEFINE C == ask.client.commits
           Bad == {x \in C : ~(ask.reach[x] \subseteq C)}
<1>1. SUFFICES ASSUME Bad # {} PROVE FALSE
  BY <1>1 DEF History
<1>2. Bad \subseteq Nat /\ C \subseteq FtCommits
  BY AskHistory
<1>3. PICK x \in Bad : \A t \in Bad : x <= t
  <2> HIDE DEF Bad
  <2> QED BY <1>1, <1>2, LeastNumber
<1>4. x \in C /\ x \in Nat /\ x \in FtCommits
  BY <1>2, <1>3
<1>5. Parents(x) \subseteq C /\ (\A p \in Parents(x) : p < x)
      /\ ask.reach[x] = {x} \cup UNION {ask.reach[p] : p \in Parents(x)}
  BY AskHistory, <1>4
<1>6. \A p \in Parents(x) : p \notin Bad
  <2> HIDE DEF Bad
  <2> TAKE p \in Parents(x)
  <2>1. p < x /\ p \in Nat
    BY <1>5, <1>2, AskHistory
  <2> QED BY <2>1, <1>3, <1>4
<1>7. \A p \in Parents(x) : ask.reach[p] \subseteq C
  BY <1>5, <1>6
<1>8. ask.reach[x] \subseteq C
  <2> HIDE DEF C, Bad
  <2> QED BY <1>7, <1>5, <1>4
<1> QED
  BY <1>8, <1>3

\* The commits within a depth are reached from the wants.
LEMMA WithinReached ==
    ASSUME AskOk, NEW n \in Nat
    PROVE  Within(n) \subseteq History(ask.wants)
<1> SUFFICES ASSUME NEW k \in 1..n, NEW l \in Lines(k)
             PROVE  l[k] \in History(ask.wants)
  BY DEF Within, Level
<1> DEFINE H == History(ask.wants)
           Bad == {i \in 1..k : l[i] \notin H}
<1>1. /\ \A i \in 1..k : l[i] \in FtCommits
      /\ l[1] \in ask.wants
      /\ \A i \in 2..k : l[i] \in Parents(l[i - 1])
  BY DEF Lines
<1>2. ask.wants \subseteq H /\ \A c \in H : Parents(c) \subseteq H
  BY HistoryFacts, AskHistory
<1>3. SUFFICES ASSUME Bad # {} PROVE FALSE
  BY <1>3
<1>4. Bad \subseteq Nat
  OBVIOUS
<1>5. PICK i \in Bad : \A t \in Bad : i <= t
  <2> HIDE DEF Bad
  <2> QED BY <1>3, <1>4, LeastNumber
<1>6. i \in 1..k /\ l[i] \notin H
  BY <1>5
<1>7. i # 1
  BY <1>1, <1>2, <1>6
<1>8. i \in 2..k /\ i - 1 \in 1..k /\ i - 1 \notin Bad
  <2>1. i \in 2..k /\ i - 1 \in 1..k /\ ~(i <= i - 1)
    BY <1>6, <1>7
  <2> HIDE DEF Bad
  <2> QED BY <2>1, <1>5
<1>9. l[i - 1] \in H
  BY <1>8
<1>10. l[i] \in H
  <2> HIDE DEF H, Bad
  <2> QED BY <1>1, <1>2, <1>8, <1>9
<1> QED
  BY <1>10, <1>6

(***************************************************************************)
(* Trees.                                                                  *)
(***************************************************************************)

DirsOf(olds) == {DirOf(o) : o \in olds}

\* The contents of a tree, or of a directory, that the set has to hold: what is not
\* the same in every old one and what the filter keeps.
Covered(b, olds, S) == Unchanged(b, olds) \/ ~Keeps(ask.filter, b) \/ b \in S
DirDone(d, olds, S) ==
    /\ d \in S
    /\ Covered(OneOf(d), {OneOf(o) : o \in olds}, S)
    /\ Covered(OtherOf(d), {OtherOf(o) : o \in olds}, S)
TreeDone(t, olds, S) ==
    /\ t \in S
    /\ Covered(FileOf(t), {FileOf(o) : o \in olds}, S)
    /\ Unchanged(DirOf(t), DirsOf(olds)) \/ DirDone(DirOf(t), DirsOf(olds), S)

\* What is done stays done as the set grows.
LEMMA DoneMore ==
    ASSUME NEW t, NEW olds, NEW S, NEW T, S \subseteq T
    PROVE  /\ DirDone(t, olds, S) => DirDone(t, olds, T)
           /\ TreeDone(t, olds, S) => TreeDone(t, olds, T)
<1>1. ASSUME NEW b, NEW os, Covered(b, os, S)
      PROVE  Covered(b, os, T)
  BY <1>1 DEF Covered
<1>2. \A d, os : DirDone(d, os, S) => DirDone(d, os, T)
  BY <1>1 DEF DirDone
<1> QED
  BY <1>1, <1>2 DEF TreeDone

\* Objects of two kinds differ.
LEMMA Kinds ==
    /\ \A c : CommitId(c)[1] = "commit" /\ TreeOf(c)[1] = "tree"
    /\ \A t : FileOf(t)[1] = "blob" /\ DirOf(t)[1] = "dir"
    /\ \A d : OneOf(d)[1] = "blob" /\ OtherOf(d)[1] = "blob"
    /\ \A c, d : CommitId(c) = CommitId(d) => c = d
    /\ TagId[1] = "tag"
BY DEF CommitId, TreeOf, FileOf, DirOf, OneOf, OtherOf, TagId

\* diff_tree_new_objects, when nothing it reads is away.
LEMMA DirDiffed ==
    ASSUME NEW d, NEW olds, NEW S, d \notin S, DiffDir(d, olds, S).need = {}
    PROVE  LET T == DiffDir(d, olds, S).set
           IN  S \subseteq T /\ DirDone(d, olds, T) /\ \A o \in T : o \in S \/ o = d \/ o[1] = "blob"
<1> DEFINE away == {o \in olds : o \notin ftLocal}
           one == IF Unchanged(OneOf(d), {OneOf(o) : o \in olds}) THEN {} ELSE {OneOf(d)}
           other == IF Unchanged(OtherOf(d), {OtherOf(o) : o \in olds}) THEN {} ELSE {OtherOf(d)}
           T == S \cup {d} \cup {b \in one \cup other : Keeps(ask.filter, b)}
<1>1. DiffDir(d, olds, S) = IF d \notin ftLocal THEN [set |-> S \cup {d}, need |-> {d}]
       ELSE IF away # {} THEN [set |-> S, need |-> away]
       ELSE [set |-> T, need |-> {}]
  BY DEF DiffDir
<1>2. DiffDir(d, olds, S) = [set |-> T, need |-> {}]
  <2> HIDE DEF away, T
  <2> QED BY <1>1
<1>3. DiffDir(d, olds, S).set = T
  <2> HIDE DEF T
  <2> QED BY <1>2
<1>4. \A o \in one \cup other : o = OneOf(d) \/ o = OtherOf(d)
  OBVIOUS
<1>5. \A o \in T : o \in S \/ o = d \/ o[1] = "blob"
  <2> HIDE DEF one, other
  <2> QED BY <1>4, Kinds
<1>6. Covered(OneOf(d), {OneOf(o) : o \in olds}, T)
  BY Zenon DEF Covered
<1>7. Covered(OtherOf(d), {OtherOf(o) : o \in olds}, T)
  BY Zenon DEF Covered
<1>8. S \subseteq T /\ d \in T
  <2> HIDE DEF one, other
  <2> QED OBVIOUS
<1>9. DirDone(d, olds, T)
  <2> HIDE DEF T
  <2> QED BY <1>6, <1>7, <1>8 DEF DirDone
<1> QED
  <2> HIDE DEF T
  <2> QED BY <1>3, <1>5, <1>8, <1>9

\* The same for a tree, whose directory may have come with an earlier commit.
LEMMA TreeDiffed ==
    ASSUME NEW t, NEW olds, NEW S, t \notin S, t[1] = "tree", DiffTree(t, olds, S).need = {},
           DirOf(t) \in S /\ ~Unchanged(DirOf(t), DirsOf(olds)) => DirDone(DirOf(t), DirsOf(olds), S)
    PROVE  LET T == DiffTree(t, olds, S).set
           IN  /\ S \subseteq T /\ TreeDone(t, olds, T)
               /\ \A o \in T : \/ o \in S \/ o = t \/ o[1] = "blob"
                               \/ o = DirOf(t) /\ ~Unchanged(DirOf(t), DirsOf(olds))
<1> DEFINE away == {o \in olds : o \notin ftLocal}
           file == IF Unchanged(FileOf(t), {FileOf(o) : o \in olds}) THEN {} ELSE {FileOf(t)}
           with == S \cup {t} \cup {b \in file : Keeps(ask.filter, b)}
           rest == DiffDir(DirOf(t), DirsOf(olds), with)
           T == DiffTree(t, olds, S).set
<1>1. DiffTree(t, olds, S) = IF t \notin ftLocal THEN [set |-> S \cup {t}, need |-> {t}]
       ELSE IF away # {} THEN [set |-> S, need |-> away]
       ELSE IF Unchanged(DirOf(t), DirsOf(olds)) THEN [set |-> with, need |-> {}]
       ELSE rest
  BY DEF DiffTree, DirsOf
<1>2. DiffTree(t, olds, S) =
        IF Unchanged(DirOf(t), DirsOf(olds)) THEN [set |-> with, need |-> {}] ELSE rest
  <2> HIDE DEF away, with, rest
  <2> QED BY <1>1
<1>3. \A o \in file : o = FileOf(t)
  OBVIOUS
<1>4. S \subseteq with /\ t \in with /\ \A o \in with : o \in S \/ o = t \/ o[1] = "blob"
  <2> HIDE DEF file
  <2> QED BY <1>3, Kinds
<1>5. Covered(FileOf(t), {FileOf(o) : o \in olds}, with)
  BY Zenon DEF Covered
<1>6. CASE Unchanged(DirOf(t), DirsOf(olds))
  <2>1. T = with
    <3> HIDE DEF with, rest
    <3> QED BY <1>2, <1>6
  <2>2. TreeDone(t, olds, with)
    <3> HIDE DEF with
    <3> QED BY <1>4, <1>5, <1>6 DEF TreeDone
  <2> HIDE DEF with
  <2> QED BY <2>1, <2>2, <1>4
<1>7. CASE ~Unchanged(DirOf(t), DirsOf(olds))
  <2>1. DiffTree(t, olds, S) = rest /\ T = rest.set /\ rest.need = {}
    <3> HIDE DEF with, rest
    <3> QED BY <1>2, <1>7
  <2>2. CASE DirOf(t) \in with
    <3>1. DirOf(t) \in S
      <4> HIDE DEF with
      <4> QED BY <2>2, <1>4, Kinds
    <3>2. DirDone(DirOf(t), DirsOf(olds), with)
      <4> HIDE DEF with
      <4> QED BY <3>1, <1>4, <1>7, DoneMore
    <3>3. rest.set = with
      <4> HIDE DEF with
      <4> QED BY <2>2 DEF DiffDir
    <3>4. TreeDone(t, olds, with)
      <4> HIDE DEF with
      <4> QED BY <3>2, <1>4, <1>5 DEF TreeDone
    <3> HIDE DEF with, T, rest
    <3> QED BY <2>1, <3>3, <3>4, <1>4
  <2>3. CASE DirOf(t) \notin with
    <3>1. /\ with \subseteq rest.set /\ DirDone(DirOf(t), DirsOf(olds), rest.set)
          /\ \A o \in rest.set : o \in with \/ o = DirOf(t) \/ o[1] = "blob"
      <4> HIDE DEF with
      <4> QED BY <2>1, <2>3, DirDiffed
    <3>2. Covered(FileOf(t), {FileOf(o) : o \in olds}, rest.set)
      <4> HIDE DEF with, rest
      <4> QED BY <1>5, <3>1 DEF Covered
    <3>3. TreeDone(t, olds, rest.set)
      <4> HIDE DEF with, rest
      <4> QED BY <3>1, <3>2, <1>4 DEF TreeDone
    <3> HIDE DEF with, T, rest
    <3> QED BY <2>1, <3>1, <3>3, <1>4, <1>7
  <2> QED BY <2>2, <2>3
<1> QED
  BY <1>6, <1>7

(***************************************************************************)
(* The walk.                                                               *)
(***************************************************************************)

\* The trees a commit is compared with.
Olds(c) == IF DiffMode THEN {TreeOf(p) : p \in Parents(c)} ELSE {}

EntersDir(c) == ~Unchanged(DirOf(TreeOf(c)), DirsOf(Olds(c)))

\* A commit that the walk has yielded is in the set with what is new in its tree.
CommitDone(c, S) ==
    /\ CommitId(c) \in S
    /\ Expands \/ ask.filter = "tree:0" \/ TreeDone(TreeOf(c), Olds(c), S)

\* A tree that the set holds came with a commit that the walk has yielded, so that one
\* that the walk meets again is a tree that returns.
Sourced(w, S) ==
    \A c \in w :
        /\ CommitId(c) \notin S
        /\ TreeOf(c) \in S => \E d \in Walked \ w : TreeOf(d) = TreeOf(c)
        /\ DirOf(TreeOf(c)) \in S =>
             \E d \in Walked \ w : DirOf(TreeOf(d)) = DirOf(TreeOf(c)) /\ EntersDir(d)

WalkOk(w, S) ==
    /\ w \subseteq Walked
    /\ \A c \in Walked \ w : CommitDone(c, S)
    /\ Expands \/ (~ask.tag /\ Sourced(w, S))

\* What FetchComplete is about.
FetchGood == ~CutHistory /\ ~TagAsIs /\ ~(DiffMode /\ TreeReturns) /\ ~DepthHides

\* A directory that is compared and differs from an old one enters with the commit.
LEMMA EntersWhenNew ==
    ASSUME NEW c, DiffMode, EntersDir(c)
    PROVE  Enters(c, DirOf)
<1>1. DirsOf(Olds(c)) # {DirOf(TreeOf(c))}
  BY DEF EntersDir, Unchanged
<1>2. DirsOf(Olds(c)) = {DirOf(TreeOf(p)) : p \in Parents(c)}
  BY DEF DirsOf, Olds
<1>3. Parents(c) = {} \/ \E p \in Parents(c) : DirOf(TreeOf(p)) # DirOf(TreeOf(c))
  BY <1>1, <1>2
<1> QED
  BY <1>3 DEF Enters

\* One commit whose tree is diffed.
LEMMA WalkDiff ==
    ASSUME NEW w, NEW S, NEW c \in w, WalkOk(w, S), FetchGood, ~Expands, ask.filter # "tree:0",
           DiffTree(TreeOf(c), Olds(c), S \cup {CommitId(c)}).need = {}
    PROVE  WalkOk(w \ {c}, DiffTree(TreeOf(c), Olds(c), S \cup {CommitId(c)}).set)
<1> DEFINE with == S \cup {CommitId(c)}
           t == TreeOf(c)
           T == DiffTree(t, Olds(c), with).set
<1>1. /\ w \subseteq Walked /\ c \in Walked /\ ~ask.tag /\ Sourced(w, S)
      /\ \A d \in Walked \ w : TreeDone(TreeOf(d), Olds(d), S)
  BY DEF WalkOk, CommitDone
<1>2. ASSUME NEW d \in Walked \ w
      PROVE  d # c /\ (~DiffMode => Olds(d) = Olds(c))
  BY <1>2 DEF Olds
<1>3. t \in with => t \in S
  BY Kinds
<1>4. DirOf(t) \in with => DirOf(t) \in S
  BY Kinds
<1>5. /\ S \subseteq T /\ CommitId(c) \in T /\ TreeDone(t, Olds(c), T)
      /\ \A o \in T : \/ o \in S \/ o = CommitId(c) \/ o = t \/ o[1] = "blob"
                      \/ o = DirOf(t) /\ EntersDir(c)
  <2>1. CASE t \in with
    <3>1. PICK d \in Walked \ w : TreeOf(d) = t
      BY <2>1, <1>1, <1>3 DEF Sourced
    <3>2. ~DiffMode
      BY <3>1, <1>1, <1>2 DEF FetchGood, TreeReturns
    <3>3. TreeDone(t, Olds(c), S)
      BY <3>1, <3>2, <1>1, <1>2
    <3>4. T = with
      <4> HIDE DEF with, t
      <4> QED BY <2>1 DEF DiffTree
    <3>5. TreeDone(t, Olds(c), with)
      <4>1. S \subseteq with
        OBVIOUS
      <4> HIDE DEF with, t
      <4> QED BY <3>3, <4>1, DoneMore
    <3> HIDE DEF T, t
    <3> QED BY <3>4, <3>5
  <2>2. CASE t \notin with
    <3>1. DirOf(t) \in with /\ ~Unchanged(DirOf(t), DirsOf(Olds(c))) => DirDone(DirOf(t), DirsOf(Olds(c)), with)
      <4> SUFFICES ASSUME DirOf(t) \in with, EntersDir(c)
                   PROVE  DirDone(DirOf(t), DirsOf(Olds(c)), with)
        BY DEF EntersDir
      <4>1. PICK d \in Walked \ w : DirOf(TreeOf(d)) = DirOf(t) /\ EntersDir(d)
        BY <1>1, <1>4 DEF Sourced
      <4>2. ~DiffMode
        <5> SUFFICES ASSUME DiffMode PROVE FALSE
          OBVIOUS
        <5>1. Enters(c, DirOf) /\ Enters(d, DirOf)
          BY <4>1, EntersWhenNew
        <5> QED BY <5>1, <4>1, <1>1, <1>2 DEF FetchGood, TreeReturns
      <4>3. TreeDone(TreeOf(d), Olds(d), S) /\ Olds(d) = Olds(c)
        BY <1>1, <1>2, <4>1, <4>2
      <4>4. DirDone(DirOf(t), DirsOf(Olds(c)), S)
        BY <4>1, <4>3 DEF TreeDone, EntersDir
      <4>5. S \subseteq with
        OBVIOUS
      <4> HIDE DEF with, t
      <4> QED BY <4>4, <4>5, DoneMore
    <3>2. t[1] = "tree"
      BY Kinds
    <3>3. /\ with \subseteq T /\ TreeDone(t, Olds(c), T)
          /\ \A o \in T : \/ o \in with \/ o = t \/ o[1] = "blob"
                          \/ o = DirOf(t) /\ ~Unchanged(DirOf(t), DirsOf(Olds(c)))
      <4>1. DiffTree(t, Olds(c), with).need = {}
        OBVIOUS
      <4> HIDE DEF with, t
      <4> QED BY <2>2, <3>1, <3>2, <4>1, TreeDiffed
    <3> HIDE DEF T
    <3> QED BY <3>3 DEF EntersDir
  <2> QED BY <2>1, <2>2
<1>6. w \ {c} \subseteq Walked
  BY <1>1
<1>7. \A d \in Walked \ (w \ {c}) : CommitDone(d, T)
  <2> TAKE d \in Walked \ (w \ {c})
  <2>1. CASE d = c
    <3> HIDE DEF T
    <3> QED BY <2>1, <1>5 DEF CommitDone
  <2>2. CASE d # c
    <3>1. CommitId(d) \in S /\ TreeDone(TreeOf(d), Olds(d), S)
      BY <2>2, <1>1 DEF WalkOk, CommitDone
    <3> HIDE DEF T
    <3>2. TreeDone(TreeOf(d), Olds(d), T)
      BY <3>1, <1>5, DoneMore
    <3> QED BY <3>1, <3>2, <1>5 DEF CommitDone
  <2> QED BY <2>1, <2>2
<1>8. Sourced(w \ {c}, T)
  <2> SUFFICES ASSUME NEW e \in w \ {c}
               PROVE  /\ CommitId(e) \notin T
                      /\ TreeOf(e) \in T => \E d \in Walked \ (w \ {c}) : TreeOf(d) = TreeOf(e)
                      /\ DirOf(TreeOf(e)) \in T =>
                            \E d \in Walked \ (w \ {c}) : DirOf(TreeOf(d)) = DirOf(TreeOf(e)) /\ EntersDir(d)
    BY DEF Sourced
  <2>1. /\ CommitId(e) \notin S
        /\ TreeOf(e) \in S => \E d \in Walked \ w : TreeOf(d) = TreeOf(e)
        /\ DirOf(TreeOf(e)) \in S =>
             \E d \in Walked \ w : DirOf(TreeOf(d)) = DirOf(TreeOf(e)) /\ EntersDir(d)
    BY <1>1 DEF Sourced
  <2> HIDE DEF T
  <2>2. CommitId(e) \notin T
    BY <2>1, <1>5, Kinds
  <2>3. TreeOf(e) \in T => TreeOf(e) \in S \/ TreeOf(e) = t
    BY <1>5, Kinds
  <2>4. DirOf(TreeOf(e)) \in T => DirOf(TreeOf(e)) \in S \/ (DirOf(TreeOf(e)) = DirOf(t) /\ EntersDir(c))
    BY <1>5, Kinds
  <2> QED BY <2>1, <2>2, <2>3, <2>4, <1>1
<1> QED
  <2> HIDE DEF T
  <2>1. WalkOk(w \ {c}, T)
    BY <1>1, <1>6, <1>7, <1>8 DEF WalkOk
  <2> USE DEF T
  <2> QED BY <2>1

\* One commit that only enters the set itself.
LEMMA WalkPlain ==
    ASSUME NEW w, NEW S, NEW c \in w, WalkOk(w, S), Expands \/ ask.filter = "tree:0",
           NEW T, T = S \cup {CommitId(c)} \/ (T = S /\ CommitId(c) \in S)
    PROVE  WalkOk(w \ {c}, T)
<1>1. S \subseteq T /\ CommitId(c) \in T
  OBVIOUS
<1>2. \A d \in Walked \ (w \ {c}) : CommitDone(d, T)
  BY <1>1 DEF WalkOk, CommitDone
<1>3. ASSUME ~Expands
      PROVE  ~ask.tag /\ Sourced(w \ {c}, T)
  <2>1. ~ask.tag /\ Sourced(w, S) /\ c \in Walked
    BY <1>3 DEF WalkOk
  <2>2. T = S \cup {CommitId(c)}
    BY <2>1 DEF Sourced
  <2>3. \A e \in w \ {c} : /\ CommitId(e) \in T => CommitId(e) \in S
                           /\ TreeOf(e) \in T => TreeOf(e) \in S
                           /\ DirOf(TreeOf(e)) \in T => DirOf(TreeOf(e)) \in S
    BY <2>2, Kinds
  <2> QED BY <2>1, <2>3 DEF Sourced
<1> QED
  BY <1>2, <1>3 DEF WalkOk

(***************************************************************************)
(* What is due.                                                            *)
(***************************************************************************)

\* When the history is not cut, what is due is a whole history or the commits within the depth.
LEMMA GoodAsk ==
    ASSUME AskOk, FetchGood
    PROVE  /\ ask.client.shallow = {}
           /\ DueCommits = IF ask.depth = 0 THEN History(WantedCommits) ELSE Within(ask.depth)
           /\ DiffMode => ask.depth = 0
           /\ ~DiffMode => ask.client.commits = {}
<1>1. ask.client.shallow = {}
  BY AskHistory DEF FetchGood, CutHistory, DiffMode, CommonHaves
<1>2. Followed(WantedCommits) = History(WantedCommits)
  BY <1>1, Zenon DEF Followed
<1>3. DiffMode => ask.depth = 0
  BY AskHistory DEF FetchGood, CutHistory
<1> QED
  BY <1>1, <1>2, <1>3 DEF DueCommits, DiffMode, CommonHaves

\* Every commit that is due is walked or the client has it.
LEMMA DueWalked ==
    ASSUME AskOk, FetchGood
    PROVE  /\ DueCommits \subseteq FtCommits
           /\ \A c \in DueCommits : c \in Walked \/ c \in ask.client.commits
           /\ DiffMode => \A c \in DueCommits : Parents(c) \subseteq DueCommits
<1>1. WantedCommits \subseteq FtCommits /\ ask.depth \in Nat
  BY AskHistory, FetchAssumption DEF WantedCommits
<1>2. CASE ask.depth = 0
  <2>1. DueCommits = History(WantedCommits) /\ HiddenCommits = ask.client.commits
    BY <1>2, GoodAsk DEF HiddenCommits, CommonHaves
  <2>2. History(ask.client.commits) \subseteq ask.client.commits
    BY GoodAsk, ClientClosed
  <2> QED BY <2>1, <2>2, <1>1, HistoryFacts DEF Walked
<1>3. CASE ask.depth # 0
  <2>1. ~DiffMode /\ ask.client.commits = {} /\ ~Expands
    BY <1>3, GoodAsk DEF Expands
  <2>2. ~ask.tag /\ WantedCommits = ask.wants
    BY <2>1 DEF FetchGood, TagAsIs, WantedCommits
  <2>3. DueCommits = Within(ask.depth) /\ HiddenCommits = compute_shallow(ask.depth).exclude
    BY <1>3, <2>1, GoodAsk DEF HiddenCommits, CommonHaves
  <2>4. Within(ask.depth) \cap History(compute_shallow(ask.depth).exclude) = {}
    BY <1>1, <1>3 DEF FetchGood, DepthHides
  <2>5. Within(ask.depth) \subseteq History(ask.wants) /\ History(ask.wants) \subseteq FtCommits
    BY <1>1, AskHistory, WithinReached, HistoryFacts
  <2> QED BY <2>1, <2>2, <2>3, <2>4, <2>5 DEF Walked
<1> QED
  BY <1>2, <1>3

\* The objects of a commit.
CommitObjects(c) == {CommitId(c)} \cup TreeObjects(TreeOf(c))

\* The objects of commits, one commit at a time.
LEMMA ObjectsByCommit ==
    ASSUME NEW cs, NEW o
    PROVE  o \in ObjectsOf(cs) <=> \E c \in cs : o \in CommitObjects(c)
BY DEF ObjectsOf, CommitObjects

\* What the set and the client hold between them.
Held(S) == S \cup ObjectsOf(ask.client.commits)
Complete(c, S) == \A o \in CommitObjects(c) : Keeps(ask.filter, o) => o \in Held(S)

\* A tree that was diffed against trees that are held is held.
LEMMA TreeComplete ==
    ASSUME NEW c, NEW S, CommitId(c) \in S, TreeDone(TreeOf(c), Olds(c), S),
           \A p \in Parents(c) : DiffMode => Complete(p, S)
    PROVE  Complete(c, S)
<1> DEFINE t == TreeOf(c)
           d == DirOf(t)
           In(o) == Keeps(ask.filter, o) => o \in Held(S)
<1>1. \A o \in Olds(c) : \E p \in Parents(c) : DiffMode /\ o = TreeOf(p)
  BY DEF Olds
<1>2. ASSUME NEW o \in Olds(c)
      PROVE  In(FileOf(o)) /\ In(DirOf(o)) /\ In(OneOf(DirOf(o))) /\ In(OtherOf(DirOf(o)))
  <2>1. PICK p \in Parents(c) : DiffMode /\ o = TreeOf(p)
    BY <1>1, <1>2
  <2> QED BY <2>1 DEF Complete, CommitObjects, TreeObjects
<1>3. ASSUME NEW b, NEW E, Covered(b, E, S), \A e \in E : In(e)
      PROVE  In(b)
  BY <1>3 DEF Covered, Unchanged, Held
<1>4. In(CommitId(c)) /\ In(t)
  BY DEF Held, TreeDone
<1>5. In(FileOf(t))
  <2>1. Covered(FileOf(t), {FileOf(o) : o \in Olds(c)}, S)
    BY DEF TreeDone
  <2> HIDE DEF t, In
  <2> QED BY <2>1, <1>2, <1>3
<1>6. CASE Unchanged(d, DirsOf(Olds(c)))
  <2>1. PICK o \in Olds(c) : DirOf(o) = d
    BY <1>6 DEF Unchanged, DirsOf
  <2>2. In(d) /\ In(OneOf(d)) /\ In(OtherOf(d))
    <3> HIDE DEF d, In
    <3> QED BY <2>1, <1>2
  <2> QED BY <2>2, <1>4, <1>5 DEF Complete, CommitObjects, TreeObjects
<1>7. CASE DirDone(d, DirsOf(Olds(c)), S)
  <2>1. /\ d \in S
        /\ Covered(OneOf(d), {OneOf(o) : o \in DirsOf(Olds(c))}, S)
        /\ Covered(OtherOf(d), {OtherOf(o) : o \in DirsOf(Olds(c))}, S)
    BY <1>7 DEF DirDone
  <2>2. \A o \in DirsOf(Olds(c)) : In(OneOf(o)) /\ In(OtherOf(o))
    <3> HIDE DEF In
    <3> QED BY <1>2 DEF DirsOf
  <2>3. In(OneOf(d)) /\ In(OtherOf(d))
    <3> HIDE DEF d, In
    <3> QED BY <2>1, <2>2, <1>3
  <2>4. In(d)
    BY <2>1 DEF Held
  <2> QED BY <2>3, <2>4, <1>4, <1>5 DEF Complete, CommitObjects, TreeObjects
<1> QED
  BY <1>6, <1>7 DEF TreeDone

\* When the walk is done, the set and the client hold every commit that is due.
LEMMA SetComplete ==
    ASSUME AskOk, FetchGood, ~Expands, NEW S, WalkOk({}, S)
    PROVE  \A c \in DueCommits : Complete(c, S)
<1>1. \A c \in Walked : CommitDone(c, S)
  BY DEF WalkOk
<1>2. \A c \in ask.client.commits : Complete(c, S)
  BY ObjectsByCommit DEF Complete, Held
<1>3. CASE ask.filter = "tree:0"
  <2>1. \A c : \A o \in CommitObjects(c) : Keeps(ask.filter, o) => o = CommitId(c)
    <3>1. \A c : \A o \in TreeObjects(TreeOf(c)) : o[1] \in {"tree", "blob", "dir"}
      BY Kinds DEF TreeObjects
    <3>2. \A o : Keeps(ask.filter, o) => o[1] \in {"commit", "tag"}
      BY <1>3 DEF Keeps
    <3> QED BY <3>1, <3>2 DEF CommitObjects
  <2> QED BY <2>1, <1>1, <1>2, DueWalked DEF Complete, Held, CommitDone
<1>4. CASE ask.filter # "tree:0"
  <2> DEFINE Bad == {c \in DueCommits : ~Complete(c, S)}
  <2>1. SUFFICES ASSUME Bad # {} PROVE FALSE
    BY <2>1
  <2>2. Bad \subseteq Nat
    BY DueWalked, AskHistory
  <2>3. PICK x \in Bad : \A t \in Bad : x <= t
    <3> HIDE DEF Bad
    <3> QED BY <2>1, <2>2, LeastNumber
  <2>4. x \in DueCommits /\ x \in FtCommits /\ ~Complete(x, S) /\ x \in Nat
    BY <2>3, DueWalked, AskHistory
  <2>5. CommitDone(x, S)
    BY <2>4, <1>1, <1>2, DueWalked
  <2>6. \A p \in Parents(x) : DiffMode => Complete(p, S)
    <3> SUFFICES ASSUME NEW p \in Parents(x), DiffMode PROVE Complete(p, S)
      OBVIOUS
    <3>1. p \in DueCommits /\ p < x /\ p \in Nat
      BY <2>4, DueWalked, AskHistory
    <3>2. p \notin Bad
      <4> HIDE DEF Bad
      <4> QED BY <3>1, <2>3, <2>4
    <3> QED BY <3>1, <3>2
  <2> QED BY <2>4, <2>5, <2>6, <1>4, TreeComplete DEF CommitDone
<1> QED
  BY <1>3, <1>4

(***************************************************************************)
(* The inductive invariant.                                                *)
(***************************************************************************)

WalkInv == ftPc = "walk" /\ FetchGood /\ ftNeed = {} => WalkOk(ftWalk, ftSet)
SentInv == ftPc = "sent" /\ FetchGood => HasAll
FtInv == AskOk /\ WalkInv /\ SentInv

\* A step that keeps the request keeps what is due and what is walked.
LEMMA SameAsk ==
    ASSUME ask' = ask
    PROVE  /\ AskOk' = AskOk /\ FetchGood' = FetchGood
           /\ WalkOk(ftWalk, ftSet)' <=> WalkOk(ftWalk', ftSet')
           /\ AskOk /\ FetchGood => (HasAll' <=> Due \subseteq ftPack' \cup ObjectsOf(ask.client.commits))
<1>1. \A c : Parents(c)' = Parents(c) /\ TreeOf(c)' = TreeOf(c)
  BY DEF Parents, TreeOf
<1>2. \A cs : History(cs)' = History(cs)
  BY DEF History
<1>3. \A cs : ParentsOf(cs)' = ParentsOf(cs)
  BY <1>1 DEF ParentsOf
<1>4. \A n : Lines(n)' = Lines(n)
  BY <1>1 DEF Lines
<1>5. \A n : Level(n)' = Level(n)
  BY <1>4 DEF Level
<1>6. \A n : Within(n)' = Within(n) /\ Fringe(n)' = Fringe(n)
  BY <1>5 DEF Within, Fringe
<1>7. \A n : compute_shallow(n)' = compute_shallow(n)
  BY <1>1, <1>3, <1>6 DEF compute_shallow
<1>8. DiffMode' = DiffMode /\ Expands' = Expands /\ CommonHaves' = CommonHaves
  BY DEF DiffMode, Expands, CommonHaves
<1>9. HiddenCommits' = HiddenCommits
  BY <1>7, <1>8 DEF HiddenCommits
<1>10. WantedCommits' = WantedCommits
  BY DEF WantedCommits
<1>11. Walked' = Walked
  BY <1>2, <1>9, <1>10 DEF Walked
<1>12. \A c : Olds(c)' = Olds(c)
  BY <1>1, <1>8 DEF Olds
<1>13. \A c : EntersDir(c)' = EntersDir(c)
  BY <1>1, <1>12 DEF EntersDir, DirsOf, DirOf, Unchanged
<1>14. \A b, olds, S : Covered(b, olds, S)' = Covered(b, olds, S)
  BY DEF Covered, Unchanged, Keeps
<1>15. \A t, olds, S : TreeDone(t, olds, S)' = TreeDone(t, olds, S)
  BY <1>14 DEF TreeDone, DirDone, Unchanged, DirsOf, FileOf, DirOf, OneOf, OtherOf
<1>16. \A c, S : CommitDone(c, S)' = CommitDone(c, S)
  BY <1>1, <1>8, <1>12, <1>15 DEF CommitDone, CommitId
<1>17. \A w, S : Sourced(w, S)' = Sourced(w, S)
  BY <1>1, <1>11, <1>13 DEF Sourced, CommitId, DirOf
<1>18. WalkOk(ftWalk, ftSet)' <=> WalkOk(ftWalk', ftSet')
  BY <1>8, <1>11, <1>16, <1>17 DEF WalkOk
<1>19. AskOk' = AskOk
  BY DEF AskOk
<1>20. CutHistory' = CutHistory /\ TagAsIs' = TagAsIs
  BY <1>8 DEF CutHistory, TagAsIs
<1>21. TreeReturns' = TreeReturns
  BY <1>1, <1>11 DEF TreeReturns, Enters, DirOf
<1>22. DepthHides' = DepthHides
  BY <1>2, <1>6, <1>7 DEF DepthHides
<1>23. FetchGood' = FetchGood
  BY <1>8, <1>20, <1>21, <1>22 DEF FetchGood
<1>24. ASSUME AskOk, FetchGood
       PROVE  DueCommits' = DueCommits
  <2>1. ask'.client.shallow = {}
    BY <1>24, GoodAsk
  <2>2. (Followed(WantedCommits) = History(WantedCommits))'
    BY <2>1, Zenon DEF Followed
  <2>3. DueCommits' = IF ask.depth = 0 THEN History(WantedCommits)' ELSE Within(ask.depth)'
    BY <2>2 DEF DueCommits
  <2> QED BY <2>3, <1>2, <1>6, <1>10, <1>24, GoodAsk
<1>25. \A cs : ObjectsOf(cs)' = ObjectsOf(cs)
  BY <1>1 DEF ObjectsOf, CommitId, TreeObjects, FileOf, DirOf, OneOf, OtherOf
<1>26. AskOk /\ FetchGood => Due' = Due
  BY <1>24, <1>25 DEF Due, TagId, Keeps
<1>27. Due' = Due => (HasAll' <=> Due \subseteq ftPack' \cup ObjectsOf(ask.client.commits))
  BY <1>25 DEF HasAll
<1> QED
  BY <1>18, <1>19, <1>23, <1>26, <1>27

\* A diff only adds to the set.
LEMMA DiffKeeps ==
    ASSUME NEW t, NEW olds, NEW S
    PROVE  S \subseteq DiffTree(t, olds, S).set
<1>1. \A d, os, T : T \subseteq DiffDir(d, os, T).set
  <2> TAKE d, os, T
  <2> DEFINE more == {b \in (IF Unchanged(OneOf(d), {OneOf(o) : o \in os}) THEN {} ELSE {OneOf(d)})
                            \cup (IF Unchanged(OtherOf(d), {OtherOf(o) : o \in os}) THEN {} ELSE {OtherOf(d)}) :
                         Keeps(ask.filter, b)}
             away == {o \in os : o \notin ftLocal}
  <2>1. DiffDir(d, os, T).set = T \/ DiffDir(d, os, T).set = T \cup {d} \/ DiffDir(d, os, T).set = T \cup {d} \cup more
    <3>1. DiffDir(d, os, T) = IF d \in T THEN [set |-> T, need |-> {}]
             ELSE IF d \notin ftLocal THEN [set |-> T \cup {d}, need |-> {d}]
             ELSE IF away # {} THEN [set |-> T, need |-> away]
             ELSE [set |-> T \cup {d} \cup more, need |-> {}]
      BY DEF DiffDir
    <3> HIDE DEF more, away
    <3> QED BY <3>1
  <2> HIDE DEF more
  <2> QED BY <2>1
<1> DEFINE with == S \cup {t} \cup {b \in (IF Unchanged(FileOf(t), {FileOf(o) : o \in olds}) THEN {} ELSE {FileOf(t)}) :
                                      Keeps(ask.filter, b)}
           away == {o \in olds : o \notin ftLocal}
<1>2. DiffTree(t, olds, S) = IF t \in S THEN [set |-> S, need |-> {}]
       ELSE IF t \notin ftLocal THEN [set |-> S \cup {t}, need |-> {t}]
       ELSE IF away # {} THEN [set |-> S, need |-> away]
       ELSE IF Unchanged(DirOf(t), DirsOf(olds)) THEN [set |-> with, need |-> {}]
       ELSE DiffDir(DirOf(t), DirsOf(olds), with)
  BY DEF DiffTree, DirsOf
<1>3. S \subseteq with
  OBVIOUS
<1> HIDE DEF with, away
<1> QED
  BY <1>1, <1>2, <1>3

\* A request arrives as FetchAssumption says.
LEMMA FtInit ==
    ASSUME FetchInit
    PROVE  FtInv
<1>1. ask \in FtAsks \cup FtClones /\ ftPc = "gate"
  BY DEF FetchInit, FetchStart
<1>2. AskOk
  BY <1>1, FetchAssumption DEF AskOk
<1> QED
  BY <1>1, <1>2 DEF FtInv, WalkInv, SentInv

\* A client that asks again asks for the same.
LEMMA NakStep ==
    ASSUME FtInv, Nak
    PROVE  FtInv'
<1>1. ask' = [ask EXCEPT !.done = TRUE] /\ ftPc' = "negotiate" /\ AskOk
  BY DEF Nak, FtInv
<1>2. ask' \in Requests
  BY <1>1 DEF AskOk, Requests
<1>3. AskFits(ask')
  BY <1>1 DEF AskOk, AskFits, Requests
<1> QED
  BY <1>1, <1>2, <1>3 DEF FtInv, WalkInv, SentInv, AskOk

\* Each round of the enumeration starts with an empty set and the whole walk.
LEMMA BeginStep ==
    ASSUME FtInv, BeginEnumerate
    PROVE  FtInv'
<1> DEFINE found == ~ask.tag \/ CommitId(FtTag) \in ftLocal
           heads == ask.wants \cup (IF ask.tag /\ found THEN {FtTag} ELSE {})
<1>1. /\ ask' = ask /\ ftPc' = "walk"
      /\ ftSet' = FirstObjects
      /\ ftNeed' = IF found THEN {} ELSE {CommitId(FtTag)}
      /\ ftWalk' = History(heads) \ History(HiddenCommits)
  BY DEF BeginEnumerate
<1>2. ASSUME FetchGood, ftNeed' = {}
      PROVE  WalkOk(ftWalk', ftSet')
  <2>1. found
    BY <1>1, <1>2
  <2>2. ftWalk' = Walked
    BY <1>1, <2>1 DEF Walked, WantedCommits
  <2>3. ASSUME ~Expands
        PROVE  ~ask.tag /\ ftSet' = {}
    BY <2>3, <1>1, <1>2 DEF FetchGood, TagAsIs, FirstObjects
  <2>4. ~Expands => Sourced(ftWalk', ftSet')
    BY <2>3 DEF Sourced
  <2> QED BY <2>2, <2>3, <2>4 DEF WalkOk
<1> QED
  BY <1>1, <1>2, SameAsk DEF FtInv, WalkInv, SentInv

\* One commit of the walk keeps what the walk has done.
LEMMA WalkStep ==
    ASSUME FtInv, WalkCommit
    PROVE  FtInv'
<1> DEFINE c == CHOOSE x \in ftWalk : \A y \in ftWalk : y <= x
           away == {CommitId(p) : p \in Parents(c)} \ ftLocal
           diffs == DiffMode /\ Parents(c) # {}
           with == ftSet \cup {CommitId(c)}
           diff == DiffTree(TreeOf(c), IF diffs THEN {TreeOf(p) : p \in Parents(c)} ELSE {}, with)
<1>1. /\ ftPc = "walk" /\ ftPc' = "walk" /\ ask' = ask /\ ftWalk # {} /\ AskOk
      /\ ftWalk' = ftWalk \ {c}
      /\ \/ CommitId(c) \in ftSet /\ UNCHANGED <<ftSet, ftNeed>>
         \/ CommitId(c) \notin ftSet /\ Classic /\ Expands /\ ftSet' = with /\ UNCHANGED ftNeed
         \/ /\ CommitId(c) \notin ftSet /\ ~(Classic /\ Expands) /\ CommitId(c) \notin ftLocal
            /\ ftSet' = with /\ ftNeed' = ftNeed \cup {CommitId(c)}
         \/ /\ CommitId(c) \notin ftSet /\ ~(Classic /\ Expands) /\ CommitId(c) \in ftLocal
            /\ IF ask.filter = "tree:0" THEN ftSet' = with /\ UNCHANGED ftNeed
               ELSE IF diffs /\ away # {} THEN UNCHANGED ftSet /\ ftNeed' = ftNeed \cup away
               ELSE ftSet' = diff.set /\ ftNeed' = ftNeed \cup diff.need
  BY DEF WalkCommit, FtInv
<1>2. ASSUME FetchGood, ftNeed' = {}
      PROVE  WalkOk(ftWalk', ftSet')
  <2> HIDE DEF c, away, diff, diffs
  <2>1. ftNeed = {}
    BY <1>1, <1>2
  <2>2. WalkOk(ftWalk, ftSet)
    BY <1>1, <1>2, <2>1 DEF FtInv, WalkInv
  <2>3. c \in ftWalk
    <3>1. ftWalk \subseteq FtCommits
      BY <2>2, <1>1, AskHistory, FetchAssumption, HistoryFacts DEF WalkOk, Walked, WantedCommits
    <3>2. \E x \in ftWalk : \A y \in ftWalk : y <= x
      BY <3>1, <1>1, LargestCommit
    <3> QED BY <3>2 DEF c
  <2>4. CASE CommitId(c) \in ftSet /\ ftSet' = ftSet
    <3>1. Expands
      BY <2>2, <2>3, <2>4 DEF WalkOk, Sourced
    <3> QED BY <3>1, <2>2, <2>3, <2>4, <1>1, WalkPlain
  <2>5. CASE ftSet' = with /\ (Expands \/ ask.filter = "tree:0")
    BY <2>5, <2>2, <2>3, <1>1, WalkPlain
  <2>6. CASE /\ ask.filter # "tree:0" /\ ~Expands
             /\ ftSet' = diff.set /\ ftNeed' = ftNeed \cup diff.need
    <3>1. diff = DiffTree(TreeOf(c), Olds(c), with)
      <4>1. (IF diffs THEN {TreeOf(p) : p \in Parents(c)} ELSE {}) = Olds(c)
        BY DEF diffs, Olds
      <4> HIDE DEF with
      <4> QED BY <4>1 DEF diff
    <3>2. diff.need = {}
      BY <2>6, <1>2
    <3> QED BY <3>1, <3>2, <2>2, <2>3, <2>6, <1>1, <1>2, WalkDiff
  <2>7. CASE Expands /\ ftSet' = diff.set /\ ftNeed' = ftNeed \cup diff.need
    <3>1. with \subseteq diff.set
      <4> HIDE DEF with
      <4> QED BY DiffKeeps DEF diff
    <3> QED BY <3>1, <2>2, <2>3, <2>7, <1>1 DEF WalkOk, CommitDone
  <2>8. ~(diffs /\ away # {} /\ ftNeed' = ftNeed \cup away)
    BY <1>2
  <2> QED BY <1>1, <1>2, <2>4, <2>5, <2>6, <2>7, <2>8
<1> QED
  BY <1>1, <1>2, SameAsk DEF FtInv, WalkInv, SentInv

\* What is sent at the end of the walk is all that the client lacks.
LEMMA SendStep ==
    ASSUME FtInv, SendPack
    PROVE  FtInv'
<1> DEFINE set == ftSet \cup (IF CommitId(FtTag) \in ftSet THEN {TagId} ELSE {})
<1>1. /\ ask' = ask /\ ftPc = "walk" /\ ftPc' = "sent" /\ ftWalk = {} /\ ftNeed = {}
      /\ ftPack' = set \cup (IF Expands THEN ObjectsOf({c \in FtCommits : CommitId(c) \in set}) ELSE {})
      /\ AskOk
  BY DEF SendPack, FtInv
<1>2. ftSet \subseteq ftPack' /\ ftSet \subseteq set
  BY <1>1
<1>3. ASSUME FetchGood
      PROVE  Due \subseteq ftPack' \cup ObjectsOf(ask.client.commits)
  <2>1. WalkOk({}, ftSet)
    BY <1>1, <1>3 DEF FtInv, WalkInv
  <2>2. CASE ~Expands
    <3>1. ~ask.tag
      BY <2>2, <2>1 DEF WalkOk
    <3>2. SUFFICES ASSUME NEW o \in ObjectsOf(DueCommits), Keeps(ask.filter, o)
                   PROVE  o \in ftPack' \cup ObjectsOf(ask.client.commits)
      BY <3>1 DEF Due
    <3>3. PICK c \in DueCommits : o \in CommitObjects(c)
      BY ObjectsByCommit
    <3>4. Complete(c, ftSet)
      BY <3>3, <2>1, <2>2, <1>1, <1>3, SetComplete
    <3> QED BY <3>2, <3>3, <3>4, <1>2 DEF Complete, Held
  <2>3. CASE Expands
    <3>1. DueCommits \subseteq {c \in FtCommits : CommitId(c) \in set}
      <4> HIDE DEF set
      <4>1. ask.client.commits = {}
        BY <2>3, <1>1, <1>3, GoodAsk DEF Expands
      <4> QED BY <4>1, <2>1, <1>1, <1>2, <1>3, DueWalked DEF WalkOk, CommitDone
    <3>2. ObjectsOf(DueCommits) \subseteq ftPack'
      <4>1. ObjectsOf({c \in FtCommits : CommitId(c) \in set}) \subseteq ftPack'
        BY <1>1, <2>3
      <4> HIDE DEF set
      <4> QED BY <4>1, <3>1, ObjectsByCommit
    <3>3. ASSUME ask.tag
          PROVE  TagId \in ftPack'
      <4>1. FtTag \in DueCommits
        <5>1. FtTag \in WantedCommits /\ WantedCommits \subseteq FtCommits
          BY <3>3, <1>1, AskHistory, FetchAssumption DEF WantedCommits
        <5>2. ask.depth = 0
          BY <2>3 DEF Expands
        <5> QED BY <5>1, <5>2, <1>1, <1>3, GoodAsk, HistoryFacts
      <4>2. FtTag \in Walked
        BY <4>1, <2>3, <1>1, <1>3, DueWalked, GoodAsk DEF Expands
      <4>3. CommitId(FtTag) \in ftSet
        BY <4>2, <2>1 DEF WalkOk, CommitDone
      <4> QED BY <4>3, <1>1
    <3> QED BY <3>2, <3>3 DEF Due
  <2> QED BY <2>2, <2>3
<1> QED
  BY <1>1, <1>3, SameAsk DEF FtInv, WalkInv, SentInv

\* git upload-pack sends what is due.
LEMMA GitStep ==
    ASSUME FtInv, GitPack
    PROVE  FtInv'
<1>1. ask' = ask /\ ftPc' = "sent" /\ ftPack' = Due \ ObjectsOf(ask.client.commits)
  BY DEF GitPack
<1>2. Due \subseteq ftPack' \cup ObjectsOf(ask.client.commits)
  BY <1>1
<1> QED
  BY <1>1, <1>2, SameAsk DEF FtInv, WalkInv, SentInv

\* The steps before the walk, and those that end the request without a pack.
LEMMA OtherSteps ==
    ASSUME FtInv, RefuseFetch \/ AdmitFetch \/ ShallowFails \/ FaultWants \/ FaultMissing
    PROVE  FtInv'
<1>1. ask' = ask /\ ftPc' \notin {"walk", "sent"}
  BY DEF RefuseFetch, AdmitFetch, ShallowFails, FaultWants, FaultMissing
<1> QED
  BY <1>1, SameAsk DEF FtInv, WalkInv, SentInv

\* FtInv is inductive.
LEMMA FtNext ==
    ASSUME FtInv, [FetchNext]_fetchVars
    PROVE  FtInv'
<1>1. ASSUME UNCHANGED fetchVars
      PROVE  FtInv'
  <2>1. ask' = ask /\ ftPc' = ftPc /\ ftNeed' = ftNeed /\ ftWalk' = ftWalk /\ ftSet' = ftSet /\ ftPack' = ftPack
    BY <1>1 DEF fetchVars
  <2>2. AskOk /\ FetchGood => (HasAll' <=> HasAll)
    BY <2>1, SameAsk DEF HasAll
  <2> QED BY <2>1, <2>2, SameAsk DEF FtInv, WalkInv, SentInv
<1> QED
  BY <1>1, NakStep, BeginStep, WalkStep, SendStep, GitStep, OtherSteps DEF FetchNext

\* For every history, every trees of its commits and every request: after a fetch the client has
\* every object reachable from what it wanted that the filter keeps (upload_gix.rs:635-981), whatever
\* has to be read from the bucket on the way, apart from the four cases that FetchComplete leaves out.
THEOREM FetchCompleteAlways == FetchSpec => []FetchComplete
<1>1. FetchInit => FtInv
  BY FtInit
<1>2. FtInv /\ [FetchNext]_fetchVars => FtInv'
  BY FtNext
<1>3. FtInv => FetchComplete
  BY DEF FtInv, SentInv, FetchComplete, FetchGood
<1> QED
  BY <1>1, <1>2, <1>3, PTL DEF FetchSpec
=============================================================================
