---------------------------- MODULE RegistryLife ---------------------------
(***************************************************************************)
(* The life of one repository name: opened, created, deleted, evicted and  *)
(* created again on several instances, each with handles in memory and a   *)
(* copy on disk (registry.rs).                                             *)
(*                                                                         *)
(* A repository that is created again under the name is a new generation;  *)
(* the code knows nothing of generations, they are here to tell apart what *)
(* belongs to which.  Refs are the set of log entries they fold.           *)
(***************************************************************************)
EXTENDS Integers, FiniteSets

CONSTANTS
    RegHosts,            \* instances
    MaxGen,              \* bound: generations
    MaxSlot,             \* bound: log slots
    CreateDuringDelete   \* the name may be created again before a delete has ended

ASSUME RegistryAssumption == MaxGen \in Nat /\ MaxSlot \in Nat /\ CreateDuringDelete \in BOOLEAN

VARIABLES
    man,     \* bucket: manifest.pb; gen 0 when there is none
    objs,    \* bucket: log segments under the prefix, and whose they are
    gens,    \* generations created so far
    cur,     \* Registry.repos: the handle of the name, 0 when none
    hnd,     \* handles, some of them held by requests only
    copy,    \* the copy on disk: refs and the state file
    req,     \* a request on each instance
    del      \* a delete on each instance

regVars == <<man, objs, gens, cur, hnd, copy, req, del>>

NoMan == [gen |-> 0, rev |-> 0, head |-> 0, segs |-> {}]
NoDir == [there |-> FALSE, refs |-> {}, applied |-> 0, rev |-> 0]
NewDir == [NoDir EXCEPT !.there = TRUE]
NewHandle(m, ok) == [man |-> m, born |-> m.gen, verified |-> ok]
IdleRequest == [pc |-> "idle", hd |-> 1, saw |-> NoMan, slot |-> 0]
IdleDel == [pc |-> "idle", at |-> 0]
ManifestKey == MaxSlot + 1        \* "log/" sorts before "manifest.pb"

RegInit ==
    /\ man = NoMan /\ objs = <<>> /\ gens = 0
    /\ cur = [h \in RegHosts |-> 0]
    /\ hnd = [h \in RegHosts |-> [i \in 1 .. 2 |-> NewHandle(NoMan, FALSE)]]
    /\ copy = [h \in RegHosts |-> NoDir]
    /\ req = [h \in RegHosts |-> IdleRequest] /\ del = [h \in RegHosts |-> IdleDel]

Unused(h) == IF cur[h] = 1 \/ (cur[h] = 0 /\ req[h].pc \in {"have", "synced", "slotted"} /\ req[h].hd = 1)
             THEN 2 ELSE 1

\* The refs that a manifest stands for, and whether its log can be read.
Exact(m) == {<<m.gen, s>> : s \in m.segs}
Readable(m) == m.segs \subseteq DOMAIN objs
Folded(m) == {<<objs[s].gen, s>> : s \in m.segs}

\* apply_delta_with_rebuild on a copy: from nothing, or from what was applied.
ApplyDelta(c, m, rebuild) ==
    LET fresh == rebuild \/ c.applied > m.head \/ m.rev < c.rev
    IN  [there |-> TRUE, applied |-> m.head, rev |-> m.rev,
         refs |-> IF fresh THEN Folded(m)
                  ELSE c.refs \cup {r \in Folded(m) : r[2] > c.applied}]

\* open: the handle of the registry, or the manifest first.
ReqOpen(h) ==
    /\ req[h].pc = "idle"
    /\ IF cur[h] # 0 THEN req' = [req EXCEPT ![h] = [IdleRequest EXCEPT !.pc = "have", !.hd = cur[h]]]
       ELSE man.gen # 0 /\ req' = [req EXCEPT ![h] = [IdleRequest EXCEPT !.pc = "opening", !.saw = man]]
    /\ UNCHANGED <<man, objs, gens, cur, hnd, copy, del>>

\* open: the copy that is there, or a new one; applied unless it is at the head.
OpenInstall(h) ==
    LET m == req[h].saw
        c == IF copy[h].there THEN copy[h] ELSE NewDir
        needs_apply == c.applied # m.head \/ m.head = 0
        i == Unused(h)
    IN  /\ req[h].pc = "opening"
        /\ IF needs_apply /\ ~Readable(m)
           THEN /\ req' = [req EXCEPT ![h] = IdleRequest] /\ copy' = [copy EXCEPT ![h] = c]
                /\ UNCHANGED <<cur, hnd>>
           ELSE /\ copy' = [copy EXCEPT ![h] = IF needs_apply THEN ApplyDelta(c, m, TRUE) ELSE c]
                /\ hnd' = [hnd EXCEPT ![h][i] = NewHandle(m, needs_apply)]
                /\ cur' = [cur EXCEPT ![h] = i]
                /\ req' = [req EXCEPT ![h] = [IdleRequest EXCEPT !.pc = "have", !.hd = i]]
        /\ UNCHANGED <<man, objs, gens, del>>

\* create: the manifest with PutMode::Create; somebody else's is AlreadyExists.
ReqCreate(h) ==
    /\ req[h].pc = "idle" /\ cur[h] = 0 /\ man.gen = 0 /\ gens < MaxGen
    /\ CreateDuringDelete \/ \A g \in RegHosts : del[g].pc = "idle"
    /\ gens' = gens + 1
    /\ man' = [gen |-> gens + 1, rev |-> 1, head |-> 0, segs |-> {}]
    /\ req' = [req EXCEPT ![h] = [IdleRequest EXCEPT !.pc = "created", !.saw = man']]
    /\ UNCHANGED <<objs, cur, hnd, copy, del>>

CreateInstall(h) ==
    /\ req[h].pc = "created"
    /\ copy' = [copy EXCEPT ![h] = NewDir]
    /\ hnd' = [hnd EXCEPT ![h][Unused(h)] = NewHandle(req[h].saw, FALSE)]
    /\ cur' = [cur EXCEPT ![h] = Unused(h)]
    /\ req' = [req EXCEPT ![h] = [IdleRequest EXCEPT !.pc = "have", !.hd = Unused(h)]]
    /\ UNCHANGED <<man, objs, gens, del>>

\* What a sync makes of the handle's manifest m0 and the one in the bucket: which
\* manifest is held afterwards, and whether refs are applied, and from scratch.
\* Mutant: refs are not rebuilt when the manifest has not changed.
Refreshed_TrustsCopy(m0, verified) ==
    CASE man = m0          -> [man |-> m0, apply |-> FALSE, rebuild |-> FALSE]
      [] man.rev < m0.rev  -> [man |-> m0, apply |-> ~verified, rebuild |-> TRUE]
      [] man.rev = m0.rev  -> [man |-> man, apply |-> ~verified, rebuild |-> TRUE]
      [] OTHER             -> [man |-> man, apply |-> TRUE, rebuild |-> ~verified]

Refreshed(m0, verified) ==
    CASE man = m0          -> [man |-> m0, apply |-> ~verified, rebuild |-> TRUE]
      [] man.rev < m0.rev  -> [man |-> m0, apply |-> ~verified, rebuild |-> TRUE]
      [] man.rev = m0.rev  -> [man |-> man, apply |-> ~verified, rebuild |-> TRUE]
      [] OTHER             -> [man |-> man, apply |-> TRUE, rebuild |-> ~verified]

\* sync_locked_inner: freshness check and apply; an error ends the request.
ReqSync(h) ==
    LET i == req[h].hd
        x == Refreshed(hnd[h][i].man, hnd[h][i].verified)
        fails == man.gen = 0 \/ ~copy[h].there \/ (x.apply /\ ~Readable(x.man))
    IN  /\ req[h].pc = "have"
        /\ IF fails THEN req' = [req EXCEPT ![h] = IdleRequest] /\ UNCHANGED <<copy, hnd>>
           ELSE /\ copy' = [copy EXCEPT ![h] = IF x.apply THEN ApplyDelta(@, x.man, x.rebuild) ELSE @]
                /\ hnd' = [hnd EXCEPT ![h][i].man = x.man, ![h][i].verified = TRUE]
                /\ req' = [req EXCEPT ![h].pc = "synced", ![h].saw = man]
        /\ UNCHANGED <<man, objs, gens, cur, del>>

\* The answer goes out, or a push goes on to claim a slot.
ReqEnd(h) ==
    /\ req[h].pc = "synced"
    /\ req' = [req EXCEPT ![h] = IdleRequest]
    /\ UNCHANGED <<man, objs, gens, cur, hnd, copy, del>>

\* Mutant: the segment is written over whatever is there.
PubSlot_Overwrites(h) ==
    LET m == hnd[h][req[h].hd].man
        s == m.head + 1
    IN  /\ req[h].pc = "synced" /\ s <= MaxSlot
        /\ objs' = [k \in DOMAIN objs \cup {s} |-> IF k = s THEN [gen |-> m.gen, by |-> h] ELSE objs[k]]
        /\ req' = [req EXCEPT ![h].pc = "slotted", ![h].slot = s]
        /\ UNCHANGED <<man, gens, cur, hnd, copy, del>>

\* claim_log_slot: the first free slot past the head, orphans burned.
PubSlot(h) ==
    LET m == hnd[h][req[h].hd].man
        free == {s \in m.head + 1 .. MaxSlot : s \notin DOMAIN objs}
        s == CHOOSE k \in free : \A l \in free : k <= l
    IN  /\ req[h].pc = "synced" /\ free # {}
        /\ objs' = [k \in DOMAIN objs \cup {s} |-> IF k = s THEN [gen |-> m.gen, by |-> h] ELSE objs[k]]
        /\ req' = [req EXCEPT ![h].pc = "slotted", ![h].slot = s]
        /\ UNCHANGED <<man, gens, cur, hnd, copy, del>>

\* Mutant: a manifest that is gone is written again.
PubCas_Recreates(h) ==
    LET i == req[h].hd
        m == hnd[h][i].man
        new == [m EXCEPT !.rev = @ + 1, !.head = req[h].slot, !.segs = @ \cup {req[h].slot}]
    IN  /\ req[h].pc = "slotted"
        /\ IF man = m \/ man.gen = 0
           THEN /\ man' = new /\ hnd' = [hnd EXCEPT ![h][i].man = new]
                /\ copy' = [copy EXCEPT ![h] = IF @.there /\ Readable(new) THEN ApplyDelta(@, new, FALSE) ELSE @]
                /\ UNCHANGED objs
           ELSE /\ objs' = [k \in {s \in DOMAIN objs : s = req[h].slot => objs[s] # [gen |-> m.gen, by |-> h]} |-> objs[k]]
                /\ UNCHANGED <<man, hnd, copy>>
        /\ req' = [req EXCEPT ![h] = IdleRequest]
        /\ UNCHANGED <<gens, cur, del>>

\* The manifest CAS on the version of the handle, with the local commit; lost, it
\* drops its slot (drop_own_slot: only the version it wrote).
PubCas(h) ==
    LET i == req[h].hd
        m == hnd[h][i].man
        new == [m EXCEPT !.rev = @ + 1, !.head = req[h].slot, !.segs = @ \cup {req[h].slot}]
    IN  /\ req[h].pc = "slotted"
        /\ IF man = m
           THEN /\ man' = new /\ hnd' = [hnd EXCEPT ![h][i].man = new]
                /\ copy' = [copy EXCEPT ![h] = IF @.there /\ Readable(new) THEN ApplyDelta(@, new, FALSE) ELSE @]
                /\ UNCHANGED objs
           ELSE /\ objs' = [k \in {s \in DOMAIN objs : s = req[h].slot => objs[s] # [gen |-> m.gen, by |-> h]} |-> objs[k]]
                /\ UNCHANGED <<man, hnd, copy>>
        /\ req' = [req EXCEPT ![h] = IdleRequest]
        /\ UNCHANGED <<gens, cur, del>>

\* delete: the handle leaves the registry; requests keep theirs.
DelBegin(h) ==
    /\ del[h].pc = "idle" /\ man.gen # 0
    /\ cur' = [cur EXCEPT ![h] = 0]
    /\ del' = [del EXCEPT ![h].pc = "manifest"]
    /\ UNCHANGED <<man, objs, gens, hnd, copy, req>>

\* The manifest first: whichever is there.
DelManifest(h) ==
    /\ del[h].pc = "manifest"
    /\ man' = NoMan
    /\ del' = [del EXCEPT ![h] = [pc |-> "objects", at |-> 0]]
    /\ UNCHANGED <<objs, gens, cur, hnd, copy, req>>

\* Everything under the prefix in key order, a manifest included.
Listed(h) == {k \in DOMAIN objs \cup (IF man.gen # 0 THEN {ManifestKey} ELSE {}) : k > del[h].at}
DelObject(h) ==
    LET k == CHOOSE x \in Listed(h) : \A y \in Listed(h) : x <= y
    IN  /\ del[h].pc = "objects" /\ Listed(h) # {}
        /\ IF k = ManifestKey THEN man' = NoMan /\ UNCHANGED objs
           ELSE objs' = [s \in DOMAIN objs \ {k} |-> objs[s]] /\ UNCHANGED man
        /\ del' = [del EXCEPT ![h].at = k]
        /\ UNCHANGED <<gens, cur, hnd, copy, req>>

\* The local copy last.
DelDir(h) ==
    /\ del[h].pc = "objects" /\ Listed(h) = {}
    /\ copy' = [copy EXCEPT ![h] = NoDir]
    /\ del' = [del EXCEPT ![h] = IdleDel]
    /\ UNCHANGED <<man, objs, gens, cur, hnd, req>>

\* evict_idle: neither a sync nor a read guard is held; a request may have the handle.
EvictIdle(h) ==
    /\ cur[h] # 0 /\ req[h].pc \in {"idle", "have"}
    /\ cur' = [cur EXCEPT ![h] = 0]
    /\ copy' = [copy EXCEPT ![h] = NoDir]
    /\ UNCHANGED <<man, objs, gens, hnd, req, del>>

\* The process restarts: handles are gone, the copy is not.
RegRestart(h) ==
    /\ cur[h] # 0 /\ req[h].pc = "idle" /\ del[h].pc = "idle"
    /\ cur' = [cur EXCEPT ![h] = 0]
    /\ UNCHANGED <<man, objs, gens, hnd, copy, req, del>>

RegNext ==
    \E h \in RegHosts :
        \/ ReqOpen(h) \/ OpenInstall(h) \/ ReqCreate(h) \/ CreateInstall(h) \/ ReqSync(h) \/ ReqEnd(h)
        \/ PubSlot(h) \/ PubCas(h) \/ DelBegin(h) \/ DelManifest(h) \/ DelObject(h) \/ DelDir(h)
        \/ EvictIdle(h) \/ RegRestart(h)

RegSpec == RegInit /\ [][RegNext]_regVars

(***************************************************************************)
(* Properties.                                                             *)
(***************************************************************************)

\* delete against a publish that is under way elsewhere: a manifest that appears where
\* there was none is that of a new repository; a deleted one never comes back.
NoResurrection == [][man.gen = 0 /\ man'.gen # 0 => man'.gen = gens + 1]_regVars

\* delete against publish and create: what the manifest lists is in the bucket and
\* was written for this repository, whatever a late writer or the delete left behind.
SegmentsOwn == \A s \in man.segs : s \in DOMAIN objs /\ objs[s].gen = man.gen

\* open and the first sync on a copy left over from a deleted repository of the same
\* name: refs are served as this repository's log has them.
FreshHandleExact ==
    \A h \in RegHosts :
        req[h].pc = "synced" /\ copy[h].there /\ hnd[h][req[h].hd].born = req[h].saw.gen
            => copy[h].refs = Exact(req[h].saw)

\* "Other instances notice on their next freshness check": a request that has synced
\* serves the repository that the name stands for.
NoticesDeletion ==
    \A h \in RegHosts : req[h].pc = "synced" /\ copy[h].there => copy[h].refs = Exact(req[h].saw)

\* Repositories that share a name one after the other stay apart, in the bucket and on
\* disk, whatever a delete, a late publish or an old copy left behind.
GenerationsApart == SegmentsOwn /\ FreshHandleExact
============================================================================
