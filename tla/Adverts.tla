------------------------------ MODULE Adverts -------------------------------
(***************************************************************************)
(* Which refs a client is shown: the ref files of the copy, the snapshot    *)
(* parsed from them and patched by every local commit, and the adverts kept *)
(* per manifest version.                                                    *)
(*                                                                          *)
(* Entry k of the log sets the ref Touches[k] to the value k.  The refs     *)
(* phase of a sync and the commit of a local push hold sync_mutex; readers  *)
(* hold nothing that keeps either of them away.                             *)
(***************************************************************************)
EXTENDS Integers, FiniteSets

CONSTANTS AdRefs,      \* ref names
          Touches,     \* the ref each entry sets
          Viewers,     \* requests for the refs
          MaxViews,    \* bound: how often requests are made
          MaxRepairs   \* bound: rematerialize operations

ASSUME AdvertsAssumption ==
    /\ MaxViews \in Nat /\ MaxRepairs \in Nat
    /\ IsFiniteSet(DOMAIN Touches) /\ DOMAIN Touches = 1..Cardinality(DOMAIN Touches)
    /\ \A k \in DOMAIN Touches : Touches[k] \in AdRefs
    /\ Viewers \cap {"free", "pub", "repair"} = {}

VARIABLES adHead,    \* bucket: head_seq, which is also the version of the manifest
          acked,     \* the newest entry that was answered
          packed,    \* packed-refs: ref -> value, 0 when absent
          loose,     \* refs/: likewise
          refs_gen,  \* generation
          parsed,    \* refs_cache
          copyAt,    \* manifest_version of the handle; None after a failed commit
          appliedTo, \* applied_seq
          mutex,     \* sync_mutex
          view,      \* the requests
          pub,       \* the publisher of this instance
          repair,    \* rematerialize
          adverts,   \* RefAdvertCache: version -> advert
          views      \* requests made

advertVars == <<adHead, acked, packed, loose, refs_gen, parsed, copyAt, appliedTo, mutex, view,
                pub, repair, adverts, views>>
copyVars == <<packed, loose, refs_gen, parsed, copyAt, appliedTo>>

None == -1
AdSeqs == DOMAIN Touches
Absent == [b \in AdRefs |-> 0]
NoAdvert == [data |-> Absent, torn |-> FALSE, there |-> FALSE]

\* The refs after entry k.
RefsAt(k) ==
    [b \in AdRefs |-> LET mine == {j \in 1..k : Touches[j] = b}
                      IN IF mine = {} THEN 0 ELSE CHOOSE j \in mine : \A i \in mine : i <= j]

\* A ref file hides the line of packed-refs.
Overlay(low, high) == [b \in AdRefs |-> IF high[b] # 0 THEN high[b] ELSE low[b]]

AdvertsInit ==
    /\ adHead = 0 /\ acked = 0 /\ packed = Absent /\ loose = Absent
    /\ refs_gen = 0 /\ parsed = [key |-> None, data |-> Absent]
    /\ copyAt = 0 /\ appliedTo = 0 /\ mutex = "free" /\ views = 0
    /\ view = [v \in Viewers |-> [pc |-> "idle", since |-> 0, upto |-> 0, ver |-> 0, key |-> 0,
                                  data |-> Absent, disturbed |-> FALSE, torn |-> FALSE]]
    /\ pub = [pc |-> "idle", next |-> 0, upto |-> 0, before |-> [key |-> None, data |-> Absent],
               behind |-> FALSE]
    /\ repair = [pc |-> "idle", left |-> MaxRepairs]
    /\ adverts = [k \in {None} \cup 0..Cardinality(AdSeqs) |-> NoAdvert]

-----------------------------------------------------------------------------
(* The requests whose sync is over and who have not read the refs yet: what *)
(* others now write to the ref files, they read in part.  A repair, and a   *)
(* commit behind a newer sync, take the refs back (back).                   *)
Reading == {v \in Viewers : view[v].pc \in {"version", "key", "packed", "loose", "advert"}}

Disturb(back) ==
    [v \in Viewers |-> IF v \in Reading
                       THEN [view[v] EXCEPT !.disturbed = TRUE, !.torn = @ \/ back]
                       ELSE view[v]]

-----------------------------------------------------------------------------
(* sync_refs                                                                *)
AskRefs(v) ==
    /\ view[v].pc \in {"idle", "done"} /\ views < MaxViews
    /\ views' = views + 1
    /\ view' = [view EXCEPT ![v] = [@ EXCEPT !.pc = "sync", !.since = acked, !.disturbed = FALSE,
                                             !.torn = FALSE, !.data = Absent]]
    /\ UNCHANGED <<adHead, acked, mutex, pub, repair, adverts, copyVars>>

\* freshness_check under the mutex: the same version, or entries to apply.
FreshnessCheck(v) ==
    /\ view[v].pc = "sync" /\ mutex = "free"
    /\ IF copyAt = adHead
       THEN view' = [view EXCEPT ![v].pc = "version"] /\ UNCHANGED mutex
       ELSE view' = [view EXCEPT ![v].pc = "load", ![v].upto = adHead] /\ mutex' = v
    /\ UNCHANGED <<adHead, acked, pub, repair, adverts, views, copyVars>>

\* Mutant: the generation moves only when the files are about to change.
Renew_Before(files, first) ==
    /\ packed' = files /\ refs_gen' = refs_gen + (IF first THEN 1 ELSE 0)
    /\ loose' = IF first THEN loose ELSE Absent
\* load_ref_snapshot: packed-refs is replaced, then refs/ is emptied; the
\* generation moves before and after.
Renew(files, first) ==
    /\ packed' = files /\ refs_gen' = refs_gen + 1
    /\ loose' = IF first THEN loose ELSE Absent

\* replay_log: the entries after applied_seq on top of the refs there are.
ReplayPacked(v) ==
    /\ view[v].pc = "load"
    /\ Renew([b \in AdRefs |-> LET new == {j \in (appliedTo + 1)..view[v].upto : Touches[j] = b} IN
                               IF new = {} THEN Overlay(packed, loose)[b]
                               ELSE CHOOSE j \in new : \A i \in new : i <= j], TRUE)
    /\ view' = [Disturb(FALSE) EXCEPT ![v].pc = "loaded"]
    /\ UNCHANGED <<adHead, acked, parsed, copyAt, appliedTo, mutex, pub, repair, adverts, views>>

ReplayLoose(v) ==
    /\ view[v].pc = "loaded"
    /\ Renew(packed, FALSE)
    /\ copyAt' = view[v].upto /\ appliedTo' = view[v].upto
    /\ mutex' = "free"
    /\ view' = [Disturb(FALSE) EXCEPT ![v].pc = "version"]
    /\ UNCHANGED <<adHead, acked, parsed, pub, repair, adverts, views>>

-----------------------------------------------------------------------------
(* info_refs, ls-refs                                                       *)
Given(v, data, torn) ==
    view' = [view EXCEPT ![v] = [@ EXCEPT !.pc = "done", !.data = data, !.torn = torn, !.upto = 0,
                                          !.ver = 0, !.key = 0]]

\* The version first, then the cache.
ReadVersion(v) ==
    /\ view[v].pc = "version"
    /\ IF adverts[copyAt].there
       THEN Given(v, adverts[copyAt].data, adverts[copyAt].torn)
       ELSE view' = [view EXCEPT ![v].pc = "key", ![v].ver = copyAt]
    /\ UNCHANGED <<adHead, acked, mutex, pub, repair, adverts, views, copyVars>>

\* refs_arc: the parsed snapshot when its key is current, a parse when not.
ReadKey(v) ==
    /\ view[v].pc = "key"
    /\ view' = [view EXCEPT ![v] = IF parsed.key = refs_gen
                                   THEN [@ EXCEPT !.pc = "advert", !.data = parsed.data]
                                   ELSE [@ EXCEPT !.pc = "packed", !.key = refs_gen]]
    /\ UNCHANGED <<adHead, acked, mutex, pub, repair, adverts, views, copyVars>>

\* read_refs: packed-refs, then the files of refs/; the result is kept.
ReadPacked(v) ==
    /\ view[v].pc = "packed"
    /\ view' = [view EXCEPT ![v].pc = "loose", ![v].data = packed]
    /\ UNCHANGED <<adHead, acked, mutex, pub, repair, adverts, views, copyVars>>

ReadLoose(v) ==
    /\ view[v].pc = "loose"
    /\ parsed' = [key |-> view[v].key, data |-> Overlay(view[v].data, loose)]
    /\ view' = [view EXCEPT ![v].pc = "advert", ![v].data = Overlay(@, loose)]
    /\ UNCHANGED <<adHead, acked, packed, loose, refs_gen, copyAt, appliedTo, mutex, pub, repair,
                   adverts, views>>

\* The version the advert is kept under is the one read before the refs.
KeepAdvert(v) ==
    /\ view[v].pc = "advert"
    /\ adverts' = [adverts EXCEPT ![view[v].ver] =
                      [data |-> view[v].data, torn |-> view[v].torn \/ view[v].ver = None, there |-> TRUE]]
    /\ Given(v, view[v].data, view[v].torn)
    /\ UNCHANGED <<adHead, acked, mutex, pub, repair, views, copyVars>>

-----------------------------------------------------------------------------
(* Commits: by other instances, and by this one in batches                  *)
CommitElsewhere ==
    /\ adHead + 1 \in AdSeqs
    /\ adHead' = adHead + 1 /\ acked' = adHead + 1
    /\ UNCHANGED <<mutex, view, pub, repair, adverts, views, copyVars>>

CommitHere(n) ==
    /\ pub.pc = "idle" /\ copyAt = adHead /\ adHead + n \in AdSeqs
    /\ adHead' = adHead + n
    /\ pub' = [pub EXCEPT !.pc = "lock", !.next = adHead + 1, !.upto = adHead + n]
    /\ UNCHANGED <<acked, mutex, view, repair, adverts, views, copyVars>>

\* A sync may have been here first, with this commit and later ones.
PubTakesMutex ==
    /\ pub.pc = "lock" /\ mutex = "free"
    /\ mutex' = "pub"
    /\ pub' = [pub EXCEPT !.pc = "write"]
    /\ view' = IF copyAt # pub.next - 1 THEN Disturb(TRUE) ELSE view
    /\ UNCHANGED <<adHead, acked, repair, adverts, views, copyVars>>

\* apply_ref_txn: the snapshot parsed so far is kept when it is current, the ref
\* files take the update,
UpdateRef ==
    /\ pub.pc = "write"
    /\ loose' = [loose EXCEPT ![Touches[pub.next]] = pub.next]
    /\ pub' = [pub EXCEPT !.pc = "patch", !.before = IF parsed.key = refs_gen THEN parsed
                                                    ELSE [key |-> None, data |-> Absent]]
    /\ UNCHANGED <<adHead, acked, packed, refs_gen, parsed, copyAt, appliedTo, mutex, view, repair,
                   adverts, views>>

\* and the snapshot with the update, under the generation after it.
PatchParsed ==
    /\ pub.pc = "patch"
    /\ refs_gen' = refs_gen + 2
    /\ parsed' = IF pub.before.key = None THEN parsed
                 ELSE [key |-> refs_gen + 2,
                       data |-> [pub.before.data EXCEPT ![Touches[pub.next]] = pub.next]]
    /\ pub' = [pub EXCEPT !.pc = IF pub.next = pub.upto THEN "version" ELSE "write",
                          !.next = IF pub.next = pub.upto THEN @ ELSE @ + 1,
                          !.before = [key |-> None, data |-> Absent]]
    /\ UNCHANGED <<adHead, acked, packed, loose, copyAt, appliedTo, mutex, view, repair, adverts,
                   views>>

\* The version after the refs; the pushes are answered.
PubAnswers ==
    /\ pub.pc = "version"
    /\ copyAt' = pub.upto /\ appliedTo' = pub.upto
    /\ mutex' = "free" /\ pub' = [pub EXCEPT !.pc = "idle"]
    /\ acked' = IF acked < pub.upto THEN pub.upto ELSE acked
    /\ UNCHANGED <<adHead, packed, loose, refs_gen, parsed, view, repair, adverts, views>>

\* The files did not take the update, or could not be read afresh: the version is forgotten, the pushes are
\* answered all the same and the next sync replays them, unless a sync had been
\* here before (behind): then the refs taken back stay so.
PubFails ==
    /\ pub.pc \in {"write", "version"}
    /\ copyAt' = None
    /\ mutex' = "free" /\ pub' = [pub EXCEPT !.pc = "idle", !.behind = @ \/ appliedTo >= pub.next]
    /\ acked' = IF acked < pub.upto THEN pub.upto ELSE acked
    /\ UNCHANGED <<adHead, packed, loose, refs_gen, parsed, appliedTo, view, repair, adverts, views>>

-----------------------------------------------------------------------------
(* rematerialize: the refs are emptied and replayed, under the same version *)
RepairReset ==
    /\ repair.pc = "idle" /\ repair.left > 0 /\ mutex = "free" /\ copyAt = adHead
    /\ mutex' = "repair"
    /\ repair' = [pc |-> "replay", left |-> repair.left - 1]
    /\ packed' = Absent /\ loose' = Absent /\ refs_gen' = refs_gen + 2 /\ appliedTo' = 0
    /\ view' = Disturb(TRUE)
    /\ UNCHANGED <<adHead, acked, parsed, copyAt, pub, adverts, views>>

RepairReplay ==
    /\ repair.pc = "replay"
    /\ packed' = RefsAt(copyAt) /\ loose' = Absent /\ refs_gen' = refs_gen + 2 /\ appliedTo' = copyAt
    /\ mutex' = "free" /\ repair' = [repair EXCEPT !.pc = "idle"]
    /\ view' = Disturb(TRUE)
    /\ UNCHANGED <<adHead, acked, parsed, copyAt, pub, adverts, views>>

-----------------------------------------------------------------------------
AdvertsNext ==
    \/ \E v \in Viewers : \/ AskRefs(v) \/ FreshnessCheck(v) \/ ReplayPacked(v) \/ ReplayLoose(v)
                          \/ ReadVersion(v) \/ ReadKey(v) \/ ReadPacked(v) \/ ReadLoose(v)
                          \/ KeepAdvert(v)
    \/ CommitElsewhere \/ \E n \in 1..2 : CommitHere(n)
    \/ PubTakesMutex \/ UpdateRef \/ PatchParsed \/ PubAnswers \/ PubFails
    \/ RepairReset \/ RepairReplay

AdvertsSpec == AdvertsInit /\ [][AdvertsNext]_advertVars

Fresh(v) == \A b \in AdRefs : view[v].data[b] >= RefsAt(view[v].since)[b]

\* A client is shown every push answered before it asked (smart.rs:103-124,
\* cache.rs, git lib.rs:1176-1215), through three caches that batches, syncs and
\* parses fill at the same time, unless the ref files were replaced between its
\* sync and its reading of them, or it got an advert that was read while a repair
\* or a late commit had taken the refs back, or kept under no version, or such a
\* commit was cut short.
AdvertsFresh ==
    ~pub.behind => \A v \in Viewers :
        view[v].pc = "done" /\ ~view[v].disturbed /\ ~view[v].torn => Fresh(v)

\* Nobody whose own reading was undisturbed is shown less: the ref files are
\* replaced atomically (handle.rs:826-827).
AdvertsWhole ==
    \A v \in Viewers : view[v].pc = "done" /\ ~view[v].disturbed => Fresh(v)
=============================================================================
