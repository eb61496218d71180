------------------------------- MODULE Import -------------------------------
(* The resumable import that writes packs, a checkpoint and the manifest    *)
(* straight into the bucket (import_direct.rs), interrupted and run again   *)
(* from the marker it left beside the packs, while servers of the same      *)
(* repository push, checkpoint and drop what nothing lists.                 *)
EXTENDS Naturals, FiniteSets

CONSTANTS ImPacks,      \* packs, with what they hold: [id -> set of commits]
          ImCommits,    \* what refs may point at
          ImBeside,     \* what servers do while an import is unfinished: "checkpoint", "prune"
          ImSource,     \* what happens to the source between runs: "repack", "move"
          MaxPushes,    \* pushes by others
          MaxCrashes    \* interruptions of an import, by a crash or a failed request

ASSUME ImportAssumption ==
    /\ MaxPushes \in Nat /\ MaxCrashes \in Nat /\ 0 \notin ImCommits /\ 0 \notin DOMAIN ImPacks
    /\ \A p \in DOMAIN ImPacks : ImPacks[p] \subseteq ImCommits

VARIABLES imWal,     \* the manifest: version, head, checkpoint, live packs, refs, pushes,
                     \*   and the pack its history pack is derived from
          imStore,   \* objects of packs in the store: pairs of a pack and "pack" or "idx"
          imCk,      \* checkpoint objects by seq: the packs they list
          imCkRefs,  \* ref snapshots by seq
          imList,    \* the bundle list: bundles by the commit they hold
          imSrc,     \* the source: its refs and the packs next to it
          imMarker,  \* the marker beside the packs
          im,        \* the importer
          imGiven,   \* pushes that an import with --replace was told to supersede
          imCrashes, \* interruptions so far
          imAcked    \* pushes that were answered

importVars == <<imWal, imStore, imCk, imCkRefs, imList, imSrc, imMarker, im, imGiven, imCrashes, imAcked>>

ImSeqs == 1..(MaxPushes + MaxCrashes + 2)
Kinds2 == {"pack", "idx"}
StoredObjects(p) == {<<p, k>> : k \in Kinds2}
Phases == <<"started", "verified", "side files", "history", "uploaded", "bundled">>
PhaseNo(p) == CHOOSE i \in DOMAIN Phases : Phases[i] = p
NoMarker == [tips |-> 0, base |-> 0, seq |-> 0, phase |-> "started", uploaded |-> {},
             history |-> 0, bundle |-> 0]
NoImport == [pc |-> "idle", replace |-> FALSE, force |-> FALSE, bundle |-> FALSE, tips |-> 0,
             history |-> FALSE, packs |-> {}, base |-> 0, given |-> {}, left |-> {}, todo |-> {},
             present |-> {}, hist |-> 0, entry |-> 0]

ImGoes(pc) == im' = [im EXCEPT !.pc = pc]
\* The marker is written to a temporary file and renamed: it is the old one or the new one.
Mark(m, pc) == imMarker' = m /\ ImGoes(pc)
Done(phase) == PhaseNo(imMarker.phase) >= PhaseNo(phase)

\* The refs of the source that the command's filter keeps; the packs beside it, by checksum.
SourceTips == imSrc.tips
SourcePacks == imSrc.packs
ImStart ==
    /\ im.pc = "idle"
    /\ \E replace, force, more \in BOOLEAN :    \* more: --bundle and --history-pack
           im' = [NoImport EXCEPT !.pc = "base", !.replace = replace, !.force = force,
                     !.bundle = more, !.history = more, !.tips = SourceTips, !.packs = SourcePacks]
    /\ UNCHANGED <<imWal, imStore, imCk, imCkRefs, imList, imSrc, imMarker, imGiven, imCrashes, imAcked>>

\* Mutant: a marker of the same refs is resumed, whatever was pushed since.
ResumeDecision_AnyBase == IF imMarker.tips # im.tips THEN "fresh" ELSE "resume"
\* decide_resume: the marker is of the same refs and the manifest has not changed since.
ResumeDecision ==
    IF imMarker.tips # im.tips THEN "fresh"
    ELSE IF imMarker.base # imWal.ver THEN IF im.force THEN "fresh" ELSE "refuse"
    ELSE "resume"

FreshMarker == [NoMarker EXCEPT !.tips = im.tips, !.base = imWal.ver, !.seq = imWal.head + 1]

\* The manifest: nothing to do when it lists the packs; content is superseded only with
\* --replace; then a new marker, the one left by an interrupted run, or a refusal.
ImBase ==
    /\ im.pc = "base"
    /\ IF imWal.head > 0 /\ im.packs \subseteq imWal.packs /\ (im.history => imWal.history \in im.packs)
       THEN imMarker' = NoMarker /\ ImGoes("nothing to do")
       ELSE IF imWal.head > 0 /\ ~im.replace THEN ImGoes("refused") /\ UNCHANGED imMarker
       ELSE IF ResumeDecision = "refuse" THEN ImGoes("refused") /\ UNCHANGED imMarker
       ELSE /\ im' = [im EXCEPT !.pc = "verify", !.base = imWal.ver, !.given = imWal.pushes]
            /\ imMarker' = IF ResumeDecision = "fresh" THEN FreshMarker ELSE imMarker
    /\ UNCHANGED <<imWal, imStore, imCk, imCkRefs, imList, imSrc, imGiven, imCrashes, imAcked>>

\* Everything the refs reach is in the packs, unless the marker says that was checked.
Closed(tip, packs) == tip = 0 \/ \E p \in packs : tip \in ImPacks[p]
ImVerify ==
    /\ im.pc = "verify"
    /\ IF Done("verified") THEN ImGoes("side") /\ UNCHANGED imMarker
       ELSE IF Closed(im.tips, im.packs) THEN Mark([imMarker EXCEPT !.phase = "verified"], "side")
       ELSE ImGoes("refused") /\ UNCHANGED imMarker
    /\ UNCHANGED <<imWal, imStore, imCk, imCkRefs, imList, imSrc, imGiven, imCrashes, imAcked>>

\* The commit graph of the first pack, beside it.
ImSide ==
    /\ im.pc = "side"
    /\ Mark([imMarker EXCEPT !.phase = IF Done("side files") THEN @ ELSE "side files"], "history")
    /\ UNCHANGED <<imWal, imStore, imCk, imCkRefs, imList, imSrc, imGiven, imCrashes, imAcked>>
\* A pack of commits and trees is known by the pack it is derived from.
HistoryPackOf(first) == first
\* The history pack of the first pack: the one the marker names, or one that is built.
ImHistory ==
    /\ im.pc = "history"
    /\ \E first \in im.packs :
           LET hist == IF im.history /\ imMarker.history = 0 THEN HistoryPackOf(first) ELSE imMarker.history
           IN  /\ im' = [im EXCEPT !.pc = "heads", !.left = im.packs, !.present = imMarker.uploaded,
                            !.hist = hist]
               /\ imMarker' = IF Done("history") THEN imMarker
                              ELSE [imMarker EXCEPT !.phase = "history", !.history = hist]
    /\ UNCHANGED <<imWal, imStore, imCk, imCkRefs, imList, imSrc, imGiven, imCrashes, imAcked>>

\* Pack by pack: the objects the marker does not name are looked up, the absent ones put.
ImHeads ==
    /\ im.pc = "heads"
    /\ \E p \in im.left :
           im' = [im EXCEPT !.pc = "upload", !.left = @ \ {p},
                     !.todo = StoredObjects(p) \ (im.present \cup imStore),
                     !.present = @ \cup (StoredObjects(p) \cap imStore)]
    /\ UNCHANGED <<imWal, imStore, imCk, imCkRefs, imList, imSrc, imMarker, imGiven, imCrashes, imAcked>>
\* An object is stored, then the marker names it: an interruption may come between.
ImUpload ==
    /\ im.pc = "upload"
    /\ IF im.todo = {} THEN ImGoes("heads") /\ UNCHANGED imStore
       ELSE \E o \in im.todo :
                /\ imStore' = imStore \cup {o}
                /\ im' = [im EXCEPT !.pc = "mark", !.todo = @ \ {o}, !.present = @ \cup {o}]
    /\ UNCHANGED <<imWal, imCk, imCkRefs, imList, imSrc, imMarker, imGiven, imCrashes, imAcked>>
ImMark ==
    /\ im.pc = "mark"
    /\ Mark([imMarker EXCEPT !.uploaded = im.present, !.history = im.hist], "upload")
    /\ UNCHANGED <<imWal, imStore, imCk, imCkRefs, imList, imSrc, imGiven, imCrashes, imAcked>>
ImUploaded ==
    /\ im.pc = "heads" /\ im.left = {}
    /\ IF Done("uploaded") THEN ImGoes("refs") /\ UNCHANGED imMarker
       ELSE Mark([imMarker EXCEPT !.phase = "uploaded", !.uploaded = im.present], "refs")
    /\ UNCHANGED <<imWal, imStore, imCk, imCkRefs, imList, imSrc, imGiven, imCrashes, imAcked>>

\* The ref snapshot and the checkpoint are put under keys made of the seq, without a condition.
ImRefs ==
    /\ im.pc = "refs"
    /\ imCkRefs' = [imCkRefs EXCEPT ![imMarker.seq] = im.tips]
    /\ ImGoes("bundle")
    /\ UNCHANGED <<imWal, imStore, imCk, imList, imSrc, imMarker, imGiven, imCrashes, imAcked>>
\* The bundle is composed once, of a header and the only pack; a failure is passed over.
ImBundle ==
    /\ im.pc = "bundle"
    /\ \E made \in BOOLEAN :
           LET entry == IF imMarker.bundle = 0 /\ im.bundle /\ made /\ Cardinality(im.packs) = 1
                        THEN im.tips ELSE imMarker.bundle
           IN  /\ im' = [im EXCEPT !.pc = "checkpoint", !.entry = entry]
               /\ imMarker' = IF Done("bundled") THEN imMarker
                              ELSE [imMarker EXCEPT !.phase = "bundled", !.bundle = entry]
    /\ UNCHANGED <<imWal, imStore, imCk, imCkRefs, imList, imSrc, imGiven, imCrashes, imAcked>>
ImCheckpoint ==
    /\ im.pc = "checkpoint"
    /\ imCk' = [imCk EXCEPT ![imMarker.seq] = im.packs]
    /\ ImGoes("cas")
    /\ UNCHANGED <<imWal, imStore, imCkRefs, imList, imSrc, imMarker, imGiven, imCrashes, imAcked>>

\* The manifest, on the version that was read: the import is all there is.
ImportManifest ==
    [ver |-> imWal.ver + 1, head |-> imMarker.seq, ck |-> imMarker.seq, packs |-> im.packs,
     refs |-> im.tips, pushes |-> {}, history |-> im.hist]
ImCas ==
    /\ im.pc = "cas"
    /\ IF imWal.ver = im.base
       THEN /\ imWal' = ImportManifest
            /\ imGiven' = imGiven \cup im.given
            /\ \/ ImGoes(IF im.entry = 0 THEN "unmark" ELSE "list") /\ UNCHANGED imCrashes
               \/ /\ imCrashes < MaxCrashes /\ imCrashes' = imCrashes + 1    \* no answer
                  /\ ImGoes("failed")
       ELSE ImGoes("refused") /\ UNCHANGED <<imWal, imGiven, imCrashes, imAcked>>
    /\ UNCHANGED <<imStore, imCk, imCkRefs, imList, imSrc, imMarker, imAcked>>

\* The bundle supersedes the ones listed before.
ImList ==
    /\ im.pc = "list"
    /\ imList' = {im.entry}
    /\ ImGoes("unmark")
    /\ UNCHANGED <<imWal, imStore, imCk, imCkRefs, imSrc, imMarker, imGiven, imCrashes, imAcked>>
ImUnmark ==
    /\ im.pc = "unmark"
    /\ Mark(NoMarker, "done")
    /\ UNCHANGED <<imWal, imStore, imCk, imCkRefs, imList, imSrc, imGiven, imCrashes, imAcked>>

\* An interruption, by a crash or a request that fails: the next run starts over.
ImCrash ==
    /\ im.pc \notin {"idle", "done", "nothing to do", "refused", "failed"} /\ imCrashes < MaxCrashes
    /\ imCrashes' = imCrashes + 1
    /\ ImGoes("failed")
    /\ UNCHANGED <<imWal, imStore, imCk, imCkRefs, imList, imSrc, imMarker, imGiven, imAcked>>
ImAgain ==
    /\ im.pc \in {"refused", "failed"}
    /\ im' = NoImport
    /\ UNCHANGED <<imWal, imStore, imCk, imCkRefs, imList, imSrc, imMarker, imGiven, imCrashes, imAcked>>

\* The source between two runs: packed anew, or moved on.
SourceChanges ==
    /\ im.pc = "idle" /\ ~imSrc.changed
    /\ \/ /\ "repack" \in ImSource
          /\ \E p \in DOMAIN ImPacks :
                 imSrc.tips \in ImPacks[p] /\ imSrc' = [imSrc EXCEPT !.packs = {p}, !.changed = TRUE]
       \/ /\ "move" \in ImSource
          /\ \E c \in ImCommits, p \in DOMAIN ImPacks :
                 c \in ImPacks[p] /\ imSrc' = [tips |-> c, packs |-> {p}, changed |-> TRUE]
    /\ UNCHANGED <<imWal, imStore, imCk, imCkRefs, imList, imMarker, im, imGiven, imCrashes, imAcked>>

-----------------------------------------------------------------------------
(* Servers of the same repository.                                          *)

ImResting == im.pc \in {"idle", "done", "nothing to do", "refused"} /\ imMarker = NoMarker
Beside(what) == what \in ImBeside \/ ImResting

\* A push of a commit in a pack of its own, and an idle checkpoint.
ServerPush ==
    /\ imAcked < MaxPushes /\ imAcked' = imAcked + 1
    /\ \E p \in DOMAIN ImPacks :
           /\ ImPacks[p] # {}
           /\ imStore' = imStore \cup StoredObjects(p)
           /\ imWal' = [imWal EXCEPT !.ver = @ + 1, !.head = @ + 1, !.packs = @ \cup {p},
                 !.refs = CHOOSE c \in ImPacks[p] : TRUE,
                 !.pushes = @ \cup {imAcked + 1}]
    /\ UNCHANGED <<imCk, imCkRefs, imList, imSrc, imMarker, im, imGiven, imCrashes>>
ServerCheckpoint ==
    /\ Beside("checkpoint") /\ imWal.head > imWal.ck
    /\ imCk' = [imCk EXCEPT ![imWal.head] = imWal.packs]
    /\ imCkRefs' = [imCkRefs EXCEPT ![imWal.head] = imWal.refs]
    /\ imWal' = [imWal EXCEPT !.ver = @ + 1, !.ck = imWal.head]
    /\ UNCHANGED <<imStore, imList, imSrc, imMarker, im, imGiven, imCrashes, imAcked>>
\* Objects that no manifest lists any more are removed after a while.
ServerPrune ==
    /\ Beside("prune")
    /\ \E o \in imStore : o[1] \notin imWal.packs /\ imStore' = imStore \ {o}
    /\ UNCHANGED <<imWal, imCk, imCkRefs, imList, imSrc, imMarker, im, imGiven, imCrashes, imAcked>>

ImportNext ==
    \/ ImStart \/ ImBase \/ ImVerify \/ ImSide \/ ImHistory \/ ImHeads \/ ImUpload \/ ImMark
    \/ ImUploaded \/ ImRefs \/ ImBundle \/ ImCheckpoint \/ ImCas \/ ImList \/ ImUnmark
    \/ ImCrash \/ ImAgain \/ SourceChanges
    \/ ServerPush \/ ServerCheckpoint \/ ServerPrune

-----------------------------------------------------------------------------
(* What an import promises.                                                 *)

\* The packs the manifest lists are in the store, and hold what the refs reach; what a
\* server finds at the checkpoint is what the manifest says.
Servable ==
    /\ UNION {StoredObjects(p) : p \in imWal.packs} \subseteq imStore
    /\ Closed(imWal.refs, imWal.packs)
    /\ imWal.ck > 0 /\ imWal.ck = imWal.head =>
           imCk[imWal.ck] = imWal.packs /\ imCkRefs[imWal.ck] = imWal.refs
\* A push that was answered is in the repository, or was there when somebody asked for
\* its content to be replaced.
PushesKept == 1..imAcked \subseteq imWal.pushes \cup imGiven

\* However often an import is interrupted and run again, packed anew in between and raced
\* by pushes: what it publishes can be served, and it replaces only what it was shown.
ImportSound == Servable /\ PushesKept

\* "re-run with the same command and finishes": a run that finds nothing to do leaves the
\* source's refs published, a history pack of a listed pack, and the bundle listed.
RerunFinishes ==
    /\ im.pc = "nothing to do" => imWal.refs = im.tips
    /\ im.pc = "nothing to do" /\ im.bundle /\ Cardinality(im.packs) = 1 => imList # {}
HistoryDerived == imWal.history = 0 \/ imWal.history \in imWal.packs

ImportInit(source) ==
    /\ imWal = [ver |-> 0, head |-> 0, ck |-> 0, packs |-> {}, refs |-> 0,
                pushes |-> {}, history |-> 0]
    /\ imStore = {} /\ imList = {}
    /\ imCk = [s \in ImSeqs |-> {}] /\ imCkRefs = [s \in ImSeqs |-> 0]
    /\ imSrc = source
    /\ imMarker = NoMarker /\ im = NoImport /\ imGiven = {} /\ imCrashes = 0 /\ imAcked = 0
=============================================================================
