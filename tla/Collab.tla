------------------------------- MODULE Collab -------------------------------
(***************************************************************************)
(* The collaboration log of a repository: signed entries, each a blob under *)
(* a ref of its own in refs/collab/inbox/<principal>/, that `collab gc`     *)
(* folds into one snapshot blob, and the views computed from both.          *)
(*                                                                          *)
(* An entry is a record; its oid stands for its bytes.  A ref in the inbox  *)
(* is never moved, so a ref is the pair of a principal and the entry.  The  *)
(* records of a snapshot are such pairs too; `whole` says that the bytes in *)
(* the record still hash to its oid.                                        *)
(***************************************************************************)
EXTENDS Integers, FiniteSets
LOCAL INSTANCE Sequences
LOCAL INSTANCE SequencesExt

CONSTANTS CollabEntries,   \* entries that can be written
          Foreign,         \* refs under a principal who is not the entry's actor
          Unparseable,     \* oids of blobs that are not entries
          Keys,            \* actors with a registered key
          Agents,          \* actors named svc-...
          Protected,       \* base refs that the merge rules protect
          Approvals,       \* require_human_approvals
          BoardColumns,    \* the columns of the board
          Clones,          \* clones of the repository
          GcClones,        \* the clones that gc runs in
          ReaderClones,    \* the clones that are read and watched
          MaxFolds,        \* bound on the snapshots written
          GcDeleteChunk,   \* GC_DELETE_CHUNK
          MaxThread        \* bound on the entries of a view

ASSUME CollabAssumption ==
    /\ MaxFolds \in Nat /\ GcDeleteChunk \in Nat \ {0} /\ Approvals \in Nat
    /\ \A e, f \in CollabEntries : e.oid = f.oid => e = f

VARIABLES hub,       \* the refs of the repository on the server: inbox and snapshot
          tree,      \* clone -> the same refs in the clone
          reader,    \* clone -> a load in progress
          gc,        \* clone -> where its gc is
          watch,     \* clone -> the state file of its watcher and what it was told
          folds,     \* snapshots written so far
          posted,    \* refs that the server has ever accepted
          kept,      \* clone -> refs written there
          shown      \* the refs a view is computed from

collabVars == <<hub, tree, reader, gc, watch, folds, posted, kept, shown>>

Ref(p, e) == [principal |-> p, e |-> e, whole |-> TRUE]
OwnRef(e) == Ref(e.actor, e)
CollabRefs == {OwnRef(e) : e \in CollabEntries} \cup Foreign
NoSnapshot == [n |-> 0, records |-> <<>>]
OidsOf(s) == {s[i].e.oid : i \in DOMAIN s}
AnyOrder(refs) == SetToSeq(refs)

-----------------------------------------------------------------------------
(* Reading entries *)

\* EntryRef::is_verified
IsVerified(r) == r.principal = r.e.actor /\ r.e.actor \in Keys /\ r.e.signed

\* EntrySet::insert, on a sequence
InsertEntry(s, r) ==
    LET same == {i \in DOMAIN s : s[i].e.oid = r.e.oid}
    IN IF same = {} THEN Append(s, r)
       ELSE LET i == CHOOSE k \in same : TRUE
            IN IF s[i].principal # s[i].e.actor /\ r.principal = r.e.actor
               THEN [s EXCEPT ![i] = r] ELSE s

\* CollabReader::load and collab_load: the whole records of the snapshot, then the inbox
LoadEntries(snapshot, inbox) ==
    LET records == SelectSeq(snapshot.records, LAMBDA r : r.whole)
        refs == SelectSeq(inbox, LAMBDA r : r.e.oid \notin Unparseable)
    IN FoldLeft(InsertEntry, <<>>, records \o refs)

-----------------------------------------------------------------------------
(* Views *)

OlderThan(a, b) ==
    \/ a.e.ts < b.e.ts
    \/ a.e.ts = b.e.ts /\ a.e.actor < b.e.actor
    \/ a.e.ts = b.e.ts /\ a.e.actor = b.e.actor /\ a.e.oid < b.e.oid

\* One pass over the pending entries: those without a parent to wait for are emitted.
ThreadPass(st) ==
    LET Emit(acc, r) ==
            IF \/ r.e.parent = 0
               \/ \A i \in DOMAIN st.all : st.all[i].e.oid # r.e.parent
               \/ \E i \in DOMAIN acc.out : acc.out[i].e.oid = r.e.parent
            THEN [acc EXCEPT !.out = Append(@, r)] ELSE [acc EXCEPT !.pending = Append(@, r)]
    IN FoldLeft(Emit, [st EXCEPT !.pending = <<>>], st.pending)

\* thread: as many passes as the guard lets through, then the rest as they are.
Thread(s) ==
    LET start == [all |-> s, out |-> <<>>,
                  pending |-> SetToSortSeq({s[i] : i \in DOMAIN s}, OlderThan)]
        pass[g \in 0..(2 * Len(s) + 1)] ==
            IF g = 0 THEN start
            ELSE LET st == pass[g - 1]
                 IN IF st.pending # <<>> /\ g - 1 < 2 * Len(st.pending) + 1
                    THEN ThreadPass(st) ELSE st
        end == pass[2 * Len(s) + 1]
    IN end.out \o end.pending

Kinds(s) == {s[i].e.kind : i \in DOMAIN s}
Count(s) == Len(SelectSeq(s, IsVerified))
LastTs(s) == LET ts == {s[i].e.ts : i \in DOMAIN s} IN CHOOSE t \in ts : \A u \in ts : u <= t

\* card_status and the status of pr_view: the last word in thread order.
CardStatus(ordered) ==
    FoldLeft(LAMBDA st, r : CASE r.e.kind = "status" -> r.e.says
                              [] r.e.kind = "merge_result" /\ r.e.says = "merged" -> "merged"
                              [] OTHER -> st, "open", ordered)
PrStatus(ordered) ==
    FoldLeft(LAMBDA st, r : IF <<r.e.kind, r.e.says>> \in {<<"status", "merged">>,
                                <<"merge_result", "merged">>, <<"status", "closed">>}
                            THEN r.e.says ELSE st, "open", ordered)

\* pr_view and merge_rule_eval.
PrView(s) ==
    LET ordered == Thread(s)
        approvals == SelectSeq(ordered, LAMBDA r : r.e.kind = "review" /\ r.e.says = "approve"
                                                   /\ IsVerified(r))
        base == FoldLeft(LAMBDA b, r : IF r.e.kind = "patch" /\ r.e.base # "" THEN r.e.base ELSE b,
                         "", ordered)
        human == Len(SelectSeq(approvals, LAMBDA r : r.e.actor \notin Agents))
    IN [status |-> PrStatus(ordered), base |-> base, approvals |-> Len(approvals),
        unverified |-> Len(ordered) - Count(ordered),
        allowed |-> base \notin Protected \/ human >= Approvals]

\* validate_status_transition: what lets a status entry say done.
MaySayDone(s) ==
    LET ordered == Thread(s)
    IN /\ CardStatus(ordered) = "needs-review"
       /\ \E i \in DOMAIN ordered : ordered[i].e.kind = "review" /\ ordered[i].e.says = "approve"
                                     /\ IsVerified(ordered[i])

\* card_matches, and the first column that a card matches.
CardMatches(card, col) ==
    /\ col.kind = "" \/ col.kind \in card.kinds
    /\ col.status = "" \/ col.status = card.status
    /\ col.merge = "" \/ \E pr \in card.pr : pr.allowed = (col.merge = "allowed")
    /\ col.unverified => card.verified < card.entries
Column(card) ==
    LET hits == {i \in DOMAIN BoardColumns : CardMatches(card, BoardColumns[i])}
    IN {BoardColumns[i].name : i \in {k \in hits : \A l \in hits : k <= l}}

\* build_report and build_board, one group of entries with the same id.
IsCiGroup(s) == Kinds(s) \subseteq {"ci_claim", "ci_result"}
GroupOf(s, id) == SelectSeq(s, LAMBDA r : r.e.id = id)
Card(s) ==
    LET ordered == Thread(s)
        has == "patch" \in Kinds(s)
    IN [root |-> ordered[1].e.oid, last |-> ordered[Len(ordered)].e.oid, lastTs |-> LastTs(s),
        entries |-> Len(s), verified |-> Count(s), kinds |-> Kinds(s),
        status |-> CardStatus(ordered), order |-> [i \in DOMAIN ordered |-> ordered[i].e.oid],
        done |-> MaySayDone(s),
        pr |-> IF has THEN {PrView(s)} ELSE {}]

Report(s) ==
    LET ids == {s[i].e.id : i \in DOMAIN s}
        cards == {<<id, Card(GroupOf(s, id))>> : id \in {k \in ids : ~IsCiGroup(GroupOf(s, k))}}
    IN [cards |-> cards, columns |-> {<<c[1], Column(c[2])>> : c \in cards},
        total |-> Len(s), verified |-> Count(s),
        missing |-> Len(SelectSeq(s, LAMBDA r : ~IsVerified(r) /\ r.e.actor \notin Keys))]

-----------------------------------------------------------------------------
(* Folding *)

\* keep_fold_record: a record already there is replaced by a better one.
\* Mutant: the first record of an entry stays.
KeepFoldRecord_First(s, r) ==
    IF \E i \in DOMAIN s : s[i].e.oid = r.e.oid THEN s ELSE Append(s, r)

KeepFoldRecord(s, r) ==
    LET same == {i \in DOMAIN s : s[i].e.oid = r.e.oid}
        i == CHOOSE k \in same : \A l \in same : k <= l
    IN IF same = {} THEN Append(s, r)
       ELSE IF ~s[i].whole \/ (s[i].principal # r.e.actor /\ r.principal = r.e.actor)
            THEN [s EXCEPT ![i] = r] ELSE s

\* build_snapshot sorts by oid and drops repeated oids.
BuildSnapshot(n, records) ==
    [n |-> n, records |-> SetToSortSeq({records[i] : i \in {k \in DOMAIN records :
                                            \A l \in 1..(k - 1) : records[l].e.oid # records[k].e.oid}},
                                       LAMBDA a, b : a.e.oid < b.e.oid)]

Foldable(inbox) == {r \in inbox : r.e.oid \notin Unparseable}
NoGc == [pc |-> "idle", baseline |-> NoSnapshot, new |-> NoSnapshot, folded |-> {}, left |-> {}]

ViewOf(t) == LoadEntries(t.snapshot, AnyOrder(t.inbox))

\* check_status_transition: done is said only of a thread that may be.
DoneGate(t, r) ==
    r.e.kind = "status" /\ r.e.says = "done" => MaySayDone(GroupOf(ViewOf(t), r.e.id))

\* publish_collab_ref, or a push of the ref: the server takes it.
Accept(r) ==
    /\ hub' = [hub EXCEPT !.inbox = @ \cup {r}]
    /\ posted' = posted \cup {r}

\* run_entry: the ref in the clone; with --push on the server too, unless that fails.
WriteEntry(c, r, push) ==
    /\ r \notin tree[c].inbox /\ r \notin posted
    /\ DoneGate(tree[c], r)
    /\ tree' = [tree EXCEPT ![c].inbox = @ \cup {r}]
    /\ kept' = [kept EXCEPT ![c] = @ \cup {r}]
    /\ IF push THEN Accept(r) ELSE UNCHANGED <<hub, posted>>
    /\ UNCHANGED <<reader, gc, watch, folds, shown>>

\* collab_entries and publish_collab_ref: an entry posted to the server.
PostEntry(r) ==
    /\ r \notin posted
    /\ DoneGate(hub, r)
    /\ Accept(r)
    /\ UNCHANGED <<tree, reader, gc, watch, folds, kept, shown>>

\* git_fetch_collab: refs are forced to the server's, none is pruned.
Fetched(c) ==
    [inbox |-> tree[c].inbox \cup hub.inbox,
     snapshot |-> IF hub.snapshot = NoSnapshot THEN tree[c].snapshot ELSE hub.snapshot]
FetchCollab(c) ==
    /\ tree' = [tree EXCEPT ![c] = Fetched(c)]
    /\ UNCHANGED <<hub, reader, gc, watch, folds, posted, kept, shown>>

\* run_gc up to the snapshot it composes with.
GcStart(c) ==
    /\ gc[c].pc = "idle"
    /\ gc' = [gc EXCEPT ![c].pc = "inbox", ![c].baseline = tree[c].snapshot]
    /\ UNCHANGED <<hub, tree, reader, watch, folds, posted, kept, shown>>

\* The inbox folded onto it; nothing to fold ends the command.
GcFold(c) ==
    LET folded == Foldable(tree[c].inbox)
        old == gc[c].baseline.records
        records == FoldLeft(KeepFoldRecord, old, AnyOrder(folded))
    IN /\ gc[c].pc = "inbox"
       /\ IF folded = {} THEN gc' = [gc EXCEPT ![c] = NoGc] /\ UNCHANGED folds
          ELSE IF records = old
          THEN /\ gc' = [gc EXCEPT ![c].pc = "fold", ![c].folded = folded, ![c].new = gc[c].baseline]
               /\ UNCHANGED folds
          ELSE /\ folds < MaxFolds
               /\ folds' = folds + 1
               /\ gc' = [gc EXCEPT ![c].pc = "fold", ![c].folded = folded,
                                   ![c].new = BuildSnapshot(folds + 1, records)]
       /\ UNCHANGED <<hub, tree, reader, watch, posted, kept, shown>>

\* Without --push: the snapshot and the refs of the clone, in that order.
GcLocal(c) ==
    /\ gc[c].pc = "fold"
    /\ tree' = [tree EXCEPT ![c] = [inbox |-> @.inbox \ gc[c].folded, snapshot |-> gc[c].new]]
    /\ gc' = [gc EXCEPT ![c] = NoGc]
    /\ UNCHANGED <<hub, reader, watch, folds, posted, kept, shown>>

\* With --push: the snapshot first, leased on the one that was read.
\* Mutant: the snapshot is forced.
GcPush_NoLease(c) ==
    /\ gc[c].pc = "fold"
    /\ hub' = [hub EXCEPT !.snapshot = gc[c].new]
    /\ gc' = [gc EXCEPT ![c].pc = "list"]
    /\ UNCHANGED <<tree, reader, watch, folds, posted, kept, shown>>

GcPush(c) ==
    /\ gc[c].pc = "fold"
    /\ IF hub.snapshot = gc[c].baseline
       THEN /\ hub' = [hub EXCEPT !.snapshot = gc[c].new]
            /\ gc' = [gc EXCEPT ![c].pc = "list"]
       ELSE gc' = [gc EXCEPT ![c] = NoGc] /\ UNCHANGED hub
    /\ UNCHANGED <<tree, reader, watch, folds, posted, kept, shown>>

\* git_ls_remote_inbox: the folded refs that the server still has.
GcList(c) ==
    /\ gc[c].pc = "list"
    /\ gc' = [gc EXCEPT ![c].pc = "delete", ![c].left = gc[c].folded \cap hub.inbox]
    /\ UNCHANGED <<hub, tree, reader, watch, folds, posted, kept, shown>>

\* One batch of deletes; a ref that is gone fails the command after the others went.
GcDelete(c) ==
    /\ gc[c].pc = "delete"
    /\ \E batch \in SUBSET gc[c].left :
          /\ Cardinality(batch) =
                IF Cardinality(gc[c].left) < GcDeleteChunk THEN Cardinality(gc[c].left)
                ELSE GcDeleteChunk
          /\ batch # {}
          /\ hub' = [hub EXCEPT !.inbox = @ \ batch]
          /\ gc' = [gc EXCEPT ![c] = IF batch \subseteq hub.inbox
                                     THEN [@ EXCEPT !.left = @ \ batch] ELSE NoGc]
    /\ UNCHANGED <<tree, reader, watch, folds, posted, kept, shown>>

\* At last the clone: its snapshot, if there is a new one, and its refs.
GcFinish(c) ==
    /\ gc[c].pc = "delete" /\ gc[c].left = {}
    /\ tree' = [tree EXCEPT ![c] =
                  [inbox |-> @.inbox \ gc[c].folded,
                   snapshot |-> IF gc[c].new = gc[c].baseline THEN @.snapshot ELSE gc[c].new]]
    /\ gc' = [gc EXCEPT ![c] = NoGc]
    /\ UNCHANGED <<hub, reader, watch, folds, posted, kept, shown>>

\* The command is killed, or a push fails.
GcCrash(c) ==
    /\ gc[c].pc # "idle"
    /\ gc' = [gc EXCEPT ![c] = NoGc]
    /\ UNCHANGED <<hub, tree, reader, watch, folds, posted, kept, shown>>

-----------------------------------------------------------------------------
(* Readers and the watcher *)

NoReader == [pc |-> "idle", snapshot |-> NoSnapshot, had |-> {}, got |-> {}]

\* CollabReader::load in a clone: the snapshot, then the refs.
ReadSnapshot(c) ==
    /\ reader[c].pc = "idle"
    /\ reader' = [reader EXCEPT ![c] = [pc |-> "inbox", snapshot |-> tree[c].snapshot,
                                        had |-> OidsOf(ViewOf(tree[c])), got |-> {}]]
    /\ UNCHANGED <<hub, tree, gc, watch, folds, posted, kept, shown>>
ReadInbox(c) ==
    /\ reader[c].pc = "inbox"
    /\ reader' = [reader EXCEPT ![c] =
                    [@ EXCEPT !.pc = "done",
                              !.got = OidsOf(LoadEntries(reader[c].snapshot, AnyOrder(tree[c].inbox)))]]
    /\ UNCHANGED <<hub, tree, gc, watch, folds, posted, kept, shown>>
ReaderDone(c) ==
    /\ reader[c].pc = "done"
    /\ reader' = [reader EXCEPT ![c] = NoReader]
    /\ UNCHANGED <<hub, tree, gc, watch, folds, posted, kept, shown>>

\* refs_map: every ref with what it points to.
RefsMap(t) == {<<r.principal, r.e.oid>> : r \in t.inbox}
              \cup (IF t.snapshot = NoSnapshot THEN {} ELSE {<<0, t.snapshot.n>>})

\* run_watch: fetch, and tell of every ref that the state file has otherwise.
WatchFetch(c) ==
    /\ watch[c].pc = "idle"
    /\ tree' = [tree EXCEPT ![c] = Fetched(c)]
    /\ watch' = [watch EXCEPT ![c] = [@ EXCEPT !.pc = "tell", !.refs = RefsMap(Fetched(c)),
                                               !.todo = RefsMap(Fetched(c)) \ watch[c].state]]
    /\ UNCHANGED <<hub, reader, gc, folds, posted, kept, shown>>

WatchTell(c) ==
    /\ watch[c].pc = "tell" /\ watch[c].todo # {}
    /\ \E x \in watch[c].todo :
          watch' = [watch EXCEPT ![c] = [@ EXCEPT !.todo = @ \ {x}, !.told = @ \cup {x}]]
    /\ UNCHANGED <<hub, tree, reader, gc, folds, posted, kept, shown>>

\* The command fails and the watcher ends, or it is killed.
WatchFails(c) ==
    /\ watch[c].pc = "tell"
    /\ watch' = [watch EXCEPT ![c] = [@ EXCEPT !.pc = "idle", !.refs = {}, !.todo = {}]]
    /\ UNCHANGED <<hub, tree, reader, gc, folds, posted, kept, shown>>

\* write_state
WatchSave(c) ==
    /\ watch[c].pc = "tell" /\ watch[c].todo = {}
    /\ watch' = [watch EXCEPT ![c] = [@ EXCEPT !.pc = "idle", !.state = watch[c].refs, !.refs = {}]]
    /\ UNCHANGED <<hub, tree, reader, gc, folds, posted, kept, shown>>

-----------------------------------------------------------------------------
\* A view is asked for after some more entries.
ShowMore(r) ==
    /\ r \notin shown /\ Cardinality(shown) < MaxThread
    /\ shown' = shown \cup {r}
    /\ UNCHANGED <<hub, tree, reader, gc, watch, folds, posted, kept>>

CollabInit ==
    /\ hub = [inbox |-> {}, snapshot |-> NoSnapshot]
    /\ tree = [c \in Clones |-> [inbox |-> {}, snapshot |-> NoSnapshot]]
    /\ reader = [c \in ReaderClones |-> NoReader]
    /\ gc = [c \in GcClones |-> NoGc]
    /\ watch = [c \in ReaderClones |-> [pc |-> "idle", state |-> {}, told |-> {}, refs |-> {},
                                        todo |-> {}]]
    /\ folds = 0 /\ posted = {} /\ kept = [c \in Clones |-> {}] /\ shown = {}

\* What is done in the clones cs, by gcs with and without --push, with the refs that
\* are written in clones and those that are posted; and by readers.
LogNext(cs, modes, written, web) ==
    \/ \E w \in written, push \in BOOLEAN : WriteEntry(w[1], w[2], push)
    \/ \E r \in web : PostEntry(r)
    \/ \E c \in cs : FetchCollab(c)
    \/ \E c \in cs : GcStart(c) \/ GcFold(c) \/ GcCrash(c)
    \/ "local" \in modes /\ \E c \in cs : GcLocal(c)
    \/ "push" \in modes /\ \E c \in cs : GcPush(c) \/ GcList(c) \/ GcDelete(c) \/ GcFinish(c)
LoadNext(cs) == \E c \in cs : ReadSnapshot(c) \/ ReadInbox(c) \/ ReaderDone(c)
WatchNext(cs) == \E c \in cs : WatchFetch(c) \/ WatchTell(c) \/ WatchFails(c) \/ WatchSave(c)
ViewNext == \E r \in CollabRefs : ShowMore(r)

-----------------------------------------------------------------------------
(* Properties *)

Verified(s) == {s[i].e.oid : i \in {k \in DOMAIN s : IsVerified(s[k])}}
Wanted(refs) == {r.e.oid : r \in Foldable(refs)}
WantedVerified(refs) == {r.e.oid : r \in {q \in Foldable(refs) : IsVerified(q)}}

(* No entry is lost, whatever gcs run in which clones and wherever they are   *)
(* killed: a reader of the server sees every entry that was ever accepted,    *)
(* and verified if it was ever under its actor's own name; an entry written   *)
(* in a clone is in the clone or on the server; a load in a clone sees what   *)
(* was there when it began; and the watcher has told of all it recorded.      *)
CollabKept ==
    /\ Wanted(posted) \subseteq OidsOf(ViewOf(hub))
    /\ WantedVerified(posted) \subseteq Verified(ViewOf(hub))
    /\ \A c \in Clones : Wanted(kept[c]) \subseteq OidsOf(ViewOf(hub)) \cup OidsOf(ViewOf(tree[c]))
    /\ \A c \in ReaderClones : reader[c].pc = "done" => reader[c].had \subseteq reader[c].got
    /\ \A c \in ReaderClones : watch[c].state \subseteq watch[c].told

(* Views depend on the entries alone: not on the order they are collected in, *)
(* nor on which of them a gc has folded, with or without the refs deleted;    *)
(* and a thread shows an answer after what it answers, unless the parents     *)
(* form a circle.                                                             *)
Ancestors(s, r) ==
    LET up[n \in 0..Len(s)] ==
            IF n = 0 THEN {r.e.parent}
            ELSE up[n - 1] \cup {s[i].e.parent : i \in {k \in DOMAIN s : s[k].e.oid \in up[n - 1]}}
    IN up[Len(s)]
OnCircle(s) == {s[i].e.oid : i \in {k \in DOMAIN s : s[k].e.oid \in Ancestors(s, s[k])}}
AnswersFollow(s) ==
    LET t == Thread(s)
    IN \A i, j \in DOMAIN t :
          t[i].e.parent = t[j].e.oid /\ Ancestors(s, t[i]) \cap OnCircle(s) = {} => j < i

ViewsExact ==
    shown # {} =>
    LET plain == Report(LoadEntries(NoSnapshot, AnyOrder(shown)))
    IN /\ \A id \in {r.e.id : r \in Foldable(shown)} :
             AnswersFollow(GroupOf(LoadEntries(NoSnapshot, AnyOrder(shown)), id))
       /\ \A order \in SetToSeqs(shown) : Report(LoadEntries(NoSnapshot, order)) = plain
       /\ \A folded \in SUBSET Foldable(shown) :
          \A order \in SetToSeqs(folded), damaged \in SUBSET folded :
             LET old == AnyOrder({[r EXCEPT !.whole = FALSE] : r \in damaged})
                 snapshot == BuildSnapshot(1, FoldLeft(KeepFoldRecord, old, order))
             IN Cardinality(damaged) <= 1 => \A inbox \in {shown, shown \ folded} :
                   Report(LoadEntries(snapshot, AnyOrder(inbox))) = plain

(* The log keeps its entries, and what is shown of them is exact.             *)
CollabSound == CollabKept /\ ViewsExact
=============================================================================
