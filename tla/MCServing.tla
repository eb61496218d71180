----------------------------- MODULE MCServing ------------------------------
(* Pushes in, fetches out: WalPublish on two instances and a handful of     *)
(* pushes; fetches of small histories; the collaboration log; imports and   *)
(* rewinds.  The parts share nothing, so each behaviour is a behaviour of   *)
(* one of them while the others rest.                                       *)
EXTENDS MCWalPublish, Fetch, Collab, Import, Rewind

CONSTANTS Parts,     \* the modules to run
          GcModes    \* how gcs run in clones that are written to: "push", "local"

VARIABLE part     \* the module whose behaviour this is

\* Histories of four commits, in line or with a merge; of all contents for clients
\* with the first commits, of two contents for every kind of request.
MCParents == {<<{}, {1}, {2}, {3}>>, <<{}, {1}, {1}, {2, 3}>>}
Contents == {<<<<1, 1, 1>>, a, b, c>> : a, b, c \in {1, 2} \X {1, 2} \X {1, 2}}
SomeContents == {<<<<1, 1, 1>>, <<1, 2, 2>>, <<1, 2, 1>>, <<2, 2, 2>>>>,
                 <<<<1, 1, 1>>, <<2, 1, 1>>, <<2, 1, 2>>, <<1, 2, 1>>>>}
Client(commits, shallow, extra) == [commits |-> commits, shallow |-> shallow, extra |-> extra]
Clients == {Client({}, {}, {}), Client({}, {}, {9}), Client({1}, {}, {}), Client({1, 2}, {}, {9}),
            Client({2}, {2}, {}), Client({2, 3}, {2, 3}, {})}
ReachOf(parents) ==
    LET back[c \in 1..FtCount] == {c} \cup UNION {back[p] : p \in parents[c]} IN back
AskFor(contents, parents, client, wants, tag, depth, filter, remote) ==
    [contents |-> contents, parents |-> parents, reach |-> ReachOf(parents), client |-> client, wants |-> wants, tag |-> tag,
     depth |-> depth, filter |-> filter, remote |-> remote, done |-> FALSE, engine |-> "gix",
     v2 |-> TRUE, many |-> FALSE]

MCAsks ==
    {AskFor(h, p, c, {4}, FALSE, 0, "none", r) :
        h \in Contents, p \in MCParents, c \in {Client({1}, {}, {}), Client({1, 2}, {}, {9})},
        r \in BOOLEAN}
    \cup {AskFor(h, p, c, w, t, d, f, r) :
        h \in SomeContents, p \in MCParents, c \in Clients, w \in {{4}, {3}}, t \in BOOLEAN,
        d \in 0..2, f \in {"none", "blob:none", "blob:limit=1", "tree:0"}, r \in BOOLEAN}
    \cup {AskFor(h, p, Client({}, {}, {}), {1, 4}, FALSE, d, f, r) :
        h \in SomeContents, p \in MCParents, d \in 1..3, f \in {"none", "blob:none"}, r \in BOOLEAN}

MCClones ==
    {[AskFor(h, p, Client({}, {}, {}), {4}, FALSE, d, "none", r)
         EXCEPT !.engine = e, !.v2 = v2, !.many = many] :
        h \in {CHOOSE s \in SomeContents : TRUE}, p \in MCParents, d \in 0..1, r \in BOOLEAN,
        e \in {"gix", "git"}, v2 \in BOOLEAN, many \in BOOLEAN}

\* Entries of a pull request (1), of another (2), and of a run of CI (3), by two people,
\* an agent (3) and somebody without a key (4); 6 and 7 answer each other.
CollabEntry(oid, id, kind, actor, ts, parent, says, base, signed) ==
    [oid |-> oid, id |-> id, kind |-> kind, actor |-> actor, ts |-> ts, parent |-> parent,
     says |-> says, base |-> base, signed |-> signed]
MCEntries ==
    {CollabEntry(1, 1, "patch", 1, 2, 0, "", "main", TRUE),
     CollabEntry(2, 1, "review", 2, 1, 1, "approve", "", TRUE),
     CollabEntry(3, 1, "review", 3, 1, 1, "approve", "", TRUE),
     CollabEntry(4, 1, "review", 4, 3, 2, "approve", "", TRUE),
     CollabEntry(5, 1, "status", 1, 2, 2, "needs-review", "", TRUE),
     CollabEntry(6, 1, "status", 2, 2, 7, "merged", "", TRUE),
     CollabEntry(7, 1, "merge_result", 2, 3, 6, "merged", "", TRUE),
     CollabEntry(8, 1, "status", 1, 1, 5, "closed", "", FALSE),
     CollabEntry(9, 2, "patch", 1, 3, 0, "", "dev", TRUE),
     CollabEntry(10, 2, "comment", 2, 1, 9, "", "", TRUE),
     CollabEntry(11, 3, "ci_claim", 3, 1, 0, "", "", TRUE),
     CollabEntry(12, 1, "patch", 1, 1, 8, "", "side", TRUE),
     CollabEntry(13, 2, "broken", 1, 1, 0, "", "", TRUE)}
EntryNo(oid) == CHOOSE e \in MCEntries : e.oid = oid
Own(oid) == OwnRef(EntryNo(oid))
MCForeign == {Ref(2, EntryNo(1)), Ref(1, EntryNo(2)), Ref(3, EntryNo(2))}
BoardColumn(name, kind, state, merge, unverified) ==
    [name |-> name, kind |-> kind, status |-> state, merge |-> merge, unverified |-> unverified]
MCColumns == <<BoardColumn("blocked", "patch", "open", "blocked", FALSE),
               BoardColumn("open", "", "open", "", FALSE),
               BoardColumn("doubtful", "", "merged", "", TRUE),
               BoardColumn("merged", "", "merged", "", FALSE),
               BoardColumn("other", "", "", "", FALSE)>>

MCCollabNext ==
    \/ part = "log" /\ LogNext(GcClones, GcModes, {<<1, Own(1)>>}, {Own(2)})
    \/ part = "watch" /\ (LogNext({1}, {"push"}, {}, {Ref(2, EntryNo(1)), Own(2)})
                           \/ WatchNext(ReaderClones))
    \/ part = "load" /\ (LogNext({1}, {"push", "local"}, {}, {Own(1), Own(13)})
                          \/ (\E c \in ReaderClones : FetchCollab(c)) \/ LoadNext(ReaderClones))
    \/ part = "views" /\ ViewNext

\* Packs 1 and 2 hold the same commit; a source is one pack or two.
MCImPacks == 1 :> {1} @@ 2 :> {1} @@ 3 :> {1, 2} @@ 4 :> {3}
ImSourceOf(packs) == [tips |-> 1, packs |-> packs, changed |-> FALSE]
\* Sources of an import by pushes: one pack is of a branch that no ref keeps.
MCRwSources == {[refs |-> 1 :> 11 @@ 2 :> 12, head |-> 1, packs |-> <<{11}, {12}, {13}>>],
                [refs |-> 1 :> 0 @@ 2 :> 12, head |-> 2, packs |-> <<{11, 12}>>]}
MCRwBatches == {<<1>>, <<1, 2>>}

ServingInit ==
    /\ RewindInit
    /\ CollabInit
    /\ part \in Parts
    /\ Init
    /\ IF part = "import" THEN \E packs \in {{1}, {1, 2}} : ImportInit(ImSourceOf(packs))
       ELSE ImportInit(ImSourceOf({1}))
    /\ IF part = "fetch" THEN FetchInit
       ELSE FetchStart({AskFor(h, p, Client({}, {}, {}), {4}, FALSE, 0, "none", FALSE) :
                            h \in {CHOOSE s \in SomeContents : TRUE}, p \in {<<{}, {1}, {2}, {3}>>}}, {})

ServingNext ==
    /\ UNCHANGED part
    /\ \/ part = "publish" /\ Next /\ UNCHANGED <<fetchVars, collabVars, importVars, rewindVars>>
       \/ part = "fetch" /\ FetchNext /\ UNCHANGED <<vars, collabVars, importVars, rewindVars>>
       \/ MCCollabNext /\ UNCHANGED <<vars, fetchVars, importVars, rewindVars>>
       \/ part = "import" /\ ImportNext /\ UNCHANGED <<vars, fetchVars, collabVars, rewindVars>>
       \/ /\ \/ part = "republish" /\ RepublishNext
             \/ part = "rewind" /\ RewindNext
          /\ UNCHANGED <<vars, fetchVars, collabVars, importVars>>

ServingSpec == ServingInit /\ [][ServingNext]_<<part, vars, fetchVars, collabVars, importVars, rewindVars>>
=============================================================================
