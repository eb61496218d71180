--------------------------- MODULE RemoteReader ----------------------------
(***************************************************************************)
(* Objects read straight from the bucket (remote.rs): how requests come by *)
(* the reader of a manifest revision while the manifest moves on, and how  *)
(* the reader finds an object through deltas and its cache.                *)
(*                                                                         *)
(* A delta turns one object into another; applied to anything else it is   *)
(* garbage, so an object stands for its own content.                       *)
(***************************************************************************)
EXTENDS Integers, Sequences, FiniteSets

CONSTANTS
    Readers,      \* requests that read objects
    RemotePacksAt,\* revision -> packs of the manifest
    Entries       \* pack -> offset -> entry: [oid, kind, base]

ASSUME ReaderAssumption ==
    \A r \in DOMAIN RemotePacksAt : RemotePacksAt[r] \subseteq DOMAIN Entries

VARIABLES
    rev,      \* the manifest of the handle
    reader,   \* handle.remote: the revision it was opened for, 0 when none
    opening,  \* the remote-index task: revision, packs without an index, 0 when none
    idxs,     \* index files under remote-idx
    rreq,     \* requests
    cached,   \* RemotePacks.objects: <<pack, offset>> -> object
    found     \* the last object asked for, and what came back

readerVars == <<rev, reader, opening, idxs, rreq, cached, found>>

NoTask == [rev |-> 0, todo |-> {}]
IdleReader == [pc |-> "idle", rev |-> 0, has |-> 0, joined |-> FALSE]
NotFound == "none"
Garbage == "garbage"

ReaderInit ==
    /\ rev = 1 /\ reader = 0 /\ opening = NoTask /\ idxs = {}
    /\ rreq = [c \in Readers |-> IdleReader]
    /\ cached = <<>>
    /\ found = [oid |-> NotFound, is |-> NotFound]

\* A push or a compaction, here or elsewhere.
ManifestMoves ==
    /\ rev + 1 \in DOMAIN RemotePacksAt
    /\ rev' = rev + 1
    /\ UNCHANGED <<reader, opening, idxs, rreq, cached, found>>

\* sync_objects: the packs do not fit; a guard with the manifest of now.
SyncObjects(c) ==
    /\ rreq[c].pc = "idle"
    /\ rreq' = [rreq EXCEPT ![c] = [IdleReader EXCEPT !.pc = "guard", !.rev = rev]]
    /\ UNCHANGED <<rev, reader, opening, idxs, cached, found>>

\* Mutant: any reader will do.
UseReader_AnyRevision(c) ==
    /\ rreq[c].pc = "guard" /\ reader # 0
    /\ rreq' = [rreq EXCEPT ![c].pc = "have", ![c].has = reader]
    /\ UNCHANGED <<rev, reader, opening, idxs, cached, found>>

\* remote_reader: the reader at hand is for this revision.
UseReader(c) ==
    /\ rreq[c].pc = "guard" /\ reader = rreq[c].rev
    /\ rreq' = [rreq EXCEPT ![c].pc = "have", ![c].has = reader]
    /\ UNCHANGED <<rev, reader, opening, idxs, cached, found>>

\* open_remote as the one who opens: indexes of other packs go, the missing are due.
OpenRemote(c) ==
    /\ rreq[c].pc = "guard" /\ reader # rreq[c].rev /\ opening.rev = 0
    /\ idxs' = idxs \cap RemotePacksAt[rreq[c].rev]
    /\ opening' = [rev |-> rreq[c].rev, todo |-> RemotePacksAt[rreq[c].rev] \ idxs]
    /\ rreq' = [rreq EXCEPT ![c].pc = "opens"]
    /\ UNCHANGED <<rev, reader, cached, found>>

\* One index: linked from the pack directory or downloaded and renamed.
FetchIdx(p) ==
    /\ p \in opening.todo
    /\ idxs' = idxs \cup {p} /\ opening' = [opening EXCEPT !.todo = @ \ {p}]
    /\ UNCHANGED <<rev, reader, rreq, cached, found>>

\* The reader of the revision replaces the one at hand, with an empty object cache.
OpenDone(c) ==
    /\ rreq[c].pc = "opens" /\ opening.todo = {}
    /\ reader' = opening.rev /\ cached' = <<>> /\ opening' = NoTask
    /\ rreq' = [d \in Readers |->
                   IF d = c THEN [rreq[d] EXCEPT !.pc = "have", !.has = opening.rev]
                   ELSE IF rreq[d].pc = "joins" THEN [rreq[d] EXCEPT !.pc = "have", !.has = opening.rev]
                   ELSE rreq[d]]
    /\ UNCHANGED <<rev, idxs, found>>

OpenFails(c) ==
    /\ rreq[c].pc = "opens"
    /\ opening' = NoTask
    /\ rreq' = [d \in Readers |-> IF d = c \/ rreq[d].pc = "joins" THEN IdleReader ELSE rreq[d]]
    /\ UNCHANGED <<rev, reader, idxs, cached, found>>

\* open_remote as a second: wait for the task that runs and take what it leaves.
JoinRemote(c) ==
    /\ rreq[c].pc = "guard" /\ reader # rreq[c].rev /\ opening.rev # 0
    /\ rreq' = [rreq EXCEPT ![c].pc = "joins", ![c].joined = TRUE]
    /\ UNCHANGED <<rev, reader, opening, idxs, cached, found>>

ReaderEnd(c) ==
    /\ rreq[c].pc = "have"
    /\ rreq' = [rreq EXCEPT ![c] = IdleReader]
    /\ UNCHANGED <<rev, reader, opening, idxs, cached, found>>

(***************************************************************************)
(* An object: where it is, and its chain of deltas down to a base or to    *)
(* something the cache has.                                                *)
(***************************************************************************)

PackOrder(r) == SelectSeq(<<"p0", "p1", "p2">>, LAMBDA p : p \in RemotePacksAt[r])
Holding(r, oid) == {i \in DOMAIN PackOrder(r) : \E off \in DOMAIN Entries[PackOrder(r)[i]] :
                                                     Entries[PackOrder(r)[i]][off].oid = oid}

\* locate: the first pack of the set whose index has it.
locate(r, oid) ==
    LET i == CHOOSE k \in Holding(r, oid) : \A l \in Holding(r, oid) : k <= l
        p == PackOrder(r)[i]
    IN  <<p, CHOOSE off \in DOMAIN Entries[p] : Entries[p][off].oid = oid>>

\* Where a delta's base is: an offset in the pack, or wherever the base id is found.
BaseOf(r, at) ==
    LET e == Entries[at[1]][at[2]]
    IN  IF e.kind = "ofs" THEN <<at[1], e.base>> ELSE locate(r, e.base)

\* Mutant: the cache is asked by offset alone.
Hit_ByOffset(at) ==
    IF \E k \in DOMAIN cached : k[2] = at[2] THEN cached[CHOOSE k \in DOMAIN cached : k[2] = at[2]] ELSE NotFound

Hit(at) == IF at \in DOMAIN cached THEN cached[at] ELSE NotFound

\* apply_delta
Applied(r, at, base) ==
    LET e == Entries[at[1]][at[2]]
        want == Entries[BaseOf(r, at)[1]][BaseOf(r, at)[2]].oid
    IN  IF base = want THEN e.oid ELSE Garbage

\* decode_inner: down the chain, then the deltas in reverse; all of it is cached.
RECURSIVE Decode(_, _)
Decode(r, at) ==
    IF Hit(at) # NotFound THEN [obj |-> Hit(at), put |-> <<>>]
    ELSE IF Entries[at[1]][at[2]].kind = "base"
         THEN [obj |-> Entries[at[1]][at[2]].oid, put |-> <<<<at, Entries[at[1]][at[2]].oid>>>>]
         ELSE LET b == Decode(r, BaseOf(r, at))
                  o == Applied(r, at, b.obj)
              IN  [obj |-> o, put |-> Append(b.put, <<at, o>>)]

\* find by a request that has a reader.
Find(c, oid) ==
    /\ rreq[c].pc = "have" /\ rreq[c].has = reader
    /\ IF Holding(reader, oid) = {}
       THEN found' = [oid |-> oid, is |-> NotFound] /\ UNCHANGED cached
       ELSE LET d == Decode(reader, locate(reader, oid))
                new == {d.put[i] : i \in DOMAIN d.put}
            IN  /\ found' = [oid |-> oid, is |-> d.obj]
                /\ cached' = [k \in DOMAIN cached \cup {x[1] : x \in new} |->
                                 IF k \in DOMAIN cached THEN cached[k] ELSE (CHOOSE x \in new : x[1] = k)[2]]
    /\ UNCHANGED <<rev, reader, opening, idxs, rreq>>

\* The cache is bounded: anything may leave it.
EvictObject(k) ==
    /\ k \in DOMAIN cached
    /\ cached' = [x \in DOMAIN cached \ {k} |-> cached[x]]
    /\ UNCHANGED <<rev, reader, opening, idxs, rreq, found>>

Oids == {Entries[p][off].oid : p \in DOMAIN Entries, off \in {0, 1}}
ReaderNext ==
    \/ ManifestMoves
    \/ \E c \in Readers : \/ SyncObjects(c) \/ UseReader(c) \/ OpenRemote(c) \/ OpenDone(c) \/ OpenFails(c)
                          \/ JoinRemote(c) \/ ReaderEnd(c)
                          \/ \E oid \in Oids : Find(c, oid)
    \/ \E p \in opening.todo : FetchIdx(p)
    \/ \E k \in DOMAIN cached : EvictObject(k)

ReaderSpec == ReaderInit /\ [][ReaderNext]_readerVars

(***************************************************************************)
(* Properties.                                                             *)
(***************************************************************************)

\* sync_objects: a request that found a reader or opened one has one for the manifest
\* of its guard, however often the manifest moved meanwhile.
ReaderCoversGuard ==
    \A c \in Readers : rreq[c].pc = "have" /\ ~rreq[c].joined => rreq[c].has = rreq[c].rev

\* "the remote reader for the current manifest": also for those who waited for the
\* task of somebody else.
JoinedReaderCoversGuard == \A c \in Readers : rreq[c].pc = "have" => rreq[c].has = rreq[c].rev

\* find over several packs that hold an object in different ways, with whatever is
\* cached: the object that was asked for comes back.
FindExact == found.is \in {found.oid, NotFound}

\* Objects read from remote packs are those of the guard's manifest that were asked for.
RemoteReadsExact == ReaderCoversGuard /\ FindExact
============================================================================
