------------------------------- MODULE Store --------------------------------
(* The object store as its callers see it through ObjectStore: versioned    *)
(* puts and read-modify-write loops over them (coord.rs cas_update),        *)
(* resumable reads of an object that is being replaced (gcs.rs BulkHttp),   *)
(* striped uploads (util.rs put_file_parallel, publish.rs                   *)
(* put_immutable_create), paged listings below a prefix (lib.rs Prefixed),  *)
(* and server-side composition from parts (s3.rs compose, multipart_put).   *)
(* The service behind the three backends is external; requests may fail     *)
(* before or after they take effect, or take effect late.                   *)
EXTENDS Naturals, FiniteSets
LOCAL INSTANCE Sequences
LOCAL INSTANCE SequencesExt

CONSTANTS StClients,        \* processes that update one object
          Uploaders,        \* processes that upload one file
          StBackends,       \* of "gcs", "s3", "memory"
          CasRetries,       \* max_retries of cas_update
          StFaults,         \* requests that fail or come late, in all
          S3Deletes,        \* whether conditional deletes run on S3
          ResumeAttempts,   \* BULK_RESUME_ATTEMPTS
          CleanEof,         \* whether a body may end early without an error
          ComposeMax,       \* sources of one compose request
          StParts,          \* parts of the file that is uploaded
          ListPage,         \* keys of one page of a listing
          MinPart, CopyPart \* S3: least size of a part, most of a copied one

VARIABLES stBackend,  \* the backend of the process
          stFaults,   \* requests that may still fail
          stObj,      \* the object that is updated: version and the updates in it
          stCas,      \* clients in cas_update or delete
          stLate,     \* puts whose client gave up and which the service has yet to apply
          stTold,     \* updates whose client was told they took effect
          stErased,   \* updates that were in a version somebody deleted by its version
          stGen,      \* generation of the object that is read; size and bytes depend on it
          stReader,   \* a reader
          stFiles,    \* objects by name: the uploaded key, its parts, the intermediate ones
          stUp,       \* uploaders of one file
          stKeys,     \* keys of the bucket: pairs of a repository's prefix and a name
          stList,     \* a listing
          stPlan      \* a composition from parts

casVars == <<stBackend, stObj, stCas, stLate, stTold, stErased>>
storeVars == <<casVars, stFaults, stGen, stReader, stFiles, stUp, stKeys, stList, stPlan>>

-----------------------------------------------------------------------------
(* cas_update: read, compute, put on the version read, again if it changed. *)

Nothing == [there |-> FALSE, n |-> 0, tags |-> {}]

\* Versions: a counter (memory, GCS generations), or a hash of the content (S3 ETags).
VersionOf(o) ==
    IF ~o.there THEN Nothing ELSE IF stBackend = "s3" THEN [o EXCEPT !.n = 0] ELSE o

\* What a put with a precondition does at the service: Create (nothing was read) when
\* there is no object, Update when its version is the one named.
PutAccepted_AnyVersion(want) == want.there = stObj.there  \* Mutant: If-Match is not sent.
PutAccepted(want) == VersionOf(stObj) = want
StWritten(tags) == [there |-> TRUE, n |-> stObj.n + 1, tags |-> tags]

NewCas == [pc |-> "idle", tries |-> 0, want |-> Nothing, erase |-> FALSE]

CasStart(c) ==
    /\ stCas[c].pc = "idle"
    /\ \E e \in {x \in BOOLEAN : x => stBackend # "s3" \/ S3Deletes} :
           stCas' = [stCas EXCEPT ![c].pc = "read", ![c].erase = e]
    /\ UNCHANGED <<stBackend, stFaults, stObj, stLate, stTold, stErased>>

\* The object and its version, or nothing.
GetMessage == VersionOf(stObj)

\* The read of an attempt.  A failed read ends the update.
CasRead(c) ==
    /\ stCas[c].pc = "read"
    /\ \/ /\ stCas' = [stCas EXCEPT ![c].want = GetMessage,
                          ![c].pc = IF stCas[c].erase THEN "delete" ELSE "put"]
          /\ UNCHANGED stFaults
       \/ /\ stFaults > 0 /\ stFaults' = stFaults - 1
          /\ stCas' = [stCas EXCEPT ![c].pc = "failed"]
    /\ UNCHANGED <<stBackend, stObj, stLate, stTold, stErased>>

\* One more failed attempt: back to the read, until max_retries are used up.
CasAgain(c) ==
    stCas' = [stCas EXCEPT ![c].tries = @ + 1,
                 ![c].pc = IF stCas[c].tries + 1 > CasRetries THEN "exhausted" ELSE "read"]

\* A put that is not answered: it was applied, never arrives, or arrives later.
PutUnanswered(want, tags) ==
    /\ stFaults > 0 /\ stFaults' = stFaults - 1
    /\ \/ PutAccepted(want) /\ stObj' = StWritten(tags) /\ UNCHANGED stLate
       \/ UNCHANGED <<stObj, stLate>>
       \/ stLate' = stLate \cup {[want |-> want, tags |-> tags]} /\ UNCHANGED stObj

\* The put of what was read with the client's own update added: done, PreconditionFailed
\* or Retryable.
CasPut(c) ==
    LET new == stCas[c].want.tags \cup {c} IN
    /\ stCas[c].pc = "put"
    /\ \/ /\ PutAccepted(stCas[c].want)
          /\ stObj' = StWritten(new)
          /\ stTold' = stTold \cup {c}
          /\ stCas' = [stCas EXCEPT ![c].pc = "done"]
          /\ UNCHANGED <<stLate, stFaults>>
       \/ /\ ~PutAccepted(stCas[c].want) /\ CasAgain(c)
          /\ UNCHANGED <<stObj, stTold, stLate, stFaults>>
       \/ PutUnanswered(stCas[c].want, new) /\ CasAgain(c) /\ UNCHANGED stTold
    /\ UNCHANGED <<stBackend, stErased>>

\* A put that passed its deadline reaches the service after all.
LatePut ==
    /\ \E p \in stLate :
           /\ stLate' = stLate \ {p}
           /\ stObj' = IF PutAccepted(p.want) THEN StWritten(p.tags) ELSE stObj
    /\ UNCHANGED <<stBackend, stFaults, stCas, stTold, stErased>>

\* delete with a version is one conditional request; on S3 a HEAD that compares the
\* version and a DELETE without a condition.
Named(want) == want.there /\ VersionOf(stObj) = want
Erase(c) ==
    /\ stObj' = [stObj EXCEPT !.there = FALSE, !.tags = {}]
    /\ stErased' = stErased \cup stCas[c].want.tags
    /\ stCas' = [stCas EXCEPT ![c].pc = "erased"]
CasDelete(c) ==
    /\ stCas[c].pc = "delete" /\ stBackend # "s3"
    /\ IF Named(stCas[c].want) THEN Erase(c)
       ELSE stCas' = [stCas EXCEPT ![c].pc = "refused"] /\ UNCHANGED <<stObj, stErased>>
    /\ UNCHANGED <<stBackend, stFaults, stLate, stTold>>
S3Delete(c) ==
    /\ stBackend = "s3"
    /\ \/ /\ stCas[c].pc = "delete"
          /\ stCas' = [stCas EXCEPT ![c].pc = IF Named(stCas[c].want) THEN "erase" ELSE "refused"]
          /\ UNCHANGED <<stObj, stErased>>
       \/ stCas[c].pc = "erase" /\ Erase(c)
    /\ UNCHANGED <<stBackend, stFaults, stLate, stTold>>

CasNext ==
    /\ \/ \E c \in StClients : CasStart(c) \/ CasRead(c) \/ CasPut(c)
              \/ CasDelete(c) \/ S3Delete(c)
       \/ LatePut
    /\ UNCHANGED <<stGen, stReader, stFiles, stUp, stKeys, stList, stPlan>>

\* An update whose caller was told that it is in (coord.rs cas_update) stays in the
\* object, whatever other writers, failed and late requests do, until somebody deletes a
\* version that holds it; and a conditional delete removes only the version it names.
CasKept == stTold \subseteq stObj.tags \cup stErased

-----------------------------------------------------------------------------
(* Reads: a body that arrives piece by piece while the object is replaced.  *)

GenSize(g) == IF g = 0 THEN 0 ELSE 2 + (g % 2)    \* generation 0: no object
GenBytes(g, from, to) == [k \in 1..(to - from) |-> <<g, from + k - 1>>]
Lesser(a, b) == IF a < b THEN a ELSE b
Whole == [from |-> 0, to |-> 9, whole |-> TRUE]
StRanges == {Whole, [from |-> 0, to |-> 2, whole |-> FALSE], [from |-> 1, to |-> 3, whole |-> FALSE]}

NewReader == [pc |-> "idle", how |-> "one", range |-> Whole, known |-> 0, match |-> 0,
              meta |-> 0, gen |-> 0, inner |-> <<>>, end |-> 0, tries |-> 0, got |-> <<>>]
ReaderEnds(how) == stReader' = [stReader EXCEPT !.pc = how, !.inner = <<>>]

\* A request for the bytes from..to of generation want (0: whichever there is).
OpenFails(from, to, want) ==
    \/ stGen = 0                                      \* 404
    \/ want > 0 /\ stGen # want                       \* 412
    \/ from >= GenSize(stGen)                         \* 416
Opened(from, to) == GenBytes(stGen, from, Lesser(to, GenSize(stGen)))

\* A get: on GCS, by key and range, in bulk (resumed by this code) or as one response,
\* or from S3; of the whole or a range; with if_match, if_none_match or neither.
ReadStart ==
    /\ stReader.pc = "idle"
    /\ \E how \in {"bulk", "one", "s3"}, r \in StRanges, known, match \in 0..stGen :
           /\ known = 0 \/ match = 0
           /\ stReader' = [stReader EXCEPT !.how = how, !.range = r, !.known = known, !.match = match,
                 !.pc = IF how = "s3" THEN "ask" ELSE IF known > 0 THEN "meta" ELSE "open"]

\* if_none_match on GCS: the metadata first, then a body that names no generation.
ReadMeta ==
    /\ stReader.pc = "meta"
    /\ IF stGen = 0 THEN ReaderEnds("error")
       ELSE IF stGen = stReader.known THEN ReaderEnds("not modified")
       ELSE stReader' = [stReader EXCEPT !.pc = "open", !.meta = stGen]

OpenBody(pin) ==
    /\ stReader.pc = "open"
    /\ LET r == stReader.range IN
       IF OpenFails(r.from, r.to, stReader.match) THEN ReaderEnds("error")
       ELSE stReader' = [stReader EXCEPT !.pc = "body", !.inner = Opened(r.from, r.to),
                !.gen = pin, !.meta = IF stReader.known > 0 THEN stReader.meta ELSE stGen,
                !.end = IF r.whole THEN GenSize(stGen) ELSE r.to]
ReadOpen_Unpinned == OpenBody(0)    \* Mutant: what follows may be of any generation.
ReadOpen == OpenBody(stGen)

\* S3: one request with its conditions; the answer is 304, an error, or the body with the
\* version it is of.
S3Answer ==
    IF stGen # 0 /\ stGen = stReader.known THEN ReaderEnds("not modified")
    ELSE IF OpenFails(stReader.range.from, stReader.range.to, stReader.match) THEN ReaderEnds("error")
    ELSE stReader' = [stReader EXCEPT !.pc = "body", !.meta = stGen, !.gen = stGen,
             !.inner = Opened(stReader.range.from, stReader.range.to)]
ReadAsk ==
    /\ stReader.pc = "ask"
    /\ \/ S3Answer /\ UNCHANGED stFaults
       \/ stFaults > 0 /\ stFaults' = stFaults - 1 /\ ReaderEnds("error")
ReadPos == stReader.range.from + Len(stReader.got)

ReadChunk ==
    /\ stReader.pc = "body" /\ stReader.inner # <<>>
    /\ stReader' = [stReader EXCEPT !.got = Append(@, Head(stReader.inner)),
                                    !.inner = Tail(stReader.inner)]

\* The body ends: at the end of what was asked for that is the end of the read; before
\* it, bulk reads go on from the bytes received, a number of times.
ReadEof ==
    /\ stReader.pc = "body" /\ (CleanEof \/ stReader.inner = <<>>)
    /\ IF stReader.how = "bulk" /\ ReadPos < stReader.end /\ stReader.tries < ResumeAttempts
       THEN stReader' = [stReader EXCEPT !.pc = "resume", !.tries = @ + 1]
       ELSE ReaderEnds("ok")

\* The body breaks off with an error or falls silent: the caller of a bulk read notices
\* only when the attempts are used up.
BodyBreaks == stReader.pc = "body" /\ stFaults > 0 /\ stFaults' = stFaults - 1
ReadBreaks ==
    /\ stReader.how = "bulk" /\ BodyBreaks
    /\ IF ReadPos < stReader.end /\ stReader.tries < ResumeAttempts
       THEN stReader' = [stReader EXCEPT !.pc = "resume", !.tries = @ + 1]
       ELSE ReaderEnds("error")
ReadBreaksOff == stReader.how # "bulk" /\ BodyBreaks /\ ReaderEnds("error")

\* The rest, of the generation the first response was of.  A refused request counts as
\* an empty body, so the next attempt follows.
ReadResume ==
    /\ stReader.pc = "resume"
    /\ IF ~OpenFails(ReadPos, stReader.end, stReader.gen)
       THEN stReader' = [stReader EXCEPT !.pc = "body", !.inner = Opened(ReadPos, stReader.end)]
       ELSE IF stReader.tries >= ResumeAttempts THEN ReaderEnds("error")
       ELSE stReader' = [stReader EXCEPT !.pc = "body", !.inner = <<>>]

\* Somebody else replaces or deletes the object.
Replace(most) == stGen < most /\ stGen > 0 /\ stGen' = stGen + 1
Vanish == stGen > 0 /\ stGen' = 0

ReadNext(most) ==
    /\ \/ (ReadStart \/ ReadMeta \/ ReadOpen \/ ReadChunk \/ ReadEof \/ ReadResume)
              /\ UNCHANGED <<stGen, stFaults>>
       \/ (ReadAsk \/ ReadBreaks \/ ReadBreaksOff) /\ UNCHANGED stGen
       \/ (Replace(most) \/ Vanish) /\ UNCHANGED <<stReader, stFaults>>
    /\ UNCHANGED <<casVars, stFiles, stUp, stKeys, stList, stPlan>>

\* A body that ends without an error is the range that was asked for, of one generation:
\* the one named, and the one the answer says it is.  After if_none_match it may be a
\* later one than the answer says, never an earlier one: a poller that remembers the
\* version will read again, and cannot miss a change.
ReadsWhole ==
    stReader.pc = "ok" =>
        \E g \in 1..9 :
            /\ stReader.got = GenBytes(g, stReader.range.from, Lesser(stReader.range.to, GenSize(g)))
            /\ stReader.match \in {0, g}
            /\ IF stReader.known > 0 THEN stReader.meta <= g ELSE stReader.meta = g

-----------------------------------------------------------------------------
(* Striped uploads: parts next to the key, composed and then cleaned up.    *)

TheKey == <<"key", 0>>
Part(i) == <<"part", i>>
Mid(g) == <<"mid", g>>
Mids == 1..((StParts + ComposeMax - 1) \div ComposeMax)
PartsOf(g) == {i \in 1..StParts : (i - 1) \div ComposeMax = g - 1}
FileBytes == [i \in 1..StParts |-> i]    \* a byte for each part
StripeBytes(i) == SubSeq(FileBytes, i, i)
Stored(name) == stFiles[name] # <<>>
StoreAs(name, bytes) == stFiles' = [stFiles EXCEPT ![name] = bytes]

NewUp == [pc |-> "idle", left |-> {}, mids |-> <<>>, result |-> "none", clean |-> {}]
UpGoes(u, pc) == stUp' = [stUp EXCEPT ![u].pc = pc]
UpFails(u) == stFaults > 0 /\ stFaults' = stFaults - 1 /\ UpGoes(u, "failed")
UpResult(u, how, clean) ==
    stUp' = [stUp EXCEPT ![u].pc = "clean", ![u].result = how, ![u].clean = clean]
\* A large file in stripes; a small one, or one for a backend that cannot compose, in one put.
UpStart(u) ==
    /\ stUp[u].pc = "idle"
    /\ \E striped \in BOOLEAN :
           stUp' = [stUp EXCEPT ![u].pc = IF striped THEN "parts" ELSE "single",
                                ![u].left = 1..StParts]
    /\ UNCHANGED <<stFiles, stFaults>>

\* The stripes are put concurrently; one that fails ends the upload, and the parts stay.
UpPart(u) ==
    /\ stUp[u].pc = "parts"
    /\ \E i \in stUp[u].left :
           \/ /\ StoreAs(Part(i), StripeBytes(i))
              /\ stUp' = [stUp EXCEPT ![u].left = @ \ {i},
                             ![u].pc = IF stUp[u].left # {i} THEN "parts"
                                       ELSE IF StParts <= ComposeMax THEN "compose" ELSE "mids"]
              /\ UNCHANGED stFaults
           \/ UpFails(u) /\ UNCHANGED stFiles

\* compose, of names in order: all of them have to be there.
Composed(names) == FlattenSeq([i \in 1..Len(names) |-> stFiles[names[i]]])
CanCompose(names) == \A i \in 1..Len(names) : Stored(names[i])
MidSources(g) == SetToSortSeq({Part(i) : i \in PartsOf(g)}, LAMBDA a, b : a[2] < b[2])
LastSources ==
    IF StParts <= ComposeMax THEN [i \in 1..StParts |-> Part(i)]
    ELSE [g \in 1..Cardinality(Mids) |-> Mid(g)]
CleanUp == {Part(i) : i \in 1..StParts} \cup (IF StParts <= ComposeMax THEN {} ELSE {Mid(g) : g \in Mids})

\* More parts than one request takes go through intermediate objects.
UpMid(u) ==
    /\ stUp[u].pc = "mids"
    /\ LET g == Len(stUp[u].mids) + 1 IN
       IF CanCompose(MidSources(g))
       THEN /\ StoreAs(Mid(g), Composed(MidSources(g)))
            /\ stUp' = [stUp EXCEPT ![u].mids = Append(@, g),
                           ![u].pc = IF g \in Mids /\ g + 1 \notin Mids THEN "compose" ELSE "mids"]
       ELSE UpGoes(u, "failed") /\ UNCHANGED stFiles
    /\ UNCHANGED stFaults

\* The key itself, created only if absent; then the cleanup, whatever came of it.
ComposeKey(u) ==
    IF ~CanCompose(LastSources) THEN UpResult(u, "failed", CleanUp) /\ UNCHANGED stFiles
    ELSE IF Stored(TheKey) THEN UpResult(u, "exists", CleanUp) /\ UNCHANGED stFiles
    ELSE StoreAs(TheKey, Composed(LastSources)) /\ UpResult(u, "ok", CleanUp)
UpCompose(u) == stUp[u].pc = "compose" /\ ComposeKey(u) /\ UNCHANGED stFaults

UpClean(u) ==
    /\ stUp[u].pc = "clean"
    /\ IF stUp[u].clean = {}
       THEN /\ UpGoes(u, IF stUp[u].result = "exists" THEN "verify" ELSE stUp[u].result)
            /\ UNCHANGED <<stFiles, stFaults>>
       ELSE LET n == CHOOSE x \in stUp[u].clean : TRUE IN
            /\ stUp' = [stUp EXCEPT ![u].clean = @ \ {n}]
            /\ \/ StoreAs(n, <<>>) /\ UNCHANGED stFaults
               \/ stFaults > 0 /\ stFaults' = stFaults - 1 /\ UNCHANGED stFiles

\* One put, created only if absent.
UpSingle(u) ==
    /\ stUp[u].pc = "single"
    /\ \/ /\ ~Stored(TheKey) /\ StoreAs(TheKey, FileBytes) /\ UpGoes(u, "ok")
          /\ UNCHANGED stFaults
       \/ Stored(TheKey) /\ UpGoes(u, "verify") /\ UNCHANGED <<stFiles, stFaults>>
       \/ UpFails(u) /\ UNCHANGED stFiles

\* put_immutable_create: "exists already" is checked with a HEAD; an object that is gone
\* again is written without a condition.
UpVerify(u) ==
    /\ stUp[u].pc = "verify"
    /\ UpGoes(u, IF Stored(TheKey) THEN "ok" ELSE "overwrite")
    /\ UNCHANGED <<stFiles, stFaults>>
UpOverwrite(u) ==
    /\ stUp[u].pc = "overwrite"
    /\ StoreAs(TheKey, FileBytes) /\ UpGoes(u, "ok")
    /\ UNCHANGED stFaults

\* The process stops; somebody removes the object as garbage while no upload of it is done.
UpCrash(u) == stUp[u].pc \notin {"idle", "ok"} /\ UpFails(u) /\ UNCHANGED stFiles
Collected ==
    /\ Stored(TheKey) /\ stFaults > 0 /\ \A u \in Uploaders : "ok" \notin {stUp[u].pc, stUp[u].result}
    /\ stFaults' = stFaults - 1
    /\ StoreAs(TheKey, <<>>)
    /\ UNCHANGED stUp

UploadNext ==
    /\ \/ \E u \in Uploaders : UpStart(u) \/ UpPart(u) \/ UpMid(u) \/ UpCompose(u)
              \/ UpClean(u) \/ UpSingle(u) \/ UpVerify(u) \/ UpOverwrite(u) \/ UpCrash(u)
       \/ Collected
    /\ UNCHANGED <<casVars, stGen, stReader, stKeys, stList, stPlan>>

\* Whoever uploads a file in parallel, part by part, and fails on the way: under the key
\* there is nothing or the whole file, and once an upload says it is done the file is there.
UploadsExact ==
    /\ stFiles[TheKey] \in {<<>>, FileBytes}
    /\ (\E u \in Uploaders : stUp[u].pc = "ok") => Stored(TheKey)

-----------------------------------------------------------------------------
(* Listings below a prefix, page by page, while keys come and go.           *)

KeyBefore(a, b) == a[1] < b[1] \/ (a[1] = b[1] /\ a[2] < b[2])
KeysBelow(prefix, after, inclusive) ==
    {k \in stKeys : k[1] = prefix /\ (KeyBefore(<<prefix, after>>, k) \/ (inclusive /\ k = <<prefix, after>>))}

NewList == [pc |-> "idle", backend |-> "gcs", prefix |-> 1, after |-> 0, token |-> 0,
            first |-> TRUE, out |-> <<>>, through |-> {}]

\* Prefixed: the prefix of the repository goes before what is asked for.
ListStart ==
    /\ stList.pc = "idle"
    /\ \E b \in StBackends, p \in {k[1] : k \in stKeys}, after \in 0..2 :
           stList' = [stList EXCEPT !.pc = "pages", !.backend = b, !.prefix = p, !.after = after,
                         !.through = KeysBelow(p, after, FALSE)]
    /\ UNCHANGED <<stKeys, stFaults>>

\* A page: the first keys from where the last page ended.  On the first page GCS takes
\* start_after as a start that is part of the answer, so that key is skipped.
AllKeys(keys) == SetToSortSeq(keys, KeyBefore)
FirstKeys(keys) == SubSeq(AllKeys(keys), 1, Lesser(ListPage, Cardinality(keys)))
NextPage ==
    LET from == IF stList.first THEN stList.after ELSE stList.token
        keys == KeysBelow(stList.prefix, from, stList.first /\ stList.backend = "gcs")
        page == IF stList.backend = "memory" THEN AllKeys(keys) ELSE FirstKeys(keys)
    IN  [page |-> page, more |-> Len(page) < Cardinality(keys)]

Shown(p) ==
    IF stList.first /\ stList.backend = "gcs"
    THEN SelectSeq(p, LAMBDA k : k # <<stList.prefix, stList.after>>)
    ELSE p
ListNextPage ==
    /\ stList.pc = "pages"
    /\ LET n == NextPage IN
       stList' = [stList EXCEPT !.out = @ \o Shown(n.page), !.first = FALSE,
                     !.token = IF n.page = <<>> THEN 0 ELSE n.page[Len(n.page)][2],
                     !.pc = IF n.more THEN "pages" ELSE "done"]
    /\ UNCHANGED <<stKeys, stFaults>>

ListFails ==
    /\ stList.pc = "pages" /\ stFaults > 0
    /\ stFaults' = stFaults - 1
    /\ stList' = [stList EXCEPT !.pc = "failed"]
    /\ UNCHANGED stKeys

\* Somebody else writes or deletes a key.
KeyComes(all) == \E k \in all \ stKeys : stKeys' = stKeys \cup {k} /\ UNCHANGED stList
KeyGoes ==
    \E k \in stKeys :
        /\ stKeys' = stKeys \ {k}
        /\ stList' = [stList EXCEPT !.through = @ \ {k}]

ListNext(all) ==
    /\ \/ ListStart \/ ListNextPage \/ ListFails
       \/ (KeyComes(all) \/ KeyGoes) /\ stFaults > 0 /\ stFaults' = stFaults - 1
    /\ UNCHANGED <<casVars, stGen, stReader, stFiles, stUp, stPlan>>

\* A listing that ends without an error is in order, has no key twice, none of another
\* repository and none at or before start_after, and every key that was there throughout.
ListsComplete ==
    /\ \A i, j \in 1..Len(stList.out) : i < j => KeyBefore(stList.out[i], stList.out[j])
    /\ \A i \in 1..Len(stList.out) :
           stList.out[i][1] = stList.prefix /\ stList.out[i][2] > stList.after
    /\ stList.pc = "done" => stList.through \subseteq ToSet(stList.out)

-----------------------------------------------------------------------------
(* S3: an object put together from others, and a long body in parts.        *)

NewPlan == [pc |-> "idle", sizes |-> <<>>, pos |-> 0, parts |-> <<>>]
OffsetOf(sizes, i) == FoldLeft(LAMBDA a, b : a + b, 0, SubSeq(sizes, 1, i - 1))
SumSizes(sizes) == OffsetOf(sizes, Len(sizes) + 1)
SourceAt(sizes, pos) == CHOOSE i \in 1..Len(sizes) :
    /\ pos < OffsetOf(sizes, i) + sizes[i]
    /\ \A j \in 1..(i - 1) : pos >= OffsetOf(sizes, j) + sizes[j]

ComposeStart(all) ==
    /\ stPlan.pc = "idle"
    /\ \E sizes \in all : stPlan' = [stPlan EXCEPT !.pc = "compose", !.sizes = sizes]
MultipartStart(all) ==
    /\ stPlan.pc = "idle"
    /\ \E sizes \in all : stPlan' = [stPlan EXCEPT !.pc = "multipart", !.sizes = sizes]

PartDone(from, len) ==
    stPlan' = [stPlan EXCEPT !.pos = @ + len, !.parts = Append(@, <<from, from + len>>)]

\* A source, or what is left of it, is copied when it is long enough or the last; else
\* the least size of a part is gathered from this source and the ones after it.
ComposePart(pos, total, run, ends) ==
    IF run >= MinPart \/ ends = total THEN Lesser(run, CopyPart)
    ELSE Lesser(MinPart, total - pos)
ComposeStep ==
    LET total == SumSizes(stPlan.sizes)
        i == SourceAt(stPlan.sizes, stPlan.pos)
        ends == OffsetOf(stPlan.sizes, i) + stPlan.sizes[i]
    IN  /\ stPlan.pc = "compose"
        /\ IF stPlan.pos < total
           THEN PartDone(stPlan.pos, ComposePart(stPlan.pos, total, ends - stPlan.pos, ends))
           ELSE stPlan' = [stPlan EXCEPT !.pc = "complete"]

\* multipart_put: parts of one size and the rest.
MultipartStep ==
    LET total == SumSizes(stPlan.sizes) IN
    /\ stPlan.pc = "multipart"
    /\ IF stPlan.pos < total THEN PartDone(stPlan.pos, Lesser(CopyPart, total - stPlan.pos))
       ELSE stPlan' = [stPlan EXCEPT !.pc = "complete"]

PlanNext(all) ==
    /\ ComposeStart(all) \/ MultipartStart(all) \/ ComposeStep \/ MultipartStep
    /\ UNCHANGED <<casVars, stFaults, stGen, stReader, stFiles, stUp, stKeys, stList>>

\* The parts are the object from its first byte to its last, in order, and all but the
\* last are of a size the service accepts.
PartsTile ==
    /\ \A k \in 1..Len(stPlan.parts) :
           /\ stPlan.parts[k][1] = IF k = 1 THEN 0 ELSE stPlan.parts[k - 1][2]
           /\ stPlan.parts[k][2] - stPlan.parts[k][1] \in 1..CopyPart
           /\ k < Len(stPlan.parts) => stPlan.parts[k][2] - stPlan.parts[k][1] >= MinPart
    /\ stPlan.pc = "complete" => stPlan.pos = SumSizes(stPlan.sizes)

-----------------------------------------------------------------------------
\* What callers rely on when they read, upload, list and compose.
StoreExact == ReadsWhole /\ UploadsExact /\ ListsComplete /\ PartsTile

StoreInit(keys, faults) ==
    /\ stFaults = faults
    /\ stObj = Nothing /\ stLate = {} /\ stTold = {} /\ stErased = {}
    /\ stCas = [c \in StClients |-> NewCas]
    /\ stGen = 1 /\ stReader = NewReader
    /\ stFiles = [n \in {TheKey} \cup {Part(i) : i \in 1..StParts} \cup {Mid(g) : g \in Mids} |-> <<>>]
    /\ stUp = [u \in Uploaders |-> NewUp]
    /\ stKeys = keys /\ stList = NewList
    /\ stPlan = NewPlan
=============================================================================
