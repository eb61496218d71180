------------------------------- MODULE Rewind -------------------------------
(* A repository filled through the publish path (import.rs) and written out *)
(* again as it was at a seq (wal_cmd.rs materialize_at), while servers      *)
(* push, compact and checkpoint, and old objects are removed.  A commit     *)
(* stands for all it reaches; a pack is the set of commits it holds.        *)
EXTENDS Naturals, Sequences, FiniteSets

CONSTANTS RwRefs,      \* refs
          RwSources,   \* sources of an import: [refs, head, packs], packs a sequence of sets of commits
          RwBatches,   \* batches of pushes: sequences of the refs they set
          RwRaces,     \* "fold": a checkpoint while an old state is read out;
                       \* "orphan": a burned seq in the part of the log that is folded;
                       \* "source": the source drops an imported branch during an import
          RwMaxSeq,    \* sequence numbers
          RwMaxPacks   \* packs

\* Every ref of a source is in one of its packs; 0 in place of a commit: the ref does not exist.
ASSUME RewindAssumption ==
    /\ RwMaxSeq \in Nat /\ RwMaxPacks \in Nat
    /\ RwBatches \subseteq Seq(RwRefs) \ {<<>>}
    /\ \A s \in RwSources :
          /\ s.refs \in [RwRefs -> Nat] /\ s.head \in RwRefs
          /\ s.packs \in Seq(SUBSET Nat) \ {<<>>}
          /\ \A r \in RwRefs : s.refs[r] = 0 \/ \E i \in DOMAIN s.packs : s.refs[r] \in s.packs[i]

VARIABLES rwMan,     \* the manifest: head, min_seq, checkpoint seq, first seqs of its segments, packs
          rwSegs,    \* log objects: sequences of entries by their first seq
          rwCks,     \* checkpoint objects by seq: packs and refs
          rwHolds,   \* the packs made so far and the commits they hold
          rwStore,   \* the packs still in the store
          rwHistory, \* the entries that were committed, by seq
          rwImp,     \* the import
          rwOut      \* the rewind

rewindVars == <<rwMan, rwSegs, rwCks, rwHolds, rwStore, rwHistory, rwImp, rwOut>>

RwNoRefs == [r \in RwRefs |-> 0]
\* An entry: the pack it brings (0: none), the packs it supersedes, and its ref transaction, a
\* function from the refs it sets.
RwEntry(pack, drops, sets) == [pack |-> pack, drops |-> drops, sets |-> sets]
NoSets == [r \in {} |-> 0]

\* Entries are functions from seqs.
Only(log, seqs) == [n \in DOMAIN log \cap seqs |-> log[n]]
Joined(log, more) == [n \in DOMAIN log \cup DOMAIN more |-> IF n \in DOMAIN more THEN more[n] ELSE log[n]]
Numbered(entries, first) == [n \in first..(first + Len(entries) - 1) |-> entries[n - first + 1]]

\* The transactions in the order of the log: a ref ends with what the last one sets it to.
Settings(log, r) == {n \in DOMAIN log : r \in DOMAIN log[n].sets}
Newest(seqs) == CHOOSE n \in seqs : \A m \in seqs : m <= n
Applied(refs, log) ==
    [r \in RwRefs |-> IF Settings(log, r) = {} THEN refs[r] ELSE log[Newest(Settings(log, r))].sets[r]]
\* The packs after the entries: each brings its own, then those it supersedes go.
PackSet(packs, log) ==
    {p \in packs \cup {log[n].pack : n \in DOMAIN log} :
        p # 0 /\ \A n \in DOMAIN log : p \in log[n].drops => \E m \in DOMAIN log : m > n /\ log[m].pack = p}

Replayed(start, log) == [refs |-> Applied(start.refs, log), packs |-> PackSet(start.packs, log)]
Nothing == [refs |-> RwNoRefs, packs |-> {}]
\* The repository as it was at a seq.
StateAt(s) == Replayed(Nothing, Only(rwHistory, 1..s))
Holding(packs) == UNION {rwHolds[p] : p \in packs}

NoRwImport == [pc |-> "idle", mode |-> "pack", refs |-> RwNoRefs, source |-> <<>>, packs |-> <<>>,
               new |-> 0, old |-> {}]
NoOut == [pc |-> "idle", at |-> 0, man |-> 0, next |-> 0, start |-> 0, from |-> Nothing, entries |-> NoSets,
          todo |-> {}, got |-> {}, refs |-> RwNoRefs, head |-> 0]

-----------------------------------------------------------------------------
(* The log.                                                                 *)

\* Entries committed at the next seq that is free, as one segment, packs and all.
Commit(entries, first, packs) ==
    /\ first + Len(entries) - 1 <= RwMaxSeq
    /\ rwSegs' = [s \in DOMAIN rwSegs \cup {first} |-> IF s = first THEN entries ELSE rwSegs[s]]
    /\ rwMan' = [rwMan EXCEPT !.head = first + Len(entries) - 1, !.segs = @ \cup {first},
                    !.packs = PackSet(@, Numbered(entries, first))]
    /\ rwHistory' = Joined(rwHistory, Numbered(entries, first))
    /\ rwHolds' = rwHolds \o packs
    /\ rwStore' = rwStore \cup (Len(rwHolds) + 1)..Len(rwHolds')
    /\ Len(rwHolds') <= RwMaxPacks
\* The slot of the next segment: past the orphan of a writer that died.
FreeSlot == IF rwMan.head + 1 \in DOMAIN rwSegs THEN rwMan.head + 2 ELSE rwMan.head + 1

\* A batch of pushes, in one segment.
RwPush ==
    /\ \E batch \in RwBatches :
           LET n == Len(rwHolds)
           IN  Commit([i \in 1..Len(batch) |-> RwEntry(n + i, {}, [r \in {batch[i]} |-> n + i])],
                      FreeSlot, [i \in 1..Len(batch) |-> {n + i}])
    /\ UNCHANGED <<rwCks, rwImp, rwOut>>
RwCompact ==
    /\ Cardinality(rwMan.packs) > 1
    /\ Commit(<<RwEntry(Len(rwHolds) + 1, rwMan.packs, NoSets)>>, FreeSlot, <<Holding(rwMan.packs)>>)
    /\ UNCHANGED <<rwCks, rwImp, rwOut>>
Orphans == {s \in DOMAIN rwSegs : s \notin rwMan.segs /\ s >= rwMan.min}
\* A writer dies between its log PUT and its manifest CAS.
RwOrphan ==
    /\ rwMan.head + 1 <= RwMaxSeq /\ Orphans = {}
    /\ rwSegs' = [s \in DOMAIN rwSegs \cup {rwMan.head + 1} |->
                     IF s = rwMan.head + 1 THEN <<RwEntry(0, {}, [r \in RwRefs |-> RwMaxPacks + 1])>> ELSE rwSegs[s]]
    /\ UNCHANGED <<rwMan, rwCks, rwHolds, rwStore, rwHistory, rwImp, rwOut>>
\* The head is folded: the manifest forgets the segments, the store keeps them.
RwCheckpoint ==
    /\ rwMan.head > rwMan.cp
    /\ "fold" \in RwRaces \/ rwOut.pc \notin {"checkpoint", "log"}
    /\ "orphan" \in RwRaces \/ Orphans \cap 1..rwMan.head = {}
    /\ rwCks' = [s \in DOMAIN rwCks \cup {rwMan.head} |->
                    IF s = rwMan.head THEN StateAt(s) ELSE rwCks[s]]
    /\ rwMan' = [rwMan EXCEPT !.cp = rwMan.head, !.min = rwMan.head + 1, !.segs = {}]
    /\ UNCHANGED <<rwSegs, rwHolds, rwStore, rwHistory, rwImp, rwOut>>
\* What is no longer listed goes: old packs, checkpoints, segments, swept orphans.
RwSweep ==
    /\ \/ /\ \E p \in rwStore \ rwMan.packs : p # rwImp.new /\ rwStore' = rwStore \ {p}
          /\ UNCHANGED <<rwSegs, rwCks>>
       \/ /\ \E s \in DOMAIN rwCks \ {rwMan.cp} :
                 rwCks' = [k \in DOMAIN rwCks \ {s} |-> rwCks[k]]
          /\ UNCHANGED <<rwSegs, rwStore>>
       \/ /\ \E s \in DOMAIN rwSegs \ rwMan.segs :
                 s <= rwMan.head /\ rwSegs' = [k \in DOMAIN rwSegs \ {s} |-> rwSegs[k]]
          /\ UNCHANGED <<rwCks, rwStore>>
    /\ UNCHANGED <<rwMan, rwHolds, rwHistory, rwImp, rwOut>>

-----------------------------------------------------------------------------
(* The import that publishes.                                               *)

IpGoes(pc) == rwImp' = [rwImp EXCEPT !.pc = pc]

\* Refs that the command's globs match, and the target of HEAD.
Kept(source, matched) ==
    [r \in RwRefs |-> IF r \in matched \cup {source.head} THEN source.refs[r] ELSE 0]
IpStart ==
    /\ rwImp.pc = "idle"
    /\ \E source \in RwSources, matched \in SUBSET RwRefs, mode \in {"pack", "reuse"} :
           rwImp' = [NoRwImport EXCEPT !.pc = "pack", !.mode = mode, !.refs = Kept(source, matched),
                        !.source = source.packs]
    /\ UNCHANGED <<rwMan, rwSegs, rwCks, rwHolds, rwStore, rwHistory, rwOut>>
\* The last branch of the source goes: what only it reached is not packed any more.
IpSourceMoves ==
    /\ rwImp.pc = "pack" /\ Len(rwImp.source) > 1
    /\ "source" \in RwRaces \/ \A r \in RwRefs : rwImp.refs[r] \notin rwImp.source[Len(rwImp.source)]
    /\ rwImp' = [rwImp EXCEPT !.source = SubSeq(@, 1, Len(@) - 1)]
    /\ UNCHANGED <<rwMan, rwSegs, rwCks, rwHolds, rwStore, rwHistory, rwOut>>
\* One pack of everything, read from git pack-objects as it is written.
OnePack == <<UNION {rwImp.source[i] : i \in DOMAIN rwImp.source}>>
\* The packs of the source as they are, in the order of their names.
SourcePackSeq == rwImp.source
IpPack ==
    /\ rwImp.pc = "pack"
    /\ rwImp' = [rwImp EXCEPT !.pc = "publish",
                    !.packs = IF rwImp.mode = "pack" THEN OnePack ELSE SourcePackSeq]
    /\ UNCHANGED <<rwMan, rwSegs, rwCks, rwHolds, rwStore, rwHistory, rwOut>>
\* Every ref that is kept is to be created.
ImportSets == [r \in {k \in RwRefs : rwImp.refs[k] # 0} |-> rwImp.refs[r]]
\* Every ref is created, or none: report_publish fails the import on one that exists.
Rejected == \E r \in DOMAIN ImportSets : StateAt(rwMan.head).refs[r] # 0
\* The pack and all the refs, in one transaction.
WithRefs == RwEntry(Len(rwHolds) + 1, {}, ImportSets)
\* Pack by pack; the refs go with the last.
IpPublish ==
    /\ rwImp.pc = "publish"
    /\ LET last == Len(rwImp.packs) = 1
       IN  IF last /\ Rejected
           THEN IpGoes("failed") /\ UNCHANGED <<rwMan, rwSegs, rwHolds, rwStore, rwHistory>>
           ELSE /\ Commit(<<IF last THEN WithRefs ELSE RwEntry(Len(rwHolds) + 1, {}, NoSets)>>,
                          FreeSlot, <<Head(rwImp.packs)>>)
                /\ rwImp' = [rwImp EXCEPT !.packs = SubSeq(@, 2, Len(@)),
                                !.pc = IF ~last THEN "publish"
                                       ELSE IF rwImp.mode = "pack" THEN "repack" ELSE "done"]
    /\ UNCHANGED <<rwCks, rwOut>>
\* The local copy packed into a base, which is published in place of what it replaces.
IpRepack ==
    /\ rwImp.pc = "repack" /\ Len(rwHolds) < RwMaxPacks
    /\ rwHolds' = Append(rwHolds, Holding(rwMan.packs))
    /\ rwStore' = rwStore \cup {Len(rwHolds')}
    /\ rwImp' = [rwImp EXCEPT !.pc = "compact", !.new = Len(rwHolds'), !.old = rwMan.packs]
    /\ UNCHANGED <<rwMan, rwSegs, rwCks, rwHistory, rwOut>>
IpCompact ==
    /\ rwImp.pc = "compact"
    /\ Commit(<<RwEntry(rwImp.new, rwImp.old, NoSets)>>, FreeSlot, <<>>)
    /\ IpGoes("done")
    /\ UNCHANGED <<rwCks, rwOut>>

-----------------------------------------------------------------------------
(* materialize_at.                                                          *)

RwFails == rwOut' = [NoOut EXCEPT !.pc = "failed"]

OutOpen ==
    /\ rwOut.pc = "idle" /\ rwMan.head > 0
    /\ \E at \in 1..(rwMan.head + 1) :
           rwOut' = [NoOut EXCEPT !.pc = "checkpoint", !.at = at, !.man = rwMan]
    /\ UNCHANGED <<rwMan, rwSegs, rwCks, rwHolds, rwStore, rwHistory, rwImp>>
\* The checkpoint of the manifest, when it is not past the seq that was asked for.
OutCheckpoint ==
    /\ rwOut.pc = "checkpoint"
    /\ LET cp == rwOut.man.cp
       IN  IF cp = 0 \/ cp > rwOut.at THEN rwOut' = [rwOut EXCEPT !.pc = "log", !.next = 1]
           ELSE IF cp \in DOMAIN rwCks
           THEN rwOut' = [rwOut EXCEPT !.pc = "log", !.start = cp, !.from = rwCks[cp], !.next = cp + 1]
           ELSE RwFails
    /\ UNCHANGED <<rwMan, rwSegs, rwCks, rwHolds, rwStore, rwHistory, rwImp>>
\* Segments that the manifest has forgotten are read one by one, at the seq each starts with.
BelowWindow == rwOut.next < rwOut.man.min /\ rwOut.next <= rwOut.at
OutFolded ==
    /\ rwOut.pc = "log" /\ BelowWindow
    /\ IF rwOut.next \in DOMAIN rwSegs
       THEN rwOut' = [rwOut EXCEPT !.entries = Joined(@, Numbered(rwSegs[rwOut.next], rwOut.next)),
                          !.next = @ + Len(rwSegs[rwOut.next])]
       ELSE RwFails
    /\ UNCHANGED <<rwMan, rwSegs, rwCks, rwHolds, rwStore, rwHistory, rwImp>>
\* read_log: the segments of the manifest as it is now, from there to the seq.
Span(s) == s..(s + Len(rwSegs[s]) - 1)
ListedFrom(first) ==
    [n \in (first..rwOut.at) \cap UNION {Span(s) : s \in rwMan.segs} |->
        LET s == CHOOSE s \in rwMan.segs : n \in Span(s) IN rwSegs[s][n - s + 1]]
OutLog ==
    /\ rwOut.pc = "log" /\ ~BelowWindow
    /\ rwOut' = [rwOut EXCEPT !.pc = "packs", !.entries = Joined(@, ListedFrom(rwOut.next)),
                        !.head = rwMan.head]
    /\ UNCHANGED <<rwMan, rwSegs, rwCks, rwHolds, rwStore, rwHistory, rwImp>>
\* Mutant: the entries of the last segment are all replayed.
InRange_WholeSegment(n) == n > rwOut.start
\* Entries up to the seq count; the last segment that was read may hold more.
InRange(n) == n > rwOut.start /\ n <= rwOut.at
OutState == Replayed(rwOut.from, Only(rwOut.entries, {n \in DOMAIN rwOut.entries : InRange(n)}))
OutPacks ==
    /\ rwOut.pc = "packs"
    /\ rwOut' = [rwOut EXCEPT !.pc = "fetch", !.todo = OutState.packs]
    /\ UNCHANGED <<rwMan, rwSegs, rwCks, rwHolds, rwStore, rwHistory, rwImp>>
\* A pack is in the store (or the local copy), or there is no rewind.
OutFetch ==
    /\ rwOut.pc = "fetch" /\ rwOut.todo # {}
    /\ LET p == CHOOSE p \in rwOut.todo : \A q \in rwOut.todo : p <= q
       IN  IF p \in rwStore THEN rwOut' = [rwOut EXCEPT !.todo = @ \ {p}, !.got = @ \cup {p}]
           ELSE RwFails
    /\ UNCHANGED <<rwMan, rwSegs, rwCks, rwHolds, rwStore, rwHistory, rwImp>>
OutRefs ==
    /\ rwOut.pc = "fetch" /\ rwOut.todo = {}
    /\ rwOut' = [rwOut EXCEPT !.pc = "done", !.refs = OutState.refs]
    /\ UNCHANGED <<rwMan, rwSegs, rwCks, rwHolds, rwStore, rwHistory, rwImp>>

RwServer == RwPush \/ RwCompact \/ RwOrphan
RepublishNext ==
    \/ RwServer
    \/ IpStart \/ IpSourceMoves \/ IpPack \/ IpPublish \/ IpRepack \/ IpCompact
RewindNext ==
    \/ RwServer \/ RwCheckpoint \/ RwSweep
    \/ OutOpen \/ OutCheckpoint \/ OutFolded \/ OutLog \/ OutPacks \/ OutFetch \/ OutRefs

-----------------------------------------------------------------------------

\* A rewind that ends well has the refs of the seq that was asked for, of the head if that
\* was earlier, and the commits they point at; whatever is swept meanwhile.
MaterializeExact ==
    rwOut.pc = "done" =>
        LET was == StateAt(IF rwOut.at < rwOut.head THEN rwOut.at ELSE rwOut.head)
        IN  rwOut.refs = was.refs /\ \A r \in RwRefs : was.refs[r] \in Holding(rwOut.got) \cup {0}
\* At every seq of the history of imports the refs point at commits in the packs of that seq: refs
\* appear with their last pack, and no base drops what came beside its making.
AlwaysComplete ==
    \A s \in DOMAIN rwHistory :
        LET was == StateAt(s) IN \A r \in RwRefs : was.refs[r] \in Holding(was.packs) \cup {0}

RewindExact == MaterializeExact /\ AlwaysComplete

RewindInit ==
    /\ rwMan = [head |-> 0, min |-> 0, cp |-> 0, segs |-> {}, packs |-> {}]
    /\ rwSegs = <<>> /\ rwCks = <<>> /\ rwHolds = <<>> /\ rwStore = {} /\ rwHistory = <<>>
    /\ rwImp = NoRwImport /\ rwOut = NoOut
RewindSpec == RewindInit /\ [][RepublishNext \/ RewindNext]_rewindVars
=============================================================================
