------------------------------- MODULE Fetch --------------------------------
(***************************************************************************)
(* What a fetch sends: the gates a request passes, the negotiation, and the *)
(* pack that the engine in process computes by tree diffs, reading objects  *)
(* that are not local from the bucket and starting over.                    *)
(*                                                                          *)
(* Commits are numbers, parents before children.  The tree of a commit      *)
(* holds a file and a directory with two files; a tree or blob is named by  *)
(* its contents, so equal ones are the same object.                         *)
(***************************************************************************)
EXTENDS Integers, FiniteSets

CONSTANTS FtCount,     \* how many commits there are
          FtTag,       \* the commit that the annotated tag names
          FtBase,      \* the commits whose objects are in the base pack only
          FtAsks,      \* requests that nothing refuses
          FtClones     \* clones that come to an instance in any condition

FtCommits == 1..FtCount
Histories == [FtCommits -> SUBSET FtCommits]
\* Requests, with the history, what each commit reaches in it and the trees of its commits.
Requests ==
    [parents : Histories, reach : Histories, contents : [FtCommits -> Nat \X Nat \X Nat],
     client : [commits : SUBSET FtCommits, shallow : SUBSET FtCommits, extra : SUBSET Nat],
     wants : SUBSET FtCommits, tag : BOOLEAN, depth : Nat,
     filter : {"none", "blob:none", "blob:limit=1", "tree:0"}, remote : BOOLEAN, done : BOOLEAN,
     engine : {"gix", "git"}, v2 : BOOLEAN, many : BOOLEAN]
\* Parents come first; a client has the parents of what it has, but for the commits where its
\* history was cut.
AskFits(a) ==
    /\ \A c \in FtCommits :
          /\ \A p \in a.parents[c] : p < c
          /\ a.reach[c] = {c} \cup UNION {a.reach[p] : p \in a.parents[c]}
    /\ a.client.shallow \subseteq a.client.commits
    /\ \A c \in a.client.commits \ a.client.shallow : a.parents[c] \subseteq a.client.commits

ASSUME FetchAssumption ==
    /\ FtCount \in Nat /\ FtTag \in FtCommits /\ FtBase \subseteq FtCommits
    /\ \A a \in FtAsks \cup FtClones : a \in Requests /\ AskFits(a)

VARIABLES ask,      \* the request: UploadPackRequest, the client and the history
          gate,     \* what the instance knows of itself and of the principal
          ftPc,     \* where the request is
          ftLocal,  \* objects in the local copy
          ftWalk,   \* commits the walk has not yielded yet
          ftSet,    \* set
          ftNeed,   \* missing
          ftPack    \* the pack that was sent

fetchVars == <<ask, gate, ftPc, ftLocal, ftWalk, ftSet, ftNeed, ftPack>>

Parents(c) == ask.parents[c]
ParentsOf(cs) == UNION {Parents(c) : c \in cs}
History(cs) == UNION {ask.reach[c] : c \in cs}

CommitId(c) == <<"commit", c>>
TagId == <<"tag", FtTag>>
TreeOf(c) == <<"tree", ask.contents[c][1], ask.contents[c][2], ask.contents[c][3]>>
FileOf(t) == <<"blob", t[2]>>
DirOf(t) == <<"dir", t[3], t[4]>>
OneOf(d) == <<"blob", d[2]>>
OtherOf(d) == <<"blob", d[3]>>
TreeObjects(t) == {t, FileOf(t), DirOf(t), OneOf(DirOf(t)), OtherOf(DirOf(t))}
ObjectsOf(cs) == {CommitId(c) : c \in cs} \cup UNION {TreeObjects(TreeOf(c)) : c \in cs}

\* parse_filter and the tests of the walks.
Keeps(f, o) ==
    CASE f = "none"         -> TRUE
      [] f = "blob:none"    -> o[1] # "blob"
      [] f = "blob:limit=1" -> o[1] # "blob" \/ o[2] <= 1
      [] f = "tree:0"       -> o[1] \in {"commit", "tag"}

\* compute_shallow: the commits at most n steps from the wants, the last of them
\* that have parents, and the parents that are left out.
Lines(n) == {l \in [1..n -> FtCommits] : l[1] \in ask.wants /\ \A i \in 2..n : l[i] \in Parents(l[i - 1])}
Level(n) == {l[n] : l \in Lines(n)}
Within(n) == UNION {Level(k) : k \in 1..n}
Fringe(n) == Level(n) \ UNION {Level(k) : k \in 1..(n - 1)}
compute_shallow(n) ==
    [shallow |-> {c \in Fringe(n) : Parents(c) # {}},
     exclude |-> ParentsOf(Fringe(n)) \ Within(n)]

Everything == ObjectsOf(FtCommits) \cup {TagId}

\* A request that nothing refuses, and what an instance may know when a plain
\* clone comes.
OpenGate == [draining |-> FALSE, placed |-> TRUE, required |-> FALSE, tried |-> FALSE, fell |-> FALSE]
Gates == [draining : BOOLEAN, placed : BOOLEAN, required : BOOLEAN, tried : BOOLEAN, fell : BOOLEAN]

FetchStart(asks, clones) ==
    /\ \/ ask \in asks /\ gate = OpenGate
       \/ ask \in clones /\ gate \in Gates
    /\ ftPc = "gate"
    /\ ftLocal = Everything \ (IF ask.remote THEN ObjectsOf(FtBase) ELSE {})
    /\ ftWalk = {} /\ ftSet = {} /\ ftNeed = {} /\ ftPack = {}

FetchInit == FetchStart(FtAsks, FtClones)

-----------------------------------------------------------------------------
(* upload_pack                                                              *)
\* Neither haves nor a bound: the clone that bundles are for.
Unbounded == ask.client.commits \cup ask.client.extra = {} /\ ask.depth = 0 /\ ask.filter = "none"

\* bundle_fallback_allowed: the principal fetched the bundle list within the hour
\* and had no such clone within six.
FallbackAllowed == gate.tried /\ ~gate.fell

Refused ==
    \/ gate.draining \/ ~gate.placed
    \/ ask.v2 /\ (ask.many \/ (Unbounded /\ gate.required /\ ~FallbackAllowed))
    \/ ~ask.v2 /\ ((Unbounded /\ gate.required) \/ ask.remote)

RefuseFetch ==
    /\ ftPc = "gate" /\ Refused
    /\ ftPc' = "refused"
    /\ UNCHANGED <<ask, gate, ftLocal, ftWalk, ftSet, ftNeed, ftPack>>

\* run_fetch: the engine in process when packs are read from the bucket or the
\* configuration says so, git otherwise.
AdmitFetch ==
    /\ ftPc = "gate" /\ ~Refused
    /\ gate' = IF ask.v2 /\ Unbounded /\ gate.required THEN [gate EXCEPT !.fell = TRUE] ELSE gate
    /\ ftPc' = IF ask.v2 /\ (ask.remote \/ ask.engine = "gix") THEN "negotiate" ELSE "git"
    /\ UNCHANGED <<ask, ftLocal, ftWalk, ftSet, ftNeed, ftPack>>

-----------------------------------------------------------------------------
(* What the client must have in the end                                     *)
\* From the wants, parents of the client's shallow commits not followed unless
\* it deepens.
Followed(cs) ==
    LET cut == IF ask.depth = 0 THEN ask.client.shallow ELSE {}
        back[c \in FtCommits] == {c} \cup IF c \in cut THEN {} ELSE UNION {back[p] : p \in Parents(c)}
    IN IF cut = {} THEN History(cs) ELSE UNION {back[c] : c \in cs}
WantedCommits == ask.wants \cup (IF ask.tag THEN {FtTag} ELSE {})
DueCommits == IF ask.depth = 0 THEN Followed(WantedCommits) ELSE Within(ask.depth)
Due == {o \in ObjectsOf(DueCommits) \cup (IF ask.tag THEN {TagId} ELSE {}) : Keeps(ask.filter, o)}

\* git upload-pack: sends what is due and not there.
GitPack ==
    /\ ftPc = "git"
    /\ ftPack' = Due \ ObjectsOf(ask.client.commits)
    /\ ftPc' = "sent"
    /\ UNCHANGED <<ask, gate, ftLocal, ftWalk, ftSet, ftNeed>>

-----------------------------------------------------------------------------
(* upload_pack_gix_with                                                     *)
\* Haves that the server knows, from the copy or from the indexes.
CommonHaves == ask.client.commits

\* None of them known and the client not done: NAK, and the client asks again.
Nak ==
    /\ ftPc = "negotiate" /\ CommonHaves = {} /\ ask.client.extra # {} /\ ~ask.done
    /\ ask' = [ask EXCEPT !.done = TRUE]
    /\ UNCHANGED <<gate, ftPc, ftLocal, ftWalk, ftSet, ftNeed, ftPack>>

\* shallow-info is computed from the wants: a tag is no commit.
ShallowFails ==
    /\ ftPc = "negotiate" /\ ask.depth > 0 /\ ask.tag
    /\ ftPc' = "failed"
    /\ UNCHANGED <<ask, gate, ftLocal, ftWalk, ftSet, ftNeed, ftPack>>

WantIds == {CommitId(c) : c \in ask.wants} \cup (IF ask.tag THEN {TagId} ELSE {})

\* produce_pack: wants that are not local are read from the bucket first.
FaultWants ==
    /\ ftPc = "negotiate"
    /\ CommonHaves # {} \/ ask.client.extra = {} \/ ask.done
    /\ ~(ask.depth > 0 /\ ask.tag)
    /\ ftLocal' = ftLocal \cup WantIds
    /\ ftPc' = "enumerate"
    /\ UNCHANGED <<ask, gate, ftWalk, ftSet, ftNeed, ftPack>>

-----------------------------------------------------------------------------
(* enumerate, compute_object_set                                            *)
DiffMode == CommonHaves # {}
\* No haves and all objects local: the walk of compute_object_set.
Classic == ~DiffMode /\ ~ask.remote
Expands == ~DiffMode /\ ask.filter = "none" /\ ask.depth = 0

\* A have that is shallow on the client hides nothing.
HiddenCommits ==
    (CommonHaves \ ask.client.shallow)
        \cup (IF ask.depth = 0 THEN {} ELSE compute_shallow(ask.depth).exclude)

\* Mutant: the next round goes on with the set of the last.
FirstObjects_Kept == ftSet \cup IF ask.tag THEN {TagId, CommitId(FtTag)} ELSE {}
\* A wanted tag is entered with its target.
FirstObjects == IF ask.tag THEN {TagId, CommitId(FtTag)} ELSE {}

BeginEnumerate ==
    /\ ftPc = "enumerate"
    /\ LET found == ~ask.tag \/ CommitId(FtTag) \in ftLocal
           heads == ask.wants \cup (IF ask.tag /\ found THEN {FtTag} ELSE {})
       IN /\ ftSet' = FirstObjects
          /\ ftNeed' = IF found THEN {} ELSE {CommitId(FtTag)}
          /\ ftWalk' = History(heads) \ History(HiddenCommits)
    /\ ftPc' = "walk"
    /\ UNCHANGED <<ask, gate, ftLocal, ftPack>>

\* Unchanged relative to every parent.
Unchanged(entry, olds) == olds = {entry}

\* diff_tree_new_objects for the directory of a tree, then for the tree: what is
\* the same in every old tree is left out; what has to be compared must be local.
DiffDir(d, olds, set) ==
    LET away == {o \in olds : o \notin ftLocal}
        one == IF Unchanged(OneOf(d), {OneOf(o) : o \in olds}) THEN {} ELSE {OneOf(d)}
        other == IF Unchanged(OtherOf(d), {OtherOf(o) : o \in olds}) THEN {} ELSE {OtherOf(d)}
    IN IF d \in set THEN [set |-> set, need |-> {}]
       ELSE IF d \notin ftLocal THEN [set |-> set \cup {d}, need |-> {d}]
       ELSE IF away # {} THEN [set |-> set, need |-> away]
       ELSE [set |-> set \cup {d} \cup {b \in one \cup other : Keeps(ask.filter, b)}, need |-> {}]

DiffTree(t, olds, set) ==
    LET away == {o \in olds : o \notin ftLocal}
        file == IF Unchanged(FileOf(t), {FileOf(o) : o \in olds}) THEN {} ELSE {FileOf(t)}
        with == set \cup {t} \cup {b \in file : Keeps(ask.filter, b)}
    IN IF t \in set THEN [set |-> set, need |-> {}]
       ELSE IF t \notin ftLocal THEN [set |-> set \cup {t}, need |-> {t}]
       ELSE IF away # {} THEN [set |-> set, need |-> away]
       ELSE IF Unchanged(DirOf(t), {DirOf(o) : o \in olds}) THEN [set |-> with, need |-> {}]
       ELSE DiffDir(DirOf(t), {DirOf(o) : o \in olds}, with)

\* One commit of the walk.
WalkCommit ==
    /\ ftPc = "walk" /\ ftWalk # {}
    /\ LET c == CHOOSE x \in ftWalk : \A y \in ftWalk : y <= x
           away == {CommitId(p) : p \in Parents(c)} \ ftLocal
           diffs == DiffMode /\ Parents(c) # {}
           with == ftSet \cup {CommitId(c)}
           diff == DiffTree(TreeOf(c), IF diffs THEN {TreeOf(p) : p \in Parents(c)} ELSE {}, with)
       IN /\ ftWalk' = ftWalk \ {c}
          /\ \/ CommitId(c) \in ftSet /\ UNCHANGED <<ftSet, ftNeed>>
             \/ CommitId(c) \notin ftSet /\ Classic /\ Expands /\ ftSet' = with /\ UNCHANGED ftNeed
             \/ /\ CommitId(c) \notin ftSet /\ ~(Classic /\ Expands) /\ CommitId(c) \notin ftLocal
                /\ ftSet' = with /\ ftNeed' = ftNeed \cup {CommitId(c)}
             \/ /\ CommitId(c) \notin ftSet /\ ~(Classic /\ Expands) /\ CommitId(c) \in ftLocal
                /\ IF ask.filter = "tree:0" THEN ftSet' = with /\ UNCHANGED ftNeed
                   ELSE IF diffs /\ away # {} THEN UNCHANGED ftSet /\ ftNeed' = ftNeed \cup away
                   ELSE ftSet' = diff.set /\ ftNeed' = ftNeed \cup diff.need
    /\ UNCHANGED <<ask, gate, ftPc, ftLocal, ftPack>>

\* What is missing is read from the bucket and the enumeration starts over.
FaultMissing ==
    /\ ftPc = "walk" /\ ftWalk = {} /\ ftNeed # {}
    /\ \/ ask.remote /\ ftLocal' = ftLocal \cup ftNeed /\ ftPc' = "enumerate"
       \/ ftPc' = "failed" /\ UNCHANGED ftLocal
    /\ UNCHANGED <<ask, gate, ftWalk, ftSet, ftNeed, ftPack>>

\* The tag is included with its commit; what is in the set and not local is read;
\* a clone without filter or depth is expanded to the contents of its trees.
SendPack ==
    /\ ftPc = "walk" /\ ftWalk = {} /\ ftNeed = {}
    /\ LET set == ftSet \cup (IF CommitId(FtTag) \in ftSet THEN {TagId} ELSE {})
       IN /\ ftLocal' = ftLocal \cup set
          /\ ftPack' = set \cup (IF Expands THEN ObjectsOf({c \in FtCommits : CommitId(c) \in set}) ELSE {})
    /\ ftPc' = "sent"
    /\ UNCHANGED <<ask, gate, ftWalk, ftSet, ftNeed>>

FetchNext ==
    \/ RefuseFetch \/ AdmitFetch \/ GitPack \/ Nak \/ ShallowFails \/ FaultWants
    \/ BeginEnumerate \/ WalkCommit \/ FaultMissing \/ SendPack

-----------------------------------------------------------------------------
\* A shallow client, or one that deepens, with commits in common.
CutHistory == DiffMode /\ (ask.depth > 0 \/ ask.client.shallow # {})
\* A wanted tag when trees are not expanded.
TagAsIs == ask.tag /\ ~Expands

HasAll == Due \subseteq ftPack \cup ObjectsOf(ask.client.commits)

\* The commits a fetch walks, and a tree that two of them enter: the same tree
\* again after another, or the same as the parent's.
Walked == History(WantedCommits) \ History(HiddenCommits)
Enters(c, entry(_)) == Parents(c) = {} \/ \E p \in Parents(c) : entry(TreeOf(p)) # entry(TreeOf(c))
TreeReturns ==
    \E c, d \in Walked :
        /\ c # d
        /\ \/ TreeOf(c) = TreeOf(d)
           \/ DirOf(TreeOf(c)) = DirOf(TreeOf(d)) /\ Enters(c, DirOf) /\ Enters(d, DirOf)

\* A commit within the depth that a commit beyond it reaches as well.
DepthHides == ask.depth > 0 /\ Within(ask.depth) \cap History(compute_shallow(ask.depth).exclude) # {}

\* After a fetch the client has every object reachable from what it wanted
\* (upload_gix.rs:635-981): commits are diffed against their parents only, trees
\* are entered once, and the enumeration starts over whenever an object has to be
\* read from the bucket.  Left out are the four cases below.
FetchComplete ==
    ftPc = "sent" /\ ~CutHistory /\ ~TagAsIs /\ ~(DiffMode /\ TreeReturns) /\ ~DepthHides => HasAll

\* The same when a tree returns: the pack is exactly "objects reachable from `refs`
\* minus `prerequisites`", enumerated by tree diff (upload_gix.rs:206-207).
ReturnsComplete == ftPc = "sent" /\ ~CutHistory /\ ~TagAsIs /\ ~DepthHides => HasAll

\* The same for a wanted tag (upload_gix.rs:206-207).
TagComplete == ftPc = "sent" /\ ~CutHistory /\ ~(DiffMode /\ TreeReturns) /\ ~DepthHides => HasAll

\* The same for shallow clients: "Unchanged relative to every parent -> the client
\* has it" (upload_gix.rs:943).
CutComplete == ftPc = "sent" /\ ~TagAsIs /\ ~(DiffMode /\ TreeReturns) /\ ~DepthHides => HasAll

\* The same when a commit within the depth is also reached from beyond it: "A commit
\* reachable within the depth is never excluded" (lib.rs:3862).
DepthComplete == ftPc = "sent" /\ ~CutHistory /\ ~TagAsIs /\ ~(DiffMode /\ TreeReturns) => HasAll

FetchSpec == FetchInit /\ [][FetchNext]_fetchVars
=============================================================================
