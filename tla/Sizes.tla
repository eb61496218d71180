------------------------------- MODULE Sizes -------------------------------
(***************************************************************************)
(* Arithmetic of the local copy: ranges cut into blocks (remote.rs) and    *)
(* stripes (sync.rs), which packs are kept how (serve_plan) and which      *)
(* repositories leave the disk (evict_idle).  Each step picks an input and *)
(* computes one result; the properties compare it with its meaning.        *)
(***************************************************************************)
EXTENDS Integers, Sequences, FiniteSets, FiniteSetsExt

CONSTANTS
    BlockSize,   \* BLOCK_SIZE, and CHUNK of download_object
    MaxSize,     \* bound: bytes of an object
    MaxBudget    \* bound: bytes of a budget

ASSUME SizesAssumption == BlockSize \in Nat \ {0} /\ {MaxSize, MaxBudget} \subseteq Nat

VARIABLE calc    \* the last computation

NoCalc == [of |-> "none"]
SizesInit == calc = NoCalc
Least(a, b) == IF a < b THEN a ELSE b

(***************************************************************************)
(* Ranges.                                                                 *)
(***************************************************************************)

\* block n of an object of a size, each byte its own offset.
Block(n, size) ==
    LET start == n * BlockSize
        end == Least(start + BlockSize, size)
    IN  [i \in 1 .. (IF start >= end THEN 0 ELSE end - start) |-> start + i - 1]

\* Mutant: the first of several blocks is not trimmed.
Part_Untrimmed(n, off, end, size) ==
    SubSeq(Block(n, size), 1, Least(end - n * BlockSize, Len(Block(n, size))))

\* The part of block n that a range needs.
Part(n, off, end, size) ==
    SubSeq(Block(n, size), (IF off > n * BlockSize THEN off - n * BlockSize ELSE 0) + 1,
                           Least(end - n * BlockSize, Len(Block(n, size))))

\* read_at: the blocks from the first to the last that the range touches.
read_at(off, len, size) ==
    LET end == Least(off + len, size)
        first == off \div BlockSize
        last == (end - 1) \div BlockSize
        all[n \in first .. last] ==
            IF n = first THEN Part(n, off, end, size) ELSE all[n - 1] \o Part(n, off, end, size)
    IN  IF off >= end THEN <<>> ELSE all[last]

\* Mutant: the number of stripes is rounded down.
Stripes_Floor(size) == {i * BlockSize : i \in 0 .. size \div BlockSize - 1}

\* download_object: the starts of the stripes of an object.
Stripes(size) == {i * BlockSize : i \in 0 .. (size + BlockSize - 1) \div BlockSize - 1}

\* The file when every stripe has been written at its start, in whatever order.
download_object(size) ==
    IF size <= BlockSize THEN 0 .. size - 1
    ELSE UNION {start .. Least(start + BlockSize, size) - 1 : start \in Stripes(size)}

(***************************************************************************)
(* Packs: pack and index bytes, tier, and whether it is a history pack.    *)
(***************************************************************************)

PackShapes == [pack : {1, 3}, idx : {1}, tier : {0, 2}, history : BOOLEAN]
SizeHosts == [max : 0 .. MaxBudget, cap : {0, 2}, mount : {"none", "empty", "full"}, remote : BOOLEAN]

tmpfs_bytes(p, how) == CASE how = "Local" -> p.pack + p.idx [] how = "Link" -> p.idx [] OTHER -> 0

\* Mutant: history packs are served remotely like their base.
serve_plan_History(packs, h, level) ==
    LET full == MapThenSumSet(LAMBDA i : packs[i].pack + packs[i].idx, DOMAIN packs)
        kept(p) == IF h.remote THEN "Remote" ELSE "Local"
    IN  [i \in DOMAIN packs |->
            IF level # "Serve" \/ h.max = 0 \/ full <= h.max THEN "Local"
            ELSE IF packs[i].tier # 2 THEN "Local"
            ELSE IF h.mount = "full" THEN "Link" ELSE kept(packs[i])]

\* serve_plan: everything local when it fits; else bases are linked from the mount, or
\* read remotely, and what is newer stays local.
serve_plan(packs, h, level) ==
    LET full == MapThenSumSet(LAMBDA i : packs[i].pack + packs[i].idx, DOMAIN packs)
    IN  [i \in DOMAIN packs |->
            IF level # "Serve" \/ h.max = 0 \/ full <= h.max THEN "Local"
            ELSE IF packs[i].tier # 2 \/ packs[i].history THEN "Local"
            ELSE IF h.mount = "full" THEN "Link"
            ELSE IF h.remote THEN "Remote" ELSE "Local"]

Bytes(packs, h, level) ==
    MapThenSumSet(LAMBDA i : tmpfs_bytes(packs[i], serve_plan(packs, h, level)[i]), DOMAIN packs)

check_fits(packs, h, level) == h.max = 0 \/ Bytes(packs, h, level) <= h.max

\* sync_objects: how a request gets at objects.
sync_objects(packs, h) ==
    IF ~h.remote \/ check_fits(packs, h, "Full")
    THEN IF check_fits(packs, h, "Serve") THEN "Local" ELSE "TooLarge"
    ELSE "Remote"

\* prefetch_wanted, for a host that is to serve the repository.
prefetch_wanted(packs, h) ==
    /\ check_fits(packs, h, "Serve")
    /\ h.cap = 0 \/ Bytes(packs, h, "Serve") <= h.cap

(***************************************************************************)
(* evict_idle: repositories in the order of their last access.             *)
(***************************************************************************)

EvictRepos == [1 .. 3 -> [size : {1, 2}, idle : BOOLEAN, busy : BOOLEAN]]
IdleRepos(rs) == {i \in DOMAIN rs : rs[i].idle}
Total(rs, s) == MapThenSumSet(LAMBDA i : rs[i].size, s)

\* Mutant: the repository that was used last goes first.
Victims_Newest(rs, max) ==
    {i \in IdleRepos(rs) : ~rs[i].busy
        /\ Total(rs, IdleRepos(rs)) - Total(rs, {j \in IdleRepos(rs) : j > i /\ ~rs[j].busy}) > max}

\* The oldest first, while the idle ones take more than their share; one that is in
\* use is passed over.
Victims(rs, max) ==
    {i \in IdleRepos(rs) : ~rs[i].busy
        /\ Total(rs, IdleRepos(rs)) - Total(rs, {j \in IdleRepos(rs) : j < i /\ ~rs[j].busy}) > max}

\* Disk mode: the share that is left when the disk goes down to the low mark.
DiskShare(rs, over) ==
    LET all == Total(rs, DOMAIN rs) IN IF all > over THEN all - over ELSE 0

CalcRead(off, len, size) ==
    calc' = [of |-> "read", off |-> off, len |-> len, size |-> size, got |-> read_at(off, len, size)]
CalcDownload(size) == calc' = [of |-> "download", size |-> size, got |-> download_object(size)]
CalcServe(packs, h) ==
    calc' = [of |-> "serve", packs |-> packs, host |-> h, plan |-> serve_plan(packs, h, "Serve"),
             access |-> sync_objects(packs, h), prefetch |-> prefetch_wanted(packs, h)]
CalcEvict(rs, max) == calc' = [of |-> "evict", repos |-> rs, max |-> max, got |-> Victims(rs, max), over |-> 0]
CalcEvictDisk(rs, over) ==
    calc' = [of |-> "evict", repos |-> rs, max |-> DiskShare(rs, over), got |-> Victims(rs, DiskShare(rs, over)), over |-> over]

SizesNext ==
    /\ calc = NoCalc
    /\ \/ \E off, len \in 0 .. MaxSize + 1, size \in 0 .. MaxSize : CalcRead(off, len, size)
       \/ \E size \in 0 .. MaxSize : CalcDownload(size)
       \/ \E p, q \in PackShapes, h \in SizeHosts : CalcServe(<<p, q>>, h)
       \/ \E rs \in EvictRepos, max \in 0 .. MaxBudget : CalcEvict(rs, max) \/ (max > 0 /\ CalcEvictDisk(rs, max))

(***************************************************************************)
(* Properties.                                                             *)
(***************************************************************************)

\* read_at, block and download_object: the bytes that were asked for, no more and no
\* fewer, at every block boundary and at the end.
RangesExact ==
    /\ calc.of = "read" =>
           calc.got = [i \in 1 .. (IF calc.off >= calc.size THEN 0 ELSE Least(calc.len, calc.size - calc.off))
                          |-> calc.off + i - 1]
    /\ calc.of = "download" => calc.got = 0 .. calc.size - 1

\* "everything newer than the base fits": a pack that is not a base, and the history of
\* one, is never left in the bucket; a request without local objects reads remotely or
\* is refused, and never because a copy is too large that was not wanted.
NewerStaysLocal ==
    calc.of = "serve" =>
        /\ \A i \in DOMAIN calc.packs :
              calc.packs[i].tier # 2 \/ calc.packs[i].history => calc.plan[i] = "Local"
        /\ calc.access = "TooLarge" => ~calc.host.remote /\ ~calc.prefetch

\* evict_idle: only idle repositories that nobody uses leave, the oldest first, and none
\* that need not.
EvictsOldest ==
    calc.of = "evict" =>
        /\ calc.got \subseteq {i \in IdleRepos(calc.repos) : ~calc.repos[i].busy}
        /\ \A i \in calc.got : \A j \in IdleRepos(calc.repos) : j < i /\ ~calc.repos[j].busy => j \in calc.got
        /\ calc.got # {} => Total(calc.repos, IdleRepos(calc.repos) \ (calc.got \ {Max(calc.got)})) > calc.max

\* "down to the low mark": under disk pressure the idle repositories leave until as much
\* is freed as the disk is over, or none is left.
DiskRelieved ==
    calc.of = "evict" =>
        \/ Total(calc.repos, calc.got) >= calc.over
        \/ calc.got = {i \in IdleRepos(calc.repos) : ~calc.repos[i].busy}

\* Ranges, serve plans and evictions mean what they say at every boundary.
SizesExact == RangesExact /\ NewerStaysLocal /\ EvictsOldest
============================================================================
