------------------------------ MODULE Bundles ------------------------------
(***************************************************************************)
(* Bundles (walgit-bundle): maintainers cut one bundle per calendar slot   *)
(* of a strategy from the refs as of the slot, keep the list in one object *)
(* by compare-and-swap, and prune what retention drops.  A lease per       *)
(* strategy keeps maintainers apart, but only for a while.                 *)
(*                                                                         *)
(* Time is a number of ticks, a strategy fires every so many.  A commit is *)
(* a number on a line; a force push starts another line.                   *)
(***************************************************************************)
EXTENDS Integers, Sequences, FiniteSets, FiniteSetsExt

CONSTANTS
    Strategies,    \* the strategies of the configuration, bases first
    Maintainers,   \* hosts that build
    Engines,       \* engines a host may build with: "git", "gix"
    MinCommits,    \* bundles.min_commits
    MaxNow,        \* bound: ticks of an undisturbed maintainer
    StepNow,       \* bound: ticks while maintainers interleave
    MaxLines,      \* bound: lines of history, 1 without force pushes
    MaxLate,       \* bound: entries that land a tick after they were made
    MaxWal,        \* bound: log entries of an undisturbed maintainer
    StepWal,       \* bound: log entries while maintainers interleave
    MaxLapses      \* bound: leases that run out while they are held, and crashes

ASSUME BundlesAssumption ==
    /\ {MinCommits, MaxNow, StepNow, StepWal, MaxLines, MaxLate, MaxWal, MaxLapses} \subseteq Nat
    /\ Strategies # <<>> /\ Strategies[1].every \in Nat \ {0}

VARIABLES
    btime,     \* now
    wal,       \* log entries: when made, and the tip they leave
    blist,     \* bundles/list.pb: entries and skipped slots
    bobjects,  \* bundle objects: key -> tip and prerequisite of the file
    blease,    \* strategy -> holder of its lease
    lapses,    \* leases that ran out
    maint      \* maintainer -> the unit it runs

bundleVars == <<btime, wal, blist, bobjects, blease, lapses, maint>>

NoTip == [line |-> 0, n |-> 0]
NoId == <<"", 0>>
SlotCloseGrace == 2     \* SLOT_CLOSE_GRACE: longer than an entry takes to land
IncrementalsKept == 2   \* INCREMENTALS_KEPT
NoUnit == [pc |-> "idle", s |-> "", slot |-> 0, baseNow |-> NoId, base |-> NoId, tips |-> NoTip, prereq |-> NoTip,
         old |-> {}, key |-> <<>>, prune |-> {}, verdicts |-> {}]

Names == {Strategies[i].name : i \in DOMAIN Strategies}
Strat(name) == LET i == CHOOSE k \in DOMAIN Strategies : Strategies[k].name = name IN Strategies[i]

BundlesInit ==
    /\ btime = Strategies[1].every /\ wal = <<[at |-> 0, late |-> FALSE, tip |-> [line |-> 1, n |-> 1]]>>
    /\ blist = [bundles |-> {}, skipped |-> {}] /\ bobjects = <<>>
    /\ blease = [s \in Names |-> "free"] /\ lapses = 0
    /\ maint = [h \in Maintainers |-> NoUnit]

Reach(c) == {[line |-> c.line, n |-> k] : k \in 1 .. c.n}
HeadTip == wal[Len(wal)].tip

\* refs_as_of: the log up to the first entry that was made later.
refs_as_of(slot) ==
    LET upto == {i \in DOMAIN wal : \A j \in 1 .. i : wal[j].at <= slot}
    IN  IF upto = {} THEN NoTip ELSE wal[Max(upto)].tip

count_commits(tip, base) == Cardinality(Reach(tip) \ Reach(base))

(***************************************************************************)
(* slots.rs: the calendar, the base of an incremental, the plan and what   *)
(* retention keeps.                                                        *)
(***************************************************************************)

slots_between(s, after, upto) == {t \in 1 .. upto : t > after /\ t % s.every = 0}

\* Mutant: no grace.
slot_closed_AtOnce(slot) == slot <= btime
slot_closed(slot) == slot + SlotCloseGrace <= btime

Id(b) == <<b.strategy, b.token>>
entries_of(bs, name) == {b \in bs : b.strategy = name}
Newest(bs) == CHOOSE b \in bs : \A c \in bs : c.token <= b.token
NewestOf(bs, name) == Newest(entries_of(bs, name))

\* The strategies from a base up to the full root.
chain_up(name) ==
    LET up[i \in 0 .. Len(Strategies)] ==
            IF i = 0 THEN <<name>>
            ELSE LET last == up[i - 1][Len(up[i - 1])]
                 IN  IF Strat(last).base = "" THEN up[i - 1] ELSE Append(up[i - 1], Strat(last).base)
    IN  up[Len(Strategies)]

\* base_for_slot_chain, for a slot: the nearest strategy up the chain that has one.
BaseUpChain(bs, name, slot) ==
    LET cs == chain_up(name)
        at(i) == {b \in entries_of(bs, cs[i]) : b.token <= slot}
        has == {i \in DOMAIN cs : at(i) # {}}
    IN  IF has = {} THEN {} ELSE {Newest(at(Min(has)))}

\* base_for_incremental: chained, the own newest bundle unless the base is newer.
base_for_incremental(bs, s, slot) ==
    LET base == BaseUpChain(bs, s.base, slot)
        own == {b \in entries_of(bs, s.name) : b.token < slot}
    IN  IF ~s.chain \/ own = {} THEN base
        ELSE IF \A b \in base : Newest(own).token >= b.token THEN {Newest(own)} ELSE base

\* The slots a strategy asks about.
SlotsWanted(bs, s) ==
    LET built == entries_of(bs, s.name)
        cs == IF s.base = "" THEN <<>> ELSE chain_up(s.base)
        has == {i \in DOMAIN cs : entries_of(bs, cs[i]) # {}}
        anchors == entries_of(bs, cs[Min(has)])
        anchor == Newest(anchors).token
        older == {b.token : b \in anchors} \ {anchor}
        from == IF s.chain \/ older = {} THEN anchor ELSE Max(older)
        window == IF s.chain THEN Strat(s.base).every \div s.every ELSE IncrementalsKept
        fires == slots_between(s, from, btime)
    IN  IF s.base = ""
        THEN IF built # {} THEN slots_between(s, Newest(built).token, btime)
             ELSE LET all == slots_between(s, 0, btime) IN IF all = {} THEN {} ELSE {Max(all)}
        ELSE IF has = {} THEN {}
        ELSE {t \in fires : Cardinality({u \in fires : u > t}) < window}

BaseId(bs, s, slot) ==
    IF s.base = "" THEN NoId
    ELSE LET b == base_for_incremental(bs, s, slot) IN IF b = {} THEN NoId ELSE Id(CHOOSE x \in b : TRUE)

\* plan_with: the slots that are work.
Missing(l, s) ==
    {t \in SlotsWanted(l.bundles, s) :
        /\ ~\E b \in entries_of(l.bundles, s.name) : b.token = t
        /\ ~\E k \in l.skipped : k.strategy = s.name /\ k.slot = t /\ k.base = BaseId(l.bundles, s, t)
        /\ s.base # "" => slot_closed(t) /\ BaseId(l.bundles, s, t) # NoId}

\* Kept of a full strategy: the newest.
KeptFulls(bs) ==
    {b \in bs : Strat(b.strategy).base = ""
        /\ Cardinality({c \in entries_of(bs, b.strategy) : c.token > b.token}) < Strat(b.strategy).keep}

\* The group of a bundle: the kept full before it, a full's own instant counting as before.
Group(b, tokens) ==
    LET below == Cardinality({u \in tokens : u < b.token})
    IN  IF b.base = NoId THEN below ELSE IF below = 0 THEN 0 ELSE below - 1

\* What a chained strategy has in a group after the newest kept bundle of its base.
LinksAfter(bs, s, g, kept, tokens) ==
    LET bases == {b.token : b \in {c \in kept : c.strategy = s.base /\ Group(c, tokens) = g}}
    IN  {b \in entries_of(bs, s.name) : Group(b, tokens) = g /\ b.token > Max({0} \cup bases)}

\* Mutant: only the newest link is kept.
Links_Newest(bs, s, g, kept, tokens) ==
    LET in == LinksAfter(bs, s, g, kept, tokens) IN IF in = {} THEN {} ELSE {Newest(in)}

\* Oldest first: a link whose base is kept, and the first one while the group has its full.
Links(bs, s, g, kept, tokens) ==
    LET in == LinksAfter(bs, s, g, kept, tokens)
        ts == {b.token : b \in in}
        up[t \in {0} \cup ts] ==
            IF t = 0 THEN {}
            ELSE LET before == up[Max({0} \cup {u \in ts : u < t})]
                     b == CHOOSE x \in in : x.token = t
                 IN  IF (t = Min(ts) /\ g < Cardinality(tokens)) \/ b.base \in {Id(c) : c \in kept \cup before}
                     THEN before \cup {b} ELSE before
    IN  up[Max({0} \cup ts)]

\* Of an unchained strategy in a group: the newest whose base is kept.
NewestOnKept(bs, s, g, kept, tokens) ==
    LET ok == {b \in entries_of(bs, s.name) : Group(b, tokens) = g /\ b.base \in {Id(c) : c \in kept}}
    IN  {b \in ok : Cardinality({c \in ok : c.token > b.token}) < IncrementalsKept}

\* retain: fulls, then the incrementals in the group of each kept full, bases first;
\* the list is filtered by what is kept.
retain(bs) ==
    LET fulls == KeptFulls(bs)
        tokens == {b.token : b \in fulls}
        kept[i \in 0 .. Len(Strategies)] ==
            IF i = 0 THEN fulls
            ELSE LET s == Strategies[i]
                 IN  kept[i - 1] \cup
                     (IF s.base = "" THEN {}
                      ELSE UNION {IF s.chain THEN Links(bs, s, g, kept[i - 1], tokens)
                                  ELSE NewestOnKept(bs, s, g, kept[i - 1], tokens) : g \in 0 .. Cardinality(tokens)})
    IN  bs \cap kept[Len(Strategies)]

Keys(bs) == {b.key : b \in bs}
Skip(l, s, slot, base) ==
    [l EXCEPT !.skipped = @ \cup {[strategy |-> s.name, slot |-> slot, base |-> base]}]

(***************************************************************************)
(* Pushes and time.                                                        *)
(***************************************************************************)

BTick(end) ==
    /\ btime < end
    /\ btime' = btime + 1
    /\ UNCHANGED <<lapses, wal, blist, bobjects, blease, maint>>

\* A push lands, made now or, on another host, a tick ago.
Land(at, force, most) ==
    /\ Len(wal) < most /\ at \in {btime, btime - 1} /\ at >= wal[Len(wal)].at
    /\ at < btime => Cardinality({i \in DOMAIN wal : wal[i].late}) < MaxLate
    /\ Cardinality({i \in DOMAIN wal : wal[i].at = at}) = 0
    /\ force => HeadTip.line < MaxLines
    /\ wal' = Append(wal, [at |-> at, late |-> at < btime,
                           tip |-> IF force THEN [line |-> HeadTip.line + 1, n |-> 1] ELSE [HeadTip EXCEPT !.n = @ + 1]])
    /\ UNCHANGED <<lapses, btime, blist, bobjects, blease, maint>>

(***************************************************************************)
(* build_slot_unit and build_slot.                                         *)
(***************************************************************************)

\* The maintenance loop picks a missing slot.
PickSlot(h, name, slot) ==
    /\ maint[h].pc = "idle"
    /\ maint' = [maint EXCEPT ![h] = [NoUnit EXCEPT !.pc = "lease", !.s = name, !.slot = slot]]
    /\ UNCHANGED <<lapses, btime, wal, blist, bobjects, blease>>

\* The lease runs out: the holder is not told.
LeaseLapses(name) ==
    /\ blease[name] # "free" /\ lapses < MaxLapses
    /\ blease' = [blease EXCEPT ![name] = "free"] /\ lapses' = lapses + 1
    /\ UNCHANGED <<btime, wal, blist, bobjects, maint>>

Released(h) == [blease EXCEPT ![maint[h].s] = IF @ = h THEN "free" ELSE @]
EndUnit(h) == maint' = [maint EXCEPT ![h] = NoUnit] /\ blease' = Released(h)

\* try_acquire_lease, then the list again: somebody may have built the slot.  The refs
\* as of the slot; without any, an incremental is not cut.
AcquireStrategy(h) ==
    /\ maint[h].pc = "lease" /\ blease[maint[h].s] = "free"
    /\ LET s == Strat(maint[h].s)
           baseNow == BaseId(blist.bundles, s, maint[h].slot)
           snap == refs_as_of(maint[h].slot)
       IN  \/ /\ \E b \in entries_of(blist.bundles, s.name) : b.token = maint[h].slot
              /\ EndUnit(h) /\ UNCHANGED blist
           \/ /\ ~\E b \in entries_of(blist.bundles, s.name) : b.token = maint[h].slot
              /\ IF snap = NoTip /\ s.base # ""
                 THEN /\ EndUnit(h)
                      /\ blist' = IF slot_closed(maint[h].slot) THEN Skip(blist, s, maint[h].slot, baseNow) ELSE blist
                 ELSE /\ maint' = [maint EXCEPT ![h].pc = "base", ![h].baseNow = baseNow,
                                          ![h].tips = IF snap = NoTip THEN HeadTip ELSE snap]
                      /\ blease' = [blease EXCEPT ![s.name] = h] /\ UNCHANGED blist
    /\ UNCHANGED <<lapses, btime, wal, bobjects>>

LeaseHeld(h) ==
    /\ maint[h].pc = "lease" /\ blease[maint[h].s] # "free"
    /\ maint' = [maint EXCEPT ![h] = NoUnit]
    /\ UNCHANGED <<lapses, btime, wal, blist, bobjects, blease>>

\* unchanged_since
unchanged_since(bs, s, base, slot, tips) ==
    LET prev == {b \in entries_of(bs, s.name) : b.base = base /\ b.token <= slot}
    IN  prev # {} /\ Newest(prev).tips = tips

\* Too few commits over the base, or the tips of the bundle before.
Settled(bs, s, slot, tips) ==
    LET base == BaseId(bs, s, slot)
        b == CHOOSE x \in bs : Id(x) = base
    IN  \/ unchanged_since(bs, s, base, slot, tips)
        \/ MinCommits > 0 /\ count_commits(tips, b.tips) < MinCommits

\* build_slot reads the list again for the base; too small or unchanged is recorded
\* when the slot is closed.
ChooseBase(h) ==
    /\ maint[h].pc = "base"
    /\ LET s == Strat(maint[h].s)
           base == BaseId(blist.bundles, s, maint[h].slot)
       IN  \/ /\ s.base = "" \/ (base # NoId /\ ~Settled(blist.bundles, s, maint[h].slot, maint[h].tips))
              /\ maint' = [maint EXCEPT ![h].pc = "upload", ![h].base = base,
                               ![h].prereq = IF s.base = "" THEN NoTip
                                             ELSE (CHOOSE x \in blist.bundles : Id(x) = base).tips]
              /\ UNCHANGED <<blist, blease>>
           \/ /\ s.base # "" /\ base # NoId /\ Settled(blist.bundles, s, maint[h].slot, maint[h].tips)
              /\ EndUnit(h)
              /\ blist' = IF slot_closed(maint[h].slot) THEN Skip(blist, s, maint[h].slot, maint[h].baseNow) ELSE blist
           \/ /\ s.base # "" /\ base = NoId
              /\ EndUnit(h) /\ UNCHANGED blist
    /\ UNCHANGED <<lapses, btime, wal, bobjects>>

\* create_bundle: stock git resolves the names in the local copy, gix takes the tips.
create_bundle(engine, m) ==
    LET tip == IF engine = "git" THEN HeadTip ELSE m.tips
    IN  [tip |-> tip, prereq |-> m.prereq, empty |-> Reach(tip) \ Reach(m.prereq) = {}]

\* The key of a bundle object, the second and the content: distinct unless both are the same.
UploadKey(h) == <<maint[h].s, maint[h].slot, btime, h>>

\* build_and_upload: the old list, then the object, created once under its content's key.
Upload(h, engine) ==
    /\ maint[h].pc = "upload"
    /\ LET file == create_bundle(engine, maint[h])
           key == UploadKey(h)
       IN  IF file.empty THEN EndUnit(h) /\ UNCHANGED bobjects
           ELSE /\ bobjects' = [k \in DOMAIN bobjects \cup {key} |-> IF k = key THEN file ELSE bobjects[k]]
                /\ maint' = [maint EXCEPT ![h].pc = "list", ![h].old = Keys(blist.bundles), ![h].key = key]
                /\ UNCHANGED blease
    /\ UNCHANGED <<lapses, btime, wal, blist>>

\* Mutant: whatever object the list read first does not name is swept.
ListCas_StalePrune(h) ==
    /\ maint[h].pc = "list"
    /\ LET m == maint[h]
           entry == [strategy |-> m.s, token |-> m.slot, base |-> m.base, tips |-> m.tips, key |-> m.key]
           new == retain({b \in blist.bundles : Id(b) # Id(entry)} \cup {entry})
       IN  /\ blist' = [blist EXCEPT !.bundles = new]
           /\ maint' = [maint EXCEPT ![h].pc = "prune", ![h].prune = DOMAIN bobjects \ (m.old \cup {m.key})]
    /\ UNCHANGED <<lapses, btime, wal, bobjects, blease>>

\* cas_update_list: whoever holds the slot is replaced, retention applied; pruned is what
\* was in the list that was read and is not in the one that was written.
ListCas(h) ==
    /\ maint[h].pc = "list"
    /\ LET m == maint[h]
           entry == [strategy |-> m.s, token |-> m.slot, base |-> m.base, tips |-> m.tips, key |-> m.key]
           new == retain({b \in blist.bundles : Id(b) # Id(entry)} \cup {entry})
       IN  /\ blist' = [blist EXCEPT !.bundles = new]
           /\ maint' = [maint EXCEPT ![h].pc = "prune", ![h].prune = m.old \ Keys(new)]
    /\ UNCHANGED <<lapses, btime, wal, bobjects, blease>>

\* delete_pruned: each delete may fail, and nobody tries again.
DeletePruned(h) ==
    /\ maint[h].pc = "prune"
    /\ \E gone \in {maint[h].prune, {}} :
          bobjects' = [k \in DOMAIN bobjects \ gone |-> bobjects[k]]
    /\ IF maint[h].s \in Names THEN EndUnit(h) ELSE maint' = [maint EXCEPT ![h] = NoUnit] /\ UNCHANGED blease
    /\ UNCHANGED <<lapses, btime, wal, blist>>

MaintainerCrash(h) ==
    /\ maint[h].pc # "idle" /\ lapses < MaxLapses
    /\ maint' = [maint EXCEPT ![h] = NoUnit] /\ lapses' = lapses + 1
    /\ UNCHANGED <<btime, wal, blist, bobjects, blease>>

(***************************************************************************)
(* apply_retention and settle_closed_slots, at the start of a pass.        *)
(***************************************************************************)

RetentionRead(h) ==
    /\ maint[h].pc = "idle" /\ retain(blist.bundles) # blist.bundles
    /\ maint' = [maint EXCEPT ![h] = [NoUnit EXCEPT !.pc = "retain", !.old = Keys(blist.bundles)]]
    /\ UNCHANGED <<lapses, btime, wal, blist, bobjects, blease>>

RetentionCas(h) ==
    /\ maint[h].pc = "retain"
    /\ LET new == retain(blist.bundles)
       IN  /\ blist' = [blist EXCEPT !.bundles = new]
           /\ maint' = [maint EXCEPT ![h].pc = "prune", ![h].prune = IF new = blist.bundles THEN {} ELSE maint[h].old \ Keys(new)]
    /\ UNCHANGED <<lapses, btime, wal, bobjects, blease>>

Verdicts ==
    {v \in UNION {{[strategy |-> s, slot |-> t, base |-> BaseId(blist.bundles, Strat(s), t)]
                      : t \in Missing(blist, Strat(s))} : s \in {n \in Names : Strat(n).base # ""}} :
        \/ refs_as_of(v.slot) = NoTip
        \/ Settled(blist.bundles, Strat(v.strategy), v.slot, refs_as_of(v.slot))}

SettleRead(h) ==
    /\ maint[h].pc = "idle" /\ Verdicts # {}
    /\ maint' = [maint EXCEPT ![h] = [NoUnit EXCEPT !.pc = "settle", !.verdicts = Verdicts]]
    /\ UNCHANGED <<lapses, btime, wal, blist, bobjects, blease>>

\* record_skipped_many
SettleRecord(h) ==
    /\ maint[h].pc = "settle"
    /\ blist' = [blist EXCEPT !.skipped = @ \cup maint[h].verdicts]
    /\ maint' = [maint EXCEPT ![h] = NoUnit]
    /\ UNCHANGED <<lapses, btime, wal, bobjects, blease>>

BundlesNext ==
    \/ BTick(StepNow)
    \/ \E at \in {btime - 1, btime}, force \in BOOLEAN : Land(at, force, StepWal)
    \/ \E s \in Names : LeaseLapses(s)
    \/ \E h \in Maintainers :
          \/ \E s \in Names : \E slot \in Missing(blist, Strat(s)) : PickSlot(h, s, slot)
          \/ AcquireStrategy(h) \/ LeaseHeld(h) \/ ChooseBase(h)
          \/ \E e \in Engines : Upload(h, e)
          \/ ListCas(h) \/ DeletePruned(h) \/ MaintainerCrash(h)
          \/ RetentionRead(h) \/ RetentionCas(h) \/ SettleRead(h) \/ SettleRecord(h)

(***************************************************************************)
(* One maintainer that nobody disturbs: a unit from its pick to its end,   *)
(* for a longer calendar than the steps allow.                             *)
(***************************************************************************)

QuietUnit(h, name, slot, engine) ==
    LET s == Strat(name)
        base == BaseId(blist.bundles, s, slot)
        snap == refs_as_of(slot)
        tips == IF snap = NoTip THEN HeadTip ELSE snap
        prereq == IF s.base = "" THEN NoTip ELSE (CHOOSE x \in blist.bundles : Id(x) = base).tips
        file == create_bundle(engine, [tips |-> tips, prereq |-> prereq])
        key == <<name, slot, btime, h>>
        new == retain(blist.bundles \cup {[strategy |-> name, token |-> slot, base |-> base, tips |-> tips, key |-> key]})
    IN  /\ maint[h].pc = "idle"
        /\ IF s.base # "" /\ (snap = NoTip \/ Settled(blist.bundles, s, slot, tips))
           THEN blist' = Skip(blist, s, slot, base) /\ UNCHANGED bobjects
           ELSE /\ ~file.empty
                /\ blist' = [blist EXCEPT !.bundles = new]
                /\ bobjects' = [k \in Keys(new) |-> IF k = key THEN file ELSE bobjects[k]]
        /\ UNCHANGED <<lapses, btime, wal, blease, maint>>

QuietNext ==
    \/ BTick(MaxNow)
    \/ \E at \in {btime - 1, btime}, force \in BOOLEAN : Land(at, force, MaxWal)
    \/ \E h \in Maintainers, s \in Names, e \in Engines :
          \E slot \in Missing(blist, Strat(s)) : QuietUnit(h, s, slot, e)

QuietSpec == BundlesInit /\ [][QuietNext]_bundleVars
BundlesSpec == BundlesInit /\ [][BundlesNext]_bundleVars

(***************************************************************************)
(* Properties.                                                             *)
(***************************************************************************)

\* delete_pruned after the list was written: whatever other maintainers list meanwhile,
\* a listed bundle's object is there.
ListedExist == Keys(blist.bundles) \subseteq DOMAIN bobjects

\* "Never an orphan": a clone that takes the newest full and every bundle after it, in
\* the order of the tokens, has the prerequisites of each.
CloneApplies ==
    LET bs == blist.bundles
        full == Newest({b \in bs : b.base = NoId})
        chain == {b \in bs : b.base # NoId /\ b.token > full.token}
        before(b) == {full} \cup {c \in chain : c.token < b.token \/ (c.token = b.token /\ Strat(c.strategy).every > Strat(b.strategy).every)}
    IN  bs # {} =>
        \A b \in chain : Reach(bobjects[b.key].prereq) \subseteq UNION {Reach(bobjects[c.key].tip) : c \in before(b)}

\* SkippedSlot: what the plan passes over as skipped is not work, measured over the base
\* that the slot has now.
SkipsHold ==
    \A k \in blist.skipped :
        LET s == Strat(k.strategy) IN
        k.base # NoId /\ (\E b \in blist.bundles : Id(b) = k.base) /\ k.base = BaseId(blist.bundles, s, k.slot)
            => \/ refs_as_of(k.slot) = NoTip
               \/ count_commits(refs_as_of(k.slot), (CHOOSE b \in blist.bundles : Id(b) = k.base).tips) < MinCommits
               \/ \E b \in entries_of(blist.bundles, s.name) : b.tips = refs_as_of(k.slot)

\* The tips of a listed incremental are the refs as of its slot, whenever it was cut and
\* however late pushes landed.
TipsAsOf == \A b \in blist.bundles : b.base # NoId => b.tips = refs_as_of(b.token)

\* What the list says of a bundle is so, whoever maintains the list meanwhile.
ListedSound == ListedExist /\ TipsAsOf

\* "exactly one bundle whose content is the ref state as of the slot time"
ContentAsOf == \A b \in blist.bundles : b.base # NoId => bobjects[b.key].tip = b.tips

\* "Dailies chain through the weekly": a client that has the tips of a daily walks the
\* listed dailies to the newest without a full.
CatchupCrosses ==
    \A b, c \in blist.bundles :
        b.base # NoId /\ b.strategy = c.strategy /\ Strat(b.strategy).chain /\ c.token > b.token
            => \E d \in blist.bundles : d.strategy = b.strategy /\ d.token > b.token /\ Reach(d.tips) # {}
                                        /\ bobjects[d.key].prereq \in Reach(b.tips)
============================================================================
