------------------------------ MODULE MCCopies ------------------------------
(* What an instance keeps of the bucket: packs, handles, remote readers,    *)
(* adverts and the sizes it computes.  The parts share nothing, so each behaviour is a  *)
(* behaviour of one of them while the others rest.                          *)
EXTENDS PackCopy, RegistryLife, RemoteReader, Sizes, Adverts, TLC

CONSTANTS A, B, w1

VARIABLE part    \* the module whose behaviour this is

\* p1, p2 and p3 are the packs of pushes, c the compacted pack of the first two.
MCHolds == [p \in Packs |-> CASE p = "p1" -> {1} [] p = "p2" -> {2} [] p = "p3" -> {3} [] OTHER -> {1, 2}]
MCPlan == [p \in Packs |-> IF p = "c" THEN "Link" ELSE "Local"]

\* Three packs with deltas within a pack and across packs, at three revisions.
Whole(o) == [oid |-> o, kind |-> "base", base |-> "-"]
MCEntries == [p0 |-> (0 :> Whole("X") @@ 1 :> [oid |-> "Y", kind |-> "ref", base |-> "X"]),
              p1 |-> (0 :> Whole("Y") @@ 1 :> [oid |-> "X", kind |-> "ofs", base |-> 0]),
              p2 |-> (0 :> Whole("Z") @@ 1 :> [oid |-> "W", kind |-> "ref", base |-> "Y"])]
MCAt == <<{"p0"}, {"p0", "p2"}, {"p1", "p2"}>>

MCTouches == <<"a", "a">>

\* A and B are the requests of one part, the instances of another and the clients of a third.
Symmetry == Permutations({A, B})

Init ==
    /\ part \in {"packs", "registry", "reader", "sizes", "adverts"}
    /\ PackInit /\ RegInit /\ ReaderInit /\ SizesInit /\ AdvertsInit

Next ==
    /\ UNCHANGED part
    /\ \/ part = "packs"    /\ PackNext   /\ UNCHANGED <<regVars, readerVars, calc, advertVars>>
       \/ part = "registry" /\ RegNext    /\ UNCHANGED <<packVars, readerVars, calc, advertVars>>
       \/ part = "reader"   /\ ReaderNext /\ UNCHANGED <<packVars, regVars, calc, advertVars>>
       \/ part = "sizes"    /\ SizesNext  /\ UNCHANGED <<packVars, regVars, readerVars, advertVars>>
       \/ part = "adverts"  /\ AdvertsNext /\ UNCHANGED <<packVars, regVars, readerVars, calc>>

Spec == Init /\ [][Next]_<<part, packVars, regVars, readerVars, calc, advertVars>>
=============================================================================
