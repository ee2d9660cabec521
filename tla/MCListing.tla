----------------------------- MODULE MCListing -----------------------------
(***************************************************************************)
(* Listing for TLC: three appointments of one customer and one of another, *)
(* in pages of one or two, some of them at one time.                       *)
(***************************************************************************)
EXTENDS Listing, TLC

CONSTANTS ann, bob, bay1, sam, a1, a2, a3, b1

MCBookedBy == [a \in Ids |-> IF a = b1 THEN bob ELSE ann]

Assigned(b, t, from) ==
    [bay |-> b, tech |-> t, from |-> from, to |-> from + 30]

(* Two appointments start together when one of them has been cancelled.    *)
MCRows == {Assigned(bay1, sam, from) : from \in {600, 660, 720}}

Wish(status, limit, until) ==
    [customer |-> ann, status |-> status, limit |-> limit, until |-> until]

MCWishes == {Wish(AnyStatus, 1, "short"), Wish(AnyStatus, 2, "short"),
             Wish(AnyStatus, 2, "total"), Wish("CONFIRMED", 1, "total"),
             Wish("CANCELLED", 2, "short")}

AnnsSymmetry == Permutations({a1, a2, a3})
=============================================================================
