-------------------------- MODULE MCInventoryStock --------------------------
(***************************************************************************)
(* InventoryStock for TLC: two stock rows, one product in two warehouses   *)
(* or two products in one, and reservations that need both rows.           *)
(***************************************************************************)
EXTENDS InventoryStock, TLC

CONSTANTS r1, r2, r3, s1, s2, s3

TwoReservations == {r1, r2}
ThreeReservations == {r1, r2, r3}
TwoSessions == {s1, s2}
ThreeSessions == {s1, s2, s3}

\* One product: r1 has to be split over the two warehouses, r2 fits in one.
SplitWanted == [r \in TwoReservations |-> IF r = r1 THEN <<3>> ELSE <<1>>]
SplitStock == [x \in {1} \X {1, 2} |-> IF x[2] = 1 THEN 2 ELSE 1]
EvenStock == [x \in {1} \X {1, 2} |-> 2]

\* Three requests for a stock of two.
SingleWanted == [r \in ThreeReservations |-> <<1>>]
SingleStock == [x \in {1} \X {1} |-> 2]

\* Two products in one warehouse, both wanted by every reservation.
PairWanted == [r \in ThreeReservations |-> <<1, 1>>]
PairStock == [x \in {1, 2} \X {1} |-> 2]

SessionSymmetry == Permutations(TwoSessions)
Symmetry == Permutations(ThreeSessions) \cup Permutations(ThreeReservations)
Symmetry2 == Permutations(TwoSessions) \cup Permutations(ThreeReservations)
=============================================================================
