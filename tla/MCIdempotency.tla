--------------------------- MODULE MCIdempotency ---------------------------
(* Model values for the runs of Idempotency. *)
EXTENDS Idempotency, TLC

CONSTANTS c1, c2, c3

TwoCallers == {c1, c2}
ThreeCallers == {c1, c2, c3}
=============================================================================
