---------------------------- MODULE MCOrderSaga ----------------------------
(***************************************************************************)
(* OrderSaga for TLC.  Orders meet only in the expiry tick and in a crash  *)
(* of the orders process, so two of them are enough for every interaction. *)
(***************************************************************************)
EXTENDS OrderSaga, TLC

CONSTANTS o1, o2

OneOrder == {o1}
TwoOrders == {o1, o2}

=============================================================================
