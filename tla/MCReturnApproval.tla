-------------------------- MODULE MCReturnApproval --------------------------
(* Model values for the runs of ReturnApproval. *)
EXTENDS ReturnApproval, TLC

CONSTANTS a1, a2, a3, j1

TwoApprovals == {a1, a2}
ThreeApprovals == {a1, a2, a3}
OneRejection == {j1}
=============================================================================
