-------------------------- MODULE MCPaymentCapture --------------------------
(* Model values for the runs of PaymentCapture. *)
EXTENDS PaymentCapture, TLC

CONSTANTS n1, n2, c1, c2, c3, v1

OneCreate == {n1}
TwoCreates == {n1, n2}
OneCapture == {c1}
TwoCaptures == {c1, c2}
ThreeCaptures == {c1, c2, c3}
OneVoid == {v1}
=============================================================================
