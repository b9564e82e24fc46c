------------------------ MODULE MCNotificationDelivery ------------------------
(* Model values for the runs of NotificationDelivery. *)
EXTENDS NotificationDelivery, TLC

CONSTANTS e1, e2, w1, w2

OneEndpoint == {e1}
TwoEndpoints == {e1, e2}
OneWorker == {w1}
TwoWorkers == {w1, w2}
=============================================================================
