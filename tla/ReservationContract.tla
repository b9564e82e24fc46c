------------------------ MODULE ReservationContract ------------------------
(***************************************************************************)
(* What the inventory service promises about one reservation row, whatever *)
(* the callers, the expiry job and the row locks do: it is created         *)
(* pending, and ends either committed or released, once and for good.      *)
(* services/inventory/src/domain/reservationService.ts.                    *)
(***************************************************************************)
CONSTANT Reservations

VARIABLE reservation    \* stock_reservations.status, "none" before the row

ReservationStatus == {"none", "pending", "committed", "released"}

Init == reservation = [r \in Reservations |-> "none"]

Create(r) ==
    /\ reservation[r] = "none"
    /\ reservation' = [reservation EXCEPT ![r] = "pending"]

Commit(r) ==
    /\ reservation[r] = "pending"
    /\ reservation' = [reservation EXCEPT ![r] = "committed"]

Release(r) ==
    /\ reservation[r] = "pending"
    /\ reservation' = [reservation EXCEPT ![r] = "released"]

Next == \E r \in Reservations : Create(r) \/ Commit(r) \/ Release(r)

Spec == Init /\ [][Next]_reservation
=============================================================================
