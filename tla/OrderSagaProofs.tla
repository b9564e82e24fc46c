-------------------------- MODULE OrderSagaProofs --------------------------
(***************************************************************************)
(* Proofs about OrderSaga, for every set of orders and every set of        *)
(* faults.  SoldIsCommittedAndCharged is not inductive: a saga is only     *)
(* right to confirm because of what the answers it has read say about the  *)
(* reservation and the PSP, so the invariant IInv ties every answer, every *)
(* request in flight and every step of the saga to those two.              *)
(***************************************************************************)
EXTENDS OrderSaga, TLAPS

\* A request of a saga is the one its pc waits for.
PlaceCalls == \A c \in calls : c.by = "place" => saga[c.order] = c.op

\* A cancellation never gets beyond asking for the release: the order is
\* confirmed, so its reservation is committed and the release is refused.
CancelCalls ==
    \A c \in calls : c.by = "cancel" =>
        c.op = "release" /\ cancel[c.order] = "release" /\ reply[c.order].cancel = "none"

CancelGetsNothing ==
    \A o \in Orders :
        /\ cancel[o] # "void" /\ reply[o].cancel # "ok" /\ status[o] # "cancelled"
        /\ cancel[o] = "idle" => reply[o].cancel = "none"

\* Only captures pass the PSP, and "charged" and "succeeded" mean a charge.
ChargesCounted ==
    /\ \A c \in calls : c.phase # "sent" => c.op = "capture"
    /\ \A c \in calls : c.phase = "charged" => c.order \in charged
    /\ \A o \in Orders : intent[o] = "succeeded" => o \in charged

\* What a saga may conclude from its pc and the answer it is about to read.
SagaKnows ==
    \A o \in Orders :
        /\ saga[o] = "capture" /\ reply[o].place = "ok" => o \in charged
        /\ saga[o] \in {"commit", "markConfirmed"} => o \in charged
        /\ saga[o] = "commit" /\ reply[o].place = "ok" => reservation[o] = "committed"
        /\ saga[o] = "markConfirmed" => reservation[o] = "committed"

IInv ==
    /\ TypeOK
    /\ PlaceCalls
    /\ CancelCalls
    /\ CancelGetsNothing
    /\ ChargesCounted
    /\ SagaKnows
    /\ SoldIsCommittedAndCharged
    /\ CancelSeesConfirmed

-----------------------------------------------------------------------------
(* Requests *)

\* Giving up on calls only renames their caller to "gone".
LEMMA AbandonedCalls ==
    ASSUME NEW o, NEW by, NEW c \in Abandoned(o, by), calls \subseteq Call
    PROVE  \E d \in calls :
               /\ c \in Call
               /\ c.op = d.op /\ c.order = d.order /\ c.phase = d.phase
               /\ c.by # "gone" => c = d /\ ~(d.order = o /\ d.by = by)
<1>1. PICK d \in calls : c = IF d.order = o /\ d.by = by THEN [d EXCEPT !.by = "gone"] ELSE d
  BY DEF Abandoned
<1>2. d \in Call
  BY <1>1
<1>3. CASE d.order = o /\ d.by = by
  <2>1. c = [d EXCEPT !.by = "gone"]
    BY <1>1, <1>3
  <2>2. c \in Call /\ c.op = d.op /\ c.order = d.order /\ c.phase = d.phase /\ c.by = "gone"
    BY <1>2, <2>1 DEF Call
  <2>3. QED
    BY <2>2
<1>4. CASE ~(d.order = o /\ d.by = by)
  BY <1>1, <1>2, <1>4
<1>5. QED
  BY <1>3, <1>4

\* A caller that goes on leaves a well-formed set of requests.
LEMMA RequestType ==
    ASSUME NEW o \in Orders, NEW by \in {"place", "cancel", "client"}, NEW pc
    PROVE  RequestAt(pc, o, by) \subseteq Call
BY DEF RequestAt, Request, Call, Callers

LEMMA SagaGoesType ==
    ASSUME TypeOK, NEW o \in Orders, NEW pc \in SagaPc, SagaGoes(o, pc)
    PROVE  /\ saga' \in [Orders -> SagaPc]
           /\ calls' \subseteq Call
           /\ reply' \in [Orders -> [Callers -> Reply]]
<1>1. saga' \in [Orders -> SagaPc]
  BY DEF SagaGoes, TypeOK
<1>2. Abandoned(o, "place") \subseteq Call
  BY AbandonedCalls DEF TypeOK
<1>3. calls' \subseteq Call
  BY <1>2, RequestType DEF SagaGoes
<1>4. reply' \in [Orders -> [Callers -> Reply]]
  BY DEF SagaGoes, TypeOK, Reply
<1>5. QED
  BY <1>1, <1>3, <1>4

LEMMA AnswerType ==
    ASSUME TypeOK, NEW c \in calls, NEW r \in Reply, Answered(c, r)
    PROVE  /\ calls' \subseteq Call
           /\ reply' \in [Orders -> [Callers -> Reply]]
<1>0. \E a \in {r, "refused"} : Answer(c, a)
  BY DEF Answered
<1>1. c \in Call
  BY DEF TypeOK
<1>2. calls' \subseteq Call
  BY <1>0 DEF Answer, TypeOK
<1>3. c.order \in Orders
  BY <1>1 DEF Call
<1>4. reply' \in [Orders -> [Callers -> Reply]]
  BY <1>0, <1>3 DEF Answer, TypeOK, Reply
<1>5. QED
  BY <1>2, <1>4

LEMMA AfterThrowType == \A o : AfterThrow(o) \in SagaPc
BY DEF AfterThrow, SagaPc, RemoteOps, LocalSteps

LEMMA UpdateStatusType ==
    ASSUME TypeOK, NEW o \in Orders, NEW from, NEW to \in OrderStatus,
           NEW pc \in SagaPc, UpdateStatus(o, from, to, pc)
    PROVE  /\ status' \in [Orders -> OrderStatus]
           /\ saga' \in [Orders -> SagaPc]
           /\ calls' \subseteq Call
           /\ reply' \in [Orders -> [Callers -> Reply]]
<1>1. status' \in [Orders -> OrderStatus]
  BY DEF UpdateStatus, TypeOK
<1>2. \E next \in SagaPc : SagaGoes(o, next)
  BY AfterThrowType DEF UpdateStatus
<1>3. QED
  BY <1>1, <1>2, SagaGoesType

-----------------------------------------------------------------------------
(* Type correctness *)

LEMMA InitType == Init => TypeOK
BY DEF Init, TypeOK, OrderStatus, ShipmentStatus, SagaPc, CancelPc, Reply, ReservationStatus, IntentStatus

LEMMA NextType ==
    ASSUME TypeOK, [Next]_vars
    PROVE  TypeOK'
<1> USE DEF rowVars, sagaVars, expiryVars, resVars, payVars
<1> DEFINE Pcs == {"opened", "createReservation", "createIntent", "capture", "commit", "release",
                   "void", "markReserved", "attachIntent", "markConfirmed", "markFailed",
                   "done"}
<1>pcs. Pcs \subseteq SagaPc
  BY DEF SagaPc, RemoteOps, LocalSteps
<1>1. ASSUME NEW o \in Orders, PlaceOrder(o)
      PROVE  TypeOK'
  BY <1>1, <1>pcs, SagaGoesType DEF PlaceOrder, TypeOK, OrderStatus
<1>2. ASSUME NEW o \in Orders, SagaStep(o)
      PROVE  TypeOK'
  <2>1. CASE ReservationCreated(o)
    BY <2>1, <1>pcs, SagaGoesType DEF ReservationCreated, TypeOK, Ids
  <2>2. CASE IntentCreated(o)
    BY <2>2, <1>pcs, SagaGoesType DEF IntentCreated, TypeOK, Ids
  <2>3. CASE Captured(o)
    BY <2>3, <1>pcs, SagaGoesType DEF Captured, TypeOK
  <2>4. CASE Committed(o)
    BY <2>4, <1>pcs, SagaGoesType DEF Committed, TypeOK
  <2>5. CASE Released(o)
    BY <2>5, <1>pcs, SagaGoesType DEF Released, TypeOK
  <2>6. CASE Voided(o)
    BY <2>6, <1>pcs, SagaGoesType DEF Voided, TypeOK
  <2>7. CASE CallRefused(o)
    BY <2>7, AfterThrowType, SagaGoesType DEF CallRefused, TypeOK, RemoteOps
  <2>8. CASE CallTimesOut(o)
    BY <2>8, AfterThrowType, SagaGoesType DEF CallTimesOut, TypeOK, RemoteOps
  <2>9. CASE MarkReserved(o)
    <3>1. UpdateStatus(o, {"pending"}, "reserved", "createIntent")
      BY <2>9 DEF MarkReserved
    <3>2. rowIds' \in [Orders -> SUBSET Ids]
      BY <2>9 DEF MarkReserved, TypeOK, Ids
    <3>3. QED
      BY <3>1, <3>2, <1>pcs, UpdateStatusType DEF UpdateStatus, TypeOK, OrderStatus
  <2>10. CASE AttachPaymentIntent(o)
    <3>1. UpdateStatus(o, {"reserved"}, "reserved", "capture")
      BY <2>10 DEF AttachPaymentIntent
    <3>2. rowIds' \in [Orders -> SUBSET Ids]
      BY <2>10 DEF AttachPaymentIntent, TypeOK, Ids
    <3>3. QED
      BY <3>1, <3>2, <1>pcs, UpdateStatusType DEF UpdateStatus, TypeOK, OrderStatus
  <2>11. CASE MarkConfirmed(o)
    <3>1. UpdateStatus(o, {"reserved"}, "confirmed", "done") /\ rowIds' = rowIds
      BY <2>11 DEF MarkConfirmed
    <3>2. QED
      BY <3>1, <1>pcs, UpdateStatusType DEF UpdateStatus, TypeOK, OrderStatus
  <2>12. CASE MarkFailed(o)
    <3>1. UpdateStatus(o, {"pending", "reserved"}, "failed", "done") /\ rowIds' = rowIds
      BY <2>12 DEF MarkFailed
    <3>2. QED
      BY <3>1, <1>pcs, UpdateStatusType DEF UpdateStatus, TypeOK, OrderStatus
  <2>13. CASE StatementFails(o)
    BY <2>13, AfterThrowType, SagaGoesType DEF StatementFails, TypeOK
  <2>14. CASE OrderOpened(o)
    BY <2>14, <1>pcs, SagaGoesType DEF OrderOpened, TypeOK
  <2>15. QED
    BY <1>2, <2>1, <2>2, <2>3, <2>4, <2>5, <2>6, <2>7, <2>8, <2>9, <2>10, <2>11, <2>12,
       <2>13, <2>14 DEF SagaStep
<1>3. ASSUME NEW o \in Orders, CancelStart(o)
      PROVE  TypeOK'
  <2>1. Request("release", o, "cancel") \in Call
    BY DEF Request, Call, RemoteOps, Callers
  <2>2. QED
    BY <1>3, <2>1 DEF CancelStart, TypeOK, CancelPc
<1>4. ASSUME NEW o \in Orders, CancelReply(o)
      PROVE  TypeOK'
  <2>1. Request("void", o, "cancel") \in Call
    BY DEF Request, Call, RemoteOps, Callers
  <2>2. QED
    BY <1>4, <2>1 DEF CancelReply, TypeOK, CancelPc, OrderStatus, Reply
<1>5. ASSUME NEW o \in Orders, CancelTimesOut(o)
      PROVE  TypeOK'
  <2>1. Abandoned(o, "cancel") \subseteq Call
    BY AbandonedCalls DEF TypeOK
  <2>2. QED
    BY <1>5, <2>1 DEF CancelTimesOut, CancelEnds, TypeOK, CancelPc, Reply
<1>6. ASSUME NEW o \in Orders, ShipOrder(o)
      PROVE  TypeOK'
  BY <1>6 DEF ShipOrder, TypeOK, OrderStatus, ShipmentStatus, Moving
<1>7. ASSUME NEW o \in Orders, ReservationExpires(o)
      PROVE  TypeOK'
  BY <1>7 DEF ReservationExpires, TypeOK
<1>8. ASSUME NEW o \in Orders, ExpireReservation(o)
      PROVE  TypeOK'
  BY <1>8 DEF ExpireReservation, TypeOK, ReservationStatus
<1>9. ASSUME NEW o \in Orders, NEW op \in {"commit", "release", "capture", "void"},
             ClientCall(o, op)
      PROVE  TypeOK'
  <2>1. Request(op, o, "client") \in Call
    BY DEF Request, Call, RemoteOps
  <2>2. QED
    BY <1>9, <2>1 DEF ClientCall, TypeOK
<1>10. ASSUME NEW c \in calls, ServiceStep(c)
       PROVE  TypeOK'
  <2> DEFINE o == c.order
  <2>0. c \in Call /\ o \in Orders
    BY DEF TypeOK, Call
  <2>r. "ok" \in Reply /\ "refused" \in Reply
    BY DEF Reply
  <2>a. \A a : Answer(c, a) => Answered(c, a)
    BY DEF Answered
  <2>1. CASE CreateReservation(c)
    <3>1. \/ UNCHANGED <<reservation, earlier>>
          \/ /\ reservation' = [reservation EXCEPT ![o] = "pending"]
             /\ earlier' = [earlier EXCEPT ![o] = {p \in Orders : reservation[p] # "none"}]
      BY <2>1 DEF CreateReservation
    <3>2. {p \in Orders : reservation[p] # "none"} \in SUBSET Orders
      OBVIOUS
    <3>3. earlier' \in [Orders -> SUBSET Orders]
      BY <3>1, <3>2 DEF TypeOK
    <3>4. reservation' \in [Orders -> ReservationStatus]
      BY <3>1, <2>0 DEF TypeOK, ReservationStatus
    <3>5. QED
      BY <2>1, <2>r, <2>a, <3>3, <3>4, AnswerType DEF CreateReservation, TypeOK
  <2>2. CASE CommitReservation(c)
    BY <2>2, <2>0, <2>r, <2>a, AnswerType DEF CommitReservation, TypeOK, ReservationStatus
  <2>3. CASE ReleaseReservation(c)
    BY <2>3, <2>0, <2>r, <2>a, AnswerType DEF ReleaseReservation, TypeOK, ReservationStatus
  <2>4. CASE CreateIntent(c)
    BY <2>4, <2>0, <2>r, <2>a, AnswerType DEF CreateIntent, TypeOK, IntentStatus
  <2>5. CASE CaptureAtPsp(c)
    <3>1. \A p \in {"charged", "declined"} : [c EXCEPT !.phase = p] \in Call
      BY <2>0 DEF Call
    <3>2. calls' \subseteq Call
      BY <2>5, <3>1 DEF CaptureAtPsp, TypeOK
    <3>3. charged' \subseteq Orders
      BY <2>5, <2>0 DEF CaptureAtPsp, TypeOK
    <3>4. QED
      BY <2>5, <3>2, <3>3 DEF CaptureAtPsp, TypeOK
  <2>6. CASE CaptureWithoutPsp(c)
    BY <2>6, <2>0, <2>r, <2>a, AnswerType DEF CaptureWithoutPsp, TypeOK
  <2>7. CASE CaptureSettles(c)
    BY <2>7, <2>0, <2>r, <2>a, AnswerType DEF CaptureSettles, TypeOK, IntentStatus
  <2>8. CASE VoidIntent(c)
    BY <2>8, <2>0, <2>r, <2>a, AnswerType DEF VoidIntent, TypeOK, IntentStatus
  <2>9. CASE FailsInside(c)
    BY <2>9, <2>0, <2>r, <2>a, AnswerType DEF FailsInside, TypeOK
  <2>10. QED
    BY <1>10, <2>1, <2>2, <2>3, <2>4, <2>5, <2>6, <2>7, <2>8, <2>9 DEF ServiceStep
<1>11. ASSUME NEW c \in calls, RequestLost(c)
       PROVE  TypeOK'
  BY <1>11 DEF RequestLost, TypeOK
<1>12. ASSUME ExpiryTick
       PROVE  TypeOK'
  BY <1>12 DEF ExpiryTick, TypeOK
<1>13. ASSUME OrdersCrash
       PROVE  TypeOK'
  <2>1. \A c \in calls : [c EXCEPT !.by = "gone"] \in Call
    BY DEF TypeOK, Call
  <2>2. calls' \subseteq Call
    BY <1>13, <2>1 DEF OrdersCrash, TypeOK
  <2>3. QED
    BY <1>13, <2>2 DEF OrdersCrash, TypeOK, SagaPc, CancelPc, Reply
<1>14. ASSUME NEW o \in Orders, ListShipment(o)
       PROVE  TypeOK'
  BY <1>14 DEF ListShipment, TypeOK, otherVars
<1>15. ASSUME NEW s \in listed, AdvanceShipment(s)
       PROVE  TypeOK'
  <2>1. shipment' \in [Orders -> ShipmentStatus]
    BY <1>15 DEF AdvanceShipment, NextShipmentStatus, TypeOK, ShipmentStatus, Moving
  <2>2. QED
    BY <1>15, <2>1 DEF AdvanceShipment, TypeOK, otherVars
<1>16. ASSUME NEW o \in Orders, StockRowChanges(o)
       PROVE  TypeOK'
  BY <1>16 DEF StockRowChanges, TypeOK
<1>17. ASSUME TickFails
       PROVE  TypeOK'
  BY <1>17 DEF TickFails, TypeOK
<1>18. CASE UNCHANGED vars
  BY <1>18 DEF vars, TypeOK
<1>19. QED
  BY <1>1, <1>2, <1>3, <1>4, <1>5, <1>6, <1>7, <1>8, <1>9, <1>10, <1>11, <1>12, <1>13,
     <1>14, <1>15, <1>16, <1>17, <1>18 DEF Next, CancelStep

\* The variables keep their types, for any orders and any faults.
THEOREM TypeCorrect == Spec => []TypeOK
<1>1. Init => TypeOK
  BY InitType
<1>2. TypeOK /\ [Next]_vars => TypeOK'
  BY NextType
<1>3. QED
  BY <1>1, <1>2, PTL DEF Spec

-----------------------------------------------------------------------------
(* The inductive invariant *)

\* The parts of IInv about requests and answers, and those about orders.
CallInv == PlaceCalls /\ CancelCalls /\ CancelGetsNothing /\ ChargesCounted

OrderInv == SagaKnows /\ SoldIsCommittedAndCharged /\ CancelSeesConfirmed

\* When a saga goes on, its old request is abandoned and the new one is for
\* the step it goes to; nobody else's requests and answers change.
LEMMA SagaGoesCalls ==
    ASSUME TypeOK, CallInv, NEW o \in Orders, NEW pc \in SagaPc, SagaGoes(o, pc),
           UNCHANGED <<cancel, charged, intent>>,
           \A p \in Orders : status'[p] # "cancelled"
    PROVE  CallInv'
<1>1. \A p \in Orders : reply'[p].cancel = reply[p].cancel
  BY DEF SagaGoes, TypeOK, Callers
<1>2. \A p \in Orders : p # o => saga'[p] = saga[p]
  BY DEF SagaGoes, TypeOK
<1>3. saga'[o] = pc
  BY DEF SagaGoes, TypeOK
<1>4. ASSUME NEW c \in calls'
      PROVE  /\ c.by = "place" => saga'[c.order] = c.op
             /\ c.by = "cancel" => /\ c.op = "release" /\ cancel'[c.order] = "release"
                                   /\ reply'[c.order].cancel = "none"
             /\ c.phase # "sent" => c.op = "capture"
             /\ c.phase = "charged" => c.order \in charged'
  <2>1. CASE c \in RequestAt(pc, o, "place")
    <3>1. c = Request(pc, o, "place")
      BY <2>1 DEF RequestAt
    <3>2. c.op = pc /\ c.order = o /\ c.by = "place" /\ c.phase = "sent"
      BY <3>1 DEF Request
    <3>3. QED
      BY <3>2, <1>3
  <2>2. CASE c \in Abandoned(o, "place")
    <3>1. PICK d \in calls :
             /\ c.op = d.op /\ c.order = d.order /\ c.phase = d.phase
             /\ c.by # "gone" => c = d /\ ~(d.order = o /\ d.by = "place")
      BY <2>2, AbandonedCalls DEF TypeOK
    <3>2. d.order \in Orders
      BY DEF TypeOK, Call
    <3>3. c.by = "place" => saga'[c.order] = c.op
      BY <3>1, <3>2, <1>2 DEF CallInv, PlaceCalls
    <3>4. c.by = "cancel" => /\ c.op = "release" /\ cancel'[c.order] = "release"
                             /\ reply'[c.order].cancel = "none"
      BY <3>1, <3>2, <1>1 DEF CallInv, CancelCalls
    <3>5. QED
      BY <3>1, <3>3, <3>4 DEF CallInv, ChargesCounted
  <2>3. QED
    BY <2>1, <2>2 DEF SagaGoes
<1>5. CancelGetsNothing'
  BY <1>1 DEF CancelGetsNothing, CallInv
<1>6. ChargesCounted'
  BY <1>4 DEF ChargesCounted, CallInv
<1>7. QED
  BY <1>4, <1>5, <1>6 DEF CallInv, PlaceCalls, CancelCalls

\* A saga that goes on and leaves the row alone, or moves it short of sold.
LEMMA SagaGoesKeeps ==
    ASSUME IInv, NEW o \in Orders, NEW pc \in SagaPc, SagaGoes(o, pc),
           UNCHANGED <<shipment, cancel, reservation, intent, charged>>,
           \/ status' = status
           \/ /\ cancel[o] = "idle"
              /\ \E to \in {"pending", "reserved", "failed"} :
                     status' = [status EXCEPT ![o] = to],
           pc \in {"commit", "markConfirmed"} => o \in charged,
           pc = "markConfirmed" => reservation[o] = "committed"
    PROVE  CallInv' /\ OrderInv'
<1> USE DEF IInv
<1>0. \A p \in Orders : /\ status'[p] = "cancelled" => status[p] = "cancelled"
                        /\ Sold(p)' => Sold(p)
                        /\ cancel[p] # "idle" => status'[p] = status[p]
  BY DEF Sold, TypeOK
<1>1. CallInv'
  BY <1>0, SagaGoesCalls DEF CallInv, CancelGetsNothing
<1>2. SagaKnows'
  <2>1. \A p \in Orders : p # o => saga'[p] = saga[p] /\ reply'[p] = reply[p]
    BY DEF SagaGoes, TypeOK
  <2>2. saga'[o] = pc /\ reply'[o].place = "none"
    BY DEF SagaGoes, TypeOK, Callers
  <2>3. QED
    BY <2>1, <2>2 DEF SagaKnows
<1>3. SoldIsCommittedAndCharged'
  BY <1>0 DEF SoldIsCommittedAndCharged
<1>4. CancelSeesConfirmed'
  BY <1>0 DEF CancelSeesConfirmed
<1>5. QED
  BY <1>1, <1>2, <1>3, <1>4 DEF OrderInv

LEMMA AfterThrowSafe == \A o : AfterThrow(o) \notin {"commit", "markConfirmed"}
BY DEF AfterThrow

\* A guarded UPDATE of the saga other than markConfirmed.
LEMMA UpdateStatusKeeps ==
    ASSUME IInv, NEW o \in Orders, NEW from, NEW to \in {"reserved", "failed"},
           NEW pc \in SagaPc, UpdateStatus(o, from, to, pc),
           pc \notin {"commit", "markConfirmed"}
    PROVE  CallInv' /\ OrderInv'
<1>1. PICK next \in SagaPc : SagaGoes(o, next) /\ next \notin {"commit", "markConfirmed"}
  BY AfterThrowType, AfterThrowSafe DEF UpdateStatus
<1>2. UNCHANGED <<shipment, cancel, reservation, intent, charged>>
  BY DEF UpdateStatus, resVars, payVars
<1>3. \/ status' = status
      \/ cancel[o] = "idle" /\ status' = [status EXCEPT ![o] = to]
  BY DEF UpdateStatus, RowLocked
<1>4. QED
  BY <1>1, <1>2, <1>3, SagaGoesKeeps

\* A service that answers a request truthfully.
LEMMA AnswerKeeps ==
    ASSUME IInv, NEW c \in calls, NEW r \in Reply \ {"none"}, Answer(c, r),
           UNCHANGED <<status, shipment, saga, cancel, charged>>,
           c.by = "cancel" => r # "ok",
           c.op = "capture" /\ r = "ok" => c.order \in charged,
           c.op = "commit" /\ r = "ok" => reservation'[c.order] = "committed",
           \A o \in Orders : reservation[o] = "committed" => reservation'[o] = "committed",
           \A o \in Orders : intent'[o] = "succeeded" => o \in charged
    PROVE  CallInv' /\ OrderInv'
<1> USE DEF IInv
<1>0. c \in Call /\ c.order \in Orders
  BY DEF TypeOK, Call
<1>1. \A o \in Orders, b \in Callers :
         reply'[o][b] = IF c.order = o /\ c.by = b THEN r ELSE reply[o][b]
  BY <1>0 DEF Answer, TypeOK
<1>2. calls' = calls \ {c}
  BY DEF Answer
<1>3. PlaceCalls'
  BY <1>2 DEF PlaceCalls
<1>4. CancelCalls'
  <2>1. ASSUME NEW d \in calls', d.by = "cancel"
        PROVE  ~(c.order = d.order /\ c.by = "cancel")
    <3>1. d \in Call /\ c \in Call /\ d # c /\ d \in calls
      BY <1>2, <1>0 DEF TypeOK
    <3>2. d.op = "release" /\ d.phase = "sent"
      BY <2>1, <3>1 DEF CancelCalls, ChargesCounted
    <3>3. c.by = "cancel" => c.op = "release" /\ c.phase = "sent"
      BY DEF CancelCalls, ChargesCounted
    <3>4. QED
      BY <2>1, <3>1, <3>2, <3>3 DEF Call
  <2>2. ASSUME NEW d \in calls', d.by = "cancel"
        PROVE  reply'[d.order].cancel = reply[d.order].cancel
    <3>1. d.order \in Orders
      BY <1>2 DEF TypeOK, Call
    <3>2. reply'[d.order]["cancel"] = reply[d.order]["cancel"]
      BY <1>1, <2>1, <2>2, <3>1 DEF Callers
    <3>3. QED
      BY <3>2
  <2>3. QED
    BY <2>2, <1>2 DEF CancelCalls
<1>5. CancelGetsNothing'
  <2>1. ASSUME NEW o \in Orders
        PROVE  /\ reply'[o].cancel # "ok"
               /\ cancel[o] = "idle" => reply'[o].cancel = "none"
    <3>1. CASE c.order = o /\ c.by = "cancel"
      <4>1. cancel[o] = "release"
        BY <3>1 DEF CancelCalls
      <4>2. reply'[o].cancel = r
        BY <3>1, <1>1 DEF Callers
      <4>3. QED
        BY <3>1, <4>1, <4>2
    <3>2. CASE ~(c.order = o /\ c.by = "cancel")
      <4>1. reply'[o].cancel = reply[o].cancel
        BY <3>2, <1>1 DEF Callers
      <4>2. QED
        BY <4>1 DEF CancelGetsNothing
    <3>3. QED
      BY <3>1, <3>2
  <2>2. QED
    BY <2>1 DEF CancelGetsNothing
<1>6. ChargesCounted'
  BY <1>2 DEF ChargesCounted
<1>7. SagaKnows'
  <2>1. ASSUME NEW o \in Orders
        PROVE  /\ saga[o] = "capture" /\ reply'[o].place = "ok" => o \in charged
               /\ saga[o] = "commit" /\ reply'[o].place = "ok" => reservation'[o] = "committed"
    <3>1. CASE c.order = o /\ c.by = "place"
      <4>1. saga[o] = c.op
        BY <3>1 DEF PlaceCalls
      <4>2. reply'[o].place = r
        BY <3>1, <1>1 DEF Callers
      <4>3. QED
        BY <3>1, <4>1, <4>2
    <3>2. CASE ~(c.order = o /\ c.by = "place")
      <4>1. reply'[o].place = reply[o].place
        BY <3>2, <1>1 DEF Callers
      <4>2. QED
        BY <4>1 DEF SagaKnows
    <3>3. QED
      BY <3>1, <3>2
  <2>2. QED
    BY <2>1 DEF SagaKnows
<1>8. SoldIsCommittedAndCharged' /\ CancelSeesConfirmed'
  BY DEF SoldIsCommittedAndCharged, CancelSeesConfirmed, Sold
<1>9. QED
  BY <1>3, <1>4, <1>5, <1>6, <1>7, <1>8 DEF CallInv, OrderInv

\* The same when an internal error may take the place of the answer.
LEMMA AnsweredKeeps ==
    ASSUME IInv, NEW c \in calls, NEW r \in Reply \ {"none"}, Answered(c, r),
           UNCHANGED <<status, shipment, saga, cancel, charged>>,
           c.by = "cancel" => r # "ok",
           c.op = "capture" /\ r = "ok" => c.order \in charged,
           c.op = "commit" /\ r = "ok" => reservation'[c.order] = "committed",
           \A o \in Orders : reservation[o] = "committed" => reservation'[o] = "committed",
           \A o \in Orders : intent'[o] = "succeeded" => o \in charged
    PROVE  CallInv' /\ OrderInv'
<1>1. PICK a \in {r, "refused"} : Answer(c, a)
  BY DEF Answered
<1>2. a \in Reply \ {"none"} /\ (a = "ok" => r = "ok")
  BY <1>1 DEF Reply
<1>3. QED
  BY <1>1, <1>2, AnswerKeeps

LEMMA InitInv == Init => IInv
<1>1. Init => TypeOK
  BY InitType
<1>2. QED
  BY <1>1 DEF Init, IInv, PlaceCalls, CancelCalls, CancelGetsNothing, ChargesCounted,
     SagaKnows, SoldIsCommittedAndCharged, Sold, CancelSeesConfirmed, Callers

\* Every step of a placeOrder handler.
LEMMA SagaStepKeeps ==
    ASSUME IInv, NEW o \in Orders, PlaceOrder(o) \/ SagaStep(o)
    PROVE  CallInv' /\ OrderInv'
<1> USE DEF rowVars, sagaVars, expiryVars, resVars, payVars
<1>pcs. {"opened", "createReservation", "createIntent", "capture", "commit", "release", "void",
         "markReserved", "attachIntent", "markConfirmed", "markFailed", "done"} \subseteq SagaPc
  BY DEF SagaPc, RemoteOps, LocalSteps
<1>inv. TypeOK /\ CallInv /\ OrderInv
  BY DEF IInv, CallInv, OrderInv
<1>1. CASE PlaceOrder(o)
  <2>1. cancel[o] = "idle"
    BY <1>1 DEF PlaceOrder, IInv, CancelSeesConfirmed
  <2>2. QED
    BY <1>1, <2>1, <1>pcs, SagaGoesKeeps DEF PlaceOrder
<1>2. CASE ReservationCreated(o)
  BY <1>2, <1>pcs, SagaGoesKeeps DEF ReservationCreated
<1>3. CASE IntentCreated(o)
  BY <1>3, <1>pcs, SagaGoesKeeps DEF IntentCreated
<1>4. CASE Captured(o)
  BY <1>4, <1>pcs, SagaGoesKeeps DEF Captured, IInv, SagaKnows
<1>5. CASE Committed(o)
  BY <1>5, <1>pcs, SagaGoesKeeps DEF Committed, IInv, SagaKnows
<1>6. CASE Released(o)
  BY <1>6, <1>pcs, SagaGoesKeeps DEF Released
<1>7. CASE Voided(o)
  BY <1>7, <1>pcs, SagaGoesKeeps DEF Voided
<1>8. CASE CallRefused(o)
  BY <1>8, AfterThrowType, AfterThrowSafe, SagaGoesKeeps DEF CallRefused
<1>9. CASE CallTimesOut(o)
  BY <1>9, AfterThrowType, AfterThrowSafe, SagaGoesKeeps DEF CallTimesOut
<1>10. CASE MarkReserved(o)
  BY <1>10, <1>pcs, UpdateStatusKeeps DEF MarkReserved
<1>11. CASE AttachPaymentIntent(o)
  BY <1>11, <1>pcs, UpdateStatusKeeps DEF AttachPaymentIntent
<1>12. CASE MarkConfirmed(o)
  \* The one step that makes an order sold, on what the saga has learned.
  <2>1. PICK next \in SagaPc : SagaGoes(o, next) /\ next \notin {"commit", "markConfirmed"}
    BY <1>12, <1>pcs, AfterThrowType, AfterThrowSafe DEF MarkConfirmed, UpdateStatus
  <2>2. UNCHANGED <<shipment, cancel, reservation, intent, charged>>
    BY <1>12 DEF MarkConfirmed, UpdateStatus
  <2>3. cancel[o] = "idle" /\ (status' = status \/ status' = [status EXCEPT ![o] = "confirmed"])
    BY <1>12 DEF MarkConfirmed, UpdateStatus, RowLocked
  <2>4. CASE status' = status
    BY <2>1, <2>2, <2>4, SagaGoesKeeps
  <2>5. CASE status' = [status EXCEPT ![o] = "confirmed"]
    <3>1. status'[o] = "confirmed" /\ \A p \in Orders : p # o => status'[p] = status[p]
      BY <2>5, <1>inv DEF TypeOK
    <3>2. o \in charged /\ reservation[o] = "committed"
      BY <1>12, <1>inv DEF MarkConfirmed, OrderInv, SagaKnows
    <3>3. CallInv'
      BY <2>1, <2>2, <3>1, <1>inv, SagaGoesCalls DEF CallInv, CancelGetsNothing
    <3>4. SagaKnows'
      <4>1. \A p \in Orders : p # o => saga'[p] = saga[p] /\ reply'[p] = reply[p]
        BY <2>1, <1>inv DEF SagaGoes, TypeOK
      <4>2. saga'[o] = next /\ reply'[o].place = "none"
        BY <2>1, <1>inv DEF SagaGoes, TypeOK, Callers
      <4>3. QED
        BY <2>1, <2>2, <4>1, <4>2, <1>inv DEF OrderInv, SagaKnows
    <3>5. SoldIsCommittedAndCharged'
      BY <2>2, <3>1, <3>2, <1>inv DEF OrderInv, SoldIsCommittedAndCharged, Sold
    <3>6. CancelSeesConfirmed'
      BY <2>2, <2>3, <3>1, <1>inv DEF OrderInv, CancelSeesConfirmed
    <3>7. QED
      BY <3>3, <3>4, <3>5, <3>6 DEF OrderInv
  <2>6. QED
    BY <2>3, <2>4, <2>5
<1>13. CASE MarkFailed(o)
  BY <1>13, <1>pcs, UpdateStatusKeeps DEF MarkFailed
<1>14. CASE StatementFails(o)
  BY <1>14, AfterThrowType, AfterThrowSafe, SagaGoesKeeps DEF StatementFails
<1>15. CASE OrderOpened(o)
  BY <1>15, <1>pcs, SagaGoesKeeps DEF OrderOpened
<1>16. QED
  BY <1>1, <1>2, <1>3, <1>4, <1>5, <1>6, <1>7, <1>8, <1>9, <1>10, <1>11, <1>12, <1>13,
     <1>14, <1>15 DEF SagaStep

\* Every step of inventory or payments on a request.
LEMMA ServiceStepKeeps ==
    ASSUME IInv, NEW c \in calls, ServiceStep(c)
    PROVE  CallInv' /\ OrderInv'
<1> USE DEF rowVars, sagaVars, expiryVars, resVars, payVars
<1>0. c \in Call /\ c.order \in Orders /\ TypeOK
  BY DEF IInv, TypeOK, Call
<1>r. "ok" \in Reply \ {"none"} /\ "refused" \in Reply \ {"none"}
  BY DEF Reply
<1>a. \A a : Answer(c, a) => Answered(c, a)
  BY DEF Answered
<1>k. c.by = "cancel" => c.op = "release" /\ reservation[c.order] = "committed"
  BY <1>0 DEF IInv, CancelCalls, CancelSeesConfirmed, SoldIsCommittedAndCharged, Sold
<1>s. \A o \in Orders : intent[o] = "succeeded" => o \in charged
  BY DEF IInv, ChargesCounted
<1>1. CASE CreateReservation(c)
  BY <1>1, <1>0, <1>r, <1>a, <1>k, <1>s, AnsweredKeeps DEF CreateReservation, TypeOK
<1>2. CASE CommitReservation(c)
  BY <1>2, <1>0, <1>r, <1>a, <1>k, <1>s, AnsweredKeeps DEF CommitReservation, TypeOK
<1>3. CASE ReleaseReservation(c)
  BY <1>3, <1>0, <1>r, <1>a, <1>k, <1>s, AnsweredKeeps DEF ReleaseReservation, TypeOK
<1>4. CASE CreateIntent(c)
  BY <1>4, <1>0, <1>r, <1>a, <1>k, <1>s, AnsweredKeeps DEF CreateIntent, TypeOK
<1>5. CASE CaptureAtPsp(c)
  <2>1. PICK p \in {"charged", "declined"} :
           /\ calls' = (calls \ {c}) \cup {[c EXCEPT !.phase = p]}
           /\ charged' = IF p = "charged" THEN charged \cup {c.order} ELSE charged
    BY <1>5 DEF CaptureAtPsp
  <2>2. UNCHANGED <<status, shipment, saga, cancel, reply, reservation, intent>> /\ c.op = "capture"
    BY <1>5 DEF CaptureAtPsp
  <2>3. \A o \in Orders : o \in charged => o \in charged'
    BY <2>1, <1>0 DEF TypeOK
  <2>4. p = "charged" => c.order \in charged'
    BY <2>1, <1>0 DEF TypeOK
  <2>5. ASSUME NEW d \in calls'
        PROVE  \E e \in calls :
                  /\ d.op = e.op /\ d.order = e.order /\ d.by = e.by /\ e.order \in Orders
                  /\ d.phase = e.phase \/ (d.phase = p /\ e = c)
    <3>1. CASE d \in calls
      BY <3>1, <1>0 DEF TypeOK, Call
    <3>2. CASE d = [c EXCEPT !.phase = p]
      BY <3>2, <1>0 DEF Call
    <3>3. QED
      BY <2>1, <3>1, <3>2
  <2>6. PlaceCalls' /\ CancelCalls'
    BY <2>2, <2>5 DEF IInv, PlaceCalls, CancelCalls
  <2>7. CancelGetsNothing'
    BY <2>2 DEF IInv, CancelGetsNothing
  <2>8. ChargesCounted'
    BY <2>2, <2>3, <2>4, <2>5 DEF IInv, ChargesCounted
  <2>9. OrderInv'
    BY <2>2, <2>3 DEF IInv, OrderInv, SagaKnows, SoldIsCommittedAndCharged, Sold,
       CancelSeesConfirmed
  <2>10. QED
    BY <2>6, <2>7, <2>8, <2>9 DEF CallInv
<1>6. CASE CaptureWithoutPsp(c)
  BY <1>6, <1>0, <1>r, <1>a, <1>k, <1>s, AnsweredKeeps DEF CaptureWithoutPsp
<1>7. CASE CaptureSettles(c)
  <2>1. c.op = "capture" /\ (c.phase = "charged" => c.order \in charged)
    BY <1>7 DEF CaptureSettles, IInv, ChargesCounted
  <2>2. \A o \in Orders : intent'[o] = "succeeded" => o \in charged
    BY <1>7, <2>1, <1>0, <1>s DEF CaptureSettles, TypeOK
  <2>3. QED
    BY <1>7, <2>1, <2>2, <1>0, <1>r, <1>a, <1>k, AnsweredKeeps DEF CaptureSettles
<1>8. CASE VoidIntent(c)
  <2>1. \A o \in Orders : intent'[o] = "succeeded" => o \in charged
    BY <1>8, <1>0, <1>s DEF VoidIntent, TypeOK
  <2>2. PICK r \in {"ok", "refused"} : Answered(c, r)
    BY <1>8 DEF VoidIntent
  <2>3. QED
    BY <1>8, <2>1, <2>2, <1>0, <1>r, <1>a, <1>k, AnsweredKeeps DEF VoidIntent
<1>9. CASE FailsInside(c)
  BY <1>9, <1>0, <1>r, <1>k, <1>s, AnswerKeeps DEF FailsInside
<1>10. QED
  BY <1>1, <1>2, <1>3, <1>4, <1>5, <1>6, <1>7, <1>8, <1>9 DEF ServiceStep

LEMMA NextInv ==
    ASSUME IInv, [Next]_vars
    PROVE  IInv'
<1> USE DEF rowVars, sagaVars, expiryVars, resVars, payVars
<1>t. TypeOK /\ TypeOK'
  BY NextType DEF IInv
<1>inv. CallInv /\ OrderInv
  BY DEF IInv, CallInv, OrderInv
<1>1. ASSUME NEW o \in Orders, PlaceOrder(o) \/ SagaStep(o)
      PROVE  CallInv' /\ OrderInv'
  BY <1>1, SagaStepKeeps
<1>2. ASSUME NEW o \in Orders, CancelStart(o)
      PROVE  CallInv' /\ OrderInv'
  <2>1. calls' = calls \cup {Request("release", o, "cancel")}
        /\ cancel' = [cancel EXCEPT ![o] = "release"]
        /\ UNCHANGED <<status, shipment, saga, reply, reservation, intent, charged>>
    BY <1>2 DEF CancelStart
  <2>2. cancel[o] = "idle" /\ status[o] = "confirmed" /\ shipment[o] = "none" /\ reply[o].cancel = "none"
    BY <1>2, <1>inv DEF CancelStart, RowLocked, CallInv, CancelGetsNothing
  <2>3. cancel'[o] = "release" /\ \A p \in Orders : p # o => cancel'[p] = cancel[p]
    BY <2>1, <1>t DEF TypeOK
  <2>4. ASSUME NEW c \in calls'
        PROVE  /\ c.by = "place" => saga[c.order] = c.op
               /\ c.by = "cancel" => /\ c.op = "release" /\ cancel'[c.order] = "release"
                                     /\ reply[c.order].cancel = "none"
               /\ c.phase # "sent" => c.op = "capture"
               /\ c.phase = "charged" => c.order \in charged
    <3>1. CASE c \in calls
      <4>1. c.order \in Orders
        BY <3>1, <1>t DEF TypeOK, Call
      <4>2. QED
        BY <3>1, <4>1, <2>3, <1>inv DEF CallInv, PlaceCalls, CancelCalls, ChargesCounted
    <3>2. CASE c = Request("release", o, "cancel")
      BY <3>2, <2>2, <2>3 DEF Request
    <3>3. QED
      BY <2>1, <3>1, <3>2
  <2>5. CallInv'
    BY <2>1, <2>2, <2>3, <2>4, <1>inv DEF CallInv, PlaceCalls, CancelCalls,
       CancelGetsNothing, ChargesCounted
  <2>6. OrderInv'
    BY <2>1, <2>2, <2>3, <1>inv DEF OrderInv, SagaKnows, SoldIsCommittedAndCharged, Sold,
       CancelSeesConfirmed
  <2>7. QED
    BY <2>5, <2>6
<1>3. ASSUME NEW o \in Orders, CancelReply(o)
      PROVE  CallInv' /\ OrderInv'
  \* The answer is never "ok", so the transaction rolls back.
  <2>1. reply[o].cancel # "none" /\ reply[o].cancel # "ok"
    BY <1>3, <1>inv DEF CancelReply, CallInv, CancelGetsNothing
  <2>2. /\ cancel' = [cancel EXCEPT ![o] = "idle"]
        /\ calls' = calls
        /\ status' = status
        /\ reply' = [reply EXCEPT ![o].cancel = "none"]
        /\ UNCHANGED <<shipment, saga, reservation, intent, charged>>
    BY <1>3, <2>1, <1>t DEF CancelReply, TypeOK
  <2>3. /\ cancel'[o] = "idle" /\ reply'[o].cancel = "none"
        /\ \A p \in Orders : p # o => cancel'[p] = cancel[p] /\ reply'[p] = reply[p]
        /\ \A p \in Orders : reply'[p].place = reply[p].place
    BY <2>2, <1>t DEF TypeOK, Callers
  <2>4. \A c \in calls : c.by = "cancel" => c.order # o
    BY <2>1, <1>inv DEF CallInv, CancelCalls
  <2>5. \A c \in calls : c.order \in Orders
    BY <1>t DEF TypeOK, Call
  <2>6. CallInv'
    BY <2>2, <2>3, <2>4, <2>5, <1>inv DEF CallInv, PlaceCalls, CancelCalls,
       CancelGetsNothing, ChargesCounted
  <2>7. OrderInv'
    BY <2>2, <2>3, <1>inv DEF OrderInv, SagaKnows, SoldIsCommittedAndCharged, Sold,
       CancelSeesConfirmed
  <2>8. QED
    BY <2>6, <2>7
<1>4. ASSUME NEW o \in Orders, CancelTimesOut(o)
      PROVE  CallInv' /\ OrderInv'
  <2>1. /\ cancel' = [cancel EXCEPT ![o] = "idle"]
        /\ calls' = Abandoned(o, "cancel")
        /\ reply' = [reply EXCEPT ![o].cancel = "none"]
        /\ UNCHANGED <<status, shipment, saga, reservation, intent, charged>>
    BY <1>4 DEF CancelTimesOut, CancelEnds
  <2>2. /\ cancel'[o] = "idle" /\ reply'[o].cancel = "none"
        /\ \A p \in Orders : p # o => cancel'[p] = cancel[p] /\ reply'[p] = reply[p]
        /\ \A p \in Orders : reply'[p].place = reply[p].place
    BY <2>1, <1>t DEF TypeOK, Callers
  <2>3. \A c \in calls' : \E d \in calls :
           /\ c.op = d.op /\ c.order = d.order /\ c.phase = d.phase /\ d.order \in Orders
           /\ c.by # "gone" => c = d /\ ~(d.order = o /\ d.by = "cancel")
    <3>1. calls \subseteq Call
      BY <1>t DEF TypeOK
    <3>2. \A d \in calls : d.order \in Orders
      BY <3>1 DEF Call
    <3>3. ASSUME NEW c \in Abandoned(o, "cancel")
          PROVE  \E d \in calls :
                     /\ c.op = d.op /\ c.order = d.order /\ c.phase = d.phase
                     /\ c.by # "gone" => c = d /\ ~(d.order = o /\ d.by = "cancel")
      BY <3>1, AbandonedCalls
    <3>4. QED
      BY <2>1, <3>2, <3>3
  <2>4. CallInv'
    <3>1. ASSUME NEW c \in calls'
          PROVE  /\ c.by = "place" => saga[c.order] = c.op
                 /\ c.by = "cancel" => /\ c.op = "release" /\ cancel'[c.order] = "release"
                                       /\ reply'[c.order].cancel = "none"
                 /\ c.phase # "sent" => c.op = "capture"
                 /\ c.phase = "charged" => c.order \in charged
      BY <2>2, <2>3, <1>inv DEF CallInv, PlaceCalls, CancelCalls, ChargesCounted
    <3>2. QED
      BY <3>1, <2>1, <2>2, <1>inv DEF CallInv, PlaceCalls, CancelCalls,
         CancelGetsNothing, ChargesCounted
  <2>5. OrderInv'
    BY <2>1, <2>2, <1>inv DEF OrderInv, SagaKnows, SoldIsCommittedAndCharged, Sold,
       CancelSeesConfirmed
  <2>6. QED
    BY <2>4, <2>5
<1>5. ASSUME NEW o \in Orders, ShipOrder(o)
      PROVE  CallInv' /\ OrderInv'
  <2>1. cancel[o] = "idle" /\ status[o] = "confirmed"
    BY <1>5 DEF ShipOrder, RowLocked
  <2>2. /\ status'[o] = "shipped"
        /\ \A p \in Orders : p # o => status'[p] = status[p] /\ shipment'[p] = shipment[p]
        /\ UNCHANGED <<saga, cancel, calls, reply, reservation, intent, charged>>
    BY <1>5, <1>t DEF ShipOrder, TypeOK
  <2>3. CallInv'
    BY <2>1, <2>2, <1>inv DEF CallInv, PlaceCalls, CancelCalls, CancelGetsNothing, ChargesCounted
  <2>4. OrderInv'
    BY <2>1, <2>2, <1>inv DEF OrderInv, SagaKnows, SoldIsCommittedAndCharged, Sold,
       CancelSeesConfirmed
  <2>5. QED
    BY <2>3, <2>4
<1>6. ASSUME UNCHANGED <<status, shipment, saga, cancel, calls, reply, intent, charged>>,
             \A o \in Orders : reservation[o] = "committed" => reservation'[o] = "committed"
      PROVE  CallInv' /\ OrderInv'
  BY <1>6, <1>inv DEF CallInv, PlaceCalls, CancelCalls, CancelGetsNothing, ChargesCounted,
     OrderInv, SagaKnows, SoldIsCommittedAndCharged, Sold, CancelSeesConfirmed
<1>7. ASSUME NEW o \in Orders,
             ReservationExpires(o) \/ ExpireReservation(o) \/ StockRowChanges(o)
      PROVE  CallInv' /\ OrderInv'
  BY <1>6, <1>7, <1>t DEF ReservationExpires, ExpireReservation, StockRowChanges, TypeOK
<1>8. ASSUME NEW o \in Orders, NEW op \in {"commit", "release", "capture", "void"},
             ClientCall(o, op)
      PROVE  CallInv' /\ OrderInv'
  <2>1. /\ calls' = calls \cup {Request(op, o, "client")}
        /\ UNCHANGED <<status, shipment, saga, cancel, reply, reservation, intent, charged>>
    BY <1>8 DEF ClientCall
  <2>2. /\ Request(op, o, "client").by = "client"
        /\ Request(op, o, "client").phase = "sent"
    BY DEF Request
  <2>3. CallInv'
    BY <2>1, <2>2, <1>inv DEF CallInv, PlaceCalls, CancelCalls, CancelGetsNothing, ChargesCounted
  <2>4. OrderInv'
    BY <2>1, <1>inv DEF OrderInv, SagaKnows, SoldIsCommittedAndCharged, Sold,
       CancelSeesConfirmed
  <2>5. QED
    BY <2>3, <2>4
<1>9. ASSUME NEW c \in calls, ServiceStep(c)
      PROVE  CallInv' /\ OrderInv'
  BY <1>9, ServiceStepKeeps
<1>10. ASSUME NEW c \in calls, RequestLost(c)
       PROVE  CallInv' /\ OrderInv'
  BY <1>10, <1>inv DEF RequestLost, CallInv, PlaceCalls, CancelCalls, CancelGetsNothing,
     ChargesCounted, OrderInv, SagaKnows, SoldIsCommittedAndCharged, Sold, CancelSeesConfirmed
<1>11. ASSUME ExpiryTick \/ TickFails
       PROVE  CallInv' /\ OrderInv'
  BY <1>6, <1>11 DEF ExpiryTick, TickFails
<1>12. ASSUME OrdersCrash
       PROVE  CallInv' /\ OrderInv'
  <2>1. UNCHANGED <<status, shipment, reservation, intent, charged>>
    BY <1>12 DEF OrdersCrash
  <2>2. \A o \in Orders : /\ saga'[o] \in {"idle", "done", "crashed"}
                          /\ cancel'[o] = "idle"
                          /\ reply'[o].place = "none" /\ reply'[o].cancel = "none"
    BY <1>12 DEF OrdersCrash, Callers
  <2>3. \A c \in calls' : \E d \in calls :
           c.op = d.op /\ c.order = d.order /\ c.phase = d.phase /\ c.by \notin Callers
    <3>1. calls' = {IF c.by \in Callers THEN [c EXCEPT !.by = "gone"] ELSE c : c \in calls}
      BY <1>12 DEF OrdersCrash
    <3>2. \A d \in calls : d \in Call
      BY <1>t DEF TypeOK
    <3>3. QED
      BY <3>1, <3>2 DEF Call, Callers
  <2>4. CallInv'
    BY <2>1, <2>2, <2>3, <1>inv DEF CallInv, PlaceCalls, CancelCalls, CancelGetsNothing,
       ChargesCounted, Callers
  <2>5. OrderInv'
    BY <2>1, <2>2, <1>inv DEF OrderInv, SagaKnows, SoldIsCommittedAndCharged, Sold,
       CancelSeesConfirmed
  <2>6. QED
    BY <2>4, <2>5
<1>13. ASSUME NEW o \in Orders, ListShipment(o)
       PROVE  CallInv' /\ OrderInv'
  BY <1>6, <1>13 DEF ListShipment, otherVars
<1>14. ASSUME NEW s \in listed, AdvanceShipment(s)
       PROVE  CallInv' /\ OrderInv'
  <2>1. UNCHANGED <<status, saga, cancel, calls, reply, reservation, intent, charged>>
    BY <1>14 DEF AdvanceShipment, otherVars
  <2>2. \A o \in Orders : shipment[o] = "none" => shipment'[o] = "none"
    BY <1>14, <1>t DEF AdvanceShipment, TypeOK, Moving
  <2>3. QED
    BY <2>1, <2>2, <1>inv DEF CallInv, PlaceCalls, CancelCalls, CancelGetsNothing,
       ChargesCounted, OrderInv, SagaKnows, SoldIsCommittedAndCharged, Sold, CancelSeesConfirmed
<1>15. ASSUME UNCHANGED vars
       PROVE  CallInv' /\ OrderInv'
  BY <1>6, <1>15 DEF vars
<1>16. CallInv' /\ OrderInv'
  BY <1>1, <1>2, <1>3, <1>4, <1>5, <1>7, <1>8, <1>9, <1>10, <1>11, <1>12, <1>13, <1>14, <1>15
     DEF Next, CancelStep
<1>17. QED
  BY <1>16, <1>t DEF IInv, CallInv, OrderInv

LEMMA InvCorrect == Spec => []IInv
<1>1. IInv /\ [Next]_vars => IInv'
  BY NextInv
<1>2. QED
  BY InitInv, <1>1, PTL DEF Spec

\* An order shown as confirmed or shipped has its stock committed and was
\* charged for, for any number of orders and any mixture of faults.
THEOREM SoldCorrect == Spec => []SoldIsCommittedAndCharged
<1>1. IInv => SoldIsCommittedAndCharged
  BY DEF IInv
<1>2. QED
  BY InvCorrect, <1>1, PTL

\* A cancellation in progress keeps its order confirmed and unshipped.
THEOREM CancelCorrect == Spec => []CancelSeesConfirmed
<1>1. IInv => CancelSeesConfirmed
  BY DEF IInv
<1>2. QED
  BY InvCorrect, <1>1, PTL

\* What the finding on cancelOrder amounts to.
NothingCancelled == \A o \in Orders : status[o] # "cancelled"

\* No order is ever cancelled: cancelOrder asks inventory to release a
\* reservation that is committed, and never gets beyond that refusal.
THEOREM CancelNeverSucceeds == Spec => []NothingCancelled
<1>1. IInv => NothingCancelled
  BY DEF IInv, CancelGetsNothing, NothingCancelled
<1>2. QED
  BY InvCorrect, <1>1, PTL

-----------------------------------------------------------------------------
(* Steps *)

\* Only a shipped order has a shipment.
ShipmentInv == \A o \in Orders : shipment[o] # "none" => status[o] = "shipped"

\* What a step does to one order: nothing, or it is sold, shipped, or its
\* shipment moves on; an order that is not sold may also go anywhere else
\* but to "shipped".
OrderStep(o) ==
    \/ status'[o] = status[o] /\ shipment'[o] = shipment[o]
    \/ ~Sold(o) /\ status'[o] # "shipped" /\ shipment'[o] = shipment[o]
    \/ /\ status[o] = "confirmed" /\ shipment[o] = "none"
       /\ status'[o] = "shipped" /\ shipment'[o] = "preparing"
    \/ /\ status'[o] = status[o]
       /\ <<shipment[o], shipment'[o]>> \in
              {<<"preparing", "dispatched">>, <<"dispatched", "delivered">>}

\* The guarded UPDATEs of the saga miss a sold order, and a cancellation never
\* gets to write "cancelled".
LEMMA OrderSteps ==
    ASSUME IInv, [Next]_vars, NEW o \in Orders
    PROVE  OrderStep(o)
<1> USE DEF rowVars, sagaVars, expiryVars, resVars, payVars
<1>0. TypeOK /\ CancelGetsNothing
  BY DEF IInv
<1>1. ASSUME NEW p \in Orders, PlaceOrder(p)
      PROVE  OrderStep(o)
  BY <1>0, <1>1 DEF PlaceOrder, OrderStep, Sold, TypeOK
<1>2. ASSUME NEW p \in Orders, SagaStep(p)
      PROVE  OrderStep(o)
  <2>1. ASSUME NEW from \in {{"pending"}, {"reserved"}, {"pending", "reserved"}},
               NEW to \in {"reserved", "confirmed", "failed"}, NEW pc,
               UpdateStatus(p, from, to, pc)
        PROVE  OrderStep(o)
    BY <1>0, <2>1 DEF UpdateStatus, OrderStep, Sold, TypeOK
  <2>2. CASE MarkReserved(p) \/ AttachPaymentIntent(p) \/ MarkConfirmed(p) \/ MarkFailed(p)
    BY <2>1, <2>2 DEF MarkReserved, AttachPaymentIntent, MarkConfirmed, MarkFailed
  <2>3. CASE UNCHANGED <<status, shipment>>
    BY <2>3 DEF OrderStep
  <2>4. QED
    BY <1>2, <2>2, <2>3 DEF SagaStep, OrderOpened, ReservationCreated, IntentCreated, Captured,
       Committed, Released, Voided, CallRefused, CallTimesOut, StatementFails
<1>3. ASSUME NEW p \in Orders, CancelReply(p)
      PROVE  UNCHANGED <<status, shipment>>
  BY <1>0, <1>3 DEF CancelReply, CancelGetsNothing, TypeOK
<1>4. ASSUME NEW p \in Orders, ShipOrder(p)
      PROVE  OrderStep(o)
  BY <1>0, <1>4 DEF ShipOrder, OrderStep, TypeOK
<1>5. CASE UNCHANGED <<status, shipment>>
  BY <1>5 DEF OrderStep
<1>6. ASSUME NEW c \in calls, ServiceStep(c)
      PROVE  UNCHANGED <<status, shipment>>
  BY <1>6 DEF ServiceStep, CreateReservation, CommitReservation, ReleaseReservation,
     CreateIntent, CaptureAtPsp, CaptureWithoutPsp, CaptureSettles, VoidIntent, FailsInside
<1>7. ASSUME NEW s \in listed, AdvanceShipment(s)
      PROVE  OrderStep(o)
  <2>1. s.order \in Orders /\ s.from \in {"preparing", "dispatched"}
    BY <1>0 DEF TypeOK, Moving
  <2>2. status' = status
    BY <1>7 DEF AdvanceShipment, otherVars
  <2>3. shipment'[o] = IF o = s.order /\ shipment[o] = s.from
                       THEN NextShipmentStatus(s.from) ELSE shipment[o]
    BY <1>0, <1>7, <2>1 DEF AdvanceShipment, TypeOK
  <2>4. QED
    BY <2>1, <2>2, <2>3 DEF OrderStep, NextShipmentStatus
<1>8. QED
  BY <1>1, <1>2, <1>3, <1>4, <1>5, <1>6, <1>7 DEF Next, CancelStep, CancelStart, CancelTimesOut,
     StockRowChanges, ReservationExpires, ExpireReservation, ClientCall, RequestLost, ExpiryTick,
     TickFails, ListShipment, otherVars, OrdersCrash, vars

LEMMA ShipmentCorrect == Spec => []ShipmentInv
<1>1. Init => ShipmentInv
  BY DEF Init, ShipmentInv
<1>2. ShipmentInv /\ IInv /\ [Next]_vars => ShipmentInv'
  <2>1. SUFFICES ASSUME ShipmentInv, IInv, [Next]_vars, NEW o \in Orders
                 PROVE  shipment'[o] # "none" => status'[o] = "shipped"
    BY DEF ShipmentInv
  <2>2. OrderStep(o)
    BY <2>1, OrderSteps
  <2>3. QED
    BY <2>1, <2>2 DEF OrderStep, ShipmentInv, Sold
<1>3. QED
  BY InvCorrect, <1>1, <1>2, PTL DEF Spec

LEMMA SeenStep ==
    ASSUME IInv, ShipmentInv, [Next]_vars, NEW o \in Orders
    PROVE  Seen(o)' \in {Seen(o), Seen(o) + 1}
<1>1. OrderStep(o)
  BY OrderSteps
<1>2. shipment[o] \in {"none", "preparing", "dispatched", "delivered"}
  BY DEF IInv, TypeOK, ShipmentStatus, Moving
<1>3. ~Sold(o) => shipment[o] = "none"
  BY DEF Sold, ShipmentInv
<1>4. QED
  BY <1>1, <1>2, <1>3 DEF OrderStep, Seen, Sold

\* A sale is never taken back, nor does its shipment skip or repeat a stage.
THEOREM SoldForGood == Spec => SoldMovesForward
<1>1. IInv /\ ShipmentInv /\ [Next]_vars =>
          [\A o \in Orders : Seen(o)' \in {Seen(o), Seen(o) + 1}]_vars
  BY SeenStep
<1>2. QED
  BY InvCorrect, ShipmentCorrect, <1>1, PTL DEF Spec, SoldMovesForward

-----------------------------------------------------------------------------
(* Refinement *)

\* A step of the saga, of another caller or of the expiry job moves at most
\* one reservation, and only as the contract allows.
LEMMA StepRefines ==
    ASSUME TypeOK, [Next]_vars
    PROVE  [Contract!Next]_reservation
<1> USE DEF rowVars, sagaVars, expiryVars, resVars, payVars
<1>1. ASSUME NEW c \in calls,
             CreateReservation(c) \/ CommitReservation(c) \/ ReleaseReservation(c)
      PROVE  [Contract!Next]_reservation
  <2>1. c.order \in Orders
    BY DEF TypeOK, Call
  <2>2. QED
    BY <1>1, <2>1 DEF CreateReservation, CommitReservation, ReleaseReservation, TypeOK,
       Contract!Next, Contract!Create, Contract!Commit, Contract!Release
<1>2. ASSUME NEW o \in Orders, ExpireReservation(o)
      PROVE  [Contract!Next]_reservation
  BY <1>2 DEF ExpireReservation, TypeOK, Contract!Next, Contract!Release
<1>3. CASE UNCHANGED reservation
  BY <1>3
<1>4. ASSUME NEW c \in calls, ServiceStep(c)
      PROVE  [Contract!Next]_reservation
  BY <1>1, <1>3, <1>4 DEF ServiceStep, CreateIntent, CaptureAtPsp, CaptureWithoutPsp,
     CaptureSettles, VoidIntent, FailsInside
<1>5. ASSUME NEW o \in Orders, SagaStep(o)
      PROVE  UNCHANGED reservation
  BY <1>5 DEF SagaStep, OrderOpened, ReservationCreated, IntentCreated, Captured, Committed, Released,
     Voided, CallRefused, CallTimesOut, StatementFails, MarkReserved, AttachPaymentIntent,
     MarkConfirmed, MarkFailed, UpdateStatus
<1>6. QED
  BY <1>2, <1>3, <1>4, <1>5 DEF Next, CancelStep, PlaceOrder, CancelStart, CancelReply,
     CancelTimesOut, ShipOrder, ListShipment, AdvanceShipment, otherVars, StockRowChanges,
     ReservationExpires, ClientCall, RequestLost, ExpiryTick, TickFails, OrdersCrash, vars

\* Every reservation is created pending and settled once, whoever settles it.
THEOREM SagaRefinesContract == Spec => ReservationAsPromised
<1>1. Init => Contract!Init
  BY DEF Init, Contract!Init
<1>2. TypeOK /\ [Next]_vars => [Contract!Next]_reservation
  BY StepRefines
<1>3. QED
  BY TypeCorrect, <1>1, <1>2, PTL DEF Spec, ReservationAsPromised, Contract!Spec
-----------------------------------------------------------------------------
(* Nothing is left open behind a failed order *)

\* Every request of a saga is waited for, one at a time, and a creation that
\* nobody waits for any more was given up by its saga or died with it.
Waited ==
    /\ \A c \in calls : c.by = "place" => reply[c.order].place = "none"
    /\ \A c, d \in calls :
           c.by = "place" /\ d.by = "place" /\ c.order = d.order => c = d
    /\ \A c \in calls : c.op \in {"createReservation", "createIntent"} =>
           \/ c.by = "place"
           \/ saga[c.order] = "crashed"
           \/ c.op \in thrown[c.order]

\* What the saga of o remembers exists, and what it does not remember it has
\* not created, unless the creation threw.
Owns(o) ==
    /\ saga[o] \in {"idle", "opened", "createReservation"} => comp[o] = {} /\ thrown[o] = {}
    /\ "reservation" \in comp[o] => reservation[o] # "none"
    /\ "intent" \in comp[o] => intent[o] # "none"
    /\ "reservation" \notin comp[o] =>
           saga[o] \in {"idle", "opened", "createReservation", "markFailed", "done"}
    /\ "intent" \notin comp[o] =>
           saga[o] \notin {"attachIntent", "capture", "commit", "markConfirmed", "void"}
    /\ "reservation" \notin comp[o] /\ "createReservation" \notin thrown[o] =>
           /\ saga[o] # "markFailed"
           /\ saga[o] # "createReservation" \/ reply[o].place = "none" => reservation[o] = "none"
    /\ "intent" \notin comp[o] /\ "createIntent" \notin thrown[o] =>
           (saga[o] # "createIntent" \/ reply[o].place = "none" => intent[o] = "none")
    /\ reply[o].place = "ok" =>
           /\ saga[o] = "createReservation" => reservation[o] # "none"
           /\ saga[o] = "createIntent" => intent[o] # "none"

\* Each step of the compensation finds settled what the steps before it were to
\* settle, unless one of them threw.
Clears(o) ==
    /\ saga[o] = "release" /\ reply[o].place = "ok" => reservation[o] # "pending"
    /\ saga[o] = "void" =>
           /\ reservation[o] # "pending"
           /\ reply[o].place = "ok" => intent[o] # "requires_capture"
    /\ saga[o] = "markFailed" => OpenOnlyAfterThrow(o)

Knows(o) ==
    /\ status[o] = "failed" => saga[o] = "done" /\ OpenOnlyAfterThrow(o)
    /\ saga[o] # "crashed" => Owns(o) /\ Clears(o)

OpenInv == Waited /\ \A o \in Orders : Knows(o)

\* How one step may change the reservation and the intent of o: they stay, or
\* are settled, or are created by a call that threw.
ReservationGoes(o) ==
    \/ reservation'[o] = reservation[o]
    \/ reservation[o] # "none" /\ reservation'[o] \in {"committed", "released"}
    \/ reservation[o] = "none" /\ "createReservation" \in thrown[o]

IntentGoes(o) ==
    \/ intent'[o] = intent[o]
    \/ intent[o] = "requires_capture" /\ intent'[o] \notin {"none", "requires_capture"}
    \/ intent[o] = "none" /\ "createIntent" \in thrown[o]

\* An order whose saga stands still.
LEMMA KnowsFrame ==
    ASSUME NEW o, Knows(o), status'[o] = status[o] \/ status'[o] # "failed",
           saga'[o] = saga[o], comp'[o] = comp[o], thrown'[o] = thrown[o],
           reply'[o].place = reply[o].place,
           ReservationGoes(o), IntentGoes(o)
    PROVE  Knows(o)'
<1>1. /\ reservation[o] # "none" => reservation'[o] \in {reservation[o], "committed", "released"}
      /\ "createReservation" \notin thrown[o] /\ reservation[o] = "none" => reservation'[o] = "none"
  BY DEF ReservationGoes
<1>2. /\ intent[o] # "none" => intent'[o] # "none"
      /\ intent[o] # "none" /\ intent[o] # "requires_capture" => intent'[o] = intent[o]
      /\ "createIntent" \notin thrown[o] /\ intent[o] = "none" => intent'[o] = "none"
  BY DEF IntentGoes
<1>3. OpenOnlyAfterThrow(o) => OpenOnlyAfterThrow(o)'
  BY <1>1, <1>2 DEF OpenOnlyAfterThrow
<1>4. Owns(o) => Owns(o)'
  BY <1>1, <1>2 DEF Owns
<1>5. Owns(o) /\ Clears(o) => Clears(o)'
  BY <1>1, <1>2, <1>3 DEF Owns, Clears
<1>6. QED
  BY <1>3, <1>4, <1>5 DEF Knows

\* An order whose saga gets the answer r to the call it waits for.
LEMMA KnowsAnswer ==
    ASSUME NEW o, Knows(o), status'[o] = status[o], saga'[o] = saga[o], comp'[o] = comp[o],
           thrown'[o] = thrown[o], saga[o] \in RemoteOps, NEW r, reply'[o].place = r, r # "none",
           ReservationGoes(o) \/ saga[o] = "createReservation",
           IntentGoes(o) \/ (saga[o] = "createIntent" /\ (intent[o] # "none" => intent'[o] # "none")),
           r = "ok" => /\ saga[o] = "createReservation" => reservation'[o] # "none"
                       /\ saga[o] = "createIntent" => intent'[o] # "none"
                       /\ saga[o] = "release" => reservation'[o] # "pending"
                       /\ saga[o] = "void" => intent'[o] # "requires_capture"
    PROVE  Knows(o)'
<1>0. status[o] # "failed" /\ Owns(o) /\ Clears(o)
  BY DEF Knows, RemoteOps
<1>1. saga[o] # "createReservation" =>
         /\ reservation[o] # "none" => reservation'[o] \in {reservation[o], "committed", "released"}
         /\ "createReservation" \notin thrown[o] /\ reservation[o] = "none" => reservation'[o] = "none"
  BY DEF ReservationGoes
<1>2. /\ intent[o] # "none" => intent'[o] # "none"
      /\ saga[o] # "createIntent" /\ "createIntent" \notin thrown[o] /\ intent[o] = "none"
            => intent'[o] = "none"
  BY DEF IntentGoes
<1>3. Owns(o)'
  BY <1>0, <1>1, <1>2 DEF Owns, RemoteOps
<1>4. Clears(o)'
  BY <1>0, <1>1 DEF Owns, Clears, RemoteOps
<1>5. QED
  BY <1>0, <1>3, <1>4 DEF Knows

\* A saga goes on when it has its answer, or gives up on the call and remembers
\* that it threw.
LEMMA GoesWaited ==
    ASSUME TypeOK, PlaceCalls, Waited, NEW o \in Orders, NEW pc, SagaGoes(o, pc),
           \A p \in Orders : thrown[p] \subseteq thrown'[p],
           \/ reply[o].place # "none"
           \/ saga[o] \notin RemoteOps
           \/ saga[o] \in thrown'[o],
           saga[o] # "crashed"
    PROVE  Waited'
<1>1. calls \subseteq Call /\ \A c \in calls : c.order \in Orders /\ c.op \in RemoteOps
  BY DEF TypeOK, Call
<1>2. \A c \in RequestAt(pc, o, "place") : c = Request(pc, o, "place")
  BY DEF RequestAt
<1>3. Request(pc, o, "place").order = o /\ Request(pc, o, "place").by = "place"
  BY DEF Request
<1>4. \A c \in Abandoned(o, "place") : \E d \in calls :
         /\ c.op = d.op /\ c.order = d.order
         /\ \/ c = d /\ ~(d.order = o /\ d.by = "place")
            \/ c.by = "gone" /\ d.order = o /\ d.by = "place"
  <2>1. ASSUME NEW d \in calls
        PROVE  /\ [d EXCEPT !.by = "gone"].op = d.op
               /\ [d EXCEPT !.by = "gone"].order = d.order
               /\ [d EXCEPT !.by = "gone"].by = "gone"
    BY <1>1 DEF Call
  <2>2. ASSUME NEW c \in Abandoned(o, "place")
        PROVE  \E d \in calls :
                  /\ c.op = d.op /\ c.order = d.order
                  /\ \/ c = d /\ ~(d.order = o /\ d.by = "place")
                     \/ c.by = "gone" /\ d.order = o /\ d.by = "place"
    <3>1. PICK d \in calls :
             c = IF d.order = o /\ d.by = "place" THEN [d EXCEPT !.by = "gone"] ELSE d
      BY <2>2 DEF Abandoned
    <3>2. CASE d.order = o /\ d.by = "place"
      <4>1. c = [d EXCEPT !.by = "gone"]
        BY <3>1, <3>2
      <4>2. QED
        BY <2>1, <3>2, <4>1
    <3>3. CASE ~(d.order = o /\ d.by = "place")
      <4>1. c = d
        BY <3>1, <3>3
      <4>2. QED
        BY <3>3, <4>1
    <3>4. QED
      BY <3>2, <3>3
  <2>3. QED
    BY <2>2
<1>5. /\ reply'[o].place = "none"
      /\ \A p \in Orders : p # o => reply'[p] = reply[p] /\ saga'[p] = saga[p]
  BY DEF SagaGoes, TypeOK, Callers
<1>6. ASSUME NEW c \in calls'
      PROVE  \/ c = Request(pc, o, "place")
             \/ c \in calls /\ ~(c.order = o /\ c.by = "place")
             \/ c.by = "gone" /\ c.order = o /\ c.op = saga[o] /\ c.op \in thrown'[o]
  <2>1. CASE c \in RequestAt(pc, o, "place")
    BY <1>2, <2>1
  <2>2. CASE c \in Abandoned(o, "place")
    <3>1. PICK d \in calls :
             /\ c.op = d.op /\ c.order = d.order
             /\ \/ c = d /\ ~(d.order = o /\ d.by = "place")
                \/ c.by = "gone" /\ d.order = o /\ d.by = "place"
      BY <1>4, <2>2
    <3>2. d.order = o /\ d.by = "place" =>
             d.op = saga[o] /\ reply[o].place = "none" /\ saga[o] \in RemoteOps
      BY <1>1, <3>1 DEF PlaceCalls, Waited
    <3>3. QED
      BY <3>1, <3>2
  <2>3. QED
    BY <2>1, <2>2 DEF SagaGoes
<1>7. ASSUME NEW c \in calls', c.by = "place"
      PROVE  reply'[c.order].place = "none"
  <2>1. CASE c = Request(pc, o, "place")
    BY <1>3, <1>5, <2>1
  <2>2. CASE c \in calls /\ ~(c.order = o /\ c.by = "place")
    <3>1. c.order \in Orders /\ c.order # o
      BY <1>1, <1>7, <2>2
    <3>2. reply[c.order].place = "none"
      BY <1>7, <2>2 DEF Waited
    <3>3. QED
      BY <1>5, <3>1, <3>2
  <2>3. QED
    BY <1>6, <1>7, <2>1, <2>2
<1>8. \A c, d \in calls' : c.by = "place" /\ d.by = "place" /\ c.order = d.order => c = d
  BY <1>3, <1>6 DEF Waited
<1>9. ASSUME NEW c \in calls', c.op \in {"createReservation", "createIntent"}
      PROVE  c.by = "place" \/ saga'[c.order] = "crashed" \/ c.op \in thrown'[c.order]
  <2>1. CASE c \in calls /\ c.by # "place"
    <3>1. c.order \in Orders
      BY <1>1, <2>1
    <3>2. saga[c.order] = "crashed" \/ c.op \in thrown[c.order]
      BY <1>9, <2>1 DEF Waited
    <3>3. saga[c.order] = "crashed" => saga'[c.order] = "crashed"
      BY <1>5, <3>1
    <3>4. QED
      BY <3>1, <3>2, <3>3
  <2>2. QED
    BY <1>3, <1>6, <2>1
<1>10. QED
  BY <1>7, <1>8, <1>9 DEF Waited

\* The orders whose saga does not move.
LEMMA GoesOthers ==
    ASSUME TypeOK, NEW o \in Orders, NEW pc, SagaGoes(o, pc),
           UNCHANGED <<reservation, intent>>,
           \A p \in Orders : p # o => /\ status'[p] = status[p] /\ comp'[p] = comp[p]
                                      /\ thrown'[p] = thrown[p] /\ Knows(p),
           Knows(o)'
    PROVE  \A p \in Orders : Knows(p)'
<1>1. ASSUME NEW p \in Orders, p # o
      PROVE  Knows(p)'
  <2>1. saga'[p] = saga[p] /\ reply'[p] = reply[p]
    BY <1>1 DEF SagaGoes, TypeOK
  <2>2. Knows(p) /\ status'[p] = status[p] /\ comp'[p] = comp[p] /\ thrown'[p] = thrown[p]
    BY <1>1
  <2>3. reply'[p].place = reply[p].place /\ ReservationGoes(p) /\ IntentGoes(p)
    BY <2>1 DEF ReservationGoes, IntentGoes
  <2>4. QED
    BY <2>1, <2>2, <2>3, KnowsFrame
<1>2. QED
  BY <1>1

\* Every step of a placeOrder handler.
LEMMA SagaStepOpen ==
    ASSUME IInv, OpenInv, NEW o \in Orders, PlaceOrder(o) \/ SagaStep(o)
    PROVE  OpenInv'
<1> USE DEF rowVars, sagaVars, expiryVars, resVars, payVars
<1>t. TypeOK /\ PlaceCalls /\ Waited /\ \A p \in Orders : Knows(p)
  BY DEF IInv, OpenInv
<1>k. Knows(o)
  BY <1>t
<1>r. /\ reply[o].place \in {"none", "ok", "refused"} /\ comp[o] \subseteq {"reservation", "intent"}
      /\ saga[o] \in SagaPc
  BY <1>t DEF TypeOK, Reply, Callers, Ids
<1>g. \A pc : SagaGoes(o, pc) => saga'[o] = pc /\ reply'[o].place = "none"
  BY <1>t DEF SagaGoes, TypeOK, Callers
<1> DEFINE Goes(pc) ==
        /\ SagaGoes(o, pc)
        /\ UNCHANGED <<reservation, intent>>
        /\ \/ reply[o].place # "none" /\ thrown' = thrown
           \/ saga[o] \notin RemoteOps /\ thrown' = thrown
           \/ saga[o] \in RemoteOps /\ thrown' = [thrown EXCEPT ![o] = @ \cup {saga[o]}]
        /\ saga[o] # "crashed"
        /\ \A p \in Orders : p # o => status'[p] = status[p] /\ comp'[p] = comp[p]
<1>h. ASSUME NEW pc, Goes(pc)
      PROVE  /\ \A p \in Orders : p # o => thrown'[p] = thrown[p]
             /\ thrown'[o] = thrown[o] \/ (thrown'[o] = thrown[o] \cup {saga[o]} /\ saga[o] \in RemoteOps)
             /\ reply[o].place # "none" \/ saga[o] \notin RemoteOps \/ saga[o] \in thrown'[o]
  BY <1>h, <1>t DEF Goes, TypeOK
<1>q. ASSUME NEW pc, Goes(pc), Knows(o)'
      PROVE  OpenInv'
  <2>1. \A p \in Orders : thrown[p] \subseteq thrown'[p]
    BY <1>h, <1>q
  <2>2. Waited'
    BY <1>h, <1>q, <1>t, <2>1, GoesWaited DEF Goes
  <2>3. \A p \in Orders : Knows(p)'
    BY <1>h, <1>q, <1>t, GoesOthers DEF Goes
  <2>4. QED
    BY <2>2, <2>3 DEF OpenInv
<1>0. ASSUME NEW pc, Goes(pc)
      PROVE  /\ saga'[o] = pc /\ reply'[o].place = "none"
             /\ reservation'[o] = reservation[o] /\ intent'[o] = intent[o]
             /\ Owns(o) /\ Clears(o)
  BY <1>0, <1>g, <1>k DEF Goes, Knows
<1> HIDE DEF Goes
<1>1. CASE PlaceOrder(o)
  <2>1. Goes("opened") /\ comp' = comp /\ thrown' = thrown /\ status'[o] = "pending"
    BY <1>1, <1>t DEF Goes, PlaceOrder, TypeOK, RemoteOps
  <2>2. saga[o] = "idle"
    BY <1>1 DEF PlaceOrder
  <2>3. Knows(o)'
    BY <2>1, <2>2, <1>0 DEF Knows, Owns, Clears
  <2>4. QED
    BY <1>q, <2>1, <2>3
<1>2. CASE OrderOpened(o)
  <2>1. Goes("createReservation") /\ comp' = comp /\ thrown' = thrown /\ status' = status
    BY <1>2 DEF Goes, OrderOpened, RemoteOps
  <2>2. saga[o] = "opened"
    BY <1>2 DEF OrderOpened
  <2>3. Knows(o)'
    BY <2>1, <2>2, <1>0, <1>k DEF Knows, Owns, Clears
  <2>4. QED
    BY <1>q, <2>1, <2>3
<1>3. CASE ReservationCreated(o)
  <2>1. /\ Goes("markReserved") /\ comp'[o] = comp[o] \cup {"reservation"}
        /\ thrown' = thrown /\ status' = status
    BY <1>3, <1>t DEF Goes, ReservationCreated, TypeOK
  <2>2. saga[o] = "createReservation" /\ reply[o].place = "ok"
    BY <1>3 DEF ReservationCreated
  <2>3. Knows(o)'
    BY <2>1, <2>2, <1>0, <1>k DEF Knows, Owns, Clears
  <2>4. QED
    BY <1>q, <2>1, <2>3
<1>4. CASE IntentCreated(o)
  <2>1. /\ Goes("attachIntent") /\ comp'[o] = comp[o] \cup {"intent"}
        /\ thrown' = thrown /\ status' = status
    BY <1>4, <1>t DEF Goes, IntentCreated, TypeOK
  <2>2. saga[o] = "createIntent" /\ reply[o].place = "ok"
    BY <1>4 DEF IntentCreated
  <2>3. Knows(o)'
    BY <2>1, <2>2, <1>0, <1>k DEF Knows, Owns, Clears
  <2>4. QED
    BY <1>q, <2>1, <2>3
\* An answer is read, or a step throws.
<1>a. ASSUME NEW pc, Goes(pc), UNCHANGED <<status, comp>>,
             \/ saga[o] = "capture" /\ pc = "commit" /\ thrown' = thrown
             \/ saga[o] = "commit" /\ pc = "markConfirmed" /\ thrown' = thrown
             \/ saga[o] = "release" /\ reply[o].place = "ok" /\ thrown' = thrown
                /\ pc = IF "intent" \in comp[o] THEN "void" ELSE "markFailed"
             \/ saga[o] = "void" /\ reply[o].place = "ok" /\ pc = "markFailed" /\ thrown' = thrown
             \/ saga[o] \in RemoteOps /\ pc = AfterThrow(o) /\ thrown'[o] = thrown[o] \cup {saga[o]}
             \/ saga[o] \in LocalSteps /\ pc = AfterThrow(o) /\ thrown' = thrown
      PROVE  OpenInv'
  <2>1. /\ saga'[o] = pc /\ reply'[o].place = "none" /\ reservation'[o] = reservation[o]
        /\ intent'[o] = intent[o] /\ status'[o] = status[o] /\ comp'[o] = comp[o]
    BY <1>0, <1>a
  <2>2. Owns(o) /\ Clears(o)
    BY <1>0, <1>a
  <2>3. status[o] # "failed"
    BY <1>a, <1>k DEF Knows, RemoteOps, LocalSteps
  <2>4. CASE thrown' = thrown /\ reply[o].place = "ok"
             /\ \/ saga[o] = "release"
                   /\ pc = IF "intent" \in comp[o] THEN "void" ELSE "markFailed"
                \/ saga[o] = "void" /\ pc = "markFailed"
    <3>0. /\ thrown'[o] = thrown[o]
          /\ saga[o] = "release" /\ "intent" \notin comp[o] => pc = "markFailed"
          /\ saga[o] = "release" /\ "intent" \in comp[o] => pc = "void"
          /\ saga[o] = "void" => pc = "markFailed"
      BY <2>4
    <3>1. Owns(o)'
      BY <2>1, <2>2, <2>4, <3>0 DEF Owns
    <3>2. Clears(o)'
      BY <2>1, <2>2, <2>4, <3>0 DEF Owns, Clears, OpenOnlyAfterThrow
    <3>3. QED
      BY <1>q, <1>a, <2>1, <2>3, <3>1, <3>2 DEF Knows
  <2>5. CASE thrown' = thrown
             /\ \/ saga[o] = "capture" /\ pc = "commit"
                \/ saga[o] = "commit" /\ pc = "markConfirmed"
    <3>0. thrown'[o] = thrown[o]
      BY <2>5
    <3>1. Owns(o)'
      BY <2>1, <2>2, <2>5, <3>0 DEF Owns
    <3>2. Clears(o)'
      BY <2>1, <2>5 DEF Clears
    <3>3. QED
      BY <1>q, <1>a, <2>1, <2>3, <3>1, <3>2 DEF Knows
  <2>6. CASE saga[o] \in RemoteOps /\ pc = AfterThrow(o) /\ thrown'[o] = thrown[o] \cup {saga[o]}
    <3>1. Owns(o)'
      BY <2>1, <2>2, <2>6, <1>r DEF Owns, AfterThrow, RemoteOps
    <3>2. Clears(o)'
      BY <2>1, <2>2, <2>6, <1>r DEF Owns, Clears, OpenOnlyAfterThrow, AfterThrow, RemoteOps
    <3>3. QED
      BY <1>q, <1>a, <2>1, <2>3, <3>1, <3>2 DEF Knows
  <2>7. CASE saga[o] \in LocalSteps /\ pc = AfterThrow(o) /\ thrown' = thrown
    <3>1. Owns(o)'
      BY <2>1, <2>2, <2>7, <1>r DEF Owns, AfterThrow, LocalSteps
    <3>2. Clears(o)'
      BY <2>1, <2>2, <2>7, <1>r DEF Owns, Clears, OpenOnlyAfterThrow, AfterThrow, LocalSteps
    <3>3. QED
      BY <1>q, <1>a, <2>1, <2>3, <3>1, <3>2 DEF Knows
  <2>8. QED
    BY <1>a, <2>4, <2>5, <2>6, <2>7
<1>5. CASE Captured(o) \/ Committed(o) \/ Released(o) \/ Voided(o)
  <2>1. /\ reply[o].place = "ok" /\ saga[o] \in RemoteOps
        /\ UNCHANGED <<status, comp, thrown, reservation, intent>>
    BY <1>5 DEF Captured, Committed, Released, Voided, RemoteOps
  <2>2. \A pc : SagaGoes(o, pc) => Goes(pc)
    BY <2>1 DEF Goes, RemoteOps
  <2>3. QED
    BY <1>5, <1>a, <2>1, <2>2 DEF Captured, Committed, Released, Voided
<1>6. CASE CallRefused(o) \/ CallTimesOut(o)
  <2>1. /\ saga[o] \in RemoteOps /\ SagaGoes(o, AfterThrow(o))
        /\ thrown' = [thrown EXCEPT ![o] = @ \cup {saga[o]}]
        /\ UNCHANGED <<status, comp, reservation, intent>>
    BY <1>6 DEF CallRefused, CallTimesOut
  <2>2. Goes(AfterThrow(o))
    BY <2>1 DEF Goes, RemoteOps
  <2>3. thrown'[o] = thrown[o] \cup {saga[o]}
    BY <2>1, <1>t DEF TypeOK
  <2>4. QED
    BY <1>a, <2>1, <2>2, <2>3
<1>7. CASE StatementFails(o)
  <2>1. /\ saga[o] \in LocalSteps /\ SagaGoes(o, AfterThrow(o))
        /\ UNCHANGED <<status, comp, thrown, reservation, intent>>
    BY <1>7 DEF StatementFails
  <2>2. Goes(AfterThrow(o))
    BY <2>1 DEF Goes, LocalSteps, RemoteOps
  <2>3. QED
    BY <1>a, <2>1, <2>2
\* An UPDATE that found its row goes on or throws all the same.
<1>u. ASSUME NEW from, NEW to \in {"reserved", "confirmed", "failed"}, NEW pc,
             UpdateStatus(o, from, to, pc),
             \/ saga[o] = "markReserved" /\ to = "reserved" /\ pc = "createIntent"
             \/ saga[o] = "attachIntent" /\ to = "reserved" /\ pc = "capture"
             \/ saga[o] = "markConfirmed" /\ to = "confirmed" /\ pc = "done"
             \/ saga[o] = "markFailed" /\ to = "failed" /\ pc = "done"
      PROVE  OpenInv'
  <2>1. PICK next \in {pc, AfterThrow(o)} : SagaGoes(o, next)
    BY <1>u DEF UpdateStatus
  <2>2. /\ UNCHANGED <<comp, thrown, reservation, intent>>
        /\ \A p \in Orders : p # o => status'[p] = status[p]
        /\ status'[o] \in {status[o], to}
    BY <1>u, <1>t DEF UpdateStatus, TypeOK
  <2>3. Goes(next)
    BY <1>u, <2>1, <2>2 DEF Goes, RemoteOps
  <2>4. /\ saga'[o] = next /\ reply'[o].place = "none" /\ reservation'[o] = reservation[o]
        /\ intent'[o] = intent[o] /\ comp'[o] = comp[o] /\ thrown'[o] = thrown[o]
        /\ Owns(o) /\ Clears(o)
    BY <1>0, <2>2, <2>3
  <2>5. status[o] # "failed"
    BY <1>u, <1>k DEF Knows
  <2>6. Owns(o)'
    BY <1>u, <2>1, <2>4, <1>r DEF Owns, AfterThrow
  <2>7. Clears(o)'
    BY <1>u, <2>1, <2>4, <1>r DEF Owns, Clears, OpenOnlyAfterThrow, AfterThrow
  <2>8. status'[o] = "failed" => saga'[o] = "done" /\ OpenOnlyAfterThrow(o)'
    BY <1>u, <2>1, <2>2, <2>4, <2>5 DEF Clears, OpenOnlyAfterThrow, AfterThrow
  <2>9. QED
    BY <1>q, <2>3, <2>6, <2>7, <2>8 DEF Knows
<1>8. CASE MarkReserved(o) \/ AttachPaymentIntent(o) \/ MarkConfirmed(o) \/ MarkFailed(o)
  BY <1>8, <1>u DEF MarkReserved, AttachPaymentIntent, MarkConfirmed, MarkFailed
<1>9. QED
  BY <1>1, <1>2, <1>3, <1>4, <1>5, <1>6, <1>7, <1>8 DEF SagaStep

\* A service that answers call c, having settled what belongs to its order or
\* created what the call asks for.
LEMMA AnswerOpen ==
    ASSUME IInv, OpenInv, NEW c \in calls, NEW r \in {"ok", "refused"}, Answered(c, r),
           UNCHANGED <<status, saga, comp, thrown>>,
           \A p \in Orders :
               \/ reservation'[p] = reservation[p]
               \/ reservation[p] # "none" /\ reservation'[p] \in {"committed", "released"}
               \/ p = c.order /\ c.op = "createReservation" /\ reservation[p] = "none",
           \A p \in Orders :
               \/ intent'[p] = intent[p]
               \/ intent[p] = "requires_capture" /\ intent'[p] \notin {"none", "requires_capture"}
               \/ p = c.order /\ c.op = "createIntent" /\ intent[p] = "none",
           r = "ok" => /\ c.op = "createReservation" => reservation'[c.order] # "none"
                       /\ c.op = "createIntent" => intent'[c.order] # "none"
                       /\ c.op = "release" => reservation'[c.order] # "pending"
                       /\ c.op = "void" => intent'[c.order] # "requires_capture"
    PROVE  OpenInv'
<1>1. /\ TypeOK /\ PlaceCalls /\ Waited /\ c \in Call /\ c.order \in Orders /\ c.op \in RemoteOps
      /\ calls \subseteq Call
  BY DEF IInv, TypeOK, OpenInv, Call
<1>a. PICK a \in {r, "refused"} : Answer(c, a)
  BY DEF Answered
<1>2. \A p \in Orders : p # c.order => reply'[p] = reply[p]
  BY <1>1, <1>a DEF Answer, TypeOK
<1>3. reply'[c.order].place = IF c.by = "place" THEN a ELSE reply[c.order].place
  BY <1>1, <1>a DEF Answer, TypeOK, Callers
<1>4. calls' = calls \ {c}
  BY <1>a DEF Answer
<1>5. ASSUME NEW d \in calls', d.by = "place"
      PROVE  reply'[d.order].place = "none"
  <2>1. d \in calls /\ d # c /\ d.order \in Orders
    BY <1>1, <1>4, <1>5 DEF Call
  <2>2. ~(c.by = "place" /\ c.order = d.order)
    BY <1>1, <1>5, <2>1 DEF Waited
  <2>3. QED
    BY <1>1, <1>2, <1>3, <1>5, <2>1, <2>2 DEF Waited
<1>6. Waited'
  BY <1>1, <1>4, <1>5 DEF Waited
<1>7. ASSUME NEW p \in Orders
      PROVE  Knows(p)'
  <2>1. Knows(p)
    BY DEF OpenInv
  <2>2. CASE p = c.order /\ c.by = "place"
    <3>1. saga[p] = c.op
      BY <1>1, <2>2 DEF PlaceCalls
    <3>2. ReservationGoes(p) \/ saga[p] = "createReservation"
      BY <3>1 DEF ReservationGoes
    <3>3. IntentGoes(p) \/ (saga[p] = "createIntent" /\ (intent[p] # "none" => intent'[p] # "none"))
      BY <3>1 DEF IntentGoes
    <3>4. reply'[p].place = a /\ a # "none" /\ (a = "ok" => r = "ok")
      BY <1>3, <2>2
    <3>5. QED
      BY <1>1, <2>1, <2>2, <3>1, <3>2, <3>3, <3>4, KnowsAnswer
  <2>3. CASE ~(p = c.order /\ c.by = "place")
    <3>1. reply'[p].place = reply[p].place
      BY <1>2, <1>3, <2>3
    <3>2. CASE saga[p] = "crashed"
      BY <2>1, <3>2 DEF Knows
    <3>3. CASE saga[p] # "crashed"
      <4>1. p = c.order /\ c.op \in {"createReservation", "createIntent"} => c.op \in thrown[p]
        BY <1>1, <2>3, <3>3 DEF Waited
      <4>2. ReservationGoes(p) /\ IntentGoes(p)
        BY <4>1 DEF ReservationGoes, IntentGoes
      <4>3. QED
        BY <2>1, <3>1, <4>2, KnowsFrame
    <3>4. QED
      BY <3>2, <3>3
  <2>4. QED
    BY <2>2, <2>3
<1>8. QED
  BY <1>6, <1>7 DEF OpenInv

LEMMA ServiceStepOpen ==
    ASSUME IInv, OpenInv, NEW c \in calls, ServiceStep(c)
    PROVE  OpenInv'
<1> USE DEF rowVars, sagaVars, expiryVars, resVars, payVars
<1>t. TypeOK /\ Waited /\ \A p \in Orders : Knows(p)
  BY DEF IInv, OpenInv
<1>c. c \in Call /\ c.order \in Orders
  BY <1>t DEF TypeOK, Call
<1>a. \A r : Answer(c, r) => Answered(c, r)
  BY DEF Answered
<1>1. CASE CreateReservation(c)
  <2>1. PICK r \in {"ok", "refused"} :
           /\ Answered(c, r)
           /\ reservation' = IF r = "ok" THEN [reservation EXCEPT ![c.order] = "pending"]
                             ELSE reservation
    BY <1>1, <1>a DEF CreateReservation
  <2>2. /\ UNCHANGED <<status, saga, comp, thrown, intent>>
        /\ c.op = "createReservation" /\ reservation[c.order] = "none"
    BY <1>1 DEF CreateReservation
  <2>3. /\ \A p \in Orders : p # c.order => reservation'[p] = reservation[p]
        /\ r = "ok" => reservation'[c.order] = "pending"
    BY <1>t, <1>c, <2>1 DEF TypeOK
  <2>4. QED
    BY <2>1, <2>2, <2>3, AnswerOpen
<1>2. CASE CommitReservation(c)
  <2>1. PICK r \in {"ok", "refused"} :
           /\ Answered(c, r)
           /\ reservation'[c.order] = IF r = "ok" THEN "committed" ELSE reservation[c.order]
           /\ r = "ok" => reservation[c.order] # "none"
           /\ \A p \in Orders : p # c.order => reservation'[p] = reservation[p]
    BY <1>2, <1>t, <1>c, <1>a DEF CommitReservation, TypeOK
  <2>2. UNCHANGED <<status, saga, comp, thrown, intent>> /\ c.op = "commit"
    BY <1>2 DEF CommitReservation
  <2>3. QED
    BY <2>1, <2>2, AnswerOpen
<1>3. CASE ReleaseReservation(c)
  <2>1. PICK r \in {"ok", "refused"} :
           /\ Answered(c, r)
           /\ reservation'[c.order] = IF r = "ok" THEN "released" ELSE reservation[c.order]
           /\ r = "ok" => reservation[c.order] # "none"
           /\ \A p \in Orders : p # c.order => reservation'[p] = reservation[p]
    BY <1>3, <1>t, <1>c, <1>a DEF ReleaseReservation, TypeOK
  <2>2. UNCHANGED <<status, saga, comp, thrown, intent>> /\ c.op = "release"
    BY <1>3 DEF ReleaseReservation
  <2>3. QED
    BY <2>1, <2>2, AnswerOpen
<1>4. CASE CreateIntent(c)
  <2>1. PICK r \in {"ok", "refused"} :
           /\ Answered(c, r)
           /\ \/ intent'[c.order] = intent[c.order]
              \/ intent[c.order] = "none" /\ intent'[c.order] = "requires_capture"
           /\ r = "ok" => intent'[c.order] # "none"
           /\ \A p \in Orders : p # c.order => intent'[p] = intent[p]
    BY <1>4, <1>t, <1>c, <1>a DEF CreateIntent, TypeOK
  <2>2. UNCHANGED <<status, saga, comp, thrown, reservation>> /\ c.op = "createIntent"
    BY <1>4 DEF CreateIntent
  <2>3. QED
    BY <2>1, <2>2, AnswerOpen
<1>5. CASE CaptureAtPsp(c)
  <2>1. PICK p \in {"charged", "declined"} :
           calls' = (calls \ {c}) \cup {[c EXCEPT !.phase = p]}
    BY <1>5 DEF CaptureAtPsp
  <2>2. /\ [c EXCEPT !.phase = p].by = c.by /\ [c EXCEPT !.phase = p].order = c.order
        /\ [c EXCEPT !.phase = p].op = c.op
    BY <1>c DEF Call
  <2>3. UNCHANGED <<status, saga, comp, thrown, reply, reservation, intent>>
    BY <1>5 DEF CaptureAtPsp
  <2>4. Waited'
    <3>1. \A d \in calls' : \E e \in calls :
             /\ d.by = e.by /\ d.order = e.order /\ d.op = e.op
             /\ IF e = c THEN d = [c EXCEPT !.phase = p] ELSE d = e
      BY <2>1, <2>2
    <3>2. \A d, e \in calls' : d.by = "place" /\ e.by = "place" /\ d.order = e.order => d = e
      BY <1>t, <3>1 DEF Waited
    <3>3. QED
      BY <1>t, <2>3, <3>1, <3>2 DEF Waited
  <2>5. \A q \in Orders : Knows(q)'
    BY <1>t, <2>3, KnowsFrame DEF ReservationGoes, IntentGoes
  <2>6. QED
    BY <2>4, <2>5 DEF OpenInv
<1>6. CASE CaptureWithoutPsp(c)
  <2>1. PICK r \in {"ok", "refused"} : Answered(c, r)
    BY <1>6 DEF CaptureWithoutPsp
  <2>2. UNCHANGED <<status, saga, comp, thrown, reservation, intent>> /\ c.op = "capture"
    BY <1>6 DEF CaptureWithoutPsp
  <2>3. QED
    BY <2>1, <2>2, AnswerOpen
<1>7. CASE CaptureSettles(c)
  <2>1. c.op = "capture"
    BY <1>7 DEF CaptureSettles, IInv, ChargesCounted
  <2>2. PICK r \in {"ok", "refused"} : Answered(c, r)
    BY <1>7 DEF CaptureSettles
  <2>3. /\ \/ intent'[c.order] = intent[c.order]
           \/ intent[c.order] = "requires_capture" /\ intent'[c.order] \in {"succeeded", "failed"}
        /\ \A p \in Orders : p # c.order => intent'[p] = intent[p]
    BY <1>7, <1>t, <1>c DEF CaptureSettles, TypeOK
  <2>4. UNCHANGED <<status, saga, comp, thrown, reservation>>
    BY <1>7 DEF CaptureSettles
  <2>5. QED
    BY <2>1, <2>2, <2>3, <2>4, AnswerOpen
<1>8. CASE VoidIntent(c)
  <2>1. /\ \/ intent'[c.order] = intent[c.order] /\ intent[c.order] # "requires_capture"
           \/ intent[c.order] = "requires_capture" /\ intent'[c.order] = "voided"
        /\ \A p \in Orders : p # c.order => intent'[p] = intent[p]
    BY <1>8, <1>t, <1>c DEF VoidIntent, TypeOK
  <2>2. PICK r \in {"ok", "refused"} : Answered(c, r)
    BY <1>8 DEF VoidIntent
  <2>3. UNCHANGED <<status, saga, comp, thrown, reservation>> /\ c.op = "void"
    BY <1>8 DEF VoidIntent
  <2>4. QED
    BY <2>1, <2>2, <2>3, AnswerOpen
<1>9. CASE FailsInside(c)
  BY <1>9, <1>a, AnswerOpen DEF FailsInside
<1>10. QED
  BY <1>1, <1>2, <1>3, <1>4, <1>5, <1>6, <1>7, <1>8, <1>9 DEF ServiceStep

\* What neither a saga nor a service does.
LEMMA OtherStepOpen ==
    ASSUME IInv, OpenInv, UNCHANGED <<saga, comp, thrown, intent>>,
           \A o \in Orders : status'[o] = status[o] \/ status'[o] # "failed",
           \A o \in Orders : reply'[o].place = reply[o].place,
           \A o \in Orders :
               \/ reservation'[o] = reservation[o]
               \/ reservation[o] # "none" /\ reservation'[o] = "released",
           \A c \in calls' :
               c \in calls \/ (c.by # "place" /\ c.op \notin {"createReservation", "createIntent"})
    PROVE  OpenInv'
<1>1. \A c \in calls : c.order \in Orders
  BY DEF IInv, TypeOK, Call
<1>2. Waited'
  BY <1>1 DEF OpenInv, Waited
<1>3. ASSUME NEW o \in Orders
      PROVE  Knows(o)'
  BY KnowsFrame DEF OpenInv, ReservationGoes, IntentGoes
<1>4. QED
  BY <1>2, <1>3 DEF OpenInv

LEMMA NextOpen ==
    ASSUME IInv, OpenInv, [Next]_vars
    PROVE  OpenInv'
<1> USE DEF rowVars, sagaVars, expiryVars, resVars, payVars
<1>t. TypeOK
  BY DEF IInv
<1>1. ASSUME NEW o \in Orders, PlaceOrder(o) \/ SagaStep(o)
      PROVE  OpenInv'
  BY <1>1, SagaStepOpen
<1>2. ASSUME NEW o \in Orders, CancelStart(o)
      PROVE  OpenInv'
  <2>1. Request("release", o, "cancel").by = "cancel" /\ Request("release", o, "cancel").op = "release"
    BY DEF Request
  <2>2. QED
    BY <1>2, <2>1, OtherStepOpen DEF CancelStart
<1>3. ASSUME NEW o \in Orders, CancelReply(o)
      PROVE  OpenInv'
  <2>1. \A p \in Orders : reply'[p].place = reply[p].place
    BY <1>3, <1>t DEF CancelReply, TypeOK, Callers
  <2>2. Request("void", o, "cancel").by = "cancel" /\ Request("void", o, "cancel").op = "void"
    BY DEF Request
  <2>3. \A p \in Orders : status'[p] = status[p] \/ status'[p] # "failed"
    BY <1>3, <1>t DEF CancelReply, TypeOK
  <2>4. \A c \in calls' :
           c \in calls \/ (c.by # "place" /\ c.op \notin {"createReservation", "createIntent"})
    BY <1>3, <2>2 DEF CancelReply
  <2>5. QED
    BY <1>3, <2>1, <2>3, <2>4, OtherStepOpen DEF CancelReply
<1>4. ASSUME NEW o \in Orders, CancelTimesOut(o)
      PROVE  OpenInv'
  <2>1. \A p \in Orders : reply'[p].place = reply[p].place
    BY <1>4, <1>t DEF CancelTimesOut, CancelEnds, TypeOK, Callers
  <2>2. ASSUME NEW c \in Abandoned(o, "cancel")
        PROVE  c \in calls \/ (c.by # "place" /\ c.op \notin {"createReservation", "createIntent"})
    <3>1. PICK d \in calls :
             c = IF d.order = o /\ d.by = "cancel" THEN [d EXCEPT !.by = "gone"] ELSE d
      BY DEF Abandoned
    <3>2. d \in Call /\ (d.by = "cancel" => d.op = "release")
      BY <1>t DEF TypeOK, IInv, CancelCalls
    <3>3. [d EXCEPT !.by = "gone"].by = "gone" /\ [d EXCEPT !.by = "gone"].op = d.op
      BY <3>2 DEF Call
    <3>4. QED
      BY <3>1, <3>2, <3>3
  <2>3. calls' = Abandoned(o, "cancel")
    BY <1>4 DEF CancelTimesOut, CancelEnds
  <2>4. UNCHANGED <<status, saga, comp, thrown, reservation, intent>>
    BY <1>4 DEF CancelTimesOut
  <2>5. QED
    BY <2>1, <2>2, <2>3, <2>4, OtherStepOpen
<1>5. ASSUME NEW o \in Orders, ShipOrder(o)
      PROVE  OpenInv'
  <2>1. \A p \in Orders : status'[p] = status[p] \/ status'[p] # "failed"
    BY <1>5, <1>t DEF ShipOrder, TypeOK
  <2>2. QED
    BY <1>5, <2>1, OtherStepOpen DEF ShipOrder
<1>6. ASSUME NEW o \in Orders, ExpireReservation(o)
      PROVE  OpenInv'
  <2>1. \A p \in Orders :
           \/ reservation'[p] = reservation[p]
           \/ reservation[p] # "none" /\ reservation'[p] = "released"
    BY <1>6, <1>t DEF ExpireReservation, TypeOK
  <2>2. QED
    BY <1>6, <2>1, OtherStepOpen DEF ExpireReservation
<1>7. ASSUME NEW o \in Orders, NEW op \in {"commit", "release", "capture", "void"},
             ClientCall(o, op)
      PROVE  OpenInv'
  <2>1. Request(op, o, "client").by = "client" /\ Request(op, o, "client").op = op
    BY DEF Request
  <2>2. QED
    BY <1>7, <2>1, OtherStepOpen DEF ClientCall
<1>8. ASSUME NEW c \in calls, ServiceStep(c)
      PROVE  OpenInv'
  BY <1>8, ServiceStepOpen
<1>9. ASSUME NEW c \in calls, RequestLost(c)
      PROVE  OpenInv'
  BY <1>9, OtherStepOpen DEF RequestLost
<1>10. CASE OrdersCrash
  \* Every saga that was on its way is over, and nobody waits any more.
  <2>1. UNCHANGED <<status, comp, thrown, reservation, intent>>
    BY <1>10 DEF OrdersCrash
  <2>2. \A o \in Orders :
           /\ saga'[o] = IF saga[o] \in {"idle", "done"} THEN saga[o] ELSE "crashed"
           /\ reply'[o].place = "none"
    BY <1>10 DEF OrdersCrash, Callers
  <2>3. ASSUME NEW c \in calls'
        PROVE  /\ c.by # "place"
               /\ c.op \in {"createReservation", "createIntent"} =>
                      saga'[c.order] = "crashed" \/ c.op \in thrown'[c.order]
    <3>1. PICK d \in calls : c = IF d.by \in Callers THEN [d EXCEPT !.by = "gone"] ELSE d
      BY <1>10 DEF OrdersCrash
    <3>2. d \in Call /\ d.order \in Orders /\ d.op \in RemoteOps
      BY <1>t DEF TypeOK, Call
    <3>3. c.op = d.op /\ c.order = d.order /\ c.by # "place"
      BY <3>1, <3>2 DEF Call, Callers
    <3>4. d.by = "place" => saga[d.order] \in RemoteOps
      BY <3>2 DEF IInv, PlaceCalls
    <3>5. d.op \in {"createReservation", "createIntent"} =>
             saga[d.order] \in RemoteOps \cup {"crashed"} \/ d.op \in thrown[d.order]
      BY <3>4 DEF OpenInv, Waited
    <3>6. saga[d.order] \in RemoteOps \cup {"crashed"} => saga'[d.order] = "crashed"
      BY <2>2, <3>2 DEF RemoteOps
    <3>7. QED
      BY <2>1, <3>3, <3>5, <3>6
  <2>4. Waited'
    BY <2>3 DEF Waited
  <2>5. ASSUME NEW o \in Orders
        PROVE  Knows(o)'
    <3>1. Knows(o)
      BY DEF OpenInv
    <3>2. QED
      BY <2>1, <2>2, <3>1 DEF Knows, Owns, Clears, OpenOnlyAfterThrow
  <2>6. QED
    BY <2>4, <2>5 DEF OpenInv
<1>11. ASSUME NEW s \in listed, AdvanceShipment(s)
       PROVE  OpenInv'
  BY <1>11, OtherStepOpen DEF AdvanceShipment, otherVars
<1>12. CASE UNCHANGED <<status, saga, comp, thrown, calls, reply, reservation, intent>>
  BY <1>12, OtherStepOpen
<1>13. QED
  BY <1>1, <1>2, <1>3, <1>4, <1>5, <1>6, <1>7, <1>8, <1>9, <1>10, <1>11, <1>12
     DEF Next, CancelStep, ListShipment, otherVars, StockRowChanges, ReservationExpires,
         ExpiryTick, TickFails, vars

LEMMA OpenCorrect == Spec => []OpenInv
<1>1. Init => OpenInv
  BY DEF Init, OpenInv, Waited, Knows, Owns, Clears, OpenOnlyAfterThrow, Callers
<1>2. IInv /\ OpenInv /\ [Next]_vars => OpenInv'
  BY NextOpen
<1>3. QED
  BY InvCorrect, <1>1, <1>2, PTL DEF Spec

\* Behind a failed order stock stays reserved or an intent open only where a
\* call that was to tell placeOrder of it, or to close it, threw: for any number
\* of orders and any mixture of faults.
THEOREM NothingLeftOpen == Spec => []FailedLeavesNothingOpen
<1>1. OpenInv => FailedLeavesNothingOpen
  BY DEF OpenInv, Knows, FailedLeavesNothingOpen
<1>2. QED
  BY OpenCorrect, <1>1, PTL

-----------------------------------------------------------------------------
(* The end of a saga *)

\* A handler that ends has decided its order: it comes from an UPDATE that
\* either applied or found the order neither pending nor reserved any more.
\* The statement that fails the order may throw, and so may those before the
\* try block, when there is nothing yet to undo.
THEOREM DecidedAtTheEnd == Spec => EndsDecided
<1> USE DEF rowVars, sagaVars, expiryVars, resVars, payVars
<1>1. ASSUME IInv, OpenInv, Next, NEW o \in Orders, saga[o] # "done", saga'[o] = "done",
             status'[o] \in {"pending", "reserved"}
      PROVE  /\ StatementFails(o)
             /\ \/ saga[o] = "opened" /\ reservation[o] = "none" /\ intent[o] = "none"
                \/ saga[o] = "markFailed"
  <2>0. TypeOK /\ Knows(o)
    BY <1>1 DEF IInv, OpenInv
  <2>1. \A p \in Orders : \A pc : SagaGoes(p, pc) => saga'[o] = IF p = o THEN pc ELSE saga[o]
    BY <2>0 DEF SagaGoes, TypeOK
  <2>2. AfterThrow(o) = "done" => saga[o] \in {"opened", "markFailed"}
    BY DEF AfterThrow
  <2>3. ASSUME NEW p \in Orders, SagaStep(p)
        PROVE  p = o /\ (MarkConfirmed(o) \/ MarkFailed(o) \/ StatementFails(o))
    <3>1. p = o
      BY <1>1, <2>1, <2>3 DEF SagaStep, OrderOpened, ReservationCreated, IntentCreated, Captured,
         Committed, Released, Voided, CallRefused, CallTimesOut, MarkReserved,
         AttachPaymentIntent, MarkConfirmed, MarkFailed, StatementFails, UpdateStatus
    <3>2. QED
      BY <1>1, <2>1, <2>2, <2>3, <3>1 DEF SagaStep, OrderOpened, ReservationCreated, IntentCreated,
         Captured, Committed, Released, Voided, CallRefused, CallTimesOut, MarkReserved,
         AttachPaymentIntent, UpdateStatus, RemoteOps
  <2>4. CASE MarkConfirmed(o)
    <3>1. saga[o] = "markConfirmed" /\ UpdateStatus(o, {"reserved"}, "confirmed", "done")
      BY <2>4 DEF MarkConfirmed
    <3>2. status[o] = "reserved"
      BY <1>1, <2>1, <2>2, <3>1 DEF UpdateStatus
    <3>3. QED
      BY <1>1, <2>0, <3>1, <3>2 DEF UpdateStatus, TypeOK
  <2>5. CASE MarkFailed(o)
    BY <1>1, <2>0, <2>5 DEF MarkFailed, UpdateStatus, TypeOK
  <2>6. CASE StatementFails(o)
    <3>1. saga[o] \in {"opened", "markFailed"}
      BY <1>1, <2>1, <2>2, <2>6 DEF StatementFails
    <3>2. saga[o] = "opened" => reservation[o] = "none" /\ intent[o] = "none"
      BY <2>0 DEF Knows, Owns
    <3>3. QED
      BY <2>6, <3>1, <3>2
  <2>7. CASE OrdersCrash
    BY <1>1, <2>7 DEF OrdersCrash
  <2>8. ASSUME NEW p \in Orders, PlaceOrder(p)
        PROVE  FALSE
    BY <1>1, <2>1, <2>8 DEF PlaceOrder
  <2>9. CASE UNCHANGED saga
    BY <1>1, <2>9
  <2>10. ASSUME NEW c \in calls, ServiceStep(c)
         PROVE  UNCHANGED saga
    BY <2>10 DEF ServiceStep, CreateReservation, CommitReservation, ReleaseReservation,
       CreateIntent, CaptureAtPsp, CaptureWithoutPsp, CaptureSettles, VoidIntent, FailsInside
  <2>11. QED
    BY <1>1, <2>3, <2>4, <2>5, <2>6, <2>7, <2>8, <2>9, <2>10 DEF Next, CancelStep, CancelStart,
       CancelReply, CancelTimesOut, ShipOrder, ListShipment, AdvanceShipment, otherVars,
       StockRowChanges, ReservationExpires, ExpireReservation, ClientCall, RequestLost, ExpiryTick,
       TickFails
<1>2. IInv /\ OpenInv /\ [Next]_vars =>
          [\A o \in Orders :
               /\ saga[o] # "done" /\ saga'[o] = "done"
               /\ status'[o] \in {"pending", "reserved"}
               => /\ StatementFails(o)
                  /\ \/ saga[o] = "opened" /\ reservation[o] = "none" /\ intent[o] = "none"
                     \/ saga[o] = "markFailed"]_vars
  BY <1>1
<1>3. QED
  BY InvCorrect, OpenCorrect, <1>2, PTL DEF Spec, EndsDecided
=============================================================================
