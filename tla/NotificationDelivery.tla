------------------------ MODULE NotificationDelivery ------------------------
(***************************************************************************)
(* Webhook deliveries of services/notifications: events are fanned out     *)
(* into a table of deliveries, and delivery workers, one per process of    *)
(* the service, claim due rows, send them and record the outcome, while    *)
(* clients retry failed deliveries and deactivate endpoints.               *)
(*                                                                         *)
(* A step is one SQL statement, one transaction of inserts or one webhook  *)
(* request.  Rows of an event share their created_at, the time their       *)
(* transaction began, so rows are ordered by the number of their event.    *)
(* The batch of a claim is not bounded: at most one row per endpoint is    *)
(* claimable at a time, and there are fewer endpoints here than the 25     *)
(* rows of a batch.                                                        *)
(***************************************************************************)
EXTENDS Integers, FiniteSets

CONSTANTS
    NumEvents,      \* events, numbered in the order their transactions begin
    Endpoints,      \* webhook endpoints that subscribe to all of them
    Workers,        \* delivery workers
    None,           \* no delivery
    MaxAttempts,    \* deliveryMaxAttempts, 5 in config.ts
    Tries,          \* requests of one attempt, 3 in deliveryWorker.ts
    LeasesHold,     \* leaseMs, 5 minutes, is longer than any batch takes
    MaxRequeues,    \* bound: client retries of one delivery
    MaxFaults       \* bound: lost answers of markDelivered and deaths of workers

Events == 1 .. NumEvents
Deliveries == Events \X Endpoints

ASSUME NoneAssumption == None \notin Deliveries
ASSUME SizesAssumption ==
    /\ NumEvents \in Nat /\ MaxRequeues \in Nat /\ MaxFaults \in Nat
    /\ MaxAttempts \in Nat \ {0} /\ Tries \in Nat \ {0}
    /\ LeasesHold \in BOOLEAN

VARIABLES
    event,      \* event[n]: idle, looked, begun or published
    targets,    \* targets[n]: the endpoints its lookup returned
    active,     \* the endpoints that are active
    status,     \* notification_deliveries.status, "absent" before the insert
    attempts,   \* notification_deliveries.attempts
    next,       \* next_attempt_at: null, due (passed) or later
    mine,       \* mine[w]: the claimed rows worker w has not come to yet
    off,        \* off[w]: those whose endpoint was inactive when claimed
    job,        \* job[w]: the delivery w works on
    at,         \* at[w]: what w does next
    try,        \* try[w]: the request of the attempt w is at
    received,   \* received[d]: how often the endpoint got delivery d
    requeued,   \* requeued[d]: client retries
    belated,    \* rows inserted when a newer one of their endpoint existed
    unsure,     \* deliveries whose markDelivered got no answer
    faults      \* number of faults so far

publishing == <<event, targets, belated>>
columns == <<status, attempts, next>>
working == <<mine, off, job, at, try>>
deliveryVars == <<publishing, active, columns, working, received, requeued, unsure, faults>>

Open == {"pending", "failed"}
Stages == {"idle", "take", "send", "mark", "unmarked", "record", "retire"}

DeliveryTypeOK ==
    /\ event \in [Events -> {"idle", "looked", "begun", "published"}]
    /\ targets \in [Events -> SUBSET Endpoints]
    /\ active \subseteq Endpoints
    /\ status \in [Deliveries -> {"absent", "delivered"} \cup Open]
    /\ attempts \in [Deliveries -> Nat]
    /\ next \in [Deliveries -> {"null", "due", "later"}]
    /\ mine \in [Workers -> SUBSET Deliveries]
    /\ off \in [Workers -> SUBSET Deliveries]
    /\ job \in [Workers -> Deliveries \cup {None}]
    /\ at \in [Workers -> Stages]
    /\ try \in [Workers -> 1 .. Tries]
    /\ received \in [Deliveries -> Nat]
    /\ requeued \in [Deliveries -> 0 .. MaxRequeues]
    /\ belated \subseteq Deliveries
    /\ unsure \subseteq Deliveries
    /\ faults \in 0 .. MaxFaults

DeliveryInit ==
    /\ event = [n \in Events |-> "idle"]
    /\ targets = [n \in Events |-> {}]
    /\ active = Endpoints
    /\ status = [d \in Deliveries |-> "absent"]
    /\ attempts = [d \in Deliveries |-> 0]
    /\ next = [d \in Deliveries |-> "null"]
    /\ mine = [w \in Workers |-> {}]
    /\ off = [w \in Workers |-> {}]
    /\ job = [w \in Workers |-> None]
    /\ at = [w \in Workers |-> "idle"]
    /\ try = [w \in Workers |-> 1]
    /\ received = [d \in Deliveries |-> 0]
    /\ requeued = [d \in Deliveries |-> 0]
    /\ belated = {}
    /\ unsure = {}
    /\ faults = 0

OlderRow(o, d) == o[2] = d[2] /\ o[1] < d[1]

Goto(w, stage) == at' = [at EXCEPT ![w] = stage]

-----------------------------------------------------------------------------
(* Publishing and the endpoint's lifetime. *)

(* findActiveByEventType, before the transaction that inserts. *)
Lookup(n) ==
    /\ event[n] = "idle"
    /\ event' = [event EXCEPT ![n] = "looked"]
    /\ targets' = [targets EXCEPT ![n] = active]
    /\ UNCHANGED <<belated, active, columns, working, received, requeued, unsure, faults>>

(* BEGIN fixes the created_at of the event's rows. *)
BeginInsert(n) ==
    /\ event[n] = "looked"
    /\ \A m \in Events : m < n => event[m] \in {"begun", "published"}
    /\ event' = [event EXCEPT ![n] = "begun"]
    /\ UNCHANGED <<targets, belated, active, columns, working, received, requeued, unsure, faults>>

(* The rows become visible, all at once. *)
Enqueue(n) ==
    LET rows == {n} \X targets[n]
    IN /\ event[n] = "begun"
       /\ event' = [event EXCEPT ![n] = "published"]
       /\ status' = [d \in Deliveries |-> IF d \in rows THEN "pending" ELSE status[d]]
       /\ next' = [d \in Deliveries |-> IF d \in rows THEN "due" ELSE next[d]]
       /\ belated' = belated \cup
             {o \in rows : \E d \in Deliveries : OlderRow(o, d) /\ status[d] # "absent"}
       /\ UNCHANGED <<targets, active, attempts, working, received, requeued, unsure, faults>>

Deactivate(e) ==
    /\ e \in active
    /\ active' = active \ {e}
    /\ UNCHANGED <<publishing, columns, working, received, requeued, unsure, faults>>

(* Seeded fault: the UPDATE trusts an earlier look at the status. *)
RequeueFailed_Any(d) ==
    /\ status[d] # "absent"
    /\ requeued[d] < MaxRequeues
    /\ requeued' = [requeued EXCEPT ![d] = requeued[d] + 1]
    /\ status' = [status EXCEPT ![d] = "pending"]
    /\ next' = [next EXCEPT ![d] = "due"]
    /\ UNCHANGED <<publishing, active, attempts, working, received, unsure, faults>>

(* retryDelivery: a look at the status, then an UPDATE with the same       *)
(* condition, which decides.  The number of attempts stays.                *)
RequeueFailed(d) ==
    /\ status[d] = "failed"
    /\ requeued[d] < MaxRequeues
    /\ requeued' = [requeued EXCEPT ![d] = requeued[d] + 1]
    /\ status' = [status EXCEPT ![d] = "pending"]
    /\ next' = [next EXCEPT ![d] = "due"]
    /\ UNCHANGED <<publishing, active, attempts, working, received, unsure, faults>>

-----------------------------------------------------------------------------
(* Claiming. *)

Hands(w) == mine[w] \cup ({job[w]} \ {None})

(* A back-off or a lease runs out. *)
BecomesDue(d) ==
    /\ next[d] = "later"
    /\ LeasesHold => \A w \in Workers : d \notin Hands(w)
    /\ next' = [next EXCEPT ![d] = "due"]
    /\ UNCHANGED <<publishing, active, status, attempts, working, received, requeued, unsure, faults>>

Waits(d) == status[d] \in Open /\ attempts[d] < MaxAttempts

(* Seeded fault: every delivery of an endpoint may be claimed. *)
Claimable_AnyOrder == {d \in Deliveries : Waits(d) /\ next[d] # "later"}

(* Seeded fault: a row without next_attempt_at is not due. *)
Claimable_NotNull ==
    {d \in Deliveries :
        /\ Waits(d) /\ next[d] = "due"
        /\ \A o \in Deliveries : OlderRow(o, d) => ~Waits(o)}

(* Due rows, each the oldest of its endpoint that still waits. *)
Claimable ==
    {d \in Deliveries :
        /\ Waits(d) /\ next[d] # "later"
        /\ \A o \in Deliveries : OlderRow(o, d) => ~Waits(o)}

(* The claimed rows, with their endpoint as the same statement read it. *)
TakeRows(w, picked) ==
    /\ mine' = [mine EXCEPT ![w] = picked]
    /\ off' = [off EXCEPT ![w] = {d \in picked : d[2] \notin active}]
    /\ Goto(w, "take")

(* Seeded fault: a claim without a lease. *)
Claim_NoLease(w) ==
    /\ at[w] = "idle"
    /\ \E picked \in SUBSET Claimable \ {{}} : TakeRows(w, picked)
    /\ UNCHANGED <<publishing, active, columns, job, try, received, requeued, unsure, faults>>

(* claimDueForProcessing: one statement; FOR UPDATE SKIP LOCKED leaves out *)
(* rows that another statement holds at that moment.                       *)
Claim(w) ==
    /\ at[w] = "idle"
    /\ \E picked \in SUBSET Claimable \ {{}} :
          /\ TakeRows(w, picked)
          /\ next' = [d \in Deliveries |-> IF d \in picked THEN "later" ELSE next[d]]
    /\ UNCHANGED <<publishing, active, status, attempts, job, try, received, requeued, unsure, faults>>

-----------------------------------------------------------------------------
(* Working through the batch. *)

Take(w) ==
    /\ at[w] = "take"
    /\ mine[w] # {}
    /\ \E d \in mine[w] :
          /\ mine' = [mine EXCEPT ![w] = mine[w] \ {d}]
          /\ job' = [job EXCEPT ![w] = d]
          /\ Goto(w, IF d \in off[w] THEN "retire" ELSE "send")
    /\ UNCHANGED <<publishing, active, columns, off, try, received, requeued, unsure, faults>>

TickEnds(w) ==
    /\ at[w] = "take"
    /\ mine[w] = {}
    /\ Goto(w, "idle")
    /\ off' = [off EXCEPT ![w] = {}]
    /\ UNCHANGED <<publishing, active, columns, mine, job, try, received, requeued, unsure, faults>>

(* The endpoint answers 2xx. *)
SendSucceeds(w) ==
    /\ at[w] = "send"
    /\ received' = [received EXCEPT ![job[w]] = received[job[w]] + 1]
    /\ Goto(w, "mark")
    /\ UNCHANGED <<publishing, active, columns, mine, off, job, try, requeued, unsure, faults>>

(* The request times out or is answered otherwise, perhaps after the       *)
(* endpoint has worked on it; withRetry goes on to the next.               *)
SendFails(w) ==
    /\ at[w] = "send"
    /\ received' \in {received, [received EXCEPT ![job[w]] = received[job[w]] + 1]}
    /\ IF try[w] < Tries
       THEN try' = [try EXCEPT ![w] = try[w] + 1] /\ UNCHANGED at
       ELSE Goto(w, "record") /\ UNCHANGED try
    /\ UNCHANGED <<publishing, active, columns, mine, off, job, requeued, unsure, faults>>

Delivered(d) ==
    /\ status' = [status EXCEPT ![d] = "delivered"]
    /\ next' = [next EXCEPT ![d] = "null"]
    /\ UNCHANGED attempts

(* The job is over; the loop takes the next row. *)
Done(w) ==
    /\ job' = [job EXCEPT ![w] = None]
    /\ try' = [try EXCEPT ![w] = 1]
    /\ Goto(w, "take")

(* markDelivered, whatever the row says by now. *)
MarkDelivered(w) ==
    /\ at[w] = "mark"
    /\ Delivered(job[w])
    /\ Done(w)
    /\ UNCHANGED <<publishing, active, mine, off, received, requeued, unsure, faults>>

Fault == faults < MaxFaults /\ faults' = faults + 1

(* markDelivered throws, applied or not, inside the try block: the catch   *)
(* block records a failure of the delivery.                                *)
MarkThrows(w) ==
    /\ at[w] = "mark"
    /\ Fault
    /\ Delivered(job[w]) \/ UNCHANGED columns
    /\ unsure' = unsure \cup {job[w]}
    /\ Goto(w, "unmarked")
    /\ UNCHANGED <<publishing, active, mine, off, job, try, received, requeued>>

(* Seeded fault: a failed attempt is not counted. *)
RecordFailure_Uncounted(w) ==
    /\ at[w] \in {"record", "unmarked"}
    /\ status' = [status EXCEPT ![job[w]] = "failed"]
    /\ next' = [next EXCEPT ![job[w]] = "later"]
    /\ Done(w)
    /\ UNCHANGED <<publishing, active, attempts, mine, off, received, requeued, unsure, faults>>

(* recordFailure, whatever the row says by now: back-off until the         *)
(* attempts are used up.                                                   *)
RecordFailure(w) ==
    LET d == job[w]
    IN /\ at[w] \in {"record", "unmarked"}
       /\ status' = [status EXCEPT ![d] = "failed"]
       /\ attempts' = [attempts EXCEPT ![d] = attempts[d] + 1]
       /\ next' = [next EXCEPT ![d] = IF attempts[d] + 1 >= MaxAttempts THEN "null" ELSE "later"]
       /\ Done(w)
       /\ UNCHANGED <<publishing, active, mine, off, received, requeued, unsure, faults>>

(* failPermanently: without a next_attempt_at the row is due at once.      *)
FailPermanently(w) ==
    LET d == job[w]
    IN /\ at[w] = "retire"
       /\ status' = [status EXCEPT ![d] = "failed"]
       /\ attempts' = [attempts EXCEPT ![d] = attempts[d] + 1]
       /\ next' = [next EXCEPT ![d] = "null"]
       /\ Done(w)
       /\ UNCHANGED <<publishing, active, mine, off, received, requeued, unsure, faults>>

(* The process dies and restarts, or a statement outside the try block     *)
(* throws and ends the tick: the rest of the batch keeps its leases.       *)
Die(w) ==
    /\ at[w] # "idle"
    /\ Fault
    /\ Goto(w, "idle")
    /\ mine' = [mine EXCEPT ![w] = {}]
    /\ off' = [off EXCEPT ![w] = {}]
    /\ job' = [job EXCEPT ![w] = None]
    /\ try' = [try EXCEPT ![w] = 1]
    /\ UNCHANGED <<publishing, active, columns, received, requeued, unsure>>

-----------------------------------------------------------------------------
WorkerStep(w) ==
    \/ Claim(w) \/ Take(w) \/ TickEnds(w) \/ SendSucceeds(w) \/ SendFails(w)
    \/ MarkDelivered(w) \/ RecordFailure(w) \/ FailPermanently(w)

DeliveryNext ==
    \/ \E n \in Events : Lookup(n) \/ BeginInsert(n) \/ Enqueue(n)
    \/ \E e \in Endpoints : Deactivate(e)
    \/ \E d \in Deliveries : RequeueFailed(d) \/ BecomesDue(d)
    \/ \E w \in Workers : WorkerStep(w) \/ MarkThrows(w) \/ Die(w)

DeliverySpec == DeliveryInit /\ [][DeliveryNext]_deliveryVars

(* The poll timer and the restart of the process keep a worker ticking,    *)
(* webhook requests are bounded by a timeout, and time passes.             *)
DeliveryFairSpec ==
    /\ DeliverySpec
    /\ \A w \in Workers : WF_deliveryVars(WorkerStep(w))
    /\ \A d \in Deliveries : WF_deliveryVars(BecomesDue(d))

-----------------------------------------------------------------------------
(* Properties. *)

(* claimDueForProcessing 125-169: as long as leases hold, two workers have *)
(* one delivery in hand only if a client retried it while it was in the    *)
(* hands of one of them.                                                   *)
SharedOnlyIfRequeued ==
    LeasesHold =>
        \A v, w \in Workers : v # w =>
            \A d \in Hands(v) \cap Hands(w) : requeued[d] > 0

(* markDelivered and recordFailure do not look at the status they replace; *)
(* still a delivered row is left alone unless a client had retried it or   *)
(* the answer of its own markDelivered was lost.                           *)
DeliveredIsFinal ==
    [][LeasesHold =>
        \A d \in Deliveries : status[d] = "delivered" =>
            status'[d] = "delivered" \/ requeued[d] > 0 \/ d \in unsure]_deliveryVars

(* claimDueForProcessing 137-147: an endpoint gets its deliveries in the   *)
(* order they were created: when it has one, every older one is delivered  *)
(* or given up.  Excepted are rows whose transaction committed after a     *)
(* newer one, client retries and lost answers.                             *)
ArrivesInOrder ==
    LeasesHold =>
        \A d, o \in Deliveries :
            OlderRow(o, d) /\ received[d] > 0 /\ status[o] # "absent" =>
                \/ ~Waits(o)
                \/ o \in belated \cup unsure
                \/ requeued[o] > 0

(* deliveryWorker.ts 42-58: an endpoint is not sent a delivery without end *)
(* although crashes and lost answers repeat it: three requests for every   *)
(* counted attempt, fault or client retry, and for the last attempt.       *)
SendsAreBounded ==
    LeasesHold =>
        \A d \in Deliveries :
            received[d] <= Tries * (attempts[d] + faults + requeued[d] + 1)

(* What the owner of an endpoint may rely on: the order of its deliveries, *)
(* and that their repetition ends.                                         *)
ReceivedAsAgreed == ArrivesInOrder /\ SendsAreBounded

(* deliveryWorker.ts 25-75: every delivery is delivered or has used up its *)
(* attempts in the end, in spite of deaths in the middle of a batch, older *)
(* deliveries that fail and inactive endpoints.                            *)
EveryDeliveryEnds ==
    \A d \in Deliveries :
        status[d] = "pending" ~> status[d] = "delivered" \/ attempts[d] >= MaxAttempts

(* docs/contracts.md "POST /deliveries/:id/retry -> 202 (requeues a failed *)
(* delivery)": a retried delivery is worked on again.  It is not when its  *)
(* attempts were used up, because the retry does not reset them.           *)
RequeuedIsSent ==
    \A d \in Deliveries : requeued[d] > 0 /\ status[d] = "pending" ~> status[d] # "pending"
=============================================================================
