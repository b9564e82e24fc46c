--------------------------- MODULE PaymentCapture ---------------------------
(***************************************************************************)
(* One payment intent of services/payments with everything that touches    *)
(* it: requests to create, capture and void it, the PSP, the table of      *)
(* attempts, and the ledger of services/settlement the charge is posted    *)
(* to.  Every SQL statement, PSP call and ledger post is a step.           *)
(*                                                                         *)
(* captureIntent runs under the idempotency guard with a key that contains *)
(* the time of the request, so the guard never joins two requests and is   *)
(* not in their way here.  create runs under the guard of its own key; the *)
(* requests below overlap freely, which the guard allows at its worst.     *)
(* The PSP derives its reference from the key it is sent, which holds that *)
(* time as well: a charge is identified by the request that made it.       *)
(***************************************************************************)
EXTENDS Integers, FiniteSets

CONSTANTS
    Creates,    \* requests POST /intents with the idempotency key of the intent
    Captures,   \* requests POST /intents/:id/capture
    Voids,      \* requests POST /intents/:id/void
    Tries       \* attempts of one ledger post, 4 in settlementClient.ts

ASSUME RequestsAssumption ==
    Creates \cap Captures = {} /\ Creates \cap Voids = {} /\ Captures \cap Voids = {}
ASSUME TriesAssumption == Tries \in Nat \ {0}

Requests == Creates \cup Captures \cup Voids

VARIABLES
    status,     \* payments.payment_intents: status of the intent, or "absent"
    attempts,   \* payments.payment_attempts: attempt_no and the charge it records
    charged,    \* PSP: the captures it charged the customer for
    ledger,     \* settlement.ledger_entries: number of entries per charge
    post,       \* post[c][k]: the k-th try of c's ledger post, inside settlement
    at,         \* at[r]: what request r does next, or its answer
    attemptNo,  \* attemptNo[c]: the number c's INSERT computed
    try,        \* try[c]: the try of the ledger post c is at
    pspOk,      \* pspOk[c]: the PSP's verdict
    arrived     \* arrived[c]: c arrived after another request was answered

vars == <<status, attempts, charged, ledger, post, at, attemptNo, try, pspOk, arrived>>

Final == {"succeeded", "failed", "voided"}
PostStates == {"none", "sent", "missing", "done", "lost"}

(* Answers that tell the client what became of the intent. *)
Decided == {"captured", "replayed", "declined", "ledgerFailed", "conflict", "voided"}
Ended == Decided \cup {"notFound", "created", "existing", "aborted"}
Stages ==
    {"idle", "find", "insert", "psp", "attemptNo", "record", "update", "post", "waiting"}
        \cup Ended

TypeOK ==
    /\ status \in {"absent", "requires_capture"} \cup Final
    /\ attempts \subseteq [no : Nat, of : Captures]
    /\ IsFiniteSet(attempts)
    /\ charged \subseteq Captures
    /\ ledger \in [Captures -> 0 .. Tries]
    /\ post \in [Captures -> [1 .. Tries -> PostStates]]
    /\ at \in [Requests -> Stages]
    /\ attemptNo \in [Captures -> Nat]
    /\ try \in [Captures -> 1 .. Tries]
    /\ pspOk \in [Captures -> BOOLEAN]
    /\ arrived \in [Captures -> BOOLEAN]

Init ==
    /\ status = "absent"
    /\ attempts = {}
    /\ charged = {}
    /\ ledger = [c \in Captures |-> 0]
    /\ post = [c \in Captures |-> [k \in 1 .. Tries |-> "none"]]
    /\ at = [r \in Requests |-> "idle"]
    /\ attemptNo = [c \in Captures |-> 0]
    /\ try = [c \in Captures |-> 1]
    /\ pspOk = [c \in Captures |-> FALSE]
    /\ arrived = [c \in Captures |-> FALSE]

Goto(r, stage) == at' = [at EXCEPT ![r] = stage]

(* updateStatus(["requires_capture", "processing"], to): one conditional   *)
(* UPDATE.  No code ever writes "processing".                              *)
UpdateStatus(to) == status' = IF status = "requires_capture" THEN to ELSE status

-----------------------------------------------------------------------------
(* A request arrives; the variable arrived is history for the properties.  *)
Arrive(r) ==
    /\ at[r] = "idle"
    /\ Goto(r, "find")
    /\ arrived' = [c \in Captures |->
                     IF c = r THEN \E q \in Requests : at[q] \in Decided ELSE arrived[c]]
    /\ UNCHANGED <<status, attempts, charged, ledger, post, attemptNo, try, pspOk>>

(* The answer of findByIdempotencyKey or findById. *)
Find(r) ==
    /\ at[r] = "find"
    /\ \/ /\ r \in Creates
          /\ Goto(r, IF status = "absent" THEN "insert" ELSE "existing")
       \/ /\ r \in Voids
          /\ Goto(r, CASE status = "absent" -> "notFound"
                       [] status = "voided" -> "voided"
                       [] OTHER -> "update")
       \/ /\ r \in Captures
          /\ Goto(r, CASE status = "absent" -> "notFound"
                       [] status = "succeeded" -> "replayed"
                       [] status = "requires_capture" -> "psp"
                       [] OTHER -> "conflict")
    /\ UNCHANGED <<status, attempts, charged, ledger, post, attemptNo, try, pspOk, arrived>>

(* INSERT of the intent: the unique index on the idempotency key turns     *)
(* the loser of a race into an error.                                      *)
Insert(r) ==
    /\ r \in Creates
    /\ at[r] = "insert"
    /\ status' = IF status = "absent" THEN "requires_capture" ELSE status
    /\ Goto(r, IF status = "absent" THEN "created" ELSE "aborted")
    /\ UNCHANGED <<attempts, charged, ledger, post, attemptNo, try, pspOk, arrived>>

(* The conditional UPDATE of void. *)
Void(r) ==
    /\ r \in Voids
    /\ at[r] = "update"
    /\ UpdateStatus("voided")
    /\ Goto(r, IF status = "requires_capture" THEN "voided" ELSE "conflict")
    /\ UNCHANGED <<attempts, charged, ledger, post, attemptNo, try, pspOk, arrived>>

-----------------------------------------------------------------------------
(* The capture of a request that found the intent capturable. *)

(* provider.capture charges the customer or declines. *)
PspCapture(c) ==
    /\ at[c] = "psp"
    /\ \E ok \in BOOLEAN :
          /\ pspOk' = [pspOk EXCEPT ![c] = ok]
          /\ charged' = IF ok THEN charged \cup {c} ELSE charged
    /\ Goto(c, "attemptNo")
    /\ UNCHANGED <<status, attempts, ledger, post, attemptNo, try, arrived>>

(* attempts.record, the SELECT half of the INSERT: the next number in its  *)
(* snapshot.                                                               *)
NextAttemptNo(c) ==
    /\ at[c] = "attemptNo"
    /\ attemptNo' = [attemptNo EXCEPT ![c] = Cardinality(attempts) + 1]
    /\ Goto(c, "record")
    /\ UNCHANGED <<status, attempts, charged, ledger, post, try, pspOk, arrived>>

(* ... and its ON CONFLICT (intent_id, attempt_no) DO NOTHING half: nobody *)
(* looks whether a row was written.                                        *)
RecordAttempt(c) ==
    /\ at[c] = "record"
    /\ attempts' =
          IF \E a \in attempts : a.no = attemptNo[c] THEN attempts
          ELSE attempts \cup {[no |-> attemptNo[c], of |-> c]}
    /\ Goto(c, "update")
    /\ UNCHANGED <<status, charged, ledger, post, attemptNo, try, pspOk, arrived>>

(* Mutant: a declined capture leaves the intent open. *)
Decide_KeepOpen(c) ==
    /\ c \in Captures
    /\ at[c] = "update"
    /\ IF pspOk[c] THEN UpdateStatus("succeeded") ELSE UNCHANGED status
    /\ Goto(c, IF pspOk[c] THEN "post" ELSE "declined")
    /\ UNCHANGED <<attempts, charged, ledger, post, attemptNo, try, pspOk, arrived>>

(* The status follows the verdict.  When another request was faster the    *)
(* UPDATE changes nothing and a charge goes on to the ledger all the same. *)
Decide(c) ==
    /\ c \in Captures
    /\ at[c] = "update"
    /\ UpdateStatus(IF pspOk[c] THEN "succeeded" ELSE "failed")
    /\ Goto(c, IF pspOk[c] THEN "post" ELSE "declined")
    /\ UNCHANGED <<attempts, charged, ledger, post, attemptNo, try, pspOk, arrived>>

(* One try of postLedgerEntry. *)
SendPost(c) ==
    /\ at[c] = "post"
    /\ post' = [post EXCEPT ![c][try[c]] = "sent"]
    /\ Goto(c, "waiting")
    /\ UNCHANGED <<status, attempts, charged, ledger, attemptNo, try, pspOk, arrived>>

(* settlement answers 2xx: the capture is answered with its reference. *)
PostAnswered(c) ==
    /\ at[c] = "waiting"
    /\ post[c][try[c]] = "done"
    /\ Goto(c, "captured")
    /\ UNCHANGED <<status, attempts, charged, ledger, post, attemptNo, try, pspOk, arrived>>

(* Mutant: posting is best effort, its last failure is swallowed. *)
PostFails_Swallow(c) ==
    /\ at[c] = "waiting"
    /\ IF try[c] < Tries
       THEN /\ try' = [try EXCEPT ![c] = try[c] + 1]
            /\ Goto(c, "post")
       ELSE /\ Goto(c, "captured")
            /\ UNCHANGED try
    /\ UNCHANGED <<status, attempts, charged, ledger, post, attemptNo, pspOk, arrived>>

(* Mutant: tries are not counted. *)
PostFails_NoCount(c) ==
    /\ at[c] = "waiting"
    /\ Goto(c, "post")
    /\ UNCHANGED <<status, attempts, charged, ledger, post, attemptNo, try, pspOk, arrived>>

(* The try failed or timed out, wherever settlement is with it; the last   *)
(* failure is reported as LEDGER_POST_FAILED.                              *)
PostFails(c) ==
    /\ at[c] = "waiting"
    /\ IF try[c] < Tries
       THEN /\ try' = [try EXCEPT ![c] = try[c] + 1]
            /\ Goto(c, "post")
       ELSE /\ Goto(c, "ledgerFailed")
            /\ UNCHANGED try
    /\ UNCHANGED <<status, attempts, charged, ledger, post, attemptNo, pspOk, arrived>>

(* The request dies with its process, or the database rejects a statement  *)
(* and the client gets an error 500.                                       *)
Abort(r) ==
    /\ at[r] \notin Ended \cup {"idle"}
    /\ Goto(r, "aborted")
    /\ UNCHANGED <<status, attempts, charged, ledger, post, attemptNo, try, pspOk, arrived>>

-----------------------------------------------------------------------------
(* ledgerRepo.insert in settlement, one handler per try that arrived, late *)
(* ones included.                                                          *)

(* SELECT by external_ref: an entry that is there answers the post. *)
LedgerSelect(c, k) ==
    /\ post[c][k] = "sent"
    /\ post' = [post EXCEPT ![c][k] = IF ledger[c] > 0 THEN "done" ELSE "missing"]
    /\ UNCHANGED <<status, attempts, charged, ledger, at, attemptNo, try, pspOk, arrived>>

(* Mutant: no unique index on external_ref. *)
LedgerInsert_NoIndex(c, k) ==
    /\ post[c][k] = "missing"
    /\ ledger' = [ledger EXCEPT ![c] = ledger[c] + 1]
    /\ post' = [post EXCEPT ![c][k] = "done"]
    /\ UNCHANGED <<status, attempts, charged, at, attemptNo, try, pspOk, arrived>>

(* INSERT ... ON CONFLICT (external_ref) DO NOTHING. *)
LedgerInsert(c, k) ==
    /\ post[c][k] = "missing"
    /\ ledger' = IF ledger[c] > 0 THEN ledger ELSE [ledger EXCEPT ![c] = ledger[c] + 1]
    /\ post' = [post EXCEPT ![c][k] = "done"]
    /\ UNCHANGED <<status, attempts, charged, at, attemptNo, try, pspOk, arrived>>

(* The post never arrives, or settlement fails on it. *)
LosePost(c, k) ==
    /\ post[c][k] \in {"sent", "missing"}
    /\ post' = [post EXCEPT ![c][k] = "lost"]
    /\ UNCHANGED <<status, attempts, charged, ledger, at, attemptNo, try, pspOk, arrived>>

-----------------------------------------------------------------------------
CaptureStep(c) ==
    \/ PspCapture(c) \/ NextAttemptNo(c) \/ RecordAttempt(c) \/ Decide(c)
    \/ SendPost(c) \/ PostAnswered(c) \/ PostFails(c)

Step(r) == Find(r) \/ Insert(r) \/ Void(r) \/ (r \in Captures /\ CaptureStep(r))

LedgerStep(c, k) == LedgerSelect(c, k) \/ LedgerInsert(c, k)

Next ==
    \/ \E r \in Requests : Arrive(r) \/ Step(r) \/ Abort(r)
    \/ \E c \in Captures, k \in 1 .. Tries : LedgerStep(c, k) \/ LosePost(c, k)

Spec == Init /\ [][Next]_vars

(* A request that lives goes on: statements and the PSP answer, and a try  *)
(* of a post is answered or runs into its timeout.                         *)
FairSpec == Spec /\ \A r \in Requests : WF_vars(Step(r))

-----------------------------------------------------------------------------
(* Properties. *)

(* ledgerRepo.ts 53-82: however often a post is retried, and however late  *)
(* its tries are executed, a charge is booked at most once, and nothing is *)
(* booked that the PSP did not charge.                                     *)
LedgerBacked == \A c \in Captures : ledger[c] <= IF c \in charged THEN 1 ELSE 0

(* captureIntent.ts 52-63: a capture that answers with its PSP reference   *)
(* has charged the customer and left the charge in the ledger, even if it  *)
(* gave up on earlier tries.                                               *)
BookedBeforeAnswer ==
    \A c \in Captures : at[c] = "captured" => c \in charged /\ ledger[c] = 1

(* captureIntent.ts 28-31, 41-50 and intentService.ts 36-38: once a client *)
(* was told what became of the intent, a request that comes later charges  *)
(* nobody, however many others are still under way.                        *)
NoChargeAfterAnswer == \A c \in Captures : arrived[c] => c \notin charged

(* intentsRepo.ts 63-73: a decided intent is never decided again.          *)
StatusIsFinal == [][(status \in Final) => status' = status]_vars

(* settlementClient.ts 19-22: retries end; every request is answered.      *)
EveryRequestEnds == \A r \in Requests : at[r] = "find" ~> at[r] \in Ended

(* docs/contracts.md:193 "Idempotent per idempotencyKey": captures of one  *)
(* intent charge the customer once.                                        *)
ChargedOnce == Cardinality(charged) <= 1

(* docs/contracts.md:192 "records a payment_attempt": a capture that was   *)
(* answered after the PSP charged has its row.                             *)
ChargeIsRecorded ==
    \A c \in charged : at[c] \in Decided => \E a \in attempts : a.of = c

(* docs/contracts.md:192 "posts a `charge` ledger entry to settlement on   *)
(* success": when a capture reports success, some charge is in the ledger  *)
(* or still on its way there.                                              *)
SuccessIsBooked ==
    \A c \in Captures :
        at[c] \in {"captured", "replayed"} =>
            \E d \in charged : ledger[d] = 1 \/ at[d] \in {"post", "waiting", "aborted"}
=============================================================================
