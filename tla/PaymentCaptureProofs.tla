------------------------ MODULE PaymentCaptureProofs ------------------------
(***************************************************************************)
(* Safety of the capture of a payment intent for any requests and any      *)
(* number of tries of the ledger post.                                     *)
(***************************************************************************)
EXTENDS PaymentCapture, FiniteSetTheorems, TLAPS

(* From the PSP's verdict to the ledger: whatever is on its way there, or  *)
(* in it, was charged.                                                     *)
BookInv ==
    \A c \in Captures :
        /\ ledger[c] \in {0, 1}
        /\ ledger[c] = 1 => c \in charged
        /\ at[c] \in {"post", "waiting", "captured"} => c \in charged
        /\ at[c] \in {"attemptNo", "record", "update"} /\ pspOk[c] => c \in charged
        /\ at[c] = "captured" => ledger[c] = 1
        /\ \A k \in 1 .. Tries :
              /\ post[c][k] # "none" => c \in charged
              /\ post[c][k] = "done" => ledger[c] = 1

(* A request that found the intent knows it exists, one that knows its     *)
(* fate finds it decided.                                                  *)
DecidedInv ==
    \A r \in Requests :
        /\ at[r] \in {"psp", "attemptNo", "record", "update"} => status # "absent"
        /\ at[r] \in Decided \cup {"post", "waiting"} => status \in Final

(* A capture that came after an answer never gets past its first read.     *)
ArrivedInv ==
    \A c \in Captures :
        /\ at[c] = "idle" => ~arrived[c]
        /\ at[c] \in {"idle", "find", "psp"} => c \notin charged
        /\ arrived[c] =>
              /\ at[c] \in {"find", "replayed", "conflict", "aborted"}
              /\ status \in Final
              /\ c \notin charged

IInv == TypeOK /\ BookInv /\ DecidedInv /\ ArrivedInv

USE DEF Stages, Ended, Decided, Final

(* A step moves its own request and no other. *)
LEMMA Moves ==
    ASSUME TypeOK, NEW r \in Requests, NEW stage \in Stages, Goto(r, stage)
    PROVE  /\ at' \in [Requests -> Stages]
           /\ at'[r] = stage
           /\ \A q \in Requests : q # r => at'[q] = at[q]
BY DEF TypeOK, Goto

LEMMA CapturesAreRequests == Captures \subseteq Requests
BY DEF Requests

(* The initial state satisfies the invariant. *)
LEMMA InitInv == Init => IInv
<1> SUFFICES ASSUME Init PROVE IInv
  OBVIOUS
<1>1. IsFiniteSet(attempts)
  BY FS_EmptySet DEF Init
<1>2. TypeOK
  BY <1>1, TriesAssumption DEF Init, TypeOK, PostStates
<1>3. BookInv /\ DecidedInv /\ ArrivedInv
  BY CapturesAreRequests DEF Init, BookInv, DecidedInv, ArrivedInv
<1> QED BY <1>2, <1>3 DEF IInv

-----------------------------------------------------------------------------
(* Steps of the requests. *)

LEMMA ArriveInv ==
    ASSUME IInv, NEW r \in Requests, Arrive(r)
    PROVE  IInv'
<1>1. /\ at' \in [Requests -> Stages] /\ at'[r] = "find"
      /\ \A q \in Requests : q # r => at'[q] = at[q]
  BY Moves DEF IInv, Arrive
<1>2. /\ arrived' \in [Captures -> BOOLEAN]
      /\ \A c \in Captures : arrived'[c] =
            IF c = r THEN \E q \in Requests : at[q] \in Decided ELSE arrived[c]
  <2> DEFINE known(c) == IF c = r THEN \E q \in Requests : at[q] \in Decided ELSE arrived[c]
  <2>1. arrived' = [c \in Captures |-> known(c)]
    BY Zenon DEF Arrive
  <2>2. \A c \in Captures : known(c) \in BOOLEAN
    BY Zenon DEF IInv, TypeOK
  <2> HIDE DEF known
  <2>3. arrived' \in [Captures -> BOOLEAN] /\ \A c \in Captures : arrived'[c] = known(c)
    BY <2>1, <2>2, Zenon
  <2> QED BY <2>3, Zenon DEF known
<1>3. \A c \in Captures : arrived'[c] => status \in Final
  BY <1>2 DEF IInv, DecidedInv, ArrivedInv
<1>4. TypeOK'
  BY <1>1, <1>2 DEF IInv, TypeOK, Arrive
<1>5. BookInv' /\ DecidedInv'
  BY <1>1, CapturesAreRequests DEF IInv, BookInv, DecidedInv, Arrive
<1>6. ArrivedInv'
  BY <1>1, <1>2, <1>3, CapturesAreRequests DEF IInv, ArrivedInv, Arrive
<1> QED BY <1>4, <1>5, <1>6 DEF IInv

LEMMA FindInv ==
    ASSUME IInv, NEW r \in Requests, Find(r)
    PROVE  IInv'
<1> PICK stage \in {"insert", "existing", "notFound", "voided", "update",
                    "replayed", "psp", "conflict"} :
       /\ Goto(r, stage)
       /\ stage \in {"psp", "update"} => status # "absent"
       /\ stage = "psp" => r \in Captures /\ status = "requires_capture"
       /\ stage \in {"insert", "existing"} => r \in Creates
       /\ stage \in {"voided", "update"} => r \in Voids
       /\ stage \in {"voided", "replayed", "conflict"} => status \in Final
       /\ r \in Captures => (stage = "notFound" <=> status = "absent")
  <2>1. status \in {"absent", "requires_capture"} \cup Final
    BY DEF IInv, TypeOK
  <2> QED BY <2>1, RequestsAssumption DEF Find
<1>1. /\ at' \in [Requests -> Stages] /\ at'[r] = stage
      /\ \A q \in Requests : q # r => at'[q] = at[q]
  BY Moves DEF IInv
<1>2. TypeOK'
  BY <1>1 DEF IInv, TypeOK, Find
<1>3. BookInv' /\ DecidedInv'
  BY <1>1, CapturesAreRequests, RequestsAssumption DEF IInv, BookInv, DecidedInv, Find
<1>4. at[r] = "find"
  BY DEF Find
<1>5. ArrivedInv'
  BY <1>1, <1>4, CapturesAreRequests, RequestsAssumption DEF IInv, ArrivedInv, Find
<1> QED BY <1>2, <1>3, <1>5 DEF IInv

(* The two single statements of creates and voids. *)
LEMMA InsertVoidInv ==
    ASSUME IInv, NEW r \in Requests, Insert(r) \/ Void(r)
    PROVE  IInv'
<1>1. CASE Insert(r)
  <2> PICK stage \in {"created", "aborted"} : Goto(r, stage)
    BY <1>1 DEF Insert
  <2>1. /\ at' \in [Requests -> Stages] /\ at'[r] = stage
        /\ \A q \in Requests : q # r => at'[q] = at[q]
    BY Moves DEF IInv
  <2>2. r \notin Captures
    BY <1>1, RequestsAssumption DEF Insert
  <2>3. status' # "absent" /\ (status \in Final => status' \in Final)
    BY <1>1 DEF Insert
  <2>4. TypeOK'
    BY <1>1, <2>1 DEF IInv, TypeOK, Insert
  <2> QED BY <1>1, <2>1, <2>2, <2>3, <2>4, CapturesAreRequests
        DEF IInv, BookInv, DecidedInv, ArrivedInv, Insert
<1>2. CASE Void(r)
  <2> PICK stage \in {"voided", "conflict"} : Goto(r, stage)
    BY <1>2 DEF Void
  <2>1. /\ at' \in [Requests -> Stages] /\ at'[r] = stage
        /\ \A q \in Requests : q # r => at'[q] = at[q]
    BY Moves DEF IInv
  <2>2. r \notin Captures
    BY <1>2, RequestsAssumption DEF Void
  <2>3. status' \in Final
    BY <1>2 DEF Void, UpdateStatus, IInv, TypeOK, DecidedInv
  <2>4. TypeOK'
    BY <1>2, <2>1, <2>3 DEF IInv, TypeOK, Void
  <2> QED BY <1>2, <2>1, <2>2, <2>3, <2>4, CapturesAreRequests
        DEF IInv, BookInv, DecidedInv, ArrivedInv, Void
<1> QED BY <1>1, <1>2

LEMMA PspInv ==
    ASSUME IInv, NEW c \in Captures, PspCapture(c)
    PROVE  IInv'
<1>1. /\ at' \in [Requests -> Stages] /\ at'[c] = "attemptNo"
      /\ \A q \in Requests : q # c => at'[q] = at[q]
  BY CapturesAreRequests, Moves DEF IInv, PspCapture
<1> PICK ok \in BOOLEAN :
       /\ pspOk' = [pspOk EXCEPT ![c] = ok]
       /\ charged' = IF ok THEN charged \cup {c} ELSE charged
  BY DEF PspCapture
<1>2. /\ pspOk' \in [Captures -> BOOLEAN]
      /\ pspOk'[c] = ok
      /\ \A d \in Captures : d # c => pspOk'[d] = pspOk[d]
  BY Zenon DEF IInv, TypeOK
<1>3. charged \subseteq charged' /\ charged' \subseteq charged \cup {c} /\ (ok => c \in charged')
  OBVIOUS
<1>4. at[c] = "psp" /\ ~arrived[c] /\ status # "absent"
  BY CapturesAreRequests DEF PspCapture, IInv, ArrivedInv, DecidedInv
<1>5. TypeOK'
  BY <1>1, <1>2, <1>3 DEF IInv, TypeOK, PspCapture
<1>6. BookInv'
  BY <1>1, <1>2, <1>3, CapturesAreRequests DEF IInv, BookInv, PspCapture
<1>7. DecidedInv' /\ ArrivedInv'
  BY <1>1, <1>3, <1>4, CapturesAreRequests DEF IInv, DecidedInv, ArrivedInv, PspCapture
<1> QED BY <1>5, <1>6, <1>7 DEF IInv

(* The attempt row: nothing but its number and the row change. *)
LEMMA AttemptInv ==
    ASSUME IInv, NEW c \in Captures, NextAttemptNo(c) \/ RecordAttempt(c)
    PROVE  IInv'
<1>1. CASE NextAttemptNo(c)
  <2>1. /\ at' \in [Requests -> Stages] /\ at'[c] = "record"
        /\ \A q \in Requests : q # c => at'[q] = at[q]
    BY <1>1, CapturesAreRequests, Moves DEF IInv, NextAttemptNo
  <2>2. Cardinality(attempts) + 1 \in Nat
    BY FS_CardinalityType DEF IInv, TypeOK
  <2>3. TypeOK'
    BY <1>1, <2>1, <2>2 DEF IInv, TypeOK, NextAttemptNo
  <2> QED BY <1>1, <2>1, <2>3, CapturesAreRequests
        DEF IInv, BookInv, DecidedInv, ArrivedInv, NextAttemptNo
<1>2. CASE RecordAttempt(c)
  <2>1. /\ at' \in [Requests -> Stages] /\ at'[c] = "update"
        /\ \A q \in Requests : q # c => at'[q] = at[q]
    BY <1>2, CapturesAreRequests, Moves DEF IInv, RecordAttempt
  <2>2. IsFiniteSet(attempts')
    BY <1>2, FS_AddElement DEF IInv, TypeOK, RecordAttempt
  <2>3. attempts' \subseteq [no : Nat, of : Captures]
    BY <1>2 DEF IInv, TypeOK, RecordAttempt
  <2>4. TypeOK'
    BY <1>2, <2>1, <2>2, <2>3 DEF IInv, TypeOK, RecordAttempt
  <2> QED BY <1>2, <2>1, <2>4, CapturesAreRequests
        DEF IInv, BookInv, DecidedInv, ArrivedInv, RecordAttempt
<1> QED BY <1>1, <1>2

LEMMA DecideInv ==
    ASSUME IInv, NEW c \in Captures, Decide(c)
    PROVE  IInv'
<1> PICK stage \in {"post", "declined"} : Goto(c, stage) /\ (stage = "post" <=> pspOk[c])
  BY DEF Decide
<1>1. /\ at' \in [Requests -> Stages] /\ at'[c] = stage
      /\ \A q \in Requests : q # c => at'[q] = at[q]
  BY CapturesAreRequests, Moves DEF IInv
<1>2. status' \in Final
  BY CapturesAreRequests DEF Decide, UpdateStatus, IInv, TypeOK, DecidedInv
<1>3. TypeOK'
  BY <1>1, <1>2 DEF IInv, TypeOK, Decide
<1>4. BookInv'
  BY <1>1, CapturesAreRequests DEF IInv, BookInv, Decide
<1>5. DecidedInv' /\ ArrivedInv'
  BY <1>1, <1>2, CapturesAreRequests DEF IInv, DecidedInv, ArrivedInv, Decide
<1> QED BY <1>3, <1>4, <1>5 DEF IInv

LEMMA PostingInv ==
    ASSUME IInv, NEW c \in Captures, SendPost(c) \/ PostAnswered(c) \/ PostFails(c)
    PROVE  IInv'
<1>0. try[c] \in 1 .. Tries
  BY DEF IInv, TypeOK
<1>1. CASE SendPost(c)
  <2>1. /\ at' \in [Requests -> Stages] /\ at'[c] = "waiting"
        /\ \A q \in Requests : q # c => at'[q] = at[q]
    BY <1>1, CapturesAreRequests, Moves DEF IInv, SendPost
  <2>2. /\ post' \in [Captures -> [1 .. Tries -> PostStates]]
        /\ \A d \in Captures, k \in 1 .. Tries :
              post'[d][k] = IF d = c /\ k = try[c] THEN "sent" ELSE post[d][k]
    BY <1>0, <1>1 DEF IInv, TypeOK, SendPost, PostStates
  <2>3. at[c] = "post"
    BY <1>1 DEF SendPost
  <2>4. TypeOK'
    BY <1>1, <2>1, <2>2 DEF IInv, TypeOK, SendPost
  <2>5. BookInv'
    BY <1>1, <2>1, <2>2, <2>3, CapturesAreRequests DEF IInv, BookInv, SendPost
  <2>6. DecidedInv' /\ ArrivedInv'
    BY <1>1, <2>1, <2>3, CapturesAreRequests DEF IInv, DecidedInv, ArrivedInv, SendPost
  <2> QED BY <2>4, <2>5, <2>6 DEF IInv
<1>2. CASE PostAnswered(c)
  <2>1. /\ at' \in [Requests -> Stages] /\ at'[c] = "captured"
        /\ \A q \in Requests : q # c => at'[q] = at[q]
    BY <1>2, CapturesAreRequests, Moves DEF IInv, PostAnswered
  <2>2. at[c] = "waiting" /\ ledger[c] = 1 /\ c \in charged
    BY <1>0, <1>2 DEF IInv, BookInv, PostAnswered
  <2>3. TypeOK'
    BY <1>2, <2>1 DEF IInv, TypeOK, PostAnswered
  <2> QED BY <1>2, <2>1, <2>2, <2>3, CapturesAreRequests
        DEF IInv, BookInv, DecidedInv, ArrivedInv, PostAnswered
<1>3. CASE PostFails(c)
  <2> PICK stage \in {"post", "ledgerFailed"} : Goto(c, stage)
    BY <1>3 DEF PostFails
  <2>1. /\ at' \in [Requests -> Stages] /\ at'[c] = stage
        /\ \A q \in Requests : q # c => at'[q] = at[q]
    BY CapturesAreRequests, Moves DEF IInv
  <2>2. try' \in [Captures -> 1 .. Tries]
    <3>1. CASE try[c] < Tries
      <4>1. try[c] + 1 \in 1 .. Tries
        BY <1>0, <3>1, TriesAssumption
      <4>2. try' = [try EXCEPT ![c] = try[c] + 1]
        BY <1>3, <3>1 DEF PostFails
      <4> QED BY <4>1, <4>2, Zenon DEF IInv, TypeOK
    <3>2. CASE ~(try[c] < Tries)
      BY <1>3, <3>2 DEF IInv, TypeOK, PostFails
    <3> QED BY <3>1, <3>2
  <2>3. TypeOK'
    BY <1>3, <2>1, <2>2 DEF IInv, TypeOK, PostFails
  <2> QED BY <1>3, <2>1, <2>3, CapturesAreRequests
        DEF IInv, BookInv, DecidedInv, ArrivedInv, PostFails
<1> QED BY <1>1, <1>2, <1>3

LEMMA AbortInv ==
    ASSUME IInv, NEW r \in Requests, Abort(r)
    PROVE  IInv'
<1>1. /\ at' \in [Requests -> Stages] /\ at'[r] = "aborted"
      /\ \A q \in Requests : q # r => at'[q] = at[q]
  BY Moves DEF IInv, Abort
<1>2. TypeOK'
  BY <1>1 DEF IInv, TypeOK, Abort
<1> QED BY <1>1, <1>2, CapturesAreRequests DEF IInv, BookInv, DecidedInv, ArrivedInv, Abort

-----------------------------------------------------------------------------
(* Steps of the ledger. *)

LEMMA LedgerInv ==
    ASSUME IInv, NEW c \in Captures, NEW k \in 1 .. Tries,
           LedgerStep(c, k) \/ LosePost(c, k)
    PROVE  IInv'
<1> PICK to \in {"done", "missing", "lost"} :
       /\ post' = [post EXCEPT ![c][k] = to]
       /\ to = "done" => ledger'[c] = 1
  BY DEF LedgerStep, LedgerSelect, LedgerInsert, LosePost, IInv, TypeOK, BookInv
<1>1. /\ post' \in [Captures -> [1 .. Tries -> PostStates]]
      /\ \A d \in Captures, j \in 1 .. Tries :
            post'[d][j] = IF d = c /\ j = k THEN to ELSE post[d][j]
  BY DEF IInv, TypeOK, PostStates
<1>2. post[c][k] # "none"
  BY DEF LedgerStep, LedgerSelect, LedgerInsert, LosePost
<1>3. c \in charged
  BY <1>2 DEF IInv, BookInv
<1>4. /\ ledger' \in [Captures -> 0 .. Tries]
      /\ ledger'[c] \in {0, 1} /\ (ledger[c] = 1 => ledger'[c] = 1)
      /\ \A d \in Captures : d # c => ledger'[d] = ledger[d]
  BY TriesAssumption
     DEF LedgerStep, LedgerSelect, LedgerInsert, LosePost, IInv, TypeOK, BookInv
<1>5. UNCHANGED <<status, attempts, charged, at, attemptNo, try, pspOk, arrived>>
  BY DEF LedgerStep, LedgerSelect, LedgerInsert, LosePost
<1>6. TypeOK'
  BY <1>1, <1>4, <1>5 DEF IInv, TypeOK
<1>7. BookInv'
  BY <1>1, <1>3, <1>4, <1>5, CapturesAreRequests DEF IInv, BookInv
<1>8. DecidedInv' /\ ArrivedInv'
  BY <1>5 DEF IInv, DecidedInv, ArrivedInv
<1> QED BY <1>6, <1>7, <1>8 DEF IInv

-----------------------------------------------------------------------------
(* The invariant is inductive. *)
LEMMA NextInv == IInv /\ [Next]_vars => IInv'
<1> SUFFICES ASSUME IInv, [Next]_vars PROVE IInv'
  OBVIOUS
<1>1. ASSUME NEW r \in Requests, Arrive(r) PROVE IInv'
  BY <1>1, ArriveInv
<1>2. ASSUME NEW r \in Requests, Step(r) PROVE IInv'
  BY <1>2, FindInv, InsertVoidInv, PspInv, AttemptInv, DecideInv, PostingInv
     DEF Step, CaptureStep
<1>3. ASSUME NEW r \in Requests, Abort(r) PROVE IInv'
  BY <1>3, AbortInv
<1>4. ASSUME NEW c \in Captures, NEW k \in 1 .. Tries, LedgerStep(c, k) \/ LosePost(c, k)
      PROVE  IInv'
  BY <1>4, LedgerInv
<1>5. CASE UNCHANGED vars
  BY <1>5 DEF vars, IInv, TypeOK, BookInv, DecidedInv, ArrivedInv
<1> QED BY <1>1, <1>2, <1>3, <1>4, <1>5 DEF Next

(* Every behaviour satisfies the invariant. *)
LEMMA Invariance == Spec => []IInv
BY InitInv, NextInv, PTL DEF Spec

(* Every row and request keeps its type. *)
THEOREM TypeCorrect == Spec => []TypeOK
<1>1. IInv => TypeOK
  BY DEF IInv
<1> QED BY <1>1, Invariance, PTL

(* ledgerRepo.ts 53-82: whatever is retried, lost or late, a charge is     *)
(* booked at most once and only charges are booked.                        *)
THEOREM LedgerCorrect == Spec => []LedgerBacked
<1>1. IInv => LedgerBacked
  <2> SUFFICES ASSUME IInv, NEW c \in Captures
               PROVE  ledger[c] <= IF c \in charged THEN 1 ELSE 0
    BY DEF LedgerBacked
  <2>1. CASE c \in charged
    BY <2>1 DEF IInv, BookInv
  <2>2. CASE c \notin charged
    BY <2>2 DEF IInv, BookInv
  <2> QED BY <2>1, <2>2
<1> QED BY <1>1, Invariance, PTL

(* captureIntent.ts 52-63: an answer with a reference is in the ledger.    *)
THEOREM AnswersAreBooked == Spec => []BookedBeforeAnswer
<1>1. IInv => BookedBeforeAnswer
  BY DEF IInv, BookInv, BookedBeforeAnswer
<1> QED BY <1>1, Invariance, PTL

(* captureIntent.ts 28-31: no request that follows an answer charges.      *)
THEOREM LateCapturesChargeNobody == Spec => []NoChargeAfterAnswer
<1>1. IInv => NoChargeAfterAnswer
  BY DEF IInv, ArrivedInv, NoChargeAfterAnswer
<1> QED BY <1>1, Invariance, PTL

(* intentsRepo.ts 63-73: a decided intent stays as it is.                  *)
THEOREM DecidedForGood == Spec => StatusIsFinal
<1>1. [Next]_vars => [(status \in Final) => status' = status]_vars
  BY DEF Next, Arrive, Step, Find, Insert, Void, CaptureStep, PspCapture, NextAttemptNo,
         RecordAttempt, Decide, UpdateStatus, SendPost, PostAnswered, PostFails, Abort,
         LedgerStep, LedgerSelect, LedgerInsert, LosePost, vars
<1> QED BY <1>1, PTL DEF Spec, StatusIsFinal
=============================================================================
