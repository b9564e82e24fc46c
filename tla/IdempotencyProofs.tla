------------------------- MODULE IdempotencyProofs -------------------------
(***************************************************************************)
(* Safety of the idempotency guard for any number of callers and faults.   *)
(***************************************************************************)
EXTENDS Idempotency, TLAPS

(* Whoever may still run, store or delete holds the lock; outside the      *)
(* section nobody does, except a caller cut off by a fault.                *)
LockInv ==
    /\ \A c \in Callers :
          /\ at[c] \in {"fn", "store", "catchDel", "finallyDel"} => lock = c
          /\ at[c] = "finally" /\ ~failed[c] => lock = c
          /\ at[c] \in {"idle", "read", "acquire", "fn", "store"} \cup Polling => ~failed[c]
    /\ LockHasAnOwner

(* A caller past its store, and every caller that returned a result, left  *)
(* a stored result behind.                                                 *)
StoredInv ==
    \A c \in Callers :
        /\ at[c] \in Answered => stored # None
        /\ at[c] \in {"finally", "finallyDel"} => stored # None \/ failed[c]
        /\ at[c] \in {"catch", "catchDel"} => failed[c]

(* A caller that came after an answer reads the stored result and goes.    *)
ArrivedInv ==
    \A c \in Callers :
        /\ at[c] = "idle" => c \notin ran /\ ~arrived[c]
        /\ arrived[c] =>
              /\ at[c] \in {"read", "replayed", "threw", "crashed"}
              /\ stored # None
              /\ c \notin ran

IInv == TypeOK /\ LockInv /\ StoredInv /\ ArrivedInv

(* A command moves its own caller and no other. *)
LEMMA Moves ==
    ASSUME TypeOK, NEW c \in Callers, NEW stage \in Stages, Goto(c, stage)
    PROVE  /\ at' \in [Callers -> Stages]
           /\ at'[c] = stage
           /\ \A d \in Callers : d # c => at'[d] = at[d]
BY DEF TypeOK, Goto

(* The initial state satisfies the invariant. *)
LEMMA InitInv == Init => IInv
BY NoneAssumption, FaultsAssumption
   DEF Init, IInv, TypeOK, LockInv, LockHasAnOwner, StoredInv, ArrivedInv,
       Stages, Answered, Ended, InSection, Polling

USE DEF Stages, Answered, Ended, InSection, Polling

(* Commands that only move their caller and leave Redis alone. *)
LEMMA LooksInv ==
    ASSUME IInv, NEW c \in Callers,
           \/ ReadStored(c) \/ FnReturns(c) \/ FnThrows(c) \/ CheckToken(c)
           \/ Poll(c) \/ PollStored(c) \/ PollLock(c)
    PROVE  IInv'
<1>1. CASE ReadStored(c)
  <2> PICK stage \in {"replayed", "acquire"} :
         /\ Goto(c, stage)
         /\ stage = "replayed" <=> stored # None
    BY <1>1 DEF ReadStored
  <2>1. /\ at' \in [Callers -> Stages] /\ at'[c] = stage
        /\ \A d \in Callers : d # c => at'[d] = at[d]
    BY Moves DEF IInv
  <2> QED BY <1>1, <2>1, NoneAssumption
        DEF ReadStored, IInv, TypeOK, LockInv, LockHasAnOwner, StoredInv, ArrivedInv
<1>2. CASE FnReturns(c)
  <2>1. /\ at' \in [Callers -> Stages] /\ at'[c] = "store"
        /\ \A d \in Callers : d # c => at'[d] = at[d]
    BY <1>2, Moves DEF IInv, FnReturns
  <2> QED BY <1>2, <2>1, NoneAssumption
        DEF FnReturns, IInv, TypeOK, LockInv, LockHasAnOwner, StoredInv, ArrivedInv
<1>3. CASE FnThrows(c)
  <2>1. /\ at' \in [Callers -> Stages] /\ at'[c] = "catch"
        /\ \A d \in Callers : d # c => at'[d] = at[d]
    BY <1>3, Moves DEF IInv, FnThrows
  <2> QED BY <1>3, <2>1, NoneAssumption
        DEF FnThrows, IInv, TypeOK, LockInv, LockHasAnOwner, StoredInv, ArrivedInv
<1>4. CASE CheckToken(c)
  <2> PICK stage \in {"catchDel", "finally", "finallyDel", "threw", "ran"} :
         /\ Goto(c, stage)
         /\ at[c] = "catch" => stage = IF lock = c THEN "catchDel" ELSE "finally"
         /\ at[c] = "finally" => stage = IF lock = c THEN "finallyDel"
                                         ELSE IF failed[c] THEN "threw" ELSE "ran"
    BY <1>4 DEF CheckToken, Leave
  <2>1. /\ at' \in [Callers -> Stages] /\ at'[c] = stage
        /\ \A d \in Callers : d # c => at'[d] = at[d]
    BY Moves DEF IInv
  <2> QED BY <1>4, <2>1, NoneAssumption
        DEF CheckToken, IInv, TypeOK, LockInv, LockHasAnOwner, StoredInv, ArrivedInv
<1>5. CASE Poll(c) \/ PollStored(c) \/ PollLock(c)
  <2> PICK stage \in {"conflict", "pollRead", "replayed", "pollLock", "read", "poll"} :
         /\ Goto(c, stage)
         /\ stage = "replayed" => stored # None
    BY <1>5 DEF Poll, PollStored, PollLock
  <2>1. /\ at' \in [Callers -> Stages] /\ at'[c] = stage
        /\ \A d \in Callers : d # c => at'[d] = at[d]
    BY Moves DEF IInv
  <2> QED BY <1>5, <2>1, NoneAssumption
        DEF Poll, PollStored, PollLock, IInv, TypeOK, LockInv, LockHasAnOwner,
            StoredInv, ArrivedInv
<1> QED BY <1>1, <1>2, <1>3, <1>4, <1>5

(* The arrival of a call, and the clock of a polling one. *)
LEMMA ArrivesInv ==
    ASSUME IInv, NEW c \in Callers, Call(c) \/ DeadlinePasses(c)
    PROVE  IInv'
<1>1. CASE Call(c)
  <2>1. /\ at' \in [Callers -> Stages] /\ at'[c] = "read"
        /\ \A d \in Callers : d # c => at'[d] = at[d]
    BY <1>1, Moves DEF IInv, Call
  <2>2. arrived'[c] => stored # None
    BY <1>1 DEF Call, IInv, TypeOK, StoredInv
  <2>3. /\ arrived' \in [Callers -> BOOLEAN]
        /\ \A d \in Callers : d # c => arrived'[d] = arrived[d]
    BY <1>1, Zenon DEF Call, IInv, TypeOK
  <2>4. TypeOK' /\ LockInv' /\ StoredInv'
    BY <1>1, <2>1, <2>3, NoneAssumption
       DEF Call, IInv, TypeOK, LockInv, LockHasAnOwner, StoredInv
  <2>5. ArrivedInv'
    BY <1>1, <2>1, <2>2, <2>3 DEF Call, IInv, ArrivedInv
  <2> QED BY <2>4, <2>5 DEF IInv
<1>2. CASE DeadlinePasses(c)
  BY <1>2 DEF DeadlinePasses, IInv, TypeOK, LockInv, LockHasAnOwner, StoredInv, ArrivedInv
<1> QED BY <1>1, <1>2

(* The commands that write the two keys. *)
LEMMA WritesInv ==
    ASSUME IInv, NEW c \in Callers, Acquire(c) \/ StoreResult(c) \/ DeleteLock(c)
    PROVE  IInv'
<1>1. CASE Acquire(c)
  <2> PICK stage \in {"fn", "poll"} :
         Goto(c, stage) /\ (stage = "fn" <=> lock = None)
    BY <1>1 DEF Acquire
  <2>1. /\ at' \in [Callers -> Stages] /\ at'[c] = stage
        /\ \A d \in Callers : d # c => at'[d] = at[d]
    BY Moves DEF IInv
  <2> QED BY <1>1, <2>1, NoneAssumption
        DEF Acquire, IInv, TypeOK, LockInv, LockHasAnOwner, StoredInv, ArrivedInv
<1>2. CASE StoreResult(c)
  <2>1. /\ at' \in [Callers -> Stages] /\ at'[c] = "finally"
        /\ \A d \in Callers : d # c => at'[d] = at[d]
    BY <1>2, Moves DEF IInv, StoreResult
  <2> QED BY <1>2, <2>1, NoneAssumption
        DEF StoreResult, IInv, TypeOK, LockInv, LockHasAnOwner, StoredInv, ArrivedInv
<1>3. CASE DeleteLock(c)
  <2> PICK stage \in {"finally", "threw", "ran"} :
         /\ Goto(c, stage)
         /\ at[c] = "catchDel" => stage = "finally"
         /\ at[c] = "finallyDel" => stage = IF failed[c] THEN "threw" ELSE "ran"
    BY <1>3 DEF DeleteLock, Leave
  <2>1. /\ at' \in [Callers -> Stages] /\ at'[c] = stage
        /\ \A d \in Callers : d # c => at'[d] = at[d]
    BY Moves DEF IInv
  <2> QED BY <1>3, <2>1, NoneAssumption
        DEF DeleteLock, IInv, TypeOK, LockInv, LockHasAnOwner, StoredInv, ArrivedInv
<1> QED BY <1>1, <1>2, <1>3

(* Crashes, rejected commands and the expiry of a dead owner's lock. *)
LEMMA FaultsInv ==
    ASSUME IInv, NEW c \in Callers, RedisRejects(c) \/ Crash(c) \/ LockExpires
    PROVE  IInv'
<1>1. CASE RedisRejects(c)
  <2> PICK stage \in {"threw", "catch", "finally"} :
         /\ Goto(c, stage)
         /\ at[c] = "store" => stage = "catch"
         /\ at[c] \in {"catch", "catchDel"} => stage = "finally"
         /\ at[c] \notin {"store", "catch", "catchDel"} => stage = "threw"
    BY <1>1 DEF RedisRejects
  <2>1. /\ at' \in [Callers -> Stages] /\ at'[c] = stage
        /\ \A d \in Callers : d # c => at'[d] = at[d]
    BY Moves DEF IInv
  <2>2. faults' \in 1 .. MaxFaults
    BY <1>1, FaultsAssumption DEF RedisRejects, IInv, TypeOK
  <2>3. CASE at[c] \in {"read", "pollRead", "pollLock"}
    BY <1>1, <2>1, <2>2, <2>3, NoneAssumption
       DEF RedisRejects, IInv, TypeOK, LockInv, LockHasAnOwner, StoredInv, ArrivedInv
  <2>4. CASE at[c] = "acquire"
    BY <1>1, <2>1, <2>2, <2>4, NoneAssumption
       DEF RedisRejects, IInv, TypeOK, LockInv, LockHasAnOwner, StoredInv, ArrivedInv
  <2>5. CASE at[c] = "store"
    <3>1. /\ failed' = [failed EXCEPT ![c] = TRUE]
          /\ stored' \in {stored, c}
          /\ UNCHANGED <<lock, late, ran, arrived>>
      BY <1>1, <2>5 DEF RedisRejects
    <3>2. stage = "catch" /\ ~arrived[c]
      BY <2>5 DEF IInv, ArrivedInv
    <3>3. /\ failed' \in [Callers -> BOOLEAN] /\ failed'[c]
          /\ \A d \in Callers : d # c => failed'[d] = failed[d]
      BY <3>1, Zenon DEF IInv, TypeOK
    <3>4. TypeOK' /\ LockInv'
      BY <2>1, <2>2, <2>5, <3>1, <3>2, <3>3
         DEF IInv, TypeOK, LockInv, LockHasAnOwner
    <3>5. StoredInv' /\ ArrivedInv'
      BY <2>1, <2>5, <3>1, <3>2, <3>3, NoneAssumption
         DEF IInv, TypeOK, StoredInv, ArrivedInv
    <3> QED BY <3>4, <3>5 DEF IInv
  <2>6. CASE at[c] \in {"catch", "catchDel"}
    BY <1>1, <2>1, <2>2, <2>6, NoneAssumption
       DEF RedisRejects, IInv, TypeOK, LockInv, LockHasAnOwner, StoredInv, ArrivedInv
  <2>7. CASE at[c] \in {"finally", "finallyDel"}
    BY <1>1, <2>1, <2>2, <2>7, NoneAssumption
       DEF RedisRejects, IInv, TypeOK, LockInv, LockHasAnOwner, StoredInv, ArrivedInv
  <2> QED BY <1>1, <2>3, <2>4, <2>5, <2>6, <2>7 DEF RedisRejects
<1>2. CASE Crash(c)
  <2>1. /\ at' \in [Callers -> Stages] /\ at'[c] = "crashed"
        /\ \A d \in Callers : d # c => at'[d] = at[d]
    BY <1>2, Moves DEF IInv, Crash
  <2>2. faults' \in 1 .. MaxFaults
    BY <1>2, FaultsAssumption DEF Crash, IInv, TypeOK
  <2>3. ran' \in SUBSET Callers /\ \A d \in Callers : d # c => (d \in ran' <=> d \in ran)
    BY <1>2 DEF Crash, IInv, TypeOK
  <2>4. at[c] # "fn" => ran' = ran
    BY <1>2 DEF Crash
  <2> QED BY <1>2, <2>1, <2>2, <2>3, <2>4, NoneAssumption
        DEF Crash, IInv, TypeOK, LockInv, LockHasAnOwner, StoredInv, ArrivedInv
<1>3. CASE LockExpires
  BY <1>3, NoneAssumption
     DEF LockExpires, IInv, TypeOK, LockInv, LockHasAnOwner, StoredInv, ArrivedInv
<1> QED BY <1>1, <1>2, <1>3

(* The invariant is inductive. *)
LEMMA NextInv == IInv /\ [Next]_vars => IInv'
<1> SUFFICES ASSUME IInv, [Next]_vars PROVE IInv'
  OBVIOUS
<1>1. ASSUME NEW c \in Callers, Step(c) PROVE IInv'
  BY <1>1, LooksInv, WritesInv DEF Step
<1>2. ASSUME NEW c \in Callers, Call(c) \/ DeadlinePasses(c) PROVE IInv'
  BY <1>2, ArrivesInv
<1>3. ASSUME NEW c \in Callers, RedisRejects(c) \/ Crash(c) PROVE IInv'
  BY <1>3, FaultsInv
<1>4. CASE LockExpires
  <2> PICK c \in Callers : c = lock
    BY <1>4 DEF LockExpires, IInv, TypeOK
  <2> QED BY <1>4, FaultsInv
<1>5. CASE UNCHANGED vars
  BY <1>5 DEF vars, IInv, TypeOK, LockInv, LockHasAnOwner, StoredInv, ArrivedInv
<1> QED BY <1>1, <1>2, <1>3, <1>4, <1>5 DEF Next

(* Every behaviour satisfies the invariant. *)
LEMMA Invariance == Spec => []IInv
BY InitInv, NextInv, PTL DEF Spec

(* The Redis keys and the callers keep their types. *)
THEOREM TypeCorrect == Spec => []TypeOK
<1>1. IInv => TypeOK
  BY DEF IInv
<1> QED BY <1>1, Invariance, PTL

(* idempotency.ts 47-67: for any number of callers, crashes and rejected   *)
(* commands, the guarded function never runs twice at the same time.       *)
THEOREM MutualExclusion == Spec => []OneRunAtATime
<1>1. IInv => OneRunAtATime
  BY DEF IInv, LockInv, OneRunAtATime
<1> QED BY <1>1, Invariance, PTL

(* idempotency.ts 39-43: a call that arrives after an answer replays it.   *)
THEOREM LateCallsReplay == Spec => []NoRunAfterAnswer
<1>1. IInv => NoRunAfterAnswer
  BY DEF IInv, ArrivedInv, NoRunAfterAnswer
<1> QED BY <1>1, Invariance, PTL

(* idempotency.ts 55-66: no lock without a worker unless something failed. *)
THEOREM NoStrayLock == Spec => []LockHasAnOwner
<1>1. IInv => LockHasAnOwner
  BY DEF IInv, LockInv
<1> QED BY <1>1, Invariance, PTL

-----------------------------------------------------------------------------
(* The guard implements its contract. *)

phases == [c \in Callers |-> PhaseOf(c)]

(* Only the phase of the caller that moves can change. *)
LEMMA PhaseMoves ==
    ASSUME IInv, NEW c \in Callers, NEW to, PhaseOf(c)' = to,
           \A d \in Callers : d # c => at'[d] = at[d] /\ failed'[d] = failed[d]
    PROVE  phases' = [phases EXCEPT ![c] = to]
<1>1. \A d \in Callers : d # c => PhaseOf(d)' = PhaseOf(d)
  BY DEF PhaseOf
<1> QED BY <1>1 DEF phases

(* A step that leaves the phase of its caller leaves all phases. *)
LEMMA PhaseStays ==
    ASSUME IInv, NEW c \in Callers, PhaseOf(c)' = PhaseOf(c),
           \A d \in Callers : d # c => at'[d] = at[d] /\ failed'[d] = failed[d]
    PROVE  phases' = phases
<1>1. \A d \in Callers : PhaseOf(d)' = PhaseOf(d)
  BY DEF PhaseOf
<1> QED BY <1>1 DEF phases

(* The ways a command of c shows in the contract. *)
LEMMA Failing ==
    ASSUME IInv, NEW c \in Callers, UNCHANGED arrived,
           PhaseOf(c) \in {"called", "running"}, PhaseOf(c)' = "failed",
           \/ UNCHANGED stored
           \/ PhaseOf(c) = "running" /\ stored' = c,
           \A d \in Callers : d # c => at'[d] = at[d] /\ failed'[d] = failed[d]
    PROVE  Guard!Fail(c)
<1>1. phases' = [phases EXCEPT ![c] = "failed"] /\ phases[c] = PhaseOf(c)
  BY PhaseMoves DEF phases
<1>2. (stored # None)' = (stored # None) \/ (PhaseOf(c) = "running" /\ (stored # None)' = TRUE)
  BY NoneAssumption
<1> QED BY <1>1, <1>2 DEF Guard!Fail, Guard!Becomes, phases

LEMMA Replaying ==
    ASSUME IInv, NEW c \in Callers, UNCHANGED <<arrived, stored>>, stored # None,
           PhaseOf(c) = "called", PhaseOf(c)' = "answered",
           \A d \in Callers : d # c => at'[d] = at[d] /\ failed'[d] = failed[d]
    PROVE  Guard!Replay(c)
<1>1. phases' = [phases EXCEPT ![c] = "answered"] /\ phases[c] = "called"
  BY PhaseMoves DEF phases
<1> QED BY <1>1 DEF Guard!Replay, Guard!Becomes, phases

LEMMA Staying ==
    ASSUME IInv, NEW c \in Callers, UNCHANGED <<arrived, stored>>,
           PhaseOf(c)' = PhaseOf(c),
           \A d \in Callers : d # c => at'[d] = at[d] /\ failed'[d] = failed[d]
    PROVE  UNCHANGED Guard!guardVars
<1>1. phases' = phases
  BY PhaseStays
<1> QED BY <1>1 DEF Guard!guardVars, phases

LEMMA InitMaps == Init => Guard!GuardInit
BY DEF Init, Guard!GuardInit, PhaseOf

LEMMA CallMaps ==
    ASSUME IInv, NEW c \in Callers, Call(c)
    PROVE  Guard!Call(c)
<1>1. at[c] = "idle" /\ Goto(c, "read") /\ UNCHANGED <<failed, stored>>
  BY DEF Call
<1>2. at'[c] = "read" /\ \A d \in Callers : d # c => at'[d] = at[d]
  BY <1>1, Moves DEF IInv
<1>3. PhaseOf(c)' = "called"
  BY <1>2 DEF PhaseOf
<1>4. phases' = [phases EXCEPT ![c] = "called"]
  BY <1>1, <1>2, <1>3, PhaseMoves
<1>5. \A d \in Callers : phases[d] = PhaseOf(d)
  BY DEF phases
<1>6. \A d \in Callers : (phases[d] = "answered") <=> (at[d] \in Answered)
  BY <1>5 DEF PhaseOf
<1>7. (\E d \in Callers : at[d] \in Answered) <=> (\E d \in Callers : phases[d] = "answered")
  BY <1>6
<1>8. arrived' = [arrived EXCEPT ![c] = \E d \in Callers : phases[d] = "answered"]
  BY <1>7, Zenon DEF Call
<1>9. phases[c] = "idle"
  BY <1>1, <1>5 DEF PhaseOf
<1>10. UNCHANGED (stored # None)
  BY <1>1
<1> QED BY <1>4, <1>8, <1>9, <1>10, Zenon DEF Guard!Call, Guard!Becomes, phases

(* Reading, polling and giving up. *)
LEMMA LookMaps ==
    ASSUME IInv, NEW c \in Callers,
           ReadStored(c) \/ Poll(c) \/ PollStored(c) \/ PollLock(c)
    PROVE  Guard!GuardNext \/ UNCHANGED Guard!guardVars
<1> PICK stage \in {"conflict", "pollRead", "replayed", "pollLock", "read", "poll", "acquire"} :
       /\ Goto(c, stage)
       /\ stage = "replayed" => stored # None
  BY DEF ReadStored, Poll, PollStored, PollLock
<1>1. at'[c] = stage /\ \A d \in Callers : d # c => at'[d] = at[d]
  BY Moves DEF IInv
<1>2. PhaseOf(c) = "called" /\ UNCHANGED <<arrived, stored, failed>>
  BY DEF ReadStored, Poll, PollStored, PollLock, PhaseOf
<1>3. CASE stage = "replayed"
  <2>1. PhaseOf(c)' = "answered"
    BY <1>1, <1>3 DEF PhaseOf
  <2> QED BY <1>1, <1>2, <1>3, <2>1, Replaying DEF Guard!GuardNext
<1>4. CASE stage = "conflict"
  <2>1. PhaseOf(c)' = "failed"
    BY <1>1, <1>4 DEF PhaseOf
  <2> QED BY <1>1, <1>2, <2>1, Failing DEF Guard!GuardNext
<1>5. CASE stage \in {"pollRead", "pollLock", "read", "poll", "acquire"}
  <2>1. PhaseOf(c)' = PhaseOf(c)
    BY <1>1, <1>2, <1>5 DEF PhaseOf
  <2> QED BY <1>1, <1>2, <2>1, Staying
<1> QED BY <1>3, <1>4, <1>5

LEMMA AcquireMaps ==
    ASSUME IInv, NEW c \in Callers, Acquire(c)
    PROVE  Guard!GuardNext \/ UNCHANGED Guard!guardVars
<1>1. at[c] = "acquire" /\ PhaseOf(c) = "called" /\ UNCHANGED <<arrived, stored, failed>>
  BY DEF Acquire, PhaseOf
<1>2. CASE lock # None
  <2>1. Goto(c, "poll")
    BY <1>2 DEF Acquire
  <2>2. at'[c] = "poll" /\ \A d \in Callers : d # c => at'[d] = at[d]
    BY <2>1, Moves DEF IInv
  <2>3. PhaseOf(c)' = PhaseOf(c)
    BY <1>1, <2>2 DEF PhaseOf
  <2> QED BY <1>1, <2>2, <2>3, Staying
<1>3. CASE lock = None
  <2>1. Goto(c, "fn")
    BY <1>3 DEF Acquire
  <2>2. at'[c] = "fn" /\ \A d \in Callers : d # c => at'[d] = at[d]
    BY <2>1, Moves DEF IInv
  <2>3. PhaseOf(c)' = "running"
    BY <2>2 DEF PhaseOf
  <2>4. phases' = [phases EXCEPT ![c] = "running"]
    BY <1>1, <2>2, <2>3, PhaseMoves
  <2>5. \A d \in Callers : phases[d] = PhaseOf(d)
    BY DEF phases
  <2>6. \A d \in Callers : PhaseOf(d) # "running"
    <3> SUFFICES ASSUME NEW d \in Callers, PhaseOf(d) = "running" PROVE FALSE
      OBVIOUS
    <3>1. at[d] \in {"fn", "store", "finallyDel"} \/ (at[d] = "finally" /\ ~failed[d])
      BY DEF PhaseOf
    <3> QED BY <1>3, <3>1, NoneAssumption DEF IInv, LockInv
  <2>7. ~arrived[c]
    BY <1>1 DEF IInv, ArrivedInv
  <2>8. Guard!Run(c)
    BY <1>1, <2>4, <2>5, <2>6, <2>7 DEF Guard!Run, Guard!Becomes, phases
  <2> QED BY <2>8 DEF Guard!GuardNext
<1> QED BY <1>2, <1>3

(* The guarded section. *)
LEMMA SectionMaps ==
    ASSUME IInv, NEW c \in Callers, FnReturns(c) \/ FnThrows(c) \/ StoreResult(c)
    PROVE  Guard!GuardNext \/ UNCHANGED Guard!guardVars
<1>0. PhaseOf(c) = "running" /\ ~failed[c]
  BY DEF FnReturns, FnThrows, StoreResult, PhaseOf, IInv, LockInv
<1>1. CASE FnReturns(c)
  <2>1. at'[c] = "store" /\ \A d \in Callers : d # c => at'[d] = at[d]
    BY <1>1, Moves DEF IInv, FnReturns
  <2>2. PhaseOf(c)' = PhaseOf(c)
    BY <1>0, <2>1 DEF PhaseOf
  <2> QED BY <1>1, <2>1, <2>2, Staying DEF FnReturns
<1>2. CASE FnThrows(c)
  <2>1. at'[c] = "catch" /\ \A d \in Callers : d # c => at'[d] = at[d]
    BY <1>2, Moves DEF IInv, FnThrows
  <2>2. PhaseOf(c)' = "failed"
    BY <2>1 DEF PhaseOf
  <2>3. \A d \in Callers : d # c => failed'[d] = failed[d]
    BY <1>2 DEF FnThrows, IInv, TypeOK
  <2>4. UNCHANGED <<arrived, stored>>
    BY <1>2 DEF FnThrows
  <2> QED BY <1>0, <2>1, <2>2, <2>3, <2>4, Failing DEF Guard!GuardNext
<1>3. CASE StoreResult(c)
  <2>1. at'[c] = "finally" /\ \A d \in Callers : d # c => at'[d] = at[d]
    BY <1>3, Moves DEF IInv, StoreResult
  <2>2. UNCHANGED <<failed, arrived>> /\ stored' = c
    BY <1>3 DEF StoreResult
  <2>3. PhaseOf(c)' = PhaseOf(c)
    BY <1>0, <2>1, <2>2 DEF PhaseOf
  <2>4. phases' = phases /\ phases[c] = "running"
    BY <1>0, <2>1, <2>2, <2>3, PhaseStays DEF phases
  <2>5. Guard!Keep(c)
    BY <2>2, <2>4, NoneAssumption DEF Guard!Keep, phases
  <2> QED BY <2>5 DEF Guard!GuardNext
<1> QED BY <1>1, <1>2, <1>3

LEMMA LeaveMaps ==
    ASSUME IInv, NEW c \in Callers, CheckToken(c) \/ DeleteLock(c)
    PROVE  Guard!GuardNext \/ UNCHANGED Guard!guardVars
<1>1. UNCHANGED <<arrived, stored, failed>>
  BY DEF CheckToken, DeleteLock
<1>2. PICK stage \in {"catchDel", "finally", "finallyDel", "threw", "ran"} : Goto(c, stage)
  BY DEF CheckToken, DeleteLock, Leave
<1>3. at'[c] = stage /\ \A d \in Callers : d # c => at'[d] = at[d]
  BY <1>2, Moves DEF IInv
<1>4. CASE failed[c]
  <2>1. PhaseOf(c) = "failed"
    BY <1>4 DEF CheckToken, DeleteLock, PhaseOf
  <2>2. stage # "ran"
    BY <1>3, <1>4, Moves DEF CheckToken, DeleteLock, Leave, IInv
  <2>3. PhaseOf(c)' = "failed"
    BY <1>1, <1>3, <1>4, <2>2 DEF PhaseOf
  <2> QED BY <1>1, <1>3, <2>1, <2>3, Staying
<1>5. CASE ~failed[c]
  <2>1. at[c] \in {"finally", "finallyDel"} /\ PhaseOf(c) = "running" /\ stored # None
    BY <1>5 DEF CheckToken, DeleteLock, IInv, StoredInv, PhaseOf
  <2>2. CASE CheckToken(c)
    <3>1. at[c] = "finally" /\ lock = c
      BY <1>5, <2>1, <2>2 DEF CheckToken, IInv, LockInv
    <3>2. Goto(c, "finallyDel")
      BY <2>2, <3>1 DEF CheckToken
    <3>3. at'[c] = "finallyDel"
      BY <3>2, Moves DEF IInv
    <3>4. PhaseOf(c)' = PhaseOf(c)
      BY <1>1, <1>5, <2>1, <3>3 DEF PhaseOf
    <3> QED BY <1>1, <1>3, <3>4, Staying
  <2>3. CASE DeleteLock(c)
    <3>1. Goto(c, "ran")
      BY <1>5, <2>1, <2>3 DEF DeleteLock, Leave
    <3>2. at'[c] = "ran"
      BY <3>1, Moves DEF IInv
    <3>3. PhaseOf(c)' = "answered"
      BY <3>2 DEF PhaseOf
    <3>4. phases' = [phases EXCEPT ![c] = "answered"] /\ phases[c] = "running"
      BY <1>1, <1>3, <2>1, <3>3, PhaseMoves DEF phases
    <3>5. Guard!Return(c)
      BY <1>1, <2>1, <3>4 DEF Guard!Return, Guard!Becomes, phases
    <3> QED BY <3>5 DEF Guard!GuardNext
  <2> QED BY <2>2, <2>3
<1> QED BY <1>4, <1>5

(* Crashes and rejected commands. *)
LEMMA FaultMaps ==
    ASSUME IInv, NEW c \in Callers, RedisRejects(c) \/ Crash(c)
    PROVE  Guard!GuardNext \/ UNCHANGED Guard!guardVars
<1>1. PICK stage \in {"threw", "catch", "finally", "crashed"} : Goto(c, stage)
  BY DEF RedisRejects, Crash
<1>2. at'[c] = stage /\ \A d \in Callers : d # c => at'[d] = at[d]
  BY <1>1, Moves DEF IInv
<1>3. /\ UNCHANGED arrived
      /\ \A d \in Callers : d # c => failed'[d] = failed[d]
  BY DEF RedisRejects, Crash, IInv, TypeOK
<1>4. at[c] \notin {"idle"} \cup Ended
  BY DEF RedisRejects, Crash
<1>5. at'[c] = "finally" => at[c] \in {"catch", "catchDel"} /\ failed'[c]
  BY <1>2 DEF RedisRejects, Crash, Goto, IInv, TypeOK, StoredInv
<1>6. PhaseOf(c)' = "failed"
  BY <1>2, <1>5 DEF PhaseOf
<1>7. UNCHANGED stored \/ (at[c] = "store" /\ stored' = c)
  BY DEF RedisRejects, Crash
<1>8. at[c] = "store" => PhaseOf(c) = "running"
  BY DEF PhaseOf
<1>9. PhaseOf(c) \in {"called", "running", "failed"}
  BY <1>4 DEF PhaseOf, IInv, TypeOK
<1>10. CASE PhaseOf(c) \in {"called", "running"}
  BY <1>2, <1>3, <1>6, <1>7, <1>8, <1>10, Failing DEF Guard!GuardNext
<1>11. CASE PhaseOf(c) = "failed"
  BY <1>2, <1>3, <1>6, <1>7, <1>8, <1>11, Staying
<1> QED BY <1>9, <1>10, <1>11

LEMMA StepMaps ==
    ASSUME IInv, [Next]_vars
    PROVE  Guard!GuardNext \/ UNCHANGED Guard!guardVars
<1>1. ASSUME NEW c \in Callers, Call(c) PROVE Guard!GuardNext
  BY <1>1, CallMaps DEF Guard!GuardNext
<1>2. ASSUME NEW c \in Callers, Step(c)
      PROVE  Guard!GuardNext \/ UNCHANGED Guard!guardVars
  BY <1>2, LookMaps, AcquireMaps, SectionMaps, LeaveMaps DEF Step
<1>3. ASSUME NEW c \in Callers, RedisRejects(c) \/ Crash(c)
      PROVE  Guard!GuardNext \/ UNCHANGED Guard!guardVars
  BY <1>3, FaultMaps
<1>4. CASE \/ \E c \in Callers : DeadlinePasses(c)
           \/ LockExpires
           \/ UNCHANGED vars
  <2>1. UNCHANGED <<at, failed, arrived, stored>>
    BY <1>4 DEF DeadlinePasses, LockExpires, vars
  <2>2. \A d \in Callers : PhaseOf(d)' = PhaseOf(d)
    BY <2>1 DEF PhaseOf
  <2> QED BY <2>1, <2>2 DEF Guard!guardVars
<1> QED BY <1>1, <1>2, <1>3, <1>4 DEF Next

(* idempotency.ts 39-84: the two Redis keys implement the contract the     *)
(* services build on, for any callers and any faults.                      *)
THEOREM GuardImplementsContract == Spec => GuardAsPromised
<1>1. IInv /\ [Next]_vars => [Guard!GuardNext]_(Guard!guardVars)
  BY StepMaps
<1> QED BY <1>1, InitMaps, Invariance, PTL DEF Spec, GuardAsPromised, Guard!GuardSpec
=============================================================================
