---------------------------- MODULE Idempotency ----------------------------
(***************************************************************************)
(* The idempotency guard of packages/shared: createIdempotency(cache).run. *)
(* Callers in any number of service processes share two Redis keys of one  *)
(* idempotency key: the stored result and the lock.  A step is one Redis   *)
(* command or one run of the guarded function, so that everything between  *)
(* two awaits of idempotency.ts is atomic and nothing else is.             *)
(*                                                                         *)
(* Both keys live ttlSec (a day in every use).  The result does not expire *)
(* here: properties speak of one such day.  The lock expires only under an *)
(* owner that no longer works for it, as no guarded function runs a day.   *)
(***************************************************************************)
EXTENDS Naturals, FiniteSets

CONSTANTS
    Callers,    \* the calls of run with this key
    None,       \* the absent value of a Redis key
    MaxFaults   \* bound: crashes and rejected Redis commands in a behaviour

ASSUME NoneAssumption == None \notin Callers
ASSUME FaultsAssumption == MaxFaults \in Nat

VARIABLES
    stored,     \* Redis: the caller whose result is stored, or None
    lock,       \* Redis: the caller whose token holds the lock, or None
    at,         \* at[c]: the command caller c issues next, or how it ended
    failed,     \* failed[c]: c leaves the guarded section with an exception
    late,       \* late[c]: the deadline of c's polling loop has passed
    ran,        \* the callers whose function completed
    arrived,    \* arrived[c]: c was called after another call had returned a result
    faults      \* number of faults so far

vars == <<stored, lock, at, failed, late, ran, arrived, faults>>

(* Where a caller works under the lock it acquired. *)
InSection == {"fn", "store", "catch", "catchDel", "finally", "finallyDel"}
Polling == {"poll", "pollRead", "pollLock"}
Answered == {"ran", "replayed"}
Ended == Answered \cup {"threw", "conflict", "crashed"}
Stages == {"idle", "read", "acquire"} \cup InSection \cup Polling \cup Ended

TypeOK ==
    /\ stored \in Callers \cup {None}
    /\ lock \in Callers \cup {None}
    /\ at \in [Callers -> Stages]
    /\ failed \in [Callers -> BOOLEAN]
    /\ late \in [Callers -> BOOLEAN]
    /\ ran \in SUBSET Callers
    /\ arrived \in [Callers -> BOOLEAN]
    /\ faults \in 0 .. MaxFaults

Init ==
    /\ stored = None
    /\ lock = None
    /\ at = [c \in Callers |-> "idle"]
    /\ failed = [c \in Callers |-> FALSE]
    /\ late = [c \in Callers |-> FALSE]
    /\ ran = {}
    /\ arrived = [c \in Callers |-> FALSE]
    /\ faults = 0

-----------------------------------------------------------------------------
(* Entering the guard. *)

Goto(c, stage) == at' = [at EXCEPT ![c] = stage]

Call(c) ==
    /\ at[c] = "idle"
    /\ Goto(c, "read")
    /\ arrived' = [arrived EXCEPT ![c] = \E d \in Callers : at[d] \in Answered]
    /\ UNCHANGED <<stored, lock, failed, late, ran, faults>>

(* Mutant: the first look is left to the polling loop. *)
ReadStored_Skip(c) ==
    /\ at[c] = "read"
    /\ Goto(c, "acquire")
    /\ UNCHANGED <<stored, lock, failed, late, ran, arrived, faults>>

(* The first look at the stored result. *)
ReadStored(c) ==
    /\ at[c] = "read"
    /\ Goto(c, IF stored # None THEN "replayed" ELSE "acquire")
    /\ UNCHANGED <<stored, lock, failed, late, ran, arrived, faults>>

(* SET NX: whoever loses starts to poll with a fresh deadline. *)
Acquire(c) ==
    /\ at[c] = "acquire"
    /\ lock' = IF lock = None THEN c ELSE lock
    /\ Goto(c, IF lock = None THEN "fn" ELSE "poll")
    /\ late' = [late EXCEPT ![c] = FALSE]
    /\ UNCHANGED <<stored, failed, ran, arrived, faults>>

-----------------------------------------------------------------------------
(* The guarded section. *)

(* Mutant: the result is returned without being stored. *)
FnReturns_Unstored(c) ==
    /\ at[c] = "fn"
    /\ ran' = ran \cup {c}
    /\ Goto(c, "finally")
    /\ UNCHANGED <<stored, lock, failed, late, arrived, faults>>

FnReturns(c) ==
    /\ at[c] = "fn"
    /\ ran' = ran \cup {c}
    /\ Goto(c, "store")
    /\ UNCHANGED <<stored, lock, failed, late, arrived, faults>>

FnThrows(c) ==
    /\ at[c] = "fn"
    /\ failed' = [failed EXCEPT ![c] = TRUE]
    /\ Goto(c, "catch")
    /\ UNCHANGED <<stored, lock, late, ran, arrived, faults>>

StoreResult(c) ==
    /\ at[c] = "store"
    /\ stored' = c
    /\ Goto(c, "finally")
    /\ UNCHANGED <<lock, failed, late, ran, arrived, faults>>

(* The caller leaves the guarded section. *)
Leave(c) == Goto(c, IF failed[c] THEN "threw" ELSE "ran")

(* Mutant: the finally block deletes the lock without looking at it. *)
CheckToken_Blind(c) ==
    /\ \/ /\ at[c] = "catch"
          /\ Goto(c, IF lock = c THEN "catchDel" ELSE "finally")
       \/ /\ at[c] = "finally"
          /\ Goto(c, "finallyDel")
    /\ UNCHANGED <<stored, lock, failed, late, ran, arrived, faults>>

(* The catch block and the finally block both look whose token is in the   *)
(* lock; only the owner deletes it.                                        *)
CheckToken(c) ==
    /\ \/ /\ at[c] = "catch"
          /\ Goto(c, IF lock = c THEN "catchDel" ELSE "finally")
       \/ /\ at[c] = "finally"
          /\ IF lock = c THEN Goto(c, "finallyDel") ELSE Leave(c)
    /\ UNCHANGED <<stored, lock, failed, late, ran, arrived, faults>>

DeleteLock(c) ==
    /\ lock' = None
    /\ \/ /\ at[c] = "catchDel"
          /\ Goto(c, "finally")
       \/ /\ at[c] = "finallyDel"
          /\ Leave(c)
    /\ UNCHANGED <<stored, failed, late, ran, arrived, faults>>

-----------------------------------------------------------------------------
(* The polling loop of a caller that found the lock taken. *)

DeadlinePasses(c) ==
    /\ at[c] \in Polling
    /\ ~late[c]
    /\ late' = [late EXCEPT ![c] = TRUE]
    /\ UNCHANGED <<stored, lock, at, failed, ran, arrived, faults>>

(* Mutant: the loop has no deadline. *)
Poll_Forever(c) ==
    /\ at[c] = "poll"
    /\ Goto(c, "pollRead")
    /\ UNCHANGED <<stored, lock, failed, late, ran, arrived, faults>>

Poll(c) ==
    /\ at[c] = "poll"
    /\ Goto(c, IF late[c] THEN "conflict" ELSE "pollRead")
    /\ UNCHANGED <<stored, lock, failed, late, ran, arrived, faults>>

PollStored(c) ==
    /\ at[c] = "pollRead"
    /\ Goto(c, IF stored # None THEN "replayed" ELSE "pollLock")
    /\ UNCHANGED <<stored, lock, failed, late, ran, arrived, faults>>

(* A lock that is gone sends the caller back to the start of run. *)
PollLock(c) ==
    /\ at[c] = "pollLock"
    /\ Goto(c, IF lock = None THEN "read" ELSE "poll")
    /\ UNCHANGED <<stored, lock, failed, late, ran, arrived, faults>>

-----------------------------------------------------------------------------
(* Faults and expiry. *)

(* A Redis command rejects: outside the section the exception leaves run;  *)
(* a rejected SET of the result enters the catch block although the        *)
(* function ran; in the catch block the finally block still follows.  The  *)
(* command may have taken effect before its answer was lost.               *)
RedisRejects(c) ==
    /\ faults < MaxFaults
    /\ faults' = faults + 1
    /\ \/ /\ at[c] \in {"read", "pollRead", "pollLock"}
          /\ Goto(c, "threw")
          /\ UNCHANGED <<stored, lock, failed>>
       \/ /\ at[c] = "acquire"
          /\ Goto(c, "threw")
          /\ lock' \in {lock, IF lock = None THEN c ELSE lock}
          /\ UNCHANGED <<stored, failed>>
       \/ /\ at[c] = "store"
          /\ Goto(c, "catch")
          /\ stored' \in {stored, c}
          /\ failed' = [failed EXCEPT ![c] = TRUE]
          /\ UNCHANGED lock
       \/ /\ at[c] \in {"catch", "catchDel"}
          /\ Goto(c, "finally")
          /\ lock' \in IF at[c] = "catchDel" THEN {lock, None} ELSE {lock}
          /\ UNCHANGED <<stored, failed>>
       \/ /\ at[c] \in {"finally", "finallyDel"}
          /\ Goto(c, "threw")
          /\ lock' \in IF at[c] = "finallyDel" THEN {lock, None} ELSE {lock}
          /\ UNCHANGED <<stored, failed>>
    /\ UNCHANGED <<late, ran, arrived>>

(* The process of c dies; its function may have completed. *)
Crash(c) ==
    /\ faults < MaxFaults
    /\ faults' = faults + 1
    /\ at[c] \notin Ended \cup {"idle"}
    /\ Goto(c, "crashed")
    /\ ran' \in IF at[c] = "fn" THEN {ran, ran \cup {c}} ELSE {ran}
    /\ UNCHANGED <<stored, lock, failed, late, arrived>>

(* The time to live of a lock whose owner has gone. *)
LockExpires ==
    /\ lock # None
    /\ at[lock] \in Ended
    /\ lock' = None
    /\ UNCHANGED <<stored, at, failed, late, ran, arrived, faults>>

-----------------------------------------------------------------------------
Step(c) ==
    \/ ReadStored(c) \/ Acquire(c)
    \/ FnReturns(c) \/ FnThrows(c) \/ StoreResult(c)
    \/ CheckToken(c) \/ DeleteLock(c)
    \/ Poll(c) \/ PollStored(c) \/ PollLock(c)

Next ==
    \/ \E c \in Callers :
          \/ Call(c) \/ Step(c) \/ DeadlinePasses(c)
          \/ RedisRejects(c) \/ Crash(c)
    \/ LockExpires

Spec == Init /\ [][Next]_vars

(* A live process keeps issuing commands, the guarded function ends (every *)
(* call in it is bounded by a timeout), and clocks advance.  Nobody relies *)
(* on the expiry of the lock, which is a day away.                         *)
FairSpec ==
    Spec /\ \A c \in Callers : WF_vars(Step(c)) /\ WF_vars(DeadlinePasses(c))

-----------------------------------------------------------------------------
(* Properties. *)

(* idempotency.ts 47-67: two callers are never inside the guarded section  *)
(* together while both may still run the function or store its result, in  *)
(* spite of the two release points and of locks left by dead owners.       *)
OneRunAtATime ==
    \A c, d \in Callers :
        at[c] \in {"fn", "store"} /\ at[d] \in {"fn", "store"} => c = d

(* idempotency.ts 39-43: a call made after some call has returned a result *)
(* never runs the function, however the earlier callers ended.             *)
NoRunAfterAnswer ==
    \A c \in Callers : arrived[c] => at[c] \notin InSection /\ c \notin ran

(* idempotency.ts 55-66: a lock left in Redis has a caller at work under   *)
(* it, or one that was cut off by a fault; an exception of the function    *)
(* does not block the key for a day.                                       *)
LockHasAnOwner ==
    lock # None =>
        \/ at[lock] \in InSection
        \/ at[lock] \in {"crashed", "threw"} /\ faults > 0

(* idempotency.ts 69-82: every caller gets a result, an exception or a     *)
(* conflict unless its process dies, whatever happens to the lock's owner, *)
(* and without waiting for the lock's time to live.                        *)
EveryCallEnds == \A c \in Callers : at[c] # "idle" ~> at[c] \in Ended

(* idempotency.ts 39-84: everything the services may rely on, and the two  *)
(* Redis keys implement it.  A caller that stored its result counts as     *)
(* running until it has released the lock.                                 *)
PhaseOf(c) ==
    CASE at[c] = "idle" -> "idle"
      [] at[c] \in {"read", "acquire"} \cup Polling -> "called"
      [] at[c] \in {"fn", "store"} -> "running"
      [] at[c] \in {"finally", "finallyDel"} /\ ~failed[c] -> "running"
      [] at[c] \in Answered -> "answered"
      [] OTHER -> "failed"

Guard == INSTANCE GuardContract WITH
    phase <- [c \in Callers |-> PhaseOf(c)],
    late  <- arrived,
    kept  <- stored # None

GuardAsPromised == Guard!GuardSpec

(* docs/contracts.md:49 "Runs fn once per key within ttl": the function    *)
(* completes for at most one caller.                                       *)
RunsOnce == Cardinality(ran) <= 1
=============================================================================
