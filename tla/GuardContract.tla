--------------------------- MODULE GuardContract ---------------------------
(***************************************************************************)
(* What services may rely on when they run a function under the guard of   *)
(* packages/shared/src/idempotency.ts: the abstract specification          *)
(* Idempotency implements and ReturnApproval is built on.                  *)
(*                                                                         *)
(*   - the function never runs for two callers at a time;                  *)
(*   - a caller is replayed only a result that was kept;                   *)
(*   - a caller that comes after an answer never runs the function.        *)
(* It is not promised that the function completes once.                    *)
(***************************************************************************)
CONSTANT Callers

VARIABLES
    phase,  \* phase[c]: idle, called, running, answered or failed
    late,   \* late[c]: c came after some caller had been answered
    kept    \* a result was stored

guardVars == <<phase, late, kept>>

GuardInit ==
    /\ phase = [c \in Callers |-> "idle"]
    /\ late = [c \in Callers |-> FALSE]
    /\ kept = FALSE

Becomes(c, from, to) ==
    /\ phase[c] = from
    /\ phase' = [phase EXCEPT ![c] = to]

Call(c) ==
    /\ Becomes(c, "idle", "called")
    /\ late' = [late EXCEPT ![c] = \E d \in Callers : phase[d] = "answered"]
    /\ UNCHANGED kept

Run(c) ==
    /\ ~late[c]
    /\ \A d \in Callers : phase[d] # "running"
    /\ Becomes(c, "called", "running")
    /\ UNCHANGED <<late, kept>>

Keep(c) ==
    /\ phase[c] = "running"
    /\ kept' = TRUE
    /\ UNCHANGED <<phase, late>>

Return(c) ==
    /\ kept
    /\ Becomes(c, "running", "answered")
    /\ UNCHANGED <<late, kept>>

Replay(c) ==
    /\ kept
    /\ Becomes(c, "called", "answered")
    /\ UNCHANGED <<late, kept>>

(* The function threw, Redis rejected a command (the result may be stored  *)
(* all the same), a caller gave up waiting, or its process died.           *)
Fail(c) ==
    /\ \/ Becomes(c, "called", "failed") /\ UNCHANGED kept
       \/ Becomes(c, "running", "failed") /\ kept' \in {kept, TRUE}
    /\ UNCHANGED late

GuardNext ==
    \E c \in Callers :
        Call(c) \/ Run(c) \/ Keep(c) \/ Return(c) \/ Replay(c) \/ Fail(c)

GuardSpec == GuardInit /\ [][GuardNext]_guardVars
=============================================================================
