--------------------------- MODULE SettlementRun ---------------------------
(***************************************************************************)
(* Settlement runs over the ledger: settlementsRepo.runDraft of            *)
(* services/settlement, one READ COMMITTED transaction per run, while      *)
(* entries keep being posted.                                              *)
(*                                                                         *)
(* The statement that collects entries reads one snapshot, then locks the  *)
(* rows it found (FOR UPDATE) and inserts a line for each.  A lock that    *)
(* has to wait is taken when its holder ends; the holder did not change    *)
(* the row, so the waiter goes on with what its snapshot said.             *)
(***************************************************************************)
EXTENDS Integers, FiniteSets, FiniteSetsExt

CONSTANTS
    Entries,    \* rows of ledger_entries, posted one after another
    Runs,       \* requests POST /settlements/run
    Periods,    \* the entries each period that may be asked for covers
    Amount      \* amount_cents of each entry

ASSUME PeriodsAssumption == Periods \subseteq SUBSET Entries
ASSUME AmountAssumption == Amount \in [Entries -> Int]

VARIABLES
    posted,     \* committed rows of ledger_entries
    lines,      \* committed rows of settlement_lines: the entries of each run
    totalCents, \* settlements.total_cents of each run, committed or not
    stage,      \* stage[r]: the next statement of run r
    period,     \* period[r]: the period asked for
    seen,       \* seen[r]: the unsettled entries in its snapshot
    locked,     \* locked[r]: the ledger rows it holds FOR UPDATE
    due,        \* history: the entries of the period in its snapshot
    before      \* history: the runs committed before its snapshot

settlementVars == <<posted, lines, totalCents, stage, period, seen, locked, due, before>>

RunStages == {"idle", "collect", "lock", "sum", "commit", "committed", "aborted"}

(* All but the totals, which are sums of Amount. *)
SettlementTypeOK ==
    /\ posted \subseteq Entries
    /\ lines \in [Runs -> SUBSET Entries]
    /\ stage \in [Runs -> RunStages]
    /\ period \in [Runs -> SUBSET Entries]
    /\ seen \in [Runs -> SUBSET Entries]
    /\ locked \in [Runs -> SUBSET Entries]
    /\ due \in [Runs -> SUBSET Entries]
    /\ before \in [Runs -> SUBSET Runs]

SettlementInit ==
    /\ posted = {}
    /\ lines = [r \in Runs |-> {}]
    /\ totalCents = [r \in Runs |-> 0]
    /\ stage = [r \in Runs |-> "idle"]
    /\ period = [r \in Runs |-> {}]
    /\ seen = [r \in Runs |-> {}]
    /\ locked = [r \in Runs |-> {}]
    /\ due = [r \in Runs |-> {}]
    /\ before = [r \in Runs |-> {}]

RunGoes(r, to) == stage' = [stage EXCEPT ![r] = to]

Settled == UNION {lines[r] : r \in Runs}

Committed == {r \in Runs : stage[r] = "committed"}

-----------------------------------------------------------------------------
(* Somebody posts an entry to the ledger. *)
Post(e) ==
    /\ e \notin posted
    /\ posted' = posted \cup {e}
    /\ UNCHANGED <<lines, totalCents, stage, period, seen, locked, due, before>>

(* The transaction begins and inserts its draft settlement. *)
Begin(r) ==
    /\ stage[r] = "idle"
    /\ \E p \in Periods : period' = [period EXCEPT ![r] = p]
    /\ RunGoes(r, "collect")
    /\ UNCHANGED <<posted, lines, totalCents, seen, locked, due, before>>

(* Mutant: no NOT EXISTS in the collecting statement. *)
Collect_Everything(r) ==
    /\ stage[r] = "collect"
    /\ seen' = [seen EXCEPT ![r] = posted \cap period[r]]
    /\ due' = [due EXCEPT ![r] = posted \cap period[r]]
    /\ before' = [before EXCEPT ![r] = Committed]
    /\ RunGoes(r, "lock")
    /\ UNCHANGED <<posted, lines, totalCents, period, locked>>

(* The snapshot of the collecting statement: entries of the period without *)
(* a committed line.                                                       *)
Collect(r) ==
    /\ stage[r] = "collect"
    /\ seen' = [seen EXCEPT ![r] = (posted \cap period[r]) \ Settled]
    /\ due' = [due EXCEPT ![r] = posted \cap period[r]]
    /\ before' = [before EXCEPT ![r] = Committed]
    /\ RunGoes(r, "lock")
    /\ UNCHANGED <<posted, lines, totalCents, period, locked>>

(* FOR UPDATE OF le: the next row, once nobody else holds it. *)
LockRow(r) ==
    /\ stage[r] = "lock"
    /\ \E e \in seen[r] \ locked[r] :
          /\ \A q \in Runs : e \notin locked[q]
          /\ locked' = [locked EXCEPT ![r] = locked[r] \cup {e}]
    /\ UNCHANGED <<posted, lines, totalCents, stage, period, seen, due, before>>

(* Mutant: FOR UPDATE SKIP LOCKED. *)
InsertLines_SkipLocked(r) ==
    /\ stage[r] = "lock"
    /\ \A e \in seen[r] \ locked[r] : \E q \in Runs : e \in locked[q]
    /\ seen' = [seen EXCEPT ![r] = locked[r]]
    /\ RunGoes(r, "sum")
    /\ UNCHANGED <<posted, lines, totalCents, period, locked, due, before>>

(* All rows are locked and the lines are inserted, visible to this         *)
(* transaction only.                                                       *)
InsertLines(r) ==
    /\ stage[r] = "lock"
    /\ seen[r] \subseteq locked[r]
    /\ RunGoes(r, "sum")
    /\ UNCHANGED <<posted, lines, totalCents, period, seen, locked, due, before>>

SumOf(entries) == MapThenSumSet(LAMBDA e : Amount[e], entries)

(* UPDATE of the total: the sum over the lines of this settlement. *)
SumLines(r) ==
    /\ stage[r] = "sum"
    /\ totalCents' = [totalCents EXCEPT ![r] = SumOf(seen[r])]
    /\ RunGoes(r, "commit")
    /\ UNCHANGED <<posted, lines, period, seen, locked, due, before>>

Commit(r) ==
    /\ stage[r] = "commit"
    /\ lines' = [lines EXCEPT ![r] = seen[r]]
    /\ locked' = [locked EXCEPT ![r] = {}]
    /\ RunGoes(r, "committed")
    /\ UNCHANGED <<posted, totalCents, period, seen, due, before>>

(* A statement fails, the process dies, or a deadlock is broken. *)
Rollback(r) ==
    /\ stage[r] \in {"collect", "lock", "sum", "commit"}
    /\ locked' = [locked EXCEPT ![r] = {}]
    /\ RunGoes(r, "aborted")
    /\ UNCHANGED <<posted, lines, totalCents, period, seen, due, before>>

SettlementNext ==
    \/ \E e \in Entries : Post(e)
    \/ \E r \in Runs :
          \/ Begin(r) \/ Collect(r) \/ LockRow(r) \/ InsertLines(r)
          \/ SumLines(r) \/ Commit(r) \/ Rollback(r)

SettlementSpec == SettlementInit /\ [][SettlementNext]_settlementVars

-----------------------------------------------------------------------------
(* Properties. *)

(* settlementsRepo.ts 51-56: when a run has committed, every entry of its  *)
(* period that was in the ledger when it collected is settled, by this run *)
(* or an earlier one, whichever other runs overlapped it and were rolled   *)
(* back.                                                                   *)
NothingLeftBehind == \A r \in Committed : due[r] \subseteq Settled

(* settlementsRepo.ts 53-55: a run takes no entry from a run that had      *)
(* committed before it collected, overlapping periods included.            *)
EarlierRunsKeepTheirs == \A r \in Committed : \A q \in before[r] : lines[r] \cap lines[q] = {}

(* settlementsRepo.ts 36-37 "all in one transaction so concurrent runs     *)
(* cannot double-collect the same entries".                                *)
CollectedOnce == \A r, q \in Committed : r # q => lines[r] \cap lines[q] = {}
=============================================================================
