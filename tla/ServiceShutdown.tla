-------------------------- MODULE ServiceShutdown --------------------------
(***************************************************************************)
(* How a service stops: index.ts of each of them.  On a signal it stops    *)
(* its job's timer, waits with server.close for its connections to end,    *)
(* closes its pool and its Redis client, and exits.  Nobody waits for a    *)
(* tick of the job that is still running.                                  *)
(*                                                                         *)
(* server.close (Node), pool.end (pg) and the end of kept-alive            *)
(* connections are external: closed connections are those that were idle;  *)
(* pool.end refuses new work and waits for clients in use, and rejects a   *)
(* second call.                                                            *)
(***************************************************************************)
EXTENDS Naturals

CONSTANTS
    Services,       \* the services that are looked at, a subset of AllServices
    Connections,    \* slots for connections; each carries one request at a time
    Job,            \* the tick of the job, an actor as a connection is
    MaxStatements,  \* bound: statements of one handler or tick
    MaxLate         \* bound: requests on kept connections during a shutdown

ASSUME ShutdownAssumption ==
    /\ Job \notin Connections
    /\ MaxStatements \in Nat
    /\ MaxLate \in Nat

VARIABLES
    service,        \* which service this is
    process,        \* where its shutdown stands
    signals,        \* signals received
    overdue,        \* the deadline of the shutdown has passed
    work,           \* what each connection and the tick are doing
    left,           \* statements each may still execute
    timer,          \* the job's timer is set
    pool,           \* the connection pool of the database
    redis,          \* the Redis client
    late            \* requests that arrived during the shutdown

shutdownVars ==
    <<service, process, signals, overdue, work, left, timer, pool, redis, late>>

-----------------------------------------------------------------------------
(* The services: which have a job, close pool and Redis at once or in turn, *)
(* exit by a deadline, or handle each kind of signal only once              *)

orders        == [job |-> TRUE,  pool |-> TRUE,  inTurn |-> FALSE, deadline |-> FALSE, once |-> FALSE]
inventory     == [job |-> TRUE,  pool |-> TRUE,  inTurn |-> FALSE, deadline |-> FALSE, once |-> FALSE]
payments      == [job |-> FALSE, pool |-> TRUE,  inTurn |-> TRUE,  deadline |-> FALSE, once |-> FALSE]
settlement    == [job |-> FALSE, pool |-> TRUE,  inTurn |-> TRUE,  deadline |-> FALSE, once |-> FALSE]
returns       == [job |-> FALSE, pool |-> TRUE,  inTurn |-> TRUE,  deadline |-> FALSE, once |-> FALSE]
notifications == [job |-> TRUE,  pool |-> TRUE,  inTurn |-> TRUE,  deadline |-> FALSE, once |-> FALSE]
catalog       == [job |-> FALSE, pool |-> TRUE,  inTurn |-> FALSE, deadline |-> TRUE,  once |-> FALSE]
gateway       == [job |-> FALSE, pool |-> FALSE, inTurn |-> FALSE, deadline |-> FALSE, once |-> TRUE]

AllServices == {orders, inventory, payments, settlement, returns, notifications, catalog, gateway}

ASSUME ServicesAssumption == Services \subseteq AllServices

Actors == Connections \cup {Job}

\* "none" and "idle" are a connection that is not open, and one kept alive.
Busy == {"running", "query"}
Cut == {"cut", "cutQuery"}
Works == {"none", "idle", "failed"} \cup Busy \cup Cut

ShutdownTypeOK ==
    /\ service \in AllServices
    /\ process \in {"open", "draining", "closing", "exited"}
    /\ signals \in 0 .. 2
    /\ overdue \in BOOLEAN
    /\ work \in [Actors -> Works]
    /\ left \in [Actors -> 0 .. MaxStatements]
    /\ timer \in BOOLEAN
    /\ pool \in {"none", "open", "ending", "ended"}
    /\ redis \in {"open", "closed"}
    /\ late \in 0 .. MaxLate

\* The service listens, and its job has been started.
ShutdownInit ==
    /\ service \in Services
    /\ process = "open"
    /\ signals = 0
    /\ overdue = FALSE
    /\ work = [a \in Actors |-> "none"]
    /\ left = [a \in Actors |-> 0]
    /\ timer = service.job
    /\ pool = IF service.pool THEN "open" ELSE "none"
    /\ redis = "open"
    /\ late = 0

-----------------------------------------------------------------------------
(* Handlers and ticks *)

Starts(a) ==
    /\ work' = [work EXCEPT ![a] = "running"]
    /\ left' = [left EXCEPT ![a] = MaxStatements]

\* A connection is accepted, or a kept one brings another request.
RequestArrives(c) ==
    /\ \/ /\ process = "open"
          /\ work[c] \in {"none", "idle"}
          /\ late' = late
       \/ /\ process = "draining"
          /\ work[c] = "idle"
          /\ late < MaxLate
          /\ late' = late + 1
    /\ Starts(c)
    /\ UNCHANGED <<service, process, signals, overdue, timer, pool, redis>>

TickStarts ==
    /\ process # "exited"
    /\ timer
    /\ work[Job] \in {"none", "failed"}
    /\ Starts(Job)
    /\ UNCHANGED <<service, process, signals, overdue, timer, pool, redis, late>>

\* db.query and db.withTx: a client of the pool, until the statement or the
\* COMMIT is answered.  A pool that ends has none to give.
StatementStarts(a) ==
    /\ process # "exited"
    /\ work[a] = "running"
    /\ pool # "none"
    /\ left[a] > 0
    /\ work' = [work EXCEPT ![a] = IF pool = "open" THEN "query" ELSE "failed"]
    /\ left' = [left EXCEPT ![a] = @ - 1]
    /\ UNCHANGED <<service, process, signals, overdue, timer, pool, redis, late>>

\* Seeded fault: client.release() is not in a finally block, so the client of a
\* statement that fails, here the last one, stays in use.
StatementEnds_NoRelease(a) ==
    /\ process # "exited"
    /\ work[a] = "query"
    /\ left[a] > 0
    /\ work' = [work EXCEPT ![a] = "running"]
    /\ UNCHANGED <<service, process, signals, overdue, left, timer, pool, redis, late>>

StatementEnds(a) ==
    /\ process # "exited"
    /\ work[a] = "query"
    /\ work' = [work EXCEPT ![a] = "running"]
    /\ UNCHANGED <<service, process, signals, overdue, left, timer, pool, redis, late>>

\* A command to a client that was disconnected.  One to an open client changes
\* nothing here.
RedisCommandFails(a) ==
    /\ process # "exited"
    /\ work[a] = "running"
    /\ redis = "closed"
    /\ work' = [work EXCEPT ![a] = "failed"]
    /\ UNCHANGED <<service, process, signals, overdue, left, timer, pool, redis, late>>

\* The answer is sent, the connection kept; or the tick is over.
Ends(a) ==
    /\ process # "exited"
    /\ work[a] = "running"
    /\ work' = [work EXCEPT ![a] = IF a = Job THEN "none" ELSE "idle"]
    /\ UNCHANGED <<service, process, signals, overdue, left, timer, pool, redis, late>>

\* keepAliveTimeout, or the client hangs up.
ConnectionEnds(c) ==
    /\ process # "exited"
    /\ work[c] = "idle"
    /\ work' = [work EXCEPT ![c] = "none"]
    /\ UNCHANGED <<service, process, signals, overdue, left, timer, pool, redis, late>>

-----------------------------------------------------------------------------
(* Shutdown *)

\* The process is gone, with everything that was going on in it.
Exits ==
    /\ process' = "exited"
    /\ work' = [a \in Actors |->
                   CASE work[a] = "running" -> "cut"
                     [] work[a] = "query" -> "cutQuery"
                     [] OTHER -> work[a]]

\* shutdown: the timer is cleared, server.close closes idle connections.
Signal ==
    /\ process = "open"
    /\ process' = "draining"
    /\ signals' = 1
    /\ timer' = FALSE
    /\ work' = [a \in Actors |->
                   IF a # Job /\ work[a] = "idle" THEN "none" ELSE work[a]]
    /\ UNCHANGED <<service, overdue, left, pool, redis, late>>

\* A second signal runs shutdown again, which waits for the same connections.
SignalAgain ==
    /\ process \in {"draining", "closing"}
    /\ signals = 1
    /\ signals' = 2
    /\ UNCHANGED <<service, process, overdue, work, left, timer, pool, redis, late>>

\* process.once: the second signal of a kind finds no handler and kills.
SignalKills ==
    /\ service.once
    /\ process \in {"draining", "closing"}
    /\ signals = 1
    /\ signals' = 2
    /\ Exits
    /\ UNCHANGED <<service, overdue, left, timer, pool, redis, late>>

\* setTimeout(() => process.exit(1), 10_000)
Deadline ==
    /\ service.deadline
    /\ process \in {"draining", "closing"}
    /\ overdue' = TRUE
    /\ Exits
    /\ UNCHANGED <<service, signals, left, timer, pool, redis, late>>

\* Pool and Redis client, at once or one after the other.
ClosesResources ==
    /\ process' = "closing"
    /\ pool' = IF pool = "open" THEN "ending" ELSE pool
    /\ redis' = IF service.inTurn THEN redis ELSE "closed"
    /\ UNCHANGED <<service, signals, overdue, work, left, timer, late>>

\* Seeded fault: the resources are closed next to server.close, not in its
\* callback.
ServerClosed_NotWaiting == process = "draining" /\ ClosesResources

\* The callback of server.close: every connection has ended.
ServerClosed ==
    /\ process = "draining"
    /\ \A c \in Connections : work[c] \in {"none", "failed"}
    /\ ClosesResources

\* pool.end resolves when no client is in use.
PoolEnds ==
    /\ process = "closing"
    /\ pool = "ending"
    /\ \A a \in Actors : work[a] # "query"
    /\ pool' = "ended"
    /\ redis' = "closed"
    /\ UNCHANGED <<service, process, signals, overdue, work, left, timer, late>>

\* process.exit(0)
ShutdownEnds ==
    /\ process = "closing"
    /\ pool \in {"none", "ended"}
    /\ Exits
    /\ UNCHANGED <<service, signals, overdue, left, timer, pool, redis, late>>

\* The shutdown of the second signal: its server.close, or its pool.end, is
\* rejected, which ends the process while the first still waits.
SecondShutdownFails ==
    /\ process = "closing"
    /\ signals = 2
    /\ Exits
    /\ UNCHANGED <<service, signals, overdue, left, timer, pool, redis, late>>

-----------------------------------------------------------------------------

WorkStep(a) ==
    StatementStarts(a) \/ StatementEnds(a) \/ RedisCommandFails(a) \/ Ends(a)

CloseStep == ServerClosed \/ PoolEnds \/ ShutdownEnds

ShutdownNext ==
    \/ \E c \in Connections : RequestArrives(c) \/ ConnectionEnds(c)
    \/ TickStarts
    \/ \E a \in Actors : WorkStep(a)
    \/ Signal \/ SignalAgain \/ SignalKills \/ Deadline
    \/ CloseStep \/ SecondShutdownFails

ShutdownSpec == ShutdownInit /\ [][ShutdownNext]_shutdownVars

\* Handlers and ticks go on, kept connections time out, and Node runs the
\* callbacks of what has closed.  Nothing is assumed of signals and clients.
ShutdownFairness ==
    /\ \A a \in Actors : WF_shutdownVars(WorkStep(a))
    /\ \A c \in Connections : WF_shutdownVars(ConnectionEnds(c))
    /\ WF_shutdownVars(CloseStep)

-----------------------------------------------------------------------------
(* Properties *)

\* A service that is stopped serves what it has accepted: no handler meets a
\* closed pool or Redis client, and none is cut off, except by a second signal to the
\* gateway or the deadline of catalog.  A statement or transaction in progress,
\* also one of a tick nobody waits for, is cut off only by those or by a second
\* signal: pool.end waits for it.
StopsInOrder ==
    /\ \A c \in Connections :
           /\ work[c] # "failed"
           /\ work[c] \in Cut => overdue \/ (service.once /\ signals = 2)
    /\ \A a \in Actors : work[a] = "cutQuery" => signals = 2 \/ overdue

\* A shutdown ends, although requests still come in over kept connections and a
\* tick holds a client of the pool.
ShutdownCompletes == process = "draining" ~> process = "exited"

\* A tick is not cut off between its statements.  It is: the UPDATE of a shipment
\* may lose its cache deletion, a webhook that was sent its mark.
TicksComplete == work[Job] \notin {"failed", "cut"}
=============================================================================
