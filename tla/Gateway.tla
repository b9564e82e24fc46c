------------------------------ MODULE Gateway ------------------------------
(***************************************************************************)
(* services/gateway: every request of a client is authenticated against a  *)
(* set in Redis, counted against a limit per key in Redis, and forwarded   *)
(* to a service.  The gateway waits 5 s for the service and, for a GET,    *)
(* asks again; what it gave up on may still be executed.                   *)
(*                                                                         *)
(* Redis keeps nothing over a restart (docker-compose.yml: no snapshots,   *)
(* no append-only file); the gateway writes its keys there when it starts. *)
(*                                                                         *)
(* Time is counted in ticks.  A slot of Requests is one request at a time; *)
(* it is used again once it was answered.                                  *)
(***************************************************************************)
EXTENDS Naturals, FiniteSets, Functions

CONSTANTS
    Requests,       \* slots for requests that are being handled
    Keys,           \* the API keys that clients send
    Configured,     \* those in GATEWAY_API_KEYS
    Limit,          \* requests of a key that one window lets pass
    Window,         \* length of a window
    Retries,        \* how often a GET is asked again
    MaxRestarts     \* bound: Redis restarts within a window

ASSUME GatewayAssumption ==
    /\ Configured \subseteq Keys
    /\ Limit \in Nat \ {0}
    /\ Window \in Nat \ {0}
    /\ Retries \in Nat
    /\ MaxRestarts \in Nat

VARIABLES
    known,          \* gateway:apikeys
    window,         \* gateway:ratelimit:<key>: its count and time to live
    req,            \* the requests being handled
    fetches,        \* requests on their way to or in a service
    executed,       \* history: times a service executed the request of a slot
    passed,         \* history: requests let pass, in each of the last ticks
    restarts        \* history: restarts of Redis, in each of the last ticks

gatewayVars == <<known, window, req, fetches, executed, passed, restarts>>

-----------------------------------------------------------------------------
(* Types *)

\* Methods that are forwarded, and one that is not.
Methods == {"GET", "POST", "PUT"}

SupportedMethods == Methods \ {"PUT"}

\* Where the handler of a request stands.
HandlerPc == {"authenticate", "count", "forward", "fetching", "sleeping"}

\* What the client was answered: by the gateway itself, or "relayed" from the
\* service; "cut" when the gateway died.
Refusals == {"unauthorized", "limited", "unsupported", "error"}
Answers == Refusals \cup {"relayed", "unavailable", "cut"}

\* The last Window ticks, 1 being the current one.
Recent == 1 .. Window

Request ==
    [at : HandlerPc \cup Answers \cup {"idle"}, key : Keys, method : Methods,
     try : 0 .. Retries]

Fetch == [slot : Requests, try : 0 .. Retries, done : BOOLEAN]

GatewayTypeOK ==
    /\ known \subseteq Configured
    /\ window \in [Keys -> [count : 0 .. Limit + 1, ttl : 0 .. Window]]
    /\ req \in [Requests -> Request]
    /\ fetches \subseteq Fetch
    /\ executed \in [Requests -> Nat]
    /\ passed \in [Keys -> [Recent -> Nat]]
    /\ restarts \in [Recent -> Nat]

\* A counter that does not exist, or has expired.
NoCounter == [count |-> 0, ttl |-> 0]

\* main: connect, write the keys, listen.
GatewayInit ==
    /\ known = Configured
    /\ window = [k \in Keys |-> NoCounter]
    /\ req \in [Requests -> [at : {"idle"}, key : Keys, method : {"GET"}, try : {0}]]
    /\ \A r, s \in Requests : req[r] = req[s]
    /\ fetches = {}
    /\ executed = [r \in Requests |-> 0]
    /\ passed = [k \in Keys |-> [i \in Recent |-> 0]]
    /\ restarts = [i \in Recent |-> 0]

-----------------------------------------------------------------------------
(* The middleware of /api *)

Handled(r) == req[r].at \in HandlerPc

\* The handler of r goes on at, or ends with, p.
Goes(r, p) == req' = [req EXCEPT ![r].at = p]

\* A request arrives; what is left of an earlier one of the slot goes on unseen.
Arrive(r, k, m) ==
    /\ ~Handled(r)
    /\ req' = [req EXCEPT ![r] = [at |-> "authenticate", key |-> k, method |-> m, try |-> 0]]
    /\ fetches' = {f \in fetches : f.slot # r}
    /\ executed' = [executed EXCEPT ![r] = 0]
    /\ UNCHANGED <<known, window, passed, restarts>>

\* apiKeyAuthMiddleware: SISMEMBER.
Authenticate(r) ==
    /\ req[r].at = "authenticate"
    /\ Goes(r, IF req[r].key \in known THEN "count" ELSE "unauthorized")
    /\ UNCHANGED <<known, window, fetches, executed, passed, restarts>>

\* Seeded fault: EXPIRE with every INCR, not with the first.
Counted_Extended(k) ==
    [count |-> IF window[k].count > Limit THEN Limit + 1 ELSE window[k].count + 1,
     ttl |-> Window]

\* INCREMENT_WINDOW_SCRIPT, one command of Redis: the first INCR sets the time
\* to live.  Counts beyond the limit all do the same and are kept as one.
Counted(k) ==
    [count |-> IF window[k].count > Limit THEN Limit + 1 ELSE window[k].count + 1,
     ttl |-> IF window[k].count = 0 THEN Window ELSE window[k].ttl]

\* Seeded fault: count < limit + 1 is taken for count <= limit + 1.
Allowed_OffByOne(count) == count <= Limit + 1

\* RateLimiter.check
Allowed(count) == count <= Limit

\* rateLimitMiddleware
CountRequest(r) ==
    LET k == req[r].key
        pass == Allowed(Counted(k).count)
    IN
    /\ req[r].at = "count"
    /\ window' = [window EXCEPT ![k] = Counted(k)]
    /\ passed' = [passed EXCEPT ![k][1] = IF pass THEN @ + 1 ELSE @]
    /\ Goes(r, IF pass THEN "forward" ELSE "limited")
    /\ UNCHANGED <<known, fetches, executed, restarts>>

\* A command is rejected: Redis is away for longer than ioredis tries.  The
\* script may have been executed all the same.
RedisRejects(r) ==
    /\ req[r].at \in {"authenticate", "count"}
    /\ Goes(r, "error")
    /\ window' \in {window} \cup
           (IF req[r].at = "count"
            THEN {[window EXCEPT ![req[r].key] = Counted(req[r].key)]} ELSE {})
    /\ UNCHANGED <<known, fetches, executed, passed, restarts>>

-----------------------------------------------------------------------------
(* ProxyController.forward and JsonProxyClient *)

\* proxyMethodSchema refuses what is not in SUPPORTED_PROXY_METHODS.
RefuseMethod(r) ==
    /\ req[r].at = "forward"
    /\ req[r].method \notin SupportedMethods
    /\ Goes(r, "unsupported")
    /\ UNCHANGED <<known, window, fetches, executed, passed, restarts>>

\* forwardOnce: the request leaves for the service.
ForwardOnce(r) ==
    /\ req[r].at = "forward"
    /\ req[r].method \in SupportedMethods
    /\ Goes(r, "fetching")
    /\ fetches' = fetches \cup {[slot |-> r, try |-> req[r].try, done |-> FALSE]}
    /\ UNCHANGED <<known, window, executed, passed, restarts>>

\* Seeded fault: every method is tried again.
AskedAgain_Always(r) == req[r].try < Retries

\* withRetry is only around a GET.
AskedAgain(r) == req[r].method = "GET" /\ req[r].try < Retries

\* AbortSignal.timeout, a refused or a broken connection.  The service may
\* have the request, or still get it.
FetchFails(r) ==
    /\ req[r].at = "fetching"
    /\ Goes(r, IF AskedAgain(r) THEN "sleeping" ELSE "unavailable")
    /\ UNCHANGED <<known, window, fetches, executed, passed, restarts>>

\* baseDelayMs * 2 ** attempt later.
AskAgain(r) ==
    /\ req[r].at = "sleeping"
    /\ req' = [req EXCEPT ![r].at = "forward", ![r].try = @ + 1]
    /\ UNCHANGED <<known, window, fetches, executed, passed, restarts>>

\* Whatever status the service answers is passed on, 5xx included.
Relay(f) ==
    /\ f.done
    /\ req[f.slot].at = "fetching"
    /\ req[f.slot].try = f.try
    /\ Goes(f.slot, "relayed")
    /\ fetches' = fetches \ {f}
    /\ UNCHANGED <<known, window, executed, passed, restarts>>

-----------------------------------------------------------------------------
(* Services, the network, restarts and time *)

ServiceExecutes(f) ==
    /\ ~f.done
    /\ fetches' = (fetches \ {f}) \cup {[f EXCEPT !.done = TRUE]}
    /\ executed' = [executed EXCEPT ![f.slot] = @ + 1]
    /\ UNCHANGED <<known, window, req, passed, restarts>>

\* A request nobody waits for never reaches its service, or its answer is lost.
FetchLost(f) ==
    /\ ~(req[f.slot].at = "fetching" /\ req[f.slot].try = f.try)
    /\ fetches' = fetches \ {f}
    /\ UNCHANGED <<known, window, req, executed, passed, restarts>>

\* The gateway dies with its handlers and starts again: DEL and SADD of the
\* configured keys come before it listens.
GatewayRestarts ==
    /\ known' = Configured
    /\ req' = [r \in Requests |-> IF Handled(r) THEN [req[r] EXCEPT !.at = "cut"] ELSE req[r]]
    /\ UNCHANGED <<window, fetches, executed, passed, restarts>>

\* Redis dies and starts again, empty.
RedisRestarts ==
    /\ \A i \in Recent : restarts[i] < MaxRestarts
    /\ known' = {}
    /\ window' = [k \in Keys |-> NoCounter]
    /\ restarts' = [restarts EXCEPT ![1] = @ + 1]
    /\ UNCHANGED <<req, fetches, executed, passed>>

\* What happened in the last ticks, one tick later.
Older(h) == [i \in Recent |-> IF i = 1 THEN 0 ELSE h[i - 1]]

\* Time passes; a counter whose time to live is over is gone.
Tick ==
    /\ window' = [k \in Keys |->
                     IF window[k].ttl <= 1 THEN NoCounter
                     ELSE [window[k] EXCEPT !.ttl = @ - 1]]
    /\ passed' = [k \in Keys |-> Older(passed[k])]
    /\ restarts' = Older(restarts)
    /\ UNCHANGED <<known, req, fetches, executed>>

-----------------------------------------------------------------------------

HandlerStep(r) ==
    \/ Authenticate(r) \/ CountRequest(r) \/ RedisRejects(r)
    \/ RefuseMethod(r) \/ ForwardOnce(r) \/ FetchFails(r) \/ AskAgain(r)

GatewayNext ==
    \/ \E r \in Requests : HandlerStep(r) \/ \E k \in Keys, m \in Methods : Arrive(r, k, m)
    \/ \E f \in fetches : Relay(f) \/ ServiceExecutes(f) \/ FetchLost(f)
    \/ GatewayRestarts
    \/ RedisRestarts
    \/ Tick

GatewaySpec == GatewayInit /\ [][GatewayNext]_gatewayVars

\* Node runs ready continuations, ioredis and AbortSignal.timeout bound every
\* wait, and time passes.  Nothing is assumed of clients, services or faults.
GatewayFairness ==
    /\ \A r \in Requests : WF_gatewayVars(HandlerStep(r))
    /\ WF_gatewayVars(Tick)

-----------------------------------------------------------------------------
(* Properties *)

\* The total of a history.
Total(h) == SumFunction(h)

\* A fixed window lets twice the limit pass around its end, and no more: in any
\* Window consecutive ticks at most twice Limit requests of a key pass, and Limit
\* more for every restart of Redis, which forgets the counts (docs/contracts.md,
\* "120 req/10s").
PassedPerWindow ==
    \A k \in Keys : Total(passed[k]) <= (2 + Total(restarts)) * Limit

\* What a client is told agrees with what the services did, although the gateway
\* gives up on calls, asks again and restarts: a refused request reached no
\* service and never will; one that was relayed was executed; one that is not a GET
\* is executed once at most, a GET once per try; and nothing is ever executed for a
\* key that is not configured.
ExecutedAsAnswered ==
    \A r \in Requests :
        LET onItsWay == {f \in fetches : f.slot = r /\ ~f.done}
            most == executed[r] + Cardinality(onItsWay)
        IN
        /\ req[r].at \in Refusals => most = 0
        /\ req[r].at = "relayed" => executed[r] > 0
        /\ most <= IF req[r].method = "GET" THEN Retries + 1 ELSE 1
        /\ most > 0 => req[r].key \in Configured

\* A client that keeps calling over its limit is not shut out for good: its
\* window ends by itself, since only the first request of a window sets its end.
LimitReopens == \A k \in Keys : window[k].count > Limit ~> window[k].count = 0

\* docs/contracts.md:236, "checked against seeded keys in Redis ... 401 on
\* missing/unknown key": a configured key is not refused.  Redis restarted since
\* the gateway did, and refuses every key until the gateway restarts too.
ConfiguredKeysPass ==
    \A r \in Requests : req[r].at = "unauthorized" => req[r].key \notin Configured
=============================================================================
