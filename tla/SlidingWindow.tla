--------------------------- MODULE SlidingWindow ---------------------------
(***************************************************************************)
(* The distributed rate limiter, for one key: Allow and its script         *)
(* (gateway/internal/ratelimit/redis.go) and the middleware that asks it   *)
(* (gateway/internal/middleware/rate_limit.go).  The admin service has the *)
(* same script and always fails closed.                                    *)
(*                                                                         *)
(* Redis is external: it runs a script in one step, at a time of its own.  *)
(* The instances' clocks are at most Skew ahead of it.  A request whose    *)
(* call has timed out is answered without a verdict, and its script may    *)
(* still be run.                                                           *)
(***************************************************************************)
EXTENDS Integers, FiniteSets

CONSTANTS
    Requests,     \* requests with the same key, at any instance
    Rules,        \* rate-limit rules that the configuration has had
    Narrowest,    \* no rule has a narrower window
    Skew,         \* how far an instance's clock may be ahead
    RedisTimeout, \* no verdict comes later after the clock was read
    MaxTime       \* bound: Redis's clock

RuleType == [enabled : BOOLEAN, limit : Nat \ {0}, window : Nat \ {0}, failClosed : BOOLEAN]

ASSUME WindowAssumption ==
    /\ IsFiniteSet(Requests)
    /\ Rules \subseteq RuleType /\ Rules # {}
    /\ Narrowest \in Nat /\ \A rule \in Rules : rule.window >= Narrowest
    /\ Skew \in Nat /\ RedisTimeout \in Nat /\ MaxTime \in Nat

VARIABLES
    time,         \* Redis's clock
    zset,         \* the requests that are members of the key
    expires,      \* when the key goes
    rule,         \* the published snapshot
    request,      \* where each request stands
    overdue,      \* requests given up whose script may still be run
    turns         \* history: how many scripts have admitted a request

windowVars == <<time, zset, expires, rule, request, overdue, turns>>

\* A request of which no more than the step matters
In(step) == [step |-> step, rule |-> CHOOSE any \in Rules : TRUE, sent |-> 0,
             now |-> 0, at |-> 0, turn |-> 0]

\* sent: Redis's time when the instance read its clock; now: what that showed;
\* at, turn: when the script admitted the request, and as which.
WindowInit ==
    /\ time = 0 /\ zset = {} /\ expires = 0 /\ rule \in Rules
    /\ request = [r \in Requests |-> In("idle")]
    /\ overdue = {} /\ turns = 0

\* Time passes, and a key whose time has come is gone.
Pass ==
    /\ time < MaxTime /\ time' = time + 1
    /\ zset' = IF time + 1 >= expires THEN {} ELSE zset
    /\ UNCHANGED <<expires, rule, request, overdue, turns>>

Publish(new) ==
    /\ rule' = new
    /\ UNCHANGED <<time, zset, expires, request, overdue, turns>>

\* Handle, to the call of Redis: it keeps to the rule it has loaded.
AskRedis(r) ==
    /\ request[r].step = "idle"
    /\ IF rule.enabled
       THEN \E ahead \in 0 .. Skew :
              request' = [request EXCEPT ![r].step = "asking", ![r].rule = rule,
                                         ![r].sent = time, ![r].now = time + ahead]
       ELSE request' = [request EXCEPT ![r] = In("passed")]
    /\ UNCHANGED <<time, zset, expires, rule, overdue, turns>>

\* The members that the script of r keeps: its clock decides.
Current(r) == {q \in zset : request[q].now > request[r].now - request[r].rule.window}

\* Variant: one more than the limit.
FullBeyond(r) == Cardinality(Current(r)) > request[r].rule.limit

Full(r) == Cardinality(Current(r)) >= request[r].rule.limit

\* slidingWindowScript
Script(r) ==
    IF Full(r)
    THEN zset' = Current(r) /\ UNCHANGED <<expires, turns>>
    ELSE /\ zset' = Current(r) \cup {r}
         /\ expires' = time + request[r].rule.window /\ turns' = turns + 1

\* The verdict comes in time.
Verdict(r) ==
    /\ request[r].step = "asking" /\ time <= request[r].sent + RedisTimeout
    /\ Script(r)
    /\ request' = [request EXCEPT
         ![r] = IF Full(r) THEN In("denied")
                ELSE [@ EXCEPT !.step = "allowed", !.sent = 0, !.at = time, !.turn = turns + 1]]
    /\ UNCHANGED <<time, rule, overdue>>

\* It does not, or Redis fails: the rule decides.
NoVerdict(r) ==
    /\ request[r].step = "asking"
    /\ LET step == IF request[r].rule.failClosed THEN "denied" ELSE "passed" IN
       \/ request' = [request EXCEPT ![r] = In(step)] /\ UNCHANGED overdue
       \/ request' = [request EXCEPT ![r].step = step, ![r].sent = 0] /\ overdue' = overdue \cup {r}
    /\ UNCHANGED <<time, zset, expires, rule, turns>>

ScriptOverdue(r) ==
    /\ r \in overdue /\ overdue' = overdue \ {r}
    /\ Script(r)
    /\ UNCHANGED <<time, rule, request>>

WindowNext ==
    \/ Pass \/ \E new \in Rules : Publish(new)
    \/ \E r \in Requests : AskRedis(r) \/ Verdict(r) \/ NoVerdict(r) \/ ScriptOverdue(r)

WindowSpec == WindowInit /\ [][WindowNext]_windowVars

----------------------------------------------------------------------------
(* Properties *)

Span == Narrowest - Skew - RedisTimeout

\* The requests allowed before r and with it, no longer ago than the window less
\* what the clocks and the way to Redis may take from it
Neighbours(r) ==
    {q \in Requests : /\ request[q].step = "allowed" /\ request[q].turn <= request[r].turn
                      /\ request[q].at > request[r].at - Span}

\* Whatever the clocks, the rules and the calls that were given up, a request is
\* allowed only while the allowed ones near it, with itself, are within the limit
\* it was judged by (ratelimit/redis.go:13).
WithinLimit ==
    \A r \in Requests :
        request[r].step = "allowed" => Cardinality(Neighbours(r)) <= request[r].rule.limit

LimitedRequest == [step : {"idle", "asking", "allowed", "denied", "passed"},
                   rule : Rules, sent : Nat, now : Nat, at : Nat, turn : Nat]

\* Times and turns are natural, and a member is a request
\* (ratelimit/redis.go:55).
WindowTypes ==
    /\ time \in Nat /\ expires \in Nat /\ turns \in Nat /\ rule \in Rules
    /\ zset \subseteq Requests /\ overdue \subseteq Requests
    /\ request \in [Requests -> LimitedRequest]
=============================================================================
