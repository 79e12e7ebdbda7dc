--------------------------- MODULE TronApprovals ---------------------------
(***************************************************************************)
(* The TRON USDT approval check of the web3 service (service/approval.go)  *)
(* and its daily budgets in PostgreSQL (repository/usage.go).  Requests    *)
(* for one address share a check within an instance; instances share the  *)
(* budget rows and the cache in Redis.                                     *)
(*                                                                         *)
(* TRONSCAN and TronGrid are external: Listing is what the former lists    *)
(* for an address, in order; a reservation and the call it pays for are   *)
(* one step, because the call reads nothing another request writes.       *)
(***************************************************************************)
EXTENDS Naturals, FiniteSets, Sequences

CONSTANTS
    Requests,      \* requests 1, 2, ... in the order of their arrival
    Instances,     \* processes of the web3 service; the first request reaches process 1
    Addresses,     \* TRON addresses that clients ask for
    Spenders,      \* addresses that may have been approved to spend USDT
    Entries,       \* what an approval list may hold: spenders and other tokens
    Listing,       \* address -> its approval list
    Days,          \* bound: days 0, 1, ...
    Faults,        \* bound: errors, cancellations and crashes
    QueryLimit, AddressLimit, UpstreamLimit,   \* the daily limits
    PageSize, MaxPages, MaxSpenders,           \* the limits of one check
    Nobody

ASSUME ApprovalsAssumption ==
    /\ Requests \subseteq Nat /\ Instances \subseteq Nat
    /\ Days \subseteq Nat /\ 0 \in Days /\ Faults \in Nat
    /\ {QueryLimit, AddressLimit, UpstreamLimit, PageSize, MaxPages, MaxSpenders}
          \subseteq Nat \ {0}
    /\ IsFiniteSet(Spenders) /\ IsFiniteSet(Addresses)
    /\ \A a \in Addresses : Listing[a] \in Seq(Entries)
    /\ Nobody \notin Requests

VARIABLES
    today,      \* the UTC day
    usage,      \* day -> its row of tron_usage_daily, or Nobody
    seen,       \* day -> addresses with a row in tron_usage_address_daily
    lock,       \* day -> request whose transaction has the row locked
    cache,      \* address -> answer in Redis, or Nobody
    inflight,   \* instance -> address -> request that leads the check
    cancelled,  \* open requests whose context has ended
    pc,         \* request -> where it stands
    mem,        \* request -> its locals while it is open
    faults      \* faults left

vars == <<today, usage, seen, lock, cache, inflight, cancelled, pc, mem, faults>>

Counters == {"queries", "addresses", "calls", "hits", "success", "partial", "failed"}
FreshRow == [k \in Counters |-> 0]

\* A response: how far it got, and whether a cancellation cut it short (history).
Answers == [status : {"success", "partial", "failed"}, verified : SUBSET Spenders, cut : BOOLEAN]

Memory == [address : Addresses, on : Instances, day : Days,
           read : [Counters -> Nat],           \* the row as SELECT FOR UPDATE read it
           leader : Requests \cup {Nobody},    \* the call a follower waits for
           page : 0..(MaxPages - 1), start : Nat,   \* the enumeration
           found : SUBSET Spenders, truncated : BOOLEAN, complete : BOOLEAN,
           decimals : BOOLEAN,                 \* USDTDecimals has answered
           pending : SUBSET Spenders, verified : SUBSET Spenders,
           cut : BOOLEAN,                      \* history: an error of its own context
           refused : Days \cup {Nobody},       \* history: the day whose limit was reached
           hit : BOOLEAN,                      \* the answer comes from the cache
           answer : Answers \cup {Nobody}]

ASSUME NobodyAssumption == Nobody \notin Memory /\ Nobody \notin Answers /\ Nobody \notin [Counters -> Nat]

Checking == {"list", "risk", "decimals", "verify", "store", "publish"}
Places == {"idle", "begin", "reserve", "cache", "join", "follow", "shared", "record", "done"}
             \cup Checking

Init ==
    /\ today = 0
    /\ usage = [d \in Days |-> Nobody] /\ seen = [d \in Days |-> {}]
    /\ lock = [d \in Days |-> Nobody]
    /\ cache = [a \in Addresses |-> Nobody]
    /\ inflight = [i \in Instances |-> [a \in Addresses |-> Nobody]]
    /\ cancelled = {}
    /\ pc = [r \in Requests |-> "idle"]
    /\ mem = [r \in Requests |-> Nobody]
    /\ faults = Faults

Fault == faults > 0 /\ faults' = faults - 1

\* A statement or call of r fails: always when its context has ended.
Trips(r) == (r \in cancelled /\ UNCHANGED faults) \/ Fault

Goto(r, place) == pc' = [pc EXCEPT ![r] = place]
Row(d) == IF usage[d] = Nobody THEN FreshRow ELSE usage[d]

\* The handler returns, and its locals are gone.
Return(r) ==
    /\ Goto(r, "done")
    /\ mem' = [mem EXCEPT ![r] = Nobody]
    /\ cancelled' = cancelled \ {r}

Leader(r) == inflight[mem[r].on][mem[r].address]
store == <<usage, seen, lock>>
Bump(d, keys) == usage' = [usage EXCEPT ![d] = [k \in Counters |-> IF k \in keys THEN @[k] + 1 ELSE @[k]]]

----------------------------------------------------------------------------
(* Environment *)

Tick ==
    /\ today + 1 \in Days
    /\ today' = today + 1
    /\ UNCHANGED <<store, cache, inflight, cancelled, pc, mem, faults>>

\* An entry expires after cacheTTL, or Redis loses it.
Expire(a) ==
    /\ cache[a] # Nobody
    /\ cache' = [cache EXCEPT ![a] = Nobody]
    /\ UNCHANGED <<today, store, inflight, cancelled, pc, mem, faults>>

\* The client goes away or its deadline passes.
Cancel(r) ==
    /\ pc[r] \notin {"idle", "done"} /\ r \notin cancelled
    /\ cancelled' = cancelled \cup {r} /\ Fault
    /\ UNCHANGED <<today, store, cache, inflight, pc, mem>>

\* Transactions of a process that dies are rolled back.
Crash(i) ==
    LET here == {r \in Requests : mem[r] # Nobody /\ mem[r].on = i}
    IN  /\ here # {} /\ Fault
        /\ pc' = [r \in Requests |-> IF r \in here THEN "done" ELSE pc[r]]
        /\ mem' = [r \in Requests |-> IF r \in here THEN Nobody ELSE mem[r]]
        /\ cancelled' = cancelled \ here
        /\ lock' = [d \in Days |-> IF lock[d] \in here THEN Nobody ELSE lock[d]]
        /\ inflight' = [inflight EXCEPT ![i] = [a \in Addresses |-> Nobody]]
        /\ UNCHANGED <<today, usage, seen, cache>>

----------------------------------------------------------------------------
(* ReserveQuery: one transaction *)

Call(r, a, i) ==
    /\ pc[r] = "idle" /\ \A q \in Requests : q < r => pc[q] # "idle"
    /\ i = 1 \/ \E q \in Requests : pc[q] # "idle"
    /\ Goto(r, "begin")
    /\ mem' = [mem EXCEPT ![r] =
          [address |-> a, on |-> i, day |-> today, read |-> FreshRow, leader |-> Nobody,
           page |-> 0, start |-> 0, found |-> {}, truncated |-> FALSE, complete |-> FALSE,
           decimals |-> FALSE, pending |-> {}, verified |-> {}, cut |-> FALSE,
           refused |-> Nobody, hit |-> FALSE, answer |-> Nobody]]
    /\ UNCHANGED <<today, store, cache, inflight, cancelled, faults>>

\* Variant: the row is read without FOR UPDATE.
ReadDay(r) ==
    /\ pc[r] = "begin"
    /\ mem' = [mem EXCEPT ![r].read = Row(mem[r].day)]
    /\ Goto(r, "reserve")
    /\ UNCHANGED <<today, store, cache, inflight, cancelled, faults>>

\* INSERT ON CONFLICT DO NOTHING, then SELECT FOR UPDATE: either waits for a
\* transaction that has inserted or locked the row.
LockDay(r) ==
    /\ pc[r] = "begin" /\ lock[mem[r].day] = Nobody
    /\ lock' = [lock EXCEPT ![mem[r].day] = r]
    /\ mem' = [mem EXCEPT ![r].read = Row(mem[r].day)]
    /\ Goto(r, "reserve")
    /\ UNCHANGED <<today, usage, seen, cache, inflight, cancelled, faults>>

\* The end of the transaction: its lock goes.
Unlocked(r) == [d \in Days |-> IF lock[d] = r THEN Nobody ELSE lock[d]]

New(r) == mem[r].address \notin seen[mem[r].day]
Exceeds(r) ==
    \/ mem[r].read["queries"] >= QueryLimit
    \/ New(r) /\ mem[r].read["addresses"] >= AddressLimit

\* Within the limits: the writes.  The answer to the commit may be lost.
Reserve(r) ==
    /\ pc[r] = "reserve" /\ r \notin cancelled /\ ~Exceeds(r)
    /\ usage' = [usage EXCEPT ![mem[r].day] =
          [Row(mem[r].day) EXCEPT !["queries"] = @ + 1,
                                  !["addresses"] = IF New(r) THEN @ + 1 ELSE @]]
    /\ seen' = [seen EXCEPT ![mem[r].day] = @ \cup {mem[r].address}]
    /\ lock' = Unlocked(r)
    /\ \/ /\ Goto(r, "cache") /\ mem' = [mem EXCEPT ![r].read = FreshRow]
          /\ UNCHANGED <<cancelled, faults>>
       \/ Fault /\ Return(r)
    /\ UNCHANGED <<today, cache, inflight>>

\* A limit, or an error in the transaction: it is rolled back.
Refuse(r) ==
    /\ \/ pc[r] = "reserve" /\ Exceeds(r) /\ UNCHANGED faults
       \/ pc[r] \in {"begin", "reserve"} /\ Trips(r)
    /\ lock' = Unlocked(r)
    /\ Return(r)
    /\ UNCHANGED <<today, usage, seen, cache, inflight>>

----------------------------------------------------------------------------
(* CheckTronUSDTApprovals: the cache and the calls in flight *)

\* A cache that fails counts as one without the entry.
ReadCache(r) ==
    /\ pc[r] = "cache"
    /\ \/ /\ r \notin cancelled /\ cache[mem[r].address] # Nobody
          /\ mem' = [mem EXCEPT ![r].answer = cache[mem[r].address], ![r].hit = TRUE]
          /\ Goto(r, "record") /\ UNCHANGED faults
       \/ /\ (cache[mem[r].address] = Nobody /\ UNCHANGED faults) \/ Trips(r)
          /\ Goto(r, "join") /\ UNCHANGED mem
    /\ UNCHANGED <<today, store, cache, inflight, cancelled>>

\* Under inflightMu.
Lead(r) ==
    /\ pc[r] = "join" /\ Leader(r) = Nobody
    /\ inflight' = [inflight EXCEPT ![mem[r].on][mem[r].address] = r]
    /\ Goto(r, "list")
    /\ UNCHANGED <<today, store, cache, cancelled, mem, faults>>

Follow(r) ==
    /\ pc[r] = "join" /\ Leader(r) # Nobody
    /\ mem' = [mem EXCEPT ![r].leader = Leader(r)]
    /\ Goto(r, "follow")
    /\ UNCHANGED <<today, store, cache, inflight, cancelled, faults>>

\* ctx.Done of a follower; the select may also prefer it to an answer.
GiveUp(r) ==
    /\ pc[r] \in {"follow", "shared"} /\ r \in cancelled
    /\ Return(r)
    /\ UNCHANGED <<today, store, cache, inflight, faults>>

Followers(r) == {f \in Requests : pc[f] = "follow" /\ mem[f].leader = r}

\* Variant: followers are woken only when there is something to share.
PublishSuccess(r) ==
    /\ pc[r] = "publish"
    /\ LET woken == IF mem[r].answer.status = "failed" THEN {} ELSE Followers(r)
       IN  /\ pc' = [f \in Requests |-> IF f \in woken THEN "shared"
                                        ELSE IF f = r THEN "record" ELSE pc[f]]
           /\ mem' = [f \in Requests |-> IF f \in woken
                                         THEN [mem[f] EXCEPT !.answer = mem[r].answer] ELSE mem[f]]
    /\ inflight' = [inflight EXCEPT ![mem[r].on][mem[r].address] = Nobody]
    /\ UNCHANGED <<today, store, cache, cancelled, faults>>

\* Under inflightMu: the result, delete and close(done).
Publish(r) ==
    /\ pc[r] = "publish"
    /\ LET woken == Followers(r)
       IN  /\ pc' = [f \in Requests |-> IF f \in woken THEN "shared"
                                        ELSE IF f = r THEN "record" ELSE pc[f]]
           /\ mem' = [f \in Requests |-> IF f \in woken
                                         THEN [mem[f] EXCEPT !.answer = mem[r].answer] ELSE mem[f]]
    /\ inflight' = [inflight EXCEPT ![mem[r].on][mem[r].address] = Nobody]
    /\ UNCHANGED <<today, store, cache, cancelled, faults>>

\* An update of a row waits while a transaction that has written it is open;
\* a row that is not committed yet it does not see.
Free(d) == usage[d] = Nobody \/ lock[d] = Nobody

\* What RecordResult counts on day d.
Counted(r, d) ==
    \/ /\ r \notin cancelled /\ usage[d] # Nobody
       /\ Bump(d, IF mem[r].hit THEN {mem[r].answer.status, "hits"} ELSE {mem[r].answer.status})
       /\ UNCHANGED faults
    \/ /\ (usage[d] = Nobody /\ UNCHANGED faults) \/ Trips(r)
       /\ UNCHANGED usage

\* Variant: on the day the result is known.
RecordToday(r) ==
    /\ pc[r] \in {"record", "shared"} /\ Free(today)
    /\ Counted(r, today)
    /\ Return(r)
    /\ UNCHANGED <<today, seen, lock, cache, inflight>>

\* RecordResult, on the day of the request; its errors are ignored.
Record(r) ==
    /\ pc[r] \in {"record", "shared"} /\ Free(mem[r].day)
    /\ Counted(r, mem[r].day)
    /\ Return(r)
    /\ UNCHANGED <<today, seen, lock, cache, inflight>>

----------------------------------------------------------------------------
(* check: enumerate, risk labels, decimals, verifyAllowances *)

Spent(d) == usage[d] # Nobody /\ usage[d]["calls"] >= UpstreamLimit

\* ReserveUpstreamCall: the conditional update, of today's row.
Charge(r) ==
    /\ r \notin cancelled /\ Free(today)
    /\ usage[today] # Nobody /\ ~Spent(today)
    /\ Bump(today, {"calls"})

\* The call is paid for, and answered.
Pay(r) == Charge(r) /\ UNCHANGED faults

\* It has updated no row: the error says that the limit is reached.
Unpaid(r, m) ==
    /\ r \notin cancelled /\ Free(today)
    /\ usage[today] = Nobody \/ Spent(today)
    /\ UNCHANGED <<usage, faults>>
    /\ mem' = [mem EXCEPT ![r] = [m EXCEPT !.refused = today]]

\* The reservation or the call itself fails; the call may have been counted.
Unsure(r, m) ==
    /\ UNCHANGED usage \/ Charge(r)
    /\ Trips(r)
    /\ mem' = [mem EXCEPT ![r] = [m EXCEPT !.cut = @ \/ r \in cancelled]]

\* A reservation or the call it pays for fails, and the check goes on with m.
Fails(r, m) == Unpaid(r, m) \/ Unsure(r, m)

quiet == <<today, seen, lock, cache, inflight, cancelled>>

\* The spenders among the first entries of a list.
Listed(entries) == {entries[k] : k \in 1..Len(entries)} \cap Spenders

\* The spenders found after a page: a new one is taken while fewer than
\* maxSpenders have been found before its entry.
Found(found, entries) ==
    found \cup {s \in Spenders : \E k \in 1..Len(entries) :
                   /\ entries[k] = s
                   /\ Cardinality(found \cup ({entries[j] : j \in 1..(k - 1)} \cap Spenders)) < MaxSpenders}

\* Variant: entries beyond maxSpenders are dropped silently.
NeverTruncates(found, entries) == FALSE

Truncates(found, entries) == ~(Listed(entries) \subseteq Found(found, entries))

LastPage(page) == page = MaxPages - 1

\* The end of check: its other locals go out of scope.
Answered(m, status) ==
    [m EXCEPT !.answer = [status |-> status, verified |-> m.verified, cut |-> m.cut],
              !.page = 0, !.start = 0, !.found = {}, !.truncated = FALSE, !.complete = FALSE,
              !.decimals = FALSE, !.pending = {}, !.verified = {}]

\* Whoever finds nothing and cannot tell that there is nothing has failed.
Enumerated(m) == IF m.found = {} /\ ~m.complete THEN "publish" ELSE "risk"
AfterList(m) ==
    IF Enumerated(m) = "publish"
    THEN Answered(m, "failed")
    ELSE [m EXCEPT !.page = 0, !.start = 0]

\* A page is a part of the rest, empty only if there is no rest.
Pages(a, start) ==
    LET rest == Len(Listing[a]) - start
    IN  {SubSeq(Listing[a], start + 1, start + n) :
            n \in IF rest = 0 THEN {0} ELSE {k \in 1..rest : k <= PageSize}}

ListPage(r) ==
    /\ pc[r] = "list" /\ Pay(r)
    /\ \E entries \in Pages(mem[r].address, mem[r].start) :
          LET m == mem[r]
              start == m.start + Len(entries)
              end == Len(entries) = 0 \/ start >= Len(Listing[m.address])
              truncated == \/ m.truncated \/ Truncates(m.found, entries)
                           \/ ~end /\ LastPage(m.page)
              next == [m EXCEPT !.found = Found(@, entries), !.start = start,
                                !.page = IF end THEN @ ELSE @ + 1,
                                !.truncated = truncated, !.complete = end /\ ~truncated]
          IN  IF end \/ LastPage(m.page)
              THEN mem' = [mem EXCEPT ![r] = AfterList(next)] /\ Goto(r, Enumerated(next))
              ELSE mem' = [mem EXCEPT ![r] = next] /\ UNCHANGED pc
    /\ UNCHANGED quiet

\* The loop breaks with what has been found.
ListFails(r) ==
    /\ pc[r] = "list"
    /\ Fails(r, AfterList(mem[r]))
    /\ Goto(r, Enumerated(mem[r]))
    /\ UNCHANGED quiet

Risk(r) ==
    /\ pc[r] = "risk"
    /\ (Pay(r) /\ UNCHANGED mem) \/ Fails(r, mem[r])
    /\ Goto(r, "decimals")
    /\ UNCHANGED quiet

Decimals(r) ==
    LET m == [mem[r] EXCEPT !.pending = mem[r].found]
    IN  /\ pc[r] = "decimals"
        /\ \/ Pay(r) /\ mem' = [mem EXCEPT ![r] = [m EXCEPT !.decimals = TRUE]]
           \/ Fails(r, m)
        /\ Goto(r, "verify")
        /\ UNCHANGED quiet

\* One of the workers takes the next candidate; they finish in any order.
Verify(r, s) ==
    LET m == [mem[r] EXCEPT !.pending = @ \ {s}]
    IN  /\ pc[r] = "verify" /\ s \in mem[r].pending
        /\ \/ Pay(r) /\ mem' = [mem EXCEPT ![r] = [m EXCEPT !.verified = @ \cup {s}]]
           \/ Fails(r, m)
        /\ UNCHANGED pc /\ UNCHANGED quiet

Conclude(r) ==
    LET m == mem[r]
        status == IF m.complete /\ m.decimals /\ m.verified = m.found THEN "success" ELSE "partial"
    IN  /\ pc[r] = "verify" /\ m.pending = {}
        /\ mem' = [mem EXCEPT ![r] = Answered(m, status)]
        /\ Goto(r, "store")
        /\ UNCHANGED <<today, store, cache, inflight, cancelled, faults>>

\* Variant: the answer is stored whatever became of the request.
StoreAnyway(r) ==
    /\ pc[r] = "store"
    /\ cache' = [cache EXCEPT ![mem[r].address] = mem[r].answer]
    /\ Goto(r, "publish")
    /\ UNCHANGED <<today, store, inflight, cancelled, mem, faults>>

\* storeCache, with the context of the request.
StoreCache(r) ==
    /\ pc[r] = "store"
    /\ \/ r \notin cancelled /\ cache' = [cache EXCEPT ![mem[r].address] = mem[r].answer] /\ UNCHANGED faults
       \/ Trips(r) /\ UNCHANGED cache
    /\ Goto(r, "publish")
    /\ UNCHANGED <<today, store, inflight, cancelled, mem>>

----------------------------------------------------------------------------
Check(r) ==
    \/ ListPage(r) \/ ListFails(r) \/ Risk(r) \/ Decimals(r) \/ Conclude(r)
    \/ StoreCache(r) \/ Publish(r)
    \/ \E s \in Spenders : Verify(r, s)

Step(r) ==
    \/ LockDay(r) \/ Reserve(r) \/ Refuse(r) \/ ReadCache(r) \/ Lead(r) \/ Follow(r)
    \/ GiveUp(r) \/ Record(r) \/ Check(r)

Next ==
    \/ Tick
    \/ \E a \in Addresses : Expire(a)
    \/ \E i \in Instances : Crash(i)
    \/ \E r \in Requests : Cancel(r) \/ Step(r) \/ \E a \in Addresses, i \in Instances : Call(r, a, i)

Spec == Init /\ [][Next]_vars

\* Handlers run, statements and calls return (each has a timeout), and row
\* locks are granted to those who wait.
FairSpec == Spec /\ \A r \in Requests : SF_vars(Step(r))

----------------------------------------------------------------------------
Open == {r \in Requests : pc[r] \notin {"idle", "done"}}

TypeOK ==
    /\ today \in Days
    /\ usage \in [Days -> [Counters -> Nat] \cup {Nobody}]
    /\ seen \in [Days -> SUBSET Addresses]
    /\ lock \in [Days -> Requests \cup {Nobody}]
    /\ cache \in [Addresses -> Answers \cup {Nobody}]
    /\ inflight \in [Instances -> [Addresses -> Requests \cup {Nobody}]]
    /\ cancelled \subseteq Open
    /\ faults \in 0..Faults
    /\ pc \in [Requests -> Places]
    /\ mem \in [Requests -> Memory \cup {Nobody}]
    /\ \A r \in Requests : r \in Open <=> mem[r] # Nobody

\* The daily budgets hold for all instances together, and the counter of
\* addresses agrees with their rows (usage.go:40, :50, :59, :74).
WithinBudgets ==
    \A d \in Days : usage[d] # Nobody =>
        /\ usage[d]["queries"] <= QueryLimit
        /\ usage[d]["addresses"] = Cardinality(seen[d]) /\ usage[d]["addresses"] <= AddressLimit
        /\ usage[d]["calls"] <= UpstreamLimit

\* The results counted on a day, with those still owed to it, are no more than
\* the queries it has admitted, also for queries that midnight overtakes
\* (approval.go:133, :150, :167).
Owed(d) == {r \in Open : pc[r] \notin {"begin", "reserve"} /\ mem[r].day = d}

ResultsAreCounted ==
    \A d \in Days :
        /\ usage[d] = Nobody => Owed(d) = {}
        /\ usage[d] # Nobody =>
              /\ usage[d]["success"] + usage[d]["partial"] + usage[d]["failed"] + Cardinality(Owed(d))
                    <= usage[d]["queries"]
              /\ usage[d]["hits"] <= usage[d]["success"] + usage[d]["partial"]

\* "success" means that every spender of the list was found and its allowance
\* read, also for an answer from the cache or of another request: pages, the
\* caps and the failures in between never hide one (approval.go:237).
Complete(a, answer) ==
    answer # Nobody /\ answer.status = "success" =>
        answer.verified = Listed(Listing[a])

SuccessIsComplete ==
    /\ \A a \in Addresses : Complete(a, cache[a])
    /\ \A r \in Open : Complete(mem[r].address, mem[r].answer)

\* Answers that failed, or that the end of their request's context cut short,
\* never reach later requests through the cache (approval.go:244).
CacheUnspoiled ==
    \A a \in Addresses : cache[a] # Nobody => cache[a].status # "failed" /\ ~cache[a].cut

\* An instance checks an address once at a time, and whoever follows a call
\* follows one that is still going to publish (approval.go:138).
FollowersHaveALeader ==
    /\ \A r \in Open : pc[r] \in Checking => Leader(r) = r
    /\ \A r \in Open : pc[r] = "follow" => Leader(r) = mem[r].leader /\ pc[Leader(r)] \in Checking

\* The upstream budget is called used up only when it is (usage.go:17).
RefusedOnlyWhenSpent == \A r \in Open : mem[r].refused # Nobody => Spent(mem[r].refused)

\* Every request is answered: neither row locks nor other requests' checks,
\* failures and crashes keep it waiting (approval.go:143).
EveryRequestReturns == \A r \in Requests : r \in Open ~> r \notin Open
=============================================================================
