---------------------------- MODULE UserAccounts ----------------------------
(***************************************************************************)
(* First logins at the user service: InitializeUser of every process, with *)
(* its Snowflake generator (user/internal/idgen/snowflake.go), the         *)
(* repository (user/internal/repository/user.go) and the tables that hold   *)
(* an account: the identity index and the shards of users.                 *)
(*                                                                         *)
(* A node is a process; its clock moves by itself and may be set back.     *)
(* PostgreSQL is external: an insert waits for the transaction that has    *)
(* written the same key and is not committed.                              *)
(***************************************************************************)
EXTENDS Integers

CONSTANTS
    Nodes,        \* node IDs
    Subjects,     \* Keycloak subjects
    Logins,       \* requests
    Sequences,    \* ids of a millisecond
    Capacity,     \* milliseconds that a timestamp can count from the epoch
    Shards,       \* shards of users
    MaxClock,     \* bound: the last millisecond of a clock
    Mishaps,      \* bound: clocks set back, restarts, statements that fail
    Nothing

Timestamps == 0 .. Capacity - 1
Ids == [at : Timestamps, node : Nodes, seq : 0 .. Sequences - 1]

ASSUME AccountsAssumption ==
    /\ Nodes \subseteq Nat /\ Mishaps \in Nat /\ MaxClock \in Nat
    /\ Sequences \in Nat \ {0} /\ Capacity \in Nat /\ Shards \in Nat \ {0}
    /\ Nothing \notin Ids \cup Nodes

VARIABLES
    clock,        \* a node's time, counted from the epoch
    last,         \* lastMillis of its generator
    sequence,     \* the generator's sequence
    starts,       \* how often the node has been started again
    spent,        \* generators, as <<node, starts>>, that ran out of timestamps
    login,        \* where each request stands
    users,        \* rows of the shards
    identities,   \* rows of the index
    replicas,     \* configuration: reads go to replicas, which may lag
    mishaps       \* bound left

generatorVars == <<last, sequence, spent>>
accountRows == <<users, identities>>
accountVars == <<clock, starts, generatorVars, login, accountRows, replicas, mishaps>>

Login == [step : {"idle", "spin", "find", "read", "insert", "index", "commit",
                  "refind", "reread", "served", "refused", "lost"},
          subject : Subjects \cup {Nothing}, node : Nodes \cup {Nothing},
          starts : Nat, id : Ids \cup {Nothing}, answer : Ids \cup {Nothing}]

AccountsInit ==
    /\ clock \in [Nodes -> {-1, 0}]
    /\ last = [n \in Nodes |-> -1] /\ sequence = [n \in Nodes |-> 0]
    /\ starts = [n \in Nodes |-> 0] /\ spent = {}
    /\ login = [l \in Logins |-> [step |-> "idle", subject |-> Nothing, node |-> Nothing,
                                  starts |-> 0, id |-> Nothing, answer |-> Nothing]]
    /\ users = {} /\ identities = {}
    /\ replicas \in BOOLEAN /\ mishaps = Mishaps

Mishap == mishaps > 0 /\ mishaps' = mishaps - 1
Goto(l, step) == login' = [login EXCEPT ![l].step = step]
ServeAccount(l, id) == login' = [login EXCEPT ![l].step = "served", ![l].answer = id]

----------------------------------------------------------------------------
(* The generator *)

Tick(n) ==
    /\ clock[n] < MaxClock
    /\ clock' = [clock EXCEPT ![n] = @ + 1]
    /\ UNCHANGED <<starts, generatorVars, login, accountRows, replicas, mishaps>>

SetBack(n) ==
    /\ Mishap /\ \E t \in -1 .. clock[n] - 1 : clock' = [clock EXCEPT ![n] = t]
    /\ UNCHANGED <<starts, generatorVars, login, accountRows, replicas>>

\* Variant: the clock is trusted.
BackwardsNever(n) == FALSE

Backwards(n) == clock[n] < last[n]

NextSequence(n) == IF clock[n] = last[n] THEN (sequence[n] + 1) % Sequences ELSE 0

\* The sequence has wrapped: the generator waits, holding its lock.
Wraps(n) == clock[n] = last[n] /\ NextSequence(n) = 0

\* The timestamps are exhausted, though the sequence has been advanced, or the
\* request, now entry, has an id of what the clock shows.
Take(l, entry, n, seq) ==
    IF clock[n] >= Capacity
    THEN /\ spent' = spent \cup {<<n, starts[n]>>}
         /\ login' = [login EXCEPT ![l] =
                        [entry EXCEPT !.step = "refused"]]
         /\ UNCHANGED last
    ELSE /\ last' = [last EXCEPT ![n] = clock[n]]
         /\ login' = [login EXCEPT ![l] =
                        [entry EXCEPT !.step = "find",
                            !.id = [at |-> clock[n], node |-> n, seq |-> seq]]]
         /\ UNCHANGED spent

\* NextID, up to the wait
Draw(l, s, n) ==
    /\ login[l].step = "idle"
    /\ \A m \in Logins : ~(login[m].step = "spin" /\ login[m].node = n)
    /\ LET entry == [login[l] EXCEPT !.subject = s, !.node = n, !.starts = starts[n]]
       IN  \/ /\ clock[n] < 0 \/ Backwards(n)
              /\ login' = [login EXCEPT ![l] = [entry EXCEPT !.step = "refused"]]
              /\ UNCHANGED generatorVars
           \/ /\ clock[n] >= 0 /\ ~Backwards(n)
              /\ sequence' = [sequence EXCEPT ![n] = NextSequence(n)]
              /\ IF Wraps(n)
                 THEN /\ login' = [login EXCEPT ![l] = [entry EXCEPT !.step = "spin"]]
                      /\ UNCHANGED <<last, spent>>
                 ELSE Take(l, entry, n, NextSequence(n))
    /\ UNCHANGED <<clock, starts, accountRows, replicas, mishaps>>

\* waitUntilNextMilli, and the rest of NextID
EndOfWait(l) ==
    LET n == login[l].node IN
    /\ login[l].step = "spin" /\ clock[n] > last[n]
    /\ Take(l, login[l], n, sequence[n])
    /\ UNCHANGED <<clock, starts, sequence, accountRows, replicas, mishaps>>

----------------------------------------------------------------------------
(* FindOrCreateBySubject *)

\* What a SELECT may see: a lagging replica may not have the row.
MaySee(found) == {found} \cup (IF replicas THEN {{}} ELSE {})

\* The subject is not found: the account is created, or, after a failed
\* transaction, its error is returned.
NotFound(l) == Goto(l, IF login[l].step \in {"find", "read"} THEN "insert" ELSE "refused")

\* FindBySubject, the index
Find(l) ==
    /\ login[l].step \in {"find", "refind"}
    /\ \E seen \in MaySee({r \in identities : r.subject = login[l].subject}) :
          \/ seen = {} /\ NotFound(l)
          \/ \E r \in seen :
                login' = [login EXCEPT ![l].step = IF @ = "find" THEN "read" ELSE "reread",
                                       ![l].answer = r.id]
    /\ UNCHANGED <<clock, starts, generatorVars, accountRows, replicas, mishaps>>

\* FindBySubject, the shard; a replica may have the one row and not the other.
Read(l) ==
    /\ login[l].step \in {"read", "reread"}
    /\ \E seen \in MaySee({u \in users : u.id = login[l].answer}) :
          IF seen = {} THEN NotFound(l) ELSE ServeAccount(l, login[l].answer)
    /\ UNCHANGED <<clock, starts, generatorVars, accountRows, replicas, mishaps>>

Shard(id) == id.seq % Shards
Positive(id) == id.at > 0 \/ id.node > 0 \/ id.seq > 0
Row(l) == [id |-> login[l].id, subject |-> login[l].subject, shard |-> Shard(login[l].id)]

\* Rows that another transaction has written and not committed
PendingUsers(l) == {Row(m) : m \in {k \in Logins \ {l} : login[k].step \in {"index", "commit"}}}
PendingIdentities(l) == {Row(m) : m \in {k \in Logins \ {l} : login[k].step = "commit"}}

\* Variant: the two inserts are no transaction.
AbortOnlyIndex(l) ==
    /\ Goto(l, "refind")
    /\ users' = IF login[l].step = "insert" THEN users ELSE users \cup {Row(l)}
    /\ UNCHANGED identities

\* The transaction is rolled back, and the winner looked up.
Abort(l) == Goto(l, "refind") /\ UNCHANGED accountRows

\* The row of the user, in the shard of its id; an id of zero has no shard.
InsertUser(l) ==
    LET row == Row(l) IN
    /\ login[l].step = "insert"
    /\ \A u \in PendingUsers(l) : u.id # row.id
    /\ IF Positive(row.id) /\ \A u \in users : u.id # row.id
       THEN Goto(l, "index") /\ UNCHANGED accountRows ELSE Abort(l)
    /\ UNCHANGED <<clock, starts, generatorVars, replicas, mishaps>>

Clash(r, q) == r.subject = q.subject \/ r.id = q.id

\* The row of the index, unique by subject and by id.
InsertIdentity(l) ==
    /\ login[l].step = "index"
    /\ \A r \in PendingIdentities(l) : ~Clash(r, Row(l))
    /\ IF \A r \in identities : ~Clash(r, Row(l))
       THEN Goto(l, "commit") /\ UNCHANGED accountRows ELSE Abort(l)
    /\ UNCHANGED <<clock, starts, generatorVars, replicas, mishaps>>

\* The transaction commits; its answer may be lost.
Commit(l) ==
    /\ login[l].step = "commit"
    /\ users' = users \cup {Row(l)} /\ identities' = identities \cup {Row(l)}
    /\ \/ ServeAccount(l, login[l].id) /\ UNCHANGED mishaps
       \/ Mishap /\ Goto(l, "refind")
    /\ UNCHANGED <<clock, starts, generatorVars, replicas>>

\* A statement fails, in the transaction or outside it.
Fail(l) ==
    /\ Mishap
    /\ \/ login[l].step \in {"insert", "index", "commit"} /\ Abort(l)
       \/ login[l].step \in {"find", "read", "refind", "reread"}
          /\ Goto(l, "refused") /\ UNCHANGED accountRows
    /\ UNCHANGED <<clock, starts, generatorVars, replicas>>

\* A process dies, its transactions with it, and starts with a new generator.
Restart(n) ==
    /\ Mishap
    /\ starts' = [starts EXCEPT ![n] = @ + 1]
    /\ last' = [last EXCEPT ![n] = -1] /\ sequence' = [sequence EXCEPT ![n] = 0]
    /\ login' = [l \in Logins |->
                    IF login[l].node = n /\ login[l].step \notin {"served", "refused"}
                    THEN [login[l] EXCEPT !.step = "lost"] ELSE login[l]]
    /\ UNCHANGED <<clock, spent, accountRows, replicas>>

AccountsNext ==
    \/ \E n \in Nodes : Tick(n) \/ SetBack(n) \/ Restart(n)
    \/ \E l \in Logins :
         \/ \E s \in Subjects, n \in Nodes : Draw(l, s, n)
         \/ EndOfWait(l) \/ Find(l) \/ Read(l)
         \/ InsertUser(l) \/ InsertIdentity(l) \/ Commit(l) \/ Fail(l)

AccountsSpec == AccountsInit /\ [][AccountsNext]_accountVars

----------------------------------------------------------------------------
(* Properties *)

AccountRow == [id : Ids, subject : Subjects, shard : 0 .. Shards - 1]

\* The clock is an integer, the generators are in range, a request has what its
\* step needs (idgen/snowflake.go:33, model of the rows in repository/user.go).
AccountTypes ==
    /\ clock \in [Nodes -> Int] /\ last \in [Nodes -> Timestamps \cup {-1}]
    /\ sequence \in [Nodes -> 0 .. Sequences - 1]
    /\ starts \in [Nodes -> Nat] /\ spent \subseteq Nodes \X Nat
    /\ login \in [Logins -> Login]
    /\ users \subseteq AccountRow /\ identities \subseteq AccountRow
    /\ replicas \in BOOLEAN /\ mishaps \in 0 .. Mishaps

\* No id is given twice by one life of a generator, whatever its clock does,
\* until it has run out of timestamps (idgen/snowflake.go:59: unique, or an
\* error when the clock moves backwards).
IdsUnique ==
    \A l, m \in Logins :
        /\ login[l].id # Nothing /\ login[l].id = login[m].id
        /\ login[l].starts = login[m].starts
        /\ <<login[l].node, login[l].starts>> \notin spent
        => l = m

\* A subject has one account: its row of the index and its row of a shard come
\* together, under one id, and that id is what every login of the subject is
\* answered with, the ones that lost the race included (repository/user.go:92).
OneAccount ==
    /\ users = identities
    /\ \A r, q \in identities : Clash(r, q) => r = q
    /\ \A l \in Logins : login[l].step = "served" =>
         \E r \in identities : r.subject = login[l].subject /\ r.id = login[l].answer
=============================================================================
