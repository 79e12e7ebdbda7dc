--------------------------- MODULE OperationLog ---------------------------
(***************************************************************************)
(* The admin service's operation log over RabbitMQ (admin/internal/mq):   *)
(* one process with a connection (client.go), a publisher and a consumer, *)
(* each with a channel of its own, and the handler that writes the rows.  *)
(* The broker is external: a main queue, a retry queue whose messages go  *)
(* back to the main queue when their time is up, and a dead-letter queue, *)
(* as topology.go declares them.                                          *)
(*                                                                         *)
(* Every copy of an event that the broker or the wire holds has a slot in *)
(* msg; a copy that is published again is a second slot.  Breaks of the   *)
(* connection, timeouts, refusals, crashes and shutdowns are faults, of   *)
(* which a behaviour has at most Faults.                                   *)
(***************************************************************************)
EXTENDS Naturals, FiniteSets

CONSTANTS
    Events,      \* operation-log events that callers publish
    Poison,      \* messages of other programs that do not decode
    Misfits,     \* those whose required fields are good all the same
    Slots,       \* bound: copies that exist at a time
    MaxRetries,  \* OperationLog.MaxRetries of the configuration
    Prefetch,    \* PrefetchCount
    Faults,      \* bound: things that go wrong
    Nobody       \* no slot, no holder

ASSUME LogAssumption ==
    /\ Slots \subseteq Nat
    /\ IsFiniteSet(Slots)
    /\ MaxRetries \in Nat /\ Prefetch \in Nat \ {0} /\ Faults \in Nat
    /\ Events \cap Poison = {} /\ Misfits \subseteq Poison
    /\ Nobody \notin Slots /\ Nobody \notin Events \cup Poison
    /\ Nobody \notin {"publisher", "consumer"}
    /\ "consumer" \notin Events

VARIABLES
    msg,       \* slot -> copy of a message, or Nobody
    dead,      \* events with a copy in the dead-letter queue, which nothing reads
    rows,      \* event -> rows with its event_id in operation_logs
    failures,  \* history: event -> times its handling failed, saturating
    call,      \* event -> where its call of Publish stands
    conn,      \* client: "open", "broken" or "closed" (Close was called)
    dialer,    \* who is past the checks of Reconnect and holds reconnectMu
    pubCh,     \* the publisher's channel: "none", "open" or "broken"
    pubClosed, \* Publisher.closed
    pub,       \* the publication that holds Publisher.mu, or Nobody
    conCh,     \* the consumer's channel
    con,       \* where the consumer's goroutine stands
    buffer,    \* slots delivered to the client and not yet taken
    cur,       \* the delivery the consumer is handling, or Nobody
    up,        \* "running", "stopping" (the context is cancelled), "down"
    faults     \* faults left

store == <<msg, dead, rows, failures>>
client == <<conn, dialer>>
publisher == <<pubCh, pubClosed, pub>>
consumer == <<conCh, con, buffer, cur>>
process == <<up, faults>>
vars == <<store, call, client, publisher, consumer, process>>

Sources == Events \cup Poison
Queues == {"main", "retry", "dead"}
Copy == [event : Sources, retries : 0..MaxRetries,
         at : {"main", "retry", "wire", "unacked"}, to : Queues]
Publication == [by : Events \cup {"consumer"}, event : Sources,
                retries : 0..MaxRetries, to : Queues,
                step : {"recover", "reconnect", "dial", "open", "send",
                        "wait", "acked", "nacked"},
                slot : Slots \cup {Nobody}]

Delivery == [slot : Slots, event : Sources, retries : 0..MaxRetries]

ASSUME NobodyAssumption == Nobody \notin Copy /\ Nobody \notin Publication /\ Nobody \notin Delivery

TypeOK ==
    /\ msg \in [Slots -> Copy \cup {Nobody}]
    /\ dead \subseteq Sources
    /\ rows \in [Events -> Nat]
    /\ failures \in [Events -> 0..(MaxRetries + 1)]
    /\ call \in [Sources -> {"new", "waiting", "busy", "ok", "failed"}]
    /\ conn \in {"open", "broken", "closed"}
    /\ dialer \in {Nobody, "publisher", "consumer"}
    /\ pubCh \in {"none", "open", "broken"}
    /\ pubClosed \in BOOLEAN
    /\ pub \in Publication \cup {Nobody}
    /\ conCh \in {"none", "open", "broken"}
    /\ con \in {"starting", "idle", "handling", "republish", "moving", "ack",
                "nack", "pausing", "reconnect", "dial", "stopped"}
    /\ buffer \subseteq Slots
    /\ cur \in Delivery \cup {Nobody}
    /\ up \in {"running", "stopping", "down"}
    /\ faults \in 0..Faults

Init ==
    /\ msg = [i \in Slots |-> Nobody]
    /\ dead = {}
    /\ rows = [e \in Events |-> 0]
    /\ failures = [e \in Events |-> 0]
    /\ call = [e \in Sources |-> "new"]
    /\ conn = "open" /\ dialer = Nobody
    /\ pubCh = "open" /\ pubClosed = FALSE /\ pub = Nobody
    /\ conCh = "none" /\ con = "starting" /\ buffer = {} /\ cur = Nobody
    /\ up = "running" /\ faults = Faults

----------------------------------------------------------------------------
(* The broker *)

Held(i, where) == msg[i] # Nobody /\ msg[i].at \in where

\* The least free slot: slots are names and carry no order of their own.
Fresh(i) == msg[i] = Nobody /\ \A j \in Slots : j < i => msg[j] # Nobody

\* A publication waits for the confirmation of the copy in slot i.
Awaits(i) == pub # Nobody /\ pub.step = "wait" /\ pub.slot = i

\* Another program publishes a message that cannot be decoded.
Foreign(p) ==
    /\ call[p] = "new"
    /\ \E i \in Slots :
          /\ Fresh(i)
          /\ msg' = [msg EXCEPT ![i] = [event |-> p, retries |-> 0,
                                        at |-> "main", to |-> "main"]]
    /\ call' = [call EXCEPT ![p] = "ok"]
    /\ UNCHANGED <<dead, rows, failures, client, publisher, consumer, process>>

\* The broker takes a copy off the wire and stores it; its confirmation
\* reaches the publication that waits for it, or is lost.
BrokerTakes(i) ==
    /\ Held(i, {"wire"})
    /\ IF msg[i].to = "dead"
       THEN dead' = dead \cup {msg[i].event} /\ msg' = [msg EXCEPT ![i] = Nobody]
       ELSE msg' = [msg EXCEPT ![i].at = msg[i].to] /\ UNCHANGED dead
    /\ \/ /\ pub' = IF Awaits(i) THEN [pub EXCEPT !.step = "acked"] ELSE pub
          /\ UNCHANGED faults
       \/ Awaits(i) /\ faults > 0 /\ faults' = faults - 1 /\ UNCHANGED pub
    /\ UNCHANGED <<rows, failures, call, client, pubCh, pubClosed, consumer, up>>

\* basic.nack: the broker could not store it.
BrokerRefuses(i) ==
    /\ Held(i, {"wire"}) /\ faults > 0
    /\ msg' = [msg EXCEPT ![i] = Nobody]
    /\ pub' = IF Awaits(i) THEN [pub EXCEPT !.step = "nacked"] ELSE pub
    /\ faults' = faults - 1
    /\ UNCHANGED <<dead, rows, failures, call, client, pubCh, pubClosed, consumer, up>>

\* The message's time in the retry queue is up.
Expire(i) ==
    /\ Held(i, {"retry"})
    /\ msg' = [msg EXCEPT ![i].at = "main"]
    /\ UNCHANGED <<dead, rows, failures, call, client, publisher, consumer, process>>

Unacked == {i \in Slots : Held(i, {"unacked"})}

Deliver(i) ==
    /\ conCh = "open" /\ Held(i, {"main"})
    /\ Cardinality(Unacked) < Prefetch
    /\ msg' = [msg EXCEPT ![i].at = "unacked"]
    /\ buffer' = buffer \cup {i}
    /\ UNCHANGED <<dead, rows, failures, call, client, publisher, conCh, con, cur, process>>

\* What a channel takes with it: copies on the publisher's wire are gone,
\* deliveries the consumer has not acknowledged go back to the queue.
WithoutWire(m) == [i \in Slots |-> IF Held(i, {"wire"}) THEN Nobody ELSE m[i]]
Requeued(m) ==
    [i \in Slots |-> IF Held(i, {"unacked"}) THEN [m[i] EXCEPT !.at = "main"] ELSE m[i]]

Broken(channel) == IF channel = "open" THEN "broken" ELSE channel

\* amqp091 resolves the confirmations of a dead channel as not acknowledged.
Unconfirmed == IF pub # Nobody /\ pub.step = "wait" THEN [pub EXCEPT !.step = "nacked"] ELSE pub

\* Both channels die with their connection.
Sever ==
    /\ msg' = Requeued(WithoutWire(msg))
    /\ pubCh' = Broken(pubCh) /\ conCh' = Broken(conCh)

BreakConnection ==
    /\ conn = "open" /\ faults > 0
    /\ conn' = "broken" /\ Sever /\ pub' = Unconfirmed
    /\ faults' = faults - 1
    /\ UNCHANGED <<dead, rows, failures, call, dialer, pubClosed, con, buffer, cur, up>>

BreakPublisherChannel ==
    /\ pubCh = "open" /\ faults > 0
    /\ pubCh' = "broken" /\ msg' = WithoutWire(msg) /\ pub' = Unconfirmed
    /\ faults' = faults - 1
    /\ UNCHANGED <<dead, rows, failures, call, client, pubClosed, consumer, up>>

BreakConsumerChannel ==
    /\ conCh = "open" /\ faults > 0
    /\ conCh' = "broken" /\ msg' = Requeued(msg)
    /\ faults' = faults - 1
    /\ UNCHANGED <<dead, rows, failures, call, client, publisher, con, buffer, cur, up>>

----------------------------------------------------------------------------
(* The client: Reconnect, for the publisher and for the consumer *)

Cancelled == up = "stopping"

\* The new connection replaces the old one, which is closed if it still
\* lives: with it go the channels on it.
Swap ==
    /\ conn' = "open" /\ dialer' = Nobody
    /\ IF conn = "open" THEN Sever ELSE UNCHANGED <<msg, pubCh, conCh>>

\* Variant: Reconnect dials without looking at the connection it has.
NeverReusable == FALSE

\* The checks under reconnectMu: done when somebody else has reconnected.
Reusable == conn = "open"

----------------------------------------------------------------------------
(* Publish and Republish *)

\* Variant: one retry too few.
ExhaustedEarly(retries) == retries + 1 >= MaxRetries

\* The consumer's bound on retries.
Exhausted(retries) == retries >= MaxRetries

\* Unmarshal goes on after a field of the wrong type: Validate, called on what
\* it has filled in, finds fault with the other undecodable messages only, so a
\* misfit is retried, unlike what the comment at consumer.go:134 says.
Invalid(e) == e \in Poison \ Misfits

\* Variant: the retry keeps the count of the delivery.
SubstituteUncounted ==
    [event |-> cur.event, retries |-> cur.retries,
     to |-> IF Invalid(cur.event) \/ Exhausted(cur.retries) THEN "dead" ELSE "retry"]

\* What the consumer publishes instead of the delivery it holds: a retry
\* while its retries last, and otherwise, or when it is invalid, a dead letter.
Substitute ==
    IF Invalid(cur.event) \/ Exhausted(cur.retries)
    THEN [event |-> cur.event, retries |-> cur.retries, to |-> "dead"]
    ELSE [event |-> cur.event, retries |-> cur.retries + 1, to |-> "retry"]

Start(by, p) ==
    [by |-> by, event |-> p.event, retries |-> p.retries, to |-> p.to,
     step |-> IF pubCh = "open" THEN "send" ELSE "recover", slot |-> Nobody]

\* A caller, also one whose earlier call returned an error.
Request(e) ==
    /\ up # "down" /\ call[e] \in {"new", "failed"}
    /\ call' = [call EXCEPT ![e] = "waiting"]
    /\ UNCHANGED <<store, client, publisher, consumer, process>>

LockForCaller(e) ==
    /\ call[e] = "waiting" /\ pub = Nobody
    /\ \/ /\ pubClosed
          /\ call' = [call EXCEPT ![e] = "failed"]
          /\ UNCHANGED pub
       \/ /\ ~pubClosed
          /\ pub' = Start(e, [event |-> e, retries |-> 0, to |-> "main"])
          /\ call' = [call EXCEPT ![e] = "busy"]
    /\ UNCHANGED <<store, client, pubCh, pubClosed, consumer, process>>

LockForConsumer ==
    /\ con = "republish" /\ pub = Nobody
    /\ \/ pubClosed /\ con' = "nack" /\ UNCHANGED pub
       \/ ~pubClosed /\ con' = "moving" /\ pub' = Start("consumer", Substitute)
    /\ UNCHANGED <<store, call, client, pubCh, pubClosed, conCh, buffer, cur, process>>

At(step) == pub # Nobody /\ pub.step = step
GoTo(step) == pub' = [pub EXCEPT !.step = step]

\* Variant: a republication without confirmation counts as one with it.
FinishUnchecked(ok) ==
    /\ pub' = Nobody
    /\ IF pub.by = "consumer"
       THEN con' = "ack" /\ UNCHANGED call
       ELSE call' = [call EXCEPT ![pub.by] = IF ok THEN "ok" ELSE "failed"] /\ UNCHANGED con

\* publish returns: the consumer acknowledges its delivery only when the
\* substitute is confirmed.
Finish(ok) ==
    /\ pub' = Nobody
    /\ IF pub.by = "consumer"
       THEN con' = (IF ok THEN "ack" ELSE "nack") /\ UNCHANGED call
       ELSE call' = [call EXCEPT ![pub.by] = IF ok THEN "ok" ELSE "failed"] /\ UNCHANGED con

Recover ==
    /\ At("recover")
    /\ pubCh' = "none"
    /\ GoTo(IF conn = "open" THEN "open" ELSE "reconnect")
    /\ UNCHANGED <<store, call, client, pubClosed, consumer, process>>

PublisherReconnect ==
    /\ At("reconnect") /\ dialer = Nobody
    /\ \/ /\ conn = "closed" \/ (conn = "broken" /\ pub.by = "consumer" /\ Cancelled)
          /\ Finish(FALSE) /\ UNCHANGED dialer
       \/ Reusable /\ GoTo("open") /\ UNCHANGED <<dialer, call, con>>
       \/ /\ conn # "closed" /\ ~Reusable /\ ~(pub.by = "consumer" /\ Cancelled)
          /\ dialer' = "publisher" /\ GoTo("dial") /\ UNCHANGED <<call, con>>
    /\ UNCHANGED <<store, conn, pubCh, pubClosed, conCh, buffer, cur, process>>

PublisherDial ==
    /\ At("dial")
    /\ \/ Swap /\ GoTo("open") /\ UNCHANGED <<call, con, faults>>
       \/ /\ faults > 0 /\ faults' = faults - 1
          /\ dialer' = Nobody /\ Finish(FALSE)
          /\ UNCHANGED <<msg, conn, pubCh, conCh>>
    /\ UNCHANGED <<dead, rows, failures, pubClosed, buffer, cur, up>>

\* The channel, the topology and confirm mode.
OpenPublisherChannel ==
    /\ At("open")
    /\ \/ /\ conn = "open"
          /\ pubCh' = "open" /\ GoTo("send") /\ UNCHANGED <<call, con>>
       \/ conn # "open" /\ Finish(FALSE) /\ UNCHANGED pubCh
    /\ UNCHANGED <<store, client, pubClosed, conCh, buffer, cur, process>>

Send ==
    /\ At("send")
    /\ \/ /\ pubCh = "open"
          /\ \E i \in Slots :
                /\ Fresh(i)
                /\ msg' = [msg EXCEPT ![i] = [event |-> pub.event, retries |-> pub.retries,
                                              at |-> "wire", to |-> pub.to]]
                /\ pub' = [pub EXCEPT !.step = "wait", !.slot = i]
          /\ UNCHANGED <<call, con, pubCh>>
       \/ pubCh # "open" /\ pubCh' = "none" /\ Finish(FALSE) /\ UNCHANGED msg
    /\ UNCHANGED <<dead, rows, failures, client, pubClosed, conCh, buffer, cur, process>>

Confirmed ==
    /\ At("acked") \/ At("nacked")
    /\ Finish(pub.step = "acked")
    /\ UNCHANGED <<store, client, pubCh, pubClosed, conCh, buffer, cur, process>>

\* Variant: the wait has no timeout of its own.
GiveUpWhenCancelled ==
    /\ At("wait") \/ At("acked")
    /\ pub.by = "consumer" /\ Cancelled
    /\ Finish(FALSE)
    /\ UNCHANGED <<store, client, pubCh, pubClosed, conCh, buffer, cur, process>>

\* The confirmation was lost or is late, or the context is cancelled.  The
\* copy stays on the wire, or in the queue it has reached.
GiveUp ==
    /\ At("wait") \/ At("acked")
    /\ \/ pub.by = "consumer" /\ Cancelled /\ UNCHANGED faults
       \/ At("wait") /\ ~Held(pub.slot, {"wire"}) /\ UNCHANGED faults
       \/ faults > 0 /\ faults' = faults - 1
    /\ Finish(FALSE)
    /\ UNCHANGED <<store, client, pubCh, pubClosed, conCh, buffer, cur, up>>

----------------------------------------------------------------------------
(* The consumer: Start, consume and handleDelivery *)

OpenConsumer ==
    /\ con = "starting"
    /\ \/ conn = "open" /\ conCh' = "open" /\ con' = "idle"
       \/ conn # "open" /\ UNCHANGED conCh /\ con' = IF Cancelled THEN "stopped" ELSE "pausing"
    /\ UNCHANGED <<store, call, client, publisher, buffer, cur, process>>

\* The client hands out what it has buffered, also after the channel has
\* died: the broker has queued those messages again.  The select prefers
\* neither a delivery nor the end of the context; every delivery handled
\* after that end may leave one more copy (bound: Room).
Room == Cardinality({i \in Slots : msg[i] = Nobody}) >= faults + 3

Take(i) ==
    /\ con = "idle" /\ i \in buffer /\ (Cancelled => Room)
    /\ con' = "handling" /\ buffer' = buffer \ {i}
    /\ cur' = [slot |-> i, event |-> msg[i].event, retries |-> msg[i].retries]
    /\ UNCHANGED <<store, call, client, publisher, conCh, process>>

\* The deliveries end, or the context does: consume returns and closes its
\* channel.
Interrupted ==
    /\ con = "idle" /\ (conCh = "broken" \/ Cancelled)
    /\ con' = IF Cancelled THEN "stopped" ELSE "pausing"
    /\ conCh' = "none" /\ buffer' = {} /\ msg' = Requeued(msg)
    /\ UNCHANGED <<dead, rows, failures, call, client, publisher, cur, process>>

\* Variant: an insert without the conflict clause, on a column that is not unique.
InsertAgain(r, e) == [r EXCEPT ![e] = @ + 1]

\* The insert: a second row with the event's id does nothing.
OnConflict(r, e) == IF r[e] > 0 THEN r ELSE [r EXCEPT ![e] = 1]

\* One more failed handling of e (history).
Blamed(e) == [failures EXCEPT ![e] = IF @ > MaxRetries THEN @ ELSE @ + 1]

Handle ==
    /\ con = "handling"
    /\ \/ cur.event \in Poison /\ con' = "republish" /\ UNCHANGED <<dead, rows, failures>>
       \/ /\ cur.event \in Events
          /\ rows' = OnConflict(rows, cur.event)
          /\ con' = "ack" /\ UNCHANGED failures
       \/ /\ cur.event \in Events   \* the database fails, before or after it has written
          /\ rows' \in {rows, OnConflict(rows, cur.event)}
          /\ failures' = Blamed(cur.event)
          /\ con' = "republish"
    /\ UNCHANGED <<msg, dead, call, client, publisher, conCh, buffer, cur, process>>

\* Ack and Nack(requeue) reach the broker only over the delivery's channel.
Ack ==
    /\ con = "ack"
    /\ msg' = IF conCh = "open" THEN [msg EXCEPT ![cur.slot] = Nobody] ELSE msg
    /\ con' = "idle" /\ cur' = Nobody
    /\ UNCHANGED <<dead, rows, failures, call, client, publisher, conCh, buffer, process>>

Nack ==
    /\ con = "nack"
    /\ msg' = IF conCh = "open" THEN [msg EXCEPT ![cur.slot].at = "main"] ELSE msg
    /\ con' = "idle" /\ cur' = Nobody
    /\ UNCHANGED <<dead, rows, failures, call, client, publisher, conCh, buffer, process>>

Pause ==
    /\ con = "pausing"
    /\ con' = IF Cancelled THEN "stopped" ELSE "reconnect"
    /\ UNCHANGED <<store, call, client, publisher, conCh, buffer, cur, process>>

ConsumerReconnect ==
    /\ con = "reconnect" /\ dialer = Nobody
    /\ \/ conn = "closed" /\ con' = "stopped" /\ UNCHANGED dialer
       \/ (Reusable \/ (conn = "broken" /\ Cancelled)) /\ con' = "starting" /\ UNCHANGED dialer
       \/ conn # "closed" /\ ~Reusable /\ ~Cancelled /\ con' = "dial" /\ dialer' = "consumer"
    /\ UNCHANGED <<store, call, conn, publisher, conCh, buffer, cur, process>>

ConsumerDial ==
    /\ con = "dial"
    /\ con' = "starting"
    /\ \/ Swap /\ pub' = Unconfirmed /\ UNCHANGED faults
       \/ /\ faults > 0 /\ faults' = faults - 1
          /\ dialer' = Nobody /\ UNCHANGED <<msg, conn, pubCh, conCh, pub>>
    /\ UNCHANGED <<dead, rows, failures, call, pubClosed, buffer, cur, up>>

----------------------------------------------------------------------------
(* The process: shutdown, crash and restart *)

Shutdown ==
    /\ up = "running" /\ faults > 0
    /\ up' = "stopping" /\ faults' = faults - 1
    /\ UNCHANGED <<store, call, client, publisher, consumer>>

\* The deferred Publisher.Close waits for the publication under way.
ClosePublisher ==
    /\ up = "stopping" /\ ~pubClosed /\ pub = Nobody
    /\ pubClosed' = TRUE /\ pubCh' = "none"
    /\ UNCHANGED <<store, call, client, pub, consumer, process>>

\* The deferred Client.Close.  The consumer's goroutine may still run.
CloseClient ==
    /\ up = "stopping" /\ pubClosed /\ conn # "closed" /\ dialer = Nobody
    /\ conn' = "closed" /\ Sever /\ pub' = Unconfirmed
    /\ UNCHANGED <<dead, rows, failures, call, dialer, pubClosed, con, buffer, cur, process>>

\* The process is gone, and with it its connection and every call.
Die ==
    /\ up' = "down"
    /\ msg' = Requeued(WithoutWire(msg))
    /\ call' = [e \in Sources |-> IF call[e] \in {"waiting", "busy"} THEN "failed" ELSE call[e]]
    /\ conn' = "closed" /\ dialer' = Nobody
    /\ pubCh' = "none" /\ pubClosed' = TRUE /\ pub' = Nobody
    /\ conCh' = "none" /\ con' = "stopped" /\ buffer' = {} /\ cur' = Nobody
    /\ UNCHANGED <<dead, rows, failures>>

Crash == up # "down" /\ faults > 0 /\ faults' = faults - 1 /\ Die
Exit == up = "stopping" /\ conn = "closed" /\ Die /\ UNCHANGED faults

\* NewClient, NewPublisher and NewConsumer of the next start.
Restart ==
    /\ up = "down"
    /\ up' = "running" /\ conn' = "open" /\ pubCh' = "open" /\ pubClosed' = FALSE
    /\ con' = "starting"
    /\ UNCHANGED <<store, call, dialer, pub, conCh, buffer, cur, faults>>

----------------------------------------------------------------------------
Publishing ==
    \/ Recover \/ PublisherReconnect \/ PublisherDial \/ OpenPublisherChannel
    \/ Send \/ Confirmed \/ GiveUp

Consuming ==
    \/ LockForConsumer \/ OpenConsumer \/ Interrupted \/ Handle \/ Ack \/ Nack
    \/ Pause \/ ConsumerReconnect \/ ConsumerDial
    \/ \E i \in Slots : Take(i)

Broker ==
    \/ \E p \in Poison : Foreign(p)
    \/ \E i \in Slots : BrokerTakes(i) \/ BrokerRefuses(i) \/ Expire(i) \/ Deliver(i)
    \/ BreakConnection \/ BreakPublisherChannel \/ BreakConsumerChannel

Process == Shutdown \/ ClosePublisher \/ CloseClient \/ Exit \/ Crash \/ Restart

Next ==
    \/ \E e \in Events : Request(e) \/ LockForCaller(e)
    \/ Publishing \/ Consuming \/ Broker \/ Process

Spec == Init /\ [][Next]_vars

\* Goroutines run, and sync.Mutex does not starve who waits for it.  The
\* broker takes, delivers and expires what it holds, and a process that has
\* stopped is started again.  Nobody has to call Publish.
FairSpec ==
    /\ Spec
    /\ WF_vars(Publishing) /\ SF_vars(PublisherReconnect)
    /\ WF_vars(Consuming) /\ SF_vars(LockForConsumer) /\ SF_vars(ConsumerReconnect)
    /\ \A e \in Events : SF_vars(LockForCaller(e))
    /\ \A i \in Slots : WF_vars(BrokerTakes(i)) /\ WF_vars(Expire(i)) /\ WF_vars(Deliver(i))
    /\ SF_vars(ClosePublisher) /\ WF_vars(CloseClient \/ Exit \/ Restart)

----------------------------------------------------------------------------
\* An event whose Publish returned nil is never lost: it has its row or the
\* broker holds a copy, through refused and unconfirmed republications,
\* acknowledgements that fail, broken channels, shutdowns and crashes
\* (publisher.go:144, consumer.go:151).
Stored(e) == e \in Events /\ rows[e] > 0
InBroker(e) ==
    e \in dead \/ \E i \in Slots : Held(i, {"main", "retry", "unacked"}) /\ msg[i].event = e

NothingLost == \A e \in Sources : call[e] = "ok" => Stored(e) \/ InBroker(e)

\* The ledger that publishers and readers of the log see.
Ledger == INSTANCE EventLedger WITH
    accepted <- {e \in Sources : call[e] = "ok"},
    queued   <- {e \in Sources : \E i \in Slots :
                    Held(i, {"main", "retry", "unacked"}) /\ msg[i].event = e},
    stored   <- {e \in Events : rows[e] > 0},
    buried   <- dead

\* Copies, confirmations and acknowledgements amount to the ledger's atomic
\* operations: the last copy of an event, also of one whose Publish failed,
\* is acknowledged only when the event is stored or a dead letter
\* (consumer.go:125), nothing is stored or buried that was never queued, and
\* what is accepted or settled stays so.
ImplementsLedger == Ledger!Spec

\* However often an event is delivered again, it has at most one row
\* (repository/operation_log.go:43).
OneRow == \A e \in Events : rows[e] <= 1

\* A valid event reaches the dead-letter queue only after its handling has
\* failed on the first delivery and on every retry: neither duplicates nor
\* republications that went wrong use its retries up (consumer.go:144).
DeadLetterEarned == \A e \in Events \cap dead : failures[e] > MaxRetries

\* After Publisher.Close has returned the publisher has no channel, although
\* the consumer may still be republishing (publisher.go:192).
ClosedForGood == pubClosed => pubCh = "none"

\* A reconnection never costs the other party its working channel: channels
\* die of faults and of Close alone (client.go:96).
SessionsKept ==
    [][(pubCh = "open" /\ pubCh' = "broken") \/ (conCh = "open" /\ conCh' = "broken")
       => faults' < faults \/ conn' = "closed"]_vars

\* Every accepted event, and every message that does not decode, ends in the
\* table or in the dead-letter queue, however often its handling fails.
EverySettles == \A e \in Sources : call[e] = "ok" ~> Stored(e) \/ e \in dead

\* A call of Publish returns: it waits for the mutex, for a reconnection and
\* for the confirmation, and none of them keeps it for ever (publisher.go:121).
PublishReturns == \A e \in Events : call[e] \in {"waiting", "busy"} ~> call[e] \in {"ok", "failed"}
=============================================================================
