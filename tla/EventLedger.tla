---------------------------- MODULE EventLedger ----------------------------
(***************************************************************************)
(* What the operation log promises for its events, as atomic operations:   *)
(* an event comes into the queues, is settled by a row or by a dead        *)
(* letter, and leaves the queues only when it is settled.  OperationLog    *)
(* implements it with copies, confirmations and acknowledgements.          *)
(***************************************************************************)
CONSTANT Sources

VARIABLES
    accepted,  \* the events whose publisher has been told so
    queued,    \* those with a copy that the broker will deliver
    stored,    \* those with a row in operation_logs
    buried     \* those in the dead-letter queue

vars == <<accepted, queued, stored, buried>>

Init == accepted = {} /\ queued = {} /\ stored = {} /\ buried = {}

Settled == stored \cup buried
Known   == queued \cup Settled

\* A copy reaches a queue: the first, a retry, or the late copy of a
\* publication that nobody waits for any more.
Enqueue(e) ==
    /\ queued' = queued \cup {e}
    /\ UNCHANGED <<accepted, stored, buried>>

\* Only what the broker has is accepted.
Accept(e) ==
    /\ e \in Known
    /\ accepted' = accepted \cup {e}
    /\ UNCHANGED <<queued, stored, buried>>

\* Another program puts a message into the queue.
Deposit(e) ==
    /\ queued' = queued \cup {e} /\ accepted' = accepted \cup {e}
    /\ UNCHANGED <<stored, buried>>

\* The row is written while the delivery is still held.
Store(e) ==
    /\ e \in queued
    /\ stored' = stored \cup {e}
    /\ UNCHANGED <<accepted, queued, buried>>

Bury(e) ==
    /\ e \in Known
    /\ buried' = buried \cup {e}
    /\ UNCHANGED <<accepted, queued, stored>>

\* The last copy is acknowledged.
Leave(e) ==
    /\ e \in queued \cap Settled
    /\ queued' = queued \ {e}
    /\ UNCHANGED <<accepted, stored, buried>>

Next == \E e \in Sources :
    Enqueue(e) \/ Accept(e) \/ Deposit(e) \/ Store(e) \/ Bury(e) \/ Leave(e)

Spec == Init /\ [][Next]_vars
=============================================================================
