------------------------ MODULE OperationLog_proofs ------------------------
(***************************************************************************)
(* Proofs about OperationLog, for every set of events, foreign messages    *)
(* and slots, and every number of retries, prefetched messages and faults. *)
(*                                                                         *)
(* Five layers, each inductive with the help of the ones before:           *)
(*   1. HeldInv: types, and that the broker still holds every delivery the *)
(*      client has not acknowledged;                                       *)
(*   2. KeepInv: a publication that is confirmed, and a delivery about to  *)
(*      be acknowledged, are safe in another place;                        *)
(*   3. SessionInv: who dials holds reconnectMu and has found the          *)
(*      connection broken, a closed publisher publishes nothing, and no    *)
(*      event has two rows;                                                *)
(*   4. RetryInv: every copy stands for as many failed handlings as it     *)
(*      counts retries;                                                    *)
(*   5. CourierInv: what is on its way to the dead-letter queue is safe    *)
(*      already, and who publishes is still waited for.                    *)
(***************************************************************************)
EXTENDS OperationLog, TLAPS

----------------------------------------------------------------------------
(* Layer 1: types and deliveries *)

Messages == [Slots -> Copy \cup {Nobody}]

\* The consumer is in handleDelivery.
Busy == con \in {"handling", "republish", "moving", "ack", "nack"}

\* Outside its loop the consumer has neither a channel nor deliveries.
PhaseInv == con \notin {"idle", "handling", "republish", "moving", "ack", "nack"} =>
                conCh = "none" /\ buffer = {}

\* The broker holds what the client has not acknowledged, queued again if
\* the channel has died.
CurInv ==
    Busy => /\ cur # Nobody
            /\ Held(cur.slot, {"main", "unacked"})
            /\ msg[cur.slot].event = cur.event
            /\ conCh = "open" => msg[cur.slot].at = "unacked"
            /\ cur.slot \notin buffer

BufferInv == \A i \in buffer :
                Held(i, {"main", "unacked"}) /\ (conCh = "open" => msg[i].at = "unacked")

\* The consumer waits for its own publication, and a process that is down
\* does nothing.
HolderInv ==
    /\ pub # Nobody /\ pub.by = "consumer" => con = "moving"
    /\ up = "down" => con = "stopped" /\ pub = Nobody /\ pubClosed

HeldInv == TypeOK /\ PhaseInv /\ CurInv /\ BufferInv /\ HolderInv

LEMMA HeldInit == Init => HeldInv
<1> SUFFICES ASSUME Init PROVE HeldInv
  OBVIOUS
<1>1. /\ failures \in [Events -> 0..(MaxRetries + 1)]
      /\ faults \in 0..Faults
      /\ rows \in [Events -> Nat]
  BY LogAssumption DEF Init
<1>2. TypeOK
  BY <1>1 DEF Init, TypeOK
<1>3. PhaseInv /\ CurInv /\ BufferInv /\ HolderInv
  BY DEF Init, PhaseInv, CurInv, BufferInv, HolderInv, Busy
<1> QED BY <1>2, <1>3 DEF HeldInv

\* What a dying channel does to the messages.
LEMMA Released ==
    ASSUME TypeOK, NEW m, m \in {Requeued(msg), WithoutWire(msg), Requeued(WithoutWire(msg))}
    PROVE  /\ m \in Messages
           /\ \A i \in Slots :
                 /\ Held(i, {"main", "retry"}) => m[i] = msg[i]
                 /\ Held(i, {"unacked"}) => /\ m[i] \in Copy
                                            /\ m[i].at \in {"main", "unacked"}
                                            /\ m[i].event = msg[i].event
                                            /\ m[i].retries = msg[i].retries
                 /\ Held(i, {"wire"}) => m[i] \in {Nobody, msg[i]}
                 /\ msg[i] = Nobody => m[i] = Nobody
<1>1. CASE m = Requeued(msg)
  BY <1>1, NobodyAssumption DEF TypeOK, Messages, Copy, Requeued, Held, Queues
<1>2. CASE m = WithoutWire(msg)
  BY <1>2, NobodyAssumption DEF TypeOK, Messages, Copy, WithoutWire, Held, Queues
<1>3. CASE m = Requeued(WithoutWire(msg))
  BY <1>3, NobodyAssumption DEF TypeOK, Messages, Copy, Requeued, WithoutWire, Held, Queues
<1> QED BY <1>1, <1>2, <1>3

Steps == {"recover", "reconnect", "dial", "open", "send", "wait", "acked", "nacked"}

\* A publication that moves on.
LEMMA GoToStep ==
    ASSUME TypeOK, pub # Nobody
    PROVE  \A step \in Steps : GoTo(step) => /\ pub' \in Publication
                                             /\ pub' # Nobody
                                             /\ pub'.by = pub.by
                                             /\ pub'.event = pub.event
                                             /\ pub'.retries = pub.retries
                                             /\ pub'.to = pub.to
                                             /\ pub'.step = step
BY NobodyAssumption DEF TypeOK, Publication, GoTo, Steps

\* A publication that ends: whoever waits for it goes on.
LEMMA FinishStep ==
    ASSUME TypeOK, HolderInv, pub # Nobody
    PROVE  \A ok \in BOOLEAN :
             Finish(ok) => /\ pub' = Nobody
                           /\ call' \in [Sources -> {"new", "waiting", "busy", "ok", "failed"}]
                           /\ \/ pub.by \in Events /\ con' = con
                              \/ /\ pub.by = "consumer" /\ con = "moving"
                                 /\ con' = IF ok THEN "ack" ELSE "nack"
<1> SUFFICES ASSUME NEW ok \in BOOLEAN, Finish(ok)
             PROVE  /\ pub' = Nobody
                    /\ call' \in [Sources -> {"new", "waiting", "busy", "ok", "failed"}]
                    /\ \/ pub.by \in Events /\ con' = con
                       \/ /\ pub.by = "consumer" /\ con = "moving"
                          /\ con' = IF ok THEN "ack" ELSE "nack"
  OBVIOUS
<1>1. pub.by \in Events \cup {"consumer"}
  BY DEF TypeOK, Publication
<1>2. CASE pub.by = "consumer"
  BY <1>2 DEF Finish, TypeOK, HolderInv
<1>3. CASE pub.by # "consumer"
  BY <1>1, <1>3 DEF Finish, TypeOK, Sources
<1> QED BY <1>2, <1>3

\* A publication whose channel dies.
LEMMA UnconfirmedStep ==
    ASSUME TypeOK
    PROVE  IF pub = Nobody
           THEN Unconfirmed = Nobody
           ELSE /\ Unconfirmed \in Publication
                /\ Unconfirmed # Nobody
                /\ Unconfirmed.by = pub.by
                /\ Unconfirmed.event = pub.event
                /\ Unconfirmed.retries = pub.retries
                /\ Unconfirmed.to = pub.to
                /\ Unconfirmed.slot = pub.slot
                /\ Unconfirmed.step = pub.step \/ Unconfirmed.step = "nacked"
BY NobodyAssumption DEF TypeOK, Publication, Unconfirmed

\* A step of the publisher leaves the deliveries alone, except that a new
\* connection may end the consumer's channel.
LEMMA HeldByPublisher ==
    ASSUME HeldInv, UNCHANGED <<buffer, cur, up, pubClosed>>,
           \/ con' = con
           \/ con = "moving" /\ con' \in {"ack", "nack"} /\ pub' = Nobody,
           pub' = Nobody \/ (pub # Nobody /\ pub'.by = pub.by),
           \/ conCh' = conCh /\ \A i \in Slots : Held(i, {"main", "unacked"}) => msg'[i] = msg[i]
           \/ conCh' = Broken(conCh) /\ msg' = Requeued(WithoutWire(msg))
    PROVE  (PhaseInv /\ CurInv /\ BufferInv /\ HolderInv)'
<1>1. \A i \in Slots : Held(i, {"main", "unacked"}) =>
          /\ Held(i, {"main", "unacked"})'
          /\ msg'[i].event = msg[i].event
          /\ conCh' = "open" => msg'[i] = msg[i]
  BY Released, NobodyAssumption DEF HeldInv, TypeOK, Messages, Copy, Held, Broken
<1>2. conCh' = "open" => conCh = "open"
  BY DEF Broken
<1>3. conCh = "none" => conCh' = "none"
  BY DEF Broken
<1>4. cur # Nobody => cur.slot \in Slots
  BY DEF HeldInv, TypeOK, Delivery
<1>5. PhaseInv'
  BY <1>3 DEF HeldInv, PhaseInv
<1>6. CurInv'
  BY <1>1, <1>2, <1>4 DEF HeldInv, CurInv, Busy
<1>7. BufferInv'
  BY <1>1, <1>2 DEF HeldInv, TypeOK, BufferInv
<1>8. HolderInv'
  BY DEF HeldInv, HolderInv
<1> QED BY <1>5, <1>6, <1>7, <1>8

LEMMA HeldStep ==
    ASSUME HeldInv, [Next]_vars
    PROVE  HeldInv'
<1> USE DEF HeldInv
<1>1. ASSUME NEW e \in Events, Request(e) PROVE HeldInv'
  <2>1. TypeOK'
    BY <1>1, LogAssumption, NobodyAssumption
      DEF TypeOK, Request, store, client, publisher, consumer, process, Messages,
          Publication, Delivery, Copy, Queues, Sources, Held, PhaseInv, CurInv, BufferInv,
          HolderInv, Busy
  <2>2. (PhaseInv /\ CurInv /\ BufferInv /\ HolderInv)'
    BY <1>1, LogAssumption, NobodyAssumption
      DEF TypeOK, Request, store, client, publisher, consumer, process, Messages, Copy,
          Held, PhaseInv, CurInv, BufferInv, HolderInv, Busy
  <2> QED BY <2>1, <2>2
<1>2. ASSUME NEW e \in Events, LockForCaller(e) PROVE HeldInv'
  <2>1. TypeOK'
    BY <1>2, LogAssumption, NobodyAssumption
      DEF TypeOK, LockForCaller, Start, store, client, publisher, consumer, process,
          Messages, Publication, Delivery, Copy, Queues, Sources, Held, PhaseInv, CurInv,
          BufferInv, HolderInv, Busy
  <2>2. (PhaseInv /\ CurInv /\ BufferInv /\ HolderInv)'
    BY <1>2, LogAssumption, NobodyAssumption
      DEF TypeOK, LockForCaller, Start, store, client, publisher, consumer, process,
          Messages, Copy, Held, PhaseInv, CurInv, BufferInv, HolderInv, Busy
  <2> QED BY <2>1, <2>2
<1>3. CASE Recover
  <2>1. TypeOK'
    BY <1>3, GoToStep, FinishStep, LogAssumption, NobodyAssumption
      DEF TypeOK, Recover, At, Steps, store, client, publisher, consumer, process,
          Messages, Publication, Delivery, Copy, Queues, Sources, Held, PhaseInv, CurInv,
          BufferInv, HolderInv, Busy
  <2>2. (PhaseInv /\ CurInv /\ BufferInv /\ HolderInv)'
    <3>1. pub # Nobody /\ UNCHANGED <<buffer, cur, up, pubClosed, conCh, msg>>
      BY <1>3 DEF Recover, At, store, client, publisher, consumer, process
    <3>2. /\ con' = con \/ (con = "moving" /\ con' \in {"ack", "nack"} /\ pub' = Nobody)
          /\ pub' = Nobody \/ pub'.by = pub.by
      BY <1>3, <3>1, NobodyAssumption DEF Recover, At, GoTo, TypeOK, Publication, consumer
    <3> QED BY <3>1, <3>2, HeldByPublisher
  <2> QED BY <2>1, <2>2
<1>4. CASE PublisherReconnect
  <2>1. TypeOK'
    <3>1. pub # Nobody /\ UNCHANGED <<msg, dead, rows, failures, conn, pubCh, pubClosed,
                                      conCh, buffer, cur, up, faults>>
          /\ dialer' \in {dialer, "publisher"}
      BY <1>4 DEF PublisherReconnect, At, store, client, publisher, consumer, process
    <3>2. /\ pub' \in Publication \cup {Nobody}
          /\ call' \in [Sources -> {"new", "waiting", "busy", "ok", "failed"}]
          /\ con' = con \/ con' \in {"ack", "nack"}
      BY <1>4, GoToStep, FinishStep DEF PublisherReconnect, At, Steps, TypeOK
    <3> QED BY <3>1, <3>2 DEF TypeOK
  <2>2. (PhaseInv /\ CurInv /\ BufferInv /\ HolderInv)'
    <3>1. pub # Nobody /\ UNCHANGED <<buffer, cur, up, pubClosed, conCh, msg>>
      BY <1>4 DEF PublisherReconnect, At, store, client, publisher, consumer, process
    <3>2. /\ con' = con \/ (con = "moving" /\ con' \in {"ack", "nack"} /\ pub' = Nobody)
          /\ pub' = Nobody \/ pub'.by = pub.by
      BY <1>4, <3>1, GoToStep, FinishStep DEF PublisherReconnect, At, Steps
    <3> QED BY <3>1, <3>2, HeldByPublisher
  <2> QED BY <2>1, <2>2
<1>5. CASE PublisherDial
  <2>1. TypeOK'
    <3>1. /\ pub # Nobody /\ UNCHANGED <<dead, rows, failures, pubClosed, buffer, cur, up>>
          /\ conn' \in {conn, "open"} /\ dialer' = Nobody
          /\ pubCh' \in {pubCh, "broken"} /\ conCh' \in {conCh, "broken"}
          /\ msg' \in {msg, Requeued(WithoutWire(msg))} 
      BY <1>5
        DEF PublisherDial, Swap, Sever, Broken, TypeOK, At, store, client, publisher,
            consumer, process
    <3>2. /\ pub' \in Publication \cup {Nobody}
          /\ call' \in [Sources -> {"new", "waiting", "busy", "ok", "failed"}]
          /\ con' = con \/ con' \in {"ack", "nack"}
      BY <1>5, GoToStep, FinishStep DEF PublisherDial, At, Steps, TypeOK
    <3>3. faults' = faults \/ (faults > 0 /\ faults' = faults - 1)
      BY <1>5 DEF PublisherDial
    <3>4. faults' \in 0..Faults
      BY <3>3, LogAssumption DEF TypeOK
    <3> QED BY <3>1, <3>2, <3>4, Released DEF TypeOK, Messages
  <2>2. (PhaseInv /\ CurInv /\ BufferInv /\ HolderInv)'
    <3>1. /\ pub # Nobody /\ UNCHANGED <<buffer, cur, up, pubClosed>>
          /\ \/ UNCHANGED <<conCh, msg>>
             \/ conCh' = Broken(conCh) /\ msg' = Requeued(WithoutWire(msg))
      BY <1>5 DEF PublisherDial, At, Swap, Sever
    <3>2. /\ con' = con \/ (con = "moving" /\ con' \in {"ack", "nack"} /\ pub' = Nobody)
          /\ pub' = Nobody \/ pub'.by = pub.by
      BY <1>5, <3>1, GoToStep, FinishStep DEF PublisherDial, At, Steps
    <3> QED BY <3>1, <3>2, HeldByPublisher
  <2> QED BY <2>1, <2>2
<1>6. CASE OpenPublisherChannel
  <2>1. TypeOK'
    <3>1. pub # Nobody /\ UNCHANGED <<msg, dead, rows, failures, conn, dialer, pubClosed,
                                      conCh, buffer, cur, up, faults>>
          /\ pubCh' \in {pubCh, "open"}
      BY <1>6 DEF OpenPublisherChannel, At, store, client, publisher, consumer, process
    <3>2. /\ pub' \in Publication \cup {Nobody}
          /\ call' \in [Sources -> {"new", "waiting", "busy", "ok", "failed"}]
          /\ con' = con \/ con' \in {"ack", "nack"}
      BY <1>6, GoToStep, FinishStep DEF OpenPublisherChannel, At, Steps, TypeOK
    <3> QED BY <3>1, <3>2 DEF TypeOK
  <2>2. (PhaseInv /\ CurInv /\ BufferInv /\ HolderInv)'
    <3>1. pub # Nobody /\ UNCHANGED <<buffer, cur, up, pubClosed, conCh, msg>>
      BY <1>6 DEF OpenPublisherChannel, At, store, client, publisher, consumer, process
    <3>2. /\ con' = con \/ (con = "moving" /\ con' \in {"ack", "nack"} /\ pub' = Nobody)
          /\ pub' = Nobody \/ pub'.by = pub.by
      BY <1>6, <3>1, GoToStep, FinishStep DEF OpenPublisherChannel, At, Steps
    <3> QED BY <3>1, <3>2, HeldByPublisher
  <2> QED BY <2>1, <2>2
<1>7. CASE Send
  <2>1. TypeOK'
    <3>1. pub \in Publication /\ pub # Nobody
      BY <1>7 DEF Send, At, TypeOK
    <3>0. UNCHANGED <<dead, rows, failures, conn, dialer, pubClosed, conCh, buffer, cur, up, faults>>
      BY <1>7 DEF Send, client, process
    <3>2. CASE pubCh = "open"
      <4>1. PICK i \in Slots :
              /\ msg' = [msg EXCEPT ![i] = [event |-> pub.event, retries |-> pub.retries,
                                            at |-> "wire", to |-> pub.to]]
              /\ pub' = [pub EXCEPT !.step = "wait", !.slot = i]
        BY <1>7, <3>2 DEF Send
      <4>2. [event |-> pub.event, retries |-> pub.retries, at |-> "wire", to |-> pub.to] \in Copy
        BY <3>1 DEF Publication, Copy
      <4>3. msg' \in [Slots -> Copy \cup {Nobody}]
        BY <4>1, <4>2 DEF TypeOK
      <4>4. pub' \in Publication
        BY <3>1, <4>1 DEF Publication
      <4>5. UNCHANGED <<call, con, pubCh>>
        BY <1>7, <3>2 DEF Send
      <4> QED BY <3>0, <4>3, <4>4, <4>5 DEF TypeOK
    <3>3. CASE pubCh # "open"
      <4>1. Finish(FALSE) /\ pubCh' = "none" /\ UNCHANGED msg
        BY <1>7, <3>3 DEF Send
      <4>2. /\ pub' = Nobody
            /\ call' \in [Sources -> {"new", "waiting", "busy", "ok", "failed"}]
            /\ con' = con \/ con' \in {"ack", "nack"}
        BY <3>1, <4>1, FinishStep
      <4> QED BY <3>0, <4>1, <4>2 DEF TypeOK
    <3> QED BY <3>2, <3>3
  <2>2. (PhaseInv /\ CurInv /\ BufferInv /\ HolderInv)'
    <3>1. /\ pub # Nobody
          /\ UNCHANGED <<buffer, cur, up, pubClosed, conCh>>
          /\ \A i \in Slots : Held(i, {"main", "unacked"}) => msg'[i] = msg[i]
      BY <1>7, NobodyAssumption
        DEF Send, Fresh, Held, TypeOK, At, store, client, publisher, consumer, process
    <3>2. /\ con' = con \/ (con = "moving" /\ con' \in {"ack", "nack"} /\ pub' = Nobody)
          /\ pub' = Nobody \/ pub'.by = pub.by
      BY <1>7, <3>1, FinishStep DEF Send, TypeOK, Publication, At, Steps
    <3> QED BY <3>1, <3>2, HeldByPublisher
  <2> QED BY <2>1, <2>2
<1>8. CASE Confirmed
  <2>1. TypeOK'
    <3>1. pub # Nobody /\ UNCHANGED <<msg, dead, rows, failures, conn, dialer, pubCh,
                                      pubClosed, conCh, buffer, cur, up, faults>>
      BY <1>8 DEF Confirmed, At, store, client, publisher, consumer, process
    <3>2. /\ pub' \in Publication \cup {Nobody}
          /\ call' \in [Sources -> {"new", "waiting", "busy", "ok", "failed"}]
          /\ con' = con \/ con' \in {"ack", "nack"}
      BY <1>8, GoToStep, FinishStep DEF Confirmed, At, Steps, TypeOK
    <3> QED BY <3>1, <3>2 DEF TypeOK
  <2>2. (PhaseInv /\ CurInv /\ BufferInv /\ HolderInv)'
    <3>1. pub # Nobody /\ UNCHANGED <<buffer, cur, up, pubClosed, conCh, msg>>
      BY <1>8 DEF Confirmed, At, store, client, publisher, consumer, process
    <3>2. /\ con' = con \/ (con = "moving" /\ con' \in {"ack", "nack"} /\ pub' = Nobody)
          /\ pub' = Nobody \/ pub'.by = pub.by
      BY <1>8, <3>1, GoToStep, FinishStep DEF Confirmed, At, Steps
    <3> QED BY <3>1, <3>2, HeldByPublisher
  <2> QED BY <2>1, <2>2
<1>9. CASE GiveUp
  <2>1. TypeOK'
    <3>1. pub # Nobody /\ UNCHANGED <<msg, dead, rows, failures, conn, dialer, pubCh,
                                      pubClosed, conCh, buffer, cur, up>>
          /\ faults' \in 0..Faults
      BY <1>9, LogAssumption
        DEF GiveUp, TypeOK, At, store, client, publisher, consumer, process
    <3>2. /\ pub' \in Publication \cup {Nobody}
          /\ call' \in [Sources -> {"new", "waiting", "busy", "ok", "failed"}]
          /\ con' = con \/ con' \in {"ack", "nack"}
      BY <1>9, GoToStep, FinishStep DEF GiveUp, At, Steps, TypeOK
    <3> QED BY <3>1, <3>2 DEF TypeOK
  <2>2. (PhaseInv /\ CurInv /\ BufferInv /\ HolderInv)'
    <3>1. pub # Nobody /\ UNCHANGED <<buffer, cur, up, pubClosed, conCh, msg>>
      BY <1>9 DEF GiveUp, At, store, client, publisher, consumer, process
    <3>2. /\ con' = con \/ (con = "moving" /\ con' \in {"ack", "nack"} /\ pub' = Nobody)
          /\ pub' = Nobody \/ pub'.by = pub.by
      BY <1>9, <3>1, GoToStep, FinishStep DEF GiveUp, At, Steps
    <3> QED BY <3>1, <3>2, HeldByPublisher
  <2> QED BY <2>1, <2>2
<1>10. CASE LockForConsumer
  <2>1. TypeOK'
    BY <1>10, LogAssumption, NobodyAssumption
      DEF TypeOK, LockForConsumer, Start, Substitute, Exhausted, Invalid, store, client,
          publisher, consumer, process, Messages, Publication, Delivery, Copy, Queues,
          Sources, Held, PhaseInv, CurInv, BufferInv, HolderInv, Busy
  <2>2. (PhaseInv /\ CurInv /\ BufferInv /\ HolderInv)'
    BY <1>10, LogAssumption, NobodyAssumption
      DEF TypeOK, LockForConsumer, Start, Substitute, Exhausted, Invalid, store, client,
          publisher, consumer, process, Messages, Copy, Held, PhaseInv, CurInv, BufferInv,
          HolderInv, Busy
  <2> QED BY <2>1, <2>2
<1>11. CASE OpenConsumer
  <2>1. TypeOK'
    BY <1>11, LogAssumption, NobodyAssumption
      DEF TypeOK, OpenConsumer, Cancelled, store, client, publisher, consumer, process,
          Messages, Publication, Delivery, Copy, Queues, Sources, Held, PhaseInv, CurInv,
          BufferInv, HolderInv, Busy
  <2>2. (PhaseInv /\ CurInv /\ BufferInv /\ HolderInv)'
    BY <1>11, LogAssumption, NobodyAssumption
      DEF TypeOK, OpenConsumer, Cancelled, store, client, publisher, consumer, process,
          Messages, Copy, Held, PhaseInv, CurInv, BufferInv, HolderInv, Busy
  <2> QED BY <2>1, <2>2
<1>12. CASE Interrupted
  <2>1. TypeOK'
    BY <1>12, Released, LogAssumption, NobodyAssumption
      DEF TypeOK, Interrupted, Cancelled, store, client, publisher, consumer, process,
          Messages, Publication, Delivery, Copy, Queues, Sources, Held, PhaseInv, CurInv,
          BufferInv, HolderInv, Busy
  <2>2. (PhaseInv /\ CurInv /\ BufferInv /\ HolderInv)'
    BY <1>12, Released, LogAssumption, NobodyAssumption
      DEF TypeOK, Interrupted, Cancelled, store, client, publisher, consumer, process,
          Messages, Copy, Held, PhaseInv, CurInv, BufferInv, HolderInv, Busy
  <2> QED BY <2>1, <2>2
<1>13. CASE Handle
  <2>1. TypeOK'
    BY <1>13, LogAssumption, NobodyAssumption
      DEF TypeOK, Handle, OnConflict, Blamed, store, client, publisher, consumer, process,
          Messages, Publication, Delivery, Copy, Queues, Sources, Held, PhaseInv, CurInv,
          BufferInv, HolderInv, Busy
  <2>2. (PhaseInv /\ CurInv /\ BufferInv /\ HolderInv)'
    BY <1>13, LogAssumption, NobodyAssumption
      DEF TypeOK, Handle, OnConflict, Blamed, store, client, publisher, consumer, process,
          Messages, Copy, Held, PhaseInv, CurInv, BufferInv, HolderInv, Busy
  <2> QED BY <2>1, <2>2
<1>14. CASE Ack
  <2>1. TypeOK'
    BY <1>14, LogAssumption, NobodyAssumption
      DEF TypeOK, Ack, store, client, publisher, consumer, process, Messages, Publication,
          Delivery, Copy, Queues, Sources, Held, PhaseInv, CurInv, BufferInv, HolderInv,
          Busy
  <2>2. (PhaseInv /\ CurInv /\ BufferInv /\ HolderInv)'
    BY <1>14, LogAssumption, NobodyAssumption
      DEF TypeOK, Ack, store, client, publisher, consumer, process, Messages, Copy, Held,
          PhaseInv, CurInv, BufferInv, HolderInv, Busy
  <2> QED BY <2>1, <2>2
<1>15. CASE Nack
  <2>1. TypeOK'
    BY <1>15, LogAssumption, NobodyAssumption
      DEF TypeOK, Nack, store, client, publisher, consumer, process, Messages,
          Publication, Delivery, Copy, Queues, Sources, Held, PhaseInv, CurInv, BufferInv,
          HolderInv, Busy
  <2>2. (PhaseInv /\ CurInv /\ BufferInv /\ HolderInv)'
    BY <1>15, LogAssumption, NobodyAssumption
      DEF TypeOK, Nack, store, client, publisher, consumer, process, Messages, Copy, Held,
          PhaseInv, CurInv, BufferInv, HolderInv, Busy
  <2> QED BY <2>1, <2>2
<1>16. CASE Pause
  <2>1. TypeOK'
    BY <1>16, LogAssumption, NobodyAssumption
      DEF TypeOK, Pause, Cancelled, store, client, publisher, consumer, process, Messages,
          Publication, Delivery, Copy, Queues, Sources, Held, PhaseInv, CurInv, BufferInv,
          HolderInv, Busy
  <2>2. (PhaseInv /\ CurInv /\ BufferInv /\ HolderInv)'
    BY <1>16, LogAssumption, NobodyAssumption
      DEF TypeOK, Pause, Cancelled, store, client, publisher, consumer, process, Messages,
          Copy, Held, PhaseInv, CurInv, BufferInv, HolderInv, Busy
  <2> QED BY <2>1, <2>2
<1>17. CASE ConsumerReconnect
  <2>1. TypeOK'
    BY <1>17, LogAssumption, NobodyAssumption
      DEF TypeOK, ConsumerReconnect, Reusable, Cancelled, store, client, publisher,
          consumer, process, Messages, Publication, Delivery, Copy, Queues, Sources, Held,
          PhaseInv, CurInv, BufferInv, HolderInv, Busy
  <2>2. (PhaseInv /\ CurInv /\ BufferInv /\ HolderInv)'
    BY <1>17, LogAssumption, NobodyAssumption
      DEF TypeOK, ConsumerReconnect, Reusable, Cancelled, store, client, publisher,
          consumer, process, Messages, Copy, Held, PhaseInv, CurInv, BufferInv, HolderInv,
          Busy
  <2> QED BY <2>1, <2>2
<1>18. CASE ConsumerDial
  <2>1. TypeOK'
    <3>1. /\ UNCHANGED <<dead, rows, failures, call, pubClosed, buffer, cur, up>>
          /\ con' = "starting" /\ dialer' = Nobody /\ conn' \in {conn, "open"}
          /\ pubCh' \in {pubCh, Broken(pubCh)} /\ conCh' \in {conCh, Broken(conCh)}
          /\ msg' \in {msg, Requeued(WithoutWire(msg))}
          /\ pub' \in {pub, Unconfirmed}
          /\ faults' = faults \/ (faults > 0 /\ faults' = faults - 1)
      BY <1>18 DEF ConsumerDial, Swap, Sever
    <3>2. msg' \in Messages
      BY <3>1, Released DEF TypeOK, Messages
    <3>3. pub' \in Publication \cup {Nobody}
      BY <3>1, UnconfirmedStep DEF TypeOK
    <3>4. faults' \in 0..Faults
      BY <3>1, LogAssumption DEF TypeOK
    <3>5. /\ pubCh' \in {"none", "open", "broken"} /\ conCh' \in {"none", "open", "broken"}
          /\ conn' \in {"open", "broken", "closed"}
      BY <3>1 DEF TypeOK, Broken
    <3> QED BY <3>1, <3>2, <3>3, <3>4, <3>5 DEF TypeOK, Messages
  <2>2. (PhaseInv /\ CurInv /\ BufferInv /\ HolderInv)'
    <3>1. PhaseInv'
      BY <1>18, Released, UnconfirmedStep
        DEF ConsumerDial, Swap, Sever, Broken, store, client, publisher, consumer,
            process, PhaseInv
    <3>2. CurInv'
      BY <1>18, Released, UnconfirmedStep, NobodyAssumption
        DEF TypeOK, Messages, Copy, Delivery, ConsumerDial, Swap, Sever, Broken, store,
            client, publisher, consumer, process, CurInv, BufferInv, HolderInv, PhaseInv,
            Busy, Held
    <3>3. BufferInv'
      BY <1>18, Released, UnconfirmedStep, NobodyAssumption
        DEF TypeOK, Messages, Copy, Delivery, ConsumerDial, Swap, Sever, Broken, store,
            client, publisher, consumer, process, CurInv, BufferInv, PhaseInv, Busy, Held
    <3>4. HolderInv'
      BY <1>18, Released, UnconfirmedStep, NobodyAssumption
        DEF TypeOK, Publication, ConsumerDial, Swap, Sever, Broken, store, client,
            publisher, consumer, process, HolderInv
    <3> QED BY <3>1, <3>2, <3>3, <3>4
  <2> QED BY <2>1, <2>2
<1>19. ASSUME NEW i \in Slots, Take(i) PROVE HeldInv'
  <2>1. TypeOK'
    BY <1>19, LogAssumption, NobodyAssumption
      DEF TypeOK, Take, store, client, publisher, consumer, process, Messages,
          Publication, Delivery, Copy, Queues, Sources, Held, PhaseInv, CurInv, BufferInv,
          HolderInv, Busy
  <2>2. (PhaseInv /\ CurInv /\ BufferInv /\ HolderInv)'
    <3>1. PhaseInv'
      BY <1>19 DEF Take, store, client, publisher, consumer, process, PhaseInv
    <3>2. CurInv'
      BY <1>19, NobodyAssumption
        DEF TypeOK, Messages, Copy, Delivery, Take, store, client, publisher, consumer,
            process, CurInv, BufferInv, HolderInv, PhaseInv, Busy, Held
    <3>3. BufferInv'
      BY <1>19, NobodyAssumption
        DEF TypeOK, Messages, Copy, Delivery, Take, store, client, publisher, consumer,
            process, CurInv, BufferInv, PhaseInv, Busy, Held
    <3>4. HolderInv'
      BY <1>19, NobodyAssumption
        DEF TypeOK, Publication, Take, store, client, publisher, consumer, process,
            HolderInv
    <3> QED BY <3>1, <3>2, <3>3, <3>4
  <2> QED BY <2>1, <2>2
<1>20. ASSUME NEW p \in Poison, Foreign(p) PROVE HeldInv'
  <2>1. TypeOK'
    BY <1>20, LogAssumption, NobodyAssumption
      DEF TypeOK, Foreign, Fresh, store, client, publisher, consumer, process, Messages,
          Publication, Delivery, Copy, Queues, Sources, Held, PhaseInv, CurInv, BufferInv,
          HolderInv, Busy
  <2>2. (PhaseInv /\ CurInv /\ BufferInv /\ HolderInv)'
    BY <1>20, LogAssumption, NobodyAssumption
      DEF TypeOK, Foreign, Fresh, store, client, publisher, consumer, process, Messages,
          Copy, Held, PhaseInv, CurInv, BufferInv, HolderInv, Busy
  <2> QED BY <2>1, <2>2
<1>21. ASSUME NEW i \in Slots, BrokerTakes(i) PROVE HeldInv'
  <2>1. TypeOK'
    BY <1>21, LogAssumption, NobodyAssumption
      DEF TypeOK, BrokerTakes, Awaits, store, client, publisher, consumer, process,
          Messages, Publication, Delivery, Copy, Queues, Sources, Held, PhaseInv, CurInv,
          BufferInv, HolderInv, Busy
  <2>2. (PhaseInv /\ CurInv /\ BufferInv /\ HolderInv)'
    <3>1. PhaseInv'
      BY <1>21
        DEF BrokerTakes, Awaits, store, client, publisher, consumer, process, PhaseInv
    <3>2. CurInv'
      BY <1>21, NobodyAssumption
        DEF TypeOK, Messages, Copy, Delivery, BrokerTakes, Awaits, store, client,
            publisher, consumer, process, CurInv, BufferInv, HolderInv, PhaseInv, Busy,
            Held
    <3>3. BufferInv'
      BY <1>21, NobodyAssumption
        DEF TypeOK, Messages, Copy, Delivery, BrokerTakes, Awaits, store, client,
            publisher, consumer, process, CurInv, BufferInv, PhaseInv, Busy, Held
    <3>4. HolderInv'
      BY <1>21, NobodyAssumption
        DEF TypeOK, Publication, BrokerTakes, Awaits, store, client, publisher, consumer,
            process, HolderInv
    <3> QED BY <3>1, <3>2, <3>3, <3>4
  <2> QED BY <2>1, <2>2
<1>22. ASSUME NEW i \in Slots, BrokerRefuses(i) PROVE HeldInv'
  <2>1. TypeOK'
    BY <1>22, LogAssumption, NobodyAssumption
      DEF TypeOK, BrokerRefuses, Awaits, store, client, publisher, consumer, process,
          Messages, Publication, Delivery, Copy, Queues, Sources, Held, PhaseInv, CurInv,
          BufferInv, HolderInv, Busy
  <2>2. (PhaseInv /\ CurInv /\ BufferInv /\ HolderInv)'
    BY <1>22, LogAssumption, NobodyAssumption
      DEF TypeOK, BrokerRefuses, Awaits, store, client, publisher, consumer, process,
          Messages, Copy, Held, PhaseInv, CurInv, BufferInv, HolderInv, Busy
  <2> QED BY <2>1, <2>2
<1>23. ASSUME NEW i \in Slots, Expire(i) PROVE HeldInv'
  <2>1. TypeOK'
    BY <1>23, LogAssumption, NobodyAssumption
      DEF TypeOK, Expire, store, client, publisher, consumer, process, Messages,
          Publication, Delivery, Copy, Queues, Sources, Held, PhaseInv, CurInv, BufferInv,
          HolderInv, Busy
  <2>2. (PhaseInv /\ CurInv /\ BufferInv /\ HolderInv)'
    BY <1>23, LogAssumption, NobodyAssumption
      DEF TypeOK, Expire, store, client, publisher, consumer, process, Messages, Copy,
          Held, PhaseInv, CurInv, BufferInv, HolderInv, Busy
  <2> QED BY <2>1, <2>2
<1>24. ASSUME NEW i \in Slots, Deliver(i) PROVE HeldInv'
  <2>1. TypeOK'
    BY <1>24, LogAssumption, NobodyAssumption
      DEF TypeOK, Deliver, store, client, publisher, consumer, process, Messages,
          Publication, Delivery, Copy, Queues, Sources, Held, PhaseInv, CurInv, BufferInv,
          HolderInv, Busy
  <2>2. (PhaseInv /\ CurInv /\ BufferInv /\ HolderInv)'
    BY <1>24, LogAssumption, NobodyAssumption
      DEF TypeOK, Deliver, store, client, publisher, consumer, process, Messages, Copy,
          Held, PhaseInv, CurInv, BufferInv, HolderInv, Busy
  <2> QED BY <2>1, <2>2
<1>25. CASE BreakConnection
  <2>1. TypeOK'
    BY <1>25, Released, UnconfirmedStep, LogAssumption, NobodyAssumption
      DEF TypeOK, BreakConnection, Sever, Broken, store, client, publisher, consumer,
          process, Messages, Publication, Delivery, Copy, Queues, Sources, Held, PhaseInv,
          CurInv, BufferInv, HolderInv, Busy
  <2>2. (PhaseInv /\ CurInv /\ BufferInv /\ HolderInv)'
    <3>1. PhaseInv'
      BY <1>25, Released, UnconfirmedStep
        DEF BreakConnection, Sever, Broken, store, client, publisher, consumer, process,
            PhaseInv
    <3>2. CurInv'
      BY <1>25, Released, UnconfirmedStep, NobodyAssumption
        DEF TypeOK, Messages, Copy, Delivery, BreakConnection, Sever, Broken, store,
            client, publisher, consumer, process, CurInv, BufferInv, HolderInv, PhaseInv,
            Busy, Held
    <3>3. BufferInv'
      BY <1>25, Released, UnconfirmedStep, NobodyAssumption
        DEF TypeOK, Messages, Copy, Delivery, BreakConnection, Sever, Broken, store,
            client, publisher, consumer, process, CurInv, BufferInv, PhaseInv, Busy, Held
    <3>4. HolderInv'
      BY <1>25, Released, UnconfirmedStep, NobodyAssumption
        DEF TypeOK, Publication, BreakConnection, Sever, Broken, store, client, publisher,
            consumer, process, HolderInv
    <3> QED BY <3>1, <3>2, <3>3, <3>4
  <2> QED BY <2>1, <2>2
<1>26. CASE BreakPublisherChannel
  <2>1. TypeOK'
    BY <1>26, UnconfirmedStep, LogAssumption, NobodyAssumption
      DEF TypeOK, BreakPublisherChannel, WithoutWire, store, client, publisher, consumer,
          process, Messages, Publication, Delivery, Copy, Queues, Sources, Held, PhaseInv,
          CurInv, BufferInv, HolderInv, Busy
  <2>2. (PhaseInv /\ CurInv /\ BufferInv /\ HolderInv)'
    <3>1. PhaseInv'
      BY <1>26, UnconfirmedStep
        DEF BreakPublisherChannel, WithoutWire, store, client, publisher, consumer,
            process, PhaseInv
    <3>2. CurInv'
      BY <1>26, UnconfirmedStep, NobodyAssumption
        DEF TypeOK, Messages, Copy, Delivery, BreakPublisherChannel, WithoutWire, store,
            client, publisher, consumer, process, CurInv, BufferInv, HolderInv, PhaseInv,
            Busy, Held
    <3>3. BufferInv'
      BY <1>26, UnconfirmedStep, NobodyAssumption
        DEF TypeOK, Messages, Copy, Delivery, BreakPublisherChannel, WithoutWire, store,
            client, publisher, consumer, process, CurInv, BufferInv, PhaseInv, Busy, Held
    <3>4. HolderInv'
      BY <1>26, UnconfirmedStep, NobodyAssumption
        DEF TypeOK, Publication, BreakPublisherChannel, WithoutWire, store, client,
            publisher, consumer, process, HolderInv
    <3> QED BY <3>1, <3>2, <3>3, <3>4
  <2> QED BY <2>1, <2>2
<1>27. CASE BreakConsumerChannel
  <2>1. TypeOK'
    BY <1>27, Released, LogAssumption, NobodyAssumption
      DEF TypeOK, BreakConsumerChannel, store, client, publisher, consumer, process,
          Messages, Publication, Delivery, Copy, Queues, Sources, Held, PhaseInv, CurInv,
          BufferInv, HolderInv, Busy
  <2>2. (PhaseInv /\ CurInv /\ BufferInv /\ HolderInv)'
    <3>1. PhaseInv'
      BY <1>27, Released
        DEF BreakConsumerChannel, store, client, publisher, consumer, process, PhaseInv
    <3>2. CurInv'
      BY <1>27, Released, NobodyAssumption
        DEF TypeOK, Messages, Copy, Delivery, BreakConsumerChannel, store, client,
            publisher, consumer, process, CurInv, BufferInv, HolderInv, PhaseInv, Busy,
            Held
    <3>3. BufferInv'
      BY <1>27, Released, NobodyAssumption
        DEF TypeOK, Messages, Copy, Delivery, BreakConsumerChannel, store, client,
            publisher, consumer, process, CurInv, BufferInv, PhaseInv, Busy, Held
    <3>4. HolderInv'
      BY <1>27, Released, NobodyAssumption
        DEF TypeOK, Publication, BreakConsumerChannel, store, client, publisher, consumer,
            process, HolderInv
    <3> QED BY <3>1, <3>2, <3>3, <3>4
  <2> QED BY <2>1, <2>2
<1>28. CASE Shutdown
  <2>1. TypeOK'
    BY <1>28, LogAssumption, NobodyAssumption
      DEF TypeOK, Shutdown, store, client, publisher, consumer, process, Messages,
          Publication, Delivery, Copy, Queues, Sources, Held, PhaseInv, CurInv, BufferInv,
          HolderInv, Busy
  <2>2. (PhaseInv /\ CurInv /\ BufferInv /\ HolderInv)'
    BY <1>28, LogAssumption, NobodyAssumption
      DEF TypeOK, Shutdown, store, client, publisher, consumer, process, Messages, Copy,
          Held, PhaseInv, CurInv, BufferInv, HolderInv, Busy
  <2> QED BY <2>1, <2>2
<1>29. CASE ClosePublisher
  <2>1. TypeOK'
    BY <1>29, LogAssumption, NobodyAssumption
      DEF TypeOK, ClosePublisher, store, client, publisher, consumer, process, Messages,
          Publication, Delivery, Copy, Queues, Sources, Held, PhaseInv, CurInv, BufferInv,
          HolderInv, Busy
  <2>2. (PhaseInv /\ CurInv /\ BufferInv /\ HolderInv)'
    BY <1>29, LogAssumption, NobodyAssumption
      DEF TypeOK, ClosePublisher, store, client, publisher, consumer, process, Messages,
          Copy, Held, PhaseInv, CurInv, BufferInv, HolderInv, Busy
  <2> QED BY <2>1, <2>2
<1>30. CASE CloseClient
  <2>1. TypeOK'
    BY <1>30, Released, UnconfirmedStep, LogAssumption, NobodyAssumption
      DEF TypeOK, CloseClient, Sever, Broken, store, client, publisher, consumer, process,
          Messages, Publication, Delivery, Copy, Queues, Sources, Held, PhaseInv, CurInv,
          BufferInv, HolderInv, Busy
  <2>2. (PhaseInv /\ CurInv /\ BufferInv /\ HolderInv)'
    <3>1. PhaseInv'
      BY <1>30, Released, UnconfirmedStep
        DEF CloseClient, Sever, Broken, store, client, publisher, consumer, process,
            PhaseInv
    <3>2. CurInv'
      BY <1>30, Released, UnconfirmedStep, NobodyAssumption
        DEF TypeOK, Messages, Copy, Delivery, CloseClient, Sever, Broken, store, client,
            publisher, consumer, process, CurInv, BufferInv, HolderInv, PhaseInv, Busy,
            Held
    <3>3. BufferInv'
      BY <1>30, Released, UnconfirmedStep, NobodyAssumption
        DEF TypeOK, Messages, Copy, Delivery, CloseClient, Sever, Broken, store, client,
            publisher, consumer, process, CurInv, BufferInv, PhaseInv, Busy, Held
    <3>4. HolderInv'
      BY <1>30, Released, UnconfirmedStep, NobodyAssumption
        DEF TypeOK, Publication, CloseClient, Sever, Broken, store, client, publisher,
            consumer, process, HolderInv
    <3> QED BY <3>1, <3>2, <3>3, <3>4
  <2> QED BY <2>1, <2>2
<1>31. CASE Exit
  <2>1. TypeOK'
    BY <1>31, Released, LogAssumption, NobodyAssumption
      DEF TypeOK, Exit, Die, store, client, publisher, consumer, process, Messages,
          Publication, Delivery, Copy, Queues, Sources, Held, PhaseInv, CurInv, BufferInv,
          HolderInv, Busy
  <2>2. (PhaseInv /\ CurInv /\ BufferInv /\ HolderInv)'
    BY <1>31, Released, LogAssumption, NobodyAssumption
      DEF TypeOK, Exit, Die, store, client, publisher, consumer, process, Messages, Copy,
          Held, PhaseInv, CurInv, BufferInv, HolderInv, Busy
  <2> QED BY <2>1, <2>2
<1>32. CASE Crash
  <2>1. TypeOK'
    BY <1>32, Released, LogAssumption, NobodyAssumption
      DEF TypeOK, Crash, Die, store, client, publisher, consumer, process, Messages,
          Publication, Delivery, Copy, Queues, Sources, Held, PhaseInv, CurInv, BufferInv,
          HolderInv, Busy
  <2>2. (PhaseInv /\ CurInv /\ BufferInv /\ HolderInv)'
    BY <1>32, Released, LogAssumption, NobodyAssumption
      DEF TypeOK, Crash, Die, store, client, publisher, consumer, process, Messages, Copy,
          Held, PhaseInv, CurInv, BufferInv, HolderInv, Busy
  <2> QED BY <2>1, <2>2
<1>33. CASE Restart
  <2>1. TypeOK'
    BY <1>33, LogAssumption, NobodyAssumption
      DEF TypeOK, Restart, store, client, publisher, consumer, process, Messages,
          Publication, Delivery, Copy, Queues, Sources, Held, PhaseInv, CurInv, BufferInv,
          HolderInv, Busy
  <2>2. (PhaseInv /\ CurInv /\ BufferInv /\ HolderInv)'
    BY <1>33, LogAssumption, NobodyAssumption
      DEF TypeOK, Restart, store, client, publisher, consumer, process, Messages, Copy,
          Held, PhaseInv, CurInv, BufferInv, HolderInv, Busy
  <2> QED BY <2>1, <2>2
<1>34. CASE UNCHANGED vars
  BY <1>34
    DEF vars, store, client, publisher, consumer, process, TypeOK, PhaseInv, CurInv,
        BufferInv, HolderInv, Busy, Held
<1> QED
  BY <1>1, <1>2, <1>3, <1>4, <1>5, <1>6, <1>7, <1>8, <1>9, <1>10, <1>11, <1>12, <1>13,
    <1>14, <1>15, <1>16, <1>17, <1>18, <1>19, <1>20, <1>21, <1>22, <1>23, <1>24, <1>25,
    <1>26, <1>27, <1>28, <1>29, <1>30, <1>31, <1>32, <1>33, <1>34
    DEF Next, Publishing, Consuming, Broker, Process

----------------------------------------------------------------------------
(* Layer 2: what is safe where *)

InQueue(i, e) == Held(i, {"main", "retry", "unacked"}) /\ msg[i].event = e
Safe(e) == Stored(e) \/ InBroker(e)

\* Safe without the copy in slot i.
SafeBeside(i, e) == Stored(e) \/ e \in dead \/ \E j \in Slots : j # i /\ InQueue(j, e)

\* A confirmed publication has put its event in a safe place, beside the
\* delivery it stands for; until then its copy on the wire is its own.
PubInv ==
    pub # Nobody =>
        /\ pub.event = IF pub.by = "consumer" THEN cur.event ELSE pub.by
        /\ pub.step = "wait" => /\ pub.slot \in Slots
                                /\ Held(pub.slot, {"wire"}) => msg[pub.slot].event = pub.event
        /\ pub.step = "acked" => IF pub.by = "consumer" THEN SafeBeside(cur.slot, cur.event)
                                 ELSE Safe(pub.event)

\* What is about to be acknowledged is safe without the delivery.
AckInv == con = "ack" => SafeBeside(cur.slot, cur.event)

KeepInv == PubInv /\ AckInv /\ NothingLost

\* Nothing that is stored, dead or in a queue goes away.
Persist ==
    /\ dead \subseteq dead'
    /\ \A e \in Events : rows[e] > 0 => rows'[e] > 0
    /\ \A i \in Slots : Held(i, {"main", "retry", "unacked"}) =>
           Held(i, {"main", "retry", "unacked"})' /\ msg'[i].event = msg[i].event

LEMMA SafeStable ==
    ASSUME Persist, NEW e, NEW i
    PROVE  /\ Safe(e) => Safe(e)'
           /\ SafeBeside(i, e) => /\ Stored(e)' \/ e \in dead'
                                     \/ \E j \in Slots : j # i /\ InQueue(j, e)'
<1>1. \A j \in Slots : InQueue(j, e) => InQueue(j, e)'
  BY DEF Persist, InQueue
<1>2. Stored(e) => Stored(e)'
  BY DEF Persist, Stored
<1>3. e \in dead => e \in dead'
  BY DEF Persist
<1>4. Safe(e) => Safe(e)'
  BY <1>1, <1>2, <1>3 DEF Safe, InBroker, InQueue
<1>5. SafeBeside(i, e) => Stored(e)' \/ e \in dead' \/ \E j \in Slots : j # i /\ InQueue(j, e)'
  BY <1>1, <1>2, <1>3 DEF SafeBeside
<1> QED BY <1>4, <1>5

\* Every step but the acknowledgement keeps what is safe.
LEMMA PersistStep ==
    ASSUME HeldInv, [Next]_vars, ~Ack
    PROVE  Persist
<1> USE DEF HeldInv
<1>1. CASE UNCHANGED store
  BY <1>1 DEF store, Persist, Held
<1>2. ASSUME NEW e \in Events, Request(e) \/ LockForCaller(e) PROVE UNCHANGED store
  BY <1>2 DEF Request, LockForCaller, store
<1>3. ASSUME NEW i \in Slots, Take(i) PROVE UNCHANGED store
  BY <1>3 DEF Take, store
<1>4. Recover \/ PublisherReconnect \/ OpenPublisherChannel \/ Confirmed \/ GiveUp \/ LockForConsumer \/ OpenConsumer \/ Pause \/ ConsumerReconnect \/ Shutdown \/ ClosePublisher \/ Restart => UNCHANGED store
  BY
    DEF Recover, PublisherReconnect, OpenPublisherChannel, Confirmed, GiveUp,
        LockForConsumer, OpenConsumer, Pause, ConsumerReconnect, Shutdown, ClosePublisher,
        Restart, store
<1>5. CASE PublisherDial
  <2>1. UNCHANGED <<dead, rows>> /\ msg' \in {msg, Requeued(WithoutWire(msg))}
    BY <1>5 DEF PublisherDial, Swap, Sever
  <2> QED BY <2>1, Released, NobodyAssumption DEF TypeOK, Messages, Copy, Held, Persist
<1>6. CASE Send
  BY <1>6, NobodyAssumption, LogAssumption
    DEF Send, Fresh, TypeOK, Messages, Copy, Held, Persist
<1>7. CASE Interrupted
  BY <1>7, Released, NobodyAssumption, LogAssumption
    DEF Interrupted, TypeOK, Messages, Copy, Held, Persist
<1>8. CASE Handle
  BY <1>8, NobodyAssumption, LogAssumption
    DEF Handle, OnConflict, Blamed, TypeOK, Messages, Copy, Held, Persist
<1>9. CASE Nack
  BY <1>9, NobodyAssumption, LogAssumption
    DEF Nack, TypeOK, Messages, Copy, Held, Persist, CurInv, Busy
<1>10. CASE ConsumerDial
  BY <1>10, Released, NobodyAssumption, LogAssumption
    DEF ConsumerDial, Swap, Sever, TypeOK, Messages, Copy, Held, Persist
<1>11. ASSUME NEW p \in Poison, Foreign(p) PROVE Persist
  BY <1>11, NobodyAssumption, LogAssumption
    DEF Foreign, Fresh, TypeOK, Messages, Copy, Held, Persist
<1>12. ASSUME NEW i \in Slots, BrokerTakes(i) PROVE Persist
  BY <1>12, NobodyAssumption, LogAssumption
    DEF BrokerTakes, Awaits, TypeOK, Messages, Copy, Held, Persist
<1>13. ASSUME NEW i \in Slots, BrokerRefuses(i) PROVE Persist
  BY <1>13, NobodyAssumption, LogAssumption
    DEF BrokerRefuses, Awaits, TypeOK, Messages, Copy, Held, Persist
<1>14. ASSUME NEW i \in Slots, Expire(i) PROVE Persist
  BY <1>14, NobodyAssumption, LogAssumption
    DEF Expire, TypeOK, Messages, Copy, Held, Persist
<1>15. ASSUME NEW i \in Slots, Deliver(i) PROVE Persist
  BY <1>15, NobodyAssumption, LogAssumption
    DEF Deliver, TypeOK, Messages, Copy, Held, Persist
<1>16. CASE BreakConnection
  BY <1>16, Released, NobodyAssumption, LogAssumption
    DEF BreakConnection, Sever, TypeOK, Messages, Copy, Held, Persist
<1>17. CASE BreakPublisherChannel
  BY <1>17, Released, NobodyAssumption, LogAssumption
    DEF BreakPublisherChannel, TypeOK, Messages, Copy, Held, Persist
<1>18. CASE BreakConsumerChannel
  BY <1>18, Released, NobodyAssumption, LogAssumption
    DEF BreakConsumerChannel, TypeOK, Messages, Copy, Held, Persist
<1>19. CASE CloseClient
  BY <1>19, Released, NobodyAssumption, LogAssumption
    DEF CloseClient, Sever, TypeOK, Messages, Copy, Held, Persist
<1>20. CASE Exit
  BY <1>20, Released, NobodyAssumption, LogAssumption
    DEF Exit, Die, TypeOK, Messages, Copy, Held, Persist
<1>21. CASE Crash
  BY <1>21, Released, NobodyAssumption, LogAssumption
    DEF Crash, Die, TypeOK, Messages, Copy, Held, Persist
<1> QED
  BY <1>1, <1>2, <1>3, <1>4, <1>5, <1>6, <1>7, <1>8, <1>9, <1>10, <1>11, <1>12, <1>13,
    <1>14, <1>15, <1>16, <1>17, <1>18, <1>19, <1>20, <1>21
    DEF Next, Publishing, Consuming, Broker, Process, vars, store

\* A step that moves a publication on without sending or confirming it,
\* ...
PubMild ==
    \/ pub' = Nobody
    \/ /\ pub # Nobody /\ pub' # Nobody
       /\ pub'.by = pub.by /\ pub'.event = pub.event
       /\ pub'.step \in {"wait", "acked"} => pub'.step = pub.step /\ pub'.slot = pub.slot
       /\ pub.by = "consumer" => cur' = cur

\* ... is not about to acknowledge anything new, ...
ConMild == con' = "ack" => con = "ack" /\ cur' = cur

\* ... tells no caller that its event is accepted, ...
CallMild == \A e \in Sources : call'[e] = "ok" => call[e] = "ok"

\* ... and puts nothing on the wire.
WireMild == \A i \in Slots : Held(i, {"wire"})' => Held(i, {"wire"}) /\ msg'[i].event = msg[i].event

LEMMA QuietStep ==
    ASSUME KeepInv, Persist, PubMild, ConMild, CallMild, WireMild
    PROVE  KeepInv'
<1>1. PubInv'
  <2> SUFFICES ASSUME pub' # Nobody PROVE PubInv'
    BY DEF PubInv
  <2>1. /\ pub # Nobody
        /\ pub'.by = pub.by /\ pub'.event = pub.event
        /\ pub'.step \in {"wait", "acked"} => pub'.step = pub.step /\ pub'.slot = pub.slot
        /\ pub.by = "consumer" => cur' = cur
    BY DEF PubMild
  <2>2. pub'.event = IF pub'.by = "consumer" THEN cur'.event ELSE pub'.by
    BY <2>1 DEF KeepInv, PubInv
  <2>3. pub'.step = "wait" => /\ pub'.slot \in Slots
                              /\ Held(pub.slot, {"wire"})' => msg'[pub'.slot].event = pub'.event
    BY <2>1 DEF KeepInv, PubInv, WireMild, Held
  <2>4. pub'.step = "acked" => IF pub'.by = "consumer" THEN SafeBeside(cur.slot, cur.event)'
                               ELSE Safe(pub.event)'
    BY <2>1, SafeStable DEF KeepInv, PubInv, SafeBeside
  <2> QED BY <2>1, <2>2, <2>3, <2>4 DEF PubInv
<1>2. AckInv'
  BY SafeStable DEF KeepInv, AckInv, ConMild, SafeBeside
<1>3. NothingLost'
  <2> SUFFICES ASSUME NEW e \in Sources, call'[e] = "ok" PROVE Safe(e)'
    BY DEF NothingLost, Safe
  <2>1. Safe(e)
    BY DEF CallMild, KeepInv, NothingLost, Safe
  <2> QED BY <2>1, SafeStable
<1> QED BY <1>1, <1>2, <1>3 DEF KeepInv

\* Which call a publication that ends answers.
LEMMA FinishCalls ==
    ASSUME TypeOK, pub # Nobody
    PROVE  \A ok \in BOOLEAN, e \in Sources :
             Finish(ok) /\ call'[e] = "ok" => call[e] = "ok" \/ (ok /\ pub.by = e /\ pub.by # "consumer")
BY DEF TypeOK, Finish

\* An acknowledgement takes a copy, never the last place of its event.
LEMMA AcknowledgedSafe ==
    ASSUME HeldInv, AckInv, Ack, NEW e, Safe(e)
    PROVE  Safe(e)'
<1> USE DEF HeldInv
<1>1. /\ con = "ack" /\ UNCHANGED <<dead, rows>>
      /\ \A i \in Slots : i # cur.slot => msg'[i] = msg[i]
  BY DEF Ack, TypeOK, CurInv, Busy, Delivery
<1>2. CASE Stored(e) \/ e \in dead
  BY <1>1, <1>2 DEF Safe, Stored, InBroker
<1>3. ASSUME NEW i \in Slots, InQueue(i, e), i # cur.slot PROVE InQueue(i, e)'
  BY <1>1, <1>3 DEF InQueue, Held
<1>4. CASE InQueue(cur.slot, e)
  <2>1. SafeBeside(cur.slot, e)
    BY <1>1, <1>4 DEF AckInv, InQueue, CurInv, Busy
  <2> QED BY <1>1, <1>3, <2>1 DEF SafeBeside, Safe, Stored, InBroker, InQueue
<1> QED BY <1>2, <1>3, <1>4 DEF Safe, InBroker, InQueue

LEMMA KeepStep ==
    ASSUME HeldInv, KeepInv, [Next]_vars
    PROVE  KeepInv'
<1> USE DEF HeldInv
<1>0. CASE Ack
  <2>1. /\ con = "ack" /\ con' = "idle"
        /\ UNCHANGED <<dead, rows, call, pub>>
        /\ \A i \in Slots : i # cur.slot => msg'[i] = msg[i]
        /\ msg'[cur.slot] \in {msg[cur.slot], Nobody}
    BY <1>0 DEF Ack, publisher, TypeOK, CurInv, Busy, Delivery
  <2>2. ASSUME NEW e, Safe(e) PROVE Safe(e)'
    BY <1>0, <2>2, AcknowledgedSafe DEF KeepInv
  <2>3. NothingLost'
    BY <2>1, <2>2 DEF KeepInv, NothingLost, Safe
  <2>4. pub # Nobody => pub.by # "consumer"
    BY <2>1 DEF HolderInv
  <2>5. PubInv'
    <3>1. pub # Nobody /\ pub.step = "acked" => Safe(pub.event)'
      <4>1. pub # Nobody /\ pub.step = "acked" => Safe(pub.event)
        BY <2>4 DEF KeepInv, PubInv
      <4> QED BY <2>1, <2>2, <4>1
    <3>2. \A i \in Slots : Held(i, {"wire"})' => Held(i, {"wire"}) /\ msg'[i] = msg[i]
      BY <2>1 DEF Held
    <3> QED BY <2>1, <2>4, <3>1, <3>2 DEF KeepInv, PubInv
  <2>6. AckInv'
    BY <2>1 DEF AckInv
  <2> QED BY <2>3, <2>5, <2>6 DEF KeepInv
<1> SUFFICES ASSUME ~Ack PROVE KeepInv'
  BY <1>0
<1>1. Persist
  BY PersistStep
<1>2. ASSUME NEW e \in Events, Request(e) PROVE KeepInv'
  <2>1. PubMild
    BY <1>2, NobodyAssumption
      DEF Request, store, client, publisher, consumer, process, TypeOK, HolderInv,
          PubMild, Publication
  <2>2. ConMild
    BY <1>2 DEF Request, store, client, publisher, consumer, process, ConMild
  <2>3. CallMild
    BY <1>2 DEF Request, store, client, publisher, consumer, process, CallMild, TypeOK
  <2>4. WireMild
    BY <1>2, NobodyAssumption
      DEF Request, store, client, publisher, consumer, process, TypeOK, Messages, Copy,
          Held, WireMild
  <2> QED BY <1>1, <2>1, <2>2, <2>3, <2>4, QuietStep
<1>3. ASSUME NEW e \in Events, LockForCaller(e) PROVE KeepInv'
  <2>1. CASE pubClosed
    <3>1. PubMild /\ ConMild /\ WireMild
      BY <1>3, <2>1
        DEF LockForCaller, store, client, consumer, process, PubMild, ConMild, WireMild,
            HolderInv, Held
    <3>2. CallMild
      BY <1>3, <2>1 DEF LockForCaller, CallMild, TypeOK
    <3> QED BY <1>1, <3>1, <3>2, QuietStep
  <2>2. CASE ~pubClosed
    <3>1. /\ pub' = Start(e, [event |-> e, retries |-> 0, to |-> "main"])
          /\ UNCHANGED <<msg, dead, rows, con, cur>>
          /\ Persist
      BY <1>3, <1>1, <2>2 DEF LockForCaller, store, consumer
    <3>2. e # "consumer"
      BY LogAssumption
    <3>3. PubInv'
      BY <3>1, <3>2 DEF PubInv, Start
    <3>4. AckInv'
      BY <3>1, SafeStable DEF KeepInv, AckInv, SafeBeside
    <3>5. \A x \in Sources : call'[x] = "ok" => call[x] = "ok"
      BY <1>3, <2>2 DEF LockForCaller, TypeOK
    <3>6. NothingLost'
      BY <3>1, <3>5, SafeStable DEF KeepInv, NothingLost, Safe
    <3> QED BY <3>3, <3>4, <3>6 DEF KeepInv
  <2> QED BY <2>1, <2>2
<1>4. CASE Recover
  <2>1. PubMild
    BY <1>4, NobodyAssumption
      DEF Recover, At, GoTo, store, client, publisher, consumer, process, TypeOK,
          HolderInv, PubMild, Publication
  <2>2. ConMild
    BY <1>4 DEF Recover, At, GoTo, store, client, publisher, consumer, process, ConMild
  <2>3. CallMild
    BY <1>4
      DEF Recover, At, GoTo, store, client, publisher, consumer, process, CallMild, TypeOK
  <2>4. WireMild
    BY <1>4, NobodyAssumption
      DEF Recover, At, GoTo, store, client, publisher, consumer, process, TypeOK,
          Messages, Copy, Held, WireMild
  <2> QED BY <1>1, <2>1, <2>2, <2>3, <2>4, QuietStep
<1>5. CASE PublisherReconnect
  <2>1. PubMild
    BY <1>5, GoToStep, FinishStep, NobodyAssumption
      DEF PublisherReconnect, At, Steps, Reusable, Cancelled, store, client, publisher,
          consumer, process, TypeOK, HolderInv, PubMild, Steps
  <2>2. ConMild
    BY <1>5, FinishStep
      DEF PublisherReconnect, At, Steps, Reusable, Cancelled, store, client, publisher,
          consumer, process, ConMild, TypeOK
  <2>3. CallMild
    BY <1>5, FinishCalls
      DEF PublisherReconnect, At, Steps, Reusable, Cancelled, store, client, publisher,
          consumer, process, CallMild, TypeOK
  <2>4. WireMild
    BY <1>5, NobodyAssumption
      DEF PublisherReconnect, At, Steps, Reusable, Cancelled, store, client, publisher,
          consumer, process, TypeOK, Messages, Copy, Held, WireMild
  <2> QED BY <1>1, <2>1, <2>2, <2>3, <2>4, QuietStep
<1>6. CASE PublisherDial
  <2>1. pub # Nobody
    BY <1>6 DEF PublisherDial, At
  <2>2. \/ GoTo("open") /\ UNCHANGED <<call, con>>
        \/ Finish(FALSE)
    BY <1>6 DEF PublisherDial
  <2>3. msg' \in {msg, Requeued(WithoutWire(msg))} /\ UNCHANGED cur
    BY <1>6 DEF PublisherDial, Swap, Sever
  <2>4. PubMild
    BY <2>1, <2>2, <2>3, GoToStep, FinishStep DEF PubMild, Steps
  <2>5. ConMild
    BY <2>1, <2>2, <2>3, FinishStep DEF ConMild
  <2>6. CallMild
    BY <2>1, <2>2, FinishCalls DEF CallMild
  <2>7. WireMild
    BY <2>3, Released, NobodyAssumption DEF TypeOK, Messages, Copy, Held, WireMild
  <2> QED BY <1>1, <2>4, <2>5, <2>6, <2>7, QuietStep
<1>7. CASE OpenPublisherChannel
  <2>1. PubMild
    BY <1>7, GoToStep, FinishStep, NobodyAssumption
      DEF OpenPublisherChannel, At, Steps, store, client, publisher, consumer, process,
          TypeOK, HolderInv, PubMild, Steps
  <2>2. ConMild
    BY <1>7, FinishStep
      DEF OpenPublisherChannel, At, Steps, store, client, publisher, consumer, process,
          ConMild, TypeOK
  <2>3. CallMild
    BY <1>7, FinishCalls
      DEF OpenPublisherChannel, At, Steps, store, client, publisher, consumer, process,
          CallMild, TypeOK
  <2>4. WireMild
    BY <1>7, NobodyAssumption
      DEF OpenPublisherChannel, At, Steps, store, client, publisher, consumer, process,
          TypeOK, Messages, Copy, Held, WireMild
  <2> QED BY <1>1, <2>1, <2>2, <2>3, <2>4, QuietStep
<1>8. CASE Send
  <2>1. CASE pubCh = "open"
    <3>1. PICK i \in Slots :
            /\ msg[i] = Nobody
            /\ msg' = [msg EXCEPT ![i] = [event |-> pub.event, retries |-> pub.retries,
                                          at |-> "wire", to |-> pub.to]]
            /\ pub' = [pub EXCEPT !.step = "wait", !.slot = i]
      BY <1>8, <2>1 DEF Send, Fresh
    <3>2. Persist /\ UNCHANGED <<dead, rows, call, con,
                                 cur>> /\ pub # Nobody /\ pub \in Publication
      BY <1>8, <1>1, <2>1 DEF Send, At, process, TypeOK
    <3>3. /\ pub'.by = pub.by /\ pub'.event = pub.event
          /\ pub'.step = "wait" /\ pub'.slot = i
      BY <3>1, <3>2 DEF Publication
    <3>4. msg'[i].event = pub.event
      BY <3>1 DEF TypeOK
    <3>5. PubInv'
      BY <3>2, <3>3, <3>4 DEF KeepInv, PubInv
    <3>6. AckInv' /\ NothingLost'
      BY <3>2, SafeStable DEF KeepInv, AckInv, NothingLost, Safe, SafeBeside
    <3> QED BY <3>5, <3>6 DEF KeepInv
  <2>2. CASE pubCh # "open"
    <3>1. Finish(FALSE) /\ UNCHANGED <<msg, cur>> /\ pub # Nobody
      BY <1>8, <2>2 DEF Send, At
    <3>2. PubMild /\ ConMild
      BY <3>1, FinishStep DEF PubMild, ConMild
    <3>3. CallMild /\ WireMild
      BY <3>1, FinishCalls DEF CallMild, WireMild, Held
    <3> QED BY <1>1, <3>2, <3>3, QuietStep
  <2> QED BY <2>1, <2>2
<1>9. CASE Confirmed
  <2>1. /\ pub # Nobody /\ UNCHANGED <<msg, dead, rows, cur>>
        /\ Finish(pub.step = "acked") /\ (pub.step = "acked") \in BOOLEAN
    BY <1>9 DEF Confirmed, At, store
  <2>2. Persist
    BY <1>1
  <2>3. PubInv'
    BY <2>1, FinishStep DEF PubInv
  <2>4. AckInv'
    <3>1. CASE con' = con
      BY <2>1, <2>2, <3>1, SafeStable DEF KeepInv, AckInv, SafeBeside
    <3>2. CASE con' # con
      <4>1. pub.by = "consumer" /\ con' = IF pub.step = "acked" THEN "ack" ELSE "nack"
        BY <2>1, <3>2, FinishStep
      <4> QED BY <2>1, <2>2, <4>1, SafeStable DEF KeepInv, PubInv, AckInv, SafeBeside
    <3> QED BY <3>1, <3>2
  <2>5. NothingLost'
    <3> SUFFICES ASSUME NEW e \in Sources, call'[e] = "ok" PROVE Safe(e)'
      BY DEF NothingLost, Safe
    <3>1. call[e] = "ok" \/ (pub.step = "acked" /\ pub.by = e /\ pub.by # "consumer")
      BY <2>1, FinishCalls
    <3>2. Safe(e)
      BY <2>1, <3>1 DEF KeepInv, PubInv, NothingLost, Safe
    <3> QED BY <2>2, <3>2, SafeStable
  <2> QED BY <2>3, <2>4, <2>5 DEF KeepInv
<1>10. CASE GiveUp
  <2>1. PubMild
    BY <1>10, GoToStep, FinishStep, NobodyAssumption
      DEF GiveUp, At, Cancelled, store, client, publisher, consumer, process, TypeOK,
          HolderInv, PubMild, Steps
  <2>2. ConMild
    BY <1>10, FinishStep
      DEF GiveUp, At, Cancelled, store, client, publisher, consumer, process, ConMild,
          TypeOK
  <2>3. CallMild
    BY <1>10, FinishCalls
      DEF GiveUp, At, Cancelled, store, client, publisher, consumer, process, CallMild,
          TypeOK
  <2>4. WireMild
    BY <1>10, NobodyAssumption
      DEF GiveUp, At, Cancelled, store, client, publisher, consumer, process, TypeOK,
          Messages, Copy, Held, WireMild
  <2> QED BY <1>1, <2>1, <2>2, <2>3, <2>4, QuietStep
<1>11. CASE LockForConsumer
  <2>1. /\ UNCHANGED <<msg, dead, rows, call, cur>>
        /\ con' \in {"nack", "moving"}
        /\ pub' \in {pub, Start("consumer", Substitute)} /\ pub = Nobody
        /\ Persist
    BY <1>11, <1>1 DEF LockForConsumer, store
  <2>2. Substitute.event = cur.event
    BY DEF Substitute
  <2>3. PubInv'
    BY <2>1, <2>2 DEF PubInv, Start
  <2>4. AckInv' /\ NothingLost'
    BY <2>1, SafeStable DEF KeepInv, AckInv, NothingLost, Safe
  <2> QED BY <2>3, <2>4 DEF KeepInv
<1>12. CASE OpenConsumer
  <2>1. PubMild
    BY <1>12, NobodyAssumption
      DEF OpenConsumer, Cancelled, store, client, publisher, consumer, process, TypeOK,
          HolderInv, PubMild, Publication
  <2>2. ConMild
    BY <1>12
      DEF OpenConsumer, Cancelled, store, client, publisher, consumer, process, ConMild
  <2>3. CallMild
    BY <1>12
      DEF OpenConsumer, Cancelled, store, client, publisher, consumer, process, CallMild,
          TypeOK
  <2>4. WireMild
    BY <1>12, NobodyAssumption
      DEF OpenConsumer, Cancelled, store, client, publisher, consumer, process, TypeOK,
          Messages, Copy, Held, WireMild
  <2> QED BY <1>1, <2>1, <2>2, <2>3, <2>4, QuietStep
<1>13. CASE Interrupted
  <2>1. PubMild
    BY <1>13, NobodyAssumption
      DEF Interrupted, Cancelled, store, client, publisher, consumer, process, TypeOK,
          HolderInv, PubMild, Publication
  <2>2. ConMild
    BY <1>13
      DEF Interrupted, Cancelled, store, client, publisher, consumer, process, ConMild
  <2>3. CallMild
    BY <1>13
      DEF Interrupted, Cancelled, store, client, publisher, consumer, process, CallMild,
          TypeOK
  <2>4. WireMild
    BY <1>13, Released, NobodyAssumption
      DEF Interrupted, Cancelled, store, client, publisher, consumer, process, TypeOK,
          Messages, Copy, Held, WireMild
  <2> QED BY <1>1, <2>1, <2>2, <2>3, <2>4, QuietStep
<1>14. CASE Handle
  <2>1. /\ UNCHANGED <<msg, dead, call, pub, conCh, cur>>
        /\ con' = "ack" => cur.event \in Events /\ rows' = OnConflict(rows, cur.event)
        /\ con = "handling" /\ Persist
    BY <1>14, <1>1 DEF Handle, publisher
  <2>2. PubMild /\ CallMild /\ WireMild
    BY <2>1 DEF HolderInv, PubMild, CallMild, WireMild, Held
  <2>3. CASE con' # "ack"
    BY <2>1, <2>2, <2>3, QuietStep DEF ConMild
  <2>4. CASE con' = "ack"
    <3>1. rows'[cur.event] > 0
      BY <2>1, <2>4 DEF OnConflict, TypeOK
    <3>2. AckInv'
      BY <2>1, <2>4, <3>1 DEF AckInv, SafeBeside, Stored
    <3>3. NothingLost'
      BY <2>1, SafeStable DEF KeepInv, NothingLost, Safe
    <3>4. PubInv'
      <4>1. pub # Nobody => pub.by # "consumer"
        BY <2>1 DEF HolderInv
      <4>2. pub # Nobody /\ pub.step = "acked" => Safe(pub.event)'
        BY <2>1, <4>1, SafeStable DEF KeepInv, PubInv
      <4> QED BY <2>1, <4>1, <4>2 DEF KeepInv, PubInv, Held
    <3> QED BY <3>2, <3>3, <3>4 DEF KeepInv
  <2> QED BY <2>3, <2>4
<1>15. CASE Nack
  <2>1. PubMild
    BY <1>15, NobodyAssumption
      DEF Nack, store, client, publisher, consumer, process, TypeOK, HolderInv, PubMild,
          Publication
  <2>2. ConMild
    BY <1>15 DEF Nack, store, client, publisher, consumer, process, ConMild
  <2>3. CallMild
    BY <1>15 DEF Nack, store, client, publisher, consumer, process, CallMild, TypeOK
  <2>4. WireMild
    BY <1>15, NobodyAssumption
      DEF Nack, store, client, publisher, consumer, process, TypeOK, Messages, Copy, Held,
          WireMild
  <2> QED BY <1>1, <2>1, <2>2, <2>3, <2>4, QuietStep
<1>16. CASE Pause
  <2>1. PubMild
    BY <1>16, NobodyAssumption
      DEF Pause, Cancelled, store, client, publisher, consumer, process, TypeOK,
          HolderInv, PubMild, Publication
  <2>2. ConMild
    BY <1>16 DEF Pause, Cancelled, store, client, publisher, consumer, process, ConMild
  <2>3. CallMild
    BY <1>16
      DEF Pause, Cancelled, store, client, publisher, consumer, process, CallMild, TypeOK
  <2>4. WireMild
    BY <1>16, NobodyAssumption
      DEF Pause, Cancelled, store, client, publisher, consumer, process, TypeOK, Messages,
          Copy, Held, WireMild
  <2> QED BY <1>1, <2>1, <2>2, <2>3, <2>4, QuietStep
<1>17. CASE ConsumerReconnect
  <2>1. PubMild
    BY <1>17, NobodyAssumption
      DEF ConsumerReconnect, Reusable, Cancelled, store, client, publisher, consumer,
          process, TypeOK, HolderInv, PubMild, Publication
  <2>2. ConMild
    BY <1>17
      DEF ConsumerReconnect, Reusable, Cancelled, store, client, publisher, consumer,
          process, ConMild
  <2>3. CallMild
    BY <1>17
      DEF ConsumerReconnect, Reusable, Cancelled, store, client, publisher, consumer,
          process, CallMild, TypeOK
  <2>4. WireMild
    BY <1>17, NobodyAssumption
      DEF ConsumerReconnect, Reusable, Cancelled, store, client, publisher, consumer,
          process, TypeOK, Messages, Copy, Held, WireMild
  <2> QED BY <1>1, <2>1, <2>2, <2>3, <2>4, QuietStep
<1>18. CASE ConsumerDial
  <2>1. PubMild
    BY <1>18, UnconfirmedStep, NobodyAssumption
      DEF ConsumerDial, Swap, Sever, Broken, store, client, publisher, consumer, process,
          TypeOK, HolderInv, PubMild, Publication
  <2>2. ConMild
    BY <1>18
      DEF ConsumerDial, Swap, Sever, Broken, store, client, publisher, consumer, process,
          ConMild
  <2>3. CallMild
    BY <1>18
      DEF ConsumerDial, Swap, Sever, Broken, store, client, publisher, consumer, process,
          CallMild, TypeOK
  <2>4. WireMild
    BY <1>18, Released, NobodyAssumption
      DEF ConsumerDial, Swap, Sever, Broken, store, client, publisher, consumer, process,
          TypeOK, Messages, Copy, Held, WireMild
  <2> QED BY <1>1, <2>1, <2>2, <2>3, <2>4, QuietStep
<1>19. ASSUME NEW i \in Slots, Take(i) PROVE KeepInv'
  <2>1. PubMild
    BY <1>19, NobodyAssumption
      DEF Take, store, client, publisher, consumer, process, TypeOK, HolderInv, PubMild,
          Publication
  <2>2. ConMild
    BY <1>19 DEF Take, store, client, publisher, consumer, process, ConMild
  <2>3. CallMild
    BY <1>19 DEF Take, store, client, publisher, consumer, process, CallMild, TypeOK
  <2>4. WireMild
    BY <1>19, NobodyAssumption
      DEF Take, store, client, publisher, consumer, process, TypeOK, Messages, Copy, Held,
          WireMild
  <2> QED BY <1>1, <2>1, <2>2, <2>3, <2>4, QuietStep
<1>20. ASSUME NEW p \in Poison, Foreign(p) PROVE KeepInv'
  <2>1. PICK i \in Slots :
          /\ msg[i] = Nobody
          /\ msg' = [msg EXCEPT ![i] = [event |-> p, retries |-> 0, at |-> "main", to |-> "main"]]
    BY <1>20 DEF Foreign, Fresh
  <2>2. /\ UNCHANGED <<dead, rows, pub, con, cur>> /\ Persist
        /\ call' = [call EXCEPT ![p] = "ok"]
    BY <1>20, <1>1 DEF Foreign, publisher, consumer
  <2>3. PubInv'
    <3>1. \A j \in Slots : Held(j, {"wire"})' => Held(j, {"wire"}) /\ msg'[j] = msg[j]
      BY <2>1 DEF TypeOK, Held
    <3>2. PubMild /\ WireMild
      BY <2>2, <3>1 DEF PubMild, WireMild
    <3> QED BY <2>2, <3>1, SafeStable DEF KeepInv, PubInv, Safe, SafeBeside
  <2>4. AckInv'
    BY <2>2, SafeStable DEF KeepInv, AckInv, SafeBeside
  <2>5. NothingLost'
    <3> SUFFICES ASSUME NEW e \in Sources, call'[e] = "ok" PROVE Safe(e)'
      BY DEF NothingLost, Safe
    <3>1. CASE e = p
      <4>1. InQueue(i, p)'
        <5>1. msg'[i] = [event |-> p, retries |-> 0, at |-> "main", to |-> "main"]
          BY <2>1 DEF TypeOK
        <5>2. msg'[i] \in Copy
          BY <5>1, LogAssumption DEF Copy, Sources, Queues
        <5> QED BY <5>1, <5>2, NobodyAssumption DEF InQueue, Held
      <4> QED BY <3>1, <4>1 DEF Safe, InBroker, InQueue
    <3>2. CASE e # p
      BY <2>2, <3>2, SafeStable DEF KeepInv, NothingLost, Safe, TypeOK
    <3> QED BY <3>1, <3>2
  <2> QED BY <2>3, <2>4, <2>5 DEF KeepInv
<1>21. ASSUME NEW i \in Slots, BrokerTakes(i) PROVE KeepInv'
  <2>1. /\ Held(i, {"wire"}) /\ UNCHANGED <<rows, call, con, cur>> /\ Persist
        /\ pub' = pub \/ (Awaits(i) /\ pub' = [pub EXCEPT !.step = "acked"])
        /\ \A j \in Slots : j # i => msg'[j] = msg[j]
    BY <1>21, <1>1 DEF BrokerTakes, consumer, TypeOK
  <2>2. ConMild /\ CallMild
    BY <2>1 DEF ConMild, CallMild
  <2>3. \A e : e = msg[i].event => e \in dead' \/ InQueue(i, e)'
    <3>1. CASE msg[i].to = "dead"
      BY <1>21, <3>1 DEF BrokerTakes
    <3>2. CASE msg[i].to # "dead"
      <4>1. msg[i] \in Copy /\ msg'[i] = [msg[i] EXCEPT !.at = msg[i].to]
        BY <1>21, <3>2 DEF BrokerTakes, TypeOK, Held
      <4>2. msg'[i] \in Copy /\ msg'[i].event = msg[i].event /\ msg'[i].at \in {"main", "retry"}
        BY <3>2, <4>1 DEF Copy, Queues
      <4> QED BY <4>2, NobodyAssumption DEF InQueue, Held
    <3> QED BY <3>1, <3>2
  <2>4. ~Held(i, {"wire"})'
    BY <1>21, NobodyAssumption DEF BrokerTakes, TypeOK, Copy, Queues, Held
  <2>5. WireMild
    BY <2>1, <2>4 DEF WireMild, Held
  <2>6. CASE pub' = pub
    <3>1. PubMild
      BY <2>1, <2>6 DEF PubMild
    <3> QED BY <2>1, <2>2, <2>5, <3>1, QuietStep
  <2>7. CASE Awaits(i) /\ pub' = [pub EXCEPT !.step = "acked"]
    <3>1. /\ pub # Nobody /\ pub.step = "wait" /\ pub.slot = i
          /\ msg[i].event = pub.event
          /\ pub'.by = pub.by /\ pub'.event = pub.event /\ pub'.step = "acked"
      BY <2>1, <2>7 DEF Awaits, KeepInv, PubInv, TypeOK, Publication
    <3>2. CASE pub.by = "consumer"
      <4>1. i # cur.slot /\ pub.event = cur.event
        BY <2>1, <3>1, <3>2 DEF HolderInv, CurInv, Busy, Held, KeepInv, PubInv
      <4>2. SafeBeside(cur.slot, cur.event)'
        <5>1. cur' = cur /\ msg[i].event = cur.event
          BY <2>1, <3>1, <4>1
        <5> QED BY <2>3, <4>1, <5>1 DEF SafeBeside, InQueue
      <4>3. PubInv'
        BY <2>1, <3>1, <3>2, <4>1, <4>2 DEF PubInv
      <4> QED BY <2>1, <4>3, SafeStable DEF KeepInv, AckInv, NothingLost, Safe, SafeBeside
    <3>3. CASE pub.by # "consumer"
      <4>1. Safe(pub.event)'
        <5>1. pub'.event = msg[i].event
          BY <3>1
        <5> QED BY <2>3, <5>1 DEF Safe, InBroker, InQueue
      <4>2. PubInv'
        BY <3>1, <3>3, <4>1 DEF KeepInv, PubInv
      <4> QED BY <2>1, <4>2, SafeStable DEF KeepInv, AckInv, NothingLost, Safe, SafeBeside
    <3> QED BY <3>2, <3>3
  <2> QED BY <2>1, <2>6, <2>7
<1>22. ASSUME NEW i \in Slots, BrokerRefuses(i) PROVE KeepInv'
  <2>1. PubMild
    BY <1>22, NobodyAssumption
      DEF BrokerRefuses, Awaits, store, client, publisher, consumer, process, TypeOK,
          HolderInv, PubMild, Publication
  <2>2. ConMild
    BY <1>22 DEF BrokerRefuses, Awaits, store, client, publisher, consumer, process, ConMild
  <2>3. CallMild
    BY <1>22
      DEF BrokerRefuses, Awaits, store, client, publisher, consumer, process, CallMild,
          TypeOK
  <2>4. WireMild
    BY <1>22, NobodyAssumption
      DEF BrokerRefuses, Awaits, store, client, publisher, consumer, process, TypeOK,
          Messages, Copy, Held, WireMild
  <2> QED BY <1>1, <2>1, <2>2, <2>3, <2>4, QuietStep
<1>23. ASSUME NEW i \in Slots, Expire(i) PROVE KeepInv'
  <2>1. PubMild
    BY <1>23, NobodyAssumption
      DEF Expire, store, client, publisher, consumer, process, TypeOK, HolderInv, PubMild,
          Publication
  <2>2. ConMild
    BY <1>23 DEF Expire, store, client, publisher, consumer, process, ConMild
  <2>3. CallMild
    BY <1>23 DEF Expire, store, client, publisher, consumer, process, CallMild, TypeOK
  <2>4. WireMild
    BY <1>23, NobodyAssumption
      DEF Expire, store, client, publisher, consumer, process, TypeOK, Messages, Copy,
          Held, WireMild
  <2> QED BY <1>1, <2>1, <2>2, <2>3, <2>4, QuietStep
<1>24. ASSUME NEW i \in Slots, Deliver(i) PROVE KeepInv'
  <2>1. PubMild
    BY <1>24, NobodyAssumption
      DEF Deliver, store, client, publisher, consumer, process, TypeOK, HolderInv,
          PubMild, Publication
  <2>2. ConMild
    BY <1>24 DEF Deliver, store, client, publisher, consumer, process, ConMild
  <2>3. CallMild
    BY <1>24 DEF Deliver, store, client, publisher, consumer, process, CallMild, TypeOK
  <2>4. WireMild
    BY <1>24, NobodyAssumption
      DEF Deliver, store, client, publisher, consumer, process, TypeOK, Messages, Copy,
          Held, WireMild
  <2> QED BY <1>1, <2>1, <2>2, <2>3, <2>4, QuietStep
<1>25. CASE BreakConnection
  <2>1. PubMild
    BY <1>25, UnconfirmedStep, NobodyAssumption
      DEF BreakConnection, Sever, Broken, store, client, publisher, consumer, process,
          TypeOK, HolderInv, PubMild, Publication
  <2>2. ConMild
    BY <1>25
      DEF BreakConnection, Sever, Broken, store, client, publisher, consumer, process,
          ConMild
  <2>3. CallMild
    BY <1>25
      DEF BreakConnection, Sever, Broken, store, client, publisher, consumer, process,
          CallMild, TypeOK
  <2>4. WireMild
    BY <1>25, Released, NobodyAssumption
      DEF BreakConnection, Sever, Broken, store, client, publisher, consumer, process,
          TypeOK, Messages, Copy, Held, WireMild
  <2> QED BY <1>1, <2>1, <2>2, <2>3, <2>4, QuietStep
<1>26. CASE BreakPublisherChannel
  <2>1. PubMild
    BY <1>26, UnconfirmedStep, NobodyAssumption
      DEF BreakPublisherChannel, WithoutWire, store, client, publisher, consumer, process,
          TypeOK, HolderInv, PubMild, Publication
  <2>2. ConMild
    BY <1>26
      DEF BreakPublisherChannel, WithoutWire, store, client, publisher, consumer, process,
          ConMild
  <2>3. CallMild
    BY <1>26
      DEF BreakPublisherChannel, WithoutWire, store, client, publisher, consumer, process,
          CallMild, TypeOK
  <2>4. WireMild
    BY <1>26, Released, NobodyAssumption
      DEF BreakPublisherChannel, WithoutWire, store, client, publisher, consumer, process,
          TypeOK, Messages, Copy, Held, WireMild
  <2> QED BY <1>1, <2>1, <2>2, <2>3, <2>4, QuietStep
<1>27. CASE BreakConsumerChannel
  <2>1. PubMild
    BY <1>27, NobodyAssumption
      DEF BreakConsumerChannel, store, client, publisher, consumer, process, TypeOK,
          HolderInv, PubMild, Publication
  <2>2. ConMild
    BY <1>27 DEF BreakConsumerChannel, store, client, publisher, consumer, process, ConMild
  <2>3. CallMild
    BY <1>27
      DEF BreakConsumerChannel, store, client, publisher, consumer, process, CallMild,
          TypeOK
  <2>4. WireMild
    BY <1>27, Released, NobodyAssumption
      DEF BreakConsumerChannel, store, client, publisher, consumer, process, TypeOK,
          Messages, Copy, Held, WireMild
  <2> QED BY <1>1, <2>1, <2>2, <2>3, <2>4, QuietStep
<1>28. CASE Shutdown
  <2>1. PubMild
    BY <1>28, NobodyAssumption
      DEF Shutdown, store, client, publisher, consumer, process, TypeOK, HolderInv,
          PubMild, Publication
  <2>2. ConMild
    BY <1>28 DEF Shutdown, store, client, publisher, consumer, process, ConMild
  <2>3. CallMild
    BY <1>28 DEF Shutdown, store, client, publisher, consumer, process, CallMild, TypeOK
  <2>4. WireMild
    BY <1>28, NobodyAssumption
      DEF Shutdown, store, client, publisher, consumer, process, TypeOK, Messages, Copy,
          Held, WireMild
  <2> QED BY <1>1, <2>1, <2>2, <2>3, <2>4, QuietStep
<1>29. CASE ClosePublisher
  <2>1. PubMild
    BY <1>29, NobodyAssumption
      DEF ClosePublisher, store, client, publisher, consumer, process, TypeOK, HolderInv,
          PubMild, Publication
  <2>2. ConMild
    BY <1>29 DEF ClosePublisher, store, client, publisher, consumer, process, ConMild
  <2>3. CallMild
    BY <1>29
      DEF ClosePublisher, store, client, publisher, consumer, process, CallMild, TypeOK
  <2>4. WireMild
    BY <1>29, NobodyAssumption
      DEF ClosePublisher, store, client, publisher, consumer, process, TypeOK, Messages,
          Copy, Held, WireMild
  <2> QED BY <1>1, <2>1, <2>2, <2>3, <2>4, QuietStep
<1>30. CASE CloseClient
  <2>1. PubMild
    BY <1>30, UnconfirmedStep, NobodyAssumption
      DEF CloseClient, Sever, Broken, store, client, publisher, consumer, process, TypeOK,
          HolderInv, PubMild, Publication
  <2>2. ConMild
    BY <1>30
      DEF CloseClient, Sever, Broken, store, client, publisher, consumer, process, ConMild
  <2>3. CallMild
    BY <1>30
      DEF CloseClient, Sever, Broken, store, client, publisher, consumer, process,
          CallMild, TypeOK
  <2>4. WireMild
    BY <1>30, Released, NobodyAssumption
      DEF CloseClient, Sever, Broken, store, client, publisher, consumer, process, TypeOK,
          Messages, Copy, Held, WireMild
  <2> QED BY <1>1, <2>1, <2>2, <2>3, <2>4, QuietStep
<1>31. CASE Exit
  <2>1. PubMild
    BY <1>31, NobodyAssumption
      DEF Exit, Die, store, client, publisher, consumer, process, TypeOK, HolderInv,
          PubMild, Publication
  <2>2. ConMild
    BY <1>31 DEF Exit, Die, store, client, publisher, consumer, process, ConMild
  <2>3. CallMild
    BY <1>31 DEF Exit, Die, store, client, publisher, consumer, process, CallMild, TypeOK
  <2>4. WireMild
    BY <1>31, Released, NobodyAssumption
      DEF Exit, Die, store, client, publisher, consumer, process, TypeOK, Messages, Copy,
          Held, WireMild
  <2> QED BY <1>1, <2>1, <2>2, <2>3, <2>4, QuietStep
<1>32. CASE Crash
  <2>1. PubMild
    BY <1>32, NobodyAssumption
      DEF Crash, Die, store, client, publisher, consumer, process, TypeOK, HolderInv,
          PubMild, Publication
  <2>2. ConMild
    BY <1>32 DEF Crash, Die, store, client, publisher, consumer, process, ConMild
  <2>3. CallMild
    BY <1>32 DEF Crash, Die, store, client, publisher, consumer, process, CallMild, TypeOK
  <2>4. WireMild
    BY <1>32, Released, NobodyAssumption
      DEF Crash, Die, store, client, publisher, consumer, process, TypeOK, Messages, Copy,
          Held, WireMild
  <2> QED BY <1>1, <2>1, <2>2, <2>3, <2>4, QuietStep
<1>33. CASE Restart
  <2>1. PubMild
    BY <1>33, NobodyAssumption
      DEF Restart, store, client, publisher, consumer, process, TypeOK, HolderInv,
          PubMild, Publication
  <2>2. ConMild
    BY <1>33 DEF Restart, store, client, publisher, consumer, process, ConMild
  <2>3. CallMild
    BY <1>33 DEF Restart, store, client, publisher, consumer, process, CallMild, TypeOK
  <2>4. WireMild
    BY <1>33, NobodyAssumption
      DEF Restart, store, client, publisher, consumer, process, TypeOK, Messages, Copy,
          Held, WireMild
  <2> QED BY <1>1, <2>1, <2>2, <2>3, <2>4, QuietStep
<1>34. CASE UNCHANGED vars
  <2>1. PubMild /\ ConMild /\ CallMild /\ WireMild
    BY <1>34
      DEF vars, store, client, publisher, consumer, process, HolderInv, PubMild, ConMild,
          CallMild, WireMild, Held
  <2> QED BY <1>1, <2>1, QuietStep
<1> QED
  BY <1>2, <1>3, <1>4, <1>5, <1>6, <1>7, <1>8, <1>9, <1>10, <1>11, <1>12, <1>13, <1>14,
    <1>15, <1>16, <1>17, <1>18, <1>19, <1>20, <1>21, <1>22, <1>23, <1>24, <1>25, <1>26,
    <1>27, <1>28, <1>29, <1>30, <1>31, <1>32, <1>33, <1>34
    DEF Next, Publishing, Consuming, Broker, Process

----------------------------------------------------------------------------
(* Layer 3: channels, rows and the retry count *)

\* Who dials holds reconnectMu and has found the connection broken; a closed
\* publisher publishes nothing.
SessionInv ==
    /\ pubClosed => pub = Nobody /\ pubCh = "none"
    /\ At("dial") => dialer = "publisher"
    /\ con = "dial" => dialer = "consumer"
    /\ dialer # Nobody => conn = "broken"
    /\ up = "down" => dialer = Nobody
    /\ OneRow

LEMMA SessionInit == Init => SessionInv
BY DEF Init, SessionInv, At, OneRow

LEMMA SessionStep ==
    ASSUME HeldInv, SessionInv, [Next]_vars
    PROVE  SessionInv'
<1> USE DEF HeldInv
<1>1. ASSUME NEW e \in Events, Request(e) PROVE SessionInv'
  BY <1>1, LogAssumption, NobodyAssumption
    DEF Request, store, client, publisher, consumer, process, TypeOK, HolderInv,
        SessionInv, At, OneRow
<1>2. ASSUME NEW e \in Events, LockForCaller(e) PROVE SessionInv'
  BY <1>2, LogAssumption, NobodyAssumption
    DEF LockForCaller, Start, store, client, publisher, consumer, process, TypeOK,
        HolderInv, SessionInv, At, OneRow
<1>3. CASE Recover
  BY <1>3, LogAssumption, NobodyAssumption, GoToStep, FinishStep
    DEF Recover, At, Steps, store, client, publisher, consumer, process, TypeOK,
        HolderInv, SessionInv, At, OneRow, Steps
<1>4. CASE PublisherReconnect
  BY <1>4, LogAssumption, NobodyAssumption, GoToStep, FinishStep
    DEF PublisherReconnect, At, Steps, Reusable, Cancelled, store, client, publisher,
        consumer, process, TypeOK, HolderInv, SessionInv, At, OneRow, Steps
<1>5. CASE PublisherDial
  BY <1>5, LogAssumption, NobodyAssumption, GoToStep, FinishStep
    DEF PublisherDial, At, Steps, Swap, Sever, Broken, store, client, publisher, consumer,
        process, TypeOK, HolderInv, SessionInv, At, OneRow, Steps
<1>6. CASE OpenPublisherChannel
  BY <1>6, LogAssumption, NobodyAssumption, GoToStep, FinishStep
    DEF OpenPublisherChannel, At, Steps, store, client, publisher, consumer, process,
        TypeOK, HolderInv, SessionInv, At, OneRow, Steps
<1>7. CASE Send
  BY <1>7, LogAssumption, NobodyAssumption, GoToStep, FinishStep
    DEF Send, At, Fresh, store, client, publisher, consumer, process, TypeOK, HolderInv,
        SessionInv, At, OneRow, Steps, Publication
<1>8. CASE Confirmed
  BY <1>8, LogAssumption, NobodyAssumption, GoToStep, FinishStep
    DEF Confirmed, At, store, client, publisher, consumer, process, TypeOK, HolderInv,
        SessionInv, At, OneRow, Steps
<1>9. CASE GiveUp
  BY <1>9, LogAssumption, NobodyAssumption, GoToStep, FinishStep
    DEF GiveUp, At, Cancelled, store, client, publisher, consumer, process, TypeOK,
        HolderInv, SessionInv, At, OneRow, Steps
<1>10. CASE LockForConsumer
  BY <1>10, LogAssumption, NobodyAssumption
    DEF LockForConsumer, Start, Substitute, Exhausted, Invalid, store, client, publisher,
        consumer, process, TypeOK, HolderInv, SessionInv, At, OneRow
<1>11. CASE OpenConsumer
  BY <1>11, LogAssumption, NobodyAssumption
    DEF OpenConsumer, Cancelled, store, client, publisher, consumer, process, TypeOK,
        HolderInv, SessionInv, At, OneRow
<1>12. CASE Interrupted
  BY <1>12, LogAssumption, NobodyAssumption
    DEF Interrupted, Cancelled, store, client, publisher, consumer, process, TypeOK,
        HolderInv, SessionInv, At, OneRow
<1>13. CASE Handle
  BY <1>13, LogAssumption, NobodyAssumption
    DEF Handle, OnConflict, Blamed, store, client, publisher, consumer, process, TypeOK,
        HolderInv, SessionInv, At, OneRow
<1>14. CASE Ack
  BY <1>14, LogAssumption, NobodyAssumption
    DEF Ack, store, client, publisher, consumer, process, TypeOK, HolderInv, SessionInv,
        At, OneRow
<1>15. CASE Nack
  BY <1>15, LogAssumption, NobodyAssumption
    DEF Nack, store, client, publisher, consumer, process, TypeOK, HolderInv, SessionInv,
        At, OneRow
<1>16. CASE Pause
  BY <1>16, LogAssumption, NobodyAssumption
    DEF Pause, Cancelled, store, client, publisher, consumer, process, TypeOK, HolderInv,
        SessionInv, At, OneRow
<1>17. CASE ConsumerReconnect
  BY <1>17, LogAssumption, NobodyAssumption
    DEF ConsumerReconnect, Reusable, Cancelled, store, client, publisher, consumer,
        process, TypeOK, HolderInv, SessionInv, At, OneRow
<1>18. CASE ConsumerDial
  BY <1>18, LogAssumption, NobodyAssumption, UnconfirmedStep
    DEF ConsumerDial, Swap, Sever, Broken, store, client, publisher, consumer, process,
        TypeOK, HolderInv, SessionInv, At, OneRow
<1>19. ASSUME NEW i \in Slots, Take(i) PROVE SessionInv'
  BY <1>19, LogAssumption, NobodyAssumption
    DEF Take, store, client, publisher, consumer, process, TypeOK, HolderInv, SessionInv,
        At, OneRow
<1>20. ASSUME NEW p \in Poison, Foreign(p) PROVE SessionInv'
  BY <1>20, LogAssumption, NobodyAssumption
    DEF Foreign, Fresh, store, client, publisher, consumer, process, TypeOK, HolderInv,
        SessionInv, At, OneRow
<1>21. ASSUME NEW i \in Slots, BrokerTakes(i) PROVE SessionInv'
  BY <1>21, LogAssumption, NobodyAssumption
    DEF BrokerTakes, Awaits, store, client, publisher, consumer, process, TypeOK,
        HolderInv, SessionInv, At, OneRow, Publication
<1>22. ASSUME NEW i \in Slots, BrokerRefuses(i) PROVE SessionInv'
  BY <1>22, LogAssumption, NobodyAssumption
    DEF BrokerRefuses, Awaits, store, client, publisher, consumer, process, TypeOK,
        HolderInv, SessionInv, At, OneRow, Publication
<1>23. ASSUME NEW i \in Slots, Expire(i) PROVE SessionInv'
  BY <1>23, LogAssumption, NobodyAssumption
    DEF Expire, store, client, publisher, consumer, process, TypeOK, HolderInv,
        SessionInv, At, OneRow
<1>24. ASSUME NEW i \in Slots, Deliver(i) PROVE SessionInv'
  BY <1>24, LogAssumption, NobodyAssumption
    DEF Deliver, store, client, publisher, consumer, process, TypeOK, HolderInv,
        SessionInv, At, OneRow
<1>25. CASE BreakConnection
  BY <1>25, LogAssumption, NobodyAssumption, UnconfirmedStep
    DEF BreakConnection, Sever, Broken, store, client, publisher, consumer, process,
        TypeOK, HolderInv, SessionInv, At, OneRow
<1>26. CASE BreakPublisherChannel
  BY <1>26, LogAssumption, NobodyAssumption, UnconfirmedStep
    DEF BreakPublisherChannel, WithoutWire, store, client, publisher, consumer, process,
        TypeOK, HolderInv, SessionInv, At, OneRow
<1>27. CASE BreakConsumerChannel
  BY <1>27, LogAssumption, NobodyAssumption
    DEF BreakConsumerChannel, store, client, publisher, consumer, process, TypeOK,
        HolderInv, SessionInv, At, OneRow
<1>28. CASE Shutdown
  BY <1>28, LogAssumption, NobodyAssumption
    DEF Shutdown, store, client, publisher, consumer, process, TypeOK, HolderInv,
        SessionInv, At, OneRow
<1>29. CASE ClosePublisher
  BY <1>29, LogAssumption, NobodyAssumption
    DEF ClosePublisher, store, client, publisher, consumer, process, TypeOK, HolderInv,
        SessionInv, At, OneRow
<1>30. CASE CloseClient
  BY <1>30, LogAssumption, NobodyAssumption, UnconfirmedStep
    DEF CloseClient, Sever, Broken, store, client, publisher, consumer, process, TypeOK,
        HolderInv, SessionInv, At, OneRow
<1>31. CASE Exit
  BY <1>31, LogAssumption, NobodyAssumption
    DEF Exit, Die, store, client, publisher, consumer, process, TypeOK, HolderInv,
        SessionInv, At, OneRow
<1>32. CASE Crash
  BY <1>32, LogAssumption, NobodyAssumption
    DEF Crash, Die, store, client, publisher, consumer, process, TypeOK, HolderInv,
        SessionInv, At, OneRow
<1>33. CASE Restart
  BY <1>33, LogAssumption, NobodyAssumption
    DEF Restart, store, client, publisher, consumer, process, TypeOK, HolderInv,
        SessionInv, At, OneRow
<1>34. CASE UNCHANGED vars
  BY <1>34 DEF vars, store, client, publisher, consumer, process, SessionInv, At, OneRow
<1> QED
  BY <1>1, <1>2, <1>3, <1>4, <1>5, <1>6, <1>7, <1>8, <1>9, <1>10, <1>11, <1>12, <1>13,
    <1>14, <1>15, <1>16, <1>17, <1>18, <1>19, <1>20, <1>21, <1>22, <1>23, <1>24, <1>25,
    <1>26, <1>27, <1>28, <1>29, <1>30, <1>31, <1>32, <1>33, <1>34
    DEF Next, Publishing, Consuming, Broker, Process

\* An event e has failed at least k times.
Blame(e, k) == e \in Events => failures[e] >= k

\* Every copy stands for as many failures as it counts retries, and what is on
\* its way to the dead-letter queue for one more than MaxRetries.
RetryInv ==
    /\ \A i \in Slots :
          msg[i] # Nobody => /\ Blame(msg[i].event, msg[i].retries)
                             /\ Held(i, {"wire"}) /\ msg[i].to = "dead"
                                   => Blame(msg[i].event, MaxRetries + 1)
    /\ Busy => Blame(cur.event, cur.retries)
    /\ con \in {"republish", "moving"} => Blame(cur.event, cur.retries + 1)
    /\ pub # Nobody => /\ Blame(pub.event, pub.retries)
                       /\ pub.to = "dead" => Blame(pub.event, MaxRetries + 1)
    /\ DeadLetterEarned

LEMMA RetryInit == Init => RetryInv
BY DEF Init, RetryInv, Busy, DeadLetterEarned

LEMMA RetryStep ==
    ASSUME HeldInv, RetryInv, [Next]_vars
    PROVE  RetryInv'
<1> USE DEF HeldInv
<1>1. ASSUME NEW e \in Events, Request(e) PROVE RetryInv'
  BY <1>1, LogAssumption, NobodyAssumption
    DEF Request, store, client, publisher, consumer, process, TypeOK, Messages, Copy,
        Publication, Delivery, Queues, Held, HolderInv, BufferInv, CurInv, RetryInv, Busy,
        Blame, DeadLetterEarned
<1>2. ASSUME NEW e \in Events, LockForCaller(e) PROVE RetryInv'
  BY <1>2, LogAssumption, NobodyAssumption
    DEF LockForCaller, Start, store, client, publisher, consumer, process, TypeOK,
        Messages, Copy, Publication, Delivery, Queues, Held, HolderInv, BufferInv, CurInv,
        RetryInv, Busy, Blame, DeadLetterEarned
<1>3. CASE Recover
  BY <1>3, LogAssumption, NobodyAssumption, GoToStep, FinishStep
    DEF Recover, At, Steps, store, client, publisher, consumer, process, TypeOK, Messages,
        Copy, Publication, Delivery, Queues, Held, HolderInv, BufferInv, CurInv, RetryInv,
        Busy, Blame, DeadLetterEarned, Steps
<1>4. CASE PublisherReconnect
  BY <1>4, LogAssumption, NobodyAssumption, GoToStep, FinishStep
    DEF PublisherReconnect, At, Steps, Reusable, Cancelled, store, client, publisher,
        consumer, process, TypeOK, Messages, Copy, Publication, Delivery, Queues, Held,
        HolderInv, BufferInv, CurInv, RetryInv, Busy, Blame, DeadLetterEarned, Steps
<1>5. CASE PublisherDial
  <2>1. /\ pub # Nobody /\ UNCHANGED <<dead, failures, cur>>
        /\ (GoTo("open") /\ UNCHANGED con) \/ Finish(FALSE)
        /\ msg' \in {msg, Requeued(WithoutWire(msg))}
    BY <1>5 DEF PublisherDial, At, Swap, Sever
  <2>2. \/ pub' = Nobody
        \/ pub'.event = pub.event /\ pub'.retries = pub.retries /\ pub'.to = pub.to
    BY <2>1, GoToStep, FinishStep DEF Steps
  <2>3. con' = con \/ (con = "moving" /\ con' \in {"ack", "nack"})
    BY <2>1, FinishStep
  <2>4. \A i \in Slots : msg'[i] # Nobody =>
          /\ msg[i] # Nobody /\ msg'[i].event = msg[i].event /\ msg'[i].retries = msg[i].retries
          /\ Held(i, {"wire"})' => msg'[i] = msg[i]
    BY <2>1, Released, NobodyAssumption DEF TypeOK, Messages, Copy, Held
  <2>5. \A i \in Slots :
          msg'[i] # Nobody => /\ Blame(msg'[i].event, msg'[i].retries)
                              /\ Held(i, {"wire"})' /\ msg'[i].to = "dead"
                                   => Blame(msg'[i].event, MaxRetries + 1)
    BY <2>4 DEF RetryInv, Held
  <2> QED BY <2>1, <2>2, <2>3, <2>5 DEF RetryInv, Busy, Blame, DeadLetterEarned
<1>6. CASE OpenPublisherChannel
  BY <1>6, LogAssumption, NobodyAssumption, GoToStep, FinishStep
    DEF OpenPublisherChannel, At, Steps, store, client, publisher, consumer, process,
        TypeOK, Messages, Copy, Publication, Delivery, Queues, Held, HolderInv, BufferInv,
        CurInv, RetryInv, Busy, Blame, DeadLetterEarned, Steps
<1>7. CASE Send
  <2>1. CASE pubCh = "open"
    <3>1. PICK i \in Slots :
            /\ msg' = [msg EXCEPT ![i] = [event |-> pub.event, retries |-> pub.retries,
                                          at |-> "wire", to |-> pub.to]]
            /\ pub' = [pub EXCEPT !.step = "wait", !.slot = i]
      BY <1>7, <2>1 DEF Send
    <3>2. UNCHANGED <<dead, failures, con, cur>> /\ pub # Nobody
      BY <1>7, <2>1 DEF Send, At
    <3>3. pub'.event = pub.event /\ pub'.retries = pub.retries /\ pub'.to = pub.to
      BY <3>1, <3>2 DEF TypeOK, Publication
    <3>4. \A j \in Slots : msg'[j] = IF j = i THEN [event |-> pub.event, retries |-> pub.retries,
                                                    at |-> "wire", to |-> pub.to] ELSE msg[j]
      BY <3>1 DEF TypeOK
    <3>5. \A j \in Slots :
            msg'[j] # Nobody => /\ Blame(msg'[j].event, msg'[j].retries)
                                /\ Held(j, {"wire"})' /\ msg'[j].to = "dead"
                                     => Blame(msg'[j].event, MaxRetries + 1)
      BY <3>2, <3>4 DEF RetryInv, Held
    <3> QED BY <3>2, <3>3, <3>5 DEF RetryInv, Busy, Blame, DeadLetterEarned
  <2>2. CASE pubCh # "open"
    <3>1. /\ Finish(FALSE) /\ pub # Nobody
          /\ UNCHANGED <<msg, dead, failures, cur>>
      BY <1>7, <2>2 DEF Send, At
    <3>2. pub' = Nobody /\ (con' = con \/ (con = "moving" /\ con' = "nack"))
      BY <3>1, FinishStep
    <3> QED BY <3>1, <3>2 DEF RetryInv, Busy, Blame, Held, DeadLetterEarned
  <2> QED BY <2>1, <2>2
<1>8. CASE Confirmed
  BY <1>8, LogAssumption, NobodyAssumption, GoToStep, FinishStep
    DEF Confirmed, At, store, client, publisher, consumer, process, TypeOK, Messages,
        Copy, Publication, Delivery, Queues, Held, HolderInv, BufferInv, CurInv, RetryInv,
        Busy, Blame, DeadLetterEarned, Steps
<1>9. CASE GiveUp
  BY <1>9, LogAssumption, NobodyAssumption, GoToStep, FinishStep
    DEF GiveUp, At, Cancelled, store, client, publisher, consumer, process, TypeOK,
        Messages, Copy, Publication, Delivery, Queues, Held, HolderInv, BufferInv, CurInv,
        RetryInv, Busy, Blame, DeadLetterEarned, Steps
<1>10. CASE LockForConsumer
  BY <1>10, LogAssumption, NobodyAssumption
    DEF LockForConsumer, Start, Substitute, Exhausted, Invalid, store, client, publisher,
        consumer, process, TypeOK, Messages, Copy, Publication, Delivery, Queues, Held,
        HolderInv, BufferInv, CurInv, RetryInv, Busy, Blame, DeadLetterEarned
<1>11. CASE OpenConsumer
  BY <1>11, LogAssumption, NobodyAssumption
    DEF OpenConsumer, Cancelled, store, client, publisher, consumer, process, TypeOK,
        Messages, Copy, Publication, Delivery, Queues, Held, HolderInv, BufferInv, CurInv,
        RetryInv, Busy, Blame, DeadLetterEarned
<1>12. CASE Interrupted
  BY <1>12, LogAssumption, NobodyAssumption, Released
    DEF Interrupted, Cancelled, store, client, publisher, consumer, process, TypeOK,
        Messages, Copy, Publication, Delivery, Queues, Held, HolderInv, BufferInv, CurInv,
        RetryInv, Busy, Blame, DeadLetterEarned
<1>13. CASE Handle
  BY <1>13, LogAssumption, NobodyAssumption
    DEF Handle, OnConflict, Blamed, store, client, publisher, consumer, process, TypeOK,
        Messages, Copy, Publication, Delivery, Queues, Held, HolderInv, BufferInv, CurInv,
        RetryInv, Busy, Blame, DeadLetterEarned
<1>14. CASE Ack
  BY <1>14, LogAssumption, NobodyAssumption
    DEF Ack, store, client, publisher, consumer, process, TypeOK, Messages, Copy,
        Publication, Delivery, Queues, Held, HolderInv, BufferInv, CurInv, RetryInv, Busy,
        Blame, DeadLetterEarned
<1>15. CASE Nack
  BY <1>15, LogAssumption, NobodyAssumption
    DEF Nack, store, client, publisher, consumer, process, TypeOK, Messages, Copy,
        Publication, Delivery, Queues, Held, HolderInv, BufferInv, CurInv, RetryInv, Busy,
        Blame, DeadLetterEarned
<1>16. CASE Pause
  BY <1>16, LogAssumption, NobodyAssumption
    DEF Pause, Cancelled, store, client, publisher, consumer, process, TypeOK, Messages,
        Copy, Publication, Delivery, Queues, Held, HolderInv, BufferInv, CurInv, RetryInv,
        Busy, Blame, DeadLetterEarned
<1>17. CASE ConsumerReconnect
  BY <1>17, LogAssumption, NobodyAssumption
    DEF ConsumerReconnect, Reusable, Cancelled, store, client, publisher, consumer,
        process, TypeOK, Messages, Copy, Publication, Delivery, Queues, Held, HolderInv,
        BufferInv, CurInv, RetryInv, Busy, Blame, DeadLetterEarned
<1>18. CASE ConsumerDial
  BY <1>18, LogAssumption, NobodyAssumption, UnconfirmedStep, Released
    DEF ConsumerDial, Swap, Sever, Broken, store, client, publisher, consumer, process,
        TypeOK, Messages, Copy, Publication, Delivery, Queues, Held, HolderInv, BufferInv,
        CurInv, RetryInv, Busy, Blame, DeadLetterEarned
<1>19. ASSUME NEW i \in Slots, Take(i) PROVE RetryInv'
  BY <1>19, LogAssumption, NobodyAssumption
    DEF Take, store, client, publisher, consumer, process, TypeOK, Messages, Copy,
        Publication, Delivery, Queues, Held, HolderInv, BufferInv, CurInv, RetryInv, Busy,
        Blame, DeadLetterEarned
<1>20. ASSUME NEW p \in Poison, Foreign(p) PROVE RetryInv'
  BY <1>20, LogAssumption, NobodyAssumption
    DEF Foreign, Fresh, store, client, publisher, consumer, process, TypeOK, Messages,
        Copy, Publication, Delivery, Queues, Held, HolderInv, BufferInv, CurInv, RetryInv,
        Busy, Blame, DeadLetterEarned
<1>21. ASSUME NEW i \in Slots, BrokerTakes(i) PROVE RetryInv'
  BY <1>21, LogAssumption, NobodyAssumption
    DEF BrokerTakes, Awaits, store, client, publisher, consumer, process, TypeOK,
        Messages, Copy, Publication, Delivery, Queues, Held, HolderInv, BufferInv, CurInv,
        RetryInv, Busy, Blame, DeadLetterEarned
<1>22. ASSUME NEW i \in Slots, BrokerRefuses(i) PROVE RetryInv'
  BY <1>22, LogAssumption, NobodyAssumption
    DEF BrokerRefuses, Awaits, store, client, publisher, consumer, process, TypeOK,
        Messages, Copy, Publication, Delivery, Queues, Held, HolderInv, BufferInv, CurInv,
        RetryInv, Busy, Blame, DeadLetterEarned
<1>23. ASSUME NEW i \in Slots, Expire(i) PROVE RetryInv'
  BY <1>23, LogAssumption, NobodyAssumption
    DEF Expire, store, client, publisher, consumer, process, TypeOK, Messages, Copy,
        Publication, Delivery, Queues, Held, HolderInv, BufferInv, CurInv, RetryInv, Busy,
        Blame, DeadLetterEarned
<1>24. ASSUME NEW i \in Slots, Deliver(i) PROVE RetryInv'
  BY <1>24, LogAssumption, NobodyAssumption
    DEF Deliver, store, client, publisher, consumer, process, TypeOK, Messages, Copy,
        Publication, Delivery, Queues, Held, HolderInv, BufferInv, CurInv, RetryInv, Busy,
        Blame, DeadLetterEarned
<1>25. CASE BreakConnection
  BY <1>25, LogAssumption, NobodyAssumption, UnconfirmedStep, Released
    DEF BreakConnection, Sever, Broken, store, client, publisher, consumer, process,
        TypeOK, Messages, Copy, Publication, Delivery, Queues, Held, HolderInv, BufferInv,
        CurInv, RetryInv, Busy, Blame, DeadLetterEarned
<1>26. CASE BreakPublisherChannel
  BY <1>26, LogAssumption, NobodyAssumption, UnconfirmedStep, Released
    DEF BreakPublisherChannel, WithoutWire, store, client, publisher, consumer, process,
        TypeOK, Messages, Copy, Publication, Delivery, Queues, Held, HolderInv, BufferInv,
        CurInv, RetryInv, Busy, Blame, DeadLetterEarned
<1>27. CASE BreakConsumerChannel
  BY <1>27, LogAssumption, NobodyAssumption, Released
    DEF BreakConsumerChannel, store, client, publisher, consumer, process, TypeOK,
        Messages, Copy, Publication, Delivery, Queues, Held, HolderInv, BufferInv, CurInv,
        RetryInv, Busy, Blame, DeadLetterEarned
<1>28. CASE Shutdown
  BY <1>28, LogAssumption, NobodyAssumption
    DEF Shutdown, store, client, publisher, consumer, process, TypeOK, Messages, Copy,
        Publication, Delivery, Queues, Held, HolderInv, BufferInv, CurInv, RetryInv, Busy,
        Blame, DeadLetterEarned
<1>29. CASE ClosePublisher
  BY <1>29, LogAssumption, NobodyAssumption
    DEF ClosePublisher, store, client, publisher, consumer, process, TypeOK, Messages,
        Copy, Publication, Delivery, Queues, Held, HolderInv, BufferInv, CurInv, RetryInv,
        Busy, Blame, DeadLetterEarned
<1>30. CASE CloseClient
  BY <1>30, LogAssumption, NobodyAssumption, UnconfirmedStep, Released
    DEF CloseClient, Sever, Broken, store, client, publisher, consumer, process, TypeOK,
        Messages, Copy, Publication, Delivery, Queues, Held, HolderInv, BufferInv, CurInv,
        RetryInv, Busy, Blame, DeadLetterEarned
<1>31. CASE Exit
  BY <1>31, LogAssumption, NobodyAssumption, Released
    DEF Exit, Die, store, client, publisher, consumer, process, TypeOK, Messages, Copy,
        Publication, Delivery, Queues, Held, HolderInv, BufferInv, CurInv, RetryInv, Busy,
        Blame, DeadLetterEarned
<1>32. CASE Crash
  BY <1>32, LogAssumption, NobodyAssumption, Released
    DEF Crash, Die, store, client, publisher, consumer, process, TypeOK, Messages, Copy,
        Publication, Delivery, Queues, Held, HolderInv, BufferInv, CurInv, RetryInv, Busy,
        Blame, DeadLetterEarned
<1>33. CASE Restart
  BY <1>33, LogAssumption, NobodyAssumption
    DEF Restart, store, client, publisher, consumer, process, TypeOK, Messages, Copy,
        Publication, Delivery, Queues, Held, HolderInv, BufferInv, CurInv, RetryInv, Busy,
        Blame, DeadLetterEarned
<1>34. CASE UNCHANGED vars
  BY <1>34
    DEF vars, store, client, publisher, consumer, process, RetryInv, Held, Busy, Blame,
        DeadLetterEarned
<1> QED
  BY <1>1, <1>2, <1>3, <1>4, <1>5, <1>6, <1>7, <1>8, <1>9, <1>10, <1>11, <1>12, <1>13,
    <1>14, <1>15, <1>16, <1>17, <1>18, <1>19, <1>20, <1>21, <1>22, <1>23, <1>24, <1>25,
    <1>26, <1>27, <1>28, <1>29, <1>30, <1>31, <1>32, <1>33, <1>34
    DEF Next, Publishing, Consuming, Broker, Process

\* Which steps end a session.
LEMMA SessionsKeptStep ==
    ASSUME HeldInv, SessionInv, [Next]_vars,
           (pubCh = "open" /\ pubCh' = "broken") \/ (conCh = "open" /\ conCh' = "broken")
    PROVE  faults' < faults \/ conn' = "closed"
<1> USE DEF HeldInv
<1>1. ASSUME NEW e \in Events, Request(e) \/ LockForCaller(e) PROVE FALSE
  BY <1>1 DEF Request, LockForCaller, store, client, publisher, consumer, process
<1>2. ASSUME NEW i \in Slots, Take(i) \/ BrokerTakes(i) \/ BrokerRefuses(i) \/ Expire(i) \/ Deliver(i) PROVE FALSE
  BY <1>2
    DEF Take, BrokerTakes, BrokerRefuses, Expire, Deliver, store, client, publisher,
        consumer, process
<1>3. ASSUME NEW p \in Poison, Foreign(p) PROVE FALSE
  BY <1>3 DEF Foreign, store, client, publisher, consumer, process
<1>4. ~(Recover \/ PublisherReconnect \/ OpenPublisherChannel \/ Send \/ Confirmed)
  BY
    DEF Recover, PublisherReconnect, OpenPublisherChannel, Send, Confirmed, store, client,
        publisher, consumer, process
<1>5. ~(GiveUp \/ LockForConsumer \/ OpenConsumer \/ Interrupted \/ Handle)
  BY
    DEF GiveUp, LockForConsumer, OpenConsumer, Interrupted, Handle, store, client,
        publisher, consumer, process
<1>6. ~(Ack \/ Nack \/ Pause \/ ConsumerReconnect \/ Shutdown)
  BY
    DEF Ack, Nack, Pause, ConsumerReconnect, Shutdown, store, client, publisher, consumer,
        process
<1>7. ~(ClosePublisher \/ Exit \/ Crash \/ Restart)
  BY
    DEF ClosePublisher, Exit, Crash, Restart, Die, store, client, publisher, consumer,
        process
<1>8. CASE BreakConnection \/ BreakPublisherChannel \/ BreakConsumerChannel
  BY <1>8, LogAssumption
    DEF BreakConnection, BreakPublisherChannel, BreakConsumerChannel, TypeOK
<1>9. CASE CloseClient
  BY <1>9 DEF CloseClient
<1>10. ~PublisherDial
  <2>1. At("dial") /\ Swap => conn = "broken" /\ UNCHANGED <<pubCh, conCh>>
    BY LogAssumption, NobodyAssumption DEF SessionInv, Swap
  <2> QED BY <2>1 DEF PublisherDial
<1>11. ~ConsumerDial
  <2>1. con = "dial" /\ Swap => conn = "broken" /\ UNCHANGED <<pubCh, conCh>>
    BY LogAssumption, NobodyAssumption DEF SessionInv, Swap
  <2> QED BY <2>1 DEF ConsumerDial
<1>12. ~(UNCHANGED vars)
  BY DEF vars, publisher, consumer
<1> QED
  BY <1>1, <1>2, <1>3, <1>4, <1>5, <1>6, <1>7, <1>8, <1>9, <1>10, <1>11, <1>12
    DEF Next, Publishing, Consuming, Broker, Process

----------------------------------------------------------------------------
(* Layer 5: the ledger *)

\* Only the consumer publishes dead letters, the caller of a publication waits
\* for it, and what is on its way to the dead-letter queue is safe already.
CourierInv ==
    /\ pub # Nobody => /\ pub.to = "dead" => pub.by = "consumer"
                       /\ pub.by # "consumer" => call[pub.by] = "busy"
    /\ \A i \in Slots : Held(i, {"wire"}) /\ msg[i].to = "dead" => Safe(msg[i].event)

LEMMA CourierInit == Init => CourierInv
BY DEF Init, CourierInv, Held

\* Only Send puts copies on the wire.
LEMMA WireKept ==
    ASSUME HeldInv, [Next]_vars, ~Send
    PROVE  \A i \in Slots : Held(i, {"wire"})' => Held(i, {"wire"}) /\ msg'[i] = msg[i]
<1> DEFINE Kept == \A i \in Slots : Held(i, {"wire"})' => Held(i, {"wire"}) /\ msg'[i] = msg[i]
<1> USE DEF HeldInv
<1>1. CASE UNCHANGED msg
  BY <1>1 DEF Held
<1>2. ASSUME NEW e \in Events, Request(e) \/ LockForCaller(e) PROVE UNCHANGED msg
  BY <1>2 DEF Request, LockForCaller, store
<1>3. ASSUME NEW i \in Slots, Take(i) PROVE UNCHANGED msg
  BY <1>3 DEF Take, store
<1>4. Recover \/ PublisherReconnect \/ OpenPublisherChannel \/ Confirmed \/ GiveUp \/ LockForConsumer
        \/ OpenConsumer \/ Handle \/ Pause \/ ConsumerReconnect \/ Shutdown \/ ClosePublisher \/ Restart
      => UNCHANGED msg
  BY DEF Recover, PublisherReconnect, OpenPublisherChannel, Confirmed, GiveUp,
         LockForConsumer, OpenConsumer, Handle, Pause, ConsumerReconnect, Shutdown,
         ClosePublisher, Restart, store
<1>5. CASE msg' \in {Requeued(msg), WithoutWire(msg), Requeued(WithoutWire(msg))}
  BY <1>5, Released, NobodyAssumption DEF TypeOK, Messages, Copy, Held
<1>6. PublisherDial \/ ConsumerDial \/ Interrupted \/ BreakConnection \/ BreakPublisherChannel
        \/ BreakConsumerChannel \/ CloseClient \/ Exit \/ Crash
      => msg' \in {msg, Requeued(msg), WithoutWire(msg), Requeued(WithoutWire(msg))}
  BY DEF PublisherDial, ConsumerDial, Interrupted, BreakConnection, BreakPublisherChannel,
         BreakConsumerChannel, CloseClient, Exit, Crash, Die, Swap, Sever
<1>7. CASE Ack \/ Nack
  <2>1. cur \in Delivery /\ msg[cur.slot] \in Copy
    BY <1>7, NobodyAssumption DEF Ack, Nack, TypeOK, CurInv, Busy, Held, Delivery
  <2> QED BY <1>7, <2>1, NobodyAssumption DEF Ack, Nack, TypeOK, Copy, Delivery, Held
<1>8. ASSUME NEW p \in Poison, Foreign(p) PROVE Kept
  BY <1>8, NobodyAssumption DEF Foreign, TypeOK, Copy, Held
<1>9. ASSUME NEW i \in Slots, BrokerTakes(i) \/ BrokerRefuses(i) PROVE Kept
  BY <1>9, NobodyAssumption DEF BrokerTakes, BrokerRefuses, TypeOK, Copy, Held, Queues
<1>10. ASSUME NEW i \in Slots, Expire(i) \/ Deliver(i) PROVE Kept
  BY <1>10, NobodyAssumption DEF Expire, Deliver, TypeOK, Copy, Held
<1> QED
  BY <1>1, <1>2, <1>3, <1>4, <1>5, <1>6, <1>7, <1>8, <1>9, <1>10
    DEF Next, Publishing, Consuming, Broker, Process, vars, store

\* A publication keeps its owner and its queue, and its owner's call its state.
LEMMA CourierKept ==
    ASSUME HeldInv, CourierInv, [Next]_vars, pub # Nobody, pub' # Nobody
    PROVE  /\ pub'.by = pub.by /\ pub'.to = pub.to
           /\ pub.by # "consumer" => call'[pub.by] = call[pub.by]
<1> DEFINE Kept == /\ pub'.by = pub.by /\ pub'.to = pub.to
                   /\ pub.by # "consumer" => call'[pub.by] = call[pub.by]
<1> USE DEF HeldInv
<1>1. pub.by # "consumer" => pub.by \in Events /\ call[pub.by] = "busy"
  BY NobodyAssumption DEF TypeOK, Publication, CourierInv
<1>2. CASE UNCHANGED <<pub, call>>
  BY <1>2
<1>3. ASSUME NEW e \in Events, Request(e) PROVE Kept
  BY <1>1, <1>3 DEF Request, publisher, TypeOK
<1>4. ASSUME NEW e \in Events, LockForCaller(e) PROVE FALSE
  BY <1>4 DEF LockForCaller
<1>5. ASSUME NEW p \in Poison, Foreign(p) PROVE Kept
  BY <1>1, <1>5 DEF Foreign, publisher, TypeOK
<1>6. ASSUME NEW i \in Slots, Take(i) \/ Expire(i) \/ Deliver(i) PROVE UNCHANGED <<pub, call>>
  BY <1>6 DEF Take, Expire, Deliver, publisher
<1>7. ASSUME NEW i \in Slots, BrokerTakes(i) \/ BrokerRefuses(i) PROVE Kept
  BY <1>7, NobodyAssumption DEF BrokerTakes, BrokerRefuses, Awaits, TypeOK, Publication
<1>8. OpenConsumer \/ Interrupted \/ Handle \/ Ack \/ Nack \/ Pause \/ ConsumerReconnect
        \/ BreakConsumerChannel \/ Shutdown \/ ClosePublisher \/ Restart => UNCHANGED <<pub, call>>
  BY DEF OpenConsumer, Interrupted, Handle, Ack, Nack, Pause, ConsumerReconnect,
         BreakConsumerChannel, Shutdown, ClosePublisher, Restart, publisher
<1>9. ~(LockForConsumer \/ Confirmed \/ GiveUp \/ Exit \/ Crash)
  BY DEF LockForConsumer, Confirmed, GiveUp, Exit, Crash, Die, Finish
<1>10. BreakConnection \/ BreakPublisherChannel \/ ConsumerDial \/ CloseClient => Kept
  BY UnconfirmedStep DEF BreakConnection, BreakPublisherChannel, ConsumerDial, CloseClient
<1>11. Recover \/ PublisherReconnect \/ PublisherDial \/ OpenPublisherChannel => Kept
  <2>1. Recover \/ PublisherReconnect \/ PublisherDial \/ OpenPublisherChannel =>
          call' = call /\ \E step \in Steps : GoTo(step)
    BY DEF Recover, PublisherReconnect, PublisherDial, OpenPublisherChannel, Finish, Steps
  <2> QED BY <2>1, GoToStep
<1>12. Send => Kept
  BY NobodyAssumption DEF Send, Finish, TypeOK, Publication
<1> QED
  BY <1>2, <1>3, <1>4, <1>5, <1>6, <1>7, <1>8, <1>9, <1>10, <1>11, <1>12
    DEF Next, Publishing, Consuming, Broker, Process, vars, publisher

\* Who holds the publisher has taken its mutex.
LEMMA NobodyStays ==
    ASSUME HeldInv, [Next]_vars, pub = Nobody,
           ~LockForConsumer, ~\E e \in Events : LockForCaller(e)
    PROVE  pub' = Nobody
<1> USE DEF HeldInv
<1>1. ASSUME NEW e \in Events, Request(e) PROVE pub' = pub
  BY <1>1 DEF Request, publisher
<1>2. ASSUME NEW p \in Poison, Foreign(p) PROVE pub' = pub
  BY <1>2 DEF Foreign, publisher
<1>3. ASSUME NEW i \in Slots, Take(i) \/ Expire(i) \/ Deliver(i) \/ BrokerTakes(i) \/ BrokerRefuses(i)
      PROVE  pub' = pub
  BY <1>3 DEF Take, Expire, Deliver, BrokerTakes, BrokerRefuses, Awaits, publisher
<1>4. OpenConsumer \/ Interrupted \/ Handle \/ Ack \/ Nack \/ Pause \/ ConsumerReconnect
        \/ BreakConsumerChannel \/ Shutdown \/ ClosePublisher \/ Restart => pub' = pub
  BY DEF OpenConsumer, Interrupted, Handle, Ack, Nack, Pause, ConsumerReconnect,
         BreakConsumerChannel, Shutdown, ClosePublisher, Restart, publisher
<1>5. ~(Recover \/ PublisherReconnect \/ PublisherDial \/ OpenPublisherChannel \/ Send \/ Confirmed \/ GiveUp)
  BY DEF Recover, PublisherReconnect, PublisherDial, OpenPublisherChannel, Send, Confirmed, GiveUp, At
<1>6. Exit \/ Crash => pub' = Nobody
  BY DEF Exit, Crash, Die
<1>7. BreakConnection \/ BreakPublisherChannel \/ ConsumerDial \/ CloseClient => pub' = Nobody
  BY UnconfirmedStep DEF BreakConnection, BreakPublisherChannel, ConsumerDial, CloseClient
<1> QED
  BY <1>1, <1>2, <1>3, <1>4, <1>5, <1>6, <1>7
    DEF Next, Publishing, Consuming, Broker, Process, vars, publisher

LEMMA CourierStep ==
    ASSUME HeldInv, KeepInv, CourierInv, [Next]_vars
    PROVE  CourierInv'
<1> USE DEF HeldInv
<1>1. \A e \in Sources : Safe(e) => Safe(e)'
  <2>1. CASE Ack
    BY <2>1, AcknowledgedSafe DEF KeepInv
  <2>2. CASE ~Ack
    BY <2>2, PersistStep, SafeStable
  <2> QED BY <2>1, <2>2
<1>2. pub # Nobody /\ pub.to = "dead" => Safe(pub.event)
  <2> HAVE pub # Nobody /\ pub.to = "dead"
  <2>1. pub.by = "consumer" /\ pub.event = cur.event
    BY DEF CourierInv, KeepInv, PubInv
  <2>2. CurInv /\ con = "moving"
    BY <2>1 DEF HolderInv
  <2>3. cur.slot \in Slots
    BY <2>2 DEF CurInv, Busy, TypeOK, Delivery
  <2> QED BY <2>1, <2>2, <2>3 DEF CurInv, Busy, Safe, InBroker, Held
<1>3. pub' # Nobody => /\ pub'.to = "dead" => pub'.by = "consumer"
                       /\ pub'.by # "consumer" => call'[pub'.by] = "busy"
  <2>1. CASE pub # Nobody
    BY <2>1, CourierKept DEF CourierInv
  <2>2. ASSUME NEW e \in Events, LockForCaller(e), pub' # Nobody
        PROVE  pub'.by = e /\ pub'.to = "main" /\ call'[e] = "busy"
    BY <2>2 DEF LockForCaller, Start, TypeOK, Sources
  <2>3. LockForConsumer /\ pub' # Nobody => pub'.by = "consumer"
    BY DEF LockForConsumer, Start
  <2>4. CASE pub = Nobody /\ ~LockForConsumer /\ ~\E e \in Events : LockForCaller(e)
    BY <2>4, NobodyStays
  <2> QED BY <2>1, <2>2, <2>3, <2>4
<1>4. ASSUME NEW i \in Slots, Held(i, {"wire"})', msg'[i].to = "dead"
      PROVE  Safe(msg[i].event)'
  <2>1. CASE Held(i, {"wire"}) /\ msg'[i] = msg[i]
    <3>1. Safe(msg[i].event) /\ msg[i].event \in Sources
      BY <1>4, <2>1, NobodyAssumption DEF CourierInv, TypeOK, Copy, Held
    <3> QED BY <1>1, <2>1, <3>1
  <2>2. CASE Send
    <3>1. \/ UNCHANGED msg
          \/ /\ pub # Nobody
             /\ \E j \in Slots : msg' = [msg EXCEPT ![j] = [event |-> pub.event, retries |-> pub.retries,
                                                          at |-> "wire", to |-> pub.to]]
      BY <2>2 DEF Send, At
    <3>2. \/ msg'[i] = msg[i] /\ Held(i, {"wire"})
          \/ pub # Nobody /\ msg'[i].event = pub.event /\ msg'[i].to = pub.to
      BY <1>4, <3>1 DEF TypeOK, Held
    <3>3. pub # Nobody => pub.event \in Sources
      BY DEF TypeOK, Publication
    <3> QED BY <1>1, <1>2, <1>4, <2>1, <3>2, <3>3
  <2> QED BY <1>4, <2>1, <2>2, WireKept
<1> QED BY <1>3, <1>4 DEF CourierInv

\* What the ledger sees of the log.
Accepted == {e \in Sources : call[e] = "ok"}
Queued   == {e \in Sources : \E i \in Slots : InQueue(i, e)}
Written  == {e \in Events : rows[e] > 0}

\* Nothing comes into a queue.
NoneEnters == \A i \in Slots : Held(i, {"main", "retry", "unacked"})' =>
                  Held(i, {"main", "retry", "unacked"}) /\ msg'[i].event = msg[i].event

LEMMA SameQueues ==
    ASSUME Persist, NoneEnters
    PROVE  Queued' = Queued
<1>1. \A i \in Slots, e \in Sources : InQueue(i, e) <=> InQueue(i, e)'
  BY DEF Persist, NoneEnters, InQueue
<1> QED BY <1>1 DEF Queued

\* The steps that the ledger may see.
Seen ==
    \/ Handle \/ Ack \/ Confirmed
    \/ \E p \in Poison : Foreign(p)
    \/ \E i \in Slots : BrokerTakes(i)

LEMMA UnseenQueues ==
    ASSUME HeldInv, [Next]_vars, ~Seen
    PROVE  NoneEnters /\ dead' = dead /\ rows' = rows
<1> DEFINE Same == NoneEnters /\ dead' = dead /\ rows' = rows
<1> USE DEF HeldInv
<1>1. CASE UNCHANGED <<msg, dead, rows>>
  BY <1>1 DEF NoneEnters, Held
<1>2. ASSUME NEW e \in Events, Request(e) \/ LockForCaller(e) PROVE UNCHANGED <<msg, dead, rows>>
  BY <1>2 DEF Request, LockForCaller, store
<1>3. ASSUME NEW i \in Slots, Take(i) PROVE UNCHANGED <<msg, dead, rows>>
  BY <1>3 DEF Take, store
<1>4. Recover \/ PublisherReconnect \/ OpenPublisherChannel \/ GiveUp \/ LockForConsumer
        \/ OpenConsumer \/ Pause \/ ConsumerReconnect \/ Shutdown \/ ClosePublisher \/ Restart
      => UNCHANGED <<msg, dead, rows>>
  BY DEF Recover, PublisherReconnect, OpenPublisherChannel, GiveUp, LockForConsumer,
         OpenConsumer, Pause, ConsumerReconnect, Shutdown, ClosePublisher, Restart, store
<1>5. ASSUME msg' \in {Requeued(msg), WithoutWire(msg), Requeued(WithoutWire(msg))} PROVE NoneEnters
  BY <1>5, Released, NobodyAssumption DEF TypeOK, Messages, Copy, Held, NoneEnters
<1>6. PublisherDial \/ ConsumerDial \/ Interrupted \/ BreakConnection \/ BreakPublisherChannel
        \/ BreakConsumerChannel \/ CloseClient \/ Exit \/ Crash
      => /\ msg' \in {msg, Requeued(msg), WithoutWire(msg), Requeued(WithoutWire(msg))}
         /\ UNCHANGED <<dead, rows>>
  BY DEF PublisherDial, ConsumerDial, Interrupted, BreakConnection, BreakPublisherChannel,
         BreakConsumerChannel, CloseClient, Exit, Crash, Die, Swap, Sever
<1>7. CASE Send
  <2>1. /\ UNCHANGED <<dead, rows>>
        /\ \/ UNCHANGED msg
           \/ \E i \in Slots : msg' = [msg EXCEPT ![i] = [event |-> pub.event, retries |-> pub.retries,
                                                       at |-> "wire", to |-> pub.to]]
    BY <1>7 DEF Send
  <2> QED BY <2>1 DEF TypeOK, Held, NoneEnters
<1>8. CASE Nack
  <2>1. cur \in Delivery /\ msg[cur.slot] \in Copy /\ Held(cur.slot, {"main", "unacked"})
    BY <1>8, NobodyAssumption DEF Nack, TypeOK, CurInv, Busy, Held, Delivery
  <2> QED BY <1>8, <2>1, NobodyAssumption DEF Nack, TypeOK, Copy, Delivery, Held, NoneEnters
<1>9. ASSUME NEW i \in Slots, BrokerRefuses(i) PROVE Same
  <2>1. UNCHANGED <<dead, rows>> /\ msg' = [msg EXCEPT ![i] = Nobody]
    BY <1>9 DEF BrokerRefuses
  <2> QED BY <2>1 DEF TypeOK, Held, NoneEnters
<1>10. ASSUME NEW i \in Slots, Expire(i) \/ Deliver(i) PROVE Same
  <2>1. /\ Held(i, {"main", "retry"}) /\ UNCHANGED <<dead, rows>>
        /\ \E at \in {"main", "unacked"} : msg' = [msg EXCEPT ![i].at = at]
    BY <1>10 DEF Expire, Deliver, Held
  <2> QED BY <2>1, NobodyAssumption DEF TypeOK, Copy, Held, NoneEnters
<1> QED
  BY <1>1, <1>2, <1>3, <1>4, <1>5, <1>6, <1>7, <1>8, <1>9, <1>10
    DEF Next, Publishing, Consuming, Broker, Process, vars, store, Seen

LEMMA UnseenCalls ==
    ASSUME HeldInv, CourierInv, [Next]_vars, ~Confirmed, ~\E p \in Poison : Foreign(p)
    PROVE  Accepted' = Accepted
<1> DEFINE Same == \A e \in Sources : (call'[e] = "ok") <=> (call[e] = "ok")
<1> SUFFICES Same
  BY DEF Accepted
<1>0. call \in [Sources -> {"new", "waiting", "busy", "ok", "failed"}]
  BY DEF HeldInv, TypeOK
<1>1. CASE UNCHANGED call
  BY <1>1
<1>2. ASSUME NEW e \in Events, Request(e) \/ LockForCaller(e) PROVE Same
  <2>1. /\ call[e] # "ok"
        /\ call' = call \/ \E s \in {"waiting", "failed", "busy"} : call' = [call EXCEPT ![e] = s]
    BY <1>2 DEF Request, LockForCaller
  <2> QED BY <1>0, <2>1
<1>3. ASSUME NEW i \in Slots, Take(i) \/ Expire(i) \/ Deliver(i) \/ BrokerTakes(i) \/ BrokerRefuses(i)
      PROVE  UNCHANGED call
  BY <1>3 DEF Take, Expire, Deliver, BrokerTakes, BrokerRefuses
<1>4. OpenConsumer \/ Interrupted \/ Handle \/ Ack \/ Nack \/ Pause \/ ConsumerReconnect \/ ConsumerDial
        \/ LockForConsumer \/ BreakConsumerChannel \/ BreakConnection \/ BreakPublisherChannel
        \/ Shutdown \/ ClosePublisher \/ CloseClient \/ Restart \/ Recover => UNCHANGED call
  BY DEF OpenConsumer, Interrupted, Handle, Ack, Nack, Pause, ConsumerReconnect, ConsumerDial,
         LockForConsumer, BreakConsumerChannel, BreakConnection, BreakPublisherChannel,
         Shutdown, ClosePublisher, CloseClient, Restart, Recover
<1>5. CASE pub # Nobody /\ Finish(FALSE)
  <2>1. call' = call \/ (call[pub.by] = "busy" /\ call' = [call EXCEPT ![pub.by] = "failed"])
    BY <1>5 DEF Finish, CourierInv
  <2> QED BY <1>0, <2>1
<1>6. PublisherReconnect \/ PublisherDial \/ OpenPublisherChannel \/ Send \/ GiveUp
        => UNCHANGED call \/ (pub # Nobody /\ Finish(FALSE))
  BY DEF PublisherReconnect, PublisherDial, OpenPublisherChannel, Send, GiveUp, At
<1>7. CASE Exit \/ Crash
  <2>1. call' = [e \in Sources |-> IF call[e] \in {"waiting", "busy"} THEN "failed" ELSE call[e]]
    BY <1>7 DEF Exit, Crash, Die
  <2> QED BY <1>0, <2>1
<1> QED
  BY <1>1, <1>2, <1>3, <1>4, <1>5, <1>6, <1>7
    DEF Next, Publishing, Consuming, Broker, Process, vars

LEMMA LedgerStart == Init => Ledger!Init
BY DEF Init, Ledger!Init, Held

LEMMA LedgerStutters ==
    ASSUME UNCHANGED <<Accepted, Queued, Written, dead>>
    PROVE  UNCHANGED Ledger!vars
BY DEF Ledger!vars, Accepted, Queued, Written, InQueue

\* What is safe is known to the ledger.
LEMMA KnownToLedger ==
    ASSUME NEW e \in Sources
    PROVE  Safe(e) <=> e \in Queued \cup Written \cup dead
BY DEF Safe, Stored, InBroker, Queued, Written, InQueue

\* The ledger's operations in terms of what it sees.
LEMMA LedgerMoves ==
    ASSUME NEW e \in Sources,
           \/ Queued' = Queued \cup {e} /\ UNCHANGED <<Accepted, Written, dead>>
           \/ Safe(e) /\ Accepted' = Accepted \cup {e} /\ UNCHANGED <<Queued, Written, dead>>
           \/ /\ Queued' = Queued \cup {e} /\ Accepted' = Accepted \cup {e}
              /\ UNCHANGED <<Written, dead>>
           \/ e \in Queued /\ Written' = Written \cup {e} /\ UNCHANGED <<Accepted, Queued, dead>>
           \/ Safe(e) /\ dead' = dead \cup {e} /\ UNCHANGED <<Accepted, Queued, Written>>
           \/ /\ e \in Queued /\ e \in Written \cup dead /\ Queued' = Queued \ {e}
              /\ UNCHANGED <<Accepted, Written, dead>>
    PROVE  Ledger!Next
<1>1. Safe(e) <=> e \in Queued \cup Written \cup dead
  BY KnownToLedger
<1>2. \/ Ledger!Enqueue(e) \/ Ledger!Accept(e) \/ Ledger!Deposit(e) \/ Ledger!Store(e)
      \/ Ledger!Bury(e) \/ Ledger!Leave(e)
  BY <1>1 DEF Ledger!Enqueue, Ledger!Accept, Ledger!Deposit, Ledger!Store, Ledger!Bury, Ledger!Leave,
              Ledger!Known, Ledger!Settled, Accepted, Queued, Written, InQueue
<1> QED BY <1>2 DEF Ledger!Next

LEMMA ForeignShown ==
    ASSUME HeldInv, NEW p \in Poison, Foreign(p)
    PROVE  Ledger!Next
<1> USE DEF HeldInv
<1>1. p \in Sources
  BY DEF Sources
<1>2. PICK i \in Slots : msg[i] = Nobody /\ msg' = [msg EXCEPT ![i] = [event |-> p, retries |-> 0,
                                                                    at |-> "main", to |-> "main"]]
  BY DEF Foreign, Fresh
<1>3. InQueue(i, p)'
  <2>1. [event |-> p, retries |-> 0, at |-> "main", to |-> "main"] \in Copy
    BY <1>1, LogAssumption DEF Copy, Queues
  <2> QED BY <1>2, <2>1, NobodyAssumption DEF InQueue, Held, TypeOK
<1>4. \A j \in Slots, e \in Sources : j # i => (InQueue(j, e)' <=> InQueue(j, e))
  BY <1>2 DEF InQueue, Held, TypeOK
<1>5. \A e \in Sources : ~InQueue(i, e) /\ (InQueue(i, e)' => e = p)
  BY <1>2 DEF InQueue, Held, TypeOK
<1>6. Queued' = Queued \cup {p}
  BY <1>1, <1>3, <1>4, <1>5 DEF Queued
<1>7. Accepted' = Accepted \cup {p}
  BY <1>1 DEF Foreign, Accepted, TypeOK
<1>8. UNCHANGED <<Written, dead>>
  BY DEF Foreign, Written
<1> QED BY <1>1, <1>6, <1>7, <1>8, LedgerMoves

LEMMA BrokerShown ==
    ASSUME HeldInv, CourierInv, NEW i \in Slots, BrokerTakes(i)
    PROVE  Ledger!Next
<1> USE DEF HeldInv
<1>0. Held(i, {"wire"}) /\ msg[i] \in Copy /\ msg[i].event \in Sources /\ msg[i].to \in Queues
  BY NobodyAssumption DEF BrokerTakes, TypeOK, Copy, Held
<1>1. PICK e \in Sources : e = msg[i].event
  BY <1>0
<1>2. UNCHANGED <<Accepted, Written>>
  BY DEF BrokerTakes, Accepted, Written
<1>3. \A d \in Sources : ~InQueue(i, d)
  BY <1>0 DEF InQueue, Held
<1>4. CASE msg[i].to = "dead"
  <2>1. dead' = dead \cup {e} /\ msg' = [msg EXCEPT ![i] = Nobody]
    BY <1>1, <1>4 DEF BrokerTakes
  <2>2. \A j \in Slots, d \in Sources : InQueue(j, d)' <=> InQueue(j, d)
    BY <1>3, <2>1 DEF InQueue, Held, TypeOK
  <2>3. Queued' = Queued
    BY <2>2 DEF Queued
  <2>4. Safe(e)
    BY <1>0, <1>1, <1>4 DEF CourierInv
  <2> QED BY <1>1, <1>2, <2>1, <2>3, <2>4, LedgerMoves
<1>5. CASE msg[i].to # "dead"
  <2>1. UNCHANGED dead /\ msg' = [msg EXCEPT ![i].at = msg[i].to] /\ msg[i].to \in {"main", "retry"}
    BY <1>0, <1>5 DEF BrokerTakes, Queues
  <2>2. msg'[i].at \in {"main", "retry"} /\ msg'[i].event = e /\ msg'[i] \in Copy
    BY <1>0, <1>1, <2>1 DEF TypeOK, Copy
  <2>3. InQueue(i, e)' /\ \A d \in Sources : InQueue(i, d)' => d = e
    BY <2>2, NobodyAssumption DEF InQueue, Held
  <2>4. \A j \in Slots, d \in Sources : j # i => (InQueue(j, d)' <=> InQueue(j, d))
    BY <2>1 DEF InQueue, Held, TypeOK
  <2>5. Queued' = Queued \cup {e}
    BY <1>1, <1>3, <2>3, <2>4 DEF Queued
  <2> QED BY <1>1, <1>2, <2>1, <2>5, LedgerMoves
<1> QED BY <1>4, <1>5

\* The delivery that is handled is in a queue.
LEMMA HandledIsQueued ==
    ASSUME HeldInv, Busy
    PROVE  cur.slot \in Slots /\ cur.event \in Sources /\ InQueue(cur.slot, cur.event)
<1>1. cur \in Delivery
  BY DEF HeldInv, TypeOK, CurInv
<1> QED BY <1>1 DEF HeldInv, CurInv, Delivery, InQueue, Held

LEMMA HandleShown ==
    ASSUME HeldInv, Handle
    PROVE  Ledger!Next \/ UNCHANGED Ledger!vars
<1>1. /\ cur.event \in Sources /\ cur.event \in Queued
      /\ UNCHANGED <<Accepted, Queued, dead>>
  <2>1. cur.slot \in Slots /\ cur.event \in Sources /\ InQueue(cur.slot, cur.event)
    BY HandledIsQueued DEF Handle, Busy
  <2>2. UNCHANGED <<msg, call, dead>>
    BY DEF Handle
  <2> QED BY <2>1, <2>2 DEF Queued, Accepted, InQueue, Held
<1>2. rows \in [Events -> Nat]
  BY DEF HeldInv, TypeOK
<1>3. \/ rows' = rows
      \/ cur.event \in Events /\ rows' = OnConflict(rows, cur.event)
  BY DEF Handle
<1>4. cur.event \in Events /\ rows' = OnConflict(rows, cur.event) => Written' = Written \cup {cur.event}
  BY <1>2 DEF OnConflict, Written
<1>5. rows' = rows => Written' = Written
  BY DEF Written
<1> QED BY <1>1, <1>3, <1>4, <1>5, LedgerMoves, LedgerStutters

LEMMA AckShown ==
    ASSUME HeldInv, AckInv, Ack
    PROVE  Ledger!Next \/ UNCHANGED Ledger!vars
<1>1. PICK k \in Slots, e \in Sources : k = cur.slot /\ e = cur.event /\ InQueue(k, e)
  BY HandledIsQueued DEF Ack, Busy
<1>2. UNCHANGED <<Accepted, Written, dead>>
  BY DEF Ack, Accepted, Written
<1>3. CASE msg' = msg
  <2>1. Queued' = Queued
    BY <1>3 DEF Queued, InQueue, Held
  <2> QED BY <1>2, <2>1, LedgerStutters
<1>4. CASE msg' = [msg EXCEPT ![k] = Nobody]
  <2>1. \A d \in Sources : ~InQueue(k, d)' /\ (InQueue(k, d) => d = e)
    BY <1>1, <1>4 DEF HeldInv, TypeOK, InQueue, Held
  <2>2. \A j \in Slots, d \in Sources : j # k => (InQueue(j, d)' <=> InQueue(j, d))
    BY <1>1, <1>4 DEF HeldInv, TypeOK, InQueue, Held
  <2>3. CASE \E j \in Slots : j # k /\ InQueue(j, e)
    <3>1. Queued' = Queued
      BY <1>1, <2>1, <2>2, <2>3 DEF Queued
    <3> QED BY <1>2, <3>1, LedgerStutters
  <2>4. CASE ~\E j \in Slots : j # k /\ InQueue(j, e)
    <3>1. Queued' = Queued \ {e} /\ e \in Queued
      BY <1>1, <2>1, <2>2, <2>4 DEF Queued
    <3>2. e \in Written \cup dead
      BY <1>1, <2>4 DEF Ack, AckInv, SafeBeside, Stored, Written
    <3> QED BY <1>1, <1>2, <3>1, <3>2, LedgerMoves
  <2> QED BY <2>3, <2>4
<1> QED BY <1>1, <1>3, <1>4 DEF Ack

LEMMA ConfirmedShown ==
    ASSUME HeldInv, KeepInv, CourierInv, Confirmed
    PROVE  Ledger!Next \/ UNCHANGED Ledger!vars
<1> USE DEF HeldInv
<1>1. UNCHANGED <<Queued, Written, dead>>
  BY DEF Confirmed, store, Queued, Written, InQueue, Held
<1>2. pub # Nobody /\ pub.step \in {"acked", "nacked"} /\ Finish(pub.step = "acked")
  BY DEF Confirmed, At
<1>3. call \in [Sources -> {"new", "waiting", "busy", "ok", "failed"}]
  BY DEF TypeOK
<1>4. CASE pub.by = "consumer"
  <2>1. Accepted' = Accepted
    BY <1>2, <1>4 DEF Finish, Accepted
  <2> QED BY <1>1, <2>1, LedgerStutters
<1>5. CASE pub.by # "consumer" /\ pub.step = "nacked"
  <2>1. call' = [call EXCEPT ![pub.by] = "failed"] /\ call[pub.by] = "busy"
    BY <1>2, <1>5 DEF Finish, CourierInv
  <2>2. Accepted' = Accepted
    BY <1>3, <2>1 DEF Accepted
  <2> QED BY <1>1, <2>2, LedgerStutters
<1>6. CASE pub.by # "consumer" /\ pub.step = "acked"
  <2>1. call' = [call EXCEPT ![pub.by] = "ok"]
    BY <1>2, <1>6 DEF Finish
  <2>2. pub.by \in Sources /\ Safe(pub.by)
    BY <1>2, <1>6, NobodyAssumption DEF TypeOK, Publication, Sources, KeepInv, PubInv
  <2>3. Accepted' = Accepted \cup {pub.by}
    BY <1>3, <2>1, <2>2 DEF Accepted
  <2> QED BY <1>1, <2>2, <2>3, LedgerMoves
<1> QED BY <1>2, <1>4, <1>5, <1>6

\* Every step of the log is one of the ledger's operations or unseen by it.
LEMMA LedgerStep ==
    ASSUME HeldInv, KeepInv, CourierInv, [Next]_vars
    PROVE  [Ledger!Next]_(Ledger!vars)
<1>1. CASE Seen
  BY <1>1, ForeignShown, BrokerShown, HandleShown, AckShown, ConfirmedShown DEF Seen, KeepInv
<1>2. CASE ~Seen
  <2>1. NoneEnters /\ dead' = dead /\ rows' = rows
    BY <1>2, UnseenQueues
  <2>2. Persist
    BY <1>2, PersistStep DEF Seen
  <2>3. Queued' = Queued /\ Written' = Written
    BY <2>1, <2>2, SameQueues DEF Written
  <2>4. Accepted' = Accepted
    BY <1>2, UnseenCalls DEF Seen
  <2> QED BY <2>1, <2>3, <2>4, LedgerStutters
<1> QED BY <1>1, <1>2

----------------------------------------------------------------------------
LEMMA KeepInit == Init => KeepInv
BY DEF Init, KeepInv, PubInv, AckInv, NothingLost

\* All layers together.
LogInv == HeldInv /\ KeepInv /\ SessionInv /\ RetryInv /\ CourierInv

LEMMA LogInvariance == Spec => []LogInv
<1>1. Init => LogInv
  BY HeldInit, KeepInit, SessionInit, RetryInit, CourierInit DEF LogInv
<1>2. LogInv /\ [Next]_vars => LogInv'
  BY HeldStep, KeepStep, SessionStep, RetryStep, CourierStep DEF LogInv
<1> QED BY <1>1, <1>2, PTL DEF Spec

\* Every reachable state is well typed; no copy counts more retries than
\* MaxRetries (consumer.go:144).
THEOREM LogTypeCorrect == Spec => []TypeOK
<1>1. LogInv => TypeOK
  BY DEF LogInv, HeldInv
<1> QED BY <1>1, LogInvariance, PTL

\* An accepted event is never lost: a delivery is acknowledged only when its
\* event is stored or a confirmed copy of it is in a queue, whatever breaks
\* in between (publisher.go:144, consumer.go:151).
THEOREM NothingIsLost == Spec => []NothingLost
<1>1. LogInv => NothingLost
  BY DEF LogInv, KeepInv
<1> QED BY <1>1, LogInvariance, PTL

\* Redelivered events have one row (repository/operation_log.go:43).
THEOREM StoredOnce == Spec => []OneRow
<1>1. LogInv => OneRow
  BY DEF LogInv, SessionInv
<1> QED BY <1>1, LogInvariance, PTL

\* A valid event is dead-lettered only when its handling has failed more than
\* MaxRetries times (consumer.go:144).
THEOREM DeadLettersEarned == Spec => []DeadLetterEarned
<1>1. LogInv => DeadLetterEarned
  BY DEF LogInv, RetryInv
<1> QED BY <1>1, LogInvariance, PTL

\* A closed publisher opens no channel again, although the consumer may still
\* be republishing (publisher.go:192).
THEOREM StaysClosed == Spec => []ClosedForGood
<1>1. LogInv => ClosedForGood
  BY DEF LogInv, SessionInv, ClosedForGood
<1> QED BY <1>1, LogInvariance, PTL

\* Whoever reconnects leaves a connection alone that works (client.go:108).
THEOREM SessionsAreKept == Spec => SessionsKept
<1>1. LogInv /\ [Next]_vars =>
        [(pubCh = "open" /\ pubCh' = "broken") \/ (conCh = "open" /\ conCh' = "broken")
           => faults' < faults \/ conn' = "closed"]_vars
  BY SessionsKeptStep DEF LogInv
<1> QED BY <1>1, LogInvariance, PTL DEF Spec, SessionsKept

\* The log is the ledger: whatever breaks, whoever publishes twice, and however
\* deliveries, confirmations and acknowledgements cross, the last copy of an
\* event leaves the queues only when the event is stored or a dead letter
\* (consumer.go:125), only what was queued is stored or buried, and what is
\* accepted, stored or buried stays so.
THEOREM LogImplementsLedger == Spec => ImplementsLedger
<1>1. LogInv /\ [Next]_vars => [Ledger!Next]_(Ledger!vars)
  BY LedgerStep DEF LogInv
<1> QED BY <1>1, LogInvariance, LedgerStart, PTL DEF Spec, ImplementsLedger, Ledger!Spec
=============================================================================
