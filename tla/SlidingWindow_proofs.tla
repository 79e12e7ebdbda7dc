------------------------ MODULE SlidingWindow_proofs ------------------------
(***************************************************************************)
(* Theorems about SlidingWindow: types, and that the limit holds, for any  *)
(* rules, any finite number of requests, any skew of the clocks and any    *)
(* timeout of Redis.                                                       *)
(***************************************************************************)
EXTENDS SlidingWindow, FiniteSetTheorems, TLAPS

----------------------------------------------------------------------------
(* The inductive invariant *)

\* An instance's clock is at most Skew ahead, also where its script is overdue.
ClockInv(q) ==
    /\ request[q].now <= time + Skew
    /\ request[q].step = "asking" => request[q].sent <= time /\ request[q].sent <= request[q].now

\* An allowed request was admitted soon after its clock was read, and as long as
\* the window reaches back to it no script and no expiry removes it.
MemberInv(q) ==
    request[q].step = "allowed" =>
      /\ request[q].turn <= turns /\ request[q].at <= time
      /\ request[q].at <= request[q].now + RedisTimeout
      /\ expires >= request[q].at + Narrowest
      /\ request[q].at > time - Span => q \in zset

WindowInv ==
    /\ WindowTypes
    /\ \A q \in Requests : ClockInv(q)
    /\ \A q \in Requests : MemberInv(q)
    /\ WithinLimit

LEMMA Numbers ==
    /\ Narrowest \in Nat /\ Skew \in Nat /\ RedisTimeout \in Nat /\ Span \in Int
    /\ \A r \in Rules : r.window \in Nat /\ r.window >= Narrowest /\ r.limit \in Nat \ {0}
    /\ (CHOOSE any \in Rules : TRUE) \in Rules
<1>1. /\ Narrowest \in Nat /\ Skew \in Nat /\ RedisTimeout \in Nat
      /\ Rules \subseteq RuleType /\ Rules # {} /\ \A r \in Rules : r.window >= Narrowest
  BY WindowAssumption
<1>2. Span \in Int
  BY <1>1 DEF Span
<1>3. (CHOOSE any \in Rules : TRUE) \in Rules
  BY <1>1
<1> QED BY <1>1, <1>2, <1>3 DEF RuleType

\* What is known of a request
LEMMA RequestTyped ==
    ASSUME WindowTypes, NEW q \in Requests
    PROVE  /\ request \in [Requests -> LimitedRequest] /\ request[q].rule \in Rules
           /\ request[q].sent \in Nat /\ request[q].now \in Nat
           /\ request[q].at \in Nat /\ request[q].turn \in Nat
           /\ time \in Nat /\ turns \in Nat /\ expires \in Nat
BY DEF WindowTypes, LimitedRequest

\* A request of which only the step matters
LEMMA InTyped ==
    ASSUME NEW step \in {"idle", "asking", "allowed", "denied", "passed"}
    PROVE  /\ In(step) \in LimitedRequest /\ In(step).step = step /\ In(step).now = 0
BY Numbers DEF In, LimitedRequest

\* Members are finitely many.
LEMMA CurrentFinite ==
    ASSUME WindowTypes, NEW r \in Requests
    PROVE  /\ Current(r) \subseteq zset /\ IsFiniteSet(Current(r))
           /\ Cardinality(Current(r)) \in Nat
<1>1. Current(r) \in SUBSET Requests /\ Current(r) \subseteq zset
  BY DEF Current, WindowTypes
<1>2. IsFiniteSet(Current(r))
  BY <1>1, WindowAssumption, FS_Subset
<1> QED BY <1>1, <1>2, FS_CardinalityType

----------------------------------------------------------------------------
(* A script *)

\* No script removes a request that the window still reaches back to.
LEMMA CurrentKeeps ==
    ASSUME WindowInv, NEW r \in Requests, NEW q \in Requests,
           request[q].step = "allowed", request[q].at > time - Span
    PROVE  q \in Current(r)
<1>1. q \in zset /\ request[q].at <= request[q].now + RedisTimeout
  BY DEF WindowInv, MemberInv
<1>2. request[r].now <= time + Skew
  BY DEF WindowInv, ClockInv
<1>3. WindowTypes
  BY DEF WindowInv
<1>4. /\ request[q].at \in Nat /\ request[q].now \in Nat /\ request[r].now \in Nat
      /\ request[r].rule \in Rules /\ time \in Nat
  BY <1>3, RequestTyped
<1>5. request[r].rule.window \in Nat /\ request[r].rule.window >= Narrowest
  BY <1>4, Numbers
<1>6. request[q].now > request[r].now - request[r].rule.window
  <2>1. Span = Narrowest - Skew - RedisTimeout
    BY DEF Span
  <2> QED BY <1>1, <1>2, <1>4, <1>5, <2>1, Numbers
<1> QED BY <1>1, <1>6 DEF Current

\* What a script of r does to the key
LEMMA ScriptKeeps ==
    ASSUME WindowInv, NEW r \in Requests, Script(r)
    PROVE  /\ zset' \subseteq Requests /\ expires' \in Nat /\ turns' \in Nat
           /\ turns' >= turns /\ Current(r) \subseteq zset'
           /\ \A q \in Requests : request[q].step = "allowed" =>
                expires' >= request[q].at + Narrowest
           /\ ~Full(r) => r \in zset' /\ turns' = turns + 1 /\ expires' >= time + Narrowest
<1>1. /\ WindowTypes /\ request[r].rule \in Rules /\ time \in Nat /\ turns \in Nat
      /\ expires \in Nat /\ zset \subseteq Requests
  BY RequestTyped DEF WindowInv, WindowTypes
<1>2. request[r].rule.window \in Nat /\ request[r].rule.window >= Narrowest /\ Narrowest \in Nat
  BY <1>1, Numbers
<1>3. Current(r) \subseteq Requests
  BY <1>1 DEF Current
<1>4. \A q \in Requests : request[q].step = "allowed" =>
         /\ request[q].at \in Nat /\ request[q].at <= time
         /\ expires >= request[q].at + Narrowest
  BY <1>1, RequestTyped DEF WindowInv, MemberInv
<1>5. CASE Full(r)
  BY <1>1, <1>3, <1>4, <1>5 DEF Script
<1>6. CASE ~Full(r)
  <2>1. /\ zset' = Current(r) \cup {r} /\ expires' = time + request[r].rule.window
        /\ turns' = turns + 1
    BY <1>6 DEF Script
  <2>2. expires' \in Nat /\ expires' >= time + Narrowest /\ turns' \in Nat /\ turns' >= turns
    BY <1>1, <1>2, <2>1
  <2>3. \A q \in Requests : request[q].step = "allowed" => expires' >= request[q].at + Narrowest
    BY <1>1, <1>2, <1>4, <2>2
  <2> QED BY <1>3, <2>1, <2>2, <2>3
<1> QED BY <1>5, <1>6

\* Allowed requests are as they were and no new one has an earlier turn, so the
\* neighbours of an allowed request are as they were.
LEMMA LimitStays ==
    ASSUME WindowInv, WindowTypes',
           \A q \in Requests : request[q].step = "allowed" => request'[q] = request[q],
           \A q \in Requests : request'[q].step = "allowed" =>
              request'[q] = request[q] \/ request'[q].turn > turns,
           NEW r \in Requests, request[r].step = "allowed"
    PROVE  Cardinality(Neighbours(r)') <= request'[r].rule.limit
<1>1. request'[r] = request[r] /\ request[r].turn <= turns
  BY DEF WindowInv, MemberInv
<1>2. request[r].turn \in Nat /\ turns \in Nat
  BY RequestTyped DEF WindowInv
<1>3. ASSUME NEW q \in Requests
      PROVE  request'[q].step = "allowed" /\ request'[q].turn <= request[r].turn
             <=> request[q].step = "allowed" /\ request[q].turn <= request[r].turn
  <2>1. CASE request'[q] = request[q]
    BY <2>1
  <2>2. CASE request'[q] # request[q]
    <3>1. request[q].step # "allowed"
      BY <2>2
    <3>2. request'[q].step = "allowed" => request'[q].turn > turns
      BY <2>2
    <3>3. request'[q].step = "allowed" => ~(request'[q].turn <= request[r].turn)
      <4> SUFFICES ASSUME request'[q].step = "allowed", request'[q].turn <= request[r].turn
                   PROVE  FALSE
        OBVIOUS
      <4>1. request'[q].turn \in Nat
        BY DEF WindowTypes, LimitedRequest
      <4> QED BY <1>1, <1>2, <3>2, <4>1
    <3> QED BY <3>1, <3>3
  <2> QED BY <2>1, <2>2
<1>4. Neighbours(r)' = Neighbours(r)
  <2>1. \A q \in Requests :
           request'[q].step = "allowed" /\ request'[q].turn <= request[r].turn =>
             request'[q] = request[q]
    BY <1>3
  <2> QED BY <1>1, <1>3, <2>1 DEF Neighbours
<1> QED BY <1>1, <1>4 DEF WindowInv, WithinLimit

\* In no time, only r changes, and what is allowed stays in the key.
LEMMA RequestMoves ==
    ASSUME WindowInv, WindowTypes', time' = time, turns' >= turns,
           NEW r \in Requests, request[r].step # "allowed",
           \A q \in Requests \ {r} : request'[q] = request[q],
           \A q \in Requests : request[q].step = "allowed" =>
              /\ expires' >= request[q].at + Narrowest
              /\ request[q].at > time - Span => q \in zset',
           ClockInv(r)',
           request'[r].step = "allowed" =>
              /\ request'[r].turn > turns /\ MemberInv(r)'
              /\ Cardinality(Neighbours(r)') <= request'[r].rule.limit
    PROVE  WindowInv'
<1>1. \A q \in Requests : request[q].step = "allowed" => q # r /\ request'[q] = request[q]
  OBVIOUS
<1>2. \A q \in Requests : request'[q].step = "allowed" =>
         request'[q] = request[q] \/ request'[q].turn > turns
  OBVIOUS
<1>3. ASSUME NEW q \in Requests PROVE ClockInv(q)'
  <2>1. CASE q = r
    BY <2>1
  <2>2. CASE q # r
    <3>1. ClockInv(q) /\ request'[q] = request[q]
      BY <2>2 DEF WindowInv
    <3> QED BY <3>1 DEF ClockInv
  <2> QED BY <2>1, <2>2
<1>4. ASSUME NEW q \in Requests PROVE MemberInv(q)'
  <2>1. CASE q = r
    BY <2>1 DEF MemberInv
  <2>2. CASE q # r /\ request[q].step = "allowed"
    <3>1. /\ request'[q] = request[q] /\ request[q].turn <= turns /\ request[q].at <= time
          /\ request[q].at <= request[q].now + RedisTimeout
          /\ expires' >= request[q].at + Narrowest
          /\ request[q].at > time - Span => q \in zset'
      BY <1>1, <2>2 DEF WindowInv, MemberInv
    <3>2. request[q].turn \in Nat /\ turns \in Nat /\ turns' \in Nat
      BY RequestTyped DEF WindowInv, WindowTypes
    <3>3. request[q].turn <= turns'
      BY <3>1, <3>2
    <3> QED BY <3>1, <3>3 DEF MemberInv
  <2>3. CASE q # r /\ request[q].step # "allowed"
    BY <2>3 DEF MemberInv
  <2> QED BY <2>1, <2>2, <2>3
<1>5. ASSUME NEW q \in Requests, request'[q].step = "allowed"
      PROVE  Cardinality(Neighbours(q)') <= request'[q].rule.limit
  <2>1. CASE q = r
    BY <1>5, <2>1
  <2>2. CASE q # r
    <3>1. request[q].step = "allowed"
      BY <1>5, <2>2
    <3> QED BY <1>1, <1>2, <3>1, LimitStays
  <2> QED BY <2>1, <2>2
<1> QED BY <1>3, <1>4, <1>5 DEF WindowInv, WithinLimit

\* The key is as it was: it still has who is allowed.
LEMMA KeyStays ==
    ASSUME WindowInv, zset' = zset, expires' = expires
    PROVE  \A q \in Requests : request[q].step = "allowed" =>
              /\ expires' >= request[q].at + Narrowest
              /\ request[q].at > time - Span => q \in zset'
BY DEF WindowInv, MemberInv

\* After a script, the key has who is allowed, unless the window is past.
LEMMA KeyKeeps ==
    ASSUME WindowInv, NEW r \in Requests, Script(r)
    PROVE  \A q \in Requests : request[q].step = "allowed" =>
              /\ expires' >= request[q].at + Narrowest
              /\ request[q].at > time - Span => q \in zset'
BY ScriptKeeps, CurrentKeeps

----------------------------------------------------------------------------
(* The actions *)

LEMMA WindowStart == WindowInit => WindowInv
<1> SUFFICES ASSUME WindowInit PROVE WindowInv
  OBVIOUS
<1>1. /\ request \in [Requests -> LimitedRequest]
      /\ \A q \in Requests : request[q].step = "idle" /\ request[q].now = 0
  BY InTyped DEF WindowInit
<1>2. WindowTypes
  BY <1>1 DEF WindowInit, WindowTypes
<1>3. \A q \in Requests : ClockInv(q)
  BY <1>1, Numbers DEF WindowInit, ClockInv
<1> QED BY <1>1, <1>2, <1>3 DEF WindowInv, MemberInv, WithinLimit

\* A key that goes has none that the window still reaches back to.
LEMMA PassKeeps == WindowInv /\ Pass => WindowInv'
<1> SUFFICES ASSUME WindowInv, Pass PROVE WindowInv'
  OBVIOUS
<1>1. /\ time' = time + 1 /\ zset' = (IF time' >= expires THEN {} ELSE zset)
      /\ expires' = expires /\ rule' = rule /\ request' = request /\ overdue' = overdue
      /\ turns' = turns
  BY DEF Pass
<1>2. WindowTypes /\ time \in Nat /\ expires \in Nat
  BY DEF WindowInv, WindowTypes
<1>3. WindowTypes'
  BY <1>1, <1>2 DEF WindowTypes
<1>4. ASSUME NEW q \in Requests PROVE ClockInv(q)'
  <2>1. ClockInv(q)
    BY DEF WindowInv
  <2>2. request[q].now \in Nat /\ request[q].sent \in Nat
    BY <1>2, RequestTyped
  <2> QED BY <1>1, <1>2, <2>1, <2>2, Numbers DEF ClockInv
<1>5. ASSUME NEW q \in Requests, request[q].step = "allowed" PROVE MemberInv(q)'
  <2>1. /\ request[q].turn <= turns /\ request[q].at <= time
        /\ request[q].at <= request[q].now + RedisTimeout
        /\ expires >= request[q].at + Narrowest
        /\ request[q].at > time - Span => q \in zset
    BY <1>5 DEF WindowInv, MemberInv
  <2>2. request[q].at \in Nat
    BY <1>2, RequestTyped
  <2>3. Span <= Narrowest
    BY Numbers DEF Span
  <2>4. ASSUME request[q].at > time' - Span PROVE q \in zset'
    <3>1. request[q].at > time - Span
      BY <1>1, <1>2, <2>2, <2>4, Numbers
    <3>2. ~(time' >= expires)
      BY <1>1, <1>2, <2>1, <2>2, <2>3, <2>4, Numbers
    <3> QED BY <1>1, <2>1, <3>1, <3>2
  <2>5. request[q].at <= time'
    BY <1>1, <1>2, <2>1, <2>2
  <2> QED BY <1>1, <2>1, <2>4, <2>5 DEF MemberInv
<1>6. \A q \in Requests : MemberInv(q)'
  BY <1>1, <1>5 DEF MemberInv
<1>7. WithinLimit'
  BY <1>1 DEF WindowInv, WithinLimit, Neighbours
<1> QED BY <1>3, <1>4, <1>6, <1>7 DEF WindowInv

LEMMA PublishKeeps == ASSUME WindowInv, NEW new \in Rules, Publish(new) PROVE WindowInv'
<1>1. UNCHANGED <<time, zset, expires, request, overdue, turns>> /\ rule' = new
  BY DEF Publish
<1>2. WindowTypes'
  BY <1>1 DEF WindowInv, WindowTypes
<1> QED BY <1>1, <1>2 DEF WindowInv, ClockInv, MemberInv, WithinLimit, Neighbours

LEMMA AskRedisKeeps == ASSUME WindowInv, NEW r \in Requests, AskRedis(r) PROVE WindowInv'
<1>1. /\ request[r].step = "idle" /\ UNCHANGED <<time, zset, expires, rule, overdue, turns>>
  BY DEF AskRedis
<1>2. WindowTypes /\ time \in Nat /\ turns \in Nat /\ rule \in Rules
      /\ request \in [Requests -> LimitedRequest]
  BY DEF WindowInv, WindowTypes
<1>3. ASSUME NEW e \in LimitedRequest, request' = [request EXCEPT ![r] = e],
             e.step # "allowed", e.now <= time + Skew,
             e.step = "asking" => e.sent <= time /\ e.sent <= e.now
      PROVE  WindowInv'
  <2>1. request' \in [Requests -> LimitedRequest] /\ request'[r] = e
        /\ \A q \in Requests \ {r} : request'[q] = request[q]
    BY <1>2, <1>3
  <2>2. WindowTypes'
    BY <1>1, <1>2, <2>1 DEF WindowTypes
  <2>3. ClockInv(r)'
    BY <1>1, <1>3, <2>1 DEF ClockInv
  <2>4. turns' >= turns
    BY <1>1, <1>2
  <2> QED BY <1>1, <1>3, <2>1, <2>2, <2>3, <2>4, KeyStays, RequestMoves
<1>4. CASE rule.enabled
  <2>1. PICK ahead \in 0 .. Skew :
           request' = [request EXCEPT ![r].step = "asking", ![r].rule = rule,
                                      ![r].sent = time, ![r].now = time + ahead]
    BY <1>4 DEF AskRedis
  <2> DEFINE e == [request[r] EXCEPT !.step = "asking", !.rule = rule, !.sent = time,
                                     !.now = time + ahead]
  <2>2. time + ahead \in Nat /\ time + ahead <= time + Skew /\ time <= time /\ time <= time + ahead
    BY <1>2, Numbers
  <2>3. e \in LimitedRequest /\ e.step = "asking" /\ e.sent = time /\ e.now = time + ahead
    BY <1>2, <2>2 DEF LimitedRequest
  <2>4. request' = [request EXCEPT ![r] = e]
    BY <1>2, <2>1
  <2> HIDE DEF e
  <2> QED BY <1>3, <2>2, <2>3, <2>4
<1>5. CASE ~rule.enabled
  <2>1. request' = [request EXCEPT ![r] = In("passed")]
    BY <1>5 DEF AskRedis
  <2>2. In("passed") \in LimitedRequest /\ In("passed").step = "passed" /\ In("passed").now = 0
    BY InTyped
  <2>3. 0 <= time + Skew
    BY <1>2, Numbers
  <2> QED BY <1>3, <2>1, <2>2, <2>3
<1> QED BY <1>4, <1>5

\* r is admitted: its neighbours are in the key that its script has left, and
\* those were fewer than the limit.
LEMMA AllowedKeeps ==
    ASSUME WindowInv, NEW r \in Requests, Verdict(r), ~Full(r)
    PROVE  WindowInv'
<1> DEFINE e == [request[r] EXCEPT !.step = "allowed", !.sent = 0, !.at = time, !.turn = turns + 1]
<1>1. /\ request[r].step = "asking" /\ time <= request[r].sent + RedisTimeout /\ Script(r)
      /\ UNCHANGED <<time, rule, overdue>>
  BY DEF Verdict
<1>2. WindowTypes /\ request \in [Requests -> LimitedRequest]
  BY DEF WindowInv, WindowTypes
<1>3. /\ time \in Nat /\ turns \in Nat /\ request[r].sent \in Nat /\ request[r].now \in Nat
      /\ request[r].rule \in Rules
  BY <1>2, RequestTyped
<1>4. /\ zset' \subseteq Requests /\ expires' \in Nat /\ turns' \in Nat /\ turns' >= turns
      /\ r \in zset' /\ turns' = turns + 1 /\ expires' >= time + Narrowest
  BY <1>1, ScriptKeeps
<1>5. turns + 1 \in Nat
  BY <1>3
<1>6. /\ e \in LimitedRequest /\ e.step = "allowed" /\ e.at = time /\ e.turn = turns + 1
      /\ e.now = request[r].now /\ e.rule = request[r].rule
  BY <1>2, <1>3, <1>5 DEF LimitedRequest
<1>7. request' = [request EXCEPT ![r] = e]
  BY <1>2 DEF Verdict
<1> HIDE DEF e
<1>8. /\ request' \in [Requests -> LimitedRequest] /\ request'[r] = e
      /\ \A q \in Requests \ {r} : request'[q] = request[q]
  BY <1>2, <1>6, <1>7
<1>9. WindowTypes'
  BY <1>1, <1>2, <1>4, <1>8 DEF WindowTypes
<1>10. ClockInv(r)
  BY DEF WindowInv
<1>11. ClockInv(r)'
  BY <1>1, <1>6, <1>8, <1>10 DEF ClockInv
<1>12. time <= request[r].now + RedisTimeout
  <2>1. request[r].sent <= request[r].now
    BY <1>1, <1>10 DEF ClockInv
  <2> QED BY <1>1, <1>3, <2>1, Numbers
<1>13. MemberInv(r)'
  <2>1. time <= time
    BY <1>3
  <2>2. turns' <= turns'
    BY <1>4
  <2> QED BY <1>1, <1>4, <1>6, <1>8, <1>12, <2>1, <2>2 DEF MemberInv
<1>14. Cardinality(Neighbours(r)') <= request'[r].rule.limit
  <2>1. ASSUME NEW q \in Neighbours(r)' PROVE q \in Current(r) \cup {r}
    <3>1. CASE q # r
      <4>1. /\ q \in Requests /\ request'[q].step = "allowed"
            /\ request'[q].at > request'[r].at - Span
        BY <2>1 DEF Neighbours
      <4>2. request'[q] = request[q] /\ request'[r].at = time
        BY <1>6, <1>8, <3>1, <4>1
      <4>3. request[q].step = "allowed" /\ request[q].at > time - Span
        BY <4>1, <4>2
      <4> QED BY <4>1, <4>3, CurrentKeeps
    <3> QED BY <3>1
  <2>2. IsFiniteSet(Current(r)) /\ Cardinality(Current(r)) \in Nat
    BY <1>2, CurrentFinite
  <2>3. /\ IsFiniteSet(Current(r) \cup {r})
        /\ Cardinality(Current(r) \cup {r}) <= Cardinality(Current(r)) + 1
    <3>1. /\ IsFiniteSet(Current(r) \cup {r})
          /\ Cardinality(Current(r) \cup {r})
               = IF r \in Current(r) THEN Cardinality(Current(r)) ELSE Cardinality(Current(r)) + 1
      BY <2>2, FS_AddElement
    <3> QED BY <2>2, <3>1
  <2>4. Neighbours(r)' \in SUBSET (Current(r) \cup {r})
    BY <2>1
  <2>5. /\ IsFiniteSet(Neighbours(r)')
        /\ Cardinality(Neighbours(r)') <= Cardinality(Current(r) \cup {r})
    BY <2>3, <2>4, FS_Subset
  <2>6. Cardinality(Neighbours(r)') \in Nat /\ Cardinality(Current(r) \cup {r}) \in Nat
    BY <2>3, <2>5, FS_CardinalityType
  <2>7. request[r].rule.limit \in Nat
    BY <1>3, Numbers
  <2>8. Cardinality(Current(r)) + 1 <= request[r].rule.limit
    BY <2>2, <2>7 DEF Full
  <2>9. request'[r].rule = request[r].rule
    BY <1>6, <1>8
  <2> QED BY <2>2, <2>3, <2>5, <2>6, <2>7, <2>8, <2>9
<1>15. request'[r].turn > turns
  BY <1>3, <1>6, <1>8
<1> QED BY <1>1, <1>4, <1>8, <1>9, <1>11, <1>13, <1>14, <1>15, KeyKeeps, RequestMoves

LEMMA DeniedKeeps ==
    ASSUME WindowInv, NEW r \in Requests, Verdict(r), Full(r)
    PROVE  WindowInv'
<1> DEFINE e == In("denied")
<1>1. /\ request[r].step = "asking" /\ Script(r) /\ UNCHANGED <<time, rule, overdue>>
      /\ request' = [request EXCEPT ![r] = e]
  BY DEF Verdict
<1>2. WindowTypes /\ request \in [Requests -> LimitedRequest] /\ time \in Nat
  BY DEF WindowInv, WindowTypes
<1>3. e \in LimitedRequest /\ e.step = "denied" /\ e.now = 0
  BY InTyped
<1> HIDE DEF e
<1>4. /\ request' \in [Requests -> LimitedRequest] /\ request'[r] = e
      /\ \A q \in Requests \ {r} : request'[q] = request[q]
  BY <1>1, <1>2, <1>3
<1>5. zset' \subseteq Requests /\ expires' \in Nat /\ turns' \in Nat /\ turns' >= turns
  BY <1>1, ScriptKeeps
<1>6. WindowTypes'
  BY <1>1, <1>2, <1>4, <1>5 DEF WindowTypes
<1>7. ClockInv(r)'
  BY <1>1, <1>2, <1>3, <1>4, Numbers DEF ClockInv
<1> QED BY <1>1, <1>3, <1>4, <1>5, <1>6, <1>7, KeyKeeps, RequestMoves

LEMMA NoVerdictKeeps ==
    ASSUME WindowInv, NEW r \in Requests, NoVerdict(r)
    PROVE  WindowInv'
<1>1. /\ request[r].step = "asking" /\ UNCHANGED <<time, zset, expires, rule, turns>>
  BY DEF NoVerdict
<1>2. WindowTypes /\ request \in [Requests -> LimitedRequest] /\ request[r] \in LimitedRequest
      /\ time \in Nat /\ turns \in Nat
  BY DEF WindowInv, WindowTypes
<1>3. ASSUME NEW e \in LimitedRequest, request' = [request EXCEPT ![r] = e],
             e.step \in {"denied", "passed"}, e.now <= time + Skew, overdue' \subseteq Requests
      PROVE  WindowInv'
  <2>1. request' \in [Requests -> LimitedRequest] /\ request'[r] = e
        /\ \A q \in Requests \ {r} : request'[q] = request[q]
    BY <1>2, <1>3
  <2>2. WindowTypes'
    BY <1>1, <1>2, <1>3, <2>1 DEF WindowTypes
  <2>3. ClockInv(r)'
    BY <1>1, <1>3, <2>1 DEF ClockInv
  <2>4. turns' >= turns
    BY <1>1, <1>2
  <2> QED BY <1>1, <1>3, <2>1, <2>2, <2>3, <2>4, KeyStays, RequestMoves
<1>4. PICK step \in {"denied", "passed"} :
         \/ request' = [request EXCEPT ![r] = In(step)] /\ overdue' = overdue
         \/ /\ request' = [request EXCEPT ![r].step = step, ![r].sent = 0]
            /\ overdue' = overdue \cup {r}
  BY DEF NoVerdict
<1>5. overdue' \subseteq Requests
  BY <1>2, <1>4 DEF WindowTypes
<1>6. CASE request' = [request EXCEPT ![r] = In(step)]
  <2>1. In(step) \in LimitedRequest /\ In(step).step = step /\ In(step).now = 0
    BY InTyped
  <2>2. 0 <= time + Skew
    BY <1>2, Numbers
  <2> QED BY <1>3, <1>5, <1>6, <2>1, <2>2
<1>7. CASE request' = [request EXCEPT ![r].step = step, ![r].sent = 0]
  <2> DEFINE e == [request[r] EXCEPT !.step = step, !.sent = 0]
  <2>1. e \in LimitedRequest /\ e.step = step /\ e.now = request[r].now
    BY <1>2 DEF LimitedRequest
  <2>2. request' = [request EXCEPT ![r] = e]
    BY <1>2, <1>7
  <2>3. request[r].now <= time + Skew
    BY DEF WindowInv, ClockInv
  <2> HIDE DEF e
  <2> QED BY <1>3, <1>5, <2>1, <2>2, <2>3
<1> QED BY <1>4, <1>6, <1>7

\* A script that nobody waits for takes a place in the key and nothing else.
LEMMA ScriptOverdueKeeps ==
    ASSUME WindowInv, NEW r \in Requests, ScriptOverdue(r)
    PROVE  WindowInv'
<1>1. Script(r) /\ UNCHANGED <<time, rule, request>> /\ overdue' = overdue \ {r}
  BY DEF ScriptOverdue
<1>2. zset' \subseteq Requests /\ expires' \in Nat /\ turns' \in Nat /\ turns' >= turns
  BY <1>1, ScriptKeeps
<1>3. WindowTypes'
  BY <1>1, <1>2 DEF WindowInv, WindowTypes
<1>4. \A q \in Requests : ClockInv(q)'
  BY <1>1 DEF WindowInv, ClockInv
<1>5. ASSUME NEW q \in Requests PROVE MemberInv(q)'
  <2>1. CASE request[q].step = "allowed"
    <3>1. /\ request[q].turn <= turns /\ request[q].at <= time
          /\ request[q].at <= request[q].now + RedisTimeout
      BY <2>1 DEF WindowInv, MemberInv
    <3>2. /\ expires' >= request[q].at + Narrowest
          /\ request[q].at > time - Span => q \in zset'
      BY <1>1, <2>1, KeyKeeps
    <3>3. request[q].turn \in Nat /\ turns \in Nat
      BY RequestTyped DEF WindowInv
    <3>4. request[q].turn <= turns'
      BY <1>2, <3>1, <3>3
    <3> QED BY <1>1, <3>1, <3>2, <3>4 DEF MemberInv
  <2>2. CASE request[q].step # "allowed"
    BY <1>1, <2>2 DEF MemberInv
  <2> QED BY <2>1, <2>2
<1>6. WithinLimit'
  BY <1>1 DEF WindowInv, WithinLimit, Neighbours
<1> QED BY <1>3, <1>4, <1>5, <1>6 DEF WindowInv

LEMMA WindowKeeps == WindowInv /\ [WindowNext]_windowVars => WindowInv'
<1> SUFFICES ASSUME WindowInv, [WindowNext]_windowVars PROVE WindowInv'
  OBVIOUS
<1>1. CASE UNCHANGED windowVars
  BY <1>1 DEF windowVars, WindowInv, WindowTypes, ClockInv, MemberInv, WithinLimit, Neighbours
<1>2. CASE Pass \/ \E new \in Rules : Publish(new)
  BY <1>2, PassKeeps, PublishKeeps
<1>3. ASSUME NEW r \in Requests, AskRedis(r) \/ Verdict(r) \/ NoVerdict(r) \/ ScriptOverdue(r)
      PROVE  WindowInv'
  BY <1>3, AskRedisKeeps, AllowedKeeps, DeniedKeeps, NoVerdictKeeps, ScriptOverdueKeeps
<1> QED BY <1>1, <1>2, <1>3 DEF WindowNext

LEMMA WindowInvariant == WindowSpec => []WindowInv
BY WindowStart, WindowKeeps, PTL DEF WindowSpec

\* Times, turns and members always have their types.
THEOREM WindowTypeCorrect == WindowSpec => []WindowTypes
<1>1. WindowInv => WindowTypes
  BY DEF WindowInv
<1> QED BY <1>1, WindowInvariant, PTL

\* No instance allows a request beyond the limit of its rule, for any number of
\* requests and rules, and whatever the clocks are apart and Redis takes.
THEOREM LimitHolds == WindowSpec => []WithinLimit
<1>1. WindowInv => WithinLimit
  BY DEF WindowInv
<1> QED BY <1>1, WindowInvariant, PTL
=============================================================================
