------------------------- MODULE ProcessLife_proofs -------------------------
(***************************************************************************)
(* Theorems about the life of the processes: the gateway's connections     *)
(* (ClientManager), for any interleaving of handlers and Close, the        *)
(* process that uses them (GatewayLife), and what the other services leave *)
(* in the catalogue and under what they close their dependencies           *)
(* (ServiceLife), for any number of registrations that the agent loses and *)
(* of requests to it that go wrong; and what the gateway's watches of      *)
(* Consul have published (ServiceDiscovery, RuntimeConfig).                *)
(***************************************************************************)
EXTENDS GatewayLife, ServiceLife, ServiceDiscovery, RuntimeConfig, TLAPS

-----------------------------------------------------------------------------
(* The connections of the gateway *)

USE ManagerAssumption

\* Who makes the connection to a service is registered for it, alone, and there
\* is none yet unless the manager has closed.
Making ==
    /\ \A c \in Callers : call[c] \in {"dial", "settle"} =>
          pending[wants[c]] = c /\ (~closed => conns[wants[c]] = NoConn)
    /\ \A s \in Services : pending[s] # NoConn =>
          call[pending[s]] \in {"dial", "settle"} /\ wants[pending[s]] = s

\* Only who has made or been given a connection holds one, and it is open as long
\* as the manager is.
Holding ==
    /\ \A c \in Callers : call[c] \notin {"settle", "using"} => got[c] = NoConn
    /\ \A c \in Callers : call[c] = "settle" /\ got[c] # NoConn /\ ~closed => got[c] \in open
    /\ \A s \in Services : conns[s] # NoConn /\ ~closed => conns[s] \in open
    /\ ~closed => closing = {}
    /\ \A c \in Callers : call[c] = "using" => got[c] # NoConn

ManagerInv == ManagerTypes /\ Making /\ Holding /\ NothingLeaks /\ OneConnection

\* The invariant holds before anybody has called.
LEMMA ManagerStart == ManagerInit => ManagerInv
<1> SUFFICES ASSUME ManagerInit PROVE ManagerInv
  OBVIOUS
<1>1. /\ conns = [s \in Services |-> NoConn] /\ pending = [s \in Services |-> NoConn]
      /\ closed = FALSE /\ closing = {} /\ open = {} /\ made = {}
      /\ call = [c \in Callers |-> "idle"] /\ got = [c \in Callers |-> NoConn]
  BY DEF ManagerInit
<1>2. calls \in [Callers -> 0..Calls] /\ mishaps \in 0..Faults /\ wants \in [Callers -> Services]
  BY DEF ManagerInit
<1>3. ManagerTypes
  BY <1>1, <1>2 DEF ManagerTypes, Stages
<1>4. \A c \in Callers : call[c] = "idle" /\ got[c] = NoConn
  BY <1>1
<1>5. \A s \in Services : conns[s] = NoConn /\ pending[s] = NoConn
  BY <1>1
<1>6. Making
  BY <1>4, <1>5 DEF Making
<1>7. Holding /\ NothingLeaks /\ OneConnection
  BY <1>1, <1>4, <1>5 DEF Holding, NothingLeaks, OneConnection
<1> QED BY <1>3, <1>6, <1>7 DEF ManagerInv

\* The new stage and connection of the one caller that returns.
LEMMA GiveType ==
    ASSUME ManagerTypes, NEW c \in Callers, NEW n \in Conns \cup {NoConn}, Give(c, n)
    PROVE  /\ call' \in [Callers -> Stages] /\ got' \in [Callers -> Conns \cup {NoConn}]
           /\ got'[c] = n /\ call'[c] = (IF n = NoConn THEN "idle" ELSE "using")
           /\ \A q \in Callers \ {c} : got'[q] = got[q] /\ call'[q] = call[q]
BY DEF Give, Now, ManagerTypes, Stages

\* The new stages and connections of all who are served.
LEMMA ShareType ==
    ASSUME ManagerTypes, NEW c \in Callers, NEW n \in Conns \cup {NoConn}, Share(c, n)
    PROVE  /\ call' \in [Callers -> Stages] /\ got' \in [Callers -> Conns \cup {NoConn}]
           /\ \A q \in Followers(c) \cup {c} :
                 got'[q] = n /\ call'[q] = (IF n = NoConn THEN "idle" ELSE "using")
           /\ \A q \in Callers \ (Followers(c) \cup {c}) : got'[q] = got[q] /\ call'[q] = call[q]
BY DEF Share, Followers, ManagerTypes, Stages

\* A caller that is not making a connection moves, and nothing else changes.
LEMMA BystanderStep ==
    ASSUME ManagerInv, NEW c \in Callers,
           call[c] \notin {"dial", "settle"},
           call'[c] \notin {"dial", "settle"},
           call' \in [Callers -> Stages],
           got' \in [Callers -> Conns \cup {NoConn}],
           wants' \in [Callers -> Services],
           calls' \in [Callers -> 0..Calls], mishaps' \in 0..Faults,
           \A q \in Callers \ {c} : got'[q] = got[q] /\ call'[q] = call[q] /\ wants'[q] = wants[q],
           call'[c] = "using" => got'[c] # NoConn /\ (~closed => got'[c] = conns[wants'[c]]),
           call'[c] # "using" => got'[c] = NoConn,
           UNCHANGED <<conns, pending, closed, closing, open, made>>
    PROVE  ManagerInv'
<1>1. ManagerTypes'
  BY DEF ManagerInv, ManagerTypes
<1>2. Making'
  BY DEF ManagerInv, ManagerTypes, Making
<1>3. Holding'
  BY DEF ManagerInv, ManagerTypes, Holding
<1>4. NothingLeaks'
  BY DEF ManagerInv, ManagerTypes, NothingLeaks
<1>5. OneConnection'
  BY DEF ManagerInv, ManagerTypes, Holding, OneConnection
<1> QED BY <1>1, <1>2, <1>3, <1>4, <1>5 DEF ManagerInv

\* GetClient, its check under the read lock, the end of a wait, the end of a call.
LEMMA CallerSteps ==
    ASSUME ManagerInv, NEW c \in Callers,
           \/ \E s \in Services : GetClient(c, s)
           \/ CheckConn(c) \/ LeaveWait(c) \/ Finish(c)
    PROVE  ManagerInv'
<1> USE DEF ManagerInv
<1>0. conns[wants[c]] \in Conns \cup {NoConn} /\ wants[c] \in Services
  BY DEF ManagerTypes
<1>1. CASE \E s \in Services : GetClient(c, s)
  <2>1. PICK s \in Services : GetClient(c, s)
    BY <1>1
  <2>2. /\ call' \in [Callers -> Stages] /\ call'[c] = "check"
        /\ wants' \in [Callers -> Services] /\ calls' \in [Callers -> 0..Calls]
        /\ \A q \in Callers \ {c} : call'[q] = call[q] /\ wants'[q] = wants[q]
    BY <2>1 DEF GetClient, Now, ManagerTypes, Stages
  <2>3. UNCHANGED <<conns, pending, closed, closing, open, made, got, mishaps>> /\ call[c] = "idle"
    BY <2>1 DEF GetClient
  <2> QED BY <2>2, <2>3, BystanderStep DEF ManagerTypes, Holding
<1>2. CASE CheckConn(c)
  <2>1. /\ UNCHANGED <<conns, pending, closed, closing, open, made, wants, calls, mishaps>>
        /\ call[c] = "check"
    BY <1>2 DEF CheckConn
  <2>2. CASE closed /\ Give(c, NoConn)
    BY <2>1, <2>2, GiveType, BystanderStep DEF ManagerTypes
  <2>3. CASE ~closed /\ conns[wants[c]] # NoConn /\ Give(c, conns[wants[c]])
    BY <1>0, <2>1, <2>3, GiveType, BystanderStep DEF ManagerTypes
  <2>4. CASE Now(c, "join") /\ UNCHANGED got
    <3>1. call' \in [Callers -> Stages] /\ call'[c] = "join" /\ \A q \in Callers \ {c} : call'[q] = call[q]
      BY <2>4 DEF Now, ManagerTypes, Stages
    <3> QED BY <2>1, <2>4, <3>1, BystanderStep DEF ManagerTypes, Holding
  <2> QED BY <1>2, <2>2, <2>3, <2>4 DEF CheckConn
<1>3. CASE LeaveWait(c)
  <2>1. call' \in [Callers -> Stages] /\ call'[c] = "idle" /\ \A q \in Callers \ {c} : call'[q] = call[q]
    BY <1>3 DEF LeaveWait, Now, ManagerTypes, Stages
  <2>2. mishaps' \in 0..Faults
    BY <1>3 DEF LeaveWait, Mishap, ManagerTypes
  <2> QED BY <1>3, <2>1, <2>2, BystanderStep DEF LeaveWait, ManagerTypes, Holding
<1>4. CASE Finish(c)
  BY <1>4, GiveType, BystanderStep DEF Finish, ManagerTypes
<1> QED BY <1>1, <1>2, <1>3, <1>4

\* Under the lock a caller returns, waits, or becomes the one that makes the connection.
LEMMA JoinStep ==
    ASSUME ManagerInv, NEW c \in Callers, Join(c)
    PROVE  ManagerInv'
<1> USE DEF ManagerInv
<1>0. conns[wants[c]] \in Conns \cup {NoConn} /\ wants[c] \in Services
  BY DEF ManagerTypes
<1>1. UNCHANGED <<conns, closed, closing, open, made, wants, calls, mishaps>> /\ call[c] = "join"
  BY DEF Join
<1>2. CASE closed /\ Give(c, NoConn) /\ UNCHANGED pending
  BY <1>1, <1>2, GiveType, BystanderStep DEF ManagerTypes
<1>3. CASE ~closed /\ conns[wants[c]] # NoConn /\ Give(c, conns[wants[c]]) /\ UNCHANGED pending
  BY <1>0, <1>1, <1>3, GiveType, BystanderStep DEF ManagerTypes
<1>4. CASE Now(c, "wait") /\ UNCHANGED <<got, pending>>
  <2>1. call' \in [Callers -> Stages] /\ call'[c] = "wait" /\ \A q \in Callers \ {c} : call'[q] = call[q]
    BY <1>4 DEF Now, ManagerTypes, Stages
  <2> QED BY <1>1, <1>4, <2>1, BystanderStep DEF ManagerTypes, Holding
<1>5. CASE ~closed /\ conns[wants[c]] = NoConn /\ pending[wants[c]] = NoConn /\ Lead(c)
  <2>1. /\ call' \in [Callers -> Stages] /\ call'[c] = "dial" /\ UNCHANGED got
        /\ \A q \in Callers \ {c} : call'[q] = call[q]
        /\ pending' \in [Services -> Callers \cup {NoConn}] /\ pending'[wants[c]] = c
        /\ \A s \in Services \ {wants[c]} : pending'[s] = pending[s]
    BY <1>0, <1>5 DEF Lead, Now, ManagerTypes, Stages
  <2>2. ManagerTypes'
    BY <1>1, <2>1 DEF ManagerTypes
  <2>3. Making'
    BY <1>0, <1>1, <1>5, <2>1 DEF ManagerTypes, Making
  <2>4. Holding' /\ NothingLeaks' /\ OneConnection'
    BY <1>0, <1>1, <1>5, <2>1 DEF ManagerTypes, Making, Holding, NothingLeaks, OneConnection
  <2> QED BY <2>2, <2>3, <2>4
<1> QED BY <1>2, <1>3, <1>4, <1>5 DEF Join

\* A new connection is held by its maker; a dial that fails leaves nothing.
LEMMA DialStep ==
    ASSUME ManagerInv, NEW c \in Callers, Dial(c)
    PROVE  ManagerInv'
<1> USE DEF ManagerInv
<1>1. UNCHANGED <<conns, pending, closed, closing, wants, calls>> /\ call[c] = "dial"
  BY DEF Dial
<1>2. /\ call' \in [Callers -> Stages] /\ call'[c] = "settle"
      /\ \A q \in Callers \ {c} : call'[q] = call[q]
  BY DEF Dial, Now, ManagerTypes, Stages
<1>3. CASE Mishap /\ UNCHANGED <<made, open, got>>
  <2>1. mishaps' \in 0..Faults /\ got[c] = NoConn
    BY <1>1, <1>3 DEF Mishap, ManagerTypes, Holding
  <2>2. ManagerTypes' /\ Making' /\ Holding'
    BY <1>1, <1>2, <1>3, <2>1 DEF ManagerTypes, Making, Holding
  <2>3. NothingLeaks' /\ OneConnection'
    BY <1>1, <1>2, <1>3, <2>1 DEF ManagerTypes, NothingLeaks, OneConnection
  <2> QED BY <2>2, <2>3
<1>4. ASSUME NEW n \in Conns \ made, made' = made \cup {n}, open' = open \cup {n},
             got' = [got EXCEPT ![c] = n], UNCHANGED mishaps
      PROVE  ManagerInv'
  <2>1. /\ got' \in [Callers -> Conns \cup {NoConn}] /\ got'[c] = n
        /\ \A q \in Callers \ {c} : got'[q] = got[q]
    BY <1>4 DEF ManagerTypes
  <2>2. ManagerTypes'
    BY <1>1, <1>2, <1>4, <2>1 DEF ManagerTypes
  <2>3. Making' /\ Holding'
    BY <1>1, <1>2, <1>4, <2>1 DEF ManagerTypes, Making, Holding
  <2>4. pending[wants[c]] = c
    BY <1>1 DEF Making
  <2>5. NothingLeaks'
    BY <1>1, <1>2, <1>4, <2>1, <2>4 DEF ManagerTypes, NothingLeaks
  <2>6. OneConnection'
    BY <1>1, <1>2, <1>4, <2>1 DEF ManagerTypes, OneConnection
  <2> QED BY <2>2, <2>3, <2>5, <2>6
<1> QED BY <1>3, <1>4 DEF Dial

\* What the maker and its followers get is shared, or nothing.
LEMMA SettleStep ==
    ASSUME ManagerInv, NEW c \in Callers, Settle(c)
    PROVE  ManagerInv'
<1> USE DEF ManagerInv
<1> DEFINE w == wants[c]
<1>0. got[c] \in Conns \cup {NoConn} /\ w \in Services
  BY DEF ManagerTypes
<1>1. /\ UNCHANGED <<closed, closing, made, wants, calls, mishaps>> /\ call[c] = "settle"
      /\ pending' \in [Services -> Callers \cup {NoConn}] /\ pending'[w] = NoConn
      /\ \A s \in Services \ {w} : pending'[s] = pending[s]
  BY <1>0 DEF Settle, ManagerTypes
<1>2. pending[w] = c /\ (~closed => conns[w] = NoConn)
  BY <1>1 DEF Making
<1>3. \A q \in Callers : call[q] \in {"dial", "settle"} /\ q # c => wants[q] # w
  BY <1>2 DEF Making
<1>4. \A q \in Followers(c) : call[q] = "wait" /\ wants[q] = w /\ q \in Callers
  BY DEF Followers
<1>5. ASSUME NEW n \in Conns \cup {NoConn}, Share(c, n), ManagerTypes'
      PROVE  /\ \A q \in Callers : call'[q] \in {"dial", "settle"} =>
                   q # c /\ call'[q] = call[q] /\ got'[q] = got[q]
             /\ \A q \in Callers : call[q] \in {"dial", "settle"} /\ q # c =>
                   call'[q] = call[q] /\ got'[q] = got[q]
             /\ \A q \in Callers : call'[q] \notin {"settle", "using"} /\ call[q] \notin {"settle", "using"} =>
                   got'[q] = got[q] \/ got'[q] = NoConn
             /\ \A q \in Callers : call'[q] = "using" =>
                   \/ got'[q] = n /\ n # NoConn /\ wants[q] = w
                   \/ call[q] = "using" /\ got'[q] = got[q]
             /\ \A q \in Callers : call'[q] \notin {"settle", "using"} => got'[q] = NoConn
  BY <1>1, <1>4, <1>5, ShareType DEF Holding
<1>6. ASSUME NEW n \in Conns \cup {NoConn}, Share(c, n), ManagerTypes'
      PROVE  (\A s \in Services : s # w => conns'[s] = conns[s]) => Making'
  <2>1. SUFFICES ASSUME \A s \in Services : s # w => conns'[s] = conns[s] PROVE Making'
    OBVIOUS
  <2>2. ASSUME NEW q \in Callers, call'[q] \in {"dial", "settle"}
        PROVE  pending'[wants'[q]] = q /\ (~closed' => conns'[wants'[q]] = NoConn)
    BY <1>1, <1>3, <1>5, <1>6, <2>1, <2>2 DEF ManagerTypes, Making
  <2>3. ASSUME NEW s \in Services, pending'[s] # NoConn
        PROVE  call'[pending'[s]] \in {"dial", "settle"} /\ wants'[pending'[s]] = s
    BY <1>1, <1>2, <1>5, <1>6, <2>3 DEF ManagerTypes, Making
  <2> QED BY <2>2, <2>3 DEF Making
<1>7. CASE got[c] = NoConn /\ Share(c, NoConn) /\ UNCHANGED <<conns, open>>
  <2>1. ManagerTypes'
    BY <1>1, <1>7, ShareType DEF ManagerTypes
  <2>2. Making'
    BY <1>6, <1>7, <2>1
  <2>3. Holding'
    BY <1>1, <1>5, <1>7, <2>1 DEF Holding, ManagerTypes
  <2>4. NothingLeaks'
    BY <1>0, <1>1, <1>3, <1>5, <1>7, <2>1 DEF ManagerTypes, NothingLeaks
  <2>5. OneConnection'
    BY <1>1, <1>5, <1>7, <2>1 DEF ManagerTypes, OneConnection
  <2> QED BY <2>1, <2>2, <2>3, <2>4, <2>5
<1>8. CASE got[c] # NoConn /\ closed /\ open' = open \ {got[c]} /\ Share(c, NoConn) /\ UNCHANGED conns
  <2>1. ManagerTypes'
    BY <1>1, <1>8, ShareType DEF ManagerTypes
  <2>2. Making'
    BY <1>6, <1>8, <2>1
  <2>3. Holding'
    BY <1>1, <1>5, <1>8, <2>1 DEF Holding, ManagerTypes
  <2>4. NothingLeaks'
    BY <1>0, <1>1, <1>3, <1>5, <1>8, <2>1 DEF ManagerTypes, NothingLeaks
  <2>5. OneConnection'
    BY <1>1, <1>5, <1>8, <2>1 DEF ManagerTypes, OneConnection
  <2> QED BY <2>1, <2>2, <2>3, <2>4, <2>5
<1>9. CASE got[c] # NoConn /\ ~closed /\ conns' = [conns EXCEPT ![w] = got[c]] /\ Share(c, got[c]) /\ UNCHANGED open
  <2>0. /\ conns' \in [Services -> Conns \cup {NoConn}] /\ conns'[w] = got[c]
        /\ \A s \in Services : s # w => conns'[s] = conns[s]
    BY <1>0, <1>9 DEF ManagerTypes
  <2>1. ManagerTypes'
    BY <1>0, <1>1, <1>9, <2>0, ShareType DEF ManagerTypes
  <2>2. Making'
    BY <1>0, <1>6, <1>9, <2>0, <2>1
  <2>3. got[c] \in open
    BY <1>1, <1>9 DEF Holding
  <2>4. \A q \in Callers : call[q] = "using" => wants[q] # w
    BY <1>2, <1>9 DEF Holding, OneConnection
  <2>5. Holding'
    BY <1>0, <1>1, <1>5, <1>9, <2>0, <2>1, <2>3 DEF Holding, ManagerTypes
  <2>6. NothingLeaks'
    <3>1. SUFFICES ASSUME NEW n \in open
                   PROVE  \/ n \in closing'
                          \/ \E s \in Services : conns'[s] = n
                          \/ \E q \in Callers : call'[q] = "settle" /\ got'[q] = n /\ pending'[wants'[q]] = q
      BY <1>1, <1>9 DEF NothingLeaks
    <3>2. CASE n \in closing \/ n = got[c]
      BY <1>0, <1>1, <2>0, <3>2
    <3>3. ASSUME NEW s \in Services, conns[s] = n
          PROVE  conns'[s] = n
      BY <1>2, <1>9, <2>0, <3>3 DEF ManagerTypes
    <3>4. ASSUME NEW q \in Callers, call[q] = "settle", got[q] = n, pending[wants[q]] = q, n # got[c]
          PROVE  call'[q] = "settle" /\ got'[q] = n /\ pending'[wants'[q]] = q
      BY <1>0, <1>1, <1>3, <1>5, <1>9, <2>1, <3>4 DEF ManagerTypes
    <3> QED BY <3>2, <3>3, <3>4 DEF NothingLeaks
  <2>7. OneConnection'
    <3>1. SUFFICES ASSUME NEW q \in Callers, call'[q] = "using"
                   PROVE  got'[q] = conns'[wants[q]] /\ got'[q] \in open
      BY <1>1, <1>9 DEF OneConnection
    <3>2. CASE got'[q] = got[c] /\ wants[q] = w
      BY <2>0, <2>3, <3>2
    <3>3. CASE call[q] = "using" /\ got'[q] = got[q]
      BY <1>9, <2>0, <2>4, <3>3 DEF OneConnection, ManagerTypes
    <3> QED BY <1>0, <1>5, <1>9, <2>1, <3>1, <3>2, <3>3
  <2> QED BY <2>1, <2>2, <2>5, <2>6, <2>7
<1> QED BY <1>7, <1>8, <1>9 DEF Settle

\* Close takes over what is shared, and closes it.
LEMMA CloseSteps ==
    ASSUME ManagerInv, BeginClose \/ \E n \in Conns : CloseConn(n)
    PROVE  ManagerInv'
<1> USE DEF ManagerInv
<1>1. CASE BeginClose
  <2>1. /\ UNCHANGED <<pending, open, made, call, wants, got, calls, mishaps>>
        /\ ~closed /\ closed' = TRUE
        /\ closing' = {conns[s] : s \in Services} \ {NoConn}
        /\ conns' = [s \in Services |-> NoConn]
    BY <1>1 DEF BeginClose
  <2>2. ManagerTypes'
    BY <2>1 DEF ManagerTypes
  <2>3. Making' /\ Holding' /\ OneConnection'
    BY <2>1 DEF ManagerTypes, Making, Holding, OneConnection
  <2>4. \A n \in open : n # NoConn
    BY DEF ManagerTypes
  <2>5. ASSUME NEW n \in open, NEW s \in Services, conns[s] = n
        PROVE  n \in closing'
    BY <2>1, <2>4, <2>5
  <2>6. NothingLeaks'
    <3>1. SUFFICES ASSUME NEW n \in open
                   PROVE  n \in closing' \/ \E q \in Callers : call[q] = "settle" /\ got[q] = n /\ pending[wants[q]] = q
      BY <2>1 DEF NothingLeaks
    <3>2. n \notin closing
      BY <2>1 DEF Holding
    <3> QED BY <2>5, <3>2 DEF NothingLeaks
  <2> QED BY <2>2, <2>3, <2>6
<1>2. ASSUME NEW n \in Conns, CloseConn(n) PROVE ManagerInv'
  <2>1. /\ UNCHANGED <<conns, pending, closed, made, call, wants, got, calls, mishaps>>
        /\ n \in closing /\ closing' = closing \ {n} /\ open' = open \ {n}
    BY <1>2 DEF CloseConn
  <2>2. closed
    BY <2>1 DEF Holding
  <2>3. ManagerTypes'
    BY <2>1 DEF ManagerTypes
  <2>4. Making' /\ Holding' /\ OneConnection'
    BY <2>1, <2>2 DEF ManagerTypes, Making, Holding, OneConnection
  <2>5. NothingLeaks'
    BY <2>1, <2>2 DEF NothingLeaks
  <2> QED BY <2>3, <2>4, <2>5
<1> QED BY <1>1, <1>2

\* Every step keeps the invariant.
LEMMA ManagerStepInv == ManagerInv /\ [ManagerNext]_managerVars => ManagerInv'
<1> SUFFICES ASSUME ManagerInv, [ManagerNext]_managerVars PROVE ManagerInv'
  OBVIOUS
<1>1. CASE UNCHANGED managerVars
  BY <1>1 DEF managerVars, ManagerInv, ManagerTypes, Making, Holding, NothingLeaks, OneConnection
<1>2. CASE BeginClose \/ \E n \in Conns : CloseConn(n)
  BY <1>2, CloseSteps
<1>3. ASSUME NEW c \in Callers, Proceed(c) \/ \E s \in Services : GetClient(c, s) PROVE ManagerInv'
  BY <1>3, CallerSteps, JoinStep, DialStep, SettleStep DEF Proceed
<1> QED BY <1>1, <1>2, <1>3 DEF ManagerNext

\* The manager keeps its invariant.
LEMMA ManagerInvariant == ManagerSpec => []ManagerInv
BY ManagerStart, ManagerStepInv, PTL DEF ManagerSpec

\* No connection is lost from sight, for any use of the manager: also when Close
\* overtakes a dial, the connection it made is closed again (client.go:129).
THEOREM ConnectionsHold == ManagerSpec => []NothingLeaks
<1>1. ManagerInv => NothingLeaks
  BY DEF ManagerInv
<1> QED BY <1>1, ManagerInvariant, PTL

\* All handlers of a service share one connection: those that come while it is
\* being dialled wait for the same dial (client.go:103).
THEOREM ConnectionsAreShared == ManagerSpec => []OneConnection
<1>1. ManagerInv => OneConnection
  BY DEF ManagerInv
<1> QED BY <1>1, ManagerInvariant, PTL

----------------------------------------------------------------------------
(* The process *)

\* To the manager, a step of the process is one of its own or none.
LEMMA LifeStepIsManagerStep == [LifeNext]_lifeVars => [ManagerNext]_managerVars
<1> SUFFICES ASSUME [LifeNext]_lifeVars PROVE [ManagerNext]_managerVars
  OBVIOUS
<1>1. CASE UNCHANGED lifeVars
  BY <1>1 DEF lifeVars
<1>2. CASE Run
  <2>1. CASE CloseManager
    BY <2>1 DEF CloseManager, ManagerNext
  <2>2. CASE CloseNext
    BY <2>2 DEF CloseNext, ManagerNext
  <2> QED
    BY <1>2, <2>1, <2>2 DEF Run, RegisterHTTP, RegisterGRPC, UndoHTTP, StartServers,
       MaintenanceStopped, Drained, DeregisterGRPC, DeregisterHTTP, Exit
<1>3. CASE Stop \/ Kill \/ Maintain \/ Agent
  BY <1>3 DEF Stop, Kill, Maintain, Agent
<1>4. ASSUME NEW c \in Callers, Serve(c) \/ Handle(c) PROVE ManagerNext
  BY <1>4 DEF Serve, Handle, ManagerNext
<1> QED BY <1>1, <1>2, <1>3, <1>4 DEF LifeNext

\* The process uses the manager as it may be used, so its connections are in order
\* from the start to the exit or the kill (app.go:150).
THEOREM LifeImplementsManager == LifeSpec => ManagerSpec
<1>1. LifeInit => ManagerInit
  BY DEF LifeInit
<1> QED BY <1>1, LifeStepIsManagerStep, PTL DEF LifeSpec, ManagerSpec

----------------------------------------------------------------------------
(* The catalogue *)

\* From the drain on, the maintenance has ended for good.
Quiet == {"drain", "deregister", "deregister http", "close", "closing", "exited"}

\* The stages that see the catalogue change: before the maintenance starts, and
\* after it has ended, what is registered follows from the stage.
Tidy ==
    /\ stage \in {"start", "half", "undo", "registered"} \cup Quiet => keeper \in {"off", "ended"}
    /\ late = {}
    /\ stage = "start" => registered = {}
    /\ stage \in {"half", "deregister http"} => registered \subseteq {"http"}
    /\ stage \in {"close", "closing", "exited"} => registered = {}
    /\ stage # "undo"

CatalogueInv ==
    /\ slips \in 0..Slips
    /\ registered \subseteq Protocols /\ late \subseteq Protocols
    /\ keeper = "sent" => target \in Protocols
    /\ slips = Slips => Tidy

\* A request that has gone wrong can be told ever after.
LEMMA SlipShows ==
    ASSUME CatalogueInv, Slip
    PROVE  slips' \in 0..Slips /\ slips' # Slips
BY RegistrationAssumption DEF CatalogueInv, Slip

\* The maintenance goroutine works between the start of the servers and its end.
LEMMA KeeperKeepsCatalogue ==
    ASSUME CatalogueInv, KeeperStep, UNCHANGED stage
    PROVE  CatalogueInv'
<1> USE DEF CatalogueInv
<1>1. CASE Wake \/ (\E p \in Protocols : Present(p)) \/ FinishRound
  BY <1>1 DEF Wake, Present, FinishRound, EndRound, Tidy
<1>2. CASE \E p \in Protocols : Send(p)
  BY <1>2 DEF Send, Tidy
<1>3. CASE Accepted
  BY <1>3 DEF Accepted, Tidy, Quiet
<1>4. CASE ListServices
  <2>1. CASE Slip
    BY <1>4, <2>1, SlipShows DEF ListServices, EndRound
  <2>2. CASE UNCHANGED slips
    BY <1>4, <2>2 DEF ListServices, EndRound, Tidy
  <2> QED BY <1>4, <2>1, <2>2 DEF ListServices
<1>5. CASE Rejected
  <2>1. /\ keeper = "sent" /\ keeper' \in {"sleep", "ended"} /\ target \in Protocols
        /\ registered' \subseteq Protocols /\ late' \subseteq Protocols
    BY <1>5 DEF Rejected, EndRound
  <2>2. CASE Slip
    BY <1>5, <2>1, <2>2, SlipShows
  <2>3. CASE UNCHANGED <<late, slips>>
    BY <2>1, <2>3 DEF Tidy, Quiet
  <2> QED BY <1>5, <2>2, <2>3 DEF Rejected
<1> QED BY <1>1, <1>2, <1>3, <1>4, <1>5 DEF KeeperStep

\* The calls of Run, in the stages in which it makes them.
LEMMA RunKeepsCatalogue ==
    ASSUME CatalogueInv, Run
    PROVE  CatalogueInv'
<1> USE DEF CatalogueInv, Enter
<1>1. CASE RegisterHTTP
  <2>1. CASE Register("http") /\ Enter("half")
    BY <1>1, <2>1 DEF RegisterHTTP, Register, keeperVars, Tidy, Quiet, Protocols
  <2>2. CASE RegisterFails("http")
    BY <2>2, SlipShows DEF RegisterFails, keeperVars, Protocols
  <2> QED BY <1>1, <2>1, <2>2 DEF RegisterHTTP
<1>2. CASE RegisterGRPC
  <2>1. CASE Register("grpc") /\ Enter("registered")
    BY <1>2, <2>1 DEF RegisterGRPC, Register, keeperVars, Tidy, Quiet, Protocols
  <2>2. CASE RegisterFails("grpc")
    BY <2>2, SlipShows DEF RegisterFails, keeperVars, Protocols
  <2> QED BY <1>2, <2>1, <2>2 DEF RegisterGRPC
<1>3. ASSUME NEW p \in Protocols, DeregisterFails(p) PROVE CatalogueInv'
  BY <1>3, SlipShows DEF DeregisterFails, keeperVars
<1>4. CASE UndoHTTP
  <2>1. CASE Deregister("http")
    BY <1>4, <2>1 DEF UndoHTTP, Deregister, keeperVars, Tidy
  <2> QED BY <1>3, <1>4, <2>1 DEF UndoHTTP, Protocols
<1>5. CASE DeregisterGRPC
  <2>1. CASE Deregister("grpc")
    BY <1>5, <2>1 DEF DeregisterGRPC, Deregister, keeperVars, Tidy, Quiet, Protocols
  <2> QED BY <1>3, <1>5, <2>1 DEF DeregisterGRPC, Protocols
<1>6. CASE DeregisterHTTP
  <2>1. CASE Deregister("http")
    BY <1>6, <2>1 DEF DeregisterHTTP, Deregister, keeperVars, Tidy, Quiet
  <2> QED BY <1>3, <1>6, <2>1 DEF DeregisterHTTP, Protocols
<1>7. CASE StartServers
  BY <1>7 DEF StartServers, StartMaintenance, Tidy, Quiet
<1>8. CASE MaintenanceStopped \/ Drained
  BY <1>8 DEF MaintenanceStopped, Drained, registrationVars, keeperVars, Tidy, Quiet
<1>9. CASE CloseManager \/ CloseNext \/ Exit
  BY <1>9 DEF CloseManager, CloseNext, Exit, registrationVars, keeperVars, Tidy, Quiet
<1> QED BY <1>1, <1>2, <1>4, <1>5, <1>6, <1>7, <1>8, <1>9 DEF Run

\* Every step keeps what is known of the catalogue.
LEMMA LifeKeepsCatalogue == CatalogueInv /\ [LifeNext]_lifeVars => CatalogueInv'
<1> SUFFICES ASSUME CatalogueInv, [LifeNext]_lifeVars PROVE CatalogueInv'
  OBVIOUS
<1>1. CASE UNCHANGED <<registrationVars, stage>>
  BY <1>1 DEF registrationVars, keeperVars, CatalogueInv, Tidy
<1>2. CASE Stop
  BY <1>2 DEF Stop, Enter, CancelMaintenance, CatalogueInv, Tidy, Quiet
<1>3. CASE Maintain
  BY <1>3, KeeperKeepsCatalogue DEF Maintain
<1>4. CASE Agent
  <2>1. ASSUME NEW p \in Protocols, Lose(p) PROVE CatalogueInv'
    BY <1>4, <2>1 DEF Agent, Lose, keeperVars, CatalogueInv, Tidy
  <2>2. ASSUME NEW p \in Protocols, LateArrives(p) PROVE CatalogueInv'
    BY <1>4, <2>2 DEF Agent, LateArrives, keeperVars, CatalogueInv, Tidy
  <2> QED BY <1>4, <2>1, <2>2 DEF Agent, AgentStep
<1>5. ASSUME NEW c \in Callers, Serve(c) \/ Handle(c) PROVE CatalogueInv'
  BY <1>1, <1>5 DEF Serve, Handle
<1>6. CASE UNCHANGED lifeVars
  BY <1>1, <1>6 DEF lifeVars
<1>7. CASE Kill
  BY <1>7 DEF Kill, Enter, registrationVars, keeperVars, CatalogueInv, Tidy, Quiet
<1> QED BY <1>2, <1>3, <1>4, <1>5, <1>6, <1>7, RunKeepsCatalogue DEF LifeNext

\* A gateway that returns from Run has taken back what it registered, and nobody
\* registers behind the back of the deregistration (app.go:212), for any number of
\* registrations that the agent loses, unless a request to the agent went wrong.
\* A gateway killed while no signal is caught has not returned, and is not covered.
THEOREM CatalogueIsClean == LifeSpec => []NothingLeftBehind
<1>1. LifeInit => CatalogueInv
  BY RegistrationAssumption DEF LifeInit, RegistrationInit, CatalogueInv, Tidy, Quiet
<1>2. CatalogueInv => NothingLeftBehind
  BY DEF CatalogueInv, Tidy, NothingLeftBehind
<1> QED BY <1>1, <1>2, LifeKeepsCatalogue, PTL DEF LifeSpec

-----------------------------------------------------------------------------
(* The other services *)

USE RegistrationAssumption, LifeAssumption

----------------------------------------------------------------------------
(* ServiceLife: the inductive invariant *)

\* The maintenance knows nothing but what the service has registered, and while
\* no request has gone wrong nothing is on its way.
OwnInv ==
    /\ slips \in 0 .. Slips
    /\ remembered \subseteq {"grpc"} /\ todo \subseteq remembered
    /\ keeper = "sent" => target \in remembered
    /\ slips = Slips => registered \subseteq {"grpc"} /\ late = {}

Early == {"check", "refused", "turned away", "build", "register"}

\* Where the registration stands
EntryInv ==
    /\ run \in Early => remembered = {} /\ keeper = "off"
    /\ run = "maintain" => keeper = "off"
    /\ run \in Early /\ slips = Slips => registered = {}
    /\ run \in {"drain", "close", "return", "gone"} /\ ~killed /\ slips = Slips =>
         registered = {} /\ keeper = "ended"
    /\ killed => run = "gone"

\* Where the dependencies stand
UseInv ==
    /\ run \in {"check", "refused", "turned away", "build"} =>
         server = "off" /\ ~handling /\ scanner = "off"
    /\ released => run \in {"turned away", "return", "gone"} /\ scanner \in {"off", "ended"}
    /\ run \in {"close", "return", "gone"} /\ ~killed /\ (service = "web3" \/ remembered # {}) =>
         server = "stopped" /\ ~handling
    /\ killed => ~released

LifeInv == OwnInv /\ EntryInv /\ UseInv

LEMMA LifeShows == LifeInv => NoStray /\ ClosedUnused
<1> SUFFICES ASSUME LifeInv PROVE NoStray /\ ClosedUnused
  OBVIOUS
<1>1. NoStray
  BY DEF LifeInv, EntryInv, NoStray
<1>2. ClosedUnused
  BY DEF LifeInv, UseInv, ClosedUnused
<1> QED BY <1>1, <1>2

----------------------------------------------------------------------------
(* The registry *)

\* A request that goes wrong is counted.
LEMMA SlipCounts ==
    ASSUME slips \in 0 .. Slips, Slip
    PROVE  slips' \in 0 .. Slips /\ slips' # Slips
BY DEF Slip

\* A step of the maintenance registers only what the service has, and none comes
\* when it has ended or not begun.
LEMMA KeeperKeeps ==
    ASSUME OwnInv, KeeperStep
    PROVE  /\ OwnInv' /\ remembered' = remembered
           /\ keeper \notin {"off", "ended"}
           /\ slips' = Slips => slips = Slips
<1> USE DEF OwnInv
<1>1. slips \in 0 .. Slips /\ Protocols = {"http", "grpc"}
  BY DEF Protocols
<1>2. CASE Wake
  BY <1>2 DEF Wake
<1>3. CASE ListServices
  BY <1>1, <1>3, SlipCounts DEF ListServices, EndRound
<1>4. CASE Accepted
  BY <1>4 DEF Accepted
<1>5. CASE Rejected
  <2>1. /\ keeper = "sent" /\ target \in remembered
        /\ keeper' \in {"sleep", "ended"} /\ listed' = {} /\ todo' = {} /\ target' = None
        /\ UNCHANGED <<remembered, keeping, losses>>
    BY <1>5 DEF Rejected, EndRound
  <2>2. CASE /\ registered' \in {registered, registered \cup {target}} /\ UNCHANGED late
             /\ UNCHANGED slips
    BY <1>1, <2>1, <2>2
  <2>3. CASE /\ registered' \in {registered, registered \cup {target}} /\ UNCHANGED late
             /\ Slip
    BY <1>1, <2>1, <2>3, SlipCounts
  <2>4. CASE late' = late \cup {target} /\ Slip /\ UNCHANGED registered
    BY <1>1, <2>1, <2>4, SlipCounts
  <2> QED BY <1>5, <2>2, <2>3, <2>4 DEF Rejected
<1>6. CASE FinishRound
  BY <1>6 DEF FinishRound, EndRound
<1>7. ASSUME NEW p \in Protocols, Present(p) \/ Send(p)
      PROVE  /\ OwnInv' /\ remembered' = remembered
             /\ keeper \notin {"off", "ended"}
             /\ slips' = Slips => slips = Slips
  BY <1>1, <1>7 DEF Present, Send
<1> QED BY <1>2, <1>3, <1>4, <1>5, <1>6, <1>7 DEF KeeperStep

\* The agent forgets, and remembers only what was on its way.
LEMMA AgentKeeps ==
    ASSUME OwnInv, AgentStep
    PROVE  /\ OwnInv' /\ UNCHANGED <<remembered, keeper, slips>>
           /\ slips = Slips => registered' \subseteq registered
<1> USE DEF OwnInv
<1>1. ASSUME NEW p \in Protocols, Lose(p)
      PROVE  /\ OwnInv' /\ UNCHANGED <<remembered, keeper, slips>>
             /\ slips = Slips => registered' \subseteq registered
  BY <1>1 DEF Lose, keeperVars
<1>2. ASSUME NEW p \in Protocols, LateArrives(p)
      PROVE  /\ OwnInv' /\ UNCHANGED <<remembered, keeper, slips>>
             /\ slips = Slips => registered' \subseteq registered
  BY <1>2 DEF LateArrives, keeperVars
<1> QED BY <1>1, <1>2 DEF AgentStep

LEMMA CancelKeeps ==
    ASSUME OwnInv, CancelMaintenance
    PROVE  /\ OwnInv'
           /\ UNCHANGED <<registered, remembered, keeper, slips>>
BY DEF OwnInv, RegistrationTypes, CancelMaintenance

LEMMA RegistryStands ==
    ASSUME OwnInv, UNCHANGED registrationVars
    PROVE  /\ OwnInv'
           /\ UNCHANGED <<registered, remembered, keeper, slips>>
BY DEF OwnInv, RegistrationTypes, registrationVars

----------------------------------------------------------------------------
(* The life *)

LEMMA LifeStart == ServiceInit => LifeInv
<1> SUFFICES ASSUME ServiceInit PROVE LifeInv
  OBVIOUS
<1>1. /\ run = "check" /\ ~killed /\ ~signalled /\ ~released /\ ~handling
      /\ server = "off" /\ scanner = "off"
  BY DEF ServiceInit
<1>2. /\ registered = {} /\ remembered = {} /\ late = {} /\ keeper = "off" /\ keeping = FALSE
      /\ listed = {} /\ todo = {} /\ target = None /\ losses = Losses /\ slips = Slips
  BY DEF ServiceInit, RegistrationInit
<1>3. OwnInv
  BY <1>2 DEF OwnInv
<1>4. EntryInv /\ UseInv
  BY <1>1, <1>2 DEF EntryInv, UseInv, Early
<1> QED BY <1>3, <1>4 DEF LifeInv

LEMMA LifeKeeps == LifeInv /\ [ServiceNext]_serviceVars => LifeInv'
<1> SUFFICES ASSUME LifeInv, [ServiceNext]_serviceVars PROVE LifeInv'
  OBVIOUS
<1>1. OwnInv /\ EntryInv /\ UseInv
  BY DEF LifeInv
<1>2. CASE UNCHANGED serviceVars
  <2>1. /\ OwnInv'
        /\ UNCHANGED <<registered, remembered, keeper, slips>>
    BY <1>1, <1>2, RegistryStands DEF serviceVars
  <2>2. UNCHANGED <<service, reachable, run, killed, signalled, server, handling, scanner, released>>
    BY <1>2 DEF serviceVars, workVars
  <2>3. EntryInv' /\ UseInv'
    BY <1>1, <2>1, <2>2 DEF EntryInv, Early, UseInv
  <2> QED BY <2>1, <2>3 DEF LifeInv
<1>3. CASE CheckDependencies
  <2>1. /\ OwnInv'
        /\ UNCHANGED <<registered, remembered, keeper, slips>>
    BY <1>1, <1>3, RegistryStands DEF CheckDependencies
  <2>2. EntryInv'
    BY <1>1, <1>3, <2>1 DEF CheckDependencies, EntryInv, Early, Go, workVars, Alive
  <2>3. UseInv'
    BY <1>1, <1>3, <2>1 DEF CheckDependencies, UseInv, Go, workVars, Alive
  <2> QED BY <2>1, <2>2, <2>3 DEF LifeInv
<1>4. CASE StartServices
  <2>1. /\ OwnInv'
        /\ UNCHANGED <<registered, remembered, keeper, slips>>
    BY <1>1, <1>4, RegistryStands DEF StartServices
  <2>2. EntryInv'
    BY <1>1, <1>4, <2>1 DEF StartServices, EntryInv, Early, Go, workVars, Alive
  <2>3. UseInv'
    BY <1>1, <1>4, <2>1 DEF StartServices, UseInv, Go, workVars, Alive
  <2> QED BY <2>1, <2>2, <2>3 DEF LifeInv
<1>5. CASE RegisterSelf
  <2>1. CASE Register("grpc") /\ Go("maintain")
    <3>1. /\ registered' = registered \cup {"grpc"} /\ remembered' = remembered \cup {"grpc"}
          /\ UNCHANGED <<late, keeper, keeping, listed, todo, target, losses, slips>>
      BY <2>1 DEF Register, keeperVars
    <3>2. OwnInv'
      BY <1>1, <3>1 DEF OwnInv
    <3>3. run = "register" /\ run' = "maintain"
          /\ UNCHANGED <<service, reachable, killed, signalled, server, handling, scanner, released>>
      BY <1>5, <2>1 DEF RegisterSelf, Go, workVars
    <3>4. EntryInv' /\ UseInv'
      BY <1>1, <3>1, <3>3 DEF EntryInv, UseInv, Early
    <3> QED BY <3>2, <3>4 DEF LifeInv
  <2>2. CASE RegisterFails("grpc") /\ Go(IF service = "web3" THEN "drain" ELSE "close")
    <3>1. /\ registered' \in {registered, registered \cup {"grpc"}} /\ slips' # Slips
          /\ UNCHANGED <<remembered, late, keeper, keeping, listed, todo, target, losses>>
          /\ slips' \in 0 .. Slips
      BY <1>1, <2>2, SlipCounts DEF RegisterFails, keeperVars, OwnInv
    <3>2. OwnInv'
      BY <1>1, <3>1 DEF OwnInv
    <3>3. run = "register" /\ run' = (IF service = "web3" THEN "drain" ELSE "close")
          /\ UNCHANGED <<service, reachable, killed, signalled, server, handling, scanner, released>>
      BY <1>5, <2>2 DEF RegisterSelf, Go, workVars
    <3>4. EntryInv' /\ UseInv'
      BY <1>1, <3>1, <3>3 DEF EntryInv, UseInv, Early
    <3> QED BY <3>2, <3>4 DEF LifeInv
  <2> QED BY <1>5, <2>1, <2>2 DEF RegisterSelf
<1>6. CASE MaintainRegistration
  <2>1. /\ keeper' \in {"ended", "sleep"}
        /\ UNCHANGED <<registered, remembered, late, listed, todo, target, losses, slips>>
    BY <1>1, <1>6 DEF MaintainRegistration, StartMaintenance
  <2>2. OwnInv'
    BY <1>1, <2>1 DEF OwnInv
  <2>3. run' = "serving"
        /\ UNCHANGED <<service, reachable, killed, signalled, server, handling, scanner, released>>
    BY <1>6 DEF MaintainRegistration, Go, workVars
  <2>4. EntryInv' /\ UseInv'
    BY <1>1, <1>6, <2>1, <2>3 DEF MaintainRegistration, EntryInv, UseInv, Early
  <2> QED BY <2>2, <2>4 DEF LifeInv
<1>7. CASE Signal
  <2>1. /\ OwnInv'
        /\ UNCHANGED <<registered, remembered, keeper, slips>>
    BY <1>1, <1>7, RegistryStands, CancelKeeps DEF Signal
  <2>2. /\ UNCHANGED <<service, server, handling, scanner, released>>
        /\ run \in {"check", "build", "register", "maintain", "serving"}
    BY <1>7 DEF Signal, workVars
  <2>3. CASE killed' = TRUE /\ run' = "gone"
    BY <1>1, <2>1, <2>2, <2>3 DEF EntryInv, UseInv, Early, LifeInv
  <2>4. CASE killed' = killed /\ run' = run
    <3>1. EntryInv'
      BY <1>1, <2>1, <2>4 DEF EntryInv
    <3>2. UseInv'
      BY <1>1, <2>1, <2>2, <2>4 DEF UseInv
    <3> QED BY <2>1, <3>1, <3>2 DEF LifeInv
  <2> QED BY <1>7, <2>3, <2>4 DEF Signal, Go
<1>8. CASE ServerFails
  <2>1. /\ OwnInv'
        /\ UNCHANGED <<registered, remembered, keeper, slips>>
    BY <1>1, <1>8, RegistryStands DEF ServerFails
  <2>2. EntryInv'
    BY <1>1, <1>8, <2>1 DEF ServerFails, EntryInv, Early, Go, workVars, Alive
  <2>3. UseInv'
    BY <1>1, <1>8, <2>1 DEF ServerFails, UseInv, Go, workVars, Alive
  <2> QED BY <2>1, <2>2, <2>3 DEF LifeInv
<1>9. CASE BeginStop
  <2>1. /\ OwnInv'
        /\ UNCHANGED <<registered, remembered, keeper, slips>>
    BY <1>1, <1>9, CancelKeeps DEF BeginStop
  <2>2. EntryInv'
    BY <1>1, <1>9, <2>1 DEF BeginStop, EntryInv, Early, Go, workVars, Alive
  <2>3. UseInv'
    BY <1>1, <1>9, <2>1 DEF BeginStop, UseInv, Go, workVars, Alive
  <2> QED BY <2>1, <2>2, <2>3 DEF LifeInv
<1>10. CASE DeregisterSelf
  <2>1. /\ registered' \in {registered, registered \ {"grpc"}}
        /\ slips' = Slips => slips = Slips /\ registered' = registered \ {"grpc"}
        /\ UNCHANGED <<remembered, late, keeper, keeping, listed, todo, target, losses>>
        /\ slips' \in 0 .. Slips
    <3>1. CASE Deregister("grpc")
      BY <1>1, <3>1 DEF Deregister, keeperVars, OwnInv
    <3>2. CASE DeregisterFails("grpc")
      BY <1>1, <3>2, SlipCounts DEF DeregisterFails, keeperVars, OwnInv
    <3> QED BY <1>10, <3>1, <3>2 DEF DeregisterSelf
  <2>2. OwnInv'
    BY <1>1, <2>1 DEF OwnInv
  <2>3. slips' = Slips => registered' = {}
    BY <1>1, <2>1 DEF OwnInv
  <2>4. run' = "drain" /\ keeper' = "ended" /\ run = "stopping"
        /\ UNCHANGED <<service, reachable, killed, signalled, server, handling, scanner, released>>
    BY <1>10, <2>1 DEF DeregisterSelf, Go, workVars
  <2>5. EntryInv' /\ UseInv'
    BY <1>1, <2>1, <2>3, <2>4 DEF EntryInv, UseInv, Early
  <2> QED BY <2>2, <2>5 DEF LifeInv
<1>11. CASE DrainServers
  <2>1. /\ OwnInv'
        /\ UNCHANGED <<registered, remembered, keeper, slips>>
    BY <1>1, <1>11, RegistryStands DEF DrainServers
  <2>2. EntryInv'
    BY <1>1, <1>11, <2>1 DEF DrainServers, EntryInv, Early, Go, workVars, Alive
  <2>3. UseInv'
    BY <1>1, <1>11, <2>1 DEF DrainServers, UseInv, Go, workVars, Alive
  <2> QED BY <2>1, <2>2, <2>3 DEF LifeInv
<1>12. CASE CloseDependencies
  <2>1. /\ OwnInv'
        /\ UNCHANGED <<registered, remembered, keeper, slips>>
    BY <1>1, <1>12, RegistryStands DEF CloseDependencies
  <2>2. EntryInv'
    BY <1>1, <1>12, <2>1 DEF CloseDependencies, EntryInv, Early, Go, workVars, CloseInOrder
  <2>3. /\ scanner' \in {"off", "ended"}
        /\ scanner = "off" => scanner' = "off"
        /\ \/ run = "close" /\ run' = "return"
           \/ run = "refused" /\ run' = "turned away"
        /\ UNCHANGED <<service, killed, server, handling>>
    BY <1>12 DEF CloseDependencies, CloseInOrder, Go
  <2>4. ~killed
    BY <1>1, <2>3 DEF EntryInv
  <2>5. UseInv'
    BY <1>1, <2>1, <2>3, <2>4 DEF UseInv
  <2> QED BY <2>1, <2>2, <2>5 DEF LifeInv
<1>13. CASE ExitProcess
  <2>1. /\ OwnInv'
        /\ UNCHANGED <<registered, remembered, keeper, slips>>
    BY <1>1, <1>13, RegistryStands DEF ExitProcess
  <2>2. EntryInv'
    BY <1>1, <1>13, <2>1 DEF ExitProcess, EntryInv, Early, Go, workVars, Alive
  <2>3. UseInv'
    BY <1>1, <1>13, <2>1 DEF ExitProcess, UseInv, Go, workVars, Alive
  <2> QED BY <2>1, <2>2, <2>3 DEF LifeInv
<1>14. CASE StartCall \/ EndCall
  <2>1. OwnInv' /\ UNCHANGED <<registered, remembered, keeper, slips>>
    BY <1>1, <1>14, RegistryStands DEF StartCall, EndCall
  <2>2. UNCHANGED <<service, run, killed, server, scanner, released>>
    BY <1>14 DEF StartCall, EndCall
  <2>3. EntryInv'
    BY <1>1, <2>1, <2>2 DEF EntryInv
  <2>4. handling' = FALSE \/ (server = "serving" /\ run \notin {"gone", "turned away"})
    BY <1>14 DEF StartCall, EndCall, Alive
  <2>5. UseInv'
    BY <1>1, <2>1, <2>2, <2>4 DEF UseInv
  <2> QED BY <2>1, <2>3, <2>5 DEF LifeInv
<1>15. CASE StartScan \/ EndScan
  <2>1. OwnInv' /\ UNCHANGED <<registered, remembered, keeper, slips>>
    BY <1>1, <1>15, RegistryStands DEF StartScan, EndScan
  <2>2. UNCHANGED <<service, run, killed, server, handling, released>>
    BY <1>15 DEF StartScan, EndScan
  <2>3. EntryInv'
    BY <1>1, <2>1, <2>2 DEF EntryInv
  <2>4. scanner \in {"idle", "scanning"}
    BY <1>15 DEF StartScan, EndScan
  <2>5. UseInv'
    BY <1>1, <2>1, <2>2, <2>4 DEF UseInv
  <2> QED BY <2>1, <2>3, <2>5 DEF LifeInv
<1>16. CASE MaintenanceRound
  <2>1. /\ OwnInv' /\ remembered' = remembered
        /\ keeper \notin {"off", "ended"}
        /\ slips' = Slips => slips = Slips
    BY <1>1, <1>16, KeeperKeeps DEF MaintenanceRound
  <2>2. UNCHANGED <<service, reachable, run, killed, signalled, server, handling, scanner, released>>
    BY <1>16 DEF MaintenanceRound, workVars
  <2>3. EntryInv'
    BY <1>1, <2>1, <2>2 DEF EntryInv
  <2>4. UseInv'
    BY <1>1, <2>1, <2>2 DEF UseInv
  <2> QED BY <2>1, <2>3, <2>4 DEF LifeInv
<1>17. CASE AgentActs
  <2>1. /\ OwnInv' /\ UNCHANGED <<remembered, keeper, slips>>
        /\ slips = Slips => registered' \subseteq registered
    BY <1>1, <1>17, AgentKeeps DEF AgentActs
  <2>2. UNCHANGED <<service, reachable, run, killed, signalled, server, handling, scanner, released>>
    BY <1>17 DEF AgentActs, workVars
  <2>3. EntryInv'
    BY <1>1, <2>1, <2>2 DEF EntryInv
  <2>4. UseInv'
    BY <1>1, <2>1, <2>2 DEF UseInv
  <2> QED BY <2>1, <2>3, <2>4 DEF LifeInv
<1> QED BY <1>2, <1>3, <1>4, <1>5, <1>6, <1>7, <1>8, <1>9, <1>10, <1>11, <1>12, <1>13, <1>14,
           <1>15, <1>16, <1>17 DEF ServiceNext, RunStep

LEMMA LifeInvariant == ServiceSpec => []LifeInv
BY LifeStart, LifeKeeps, PTL DEF ServiceSpec

\* A service that has stopped by itself has left nothing in the catalogue, as
\* long as no request to the agent has gone wrong, however often the agent has
\* lost what its maintenance then registered again.
THEOREM NothingStays == ServiceSpec => []NoStray
BY LifeShows, LifeInvariant, PTL

\* Dependencies are closed under no handler and no round of the scanner.
THEOREM NotClosedInUse == ServiceSpec => []ClosedUnused
BY LifeShows, LifeInvariant, PTL

-----------------------------------------------------------------------------
(* The addresses of a service *)

\* What the resolver takes for published is what the ClientConn balances over, or
\* nothing.
Believed == lastAddresses \in {{}, addresses}

DiscoveryInv == DiscoveryTypes /\ Believed

DiscoverySpec == DiscoveryInit /\ [][DiscoveryNext]_discoveryVars

LEMMA DiscoveryBounds ==
    /\ MaxIndex \in Nat \ {0} /\ Restores \in Nat /\ Errors \in Nat /\ MaxDelay \in Nat
    /\ NoAnswer \in [entries : SUBSET Instances, index : 0..MaxIndex]
<1>1. MaxIndex \in Nat \ {0} /\ {Restores, Errors, MaxDelay} \subseteq Nat
  BY DiscoveryAssumption DEF DiscoveryAssumption
<1>2. MaxIndex \in Nat \ {0} /\ Restores \in Nat /\ Errors \in Nat /\ MaxDelay \in Nat
  BY <1>1
<1> QED BY <1>2 DEF NoAnswer

LEMMA DiscoveryStart == DiscoveryInit => DiscoveryInv
<1> SUFFICES ASSUME DiscoveryInit PROVE DiscoveryInv
  OBVIOUS
<1>1. index \in 0..MaxIndex /\ lastIndex \in 0..MaxIndex
  BY DiscoveryBounds DEF DiscoveryInit
<1>2. delay \in 0..MaxDelay /\ restores \in 0..Restores /\ errors \in 0..Errors
  BY DiscoveryBounds DEF DiscoveryInit
<1>3. updated \in BOOLEAN /\ watch \in {"off", "query", "update", "failed"}
  BY DEF DiscoveryInit
<1>4. /\ healthy \subseteq Instances /\ answer \in [entries : SUBSET Instances, index : 0..MaxIndex]
      /\ lastAddresses \subseteq Usable /\ addresses \subseteq Usable /\ Believed
  BY DiscoveryBounds DEF DiscoveryInit, Believed
<1> QED BY <1>1, <1>2, <1>3, <1>4 DEF DiscoveryInv, DiscoveryTypes

\* What Consul and the ClientConn do.
LEMMA OutsideDiscovery ==
    ASSUME DiscoveryInv,
           \/ Build \/ CloseResolver
           \/ \E set \in SUBSET Instances : ChangeHealth(set) \/ \E i \in 0..MaxIndex : RestoreConsul(set, i)
    PROVE  DiscoveryInv'
<1> USE DiscoveryBounds DEF DiscoveryInv, DiscoveryTypes, Believed
<1>1. CASE Build \/ CloseResolver
  <2>1. /\ watch' \in {"off", "query"} /\ lastIndex' = 0 /\ lastAddresses' = {}
        /\ updated' = FALSE /\ delay' = 0
        /\ UNCHANGED <<healthy, index, restores>>
    BY <1>1 DEF Build, CloseResolver, Watch, consul
  <2>2. delay' \in 0..MaxDelay /\ lastIndex' \in 0..MaxIndex
    BY <2>1
  <2>3. errors' \in 0..Errors
    BY <1>1 DEF Build, CloseResolver, Error
  <2>4. /\ answer' \in [entries : SUBSET Instances, index : 0..MaxIndex]
        /\ addresses' \subseteq Usable
    BY <1>1 DEF Build, CloseResolver
  <2> QED BY <2>1, <2>2, <2>3, <2>4
<1>2. ASSUME NEW set \in SUBSET Instances, ChangeHealth(set) PROVE DiscoveryInv'
  BY <1>2 DEF ChangeHealth
<1>3. ASSUME NEW set \in SUBSET Instances, NEW i \in 0..MaxIndex, RestoreConsul(set, i)
      PROVE  DiscoveryInv'
  BY <1>3 DEF RestoreConsul
<1> QED BY <1>1, <1>2, <1>3

LEMMA ResolverKeeps == ASSUME DiscoveryInv, ResolverStep PROVE DiscoveryInv'
<1> USE DiscoveryBounds DEF DiscoveryInv, DiscoveryTypes, Believed
<1>1. CASE AnswerQuery
  BY <1>1 DEF AnswerQuery, Watch, consul, ResetIndex
<1>2. CASE SkipUpdate
  BY <1>2 DEF SkipUpdate, Delivered, Watch, consul
<1>3. CASE UpdateState
  BY <1>3 DEF UpdateState, Delivered, Watch, consul, grpcResolverAddresses
<1>4. CASE UpdateFails
  BY <1>4 DEF UpdateFails, Watch, consul, Error, grpcResolverAddresses
<1>5. CASE Retry
  <2>1. delay' \in 0..MaxDelay /\ lastIndex' \in 0..MaxIndex
    BY <1>5 DEF Retry
  <2>2. updated' = FALSE /\ watch' = "query"
    BY <1>5 DEF Retry, Watch
  <2> QED BY <1>5, <2>1, <2>2 DEF Retry, consul
<1>6. CASE QueryFails
  BY <1>6 DEF QueryFails, Watch, consul, Error
<1> QED BY <1>1, <1>2, <1>3, <1>4, <1>5, <1>6 DEF ResolverStep

LEMMA DiscoveryStep == DiscoveryInv /\ [DiscoveryNext]_discoveryVars => DiscoveryInv'
<1>1. DiscoveryInv /\ UNCHANGED discoveryVars => DiscoveryInv'
  BY DEF discoveryVars, DiscoveryInv, DiscoveryTypes, Believed
<1> QED BY <1>1, OutsideDiscovery, ResolverKeeps DEF DiscoveryNext

LEMMA DiscoveryInvariant == DiscoverySpec => []DiscoveryInv
BY DiscoveryStart, DiscoveryStep, PTL DEF DiscoverySpec

\* An answer that the resolver skips (grpc_discovery.go:131) is no news to the
\* ClientConn: it balances over these addresses, also when a list in between was
\* refused or the watch has begun anew.  Or the answer is empty, and there may be
\* addresses left that it does not take away.
SkipsNoNews ==
    [][SkipUpdate => grpcResolverAddresses(answer.entries) \in {{}, addresses}]_discoveryVars

\* The resolver skips no news, whatever Consul answers after however many failures
\* and restarts (grpc_discovery.go:131, :136).
THEOREM NoNewsIsSkipped == DiscoverySpec => SkipsNoNews
<1>1. DiscoveryInv /\ [DiscoveryNext]_discoveryVars =>
        [SkipUpdate => grpcResolverAddresses(answer.entries) \in {{}, addresses}]_discoveryVars
  BY DEF DiscoveryInv, Believed, SkipUpdate
<1> QED BY <1>1, DiscoveryInvariant, PTL DEF DiscoverySpec, SkipsNoNews

-----------------------------------------------------------------------------
(* The runtime configuration *)

\* Once Run has seen the index at which a good configuration was stored, it has
\* published that one.
SeenIsPublished ==
    ~rewound /\ waitIndex = writeIndex /\ stored \in Good => snapshot = stored

RuntimeInv ==
    /\ RuntimeTypes
    /\ SeenIsPublished
    /\ ~rewound =>
          /\ waitIndex <= writeIndex
          /\ manager = "apply" =>
                /\ reply.index <= writeIndex
                /\ reply.index = writeIndex => reply.value = stored

RuntimeSpec == RuntimeInit /\ [][RuntimeNext]_runtimeVars

LEMMA RuntimeBounds ==
    /\ MaxWrite \in Nat \ {0} /\ Outages \in Nat /\ Good \subseteq Configs
    /\ NoReply \in [value : Configs \cup {Absent}, index : 0..MaxWrite]
<1>1. MaxWrite \in Nat \ {0} /\ Outages \in Nat /\ Good \subseteq Configs
  BY RuntimeAssumption DEF RuntimeAssumption
<1> QED BY <1>1 DEF NoReply

LEMMA RuntimeStart == RuntimeInit => RuntimeInv
<1> SUFFICES ASSUME RuntimeInit PROVE RuntimeInv
  OBVIOUS
<1>1. /\ stored \in Configs \cup {Absent} /\ snapshot \in Good
      /\ reply \in [value : Configs \cup {Absent}, index : 0..MaxWrite]
  BY RuntimeBounds DEF RuntimeInit
<1>2. writeIndex \in 0..MaxWrite /\ waitIndex \in 0..MaxWrite /\ outages \in 0..Outages
  BY RuntimeBounds DEF RuntimeInit
<1>3. rewound \in BOOLEAN /\ manager \in {"watch", "wait", "apply"}
  BY DEF RuntimeInit
<1>4. SeenIsPublished /\ waitIndex <= writeIndex /\ manager # "apply"
  BY DEF RuntimeInit, SeenIsPublished
<1> QED BY <1>1, <1>2, <1>3, <1>4 DEF RuntimeInv, RuntimeTypes

LEMMA RuntimeStep == RuntimeInv /\ [RuntimeNext]_runtimeVars => RuntimeInv'
<1> SUFFICES ASSUME RuntimeInv, [RuntimeNext]_runtimeVars PROVE RuntimeInv'
  OBVIOUS
<1> USE RuntimeBounds DEF RuntimeInv, RuntimeTypes, SeenIsPublished
<1>1. CASE UNCHANGED runtimeVars
  BY <1>1 DEF runtimeVars
<1>2. CASE WatchKV
  BY <1>2 DEF WatchKV, kv
<1>3. CASE WatchFails \/ WaitRetry
  BY <1>3 DEF WatchFails, WaitRetry, kv
<1>4. CASE Apply
  BY <1>4 DEF Apply, IsNew, ParseRuntimeConfig, kv
<1>5. ASSUME NEW value \in Configs \cup {Absent}, WriteConfig(value) PROVE RuntimeInv'
  BY <1>5 DEF WriteConfig
<1>6. ASSUME NEW value \in Configs \cup {Absent}, NEW i \in 1..MaxWrite, RestoreKV(value, i)
      PROVE  RuntimeInv'
  BY <1>6 DEF RestoreKV
<1> QED BY <1>1, <1>2, <1>3, <1>4, <1>5, <1>6 DEF RuntimeNext, ManagerStep

\* Types, and with them: what is published was accepted, whatever is stored, deleted
\* or restored (manager.go:64).
THEOREM RuntimeTypeCorrect == RuntimeSpec => []RuntimeTypes
<1>1. RuntimeInv => RuntimeTypes
  BY DEF RuntimeInv
<1> QED BY <1>1, RuntimeStart, RuntimeStep, PTL DEF RuntimeSpec

\* A good configuration whose index Run has taken over is the published one, also
\* after bad ones and outages, unless Consul's index has gone back (manager.go:58).
\* This is why waiting for a larger index is enough (ConfigCatchesUp).
THEOREM NothingSeenIsIgnored == RuntimeSpec => []SeenIsPublished
<1>1. RuntimeInv => SeenIsPublished
  BY DEF RuntimeInv
<1> QED BY <1>1, RuntimeStart, RuntimeStep, PTL DEF RuntimeSpec
=============================================================================
