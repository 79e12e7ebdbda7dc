--------------------------- MODULE ClientManager ---------------------------
(***************************************************************************)
(* The gateway's shared gRPC connections (gateway/internal/grpc/client.go):*)
(* handlers ask for the connection to a service, the first one makes it,   *)
(* and Close ends them all while handlers may still run.                   *)
(***************************************************************************)
EXTENDS Naturals, FiniteSets

CONSTANTS
    Callers,    \* handler goroutines
    Services,   \* names of services
    Conns,      \* bound: the ClientConns that may be made
    Calls,      \* bound: the calls of one handler
    Faults,     \* bound: dials that fail, contexts that end
    NoConn      \* nil, for connections and for callers

ASSUME ManagerAssumption ==
    /\ NoConn \notin Conns /\ NoConn \notin Callers
    /\ Calls \in Nat /\ Faults \in Nat

VARIABLES
    conns,      \* service -> its connection
    pending,    \* service -> the caller that makes its connection
    closed,     \* Close has begun
    closing,    \* the connections Close has yet to close
    open,       \* ClientConns that are open
    made,       \* ClientConns that have been made
    call,       \* caller -> where it stands
    wants,      \* caller -> the service it asks for
    got,        \* caller -> the connection it has made or was given
    calls,      \* caller -> calls it may still make
    mishaps     \* faults left

managerVars == <<conns, pending, closed, closing, open, made, call, wants, got, calls, mishaps>>

Stages == {"idle", "check", "join", "dial", "settle", "wait", "using"}

ManagerInit ==
    /\ conns = [s \in Services |-> NoConn] /\ pending = [s \in Services |-> NoConn]
    /\ closed = FALSE /\ closing = {}
    /\ open = {} /\ made = {}
    /\ call = [c \in Callers |-> "idle"]
    /\ wants \in [Callers -> Services]
    /\ got = [c \in Callers |-> NoConn]
    /\ calls = [c \in Callers |-> Calls]
    /\ mishaps = Faults

Mishap == mishaps > 0 /\ mishaps' = mishaps - 1

Now(c, stage) == call' = [call EXCEPT ![c] = stage]

\* GetClient returns to its caller, with a connection or an error.
Give(c, conn) ==
    /\ got' = [got EXCEPT ![c] = conn]
    /\ Now(c, IF conn = NoConn THEN "idle" ELSE "using")

GetClient(c, s) ==
    /\ call[c] = "idle" /\ calls[c] > 0
    /\ calls' = [calls EXCEPT ![c] = @ - 1]
    /\ wants' = [wants EXCEPT ![c] = s] /\ Now(c, "check")
    /\ UNCHANGED <<conns, pending, closed, closing, open, made, got, mishaps>>

\* Under the read lock.
CheckConn(c) ==
    /\ call[c] = "check"
    /\ \/ closed /\ Give(c, NoConn)
       \/ ~closed /\ conns[wants[c]] # NoConn /\ Give(c, conns[wants[c]])
       \/ ~closed /\ conns[wants[c]] = NoConn /\ Now(c, "join") /\ UNCHANGED got
    /\ UNCHANGED <<conns, pending, closed, closing, open, made, wants, calls, mishaps>>

\* What a caller finds under the lock.
Lead(c) ==
    /\ pending' = [pending EXCEPT ![wants[c]] = c]
    /\ Now(c, "dial") /\ UNCHANGED got

\* Variant: the connection made since the read lock is not looked for.
JoinUnchecked(c) ==
    /\ call[c] = "join"
    /\ \/ closed /\ Give(c, NoConn) /\ UNCHANGED pending
       \/ ~closed /\ pending[wants[c]] # NoConn /\ Now(c, "wait") /\ UNCHANGED <<got, pending>>
       \/ ~closed /\ pending[wants[c]] = NoConn /\ Lead(c)
    /\ UNCHANGED <<conns, closed, closing, open, made, wants, calls, mishaps>>

\* Under the lock: everything is checked again.
Join(c) ==
    /\ call[c] = "join"
    /\ \/ closed /\ Give(c, NoConn) /\ UNCHANGED pending
       \/ ~closed /\ conns[wants[c]] # NoConn /\ Give(c, conns[wants[c]]) /\ UNCHANGED pending
       \/ /\ ~closed /\ conns[wants[c]] = NoConn /\ pending[wants[c]] # NoConn
          /\ Now(c, "wait") /\ UNCHANGED <<got, pending>>
       \/ ~closed /\ conns[wants[c]] = NoConn /\ pending[wants[c]] = NoConn /\ Lead(c)
    /\ UNCHANGED <<conns, closed, closing, open, made, wants, calls, mishaps>>

\* newClient, which does not wait for the service; it fails when a certificate
\* cannot be loaded.
Dial(c) ==
    /\ call[c] = "dial"
    /\ \/ \E n \in Conns \ made :
             /\ made' = made \cup {n} /\ open' = open \cup {n}
             /\ got' = [got EXCEPT ![c] = n] /\ UNCHANGED mishaps
       \/ Mishap /\ UNCHANGED <<made, open, got>>
    /\ Now(c, "settle")
    /\ UNCHANGED <<conns, pending, closed, closing, wants, calls>>

Followers(c) == {f \in Callers : call[f] = "wait" /\ wants[f] = wants[c]}

\* The result goes to c and to those who wait for it.
Share(c, conn) ==
    LET served == Followers(c) \cup {c}
    IN  /\ got' = [f \in Callers |-> IF f \in served THEN conn ELSE got[f]]
        /\ call' = [f \in Callers |-> IF f \in served
                                      THEN IF conn = NoConn THEN "idle" ELSE "using"
                                      ELSE call[f]]

\* Variant: a connection that was made while Close ran is kept.
SettleLate(c) ==
    /\ call[c] = "settle"
    /\ pending' = [pending EXCEPT ![wants[c]] = NoConn]
    /\ conns' = [conns EXCEPT ![wants[c]] = got[c]]
    /\ Share(c, got[c])
    /\ UNCHANGED <<closed, closing, open, made, wants, calls, mishaps>>

\* Variant: followers hear of connections only.
SettleQuietly(c) ==
    /\ call[c] = "settle"
    /\ pending' = [pending EXCEPT ![wants[c]] = NoConn]
    /\ \/ got[c] = NoConn /\ Give(c, NoConn) /\ UNCHANGED <<conns, open>>
       \/ got[c] # NoConn /\ closed /\ open' = open \ {got[c]} /\ Share(c, NoConn) /\ UNCHANGED conns
       \/ got[c] # NoConn /\ ~closed /\ conns' = [conns EXCEPT ![wants[c]] = got[c]]
          /\ Share(c, got[c]) /\ UNCHANGED open
    /\ UNCHANGED <<closed, closing, made, wants, calls, mishaps>>

\* Under the lock: a connection that was made while Close ran is closed again.
Settle(c) ==
    /\ call[c] = "settle"
    /\ pending' = [pending EXCEPT ![wants[c]] = NoConn]
    /\ \/ got[c] = NoConn /\ Share(c, NoConn) /\ UNCHANGED <<conns, open>>
       \/ got[c] # NoConn /\ closed /\ open' = open \ {got[c]} /\ Share(c, NoConn) /\ UNCHANGED conns
       \/ got[c] # NoConn /\ ~closed /\ conns' = [conns EXCEPT ![wants[c]] = got[c]]
          /\ Share(c, got[c]) /\ UNCHANGED open
    /\ UNCHANGED <<closed, closing, made, wants, calls, mishaps>>

\* The context of a follower ends.
LeaveWait(c) ==
    /\ call[c] = "wait" /\ Mishap
    /\ Now(c, "idle")
    /\ UNCHANGED <<conns, pending, closed, closing, open, made, wants, got, calls>>

\* The handler returns.
Finish(c) ==
    /\ call[c] = "using"
    /\ Give(c, NoConn)
    /\ UNCHANGED <<conns, pending, closed, closing, open, made, wants, calls, mishaps>>

\* Close: under the lock, then the connections outside it.
BeginClose ==
    /\ ~closed /\ closed' = TRUE
    /\ closing' = {conns[s] : s \in Services} \ {NoConn}
    /\ conns' = [s \in Services |-> NoConn]
    /\ UNCHANGED <<pending, open, made, call, wants, got, calls, mishaps>>

CloseConn(n) ==
    /\ n \in closing
    /\ closing' = closing \ {n} /\ open' = open \ {n}
    /\ UNCHANGED <<conns, pending, closed, made, call, wants, got, calls, mishaps>>

Proceed(c) == CheckConn(c) \/ Join(c) \/ Dial(c) \/ Settle(c) \/ LeaveWait(c) \/ Finish(c)

ManagerNext ==
    \/ BeginClose
    \/ \E n \in Conns : CloseConn(n)
    \/ \E c \in Callers : Proceed(c) \/ \E s \in Services : GetClient(c, s)

ManagerSpec == ManagerInit /\ [][ManagerNext]_managerVars

----------------------------------------------------------------------------
ManagerTypes ==
    /\ conns \in [Services -> Conns \cup {NoConn}]
    /\ pending \in [Services -> Callers \cup {NoConn}]
    /\ closed \in BOOLEAN
    /\ closing \subseteq Conns /\ open \subseteq made /\ made \subseteq Conns
    /\ call \in [Callers -> Stages]
    /\ wants \in [Callers -> Services]
    /\ got \in [Callers -> Conns \cup {NoConn}]
    /\ calls \in [Callers -> 0..Calls] /\ mishaps \in 0..Faults

\* No connection leaks: each that is open is shared, or about to be by the one
\* caller that is registered for its service, or about to be closed; so closing
\* leaves none open once those calls and Close have returned (client.go:129, :403).
NothingLeaks ==
    \A n \in open :
        \/ n \in closing
        \/ ~closed /\ \E s \in Services : conns[s] = n
        \/ \E c \in Callers : call[c] = "settle" /\ got[c] = n /\ pending[wants[c]] = c

\* All handlers of a service share one connection, and as long as the manager is
\* not closed it is open (client.go:103, :108).
OneConnection ==
    \A c \in Callers : call[c] = "using" /\ ~closed =>
        got[c] = conns[wants[c]] /\ got[c] \in open
=============================================================================
