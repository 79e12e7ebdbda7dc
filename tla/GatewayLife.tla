---------------------------- MODULE GatewayLife ----------------------------
(***************************************************************************)
(* The life of a gateway process (gateway/internal/app/app.go): register,  *)
(* serve, stop the maintenance, drain the servers, deregister, close the   *)
(* connections.  Handlers are the callers of ClientManager.                *)
(***************************************************************************)
EXTENDS ClientManager, ServiceRegistration

VARIABLE stage    \* where Run stands

lifeVars == <<managerVars, registrationVars, stage>>

LifeInit == ManagerInit /\ RegistrationInit /\ stage = "start"

Enter(next) == stage' = next
Gone == stage \in {"exited", "killed"}

----------------------------------------------------------------------------
(* Run, in order *)

RegisterHTTP ==
    /\ stage = "start"
    /\ \/ Register("http") /\ Enter("half")
       \/ RegisterFails("http") /\ Enter("close")
    /\ UNCHANGED managerVars

RegisterGRPC ==
    /\ stage = "half"
    /\ \/ Register("grpc") /\ Enter("registered")
       \/ RegisterFails("grpc") /\ Enter("undo")
    /\ UNCHANGED managerVars

\* Half a gateway must not stay in the catalogue.
UndoHTTP ==
    /\ stage = "undo" /\ Enter("close")
    /\ Deregister("http") \/ DeregisterFails("http")
    /\ UNCHANGED managerVars

StartServers ==
    /\ stage = "registered" /\ Enter("serving")
    /\ StartMaintenance
    /\ UNCHANGED managerVars

\* A signal that is caught, or a server that stops by itself.
Stop ==
    /\ stage = "serving" /\ Enter("stopping")
    /\ CancelMaintenance
    /\ UNCHANGED managerVars

\* Variant: nobody waits for the maintenance goroutine.
StopWithoutWaiting ==
    /\ stage = "stopping" /\ Enter("drain")
    /\ UNCHANGED <<managerVars, registrationVars>>

\* stopRegistration has waited for the goroutine.
MaintenanceStopped ==
    /\ stage = "stopping" /\ keeper = "ended" /\ Enter("drain")
    /\ UNCHANGED <<managerVars, registrationVars>>

\* Both Shutdowns have returned: the handlers are done, or the deadline has
\* passed and they run on.
Drained ==
    /\ stage = "drain" /\ Enter("deregister")
    /\ UNCHANGED <<managerVars, registrationVars>>

\* The deferred calls, whose errors are logged.
DeregisterGRPC ==
    /\ stage = "deregister" /\ Enter("deregister http")
    /\ Deregister("grpc") \/ DeregisterFails("grpc")
    /\ UNCHANGED managerVars

DeregisterHTTP ==
    /\ stage = "deregister http" /\ Enter("close")
    /\ Deregister("http") \/ DeregisterFails("http")
    /\ UNCHANGED managerVars

CloseManager ==
    /\ stage = "close" /\ Enter("closing")
    /\ BeginClose
    /\ UNCHANGED registrationVars

CloseNext ==
    /\ stage = "closing"
    /\ \E n \in Conns : CloseConn(n)
    /\ UNCHANGED <<registrationVars, stage>>

Exit ==
    /\ stage = "closing" /\ closing = {} /\ Enter("exited")
    /\ UNCHANGED <<managerVars, registrationVars>>

\* A signal that is not caught, before NotifyContext, or after the deferred
\* stopSignals, which comes before the deregistration: the process dies at once and
\* leaves what it has registered.
Caught == {"serving", "stopping", "drain"}

Kill ==
    /\ ~Gone /\ stage \notin Caught /\ Enter("killed")
    /\ UNCHANGED <<managerVars, registrationVars>>

Run ==
    \/ RegisterHTTP \/ RegisterGRPC \/ UndoHTTP \/ StartServers \/ MaintenanceStopped
    \/ Drained \/ DeregisterGRPC \/ DeregisterHTTP \/ CloseManager \/ CloseNext \/ Exit

----------------------------------------------------------------------------
\* The servers take requests until their Shutdown.
Serve(c) ==
    /\ stage \in {"serving", "stopping"}
    /\ \E s \in Services : GetClient(c, s)
    /\ UNCHANGED <<registrationVars, stage>>

\* Handlers whose server has given up waiting run until the process exits.
Handle(c) ==
    /\ ~Gone /\ Proceed(c)
    /\ UNCHANGED <<registrationVars, stage>>

Maintain == ~Gone /\ KeeperStep /\ UNCHANGED <<managerVars, stage>>

Agent == AgentStep /\ UNCHANGED <<managerVars, stage>>

LifeNext ==
    \/ Run \/ Stop \/ Kill \/ Maintain \/ Agent
    \/ \E c \in Callers : Serve(c) \/ Handle(c)

LifeSpec == LifeInit /\ [][LifeNext]_lifeVars

LifeTypes ==
    /\ ManagerTypes /\ RegistrationTypes
    /\ stage \in {"start", "half", "undo", "registered", "serving", "stopping", "drain",
                  "deregister", "deregister http", "close", "closing", "exited", "killed"}

\* A gateway that has returned from Run leaves nothing in the catalogue, unless a
\* request to the agent went wrong: no round of the maintenance registers again what
\* is being deregistered, and half a gateway is taken back (app.go:212,
\* registration.go:52).  One that was killed leaves what it had registered.
NothingLeftBehind == stage = "exited" /\ slips = Slips => registered = {}

\* While it serves, both registrations are there again and again, whatever the
\* agent loses (registration.go:25).
StaysRegistered == []<>(stage = "serving" => registered = Protocols)

\* Nobody waits for ever: neither for another caller's dial, nor for the
\* maintenance, the servers or Close (client.go:111, registration.go:86).
NobodyHangs ==
    /\ \A c \in Callers : call[c] \in {"check", "join", "wait"} ~>
                             call[c] \in {"idle", "using"} \/ Gone
    /\ stage \notin {"start", "serving"} ~> stage = "serving" \/ Gone
=============================================================================
