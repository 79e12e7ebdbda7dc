---------------------------- MODULE ServiceLife ----------------------------
(***************************************************************************)
(* The life of a process of the user, admin or web3 service (app.go of     *)
(* each, Run): check the dependencies, serve, register, and on a signal or *)
(* a server's failure the way back.  Each service has a registry like the  *)
(* gateway's, which has the one protocol grpc here.                        *)
(*                                                                         *)
(* The dependencies are external.  What holds them in use is a handler of  *)
(* the gRPC server and, for web3, a round of the scanner.                  *)
(***************************************************************************)
EXTENDS ServiceRegistration

CONSTANT NilErrors    \* web3's Redis client makes an error of nil, as it does

ASSUME LifeAssumption == NilErrors \in BOOLEAN

VARIABLES
    service,      \* which of the three it is
    reachable,    \* its dependencies can be reached
    run,          \* where Run stands
    killed,       \* the process was ended by a signal that it did not catch
    signalled,    \* it has caught one
    server,       \* its gRPC server
    handling,     \* a handler runs
    scanner,      \* web3's scanner
    released      \* the dependencies are closed

workVars == <<server, handling, scanner>>
serviceVars == <<service, reachable, run, killed, signalled, workVars, released, registrationVars>>

ServiceInit ==
    /\ service \in {"user", "admin", "web3"} /\ reachable \in BOOLEAN
    /\ run = "check" /\ killed = FALSE /\ signalled = FALSE /\ released = FALSE
    /\ server = "off" /\ handling = FALSE /\ scanner = "off"
    /\ RegistrationInit

Alive == run \notin {"gone", "turned away"}
Go(next) == run' = next

----------------------------------------------------------------------------
(* Start *)

\* web3 asks within its context, and its redisError wraps whatever it is given: a
\* typed nil that is no nil.
PingFails == ~reachable \/ (service = "web3" /\ (signalled \/ NilErrors))

\* Databases, Redis and Consul are asked; what was opened is closed again.
CheckDependencies ==
    /\ run = "check"
    /\ Go(IF PingFails THEN "refused" ELSE "build")
    /\ UNCHANGED <<service, reachable, killed, signalled, workVars, released, registrationVars>>

\* The servers start, after web3's scanner, before the registration.
StartServices ==
    /\ run = "build" /\ Go("register")
    /\ server' = "serving"
    /\ scanner' = IF service = "web3" THEN "idle" ELSE scanner
    /\ UNCHANGED <<service, reachable, killed, signalled, handling, released, registrationVars>>

\* RegisterService, RegisterGRPC.  Without a registration, web3 drains its servers
\* and the others leave them to the end of the process.
RegisterSelf ==
    /\ run = "register"
    /\ \/ Register("grpc") /\ Go("maintain")
       \/ RegisterFails("grpc") /\ Go(IF service = "web3" THEN "drain" ELSE "close")
    /\ UNCHANGED <<service, reachable, killed, signalled, workVars, released>>

\* The maintenance of a web3 that has caught a signal ends as it begins.
MaintainRegistration ==
    /\ run = "maintain" /\ Go("serving")
    /\ IF signalled THEN /\ keeper' = "ended"
                        /\ UNCHANGED <<registered, remembered, late, keeping, listed, todo, target, losses, slips>>
                   ELSE StartMaintenance
    /\ UNCHANGED <<service, reachable, killed, signalled, workVars, released>>

----------------------------------------------------------------------------
(* Stop *)

\* SIGTERM.  The others, before they have registered and called NotifyContext, die
\* of it; a context that is cancelled cancels that of the maintenance.  Once the
\* way back has begun, a signal changes nothing.
Signal ==
    /\ run \in {"check", "build", "register", "maintain", "serving"} /\ ~signalled
    /\ \/ /\ service # "web3" /\ run # "serving"
          /\ killed' = TRUE /\ Go("gone") /\ UNCHANGED <<signalled, registrationVars>>
       \/ /\ service = "web3" \/ run = "serving"
          /\ signalled' = TRUE /\ UNCHANGED <<killed, run>>
          /\ IF run = "serving" THEN CancelMaintenance ELSE UNCHANGED registrationVars
    /\ UNCHANGED <<service, reachable, workVars, released>>

ServerFails ==
    /\ server = "serving" /\ server' = "failed"
    /\ UNCHANGED <<service, reachable, run, killed, signalled, handling, scanner, released, registrationVars>>

\* Variant: the maintenance is left to the end of the context.
BeginStopUncancelled ==
    /\ run = "serving" /\ (signalled \/ server = "failed") /\ Go("stopping")
    /\ UNCHANGED <<service, reachable, killed, signalled, workVars, released, registrationVars>>

\* Run has waited for either; stopRegistration cancels the maintenance ...
BeginStop ==
    /\ run = "serving" /\ (signalled \/ server = "failed") /\ Go("stopping")
    /\ CancelMaintenance
    /\ UNCHANGED <<service, reachable, killed, signalled, workVars, released>>

\* Variant: it does not wait for it.
DeregisterAtOnce ==
    /\ run = "stopping" /\ Go("drain")
    /\ Deregister("grpc") \/ DeregisterFails("grpc")
    /\ UNCHANGED <<service, reachable, killed, signalled, workVars, released>>

\* ... and waits for its end.
DeregisterSelf ==
    /\ run = "stopping" /\ keeper = "ended" /\ Go("drain")
    /\ Deregister("grpc") \/ DeregisterFails("grpc")
    /\ UNCHANGED <<service, reachable, killed, signalled, workVars, released>>

\* Stop waits for the handlers, past its deadline after it has cut their calls.
DrainServers ==
    /\ run = "drain" /\ ~handling
    /\ server' = "stopped" /\ Go("close")
    /\ UNCHANGED <<service, reachable, killed, signalled, handling, scanner, released, registrationVars>>

\* Variant: the RPC clients are closed under the scanner.
CloseUnderScanner == released' = TRUE /\ UNCHANGED scanner

\* The deferred calls, the last first: stopScanner has waited for the scanner when
\* the RPC clients, and after them the others, are closed.
CloseInOrder ==
    /\ scanner \in {"off", "idle"} /\ released' = TRUE
    /\ scanner' = IF scanner = "off" THEN "off" ELSE "ended"

CloseDependencies ==
    /\ run \in {"close", "refused"} /\ CloseInOrder
    /\ Go(IF run = "refused" THEN "turned away" ELSE "return")
    /\ UNCHANGED <<service, reachable, killed, signalled, server, handling, registrationVars>>

\* Run returns and the process ends, with whatever still runs.
ExitProcess ==
    /\ run = "return" /\ Go("gone")
    /\ UNCHANGED <<service, reachable, killed, signalled, workVars, released, registrationVars>>

----------------------------------------------------------------------------
(* What goes on meanwhile *)

\* A call arrives, unless Stop has closed the listener; its handler returns.
StartCall ==
    /\ Alive /\ server = "serving" /\ run # "drain" /\ handling' = TRUE
    /\ UNCHANGED <<service, reachable, run, killed, signalled, server, scanner, released, registrationVars>>

EndCall ==
    /\ Alive /\ handling /\ handling' = FALSE
    /\ UNCHANGED <<service, reachable, run, killed, signalled, server, scanner, released, registrationVars>>

\* A round of the scanner begins, unless its context has ended or stopScanner has
\* been called, and is over.
StartScan ==
    /\ Alive /\ scanner = "idle" /\ ~signalled /\ run # "close" /\ scanner' = "scanning"
    /\ UNCHANGED <<service, reachable, run, killed, signalled, server, handling, released, registrationVars>>

EndScan ==
    /\ Alive /\ scanner = "scanning" /\ scanner' = "idle"
    /\ UNCHANGED <<service, reachable, run, killed, signalled, server, handling, released, registrationVars>>

MaintenanceRound ==
    /\ Alive /\ KeeperStep
    /\ UNCHANGED <<service, reachable, run, killed, signalled, workVars, released>>

AgentActs ==
    /\ AgentStep
    /\ UNCHANGED <<service, reachable, run, killed, signalled, workVars, released>>

RunStep ==
    \/ CheckDependencies \/ StartServices \/ RegisterSelf \/ MaintainRegistration
    \/ BeginStop \/ DeregisterSelf \/ DrainServers \/ CloseDependencies \/ ExitProcess

ServiceNext ==
    \/ RunStep \/ Signal \/ ServerFails
    \/ StartCall \/ EndCall \/ StartScan \/ EndScan \/ MaintenanceRound \/ AgentActs

ServiceSpec == ServiceInit /\ [][ServiceNext]_serviceVars

----------------------------------------------------------------------------
(* Properties *)

\* Where a process may be, with a registry of the same kind (app.go:37 of web3).
ServiceTypes ==
    /\ service \in {"user", "admin", "web3"} /\ server \in {"off", "serving", "failed", "stopped"}
    /\ run \in {"check", "refused", "turned away", "build", "register", "maintain", "serving",
               "stopping", "drain", "close", "return", "gone"}
    /\ scanner \in {"off", "idle", "scanning", "ended"}
    /\ reachable \in BOOLEAN /\ killed \in BOOLEAN /\ signalled \in BOOLEAN
    /\ handling \in BOOLEAN /\ released \in BOOLEAN
    /\ RegistrationTypes

\* A service that has returned from Run has left nothing in the catalogue, unless a
\* request to the agent went wrong: its maintenance does not bring back what it
\* deregisters (consul/register.go:79 of user, registration.go of the others).
NoStray == run = "gone" /\ ~killed /\ slips = Slips => registered = {}

\* The dependencies are closed under no handler that serves and no round of the
\* scanner, on every way back of web3, and of the others once they have registered
\* (web3's app.go:95, service/scanner.go:69).
ClosedUnused ==
    released /\ (service = "web3" \/ remembered # {}) => ~handling /\ scanner # "scanning"

\* A service refuses to start only when a dependency fails it, or a signal has come
\* (web3's redis/client.go:42: the ping decides whether Redis has to be there).
RefusesForCause == run = "refused" => ~reachable \/ signalled

\* After a signal that it catches, and after its server has failed, a process comes
\* to its end: whatever the maintenance, the handlers and the scanner are doing then,
\* they let it (app.go of each, shutdownServers of web3).
WindsDown == signalled \/ server = "failed" ~> ~Alive
=============================================================================
