---------------------------- MODULE MCProcesses ----------------------------
(***************************************************************************)
(* The processes for TLC: the life of the gateway with its connections,    *)
(* one resolver, the runtime configuration, and the life of another        *)
(* service.  They share no state, so each is explored with the others at   *)
(* rest: part says which one moves.  The two lives use one registry, which *)
(* belongs to the one that moves.                                          *)
(***************************************************************************)
EXTENDS GatewayLife, ServiceDiscovery, RuntimeConfig, ServiceLife, TLC

CONSTANTS good1

VARIABLE part

ownVars == <<service, reachable, run, killed, signalled, workVars, released>>
allVars == <<lifeVars, discoveryVars, runtimeVars, ownVars, part>>

Init ==
    /\ LifeInit /\ DiscoveryInit /\ RuntimeInit /\ ServiceInit
    /\ part \in {"gateway", "discovery", "runtime", "service"}
    /\ part # "discovery" => healthy = {} /\ index = 1
    /\ part # "runtime" => stored = good1
    /\ part # "service" => service = "web3" /\ reachable

Gateway(A) == part = "gateway" /\ A /\ UNCHANGED <<discoveryVars, runtimeVars, ownVars, part>>
Discovery(A) == part = "discovery" /\ A /\ UNCHANGED <<lifeVars, runtimeVars, ownVars, part>>
Runtime(A) == part = "runtime" /\ A /\ UNCHANGED <<lifeVars, discoveryVars, ownVars, part>>
Service(A) ==
    part = "service" /\ A /\ UNCHANGED <<managerVars, stage, discoveryVars, runtimeVars, part>>

Next ==
    \/ Gateway(LifeNext) \/ Discovery(DiscoveryNext) \/ Runtime(RuntimeNext)
    \/ Service(ServiceNext)

\* The scheduler runs goroutines and defers, mutexes are held briefly, timers
\* fire, and requests to Consul return or time out; handlers and scans of the
\* services return, when their contexts end if not before.  Nobody has to stop a
\* process, call it, or use a connection.
FairSpec ==
    /\ Init /\ [][Next]_allVars
    /\ WF_allVars(Gateway(Run)) /\ WF_allVars(Gateway(Maintain))
    /\ \A c \in Callers : WF_allVars(Gateway(Handle(c)))
    /\ WF_allVars(Discovery(ResolverStep))
    /\ WF_allVars(Runtime(ManagerStep))
    /\ WF_allVars(Service(RunStep)) /\ WF_allVars(Service(MaintenanceRound))
    /\ WF_allVars(Service(EndCall)) /\ WF_allVars(Service(EndScan))

TypeOK == LifeTypes /\ DiscoveryTypes /\ RuntimeTypes /\ ServiceTypes
=============================================================================
