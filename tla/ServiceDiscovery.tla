-------------------------- MODULE ServiceDiscovery --------------------------
(***************************************************************************)
(* How a gRPC connection of the gateway learns the addresses of a service: *)
(* the resolver (gateway/internal/consul/grpc_discovery.go) and the        *)
(* blocking queries it runs (WatchGRPCService in consul.go).  Consul and   *)
(* the ClientConn of grpc-go are external.                                 *)
(***************************************************************************)
EXTENDS Naturals

CONSTANTS
    Instances,    \* instances of the service
    Usable,       \* those registered with an address and a port
    MaxIndex,     \* bound: Consul's index
    Restores,     \* bound: restarts of Consul with older or other data
    Errors,       \* bound: queries and updates that fail
    MaxDelay      \* doublings after which the back-off stays as it is

ASSUME DiscoveryAssumption ==
    /\ Usable \subseteq Instances
    /\ MaxIndex \in Nat \ {0} /\ {Restores, Errors, MaxDelay} \subseteq Nat

VARIABLES
    healthy,      \* the instances that Consul reports as passing
    index,        \* Consul's index of that answer
    watch,        \* where the resolver's goroutine stands
    lastIndex,    \* index of the last answer of this WatchGRPCService
    answer,       \* entries and index of the answer in hand
    lastAddresses,   \* what the resolver published last; nil is the empty set
    addresses,    \* what the ClientConn balances over
    updated,      \* this WatchGRPCService has delivered an answer
    delay,        \* the back-off
    restores, errors   \* bounds left

discoveryVars == <<healthy, index, watch, lastIndex, answer, lastAddresses, addresses,
                   updated, delay, restores, errors>>
consul == <<healthy, index, restores>>

NoAnswer == [entries |-> {}, index |-> 0]

DiscoveryInit ==
    /\ healthy \in SUBSET Instances /\ index \in 0..1
    /\ watch = "off" /\ lastIndex = 0 /\ answer = NoAnswer
    /\ lastAddresses = {} /\ addresses = {} /\ updated = FALSE /\ delay = 0
    /\ restores = Restores /\ errors = Errors

Error == errors > 0 /\ errors' = errors - 1
Watch(place) == watch' = place

----------------------------------------------------------------------------
(* Consul *)

ChangeHealth(set) ==
    /\ set # healthy /\ index < MaxIndex
    /\ healthy' = set /\ index' = index + 1
    /\ UNCHANGED <<watch, lastIndex, answer, lastAddresses, addresses, updated, delay, restores, errors>>

\* Consul comes back with other data and an index of its own.
RestoreConsul(set, i) ==
    /\ restores > 0 /\ restores' = restores - 1
    /\ healthy' = set /\ index' = i
    /\ UNCHANGED <<watch, lastIndex, answer, lastAddresses, addresses, updated, delay, errors>>

----------------------------------------------------------------------------
(* The ClientConn *)

\* Build, when the connection is first used or used again.
Build ==
    /\ watch = "off" /\ Watch("query")
    /\ lastIndex' = 0 /\ lastAddresses' = {} /\ updated' = FALSE /\ delay' = 0
    /\ UNCHANGED <<consul, answer, addresses, errors>>

\* The connection is closed or has been idle for long; the goroutine sees its
\* context end.
CloseResolver ==
    /\ watch # "off" /\ Error
    /\ Watch("off")
    /\ lastIndex' = 0 /\ lastAddresses' = {} /\ updated' = FALSE /\ delay' = 0
    /\ answer' = NoAnswer /\ addresses' = {}
    /\ UNCHANGED consul

----------------------------------------------------------------------------
(* WatchGRPCService *)

\* Variant: an index that goes back is waited for.
AfterReset == lastIndex

\* Consul starts anew: so does the watch.
ResetIndex == 0

\* The blocking query returns: at once with an index beyond lastIndex, and
\* otherwise when its wait time is over.
AnswerQuery ==
    /\ watch = "query"
    /\ \/ /\ index < lastIndex
          /\ lastIndex' = ResetIndex /\ UNCHANGED <<watch, answer>>
       \/ /\ index >= lastIndex
          /\ answer' = [entries |-> healthy, index |-> IF index = 0 THEN 1 ELSE index]
          /\ Watch("update") /\ UNCHANGED lastIndex
    /\ UNCHANGED <<consul, lastAddresses, addresses, updated, delay, errors>>

QueryFails ==
    /\ watch = "query" /\ Error
    /\ Watch("failed")
    /\ UNCHANGED <<consul, lastIndex, answer, lastAddresses, addresses, updated, delay>>

----------------------------------------------------------------------------
(* The resolver *)

\* Entries without an address or with a bad port are skipped; the rest is a
\* sorted list without repetitions, that is, a set.
grpcResolverAddresses(entries) == entries \cap Usable

\* onUpdate has returned nil; the next query follows.
Delivered ==
    /\ updated' = TRUE /\ lastIndex' = answer.index /\ answer' = NoAnswer
    /\ Watch("query")

SkipUpdate ==
    /\ watch = "update" /\ grpcResolverAddresses(answer.entries) = lastAddresses
    /\ Delivered
    /\ UNCHANGED <<consul, lastAddresses, addresses, delay, errors>>

UpdateState ==
    LET new == grpcResolverAddresses(answer.entries)
    IN  /\ watch = "update" /\ new # lastAddresses
        /\ addresses' = new /\ lastAddresses' = new
        /\ Delivered
        /\ UNCHANGED <<consul, delay, errors>>

\* The ClientConn reports an error.  The balancer does so for an empty list,
\* which it takes over all the same; other lists it may or may not take over.
UpdateFails ==
    LET new == grpcResolverAddresses(answer.entries)
    IN  /\ watch = "update" /\ new # lastAddresses
        /\ \/ new = {} /\ addresses' = {} /\ UNCHANGED errors
           \/ new # {} /\ addresses' \in {addresses, new} /\ Error
        /\ lastAddresses' = {}
        /\ answer' = NoAnswer /\ Watch("failed")
        /\ UNCHANGED <<consul, lastIndex, updated, delay>>

\* ReportError, the wait, and a new WatchGRPCService.
Retry ==
    LET base == IF updated THEN 0 ELSE delay
    IN  /\ watch = "failed" /\ Watch("query")
        /\ delay' = IF base < MaxDelay THEN base + 1 ELSE base
        /\ lastIndex' = 0 /\ updated' = FALSE
        /\ UNCHANGED <<consul, answer, lastAddresses, addresses, errors>>

ResolverStep == AnswerQuery \/ SkipUpdate \/ UpdateState \/ UpdateFails \/ Retry \/ QueryFails

DiscoveryNext ==
    \/ ResolverStep \/ Build \/ CloseResolver
    \/ \E set \in SUBSET Instances : ChangeHealth(set) \/ \E i \in 0..MaxIndex : RestoreConsul(set, i)

DiscoveryTypes ==
    /\ healthy \subseteq Instances /\ index \in 0..MaxIndex
    /\ watch \in {"off", "query", "update", "failed"}
    /\ lastIndex \in 0..MaxIndex /\ answer \in [entries : SUBSET Instances, index : 0..MaxIndex]
    /\ lastAddresses \subseteq Usable /\ addresses \subseteq Usable
    /\ updated \in BOOLEAN /\ delay \in 0..MaxDelay
    /\ restores \in 0..Restores /\ errors \in 0..Errors

\* When Consul settles on some instances, the connection ends up with them:
\* restarts of Consul with smaller indexes, failed queries and lists that the
\* ClientConn refused are all made up for (consul.go:229, grpc_discovery.go:136).
\* That there are no instances may never reach it: to the resolver an empty list
\* is what it has published when it has published nothing (grpc_discovery.go:131).
AddressesCatchUp ==
    LET current == grpcResolverAddresses(healthy)
    IN  <>[](watch = "off" \/ current = {} \/ addresses = current)
=============================================================================
