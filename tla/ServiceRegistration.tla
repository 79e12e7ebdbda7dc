------------------------ MODULE ServiceRegistration ------------------------
(***************************************************************************)
(* The gateway's registrations in Consul: gateway/internal/consul,         *)
(* registration.go and the register and deregister calls of consul.go.     *)
(* The Consul agent is external.                                           *)
(***************************************************************************)
EXTENDS Naturals

CONSTANTS
    Losses,     \* bound: registrations the agent loses
    Slips,      \* bound: requests to the agent that go wrong
    None

ASSUME RegistrationAssumption == Losses \in Nat /\ Slips \in Nat

VARIABLES
    registered,   \* what the agent has registered of this gateway
    remembered,   \* registrations, the templates of what was registered
    late,         \* requests given up by their sender that may still arrive
    keeper,       \* where the maintenance goroutine stands
    keeping,      \* its context is alive
    listed,       \* the services that its last query has found
    todo,         \* templates it has yet to look at
    target,       \* the service it is registering
    losses, slips \* bounds left

registrationVars == <<registered, remembered, late, keeper, keeping, listed, todo, target, losses, slips>>
keeperVars == <<keeper, keeping, listed, todo, target>>

Protocols == {"http", "grpc"}

RegistrationInit ==
    /\ registered = {} /\ remembered = {} /\ late = {}
    /\ keeper = "off" /\ keeping = FALSE /\ listed = {} /\ todo = {} /\ target = None
    /\ losses = Losses /\ slips = Slips

Slip == slips > 0 /\ slips' = slips - 1

----------------------------------------------------------------------------
(* The agent *)

\* It restarts without its data, or drops a service whose check is critical.
Lose(p) ==
    /\ p \in registered /\ losses > 0
    /\ losses' = losses - 1
    /\ registered' = registered \ {p}
    /\ UNCHANGED <<remembered, late, keeperVars, slips>>

LateArrives(p) ==
    /\ p \in late
    /\ late' = late \ {p} /\ registered' = registered \cup {p}
    /\ UNCHANGED <<remembered, keeperVars, losses, slips>>

----------------------------------------------------------------------------
(* Operations of the registry *)

\* Variant: the template is not kept.
RegisterOnly(p) ==
    /\ registered' = registered \cup {p}
    /\ UNCHANGED <<remembered, late, keeperVars, losses, slips>>

\* registerAndRemember
Register(p) ==
    /\ registered' = registered \cup {p} /\ remembered' = remembered \cup {p}
    /\ UNCHANGED <<late, keeperVars, losses, slips>>

\* It returns an error, but the agent may have the registration.
RegisterFails(p) ==
    /\ registered' \in {registered, registered \cup {p}} /\ Slip
    /\ UNCHANGED <<remembered, late, keeperVars, losses>>

Deregister(p) ==
    /\ registered' = registered \ {p}
    /\ UNCHANGED <<remembered, late, keeperVars, losses, slips>>

DeregisterFails(p) ==
    /\ registered' \in {registered, registered \ {p}} /\ Slip
    /\ UNCHANGED <<remembered, late, keeperVars, losses>>

StartMaintenance ==
    /\ keeper' = "sleep" /\ keeping' = TRUE
    /\ UNCHANGED <<registered, remembered, late, listed, todo, target, losses, slips>>

\* The first half of the function that StartMaintenance returns: cancel.  Its
\* caller then waits until the goroutine has ended.
CancelMaintenance ==
    /\ keeping' = FALSE
    /\ UNCHANGED <<registered, remembered, late, keeper, listed, todo, target, losses, slips>>

----------------------------------------------------------------------------
(* The maintenance goroutine: reconcileRegistrations after each delay *)

\* The round ends, and so does the goroutine when its context has.
EndRound ==
    /\ keeper' = IF keeping THEN "sleep" ELSE "ended"
    /\ listed' = {} /\ todo' = {} /\ target' = None

Wake ==
    /\ keeper = "sleep" /\ keeping
    /\ keeper' = "list"
    /\ UNCHANGED <<registered, remembered, late, keeping, listed, todo, target, losses, slips>>

\* A query that fails does not count as missing registrations.
ListServices ==
    /\ keeper = "list"
    /\ \/ /\ keeping /\ keeper' = "register"
          /\ listed' = registered /\ todo' = remembered /\ UNCHANGED <<target, slips>>
       \/ keeping /\ Slip /\ EndRound
       \/ ~keeping /\ UNCHANGED slips /\ EndRound
    /\ UNCHANGED <<registered, remembered, late, keeping, losses>>

Present(p) ==
    /\ keeper = "register" /\ keeping /\ p \in todo /\ p \in listed
    /\ todo' = todo \ {p}
    /\ UNCHANGED <<registered, remembered, late, keeper, keeping, listed, target, losses, slips>>

Send(p) ==
    /\ keeper = "register" /\ keeping /\ p \in todo \ listed
    /\ keeper' = "sent" /\ todo' = todo \ {p} /\ target' = p
    /\ UNCHANGED <<registered, remembered, late, keeping, listed, losses, slips>>

\* The agent registers the service.
Accepted ==
    /\ keeper = "sent"
    /\ registered' = registered \cup {target} /\ target' = None
    /\ keeper' = "register"
    /\ UNCHANGED <<remembered, late, keeping, listed, todo, losses, slips>>

\* The request fails, or the end of the context cuts it short; the agent may have
\* the registration, or, as a slip, still get it.
Rejected ==
    /\ keeper = "sent" /\ EndRound
    /\ \/ /\ registered' \in {registered, registered \cup {target}} /\ UNCHANGED late
          /\ (~keeping /\ UNCHANGED slips) \/ Slip
       \/ late' = late \cup {target} /\ Slip /\ UNCHANGED registered
    /\ UNCHANGED <<remembered, keeping, losses>>

\* All templates have been looked at, or the context has ended.
FinishRound ==
    /\ \/ keeper = "register" /\ (todo = {} \/ ~keeping)
       \/ keeper = "sleep" /\ ~keeping
    /\ EndRound
    /\ UNCHANGED <<registered, remembered, late, keeping, losses, slips>>

KeeperStep ==
    \/ Wake \/ ListServices \/ Accepted \/ Rejected \/ FinishRound
    \/ \E p \in Protocols : Present(p) \/ Send(p)

AgentStep == \E p \in Protocols : Lose(p) \/ LateArrives(p)

RegistrationTypes ==
    /\ registered \subseteq Protocols /\ remembered \subseteq Protocols /\ late \subseteq Protocols
    /\ keeper \in {"off", "sleep", "list", "register", "sent", "ended"} /\ keeping \in BOOLEAN
    /\ listed \subseteq Protocols /\ todo \subseteq Protocols /\ target \in Protocols \cup {None}
    /\ losses \in 0..Losses /\ slips \in 0..Slips
=============================================================================
