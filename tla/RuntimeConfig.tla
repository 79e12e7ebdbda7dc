--------------------------- MODULE RuntimeConfig ---------------------------
(***************************************************************************)
(* The gateway's runtime configuration: Manager.Run and Store of           *)
(* gateway/internal/runtimeconfig, WatchKV of gateway/internal/consul.     *)
(* Consul's key-value store is external.                                   *)
(***************************************************************************)
EXTENDS Naturals

CONSTANTS
    Configs,      \* configurations somebody may store
    Good,         \* those that ParseRuntimeConfig and BuildSnapshot accept
    MaxWrite,     \* bound: the index of the key
    Outages,      \* bound: queries that fail
    Absent        \* no key, or an empty one

ASSUME RuntimeAssumption ==
    /\ Good \subseteq Configs /\ Absent \notin Configs
    /\ MaxWrite \in Nat \ {0} /\ Outages \in Nat

VARIABLES
    stored,       \* the value under the key
    writeIndex,   \* the index of a query for it
    rewound,      \* history: Consul has come back with a smaller index
    manager,      \* where Run stands
    waitIndex,    \* the last index it has seen
    reply,        \* value and index of the answer in hand
    snapshot,     \* the published configuration
    outages       \* bound left

runtimeVars == <<stored, writeIndex, rewound, manager, waitIndex, reply, snapshot, outages>>
kv == <<stored, writeIndex, rewound>>

NoReply == [value |-> Absent, index |-> 0]

\* The process starts with a configuration it has read and accepted.
RuntimeInit ==
    /\ stored \in Good /\ snapshot = stored
    /\ writeIndex = 1 /\ rewound = FALSE
    /\ manager = "watch" /\ waitIndex = 0 /\ reply = NoReply
    /\ outages = Outages

----------------------------------------------------------------------------
(* Consul *)

\* Somebody writes or deletes the key.
WriteConfig(value) ==
    /\ writeIndex < MaxWrite /\ value # stored
    /\ stored' = value /\ writeIndex' = writeIndex + 1
    /\ UNCHANGED <<rewound, manager, waitIndex, reply, snapshot, outages>>

RestoreKV(value, i) ==
    /\ ~rewound /\ rewound' = TRUE
    /\ i < writeIndex /\ stored' = value /\ writeIndex' = i
    /\ UNCHANGED <<manager, waitIndex, reply, snapshot, outages>>

----------------------------------------------------------------------------
(* Manager.Run *)

\* WatchKV returns a value, after a change or when its wait time is over.
WatchKV ==
    /\ manager = "watch" /\ stored # Absent
    /\ reply' = [value |-> stored, index |-> writeIndex]
    /\ manager' = "apply"
    /\ UNCHANGED <<kv, waitIndex, snapshot, outages>>

\* It returns an error: Consul cannot be reached, or there is no value.
WatchFails ==
    /\ manager = "watch"
    /\ \/ stored = Absent /\ UNCHANGED outages
       \/ outages > 0 /\ outages' = outages - 1
    /\ manager' = "wait"
    /\ UNCHANGED <<kv, waitIndex, reply, snapshot>>

WaitRetry ==
    /\ manager = "wait" /\ manager' = "watch"
    /\ UNCHANGED <<kv, waitIndex, reply, snapshot, outages>>

\* Variant: an index is taken for new when it is one beyond the next.
IsNewLate == reply.index > waitIndex + 1
IsNew == reply.index > waitIndex

\* Known fields, a version, all four policies, and values in range.
ParseRuntimeConfig(value) == value \in Good

\* The index is taken over whether or not the configuration is accepted.
Apply ==
    /\ manager = "apply" /\ manager' = "watch" /\ reply' = NoReply
    /\ \/ ~IsNew /\ UNCHANGED <<waitIndex, snapshot>>
       \/ IsNew /\ waitIndex' = reply.index
          /\ snapshot' = IF ParseRuntimeConfig(reply.value) THEN reply.value ELSE snapshot
    /\ UNCHANGED <<kv, outages>>

ManagerStep == WatchKV \/ WatchFails \/ WaitRetry \/ Apply

RuntimeNext ==
    \/ ManagerStep
    \/ \E value \in Configs \cup {Absent} : WriteConfig(value) \/ \E i \in 1..MaxWrite : RestoreKV(value, i)

RuntimeTypes ==
    /\ stored \in Configs \cup {Absent} /\ writeIndex \in 0..MaxWrite /\ rewound \in BOOLEAN
    /\ manager \in {"watch", "wait", "apply"} /\ waitIndex \in 0..MaxWrite
    /\ reply \in [value : Configs \cup {Absent}, index : 0..MaxWrite]
    /\ snapshot \in Good /\ outages \in 0..Outages

\* A good configuration that stays is published, whatever was stored before it
\* and whatever failed, as long as Consul's index does not go back
\* (manager.go:58, :61).
ConfigCatchesUp == <>[](rewound \/ stored \notin Good \/ snapshot = stored)
=============================================================================
