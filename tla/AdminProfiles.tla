--------------------------- MODULE AdminProfiles ---------------------------
(***************************************************************************)
(* The profile of an administrator: GetAdminInfo of the admin service      *)
(* (admin/internal/service/get_admin_info.go), which reads a cache, finds  *)
(* the administrator by subject or, for a first login, by name, and binds  *)
(* the subject to the row (admin/internal/repository/admin.go).            *)
(*                                                                         *)
(* Redis and PostgreSQL are external.  Rows are changed by others, through *)
(* what the repository offers, and nobody tells the cache.  With           *)
(* read_write_split_enabled every read goes to some replica, which may be  *)
(* behind the primary (admin/internal/database/databases.go:39).  Names do *)
(* not change: a row is found by itself.                                   *)
(***************************************************************************)
EXTENDS Integers

CONSTANTS
    Admins,       \* rows of the table
    Accounts,     \* Keycloak subjects
    Lookups,      \* requests
    TTL,          \* life of a cached profile
    Timeout,      \* life of a request
    Lag,          \* bound: how long a replica may show what is no longer so
    MaxNow,       \* bound: time
    Changes,      \* bound: changes of rows by others, calls that fail
    Nobody

ASSUME ProfilesAssumption ==
    /\ TTL \in Nat \ {0} /\ Timeout \in Nat /\ Lag \in Nat
    /\ MaxNow \in Nat /\ Changes \in Nat
    /\ Nobody \notin Admins \cup Accounts

VARIABLES
    now,
    admin,        \* the rows
    past,         \* what the rows were, until when, if a replica may still show it
    cache,        \* the cached profile of each subject
    ask,          \* where each request stands
    enabledAt,    \* history: when the row was last enabled
    heldAt,       \* history: when it last had the role
    changes       \* bound left

profileVars == <<now, admin, past, cache, ask, enabledAt, heldAt, changes>>
rest == <<now, admin, past, cache, enabledAt, heldAt>>

Codes == {"super_admin", "admin"}
NoProfile == [row |-> Nobody, code |-> "", until |-> 0]
Corrupt == [NoProfile EXCEPT !.code = "corrupt"]

NoRequest == [step |-> "idle", subject |-> Nobody, name |-> Nobody, row |-> Nobody,
              enabled |-> FALSE, code |-> "", from |-> 0]

Enabled(a) == admin[a].enabled /\ ~admin[a].deleted

ProfilesInit ==
    /\ now = 0
    /\ admin \in [Admins -> [subject : {Nobody}, enabled : {TRUE}, deleted : {FALSE},
                             roles : SUBSET Codes]]
    /\ past = {}
    /\ cache = [s \in Accounts |-> NoProfile]
    /\ ask = [q \in Lookups |-> NoRequest]
    /\ enabledAt = [a \in Admins |-> 0]
    /\ heldAt = [a \in Admins |-> [c \in Codes |-> 0]]
    /\ changes = Changes

Change == changes > 0 /\ changes' = changes - 1
Asking(q) == ask[q].step \notin {"idle", "served", "refused"}

----------------------------------------------------------------------------
(* The database *)

\* A write goes to the primary; replicas may go on showing what was there before.
Becomes(rows) ==
    /\ admin' = rows
    /\ past' = past \cup {[rows |-> admin, until |-> now]}

\* What a query may be shown: without the split always the rows as they are.
Shown == {admin} \cup {p.rows : p \in past}

----------------------------------------------------------------------------
(* The world outside *)

\* Variant: profiles do not expire.
ExpiredNever(profile, t) == FALSE

Expired(profile, t) == profile.until <= t /\ profile.row # Nobody

\* Time passes; no request outlives its context.
Wait ==
    /\ now < MaxNow /\ \A q \in Lookups : Asking(q) => now < ask[q].from + Timeout
    /\ now' = now + 1
    /\ past' = {p \in past : p.until >= now + 1 - Lag}
    /\ cache' = [s \in Accounts |-> IF Expired(cache[s], now + 1) THEN NoProfile ELSE cache[s]]
    /\ enabledAt' = [a \in Admins |-> IF Enabled(a) THEN now + 1 ELSE enabledAt[a]]
    /\ heldAt' = [a \in Admins |-> [c \in Codes |->
                     IF c \in admin[a].roles THEN now + 1 ELSE heldAt[a][c]]]
    /\ UNCHANGED <<admin, ask, changes>>

\* Update, Delete (the row stays, and with it its subject) and ReplaceRoles
Alter(a) ==
    /\ Change
    /\ \/ Becomes([admin EXCEPT ![a].enabled = ~@])
       \/ ~admin[a].deleted /\ Becomes([admin EXCEPT ![a].deleted = TRUE])
       \/ \E roles \in SUBSET Codes : Becomes([admin EXCEPT ![a].roles = roles])
    /\ enabledAt' = [enabledAt EXCEPT ![a] = IF Enabled(a)' THEN now ELSE @]
    /\ heldAt' = [heldAt EXCEPT ![a] =
                    [c \in Codes |-> IF c \in admin'[a].roles THEN now ELSE @[c]]]
    /\ UNCHANGED <<now, cache, ask>>

\* Redis loses a profile, or has something under its key that is none.
Spoil(s) ==
    /\ Change /\ cache' = [cache EXCEPT ![s] = Corrupt]
    /\ UNCHANGED <<now, admin, past, ask, enabledAt, heldAt>>

----------------------------------------------------------------------------
(* GetAdminInfo *)

\* It is over: what the answer does not need is forgotten.
Refuse(q) == ask' = [ask EXCEPT ![q] = [NoRequest EXCEPT !.step = "refused"]]
ServeProfile(q, row, code) ==
    ask' = [ask EXCEPT ![q] = [NoRequest EXCEPT !.step = "served", !.subject = ask[q].subject,
                                                !.row = row, !.code = code, !.from = now]]

Arrive(q, s, name) ==
    /\ ask[q].step = "idle"
    /\ ask' = [ask EXCEPT ![q].step = "cache", ![q].subject = s, ![q].name = name, ![q].from = now]
    /\ UNCHANGED <<rest, changes>>

\* profileFromCache
ReadCache(q) ==
    /\ ask[q].step = "cache"
    /\ LET profile == cache[ask[q].subject] IN
       \/ profile.row # Nobody /\ ServeProfile(q, profile.row, profile.code)
       \/ profile = NoProfile /\ ask' = [ask EXCEPT ![q].step = "subject"]
       \/ profile = Corrupt /\ ask' = [ask EXCEPT ![q].step = "drop"]
    /\ UNCHANGED <<rest, changes>>

\* deleteProfileCache
DropCache(q) ==
    /\ ask[q].step = "drop"
    /\ ask' = [ask EXCEPT ![q].step = "subject"]
    /\ cache' = [cache EXCEPT ![ask[q].subject] = NoProfile]
    /\ UNCHANGED <<now, admin, past, enabledAt, heldAt, changes>>

\* FindByKeycloakSubject, the row; again after a failed binding
FindBySubject(q) ==
    /\ ask[q].step \in {"subject", "again"}
    /\ \E rows \in Shown :
         LET Bound == {a \in Admins : rows[a].subject = ask[q].subject /\ ~rows[a].deleted} IN
         \/ \E a \in Bound :
              ask' = [ask EXCEPT ![q].step = "roles", ![q].row = a, ![q].enabled = rows[a].enabled]
         \/ Bound = {} /\ ask[q].step = "subject" /\ ask' = [ask EXCEPT ![q].step = "name"]
         \/ Bound = {} /\ ask[q].step = "again" /\ Refuse(q)
    /\ UNCHANGED <<rest, changes>>

\* FindByUsername, the row
FindByName(q) ==
    LET a == ask[q].name IN
    /\ ask[q].step = "name"
    /\ \E rows \in Shown :
         IF rows[a].deleted \/ rows[a].subject # Nobody
         THEN Refuse(q)
         ELSE ask' = [ask EXCEPT ![q].step = "unbound", ![q].row = a,
                                 ![q].enabled = rows[a].enabled]
    /\ UNCHANGED <<rest, changes>>

\* selectLoginRoleValues
Selected(roles) == IF "super_admin" \in roles THEN "super_admin"
                   ELSE IF "admin" \in roles THEN "admin" ELSE ""

\* The row is enabled and has a role, so its profile is stored and returned.
Judge(entry) == IF entry.enabled /\ entry.code # "" THEN [entry EXCEPT !.step = "store"]
                ELSE [NoRequest EXCEPT !.step = "refused"]

\* The preload of the roles is a query of its own, at a replica of its own.
ReadRoles(q) ==
    /\ ask[q].step \in {"roles", "unbound"}
    /\ \E rows \in Shown :
         LET entry == [ask[q] EXCEPT !.code = Selected(rows[ask[q].row].roles)] IN
         ask' = [ask EXCEPT ![q] = IF ask[q].step = "roles" THEN Judge(entry)
                                   ELSE [entry EXCEPT !.step = "bind"]]
    /\ UNCHANGED <<rest, changes>>

\* Variant: the update does not look for a subject that is there.
FreeRegardless(a, s) == ~admin[a].deleted /\ \A b \in Admins : admin[b].subject # s

\* The row has no subject, and no row, deleted or not, has this one.
Free(a, s) ==
    /\ ~admin[a].deleted /\ admin[a].subject = Nobody
    /\ \A b \in Admins : admin[b].subject # s

\* BindKeycloakSubject
BindSubject(q) ==
    LET a == ask[q].row  s == ask[q].subject IN
    /\ ask[q].step = "bind"
    /\ IF Free(a, s)
       THEN Becomes([admin EXCEPT ![a].subject = s]) /\ ask' = [ask EXCEPT ![q] = Judge(@)]
       ELSE ask' = [ask EXCEPT ![q].step = "again"] /\ UNCHANGED <<admin, past>>
    /\ UNCHANGED <<now, cache, enabledAt, heldAt, changes>>

\* cacheProfile
CacheProfile(q) ==
    /\ ask[q].step = "store"
    /\ cache' = [cache EXCEPT ![ask[q].subject] =
                   [row |-> ask[q].row, code |-> ask[q].code, until |-> now + TTL]]
    /\ ServeProfile(q, ask[q].row, ask[q].code)
    /\ UNCHANGED <<now, admin, past, enabledAt, heldAt, changes>>

\* A call fails: the cache is passed over, a failed binding is looked into
\* (it may have been done), another query's error is returned.
CallFails(q) ==
    /\ Change
    /\ \/ ask[q].step \in {"cache", "drop"} /\ ask' = [ask EXCEPT ![q].step = "subject"]
          /\ UNCHANGED <<admin, past>>
       \/ ask[q].step \in {"subject", "again", "name", "roles", "unbound"}
          /\ Refuse(q) /\ UNCHANGED <<admin, past>>
       \/ ask[q].step = "bind" /\ ask' = [ask EXCEPT ![q].step = "again"]
          /\ \/ UNCHANGED <<admin, past>>
             \/ Free(ask[q].row, ask[q].subject)
                /\ Becomes([admin EXCEPT ![ask[q].row].subject = ask[q].subject])
       \/ ask[q].step = "store" /\ ServeProfile(q, ask[q].row, ask[q].code)
          /\ UNCHANGED <<admin, past>>
    /\ UNCHANGED <<now, cache, enabledAt, heldAt>>

ProfilesNext ==
    \/ Wait \/ \E a \in Admins : Alter(a) \/ \E s \in Accounts : Spoil(s)
    \/ \E q \in Lookups :
         \/ \E s \in Accounts, name \in Admins : Arrive(q, s, name)
         \/ ReadCache(q) \/ DropCache(q) \/ FindBySubject(q) \/ FindByName(q)
         \/ ReadRoles(q) \/ BindSubject(q) \/ CacheProfile(q) \/ CallFails(q)

ProfilesSpec == ProfilesInit /\ [][ProfilesNext]_profileVars

----------------------------------------------------------------------------
(* Properties *)

AdminRow == [subject : Accounts \cup {Nobody}, enabled : BOOLEAN, deleted : BOOLEAN,
             roles : SUBSET Codes]
Profile == [row : Admins \cup {Nobody}, code : Codes \cup {"", "corrupt"}, until : Nat]
Inquiry == [step : {"idle", "cache", "drop", "subject", "again", "name", "unbound",
                    "roles", "bind", "store", "served", "refused"},
            subject : Accounts \cup {Nobody}, name : Admins \cup {Nobody},
            row : Admins \cup {Nobody}, enabled : BOOLEAN, code : Codes \cup {""}, from : Nat]

\* Rows, profiles and requests have the fields of their types (model/admin.go,
\* service/admin_profile.go:18).
ProfileTypes ==
    /\ now \in Nat /\ changes \in 0 .. Changes
    /\ admin \in [Admins -> AdminRow] /\ cache \in [Accounts -> Profile]
    /\ past \subseteq [rows : [Admins -> AdminRow], until : Nat]
    /\ ask \in [Lookups -> Inquiry]
    /\ enabledAt \in [Admins -> Nat] /\ heldAt \in [Admins -> [Codes -> Nat]]

\* Whoever is served a profile, from the cache or not, is served that of the row
\* that is bound to him, though two who claim one name race for it, and keeps it
\* (repository/admin.go:87, get_admin_info.go:119).
ServedIsMine ==
    \A q \in Lookups : ask[q].step = "served" => admin[ask[q].row].subject = ask[q].subject

\* A profile is served only of a row that was enabled, and with a role that it
\* had, less than the life of a cached profile, of a request and the delay of a
\* replica ago: nothing else makes an administrator's loss of a role wait
\* (get_admin_info.go:158, :297, databases.go:39).
StaleForAtMost ==
    \A q \in Lookups : ask[q].step = "served" /\ ask[q].from = now =>
        /\ enabledAt[ask[q].row] > now - (TTL + Timeout + Lag)
        /\ heldAt[ask[q].row][ask[q].code] > now - (TTL + Timeout + Lag)
=============================================================================
