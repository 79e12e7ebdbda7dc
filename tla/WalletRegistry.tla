--------------------------- MODULE WalletRegistry --------------------------
(***************************************************************************)
(* What the wallet operations of the Web3 service promise, as atomic       *)
(* operations: who owns an account, which accounts are bound at present,   *)
(* and which of them is the owner's default.  WalletBinding implements it  *)
(* statement by statement.                                                 *)
(***************************************************************************)
CONSTANTS Users, Accounts, None

VARIABLES
  owner,    \* owner[a]: the user that bound a first, or None
  active,   \* the accounts that are bound at present
  default   \* default[u]: u's default account, or None

vars == <<owner, active, default>>

Init ==
  /\ owner = [a \in Accounts |-> None]
  /\ active = {}
  /\ default = [u \in Users |-> None]

\* The wallet of a verified bind becomes the default, or not, when no other
\* wallet is; the default of another wallet stays where it is.
MayBecomeDefault(a, u) ==
  IF default[u] \in {None, a}
    THEN \E d \in {None, a} : default' = [default EXCEPT ![u] = d]
    ELSE UNCHANGED default

Bind(a, u) ==
  /\ owner[a] = None
  /\ owner' = [owner EXCEPT ![a] = u]
  /\ active' = active \cup {a}
  /\ MayBecomeDefault(a, u)

\* The owner binds the account again, whether or not it was unbound.
Rebind(a, u) ==
  /\ owner[a] = u
  /\ active' = active \cup {a}
  /\ MayBecomeDefault(a, u)
  /\ UNCHANGED owner

\* A default that is unbound passes to another active wallet of the owner.
Unbind(a, u) ==
  LET others == {b \in active : owner[b] = u} \ {a}
  IN /\ owner[a] = u /\ a \in active
     /\ active' = active \ {a}
     /\ IF default[u] = a
          THEN \E d \in IF others = {} THEN {None} ELSE others :
                 default' = [default EXCEPT ![u] = d]
          ELSE UNCHANGED default
     /\ UNCHANGED owner

SetDefault(a, u) ==
  /\ owner[a] = u /\ a \in active
  /\ default' = [default EXCEPT ![u] = a]
  /\ UNCHANGED <<owner, active>>

UnsetDefault(u) ==
  /\ default' = [default EXCEPT ![u] = None]
  /\ UNCHANGED <<owner, active>>

Next == \E u \in Users :
  \/ UnsetDefault(u)
  \/ \E a \in Accounts : Bind(a, u) \/ Rebind(a, u) \/ Unbind(a, u) \/ SetDefault(a, u)

Spec == Init /\ [][Next]_vars
=============================================================================
