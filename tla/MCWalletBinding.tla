-------------------------- MODULE MCWalletBinding --------------------------
(* WalletBinding on small instances: the constants of the .cfg files, and   *)
(* the symmetry and the constraint of the safety runs.                      *)
EXTENDS WalletBinding, TLC

MCAllOps == AllOps
MCBindOps  == {"createNonce", "bind", "unbind"}
MCNoLabel == AllOps \ {"label"}

\* Users, accounts, calls and ids are interchangeable: nothing orders them.
Symmetry == Permutations(Users) \cup Permutations(Accounts)
            \cup Permutations(Calls) \cup Permutations(NonceIds)

\* The users and accounts that a challenge, a wallet or a request names.
Drawn == {n \in NonceIds : ~Fresh(n)}
Busy  == {c \in Calls : pc[c] # "idle"}
Held  == {a \in Accounts : Bound(a)}

Cast     == {challenge[n].user : n \in Drawn} \cup {arg[c].user : c \in Busy}
            \cup {wallets[a].owner : a \in Held}
Disputed == {challenge[n].account : n \in Drawn} \cup {arg[c].account : c \in Busy} \cup Held

\* CONSTRAINT: the union of two smaller instances.  One user has all accounts and
\* challenges at one time, or all users race for one account with two challenges
\* that may expire.
OneAlone ==
    \/ Cardinality(Cast) <= 1 /\ now = 0
    \/ Cardinality(Disputed) <= 1 /\ Cardinality(Drawn) <= 2
=============================================================================
