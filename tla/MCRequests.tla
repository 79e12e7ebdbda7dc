----------------------------- MODULE MCRequests -----------------------------
(***************************************************************************)
(* Concurrent requests at the services, for TLC: the transaction queries   *)
(* of web3 next to its scanners, balances, first logins at user, profiles  *)
(* at admin, and the rate limiter in front of them.  They share no         *)
(* variable, so each is explored with the others at rest: part says which  *)
(* one moves.                                                              *)
(***************************************************************************)
EXTENDS MCTransactionIndex, UserAccounts, AdminProfiles, SlidingWindow,
        BalanceQueries

VARIABLE part

allVars == <<vars, accountVars, profileVars, windowVars, balanceVars, part>>

R(limit, window, enabled, failClosed) ==
    [limit |-> limit, window |-> window, enabled |-> enabled, failClosed |-> failClosed]
MCRules == {R(1, 4, TRUE, TRUE), R(2, 4, TRUE, FALSE), R(1, 4, FALSE, TRUE)}
MCNodes == {0}

RequestsInit ==
    /\ Init /\ AccountsInit /\ ProfilesInit /\ WindowInit /\ BalanceInit
    /\ part \in {"index", "accounts", "profiles", "window", "balances"}
    /\ part # "index" => \A w \in Wallets : since[w] = None
    /\ part # "accounts" => ~replicas /\ \A n \in Nodes : clock[n] = 0
    /\ part # "profiles" => \A a \in Admins : admin[a].roles = {}
    /\ part # "window" => ~rule.enabled

\* While a query runs, one of the transactions is not mined: a query asks for one
\* of them, and the scanners take them one by one.
OneAtATime == query = [q \in Queries |-> Done] \/ \E t \in Txs : minedAt[t] = 0

Index(A) == part = "index" /\ A /\ UNCHANGED <<accountVars, profileVars, windowVars, balanceVars>>
Users(A) == part = "accounts" /\ A /\ UNCHANGED <<vars, profileVars, windowVars, balanceVars>>
Profiles(A) == part = "profiles" /\ A /\ UNCHANGED <<vars, accountVars, windowVars, balanceVars>>
Window(A) == part = "window" /\ A /\ UNCHANGED <<vars, accountVars, profileVars, balanceVars>>
Balances(A) == part = "balances" /\ A /\ UNCHANGED <<vars, accountVars, profileVars, windowVars>>

RequestsNext ==
    /\ UNCHANGED part
    /\ Index(Next /\ OneAtATime') \/ Users(AccountsNext) \/ Profiles(ProfilesNext)
       \/ Window(WindowNext) \/ Balances(BalanceNext)

RequestsSpec == RequestsInit /\ [][RequestsNext]_allVars

\* So are the subjects of the administrators.
Interchangeable == Instances \cup Permutations(Accounts)

\* All that distinguishes two states.
Moving == <<part, CASE part = "index" -> vars [] part = "accounts" -> accountVars
             [] part = "profiles" -> profileVars [] part = "window" -> windowVars
             [] OTHER -> balanceVars>>
=============================================================================
