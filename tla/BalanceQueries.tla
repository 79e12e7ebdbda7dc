--------------------------- MODULE BalanceQueries ---------------------------
(***************************************************************************)
(* The balance of a token in a wallet: GetBalance                          *)
(* (web3/internal/service/balance.go) over the RPC nodes of its chain,     *)
(* which Execute asks in turn (web3/internal/blockchain/client.go).        *)
(*                                                                         *)
(* The nodes and Redis are external.  Nodes may disagree, so an answer is  *)
(* told apart by the node it comes from.  The native balance is the first  *)
(* of the three parts alone.                                               *)
(***************************************************************************)
EXTENDS Integers

CONSTANTS
    NodeCount,    \* RPC nodes of the pool
    Attempts,     \* retryCount + 1
    Askers,       \* requests
    RpcFaults     \* bound: calls of a node that fail

ASSUME BalanceAssumption ==
    NodeCount \in Nat \ {0} /\ Attempts \in Nat \ {0} /\ RpcFaults \in Nat

VARIABLES
    active,       \* the wallet is bound and active
    next,         \* the pool's counter, of which only the remainder matters
    balance,      \* where each request stands
    cached,       \* the cached answer
    rpcFaults     \* bound left

balanceVars == <<active, next, balance, cached, rpcFaults>>

RpcNodes == 0 .. NodeCount - 1
Parts == {"balance", "decimals", "symbol"}
Unread == [p \in Parts |-> -1]
Order == [balance |-> "decimals", decimals |-> "symbol", symbol |-> "done"]

NewAsker == [step |-> "idle", start |-> 0, attempt |-> 0, part |-> "balance", got |-> Unread]

BalanceInit ==
    /\ active = TRUE /\ next = 0 /\ cached = Unread /\ rpcFaults = RpcFaults
    /\ balance = [q \in Askers |-> NewAsker]

\* Somebody unbinds the wallet, or binds it again.
FlipWallet ==
    /\ active' = ~active /\ UNCHANGED <<next, balance, cached, rpcFaults>>

\* The cached answer's time is over, or Redis has lost it.
Forget ==
    /\ cached # Unread /\ cached' = Unread
    /\ UNCHANGED <<active, next, balance, rpcFaults>>

\* GetBalance, to the wallet: only the caller's active one
FindWallet(q) ==
    /\ balance[q].step = "idle"
    /\ balance' = [balance EXCEPT ![q].step = IF active THEN "cache" ELSE "refused"]
    /\ UNCHANGED <<active, next, cached, rpcFaults>>

\* cached: a hit is answered; a miss, or a failing Redis, begins Execute.
LookUp(q) ==
    /\ balance[q].step = "cache"
    /\ \/ /\ cached # Unread
          /\ balance' = [balance EXCEPT ![q].step = "served", ![q].got = cached]
          /\ UNCHANGED next
       \/ /\ next' = (next + 1) % NodeCount
          /\ balance' = [balance EXCEPT ![q].step = "call", ![q].start = next]
    /\ UNCHANGED <<active, cached, rpcFaults>>

NodeOf(q) == (balance[q].start + balance[q].attempt) % NodeCount

\* A call of the operation is answered.
Reply(q) ==
    /\ balance[q].step = "call"
    /\ LET part == balance[q].part IN
       balance' = [balance EXCEPT ![q].got[part] = NodeOf(q),
                                  ![q].part = IF Order[part] = "done" THEN part ELSE Order[part],
                                  ![q].step = IF Order[part] = "done" THEN "store" ELSE "call"]
    /\ UNCHANGED <<active, next, cached, rpcFaults>>

\* Variant: an attempt goes on where the last one failed.
FromThePart(q) == balance[q].part

\* Each attempt runs the operation from its beginning.
FirstPart(q) == "balance"

\* It fails, or its timeout has passed: the next node, while attempts are left.
CallErr(q) ==
    /\ balance[q].step = "call" /\ rpcFaults > 0 /\ rpcFaults' = rpcFaults - 1
    /\ balance' = [balance EXCEPT
         ![q].step = IF balance[q].attempt + 1 = Attempts THEN "exhausted" ELSE "call",
         ![q].attempt = @ + 1, ![q].part = FirstPart(q)]
    /\ UNCHANGED <<active, next, cached>>

\* The caller's context ends between two attempts.
GiveUpCall(q) ==
    /\ balance[q].step = "call" /\ balance[q].part = "balance"
    /\ balance' = [balance EXCEPT ![q].step = "cancelled"]
    /\ UNCHANGED <<active, next, cached, rpcFaults>>

\* storeCache, whose error is ignored
StoreBalance(q) ==
    /\ balance[q].step = "store"
    /\ balance' = [balance EXCEPT ![q].step = "served"]
    /\ cached' \in {cached, balance[q].got}
    /\ UNCHANGED <<active, next, rpcFaults>>

BalanceNext ==
    \/ FlipWallet \/ Forget
    \/ \E q \in Askers :
         \/ FindWallet(q) \/ LookUp(q) \/ Reply(q) \/ CallErr(q)
         \/ GiveUpCall(q) \/ StoreBalance(q)

BalanceSpec == BalanceInit /\ [][BalanceNext]_balanceVars

----------------------------------------------------------------------------
(* Properties *)

\* The counter is in range and a request has what its step needs
\* (blockchain/client.go:44, service/balance.go:52).
BalanceTypes ==
    /\ active \in BOOLEAN /\ next \in RpcNodes /\ rpcFaults \in 0 .. RpcFaults
    /\ cached \in [Parts -> RpcNodes \cup {-1}]
    /\ balance \in [Askers -> [step : {"idle", "cache", "call", "store", "served", "refused",
                                       "exhausted", "cancelled"},
                               start : RpcNodes, attempt : 0 .. Attempts, part : Parts,
                               got : [Parts -> RpcNodes \cup {-1}]]]

\* The parts of an answer, cached or not, are all there and come from one node: a
\* balance is never shown with the decimals that another node has for the token,
\* after whatever failures (service/balance.go:176).
OneNode ==
    \A q \in Askers : balance[q].step = "served" =>
        \E n \in RpcNodes : \A p \in Parts : balance[q].got[p] = n
=============================================================================
