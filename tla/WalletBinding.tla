--------------------------- MODULE WalletBinding ---------------------------
(***************************************************************************)
(* Wallet binding of the Web3 service: the one-time signing challenges of  *)
(* internal/wallet/nonce.go (Redis), the handlers of                       *)
(* internal/service/wallet.go and the transactions of                      *)
(* internal/repository/wallet.go (PostgreSQL, READ COMMITTED).             *)
(*                                                                         *)
(* A call is one gRPC handler goroutine; each of its database statements   *)
(* and Redis commands is a step, so calls interleave between any two.      *)
(* Simplifications:                                                        *)
(*  - An account stands for a (chain_id, checksummed address) pair. The    *)
(*    unique index uk_wallet_chain_address and the absence of any DELETE   *)
(*    make it stand for the wallet ID as well.                             *)
(*  - Labels, wallet IDs and message texts are left out. Requests that     *)
(*    fail validation before the first statement change nothing and are    *)
(*    left out too.                                                        *)
(*  - The last writing statement of a transaction and its commit are one   *)
(*    step: nobody can read the rows in between, and writers wait for the  *)
(*    row locks just as they would a moment earlier.                       *)
(*  - The partial index uk_wallets_user_default (cmd/migrate) is left out: *)
(*    AtMostOneDefault holds without it, so it never rejects a write.      *)
(*  - The expiry of a Redis key runs on the clock of Redis, and a restart  *)
(*    can lose keys: a challenge may disappear at any time (Evict). It     *)
(*    never comes back.                                                    *)
(***************************************************************************)
EXTENDS Naturals, FiniteSets

CONSTANTS
  Users,     \* Keycloak subjects
  Accounts,  \* (chain_id, address) pairs
  Calls,     \* slots for concurrent handler goroutines
  NonceIds,  \* challenge ids that randomHex(16) can draw
  None,      \* "no such row, record, holder or value"
  Ops,       \* the operations clients use in this instance
  TTL,       \* wallet_signature.nonce_ttl, in ticks
  MaxTime    \* bound on the service clock

AllOps == {"createNonce", "bind", "unbind", "label", "setDefault", "unsetDefault"}

ASSUME OpsAssumption  == Ops \subseteq AllOps
ASSUME TimeAssumption == TTL \in Nat \ {0} /\ MaxTime \in Nat

VARIABLES
  now,        \* service clock
  challenge,  \* challenge[n]: what Create stored under n, and whether Redis still has it
  wallets,    \* wallets[a]: the row of account a in table wallets, or None
  ownerLock,  \* ownerLock[u]: the call whose transaction holds u's advisory lock
  rowLock,    \* rowLock[a]: the call whose transaction holds a FOR UPDATE lock on a's row
  pc,         \* pc[c]: the next statement of call c
  arg,        \* arg[c]: the request of call c
  mem,        \* mem[c]: the handler's local variables
  uses,       \* history: how many wallet rows were written on the strength of n
  witness     \* history: during c, c's account was an active wallet of c's user

vars == <<now, challenge, wallets, ownerLock, rowLock, pc, arg, mem, uses, witness>>

-----------------------------------------------------------------------------
(* Types *)

Row == [owner: Users, active: BOOLEAN, isDefault: BOOLEAN, createdAt: Nat, proof: NonceIds]

Challenge == [user: Users, account: Accounts, expiresAt: Nat, live: BOOLEAN]

\* What a client asks for; "signed" says whether the signature it sends
\* recovers to the address it names.  "want" is the optional is_default.
Request ==
       [op: {"createNonce", "unbind"}, user: Users, account: Accounts,
        nonce: {None}, signed: {FALSE}, label: {FALSE}, want: {"keep"}]
  \cup [op: {"bind"}, user: Users, account: Accounts,
        nonce: NonceIds, signed: BOOLEAN, label: {FALSE}, want: {"keep"}]
  \cup [op: {"update"}, user: Users, account: Accounts,
        nonce: {None}, signed: {FALSE}, label: BOOLEAN, want: {"keep", "set", "unset"}]

Local == [at: Nat, tries: 0..2, hasDefault: BOOLEAN, target: Accounts \cup {None}]

ASSUME NoneAssumption ==
  None \notin Users \cup Accounts \cup Calls \cup NonceIds \cup Row \cup Challenge

Blank == [at |-> 0, tries |-> 0, hasDefault |-> FALSE, target |-> None]

CreateSteps == {"createLock", "createCount", "createWrite"}
Steps ==
  CreateSteps \cup
  {"idle", "draw", "consume", "find", "winner", "reread", "ok", "failed",
   "reactivateLock", "reactivateCount", "reactivateWrite",
   "disableLock", "disableSelect", "disableReplace", "disableWrite",
   "label", "setLock", "setSelect", "setWrite", "unset"}

TypeOK ==
  /\ now \in Nat
  /\ challenge \in [NonceIds -> Challenge \cup {None}]
  /\ wallets \in [Accounts -> Row \cup {None}]
  /\ ownerLock \in [Users -> Calls \cup {None}]
  /\ rowLock \in [Accounts -> Calls \cup {None}]
  /\ pc \in [Calls -> Steps]
  /\ arg \in [Calls -> Request \cup {None}]
  /\ \A c \in Calls : pc[c] # "idle" => arg[c] \in Request
  /\ mem \in [Calls -> Local]
  /\ uses \in [NonceIds -> Nat]
  /\ witness \in [Calls -> BOOLEAN]

-----------------------------------------------------------------------------
(* Helpers *)

Bound(a)        == wallets[a] # None
ActiveOf(a, u)  == Bound(a) /\ wallets[a].owner = u /\ wallets[a].active
DefaultOf(a, u) == ActiveOf(a, u) /\ wallets[a].isDefault

\* The WHERE clause of both default counts: user_subject, status, is_default.
HasDefault(u) == \E a \in Accounts : DefaultOf(a, u)

\* The requests of the operations this instance uses.
Requests ==
  {r \in Request :
     \/ r.op # "update" /\ r.op \in Ops
     \/ /\ r.op = "update"
        /\ r.label => "label" \in Ops
        /\ r.want = "set" => "setDefault" \in Ops
        /\ r.want = "unset" => "unsetDefault" \in Ops
        /\ r.label \/ r.want # "keep"}

\* Where a handler starts, and what UpdateWallet does about the default.
AfterLabel == [keep |-> "reread", set |-> "setLock", unset |-> "unset"]
OpStart    == [createNonce |-> "draw", bind |-> "consume", unbind |-> "disableLock"]

FirstStep(r) ==
  IF r.label THEN "label"
  ELSE IF r.op = "update" THEN AfterLabel[r.want] ELSE OpStart[r.op]

\* What a transaction does once it holds the lock, and once it has counted.
AfterLock  == [createLock |-> "createCount", reactivateLock |-> "reactivateCount",
               disableLock |-> "disableSelect", setLock |-> "setSelect"]
AfterCount == [createCount |-> "createWrite", reactivateCount |-> "reactivateWrite"]

\* An id that was never drawn: 128 random bits do not repeat a spent id.
Fresh(n) == challenge[n] = None

\* Bound: a draw begins only while there is a fresh id left for it.
EnoughNonces ==
  Cardinality({c \in Calls : pc[c] = "draw"}) < Cardinality({n \in NonceIds : Fresh(n)})

Goto(c, step) == pc' = [pc EXCEPT ![c] = step]

\* pg_advisory_xact_lock waits until the transaction that holds it ends.
NoOwnerLock(c)   == UNCHANGED ownerLock                       \* variant: the lock is not taken
TakeOwnerLock(c) == /\ ownerLock[arg[c].user] = None
                    /\ ownerLock' = [ownerLock EXCEPT ![arg[c].user] = c]

\* Commit and rollback release the advisory lock and the row locks.
ReleaseRowLocks(c) == rowLock' = [a \in Accounts |-> IF rowLock[a] = c THEN None ELSE rowLock[a]]
KeepOwnerLock(c) == ReleaseRowLocks(c) /\ UNCHANGED ownerLock  \* variant: a session-level lock
ReleaseLocks(c)  ==
  /\ ownerLock' = [u \in Users |-> IF ownerLock[u] = c THEN None ELSE ownerLock[u]]
  /\ ReleaseRowLocks(c)

\* A statement that writes or locks the row waits for another holder.
RowFree(a, c) == rowLock[a] \in {None, c}

\* History: n has authorised a write that makes a an active wallet of u, which
\* every bind of a by u that is under way witnesses.
Record(a, u, n) ==
  /\ uses' = [uses EXCEPT ![n] = @ + 1]
  /\ witness' = [c \in Calls |->
       \/ witness[c]
       \/ pc[c] # "idle" /\ arg[c].op = "bind" /\ arg[c].account = a /\ arg[c].user = u]

\* What a transaction leaves alone when it only takes or reads something.
DataUnchanged  == UNCHANGED <<now, challenge, wallets, uses, witness>>
LocksUnchanged == UNCHANGED <<ownerLock, rowLock>>

-----------------------------------------------------------------------------
(* Init *)

Init ==
  /\ now = 0
  /\ challenge = [n \in NonceIds |-> None]
  /\ wallets = [a \in Accounts |-> None]
  /\ ownerLock = [u \in Users |-> None]
  /\ rowLock = [a \in Accounts |-> None]
  /\ pc = [c \in Calls |-> "idle"]
  /\ arg = [c \in Calls |-> None]
  /\ mem = [c \in Calls |-> Blank]
  /\ uses = [n \in NonceIds |-> 0]
  /\ witness = [c \in Calls |-> FALSE]

(* A client's request reaches a handler.  Create reads the clock first.    *)
Call(c, r) ==
  /\ pc[c] = "idle"
  /\ r.op = "createNonce" => EnoughNonces
  /\ r.op = "bind" => ~Fresh(r.nonce)
  /\ Goto(c, FirstStep(r))
  /\ arg' = [arg EXCEPT ![c] = r]
  /\ mem' = [mem EXCEPT ![c].at = IF r.op = "createNonce" THEN now ELSE 0]
  /\ witness' = [witness EXCEPT ![c] = r.op = "bind" /\ ActiveOf(r.account, r.user)]
  /\ UNCHANGED <<now, challenge, wallets, uses>> /\ LocksUnchanged

(* The response leaves the handler.                                        *)
Return(c) ==
  /\ pc[c] \in {"ok", "failed"}
  /\ Goto(c, "idle")
  /\ arg' = [arg EXCEPT ![c] = None]
  /\ mem' = [mem EXCEPT ![c] = Blank]
  /\ witness' = [witness EXCEPT ![c] = FALSE]
  /\ UNCHANGED <<now, challenge, wallets, uses>> /\ LocksUnchanged

-----------------------------------------------------------------------------
(* CreateBindingNonce: NonceStore.Create                                   *)

\* SetNX succeeds: the id was free.
StoreChallenge(c, n) ==
  /\ pc[c] = "draw"
  /\ Fresh(n)
  /\ challenge' = [challenge EXCEPT ![n] =
       [user |-> arg[c].user, account |-> arg[c].account,
        expiresAt |-> mem[c].at + TTL, live |-> TRUE]]
  /\ Goto(c, "ok")
  /\ UNCHANGED <<now, wallets, uses, witness, arg, mem>> /\ LocksUnchanged

\* SetNX fails: the id is in use; at most three attempts.
Retry(tries) == tries < 2

CollideChallenge(c, n) ==
  /\ pc[c] = "draw"
  /\ ~Fresh(n) /\ challenge[n].live
  /\ IF Retry(mem[c].tries)
       THEN /\ mem' = [mem EXCEPT ![c].tries = @ + 1]
            /\ UNCHANGED pc
       ELSE Goto(c, "failed") /\ UNCHANGED mem
  /\ UNCHANGED arg /\ DataUnchanged /\ LocksUnchanged

(* BindWallet: NonceStore.Consume, then the checks that read no state.     *)

\* GETDEL removes the record whatever the checks say afterwards.
GetOnly(n) == UNCHANGED challenge                             \* variant: the record stays
GetDel(n)  == challenge' = [challenge EXCEPT ![n].live = FALSE]

\* The record was still there, is the caller's, has not expired, names the
\* address of the request, and its text was signed with that address's key.
AcceptsAnyUser(ch, r) == ch.live /\ now < ch.expiresAt /\ ch.account = r.account /\ r.signed
Accepts(ch, r) == AcceptsAnyUser(ch, r) /\ ch.user = r.user

Consume(c) ==
  LET r == arg[c]
  IN /\ pc[c] = "consume"
     /\ GetDel(r.nonce)
     /\ Goto(c, IF Accepts(challenge[r.nonce], r) THEN "find" ELSE "failed")
     /\ UNCHANGED <<now, wallets, uses, witness, arg, mem>> /\ LocksUnchanged

\* What BindWallet does with the row that FindByChainAddress returned.
AfterFindAnyStatus(a, u) ==                                   \* variant: status ignored
  IF ~Bound(a) THEN "createLock" ELSE IF wallets[a].owner = u THEN "ok" ELSE "failed"
AfterFind(a, u) ==
  CASE ~Bound(a)             -> "createLock"
    [] ActiveOf(a, u)        -> "ok"
    [] OTHER                 -> IF wallets[a].owner = u THEN "reactivateLock" ELSE "failed"

\* FindByChainAddress, outside any transaction: the row may change before it is used.
Find(c) ==
  /\ pc[c] = "find"
  /\ Goto(c, AfterFind(arg[c].account, arg[c].user))
  /\ mem' = [mem EXCEPT ![c].at = IF Bound(arg[c].account) THEN 0 ELSE now]
  /\ UNCHANGED arg /\ DataUnchanged /\ LocksUnchanged

-----------------------------------------------------------------------------
(* The transactions of WalletRepository                                    *)

\* Every transaction starts with lockWalletOwner.
LockOwner(c) ==
  /\ pc[c] \in DOMAIN AfterLock
  /\ TakeOwnerLock(c)
  /\ Goto(c, AfterLock[pc[c]])
  /\ UNCHANGED <<rowLock, arg, mem>> /\ DataUnchanged

\* SELECT count(*) of the active defaults, in CreateBoundWallet and Reactivate.
CountDefaults(c) ==
  /\ pc[c] \in DOMAIN AfterCount
  /\ mem' = [mem EXCEPT ![c].hasDefault = HasDefault(arg[c].user)]
  /\ Goto(c, AfterCount[pc[c]])
  /\ UNCHANGED arg /\ DataUnchanged /\ LocksUnchanged

\* SELECT ... FOR UPDATE of the caller's active wallet, in Disable and SetDefault.
SelectForUpdate(c) ==
  LET a == arg[c].account
  IN /\ pc[c] \in {"disableSelect", "setSelect"}
     /\ RowFree(a, c)
     /\ IF ActiveOf(a, arg[c].user)
          THEN /\ rowLock' = [rowLock EXCEPT ![a] = c]
               /\ UNCHANGED ownerLock
               /\ Goto(c, IF pc[c] = "setSelect" THEN "setWrite"
                          ELSE IF wallets[a].isDefault THEN "disableReplace" ELSE "disableWrite")
          ELSE Goto(c, "failed") /\ ReleaseLocks(c)
     /\ UNCHANGED <<arg, mem>> /\ DataUnchanged

(* CreateBoundWallet *)

\* The unique index uk_wallet_chain_address rejects a second row of the account.
NoConflict(a) == FALSE                                        \* variant: no such index
Conflict(a)   == Bound(a)

\* INSERT and COMMIT;
\* the answer to a commit that went through may get lost as well.
CreateWrite(c) ==
  LET a == arg[c].account
      n == arg[c].nonce
  IN /\ pc[c] = "createWrite"
     /\ IF Conflict(a)
          THEN Goto(c, "winner") /\ UNCHANGED <<wallets, uses, witness>>
          ELSE /\ wallets' = [wallets EXCEPT ![a] =
                    [owner |-> arg[c].user, active |-> TRUE,
                     isDefault |-> ~mem[c].hasDefault,
                     createdAt |-> mem[c].at, proof |-> n]]
               /\ Record(a, arg[c].user, n)
               /\ \E answered \in BOOLEAN : Goto(c, IF answered THEN "ok" ELSE "winner")
     /\ mem' = [mem EXCEPT ![c] = Blank]
     /\ ReleaseLocks(c)
     /\ UNCHANGED <<now, challenge, arg>>

(* Reactivate *)

\* UPDATE ... WHERE id = ?: the status found earlier is not checked again.
ReactivateWrite(c) ==
  LET a == arg[c].account
      n == arg[c].nonce
  IN /\ pc[c] = "reactivateWrite"
     /\ RowFree(a, c)
     /\ wallets' = [wallets EXCEPT ![a].active = TRUE,
                                   ![a].isDefault = ~mem[c].hasDefault,
                                   ![a].proof = n]
     /\ Record(a, arg[c].user, n)
     /\ Goto(c, "reread")
     /\ mem' = [mem EXCEPT ![c] = Blank]
     /\ ReleaseLocks(c)
     /\ UNCHANGED <<now, challenge, arg>>

\* FindByChainAddress after a failed creation, whose winner is the answer if it
\* is the caller's, and FindByID after the writes; whatever the status.
Reread(c) ==
  LET a == arg[c].account
  IN /\ pc[c] \in {"winner", "reread"}
     /\ Goto(c, IF Bound(a) /\ wallets[a].owner = arg[c].user THEN "ok" ELSE "failed")
     /\ UNCHANGED <<arg, mem>> /\ DataUnchanged /\ LocksUnchanged

(* Disable *)

\* The oldest other wallet that is still active takes over the default, if any;
\* the row being disabled is already invisible to its own transaction.
NoReplacement(a, u) == {None}                                 \* variant: nothing is promoted
Replacement(a, u) ==
  LET others == {b \in Accounts \ {a} : ActiveOf(b, u)}
  IN IF others = {} THEN {None}
     ELSE {b \in others : \A d \in others : wallets[b].createdAt <= wallets[d].createdAt}

DisableReplace(c) ==
  /\ pc[c] = "disableReplace"
  /\ \E b \in Replacement(arg[c].account, arg[c].user) : mem' = [mem EXCEPT ![c].target = b]
  /\ Goto(c, "disableWrite")
  /\ UNCHANGED arg /\ DataUnchanged /\ LocksUnchanged

DisabledOnly(row) == [row EXCEPT !.active = FALSE]            \* variant: is_default forgotten
Disabled(row)     == [row EXCEPT !.active = FALSE, !.isDefault = FALSE]

DisableWrite(c) ==
  LET disabled == [wallets EXCEPT ![arg[c].account] = Disabled(@)]
      target == mem[c].target
  IN /\ pc[c] = "disableWrite"
     /\ target # None => RowFree(target, c)
     /\ wallets' = IF target = None THEN disabled
                   ELSE [disabled EXCEPT ![target].isDefault = TRUE]
     /\ Goto(c, "ok")
     /\ mem' = [mem EXCEPT ![c] = Blank]
     /\ ReleaseLocks(c)
     /\ UNCHANGED <<now, challenge, uses, witness, arg>>

-----------------------------------------------------------------------------
(* UpdateWallet: UpdateLabel, then SetDefault or UnsetDefault, then        *)
(* FindByID, each committed on its own                                     *)

\* A single UPDATE; it waits for a row lock but takes no advisory lock.
UpdateLabel(c) ==
  /\ pc[c] = "label"
  /\ RowFree(arg[c].account, c)
  /\ Goto(c, IF ActiveOf(arg[c].account, arg[c].user) THEN AfterLabel[arg[c].want] ELSE "failed")
  /\ UNCHANGED <<arg, mem>> /\ DataUnchanged /\ LocksUnchanged

(* SetDefault *)

\* Clears every default of the user, then sets the one asked for.
SetWrite(c) ==
  LET a == arg[c].account
      owned == {b \in Accounts : Bound(b) /\ wallets[b].owner = arg[c].user}
  IN /\ pc[c] = "setWrite"
     /\ \A b \in owned : wallets[b].isDefault => RowFree(b, c)
     /\ wallets' = [b \in Accounts |->
          IF b \in owned THEN [wallets[b] EXCEPT !.isDefault = (b = a)] ELSE wallets[b]]
     /\ Goto(c, "reread")
     /\ ReleaseLocks(c)
     /\ UNCHANGED <<now, challenge, uses, witness, arg, mem>>

\* A single UPDATE without the advisory lock; no replacement is chosen.
UnsetDefault(c) ==
  LET a == arg[c].account
  IN /\ pc[c] = "unset"
     /\ RowFree(a, c)
     /\ IF ActiveOf(a, arg[c].user)
          THEN /\ wallets' = [wallets EXCEPT ![a].isDefault = FALSE]
               /\ Goto(c, "reread")
          ELSE Goto(c, "failed") /\ UNCHANGED wallets
     /\ UNCHANGED <<now, challenge, uses, witness, arg, mem>> /\ LocksUnchanged

-----------------------------------------------------------------------------
(* Failures and the environment                                            *)

\* A cancelled context, a statement error, a lost connection or a crash of the
\* process before the next step: the open transaction rolls back.  BindWallet
\* looks for a winner after any error of CreateBoundWallet.
Abort(c) ==
  /\ pc[c] \notin {"idle", "ok", "failed"}
  /\ Goto(c, IF pc[c] \in CreateSteps THEN "winner" ELSE "failed")
  /\ mem' = [mem EXCEPT ![c] = Blank]
  /\ ReleaseLocks(c)
  /\ UNCHANGED arg /\ DataUnchanged

Evict(n) ==
  /\ ~Fresh(n) /\ challenge[n].live
  /\ challenge' = [challenge EXCEPT ![n].live = FALSE]
  /\ UNCHANGED <<now, wallets, uses, witness, pc, arg, mem>> /\ LocksUnchanged

Tick ==
  /\ now < MaxTime
  /\ now' = now + 1
  /\ UNCHANGED <<challenge, wallets, uses, witness, pc, arg, mem>> /\ LocksUnchanged

\* Everything a handler does on its own until the response is back.
Advance(c) ==
  \/ \E n \in NonceIds : StoreChallenge(c, n) \/ CollideChallenge(c, n)
  \/ Consume(c) \/ Find(c)
  \/ LockOwner(c) \/ CountDefaults(c) \/ SelectForUpdate(c)
  \/ CreateWrite(c) \/ ReactivateWrite(c) \/ Reread(c)
  \/ DisableReplace(c) \/ DisableWrite(c)
  \/ UpdateLabel(c) \/ SetWrite(c) \/ UnsetDefault(c)
  \/ Return(c)

Next ==
  \/ \E c \in Calls : (\E r \in Requests : Call(c, r)) \/ Advance(c) \/ Abort(c)
  \/ \E n \in NonceIds : Evict(n)
  \/ Tick

Spec == Init /\ [][Next]_vars

\* Handlers run, and PostgreSQL serves the requests for an advisory or a row
\* lock in their order, so a call that can advance again and again advances.
FairSpec == Spec /\ \A c \in Calls : SF_vars(Advance(c))

-----------------------------------------------------------------------------
(* Properties                                                              *)

\* A user never has two default wallets.  The code serialises "count the
\* defaults, then write" with a per-user advisory lock (CreateBoundWallet,
\* Reactivate, SetDefault, Disable), while UnsetDefault runs without it.
AtMostOneDefault ==
  \A a, b \in Accounts :
    /\ Bound(a) /\ wallets[a].isDefault
    /\ Bound(b) /\ wallets[b].isDefault
    /\ wallets[a].owner = wallets[b].owner
    => a = b

\* An unbound wallet is never the default: no promotion, restoration or
\* SetDefault reaches a row that an earlier Disable has switched off.
DefaultIsActive ==
  \A a \in Accounts : Bound(a) /\ wallets[a].isDefault => wallets[a].active

\* Each row rests on a challenge that was issued to its owner for its account
\* and that has been taken out of Redis, so it cannot be presented again.
ProvenControl ==
  \A a \in Accounts : Bound(a) =>
    LET ch == challenge[wallets[a].proof]
    IN /\ ch # None
       /\ ch.user = wallets[a].owner
       /\ ch.account = a
       /\ ~ch.live

\* One challenge authorises at most one binding or restoration, whatever
\* retries, replays, lost answers and fallbacks happen (GetDel in Consume).
OneWritePerChallenge == \A n \in NonceIds : uses[n] <= 1

\* The owner of a row never changes and rows are never removed (unbinding is
\* logical), although FindByChainAddress, the count and the insert of two
\* users' binds interleave.
OwnerIsPermanent ==
  [][\A a \in Accounts : Bound(a) => Bound(a)' /\ wallets'[a].owner = wallets[a].owner]_wallets

\* When BindWallet succeeds, the wallet was active and its caller's at some
\* moment of the call: on the fast path, after a restoration, and when the
\* answer is the winner of a lost race.
BindTakesEffect ==
  \A c \in Calls : pc[c] = "ok" /\ arg[c].op = "bind" => witness[c]

\* Every call answers: no order of advisory locks, row locks and aborted
\* transactions leaves a handler waiting for ever.
EveryCallReturns == \A c \in Calls : pc[c] # "idle" ~> pc[c] = "idle"

\* The comment of Reactivate: the restored wallet becomes the default when the
\* user has none.  So a restoration leaves the user with a default wallet.
RestoreLeavesADefault ==
  [][\A c \in Calls : pc[c] = "reactivateWrite" /\ pc'[c] = "reread"
                        => HasDefault(arg[c].user)']_vars

\* The registry that clients of the service see.
Registry == INSTANCE WalletRegistry WITH
  owner   <- [a \in Accounts |-> IF Bound(a) THEN wallets[a].owner ELSE None],
  active  <- {a \in Accounts : Bound(a) /\ wallets[a].active},
  default <- [u \in Users |-> IF HasDefault(u) THEN CHOOSE a \in Accounts : DefaultOf(a, u) ELSE None]

\* Every interleaving of statements is one of the registry's atomic operations
\* or changes nothing: in particular a bind never takes the default away from
\* another wallet, and unbinding the default passes it on if it can.
ImplementsRegistry == Registry!Spec
=============================================================================
