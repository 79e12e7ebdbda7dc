------------------------ MODULE WalletBinding_proofs ------------------------
(***************************************************************************)
(* Proofs about WalletBinding, for every set of users, accounts, calls and *)
(* challenge ids and every value of TTL and MaxTime.                       *)
(*                                                                         *)
(* Five layers.  The first three are inductive with the help of those      *)
(* before them, the last two with the help of the first and the third:     *)
(*   1. RowsInv: types, and which row a step may rely on once it has been  *)
(*      looked up;                                                         *)
(*   2. ChallengeInv: who holds a consumed challenge;                      *)
(*   3. DefaultInv: what a transaction knows while it has the owner lock;  *)
(*   4. WitnessInv: what a bind has seen of its account;                   *)
(*   5. ReplacementInv: what Disable knows of the user's other wallets,    *)
(*      which makes its write an operation of WalletRegistry.              *)
(***************************************************************************)
EXTENDS WalletBinding, TLAPS

-----------------------------------------------------------------------------
(* Sets of steps *)

ReactivateSteps == {"reactivateLock", "reactivateCount", "reactivateWrite"}

\* Between the consumption of a challenge and the write that it authorises.
Holding == {"find"} \cup CreateSteps \cup ReactivateSteps

\* Steps of BindWallet only.
BindSteps == {"consume", "winner"} \cup Holding

\* Steps of a transaction behind lockWalletOwner.
Locked == {"createCount", "createWrite", "reactivateCount", "reactivateWrite",
           "disableSelect", "disableReplace", "disableWrite", "setSelect", "setWrite"}

-----------------------------------------------------------------------------
(* Layer 1: types and rows *)

OwnedBy(a, u) == Bound(a) /\ wallets[a].owner = u

\* The challenge and the row that a step uses were found before it, and neither
\* ids nor rows go away.
RowFound ==
  \A c \in Calls :
    /\ pc[c] \in BindSteps => arg[c].op = "bind" /\ ~Fresh(arg[c].nonce)
    /\ pc[c] \in ReactivateSteps \cup {"disableReplace", "disableWrite", "setWrite"}
         => OwnedBy(arg[c].account, arg[c].user)
    /\ mem[c].target # None => pc[c] = "disableWrite" /\ OwnedBy(mem[c].target, arg[c].user)

RowsInv == TypeOK /\ RowFound

OwnersKept ==
  \A a \in Accounts : Bound(a) => Bound(a)' /\ wallets'[a].owner = wallets[a].owner

\* No row appears, and none changes its owner or its proof.
FlagsOnly ==
  \A a \in Accounts :
    Bound(a)' => Bound(a) /\ wallets'[a].owner = wallets[a].owner /\ wallets'[a].proof = wallets[a].proof

\* The fields of a request that the steps use.
LEMMA RequestFields ==
  ASSUME NEW r \in Request
  PROVE  /\ r.user \in Users
         /\ r.account \in Accounts
         /\ r.op = "bind" => r.nonce \in NonceIds
         /\ r.op \in {"createNonce", "bind", "unbind", "update"}
         /\ r.want \in {"keep", "set", "unset"}
         /\ r.label => r.op = "update"
BY DEF Request

\* A call that has not returned carries a request.
LEMMA ArgFields ==
  ASSUME TypeOK, NEW c \in Calls, pc[c] # "idle"
  PROVE  /\ arg[c] \in Request
         /\ arg[c].user \in Users
         /\ arg[c].account \in Accounts
         /\ arg[c].op = "bind" => arg[c].nonce \in NonceIds
BY RequestFields DEF TypeOK

LEMMA RowsInit == Init => RowsInv
BY DEF Init, RowsInv, TypeOK, RowFound, Blank, Local, Steps, CreateSteps, BindSteps,
       Holding, ReactivateSteps

\* A handler starts outside every transaction, and only a bind consumes.
LEMMA FirstSteps ==
  ASSUME NEW r \in Request
  PROVE  /\ FirstStep(r) \in {"draw", "consume", "disableLock", "label", "setLock", "unset", "reread"}
         /\ FirstStep(r) = "consume" => r.op = "bind"
<1>1. CASE r.label
  BY <1>1 DEF FirstStep
<1>2. CASE ~r.label /\ r.op = "update"
  <2>1. FirstStep(r) \in {"reread", "setLock", "unset"}
    BY <1>2, RequestFields DEF FirstStep, AfterLabel
  <2> QED BY <2>1
<1>3. CASE ~r.label /\ r.op # "update"
  BY <1>3, RequestFields DEF FirstStep, OpStart
<1> QED BY <1>1, <1>2, <1>3

\* Assignments to one field of the handler's variables.
LEMMA LocalFields ==
  ASSUME NEW m \in Local
  PROVE  /\ \A t \in Nat : [m EXCEPT !.at = t] \in Local
         /\ m.tries < 2 => [m EXCEPT !.tries = @ + 1] \in Local
         /\ \A b \in BOOLEAN : [m EXCEPT !.hasDefault = b] \in Local
         /\ \A a \in Accounts \cup {None} : [m EXCEPT !.target = a] \in Local
         /\ Blank \in Local
BY DEF Local, Blank

\* GETDEL and expiry leave the rest of the record.
LEMMA ChallengeFields ==
  ASSUME NEW ch \in Challenge
  PROVE  [ch EXCEPT !.live = FALSE] \in Challenge
BY DEF Challenge

\* What RowFound asks of a step of c that goes to s and keeps its request.
LEMMA RowFoundAfter ==
  ASSUME RowsInv, NEW c \in Calls, NEW s \in Steps, pc[c] # "idle", Goto(c, s), UNCHANGED arg,
         \A d \in Calls \ {c} : mem'[d] = mem[d],
         OwnersKept,
         \A n \in NonceIds : ~Fresh(n) => ~Fresh(n)',
         s \in BindSteps => pc[c] \in BindSteps,
         s \in ReactivateSteps \cup {"disableReplace", "disableWrite", "setWrite"}
           => OwnedBy(arg[c].account, arg[c].user),
         mem'[c].target # None => s = "disableWrite" /\ OwnedBy(mem'[c].target, arg[c].user),
         TypeOK'
  PROVE  RowFound'
<1>1. \A d \in Calls : pc'[d] = IF d = c THEN s ELSE pc[d]
  BY DEF RowsInv, TypeOK, Goto
<1>2. \A d \in Calls : pc[d] # "idle" => arg[d] \in Request
  BY DEF RowsInv, TypeOK
<1>3. \A d \in Calls : mem'[d].target \in Accounts \cup {None}
  BY DEF TypeOK, Local
<1>4. \A a \in Accounts, u \in Users : OwnedBy(a, u) => OwnedBy(a, u)'
  BY DEF OwnedBy, OwnersKept
<1>5. ASSUME NEW d \in Calls, pc'[d] \in BindSteps
      PROVE  (arg[d].op = "bind" /\ ~Fresh(arg[d].nonce))'
  <2>1. pc[d] \in BindSteps /\ pc[d] # "idle"
    BY <1>1, <1>5 DEF BindSteps, Holding, CreateSteps, ReactivateSteps
  <2>2. arg[d].op = "bind" /\ ~Fresh(arg[d].nonce) /\ arg[d].nonce \in NonceIds
    BY <1>2, <2>1, RequestFields DEF RowsInv, RowFound
  <2> QED BY <2>2 DEF Fresh
<1>6. ASSUME NEW d \in Calls,
             pc'[d] \in ReactivateSteps \cup {"disableReplace", "disableWrite", "setWrite"}
      PROVE  OwnedBy(arg[d].account, arg[d].user)'
  <2>1. pc[d] # "idle"
    BY <1>1, <1>6 DEF ReactivateSteps
  <2>2. arg[d].account \in Accounts /\ arg[d].user \in Users
    BY <1>2, <2>1, RequestFields
  <2>3. OwnedBy(arg[d].account, arg[d].user)
    BY <1>1, <1>6 DEF RowsInv, RowFound
  <2> QED BY <2>2, <2>3, <1>4 DEF OwnedBy, Bound
<1>7. ASSUME NEW d \in Calls, mem'[d].target # None
      PROVE  pc'[d] = "disableWrite" /\ OwnedBy(mem[d].target, arg[d].user)'
  <2>1. pc[d] # "idle" /\ pc'[d] = "disableWrite"
    BY <1>1, <1>7 DEF RowsInv, RowFound
  <2>2. mem'[d].target \in Accounts /\ arg[d].user \in Users
    BY <1>2, <1>3, <1>7, <2>1, RequestFields
  <2>3. OwnedBy(mem'[d].target, arg[d].user)
    BY <1>1, <1>7 DEF RowsInv, RowFound
  <2> QED BY <2>1, <2>2, <2>3, <1>4 DEF OwnedBy, Bound
<1> QED BY <1>5, <1>6, <1>7 DEF RowFound

\* A step of c to s that keeps c's request.
LEMMA RowsAfter ==
  ASSUME RowsInv, NEW c \in Calls, NEW s \in Steps, pc[c] # "idle",
         pc' = [pc EXCEPT ![c] = s], UNCHANGED <<now, arg>>,
         NEW m \in Local, mem' = [mem EXCEPT ![c] = m],
         challenge' \in [NonceIds -> Challenge \cup {None}],
         \A n \in NonceIds : ~Fresh(n) => ~Fresh(n)',
         wallets' \in [Accounts -> Row \cup {None}],
         OwnersKept,
         ownerLock' \in [Users -> Calls \cup {None}],
         rowLock' \in [Accounts -> Calls \cup {None}],
         uses' \in [NonceIds -> Nat],
         witness' \in [Calls -> BOOLEAN],
         s \in BindSteps => pc[c] \in BindSteps,
         s \in ReactivateSteps \cup {"disableReplace", "disableWrite", "setWrite"}
           => OwnedBy(arg[c].account, arg[c].user),
         m.target # None => s = "disableWrite" /\ OwnedBy(m.target, arg[c].user)
  PROVE  RowsInv'
<1>1. TypeOK'
  BY DEF RowsInv, TypeOK
<1>2. mem'[c] = m /\ \A d \in Calls \ {c} : mem'[d] = mem[d]
  BY DEF RowsInv, TypeOK
<1>3. RowFound'
  BY <1>1, <1>2, RowFoundAfter DEF Goto
<1> QED BY <1>1, <1>3 DEF RowsInv

\* Steps that leave the rows and the challenges alone.
LEMMA RowsQuiet ==
  ASSUME RowsInv, NEW c \in Calls, NEW s \in Steps, pc[c] # "idle",
         pc' = [pc EXCEPT ![c] = s],
         UNCHANGED <<now, arg, wallets, challenge, uses, witness>>,
         NEW m \in Local, mem' = [mem EXCEPT ![c] = m],
         ownerLock' \in [Users -> Calls \cup {None}],
         rowLock' \in [Accounts -> Calls \cup {None}],
         s \in BindSteps => pc[c] \in BindSteps,
         s \in ReactivateSteps \cup {"disableReplace", "disableWrite", "setWrite"}
           => OwnedBy(arg[c].account, arg[c].user),
         m.target # None => s = "disableWrite" /\ OwnedBy(m.target, arg[c].user)
  PROVE  RowsInv'
<1>1. /\ challenge' \in [NonceIds -> Challenge \cup {None}]
      /\ wallets' \in [Accounts -> Row \cup {None}]
      /\ uses' \in [NonceIds -> Nat]
      /\ witness' \in [Calls -> BOOLEAN]
  BY DEF RowsInv, TypeOK
<1>2. OwnersKept
  BY DEF Bound, OwnersKept
<1>3. \A n \in NonceIds : ~Fresh(n) => ~Fresh(n)'
  BY DEF Fresh
<1> QED BY <1>1, <1>2, <1>3, RowsAfter

\* How a transaction goes on.
LEMMA AfterLockSteps ==
  ASSUME NEW step \in DOMAIN AfterLock
  PROVE  \/ step = "createLock" /\ AfterLock[step] = "createCount"
         \/ step = "reactivateLock" /\ AfterLock[step] = "reactivateCount"
         \/ step = "disableLock" /\ AfterLock[step] = "disableSelect"
         \/ step = "setLock" /\ AfterLock[step] = "setSelect"
BY DEF AfterLock

LEMMA AfterCountSteps ==
  ASSUME NEW step \in DOMAIN AfterCount
  PROVE  \/ step = "createCount" /\ AfterCount[step] = "createWrite"
         \/ step = "reactivateCount" /\ AfterCount[step] = "reactivateWrite"
BY DEF AfterCount

\* The variables of a call whose step does not touch them.
LEMMA SameLocals ==
  ASSUME TypeOK, NEW c \in Calls
  PROVE  mem[c] \in Local /\ mem = [mem EXCEPT ![c] = mem[c]]
BY DEF TypeOK

\* Only disableWrite remembers a target.
LEMMA NoTarget ==
  ASSUME RowFound, NEW c \in Calls, pc[c] # "disableWrite"
  PROVE  mem[c].target = None
BY DEF RowFound

LEMMA FindRows == ASSUME RowsInv, NEW c \in Calls, Find(c) PROVE RowsInv'
<1> DEFINE s == AfterFind(arg[c].account, arg[c].user)
           m == [mem[c] EXCEPT !.at = IF Bound(arg[c].account) THEN 0 ELSE now]
<1>1. /\ pc[c] = "find"
      /\ pc' = [pc EXCEPT ![c] = s]
      /\ mem' = [mem EXCEPT ![c] = m]
      /\ UNCHANGED <<now, arg, wallets, challenge, uses, witness, ownerLock, rowLock>>
  BY DEF Find, Goto, DataUnchanged, LocksUnchanged
<1>2. s \in {"createLock", "ok", "reactivateLock", "failed"}
  BY DEF AfterFind
<1>3. s = "reactivateLock" => OwnedBy(arg[c].account, arg[c].user)
  BY DEF AfterFind, OwnedBy
<1>4. m \in Local /\ m.target = None
  <2>1. mem[c] \in Local /\ mem[c].target = None /\ now \in Nat
    BY <1>1, NoTarget DEF RowsInv, TypeOK
  <2> QED BY <2>1, LocalFields DEF Local
<1>5. s \in BindSteps => pc[c] \in BindSteps
  BY <1>1, <1>2 DEF BindSteps, Holding
<1>6. s \in ReactivateSteps \cup {"disableReplace", "disableWrite", "setWrite"} => s = "reactivateLock"
  BY <1>2 DEF ReactivateSteps
<1>7. s \in Steps
  BY <1>2 DEF Steps, CreateSteps
<1> HIDE DEF s, m
<1> QED BY <1>1, <1>3, <1>4, <1>5, <1>6, <1>7, RowsQuiet DEF RowsInv, TypeOK

LEMMA LockOwnerRows == ASSUME RowsInv, NEW c \in Calls, LockOwner(c) PROVE RowsInv'
<1> DEFINE s == AfterLock[pc[c]]
<1>1. /\ pc[c] \in DOMAIN AfterLock
      /\ pc' = [pc EXCEPT ![c] = s]
      /\ UNCHANGED <<now, arg, mem, wallets, challenge, uses, witness, rowLock>>
  BY DEF LockOwner, Goto, DataUnchanged
<1>2. ownerLock' \in [Users -> Calls \cup {None}]
  BY DEF LockOwner, TakeOwnerLock, RowsInv, TypeOK
<1>3. \/ pc[c] = "createLock" /\ s = "createCount"
      \/ pc[c] = "reactivateLock" /\ s = "reactivateCount"
      \/ pc[c] = "disableLock" /\ s = "disableSelect"
      \/ pc[c] = "setLock" /\ s = "setSelect"
  BY <1>1, AfterLockSteps
<1> HIDE DEF s
<1>4. /\ s \in Steps
      /\ s \in BindSteps => pc[c] \in BindSteps
      /\ s \in ReactivateSteps \cup {"disableReplace", "disableWrite", "setWrite"}
           => pc[c] = "reactivateLock"
  BY <1>3 DEF Steps, CreateSteps, BindSteps, Holding, ReactivateSteps
<1>5. pc[c] = "reactivateLock" => OwnedBy(arg[c].account, arg[c].user)
  BY DEF RowsInv, RowFound, ReactivateSteps
<1>6. mem[c].target = None /\ pc[c] # "idle"
  BY <1>3, NoTarget DEF RowsInv
<1>7. rowLock' \in [Accounts -> Calls \cup {None}]
  BY <1>1 DEF RowsInv, TypeOK
<1>8. mem[c] \in Local /\ mem' = [mem EXCEPT ![c] = mem[c]]
  BY <1>1, SameLocals DEF RowsInv
<1> QED BY <1>1, <1>2, <1>4, <1>5, <1>6, <1>7, <1>8, RowsQuiet

LEMMA CountDefaultsRows == ASSUME RowsInv, NEW c \in Calls, CountDefaults(c) PROVE RowsInv'
<1> DEFINE s == AfterCount[pc[c]]
           m == [mem[c] EXCEPT !.hasDefault = HasDefault(arg[c].user)]
<1>1. /\ pc[c] \in DOMAIN AfterCount
      /\ pc' = [pc EXCEPT ![c] = s]
      /\ mem' = [mem EXCEPT ![c] = m]
      /\ UNCHANGED <<now, arg, wallets, challenge, uses, witness, ownerLock, rowLock>>
  BY DEF CountDefaults, Goto, DataUnchanged, LocksUnchanged
<1>2. \/ pc[c] = "createCount" /\ s = "createWrite"
      \/ pc[c] = "reactivateCount" /\ s = "reactivateWrite"
  BY <1>1, AfterCountSteps
<1>3. m \in Local /\ m.target = None
  <2>1. mem[c] \in Local /\ mem[c].target = None
    BY <1>2, NoTarget DEF RowsInv, TypeOK
  <2>2. HasDefault(arg[c].user) \in BOOLEAN
    BY DEF HasDefault
  <2> QED BY <2>1, <2>2, LocalFields DEF Local
<1> HIDE DEF s, m
<1>4. /\ s \in Steps
      /\ s \in BindSteps => pc[c] \in BindSteps
      /\ s \in ReactivateSteps \cup {"disableReplace", "disableWrite", "setWrite"}
           => pc[c] = "reactivateCount"
  BY <1>2 DEF Steps, CreateSteps, BindSteps, Holding, ReactivateSteps
<1>5. pc[c] = "reactivateCount" => OwnedBy(arg[c].account, arg[c].user)
  BY DEF RowsInv, RowFound, ReactivateSteps
<1> QED BY <1>1, <1>2, <1>3, <1>4, <1>5, RowsQuiet DEF RowsInv, TypeOK

\* Releasing the locks of a transaction keeps their types.
LEMMA ReleaseTypes ==
  ASSUME RowsInv, NEW c \in Calls, ReleaseLocks(c)
  PROVE  /\ ownerLock' \in [Users -> Calls \cup {None}]
         /\ rowLock' \in [Accounts -> Calls \cup {None}]
BY DEF RowsInv, TypeOK, ReleaseLocks, ReleaseRowLocks

LEMMA SelectForUpdateRows == ASSUME RowsInv, NEW c \in Calls, SelectForUpdate(c) PROVE RowsInv'
<1>1. /\ pc[c] \in {"disableSelect", "setSelect"}
      /\ UNCHANGED <<now, arg, mem, wallets, challenge, uses, witness>>
  BY DEF SelectForUpdate, DataUnchanged
<1>2. PICK s \in {"setWrite", "disableReplace", "disableWrite", "failed"} :
             /\ pc' = [pc EXCEPT ![c] = s]
             /\ s # "failed" => OwnedBy(arg[c].account, arg[c].user)
  BY DEF SelectForUpdate, Goto, ActiveOf, OwnedBy
<1>3. /\ ownerLock' \in [Users -> Calls \cup {None}]
      /\ rowLock' \in [Accounts -> Calls \cup {None}]
  BY ReleaseTypes DEF SelectForUpdate, RowsInv, TypeOK
<1>4. s \in Steps /\ s \notin BindSteps /\ s \notin ReactivateSteps
  BY DEF Steps, BindSteps, Holding, CreateSteps, ReactivateSteps
<1>5. mem[c].target = None /\ pc[c] # "idle"
  BY <1>1, NoTarget DEF RowsInv
<1>6. mem[c] \in Local /\ mem' = [mem EXCEPT ![c] = mem[c]]
  BY <1>1, SameLocals DEF RowsInv
<1> QED BY <1>1, <1>2, <1>3, <1>4, <1>5, <1>6, RowsQuiet

LEMMA RereadRows == ASSUME RowsInv, NEW c \in Calls, Reread(c) PROVE RowsInv'
<1>1. /\ pc[c] \in {"winner", "reread"}
      /\ UNCHANGED <<now, arg, mem, wallets, challenge, uses, witness, ownerLock, rowLock>>
  BY DEF Reread, DataUnchanged, LocksUnchanged
<1>2. PICK s \in {"ok", "failed"} : pc' = [pc EXCEPT ![c] = s]
  BY DEF Reread, Goto
<1>3. s \in Steps /\ s \notin BindSteps /\ s \notin ReactivateSteps
  BY DEF Steps, BindSteps, Holding, CreateSteps, ReactivateSteps
<1>4. mem[c].target = None /\ mem[c] \in Local /\ mem' = [mem EXCEPT ![c] = mem[c]]
  BY <1>1, NoTarget, SameLocals DEF RowsInv
<1> QED BY <1>1, <1>2, <1>3, <1>4, RowsQuiet DEF RowsInv, TypeOK

LEMMA UpdateLabelRows == ASSUME RowsInv, NEW c \in Calls, UpdateLabel(c) PROVE RowsInv'
<1>1. /\ pc[c] = "label"
      /\ UNCHANGED <<now, arg, mem, wallets, challenge, uses, witness, ownerLock, rowLock>>
  BY DEF UpdateLabel, DataUnchanged, LocksUnchanged
<1>2. AfterLabel[arg[c].want] \in {"reread", "setLock", "unset"}
  <2>1. arg[c].want \in {"keep", "set", "unset"}
    BY <1>1, RequestFields DEF RowsInv, TypeOK
  <2> QED BY <2>1 DEF AfterLabel
<1>3. PICK s \in {"reread", "setLock", "unset", "failed"} : pc' = [pc EXCEPT ![c] = s]
  BY <1>2 DEF UpdateLabel, Goto
<1>4. s \in Steps /\ s \notin BindSteps /\ s \notin ReactivateSteps
  BY DEF Steps, BindSteps, Holding, CreateSteps, ReactivateSteps
<1>5. mem[c].target = None /\ mem[c] \in Local /\ mem' = [mem EXCEPT ![c] = mem[c]]
  BY <1>1, NoTarget, SameLocals DEF RowsInv
<1> QED BY <1>1, <1>3, <1>4, <1>5, RowsQuiet DEF RowsInv, TypeOK

LEMMA DisableReplaceRows == ASSUME RowsInv, NEW c \in Calls, DisableReplace(c) PROVE RowsInv'
<1>1. /\ pc[c] = "disableReplace"
      /\ pc' = [pc EXCEPT ![c] = "disableWrite"]
      /\ UNCHANGED <<now, arg, wallets, challenge, uses, witness, ownerLock, rowLock>>
  BY DEF DisableReplace, Goto, DataUnchanged, LocksUnchanged
<1>2. PICK b \in Replacement(arg[c].account, arg[c].user) :
        mem' = [mem EXCEPT ![c] = [mem[c] EXCEPT !.target = b]]
  BY DEF DisableReplace
<1>3. b \in Accounts \cup {None} /\ (b # None => OwnedBy(b, arg[c].user))
  BY DEF Replacement, ActiveOf, OwnedBy
<1> DEFINE m == [mem[c] EXCEPT !.target = b]
<1>4. m \in Local /\ m.target = b
  <2>1. mem[c] \in Local
    BY DEF RowsInv, TypeOK
  <2> QED BY <1>3, <2>1, LocalFields DEF Local
<1>5. OwnedBy(arg[c].account, arg[c].user)
  BY <1>1 DEF RowsInv, RowFound
<1>6. "disableWrite" \in Steps /\ "disableWrite" \notin BindSteps
  BY DEF Steps, BindSteps, Holding, CreateSteps, ReactivateSteps
<1>7. mem' = [mem EXCEPT ![c] = m]
  BY <1>2
<1> HIDE DEF m
<1> QED BY <1>1, <1>3, <1>4, <1>5, <1>6, <1>7, RowsQuiet DEF RowsInv, TypeOK

LEMMA BlankLocal == Blank \in Local /\ Blank.target = None
BY DEF Blank, Local

LEMMA AbortRows == ASSUME RowsInv, NEW c \in Calls, Abort(c) PROVE RowsInv'
<1>1. /\ pc[c] # "idle"
      /\ mem' = [mem EXCEPT ![c] = Blank]
      /\ UNCHANGED <<now, arg, wallets, challenge, uses, witness>>
  BY DEF Abort, DataUnchanged
<1>2. PICK s \in {"winner", "failed"} :
        pc' = [pc EXCEPT ![c] = s] /\ (s = "winner" => pc[c] \in CreateSteps)
  BY DEF Abort, Goto
<1>3. s \in Steps /\ (s \in BindSteps => pc[c] \in BindSteps) /\ s \notin ReactivateSteps
  BY <1>2 DEF Steps, BindSteps, Holding, CreateSteps, ReactivateSteps
<1>4. /\ ownerLock' \in [Users -> Calls \cup {None}]
      /\ rowLock' \in [Accounts -> Calls \cup {None}]
  BY ReleaseTypes DEF Abort
<1> QED BY <1>1, <1>2, <1>3, <1>4, BlankLocal, RowsQuiet

LEMMA CollideChallengeRows ==
  ASSUME RowsInv, NEW c \in Calls, NEW n \in NonceIds, CollideChallenge(c, n) PROVE RowsInv'
<1>1. /\ pc[c] = "draw"
      /\ UNCHANGED <<now, arg, wallets, challenge, uses, witness, ownerLock, rowLock>>
  BY DEF CollideChallenge, DataUnchanged, LocksUnchanged
<1>2. mem[c] \in Local /\ mem[c].target = None /\ pc \in [Calls -> Steps] /\ mem \in [Calls -> Local]
  BY <1>1, NoTarget DEF RowsInv, TypeOK
<1>3. PICK s \in {"draw", "failed"} : pc' = [pc EXCEPT ![c] = s]
  BY <1>1, <1>2 DEF CollideChallenge, Goto, Retry
<1>4. PICK m \in Local : mem' = [mem EXCEPT ![c] = m] /\ m.target = None
  <2>1. CASE mem[c].tries < 2
    <3>1. mem' = [mem EXCEPT ![c] = [mem[c] EXCEPT !.tries = @ + 1]]
      BY <2>1 DEF CollideChallenge, Retry
    <3>2. [mem[c] EXCEPT !.tries = @ + 1] \in Local /\ [mem[c] EXCEPT !.tries = @ + 1].target = None
      BY <1>2, <2>1, LocalFields DEF Local
    <3> QED BY <3>1, <3>2
  <2>2. CASE ~(mem[c].tries < 2)
    BY <1>2, <2>2 DEF CollideChallenge, Retry
  <2> QED BY <2>1, <2>2
<1>5. s \in Steps /\ s \notin BindSteps /\ s \notin ReactivateSteps
  BY DEF Steps, BindSteps, Holding, CreateSteps, ReactivateSteps
<1> QED BY <1>1, <1>3, <1>4, <1>5, RowsQuiet DEF RowsInv, TypeOK

(* Steps that write a challenge or a row *)

LEMMA CallRows == ASSUME RowsInv, NEW c \in Calls, NEW r \in Requests, Call(c, r) PROVE RowsInv'
<1>1. r \in Request
  BY DEF Requests
<1>2. /\ pc[c] = "idle"
      /\ pc' = [pc EXCEPT ![c] = FirstStep(r)]
      /\ arg' = [arg EXCEPT ![c] = r]
      /\ r.op = "bind" => ~Fresh(r.nonce)
      /\ UNCHANGED <<now, challenge, wallets, ownerLock, rowLock, uses>>
  BY DEF Call, Goto, LocksUnchanged
<1> DEFINE m == [mem[c] EXCEPT !.at = IF r.op = "createNonce" THEN now ELSE 0]
<1>3. mem' = [mem EXCEPT ![c] = m]
  BY DEF Call
<1>4. m \in Local /\ m.target = None
  <2>1. mem[c] \in Local /\ mem[c].target = None /\ now \in Nat
    BY <1>2, NoTarget DEF RowsInv, TypeOK
  <2> QED BY <2>1, LocalFields DEF Local
<1> HIDE DEF m
<1>5. witness' \in [Calls -> BOOLEAN]
  BY DEF Call, ActiveOf, RowsInv, TypeOK
<1>6. FirstStep(r) \in Steps /\ FirstStep(r) \notin Holding \cup {"winner"}
  BY <1>1, FirstSteps DEF Steps, Holding, CreateSteps, ReactivateSteps
<1>7. TypeOK'
  BY <1>1, <1>2, <1>3, <1>4, <1>5, <1>6 DEF RowsInv, TypeOK
<1>8. \A d \in Calls \ {c} : pc'[d] = pc[d] /\ arg'[d] = arg[d] /\ mem'[d] = mem[d]
  BY <1>2, <1>3 DEF RowsInv, TypeOK
<1>9. pc'[c] = FirstStep(r) /\ arg'[c] = r /\ mem'[c].target = None
  BY <1>2, <1>3, <1>4 DEF RowsInv, TypeOK
<1>10. FirstStep(r) \notin ReactivateSteps \cup {"disableReplace", "disableWrite", "setWrite"}
  BY <1>1, FirstSteps DEF ReactivateSteps
<1>11. FirstStep(r) \in BindSteps => r.op = "bind"
  BY <1>1, <1>6, FirstSteps DEF BindSteps
<1>12. RowFound'
  BY <1>2, <1>8, <1>9, <1>10, <1>11 DEF RowsInv, RowFound, OwnedBy, Bound, Fresh
<1> QED BY <1>7, <1>12 DEF RowsInv

LEMMA ReturnRows == ASSUME RowsInv, NEW c \in Calls, Return(c) PROVE RowsInv'
<1>1. /\ pc' = [pc EXCEPT ![c] = "idle"]
      /\ arg' = [arg EXCEPT ![c] = None]
      /\ mem' = [mem EXCEPT ![c] = Blank]
      /\ witness' = [witness EXCEPT ![c] = FALSE]
      /\ UNCHANGED <<now, challenge, wallets, ownerLock, rowLock, uses>>
  BY DEF Return, Goto, LocksUnchanged
<1>2. TypeOK'
  BY <1>1, BlankLocal DEF RowsInv, TypeOK, Steps
<1>3. "idle" \notin BindSteps /\ "idle" \notin ReactivateSteps
  BY DEF BindSteps, Holding, CreateSteps, ReactivateSteps
<1>4. RowFound'
  BY <1>1, <1>3, BlankLocal DEF RowsInv, TypeOK, RowFound, OwnedBy, Bound, Fresh
<1> QED BY <1>2, <1>4 DEF RowsInv

LEMMA StoreChallengeRows ==
  ASSUME RowsInv, NEW c \in Calls, NEW n \in NonceIds, StoreChallenge(c, n) PROVE RowsInv'
<1> DEFINE ch == [user |-> arg[c].user, account |-> arg[c].account,
                  expiresAt |-> mem[c].at + TTL, live |-> TRUE]
<1>1. /\ pc[c] = "draw" /\ pc' = [pc EXCEPT ![c] = "ok"]
      /\ challenge' = [challenge EXCEPT ![n] = ch]
      /\ UNCHANGED <<now, wallets, uses, witness, arg, mem, ownerLock, rowLock>>
  BY DEF StoreChallenge, Goto, LocksUnchanged
<1>2. ch \in Challenge
  <2>1. mem[c].at \in Nat /\ TTL \in Nat
    BY TimeAssumption DEF RowsInv, TypeOK, Local
  <2> QED BY <1>1, <2>1, ArgFields DEF RowsInv, Challenge
<1> HIDE DEF ch
<1>3. /\ challenge' \in [NonceIds -> Challenge \cup {None}]
      /\ \A k \in NonceIds : ~Fresh(k) => ~Fresh(k)'
  BY <1>1, <1>2, NoneAssumption DEF RowsInv, TypeOK, Fresh
<1>4. OwnersKept
  BY <1>1 DEF Bound, OwnersKept
<1>5. mem[c] \in Local /\ mem[c].target = None /\ mem' = [mem EXCEPT ![c] = mem[c]]
  BY <1>1, NoTarget, SameLocals DEF RowsInv
<1>6. "ok" \in Steps /\ "ok" \notin BindSteps /\ "ok" \notin ReactivateSteps
  BY DEF Steps, BindSteps, Holding, CreateSteps, ReactivateSteps
<1> QED BY <1>1, <1>3, <1>4, <1>5, <1>6, RowsAfter DEF RowsInv, TypeOK

\* GETDEL and expiry, for the id of an issued challenge.
LEMMA EndChallenge ==
  ASSUME RowsInv, NEW n \in NonceIds, ~Fresh(n),
         challenge' = [challenge EXCEPT ![n].live = FALSE]
  PROVE  /\ challenge' \in [NonceIds -> Challenge \cup {None}]
         /\ \A k \in NonceIds : ~Fresh(k) => ~Fresh(k)'
<1>1. challenge[n] \in Challenge
  BY DEF RowsInv, TypeOK, Fresh
<1> DEFINE ch == [challenge[n] EXCEPT !.live = FALSE]
<1>2. ch \in Challenge /\ challenge' = [challenge EXCEPT ![n] = ch]
  BY <1>1, ChallengeFields
<1> HIDE DEF ch
<1>3. challenge \in [NonceIds -> Challenge \cup {None}]
  BY DEF RowsInv, TypeOK
<1>4. challenge' \in [NonceIds -> Challenge \cup {None}]
  BY <1>2, <1>3
<1>5. \A k \in NonceIds : challenge'[k] = IF k = n THEN ch ELSE challenge[k]
  BY <1>2, <1>3
<1>6. \A k \in NonceIds : ~Fresh(k) => ~Fresh(k)'
  BY <1>2, <1>5, NoneAssumption DEF Fresh
<1> QED BY <1>4, <1>6

LEMMA ConsumeRows == ASSUME RowsInv, NEW c \in Calls, Consume(c) PROVE RowsInv'
<1>1. /\ pc[c] = "consume"
      /\ challenge' = [challenge EXCEPT ![arg[c].nonce].live = FALSE]
      /\ UNCHANGED <<now, wallets, uses, witness, arg, mem, ownerLock, rowLock>>
  BY DEF Consume, GetDel, LocksUnchanged
<1>2. PICK s \in {"find", "failed"} : pc' = [pc EXCEPT ![c] = s]
  BY DEF Consume, Goto
<1>3. arg[c].nonce \in NonceIds /\ ~Fresh(arg[c].nonce)
  BY <1>1, ArgFields DEF RowsInv, RowFound, BindSteps
<1>4. /\ challenge' \in [NonceIds -> Challenge \cup {None}]
      /\ \A k \in NonceIds : ~Fresh(k) => ~Fresh(k)'
  BY <1>1, <1>3, EndChallenge
<1>5. OwnersKept
  BY <1>1 DEF Bound, OwnersKept
<1>6. mem[c] \in Local /\ mem[c].target = None /\ mem' = [mem EXCEPT ![c] = mem[c]]
  BY <1>1, NoTarget, SameLocals DEF RowsInv
<1>7. s \in Steps /\ s \notin ReactivateSteps /\ pc[c] \in BindSteps
  BY <1>1 DEF Steps, BindSteps, Holding, CreateSteps, ReactivateSteps
<1> QED BY <1>1, <1>2, <1>4, <1>5, <1>6, <1>7, RowsAfter DEF RowsInv, TypeOK

LEMMA EvictRows == ASSUME RowsInv, NEW n \in NonceIds, Evict(n) PROVE RowsInv'
<1>1. /\ challenge' \in [NonceIds -> Challenge \cup {None}]
      /\ \A k \in NonceIds : ~Fresh(k) => ~Fresh(k)'
  BY EndChallenge DEF Evict
<1>2. UNCHANGED <<now, wallets, uses, witness, pc, arg, mem, ownerLock, rowLock>>
  BY DEF Evict, LocksUnchanged
<1>3. TypeOK'
  BY <1>1, <1>2 DEF RowsInv, TypeOK
<1>4. \A c \in Calls : pc[c] \in BindSteps => arg[c].nonce \in NonceIds
  BY ArgFields DEF RowsInv, RowFound, BindSteps, Holding, CreateSteps, ReactivateSteps
<1>5. RowFound'
  BY <1>1, <1>2, <1>4 DEF RowsInv, RowFound, OwnedBy, Bound
<1> QED BY <1>3, <1>5 DEF RowsInv

LEMMA TickRows == RowsInv /\ Tick => RowsInv'
BY DEF Tick, LocksUnchanged, RowsInv, TypeOK, RowFound, OwnedBy, Bound, Fresh

\* A challenge has authorised a write.
LEMMA RecordTypes ==
  ASSUME RowsInv, NEW a, NEW u, NEW n \in NonceIds, Record(a, u, n)
  PROVE  uses' \in [NonceIds -> Nat] /\ witness' \in [Calls -> BOOLEAN]
BY DEF RowsInv, TypeOK, Record

LEMMA CreateWriteRows == ASSUME RowsInv, NEW c \in Calls, CreateWrite(c) PROVE RowsInv' /\ OwnersKept
<1> DEFINE a == arg[c].account
           n == arg[c].nonce
           row == [owner |-> arg[c].user, active |-> TRUE, isDefault |-> ~mem[c].hasDefault,
                   createdAt |-> mem[c].at, proof |-> n]
<1>1. /\ pc[c] = "createWrite"
      /\ mem' = [mem EXCEPT ![c] = Blank]
      /\ UNCHANGED <<now, challenge, arg>>
  BY DEF CreateWrite
<1>2. a \in Accounts /\ n \in NonceIds /\ row \in Row
  <2>1. /\ arg[c].op = "bind" /\ mem[c].at \in Nat /\ mem[c].hasDefault \in BOOLEAN
    BY <1>1 DEF RowsInv, TypeOK, RowFound, Local, BindSteps, Holding, CreateSteps
  <2> QED BY <1>1, <2>1, ArgFields DEF RowsInv, Row
<1>3. \/ UNCHANGED <<wallets, uses, witness>>
      \/ ~Bound(a) /\ wallets' = [wallets EXCEPT ![a] = row] /\ Record(a, arg[c].user, n)
  BY DEF CreateWrite, Conflict
<1>4. PICK s \in {"winner", "ok"} : pc' = [pc EXCEPT ![c] = s]
  BY DEF CreateWrite, Goto
<1> HIDE DEF a, n, row
<1>5. wallets \in [Accounts -> Row \cup {None}]
  BY DEF RowsInv, TypeOK
<1>6. /\ wallets' \in [Accounts -> Row \cup {None}]
      /\ OwnersKept
  BY <1>2, <1>3, <1>5 DEF Bound, OwnersKept
<1>7. uses' \in [NonceIds -> Nat] /\ witness' \in [Calls -> BOOLEAN]
  BY <1>2, <1>3, RecordTypes DEF RowsInv, TypeOK
<1>8. /\ ownerLock' \in [Users -> Calls \cup {None}]
      /\ rowLock' \in [Accounts -> Calls \cup {None}]
  BY ReleaseTypes DEF CreateWrite
<1>9. s \in Steps /\ s \notin ReactivateSteps /\ pc[c] \in BindSteps
  BY <1>1 DEF Steps, BindSteps, Holding, CreateSteps, ReactivateSteps
<1>10. \A k \in NonceIds : ~Fresh(k) => ~Fresh(k)'
  BY <1>1 DEF Fresh
<1> QED BY <1>1, <1>4, <1>6, <1>7, <1>8, <1>9, <1>10, BlankLocal, RowsAfter DEF RowsInv, TypeOK

SameProof(new, old) == new \in Row /\ new.owner = old.owner /\ new.proof = old.proof

\* Writing the flags of rows that are there.
LEMMA RowFields ==
  ASSUME NEW row \in Row, NEW b \in BOOLEAN
  PROVE  /\ [row EXCEPT !.isDefault = b] \in Row
         /\ [row EXCEPT !.isDefault = b].owner = row.owner
         /\ [row EXCEPT !.isDefault = b].proof = row.proof
         /\ Disabled(row) \in Row
         /\ Disabled(row).owner = row.owner
         /\ Disabled(row).proof = row.proof
         /\ \A n \in NonceIds :
              LET r == [row EXCEPT !.active = TRUE, !.isDefault = b, !.proof = n]
              IN r \in Row /\ r.owner = row.owner
BY DEF Row, Disabled

LEMMA ReactivateWriteRows == ASSUME RowsInv, NEW c \in Calls, ReactivateWrite(c) PROVE RowsInv' /\ OwnersKept
<1> DEFINE a == arg[c].account
           n == arg[c].nonce
           row == [wallets[a] EXCEPT !.active = TRUE, !.isDefault = ~mem[c].hasDefault, !.proof = n]
<1>1. /\ pc[c] = "reactivateWrite"
      /\ pc' = [pc EXCEPT ![c] = "reread"]
      /\ wallets' = [wallets EXCEPT ![a] = row]
      /\ mem' = [mem EXCEPT ![c] = Blank]
      /\ Record(a, arg[c].user, n)
      /\ UNCHANGED <<now, challenge, arg>>
  BY DEF ReactivateWrite, Goto
<1>2. a \in Accounts /\ n \in NonceIds /\ Bound(a)
  <2>1. arg[c].op = "bind" /\ OwnedBy(a, arg[c].user)
    BY <1>1 DEF RowsInv, TypeOK, RowFound, BindSteps, Holding, ReactivateSteps
  <2> QED BY <1>1, <2>1, ArgFields DEF RowsInv, OwnedBy
<1>3. row \in Row /\ row.owner = wallets[a].owner
  <2>1. wallets[a] \in Row /\ (~mem[c].hasDefault) \in BOOLEAN
    BY <1>2 DEF RowsInv, TypeOK, Bound
  <2> QED BY <1>2, <2>1, RowFields
<1> HIDE DEF a, n, row
<1>4. wallets \in [Accounts -> Row \cup {None}]
  BY DEF RowsInv, TypeOK
<1>5. /\ wallets' \in [Accounts -> Row \cup {None}]
      /\ OwnersKept
  BY <1>1, <1>2, <1>3, <1>4, NoneAssumption DEF Bound, OwnersKept
<1>6. uses' \in [NonceIds -> Nat] /\ witness' \in [Calls -> BOOLEAN]
  BY <1>1, <1>2, RecordTypes
<1>7. /\ ownerLock' \in [Users -> Calls \cup {None}]
      /\ rowLock' \in [Accounts -> Calls \cup {None}]
  BY ReleaseTypes DEF ReactivateWrite
<1>8. "reread" \in Steps /\ "reread" \notin BindSteps /\ "reread" \notin ReactivateSteps
  BY DEF Steps, BindSteps, Holding, CreateSteps, ReactivateSteps
<1>9. \A k \in NonceIds : ~Fresh(k) => ~Fresh(k)'
  BY <1>1 DEF Fresh
<1> QED BY <1>1, <1>5, <1>6, <1>7, <1>8, <1>9, BlankLocal, RowsAfter DEF RowsInv, TypeOK

LEMMA DisableWriteRows ==
  ASSUME RowsInv, NEW c \in Calls, DisableWrite(c)
  PROVE  RowsInv' /\ OwnersKept /\ FlagsOnly
<1> DEFINE a == arg[c].account
           target == mem[c].target
           disabled == [wallets EXCEPT ![a] = Disabled(wallets[a])]
<1>1. /\ pc[c] = "disableWrite"
      /\ pc' = [pc EXCEPT ![c] = "ok"]
      /\ wallets' = IF target = None THEN disabled
                    ELSE [disabled EXCEPT ![target] = [disabled[target] EXCEPT !.isDefault = TRUE]]
      /\ mem' = [mem EXCEPT ![c] = Blank]
      /\ UNCHANGED <<now, challenge, uses, witness, arg>>
  BY DEF DisableWrite, Goto
<1>2. /\ wallets \in [Accounts -> Row \cup {None}]
      /\ a \in Accounts /\ Bound(a)
      /\ target # None => target \in Accounts /\ Bound(target)
  BY <1>1, ArgFields DEF RowsInv, TypeOK, Local, RowFound, OwnedBy
<1>3. /\ disabled \in [Accounts -> Row \cup {None}]
      /\ \A b \in Accounts : Bound(b) => SameProof(disabled[b], wallets[b])
      /\ \A b \in Accounts : ~Bound(b) => disabled[b] = None
  <2>1. wallets[a] \in Row
    BY <1>2 DEF Bound
  <2>2. SameProof(Disabled(wallets[a]), wallets[a])
    BY <2>1, RowFields DEF SameProof
  <2> HIDE DEF a
  <2> QED BY <1>2, <2>2 DEF Bound, SameProof
<1> HIDE DEF a, disabled
<1> USE DEF SameProof
<1>4. /\ wallets' \in [Accounts -> Row \cup {None}]
      /\ \A b \in Accounts : Bound(b) => SameProof(wallets'[b], wallets[b])
      /\ \A b \in Accounts : ~Bound(b) => wallets'[b] = None
  <2>1. CASE target = None
    BY <1>1, <1>3, <2>1
  <2>2. CASE target # None
    <3> DEFINE row == [disabled[target] EXCEPT !.isDefault = TRUE]
    <3>1. SameProof(row, wallets[target])
      BY <1>2, <1>3, <2>2, RowFields DEF SameProof
    <3>2. wallets' = [disabled EXCEPT ![target] = row]
      BY <1>1, <2>2
    <3> HIDE DEF row, target
    <3> QED BY <1>2, <1>3, <2>2, <3>1, <3>2
  <2> QED BY <2>1, <2>2
<1>5. OwnersKept /\ FlagsOnly
  BY <1>4, NoneAssumption DEF Bound, OwnersKept, FlagsOnly
<1>6. /\ ownerLock' \in [Users -> Calls \cup {None}]
      /\ rowLock' \in [Accounts -> Calls \cup {None}]
  BY ReleaseTypes DEF DisableWrite
<1>7. "ok" \in Steps /\ "ok" \notin BindSteps /\ "ok" \notin ReactivateSteps
  BY DEF Steps, BindSteps, Holding, CreateSteps, ReactivateSteps
<1>8. \A k \in NonceIds : ~Fresh(k) => ~Fresh(k)'
  BY <1>1 DEF Fresh
<1> QED BY <1>1, <1>4, <1>5, <1>6, <1>7, <1>8, BlankLocal, RowsAfter DEF RowsInv, TypeOK

LEMMA SetWriteRows ==
  ASSUME RowsInv, NEW c \in Calls, SetWrite(c)
  PROVE  RowsInv' /\ OwnersKept /\ FlagsOnly
<1> DEFINE a == arg[c].account
           owned == {b \in Accounts : Bound(b) /\ wallets[b].owner = arg[c].user}
<1>1. /\ pc[c] = "setWrite"
      /\ pc' = [pc EXCEPT ![c] = "reread"]
      /\ wallets' = [b \in Accounts |->
           IF b \in owned THEN [wallets[b] EXCEPT !.isDefault = (b = a)] ELSE wallets[b]]
      /\ UNCHANGED <<now, challenge, uses, witness, arg, mem>>
  BY DEF SetWrite, Goto
<1>2. ASSUME NEW b \in Accounts
      PROVE  /\ wallets'[b] \in Row \cup {None}
             /\ Bound(b) => SameProof(wallets'[b], wallets[b])
             /\ ~Bound(b) => wallets'[b] = None
  <2>1. wallets[b] \in Row \cup {None}
    BY DEF RowsInv, TypeOK
  <2>2. CASE b \in owned
    <3> DEFINE row == [wallets[b] EXCEPT !.isDefault = (b = a)]
    <3>1. wallets[b] \in Row /\ (b = a) \in BOOLEAN /\ Bound(b)
      BY <2>1, <2>2 DEF Bound
    <3>2. SameProof(row, wallets[b])
      BY <3>1, RowFields DEF SameProof
    <3>3. wallets'[b] = row
      BY <1>1, <2>2
    <3> HIDE DEF row
    <3> QED BY <3>1, <3>2, <3>3 DEF SameProof
  <2>3. CASE b \notin owned
    BY <1>1, <2>1, <2>3 DEF Bound, SameProof
  <2> QED BY <2>2, <2>3
<1> HIDE DEF a, owned
<1>3. /\ wallets' \in [Accounts -> Row \cup {None}]
      /\ OwnersKept /\ FlagsOnly
  BY <1>1, <1>2, NoneAssumption DEF Bound, OwnersKept, FlagsOnly, SameProof
<1>4. /\ ownerLock' \in [Users -> Calls \cup {None}]
      /\ rowLock' \in [Accounts -> Calls \cup {None}]
  BY ReleaseTypes DEF SetWrite
<1>5. "reread" \in Steps /\ "reread" \notin BindSteps /\ "reread" \notin ReactivateSteps
  BY DEF Steps, BindSteps, Holding, CreateSteps, ReactivateSteps
<1>6. \A k \in NonceIds : ~Fresh(k) => ~Fresh(k)'
  BY <1>1 DEF Fresh
<1>7. mem[c] \in Local /\ mem[c].target = None /\ mem' = [mem EXCEPT ![c] = mem[c]]
  BY <1>1, NoTarget, SameLocals DEF RowsInv
<1> QED BY <1>1, <1>3, <1>4, <1>5, <1>6, <1>7, RowsAfter DEF RowsInv, TypeOK

LEMMA UnsetDefaultRows ==
  ASSUME RowsInv, NEW c \in Calls, UnsetDefault(c)
  PROVE  RowsInv' /\ OwnersKept /\ FlagsOnly
<1> DEFINE a == arg[c].account
           row == [wallets[a] EXCEPT !.isDefault = FALSE]
<1>1. /\ pc[c] = "unset"
      /\ \/ UNCHANGED wallets
         \/ Bound(a) /\ wallets' = [wallets EXCEPT ![a] = row]
      /\ UNCHANGED <<now, challenge, uses, witness, arg, mem, ownerLock, rowLock>>
  BY DEF UnsetDefault, ActiveOf, LocksUnchanged
<1>2. PICK s \in {"reread", "failed"} : pc' = [pc EXCEPT ![c] = s]
  BY DEF UnsetDefault, Goto
<1>3. a \in Accounts /\ wallets \in [Accounts -> Row \cup {None}]
  BY <1>1, ArgFields DEF RowsInv, TypeOK
<1>4. Bound(a) => SameProof(row, wallets[a])
  <2> SUFFICES ASSUME wallets[a] # None PROVE SameProof(row, wallets[a])
    BY DEF Bound
  <2>1. wallets[a] \in Row
    BY <1>3
  <2> QED BY <2>1, RowFields DEF SameProof
<1> HIDE DEF a, row
<1>5. /\ wallets' \in [Accounts -> Row \cup {None}]
      /\ OwnersKept /\ FlagsOnly
  BY <1>1, <1>3, <1>4, NoneAssumption DEF Bound, OwnersKept, FlagsOnly, SameProof
<1>6. s \in Steps /\ s \notin BindSteps /\ s \notin ReactivateSteps
  BY DEF Steps, BindSteps, Holding, CreateSteps, ReactivateSteps
<1>7. \A k \in NonceIds : ~Fresh(k) => ~Fresh(k)'
  BY <1>1 DEF Fresh
<1>8. mem[c] \in Local /\ mem[c].target = None /\ mem' = [mem EXCEPT ![c] = mem[c]]
  BY <1>1, NoTarget, SameLocals DEF RowsInv
<1> QED BY <1>1, <1>2, <1>5, <1>6, <1>7, <1>8, RowsAfter DEF RowsInv, TypeOK

LEMMA RowsStep == RowsInv /\ [Next]_vars => RowsInv'
<1> SUFFICES ASSUME RowsInv, [Next]_vars PROVE RowsInv'
  OBVIOUS
<1>1. ASSUME NEW c \in Calls, Advance(c) PROVE RowsInv'
  BY <1>1, StoreChallengeRows, CollideChallengeRows, ConsumeRows, FindRows, LockOwnerRows,
     CountDefaultsRows, SelectForUpdateRows, CreateWriteRows, ReactivateWriteRows, RereadRows,
     DisableReplaceRows, DisableWriteRows, UpdateLabelRows, SetWriteRows, UnsetDefaultRows,
     ReturnRows DEF Advance
<1>2. CASE UNCHANGED vars
  BY <1>2 DEF vars, RowsInv, TypeOK, RowFound, OwnedBy, Bound, Fresh
<1> QED BY <1>1, <1>2, CallRows, AbortRows, EvictRows, TickRows DEF Next

\* Every variable keeps its type, and a step only ever writes a row and answers
\* for a challenge that exist.
THEOREM TypeCorrect == Spec => []TypeOK
<1>1. RowsInv => TypeOK
  BY DEF RowsInv
<1> QED BY <1>1, RowsInit, RowsStep, PTL DEF Spec

LEMMA OwnersStep == RowsInv /\ [Next]_vars => OwnersKept
<1> SUFFICES ASSUME RowsInv, [Next]_vars PROVE OwnersKept
  OBVIOUS
<1>1. CASE UNCHANGED wallets
  BY <1>1 DEF OwnersKept, Bound
<1>2. ASSUME NEW c \in Calls, Advance(c) PROVE OwnersKept
  BY <1>1, <1>2, CreateWriteRows, ReactivateWriteRows, DisableWriteRows, SetWriteRows,
     UnsetDefaultRows DEF Advance, StoreChallenge, CollideChallenge, Consume, Find, LockOwner,
     CountDefaults, SelectForUpdate, Reread, DisableReplace, UpdateLabel, Return, DataUnchanged
<1>3. CASE ~\E c \in Calls : Advance(c)
  BY <1>1, <1>3 DEF Next, Call, Abort, Evict, Tick, vars, DataUnchanged
<1> QED BY <1>2, <1>3

\* A bound account stays bound to its first user, whatever concurrent binds,
\* restorations and removals do (uk_wallet_chain_address, logical unbinding).
THEOREM OwnersStay == Spec => OwnerIsPermanent
<1>1. RowsInv /\ [Next]_vars =>
        [\A a \in Accounts : Bound(a) => Bound(a)' /\ wallets'[a].owner = wallets[a].owner]_wallets
  BY OwnersStep DEF OwnersKept
<1> QED BY <1>1, RowsInit, RowsStep, PTL DEF Spec, OwnerIsPermanent

-----------------------------------------------------------------------------
(* Layer 2: challenges *)

\* c has taken n out of Redis and has written nothing yet.
Holds(c, n) == pc[c] \in Holding /\ arg[c].nonce = n

IssuedFor(n, a, u) ==
  challenge[n] # None /\ challenge[n].user = u /\ challenge[n].account = a /\ ~challenge[n].live

ChallengeInv ==
  /\ OneWritePerChallenge
  /\ ProvenControl
  /\ \A n \in NonceIds : Fresh(n) \/ challenge[n].live => uses[n] = 0
  /\ \A c \in Calls, n \in NonceIds :
       Holds(c, n) => IssuedFor(n, arg[c].account, arg[c].user) /\ uses[n] = 0
  /\ \A c, d \in Calls, n \in NonceIds : Holds(c, n) /\ Holds(d, n) => c = d

LEMMA ChallengeInit == Init => ChallengeInv
BY DEF Init, ChallengeInv, OneWritePerChallenge, ProvenControl, Bound, Fresh, Holds, Holding,
       CreateSteps, ReactivateSteps

\* A call that holds n has a request that names it.
LEMMA HolderFields ==
  ASSUME RowsInv, NEW c \in Calls, pc[c] \in Holding
  PROVE  /\ arg[c].nonce \in NonceIds
         /\ Holds(c, arg[c].nonce)
         /\ pc[c] # "idle"
BY ArgFields DEF RowsInv, RowFound, BindSteps, Holds, Holding, CreateSteps, ReactivateSteps

\* Steps that leave the challenges alone and take no hold.
LEMMA ChallengeKept ==
  ASSUME RowsInv, ChallengeInv, UNCHANGED <<challenge, uses>>, FlagsOnly,
         \A c \in Calls : pc'[c] \in Holding => pc[c] \in Holding /\ arg'[c] = arg[c]
  PROVE  ChallengeInv'
<1>1. OneWritePerChallenge'
  BY DEF ChallengeInv, OneWritePerChallenge
<1>2. ProvenControl'
  BY DEF ChallengeInv, ProvenControl, FlagsOnly
<1>3. \A c \in Calls, n \in NonceIds : Holds(c, n)' => Holds(c, n) /\ arg'[c] = arg[c]
  BY DEF Holds
<1>4. (\A n \in NonceIds : Fresh(n) \/ challenge[n].live => uses[n] = 0)'
  BY DEF ChallengeInv, Fresh
<1>5. (\A c \in Calls, n \in NonceIds :
         Holds(c, n) => IssuedFor(n, arg[c].account, arg[c].user) /\ uses[n] = 0)'
  BY <1>3 DEF ChallengeInv, IssuedFor
<1>6. (\A c, d \in Calls, n \in NonceIds : Holds(c, n) /\ Holds(d, n) => c = d)'
  BY <1>3 DEF ChallengeInv
<1> QED BY <1>1, <1>2, <1>4, <1>5, <1>6 DEF ChallengeInv

\* A step of one call that keeps the requests and does not begin to hold.
LEMMA NoNewHold ==
  ASSUME RowsInv, NEW c \in Calls, NEW s, pc' = [pc EXCEPT ![c] = s],
         \A d \in Calls \ {c} : arg'[d] = arg[d],
         s \in Holding => pc[c] \in Holding /\ arg'[c] = arg[c]
  PROVE  \A d \in Calls : pc'[d] \in Holding => pc[d] \in Holding /\ arg'[d] = arg[d]
BY DEF RowsInv, TypeOK

LEMMA QuietChallenges ==
  ASSUME RowsInv, ChallengeInv, NEW c \in Calls,
         \/ Find(c) \/ LockOwner(c) \/ CountDefaults(c) \/ SelectForUpdate(c) \/ Reread(c)
         \/ DisableReplace(c) \/ UpdateLabel(c) \/ Abort(c)
         \/ \E n \in NonceIds : CollideChallenge(c, n)
         \/ \E r \in Requests : Call(c, r)
         \/ Return(c)
  PROVE  ChallengeInv'
<1>1. UNCHANGED <<challenge, uses, wallets>>
  BY DEF Find, LockOwner, CountDefaults, SelectForUpdate, Reread, DisableReplace, UpdateLabel,
         Abort, CollideChallenge, Call, Return, DataUnchanged
<1>2. FlagsOnly
  BY <1>1 DEF FlagsOnly, Bound
<1>3. \A d \in Calls \ {c} : pc'[d] = pc[d]
  BY DEF Find, LockOwner, CountDefaults, SelectForUpdate, Reread, DisableReplace, UpdateLabel,
         Abort, CollideChallenge, Call, Return, Goto, RowsInv, TypeOK
<1>4. \A d \in Calls \ {c} : arg'[d] = arg[d]
  BY DEF Find, LockOwner, CountDefaults, SelectForUpdate, Reread, DisableReplace, UpdateLabel,
         Abort, CollideChallenge, Call, Return, RowsInv, TypeOK
<1>5. pc'[c] \in Holding => pc[c] \in Holding /\ arg'[c] = arg[c]
  <2> USE DEF Holding, CreateSteps, ReactivateSteps, Goto, RowsInv, TypeOK
  <2>1. CASE Find(c)
    BY <2>1 DEF Find
  <2>2. CASE LockOwner(c)
    BY <2>2, AfterLockSteps DEF LockOwner
  <2>3. CASE CountDefaults(c)
    BY <2>3, AfterCountSteps DEF CountDefaults
  <2>4. CASE SelectForUpdate(c)
    BY <2>4 DEF SelectForUpdate
  <2>5. CASE Reread(c) \/ DisableReplace(c) \/ Abort(c) \/ Return(c)
    BY <2>5 DEF Reread, DisableReplace, Abort, Return
  <2>6. CASE UpdateLabel(c)
    <3>1. arg[c].want \in {"keep", "set", "unset"}
      BY <2>6, RequestFields DEF UpdateLabel
    <3>2. AfterLabel[arg[c].want] \in {"reread", "setLock", "unset"}
      BY <3>1 DEF AfterLabel
    <3> QED BY <2>6, <3>2 DEF UpdateLabel
  <2>7. CASE \E n \in NonceIds : CollideChallenge(c, n)
    BY <2>7 DEF CollideChallenge
  <2>8. ASSUME NEW r \in Requests, Call(c, r)
        PROVE  pc'[c] \notin Holding
    <3>1. r \in Request
      BY DEF Requests
    <3> QED BY <2>8, <3>1, FirstSteps DEF Call
  <2> QED BY <2>1, <2>2, <2>3, <2>4, <2>5, <2>6, <2>7, <2>8
<1>6. \A d \in Calls : pc'[d] \in Holding => pc[d] \in Holding /\ arg'[d] = arg[d]
  BY <1>3, <1>4, <1>5 DEF RowsInv, TypeOK
<1> QED BY <1>1, <1>2, <1>6, ChallengeKept

LEMMA FlagChallenges ==
  ASSUME RowsInv, ChallengeInv, NEW c \in Calls,
         DisableWrite(c) \/ SetWrite(c) \/ UnsetDefault(c)
  PROVE  ChallengeInv'
<1>1. UNCHANGED <<challenge, uses, arg>>
  BY DEF DisableWrite, SetWrite, UnsetDefault
<1>2. \A d \in Calls : pc'[d] \in Holding => pc[d] \in Holding /\ arg'[d] = arg[d]
  BY <1>1 DEF DisableWrite, SetWrite, UnsetDefault, Goto, RowsInv, TypeOK, Holding, CreateSteps,
              ReactivateSteps
<1>3. FlagsOnly
  BY DisableWriteRows, SetWriteRows, UnsetDefaultRows
<1> QED BY <1>1, <1>2, <1>3, ChallengeKept

(* Steps that issue, end or use a challenge *)

LEMMA StoreChallengeChallenges ==
  ASSUME RowsInv, ChallengeInv, NEW c \in Calls, NEW n \in NonceIds, StoreChallenge(c, n)
  PROVE  ChallengeInv'
<1>1. /\ pc[c] = "draw" /\ pc' = [pc EXCEPT ![c] = "ok"]
      /\ Fresh(n)
      /\ \A k \in NonceIds \ {n} : challenge'[k] = challenge[k]
      /\ UNCHANGED <<wallets, uses, arg>>
  BY DEF StoreChallenge, Goto, RowsInv, TypeOK
<1>2. \A d \in Calls, k \in NonceIds : Holds(d, k)' => Holds(d, k)
  BY <1>1 DEF Holds, Holding, CreateSteps, ReactivateSteps, RowsInv, TypeOK
<1>3. OneWritePerChallenge'
  BY <1>1 DEF ChallengeInv, OneWritePerChallenge
<1>4. ProvenControl'
  <2>1. \A a \in Accounts : Bound(a) => wallets[a].proof \in NonceIds \ {n}
    BY <1>1 DEF RowsInv, TypeOK, Row, ChallengeInv, ProvenControl, Bound, Fresh
  <2> QED BY <1>1, <2>1 DEF ChallengeInv, ProvenControl, Bound
<1>5. (\A k \in NonceIds : Fresh(k) \/ challenge[k].live => uses[k] = 0)'
  BY <1>1 DEF ChallengeInv, Fresh
<1>6. (\A d \in Calls, k \in NonceIds :
         Holds(d, k) => IssuedFor(k, arg[d].account, arg[d].user) /\ uses[k] = 0)'
  <2>1. \A d \in Calls, k \in NonceIds : Holds(d, k) => k # n
    BY <1>1 DEF ChallengeInv, IssuedFor, Fresh
  <2> QED BY <1>1, <1>2, <2>1 DEF ChallengeInv, IssuedFor
<1>7. (\A d, e \in Calls, k \in NonceIds : Holds(d, k) /\ Holds(e, k) => d = e)'
  BY <1>2 DEF ChallengeInv
<1> QED BY <1>3, <1>4, <1>5, <1>6, <1>7 DEF ChallengeInv

\* GETDEL and expiry leave who a challenge was issued for, and take nothing back.
LEMMA EndedChallenge ==
  ASSUME RowsInv, NEW n \in NonceIds, ~Fresh(n),
         challenge' = [challenge EXCEPT ![n].live = FALSE]
  PROVE  /\ ~challenge'[n].live
         /\ \A k \in NonceIds :
              /\ challenge[k] # None =>
                   /\ challenge'[k] # None
                   /\ challenge'[k].user = challenge[k].user
                   /\ challenge'[k].account = challenge[k].account
                   /\ ~challenge[k].live => ~challenge'[k].live
              /\ challenge'[k] = None \/ challenge'[k].live => challenge[k] = None \/ challenge[k].live
<1>1. challenge[n] \in Challenge /\ challenge \in [NonceIds -> Challenge \cup {None}]
  BY DEF RowsInv, TypeOK, Fresh
<1> DEFINE ch == [challenge[n] EXCEPT !.live = FALSE]
<1>2. /\ ch \in Challenge /\ ch.user = challenge[n].user
      /\ ch.account = challenge[n].account /\ ~ch.live
  BY <1>1 DEF Challenge
<1> HIDE DEF ch
<1>3. challenge'[n] = ch /\ \A k \in NonceIds \ {n} : challenge'[k] = challenge[k]
  BY <1>1 DEF ch
<1>4. ch # None
  BY <1>2, NoneAssumption
<1> QED BY <1>2, <1>3, <1>4 DEF Fresh

LEMMA EndedKept ==
  ASSUME RowsInv, ChallengeInv, NEW n \in NonceIds, ~Fresh(n),
         challenge' = [challenge EXCEPT ![n].live = FALSE],
         UNCHANGED <<wallets, uses, arg>>,
         NEW c,
         \A d \in Calls : pc'[d] \in Holding =>
           \/ pc[d] \in Holding
           \/ /\ d = c /\ arg[c].nonce = n
              /\ challenge[n].live
              /\ challenge[n].user = arg[c].user
              /\ challenge[n].account = arg[c].account
  PROVE  ChallengeInv'
<1>1. OneWritePerChallenge'
  BY DEF ChallengeInv, OneWritePerChallenge
<1>2. ProvenControl'
  <2> SUFFICES ASSUME NEW a \in Accounts, wallets[a] # None
               PROVE  /\ challenge'[wallets[a].proof] # None
                      /\ challenge'[wallets[a].proof].user = wallets[a].owner
                      /\ challenge'[wallets[a].proof].account = a
                      /\ ~challenge'[wallets[a].proof].live
    BY DEF ProvenControl, Bound
  <2>1. wallets[a].proof \in NonceIds
    BY DEF RowsInv, TypeOK, Row
  <2>2. /\ challenge[wallets[a].proof] # None
        /\ challenge[wallets[a].proof].user = wallets[a].owner
        /\ challenge[wallets[a].proof].account = a
        /\ ~challenge[wallets[a].proof].live
    BY DEF ChallengeInv, ProvenControl, Bound
  <2> QED BY <2>1, <2>2, EndedChallenge
<1>3. (\A k \in NonceIds : Fresh(k) \/ challenge[k].live => uses[k] = 0)'
  BY EndedChallenge DEF ChallengeInv, Fresh
<1>4. ASSUME NEW d \in Calls, NEW k \in NonceIds, Holds(d, k)'
      PROVE  \/ Holds(d, k)
             \/ /\ d = c /\ k = n /\ challenge[n].live
                /\ challenge[n].user = arg[c].user
                /\ challenge[n].account = arg[c].account
  BY <1>4 DEF Holds
<1>5. (\A d \in Calls, k \in NonceIds :
         Holds(d, k) => IssuedFor(k, arg[d].account, arg[d].user) /\ uses[k] = 0)'
  <2> SUFFICES ASSUME NEW d \in Calls, NEW k \in NonceIds, Holds(d, k)'
               PROVE  IssuedFor(k, arg[d].account, arg[d].user)' /\ uses'[k] = 0
    OBVIOUS
  <2>1. challenge[k] # None /\ challenge[k].user = arg[d].user /\ challenge[k].account = arg[d].account
    BY <1>4 DEF ChallengeInv, IssuedFor, Fresh
  <2>2. uses[k] = 0
    BY <1>4 DEF ChallengeInv
  <2>3. ~challenge'[k].live
    BY <1>4, EndedChallenge DEF ChallengeInv, IssuedFor
  <2> QED BY <2>1, <2>2, <2>3, EndedChallenge DEF IssuedFor
<1>6. (\A d, e \in Calls, k \in NonceIds : Holds(d, k) /\ Holds(e, k) => d = e)'
  <2> SUFFICES ASSUME NEW d \in Calls, NEW e \in Calls, NEW k \in NonceIds, Holds(d, k)', Holds(e, k)'
               PROVE  d = e
    OBVIOUS
  <2>1. \A f \in Calls : Holds(f, k) => ~challenge[k].live
    BY DEF ChallengeInv, IssuedFor
  <2> QED BY <1>4, <2>1 DEF ChallengeInv
<1> QED BY <1>1, <1>2, <1>3, <1>5, <1>6 DEF ChallengeInv

LEMMA ConsumeChallenges ==
  ASSUME RowsInv, ChallengeInv, NEW c \in Calls, Consume(c) PROVE ChallengeInv'
<1>1. PICK n \in NonceIds : n = arg[c].nonce /\ ~Fresh(n)
  BY ArgFields DEF Consume, RowsInv, RowFound, BindSteps
<1>2. challenge' = [challenge EXCEPT ![n].live = FALSE] /\ UNCHANGED <<wallets, uses, arg>>
  BY <1>1 DEF Consume, GetDel
<1>3. \A d \in Calls \ {c} : pc'[d] = pc[d]
  BY DEF Consume, Goto, RowsInv, TypeOK
<1>4. pc'[c] \in Holding => Accepts(challenge[n], arg[c])
  BY <1>1 DEF Consume, Goto, RowsInv, TypeOK, Holding, CreateSteps, ReactivateSteps
<1>5. \A d \in Calls : pc'[d] \in Holding =>
        \/ pc[d] \in Holding
        \/ /\ d = c /\ arg[c].nonce = n
           /\ challenge[n].live
           /\ challenge[n].user = arg[c].user
           /\ challenge[n].account = arg[c].account
  BY <1>1, <1>3, <1>4 DEF Accepts, AcceptsAnyUser
<1> QED BY <1>1, <1>2, <1>5, EndedKept

LEMMA EvictChallenges ==
  ASSUME RowsInv, ChallengeInv, NEW n \in NonceIds, Evict(n) PROVE ChallengeInv'
<1>1. UNCHANGED <<wallets, uses, arg, pc>> /\ challenge' = [challenge EXCEPT ![n].live = FALSE] /\ ~Fresh(n)
  BY DEF Evict
<1> QED BY <1>1, EndedKept

\* The write that the challenge n, held by c, authorises.
LEMMA AuthorisedWrite ==
  ASSUME RowsInv, ChallengeInv, NEW c \in Calls, NEW a, NEW n, NEW s,
         a = arg[c].account, n = arg[c].nonce, pc[c] \in Holding, s \notin Holding,
         pc' = [pc EXCEPT ![c] = s], UNCHANGED <<challenge, arg>>,
         \A b \in Accounts \ {a} : wallets'[b] = wallets[b],
         wallets'[a].owner = arg[c].user, wallets'[a].proof = n,
         uses' = [uses EXCEPT ![n] = @ + 1]
  PROVE  ChallengeInv'
<1>1. /\ n \in NonceIds /\ Holds(c, n)
      /\ uses[n] = 0 /\ IssuedFor(n, a, arg[c].user)
  BY HolderFields DEF ChallengeInv
<1>2. \A k \in NonceIds : uses'[k] = IF k = n THEN 1 ELSE uses[k]
  BY <1>1 DEF RowsInv, TypeOK
<1>3. \A d \in Calls, k \in NonceIds : Holds(d, k)' => Holds(d, k) /\ d # c
  BY DEF Holds, RowsInv, TypeOK
<1>4. \A d \in Calls : Holds(d, n)' => FALSE
  BY <1>1, <1>3 DEF ChallengeInv
<1>5. OneWritePerChallenge'
  BY <1>2 DEF ChallengeInv, OneWritePerChallenge
<1>6. ProvenControl'
  <2> SUFFICES ASSUME NEW b \in Accounts, wallets'[b] # None
               PROVE  /\ challenge[wallets'[b].proof] # None
                      /\ challenge[wallets'[b].proof].user = wallets'[b].owner
                      /\ challenge[wallets'[b].proof].account = b
                      /\ ~challenge[wallets'[b].proof].live
    BY DEF ProvenControl, Bound
  <2>1. CASE b = a
    BY <1>1, <2>1 DEF IssuedFor
  <2>2. CASE b # a
    BY <2>2 DEF ChallengeInv, ProvenControl, Bound
  <2> QED BY <2>1, <2>2
<1>7. (\A k \in NonceIds : Fresh(k) \/ challenge[k].live => uses[k] = 0)'
  BY <1>1, <1>2 DEF ChallengeInv, Fresh, IssuedFor
<1>8. (\A d \in Calls, k \in NonceIds :
         Holds(d, k) => IssuedFor(k, arg[d].account, arg[d].user) /\ uses[k] = 0)'
  BY <1>2, <1>3, <1>4 DEF ChallengeInv, IssuedFor
<1>9. (\A d, e \in Calls, k \in NonceIds : Holds(d, k) /\ Holds(e, k) => d = e)'
  BY <1>3 DEF ChallengeInv
<1> QED BY <1>5, <1>6, <1>7, <1>8, <1>9 DEF ChallengeInv

LEMMA CreateWriteChallenges ==
  ASSUME RowsInv, ChallengeInv, NEW c \in Calls, CreateWrite(c) PROVE ChallengeInv'
<1>1. /\ pc[c] = "createWrite" /\ UNCHANGED <<challenge, arg>>
      /\ pc[c] \in Holding /\ "winner" \notin Holding /\ "ok" \notin Holding
  BY DEF CreateWrite, Holding, CreateSteps, ReactivateSteps
<1>2. PICK s \in {"winner", "ok"} : pc' = [pc EXCEPT ![c] = s]
  BY DEF CreateWrite, Goto
<1>3. CASE UNCHANGED <<wallets, uses>>
  <2>1. FlagsOnly
    BY <1>3 DEF FlagsOnly, Bound
  <2>2. \A d \in Calls : pc'[d] \in Holding => pc[d] \in Holding /\ arg'[d] = arg[d]
    BY <1>1, <1>2 DEF RowsInv, TypeOK
  <2> QED BY <1>1, <1>3, <2>1, <2>2, ChallengeKept
<1>4. CASE ~UNCHANGED <<wallets, uses>>
  <2> DEFINE a == arg[c].account
             row == [owner |-> arg[c].user, active |-> TRUE, isDefault |-> ~mem[c].hasDefault,
                     createdAt |-> mem[c].at, proof |-> arg[c].nonce]
  <2>1. /\ wallets' = [wallets EXCEPT ![a] = row]
        /\ uses' = [uses EXCEPT ![arg[c].nonce] = @ + 1]
    BY <1>4 DEF CreateWrite, Record
  <2>2. a \in Accounts /\ wallets \in [Accounts -> Row \cup {None}]
    BY <1>1, ArgFields DEF RowsInv, TypeOK
  <2>3. /\ wallets'[a].owner = arg[c].user /\ wallets'[a].proof = arg[c].nonce
        /\ \A b \in Accounts \ {a} : wallets'[b] = wallets[b]
    BY <2>1, <2>2
  <2> HIDE DEF row
  <2> QED BY <1>1, <1>2, <2>1, <2>3, AuthorisedWrite
<1> QED BY <1>3, <1>4

LEMMA ReactivateWriteChallenges ==
  ASSUME RowsInv, ChallengeInv, NEW c \in Calls, ReactivateWrite(c) PROVE ChallengeInv'
<1> DEFINE a == arg[c].account
           row == [wallets[a] EXCEPT !.active = TRUE, !.isDefault = ~mem[c].hasDefault,
                                     !.proof = arg[c].nonce]
<1>1. /\ pc[c] = "reactivateWrite" /\ UNCHANGED <<challenge, arg>>
      /\ pc' = [pc EXCEPT ![c] = "reread"]
      /\ wallets' = [wallets EXCEPT ![a] = row]
      /\ uses' = [uses EXCEPT ![arg[c].nonce] = @ + 1]
  BY DEF ReactivateWrite, Record, Goto
<1>2. pc[c] \in Holding /\ "reread" \notin Holding
  BY <1>1 DEF Holding, CreateSteps, ReactivateSteps
<1>3. /\ a \in Accounts /\ wallets \in [Accounts -> Row \cup {None}]
      /\ OwnedBy(a, arg[c].user)
  BY <1>1, ArgFields DEF RowsInv, TypeOK, RowFound, ReactivateSteps
<1>4. wallets[a] \in Row /\ wallets[a].owner = arg[c].user
  BY <1>3 DEF OwnedBy, Bound
<1>5. row.owner = arg[c].user /\ row.proof = arg[c].nonce
  BY <1>4 DEF Row
<1>6. /\ wallets'[a] = row
      /\ \A b \in Accounts \ {a} : wallets'[b] = wallets[b]
  BY <1>1, <1>3
<1> HIDE DEF row
<1> QED BY <1>1, <1>2, <1>5, <1>6, AuthorisedWrite

LEMMA ChallengeStep == RowsInv /\ ChallengeInv /\ [Next]_vars => ChallengeInv'
<1> SUFFICES ASSUME RowsInv, ChallengeInv, [Next]_vars PROVE ChallengeInv'
  OBVIOUS
<1>1. ASSUME NEW c \in Calls, Advance(c) PROVE ChallengeInv'
  BY <1>1, QuietChallenges, FlagChallenges, StoreChallengeChallenges, ConsumeChallenges,
     CreateWriteChallenges, ReactivateWriteChallenges DEF Advance
<1>2. ASSUME NEW c \in Calls, Abort(c) \/ \E r \in Requests : Call(c, r) PROVE ChallengeInv'
  BY <1>2, QuietChallenges
<1>3. CASE Tick \/ UNCHANGED vars
  <2>1. UNCHANGED <<challenge, uses, wallets, pc, arg>>
    BY <1>3 DEF Tick, vars
  <2> QED BY <2>1, ChallengeKept DEF FlagsOnly, Bound
<1> QED BY <1>1, <1>2, <1>3, EvictChallenges DEF Next

\* One challenge authorises at most one write, for any number of concurrent
\* binds, replays and lost answers (GetDel in NonceStore.Consume).
THEOREM ChallengeUsedOnce == Spec => []OneWritePerChallenge
<1>1. ChallengeInv => OneWritePerChallenge
  BY DEF ChallengeInv
<1> QED BY <1>1, RowsInit, RowsStep, ChallengeInit, ChallengeStep, PTL DEF Spec

\* Each row rests on a consumed challenge of its owner for its account, for any
\* number of users that race for it.
THEOREM RowsAreProven == Spec => []ProvenControl
<1>1. ChallengeInv => ProvenControl
  BY DEF ChallengeInv
<1> QED BY <1>1, RowsInit, RowsStep, ChallengeInit, ChallengeStep, PTL DEF Spec

-----------------------------------------------------------------------------
(* Layer 3: locks and defaults *)

\* A transaction has its locks.
HeldBy(c) ==
  /\ pc[c] \in Locked => ownerLock[arg[c].user] = c
  /\ pc[c] \in {"disableReplace", "disableWrite"} => rowLock[arg[c].account] = c

\* What a transaction has read still holds when it writes.
StillTrue(c) ==
  LET a == arg[c].account
      u == arg[c].user
      target == mem[c].target
  IN /\ pc[c] \in {"createWrite", "reactivateWrite"} /\ ~mem[c].hasDefault => ~HasDefault(u)
     /\ pc[c] \in {"disableReplace", "disableWrite", "setWrite"} => ActiveOf(a, u)
     /\ pc[c] = "disableReplace" => DefaultOf(a, u)
     /\ pc[c] = "disableWrite" /\ target # None
          => DefaultOf(a, u) /\ target # a /\ ActiveOf(target, u)

DefaultInv ==
  /\ AtMostOneDefault
  /\ DefaultIsActive
  /\ \A c \in Calls : HeldBy(c) /\ StillTrue(c)

LEMMA DefaultInit == Init => DefaultInv
BY DEF Init, DefaultInv, AtMostOneDefault, DefaultIsActive, Bound, HeldBy, StillTrue, Locked

\* A step of another call keeps what d relies on.
LEMMA CallKept ==
  ASSUME RowsInv, DefaultInv, NEW d \in Calls,
         pc'[d] = pc[d], arg'[d] = arg[d], mem'[d] = mem[d],
         \A u \in Users : ownerLock[u] = d => ownerLock'[u] = d,
         \A a \in Accounts : rowLock[a] = d => rowLock'[a] = d,
         \A u \in Users :
           pc[d] \in Locked /\ u = arg[d].user =>
             /\ HasDefault(u)' => HasDefault(u)
             /\ \A a \in Accounts : ActiveOf(a, u) => ActiveOf(a, u)'
             /\ \A a \in Accounts : rowLock[a] = d /\ DefaultOf(a, u) => DefaultOf(a, u)'
  PROVE  HeldBy(d)' /\ StillTrue(d)'
<1>1. HeldBy(d) /\ StillTrue(d)
  BY DEF DefaultInv
<1>2. CASE pc[d] \notin Locked
  BY <1>2 DEF HeldBy, StillTrue, Locked
<1>3. CASE pc[d] \in Locked
  <2>1. /\ arg[d].user \in Users /\ arg[d].account \in Accounts
        /\ mem[d].target \in Accounts \cup {None}
    BY <1>3, ArgFields DEF Locked, RowsInv, TypeOK, Local
  <2> DEFINE a == arg[d].account
             u == arg[d].user
             target == mem[d].target
  <2>2. HeldBy(d)'
    BY <1>1, <2>1 DEF HeldBy, Locked
  <2>3. /\ HasDefault(u)' => HasDefault(u)
        /\ ActiveOf(a, u) => ActiveOf(a, u)'
        /\ target # None /\ ActiveOf(target, u) => ActiveOf(target, u)'
        /\ rowLock[a] = d /\ DefaultOf(a, u) => DefaultOf(a, u)'
    BY <1>3, <2>1 DEF HasDefault, ActiveOf, DefaultOf, Bound
  <2>4. pc[d] \in {"disableReplace", "disableWrite"} => rowLock[a] = d
    BY <1>1 DEF HeldBy
  <2>5. StillTrue(d)'
    BY <1>1, <2>3, <2>4 DEF StillTrue
  <2> QED BY <2>2, <2>5
<1> QED BY <1>2, <1>3

\* Two transactions of one user are not open behind the owner lock at once.
LEMMA OneLocked ==
  ASSUME DefaultInv, NEW c \in Calls, NEW d \in Calls, pc[c] \in Locked, pc[d] \in Locked,
         arg[c].user = arg[d].user
  PROVE  c = d
BY DEF DefaultInv, HeldBy

\* The end of a transaction takes no lock from another one.
LEMMA OthersKeepLocks ==
  ASSUME RowsInv, NEW c \in Calls, NEW d \in Calls \ {c}, ReleaseLocks(c)
  PROVE  /\ \A u \in Users : ownerLock[u] = d => ownerLock'[u] = d
         /\ \A a \in Accounts : rowLock[a] = d => rowLock'[a] = d
BY DEF ReleaseLocks, ReleaseRowLocks

\* A call that holds no owner lock relies on nothing.
LEMMA Unlocked ==
  ASSUME NEW c \in Calls, pc'[c] \notin Locked
  PROVE  HeldBy(c)' /\ StillTrue(c)'
BY DEF HeldBy, StillTrue, Locked

\* The variables of the calls that do not step.
OthersStay(c) ==
  \A d \in Calls \ {c} : pc'[d] = pc[d] /\ arg'[d] = arg[d] /\ mem'[d] = mem[d]

LocksStay(c) ==
  \A d \in Calls \ {c} :
    /\ \A u \in Users : ownerLock[u] = d => ownerLock'[u] = d
    /\ \A a \in Accounts : rowLock[a] = d => rowLock'[a] = d

LEMMA ReleaseStays == ASSUME RowsInv, NEW c \in Calls, ReleaseLocks(c) PROVE LocksStay(c)
BY OthersKeepLocks DEF LocksStay

\* Steps that write no row.
LEMMA QuietDefaults ==
  ASSUME RowsInv, DefaultInv, NEW c \in Calls, UNCHANGED wallets, OthersStay(c), LocksStay(c),
         HeldBy(c)' /\ StillTrue(c)'
  PROVE  DefaultInv'
<1>1. AtMostOneDefault' /\ DefaultIsActive'
  BY DEF DefaultInv, AtMostOneDefault, DefaultIsActive, Bound
<1>2. \A u, a : /\ HasDefault(u)' => HasDefault(u)
                /\ ActiveOf(a, u) => ActiveOf(a, u)'
                /\ DefaultOf(a, u) => DefaultOf(a, u)'
  BY DEF HasDefault, ActiveOf, DefaultOf, Bound
<1>3. \A d \in Calls \ {c} : HeldBy(d)' /\ StillTrue(d)'
  BY <1>2, CallKept DEF OthersStay, LocksStay
<1> QED BY <1>1, <1>3 DEF DefaultInv

LEMMA LockOwnerDefaults ==
  ASSUME RowsInv, DefaultInv, NEW c \in Calls, LockOwner(c) PROVE DefaultInv'
<1>1. /\ pc[c] \in DOMAIN AfterLock /\ pc'[c] = AfterLock[pc[c]]
      /\ UNCHANGED <<wallets, rowLock>> /\ OthersStay(c) /\ arg'[c] = arg[c]
  BY DEF LockOwner, Goto, DataUnchanged, OthersStay, RowsInv, TypeOK
<1>2. pc'[c] \in {"createCount", "reactivateCount", "disableSelect", "setSelect"} /\ pc[c] # "idle"
  BY <1>1, AfterLockSteps
<1>3. /\ arg[c].user \in Users /\ ownerLock[arg[c].user] = None
      /\ ownerLock' = [ownerLock EXCEPT ![arg[c].user] = c]
      /\ ownerLock \in [Users -> Calls \cup {None}]
  BY <1>2, ArgFields DEF LockOwner, TakeOwnerLock, RowsInv, TypeOK
<1>4. LocksStay(c)
  BY <1>1, <1>3, NoneAssumption DEF LocksStay
<1>5. HeldBy(c)' /\ StillTrue(c)'
  BY <1>1, <1>2, <1>3 DEF HeldBy, StillTrue
<1> QED BY <1>1, <1>4, <1>5, QuietDefaults

LEMMA CountDefaultsDefaults ==
  ASSUME RowsInv, DefaultInv, NEW c \in Calls, CountDefaults(c) PROVE DefaultInv'
<1>1. /\ pc[c] \in DOMAIN AfterCount /\ pc'[c] = AfterCount[pc[c]]
      /\ UNCHANGED <<wallets, rowLock, ownerLock, arg>> /\ OthersStay(c)
      /\ mem'[c].hasDefault = HasDefault(arg[c].user)
  <2>1. mem[c] \in Local /\ mem \in [Calls -> Local] /\ pc \in [Calls -> Steps]
    BY DEF RowsInv, TypeOK
  <2> DEFINE m == [mem[c] EXCEPT !.hasDefault = HasDefault(arg[c].user)]
  <2>2. mem' = [mem EXCEPT ![c] = m] /\ m.hasDefault = HasDefault(arg[c].user)
    BY <2>1 DEF CountDefaults, Local
  <2> HIDE DEF m
  <2> QED BY <2>1, <2>2 DEF CountDefaults, Goto, DataUnchanged, LocksUnchanged, OthersStay
<1>2. /\ pc'[c] \in {"createWrite", "reactivateWrite"}
      /\ pc[c] \in {"createCount", "reactivateCount"}
  BY <1>1, AfterCountSteps
<1>3. HeldBy(c)'
  BY <1>1, <1>2 DEF HeldBy, Locked, DefaultInv
<1>4. StillTrue(c)'
  BY <1>1, <1>2 DEF StillTrue, HasDefault, DefaultOf, ActiveOf, Bound
<1> QED BY <1>1, <1>3, <1>4, QuietDefaults DEF LocksStay

LEMMA SelectForUpdateDefaults ==
  ASSUME RowsInv, DefaultInv, NEW c \in Calls, SelectForUpdate(c) PROVE DefaultInv'
<1> DEFINE a == arg[c].account
<1>1. /\ pc[c] \in {"disableSelect", "setSelect"}
      /\ UNCHANGED <<wallets, arg, mem>> /\ OthersStay(c) /\ RowFree(a, c)
  BY DEF SelectForUpdate, Goto, DataUnchanged, OthersStay, RowsInv, TypeOK
<1>2. CASE ActiveOf(a, arg[c].user)
  <2>1. /\ rowLock' = [rowLock EXCEPT ![a] = c] /\ UNCHANGED ownerLock
        /\ pc'[c] = IF pc[c] = "setSelect" THEN "setWrite"
                    ELSE IF wallets[a].isDefault THEN "disableReplace" ELSE "disableWrite"
    BY <1>2 DEF SelectForUpdate, Goto, RowsInv, TypeOK
  <2>2. a \in Accounts /\ rowLock \in [Accounts -> Calls \cup {None}] /\ mem[c].target = None
    BY <1>1, ArgFields, NoTarget DEF RowsInv, TypeOK
  <2>3. LocksStay(c)
    BY <1>1, <2>1, <2>2, NoneAssumption DEF LocksStay, RowFree
  <2>4. HeldBy(c)'
    BY <1>1, <2>1, <2>2 DEF HeldBy, Locked, DefaultInv
  <2>5. StillTrue(c)'
    BY <1>1, <1>2, <2>1, <2>2 DEF StillTrue, DefaultOf, ActiveOf, Bound
  <2> QED BY <1>1, <2>3, <2>4, <2>5, QuietDefaults
<1>3. CASE ~ActiveOf(a, arg[c].user)
  <2>1. pc'[c] = "failed" /\ ReleaseLocks(c)
    BY <1>3 DEF SelectForUpdate, Goto, RowsInv, TypeOK
  <2>2. HeldBy(c)' /\ StillTrue(c)'
    BY <2>1, Unlocked DEF Locked
  <2> QED BY <1>1, <2>1, <2>2, ReleaseStays, QuietDefaults
<1> QED BY <1>2, <1>3

LEMMA DisableReplaceDefaults ==
  ASSUME RowsInv, DefaultInv, NEW c \in Calls, DisableReplace(c) PROVE DefaultInv'
<1>1. /\ pc[c] = "disableReplace" /\ pc'[c] = "disableWrite"
      /\ UNCHANGED <<wallets, arg, ownerLock, rowLock>> /\ OthersStay(c)
  BY DEF DisableReplace, Goto, DataUnchanged, LocksUnchanged, OthersStay, RowsInv, TypeOK
<1>2. PICK b \in Replacement(arg[c].account, arg[c].user) :
        mem' = [mem EXCEPT ![c] = [mem[c] EXCEPT !.target = b]]
  BY DEF DisableReplace
<1>3. mem'[c].target = b
  BY <1>2 DEF RowsInv, TypeOK, Local
<1>4. b # None => b # arg[c].account /\ ActiveOf(b, arg[c].user)
  BY DEF Replacement
<1>5. HeldBy(c) /\ StillTrue(c)
  BY DEF DefaultInv
<1>6. HeldBy(c)' /\ StillTrue(c)'
  BY <1>1, <1>3, <1>4, <1>5 DEF HeldBy, StillTrue, Locked, DefaultOf, ActiveOf, Bound
<1> QED BY <1>1, <1>6, QuietDefaults DEF LocksStay

\* Steps that end or stay outside a transaction and write no row.
LEMMA OutsideDefaults ==
  ASSUME RowsInv, DefaultInv, NEW c \in Calls,
         \/ \E n \in NonceIds : StoreChallenge(c, n) \/ CollideChallenge(c, n)
         \/ \E r \in Requests : Call(c, r)
         \/ Return(c) \/ Consume(c) \/ Find(c) \/ Reread(c) \/ UpdateLabel(c) \/ Abort(c)
  PROVE  DefaultInv'
<1>1. UNCHANGED wallets
  BY DEF StoreChallenge, CollideChallenge, Call, Return, Consume, Find, Reread, UpdateLabel, Abort,
         DataUnchanged
<1>2. OthersStay(c)
  BY DEF StoreChallenge, CollideChallenge, Call, Return, Consume, Find, Reread, UpdateLabel, Abort,
         Goto, OthersStay, RowsInv, TypeOK
<1>3. LocksStay(c)
  BY ReleaseStays DEF StoreChallenge, CollideChallenge, Call, Return, Consume, Find, Reread,
         UpdateLabel, Abort, LocksUnchanged, LocksStay
<1>4. pc'[c] \notin Locked
  <2> USE DEF Locked, Goto, RowsInv, TypeOK
  <2>1. CASE UpdateLabel(c)
    <3>1. arg[c].want \in {"keep", "set", "unset"}
      BY <2>1, RequestFields DEF UpdateLabel
    <3>2. AfterLabel[arg[c].want] \in {"reread", "setLock", "unset"}
      BY <3>1 DEF AfterLabel
    <3> QED BY <2>1, <3>2 DEF UpdateLabel
  <2>2. ASSUME NEW r \in Requests, Call(c, r) PROVE pc'[c] \notin Locked
    <3>1. r \in Request
      BY DEF Requests
    <3> QED BY <2>2, <3>1, FirstSteps DEF Call
  <2>3. CASE Find(c)
    BY <2>3 DEF Find, AfterFind
  <2> QED BY <2>1, <2>2, <2>3 DEF StoreChallenge, CollideChallenge, Return, Consume, Reread, Abort
<1> QED BY <1>1, <1>2, <1>3, <1>4, Unlocked, QuietDefaults

(* Steps that write rows *)

\* Only rows of u are written, and they stay u's.
OnlyRowsOf(u) ==
  \A a \in Accounts :
    \/ wallets'[a] = wallets[a]
    \/ /\ wallets'[a] # None /\ wallets'[a].owner = u
       /\ wallets[a] # None => wallets[a].owner = u

\* The last step of a transaction that holds u's owner lock.
LEMMA OwnerWrite ==
  ASSUME RowsInv, DefaultInv, NEW c \in Calls, pc[c] \in Locked, pc'[c] \notin Locked,
         OthersStay(c), ReleaseLocks(c), OnlyRowsOf(arg[c].user),
         AtMostOneDefault', DefaultIsActive'
  PROVE  DefaultInv'
<1>1. ASSUME NEW d \in Calls \ {c} PROVE HeldBy(d)' /\ StillTrue(d)'
  <2>1. ASSUME NEW v \in Users, pc[d] \in Locked, v = arg[d].user
        PROVE  /\ HasDefault(v)' => HasDefault(v)
               /\ \A a \in Accounts : ActiveOf(a, v) => ActiveOf(a, v)'
               /\ \A a \in Accounts : rowLock[a] = d /\ DefaultOf(a, v) => DefaultOf(a, v)'
    <3>1. v # arg[c].user
      BY <2>1, OneLocked
    <3> QED BY <3>1 DEF OnlyRowsOf, HasDefault, ActiveOf, DefaultOf, Bound
  <2>2. LocksStay(c)
    BY ReleaseStays
  <2> QED BY <2>1, <2>2, CallKept DEF OthersStay, LocksStay
<1>2. HeldBy(c)' /\ StillTrue(c)'
  BY Unlocked
<1> QED BY <1>1, <1>2 DEF DefaultInv

\* A user without an active default has no row with the flag set.
LEMMA NoFlag ==
  ASSUME DefaultInv, NEW u, ~HasDefault(u)
  PROVE  \A a \in Accounts : Bound(a) /\ wallets[a].owner = u => ~wallets[a].isDefault
BY DEF DefaultInv, DefaultIsActive, HasDefault, DefaultOf, ActiveOf, Bound

\* CreateBoundWallet and Reactivate: the row that they activate.
LEMMA ActivatingWrite ==
  ASSUME RowsInv, DefaultInv, NEW c \in Calls, NEW a \in Accounts, NEW row \in Row,
         pc[c] \in {"createWrite", "reactivateWrite"},
         wallets' = [wallets EXCEPT ![a] = row],
         row.owner = arg[c].user, row.active, row.isDefault = ~mem[c].hasDefault,
         Bound(a) => wallets[a].owner = arg[c].user
  PROVE  AtMostOneDefault' /\ DefaultIsActive' /\ OnlyRowsOf(arg[c].user)
<1>1. /\ wallets'[a] = row
      /\ \A b \in Accounts \ {a} : wallets'[b] = wallets[b]
  BY DEF RowsInv, TypeOK
<1>2. row # None
  BY NoneAssumption
<1>3. row.isDefault => \A b \in Accounts : Bound(b) /\ wallets[b].owner = arg[c].user => ~wallets[b].isDefault
  BY NoFlag DEF DefaultInv, StillTrue
<1>4. AtMostOneDefault'
  BY <1>1, <1>2, <1>3 DEF DefaultInv, AtMostOneDefault, Bound
<1>5. DefaultIsActive'
  BY <1>1, <1>2 DEF DefaultInv, DefaultIsActive, Bound
<1>6. OnlyRowsOf(arg[c].user)
  BY <1>1, <1>2 DEF OnlyRowsOf, Bound
<1> QED BY <1>4, <1>5, <1>6

LEMMA CreateWriteDefaults ==
  ASSUME RowsInv, DefaultInv, NEW c \in Calls, CreateWrite(c) PROVE DefaultInv'
<1> DEFINE a == arg[c].account
           row == [owner |-> arg[c].user, active |-> TRUE, isDefault |-> ~mem[c].hasDefault,
                   createdAt |-> mem[c].at, proof |-> arg[c].nonce]
<1>1. /\ pc[c] = "createWrite" /\ ReleaseLocks(c) /\ OthersStay(c) /\ pc'[c] \notin Locked
  BY DEF CreateWrite, Goto, OthersStay, Locked, RowsInv, TypeOK
<1>2. \/ UNCHANGED wallets
      \/ ~Bound(a) /\ wallets' = [wallets EXCEPT ![a] = row]
  BY DEF CreateWrite, Conflict
<1>3. CASE UNCHANGED wallets
  BY <1>1, <1>3, Unlocked, ReleaseStays, QuietDefaults
<1>4. CASE ~Bound(a) /\ wallets' = [wallets EXCEPT ![a] = row]
  <2>1. a \in Accounts /\ row \in Row
    <3>1. /\ arg[c].op = "bind" /\ mem[c].at \in Nat /\ mem[c].hasDefault \in BOOLEAN
      BY <1>1 DEF RowsInv, TypeOK, RowFound, Local, BindSteps, Holding, CreateSteps
    <3> QED BY <1>1, <3>1, ArgFields DEF RowsInv, Row
  <2>2. row.owner = arg[c].user /\ row.active /\ row.isDefault = ~mem[c].hasDefault
    OBVIOUS
  <2> HIDE DEF a, row
  <2>3. AtMostOneDefault' /\ DefaultIsActive' /\ OnlyRowsOf(arg[c].user)
    BY <1>1, <1>4, <2>1, <2>2, ActivatingWrite
  <2> QED BY <1>1, <2>3, OwnerWrite DEF Locked
<1> QED BY <1>2, <1>3, <1>4

LEMMA ReactivateWriteDefaults ==
  ASSUME RowsInv, DefaultInv, NEW c \in Calls, ReactivateWrite(c) PROVE DefaultInv'
<1> DEFINE a == arg[c].account
           row == [wallets[a] EXCEPT !.active = TRUE, !.isDefault = ~mem[c].hasDefault,
                                     !.proof = arg[c].nonce]
<1>1. /\ pc[c] = "reactivateWrite" /\ ReleaseLocks(c) /\ OthersStay(c) /\ pc'[c] \notin Locked
      /\ wallets' = [wallets EXCEPT ![a] = row]
  BY DEF ReactivateWrite, Goto, OthersStay, Locked, RowsInv, TypeOK
<1>2. a \in Accounts /\ wallets[a] \in Row /\ wallets[a].owner = arg[c].user
  BY <1>1, ArgFields DEF RowsInv, TypeOK, RowFound, ReactivateSteps, OwnedBy, Bound
<1>3. row \in Row /\ row.owner = arg[c].user /\ row.active /\ row.isDefault = ~mem[c].hasDefault
  <2>1. arg[c].nonce \in NonceIds /\ mem[c].hasDefault \in BOOLEAN
    BY <1>1, HolderFields DEF RowsInv, TypeOK, Local, Holding, ReactivateSteps
  <2> QED BY <1>2, <2>1 DEF Row
<1> HIDE DEF a, row
<1>4. AtMostOneDefault' /\ DefaultIsActive' /\ OnlyRowsOf(arg[c].user)
  BY <1>1, <1>2, <1>3, ActivatingWrite
<1> QED BY <1>1, <1>4, OwnerWrite DEF Locked

LEMMA DisableWriteDefaults ==
  ASSUME RowsInv, DefaultInv, NEW c \in Calls, DisableWrite(c) PROVE DefaultInv'
<1> DEFINE a == arg[c].account
           u == arg[c].user
           target == mem[c].target
           off == Disabled(wallets[a])
           on == [wallets[target] EXCEPT !.isDefault = TRUE]
<1>1. /\ pc[c] = "disableWrite" /\ ReleaseLocks(c) /\ OthersStay(c) /\ pc'[c] \notin Locked
      /\ wallets \in [Accounts -> Row \cup {None}]
  BY DEF DisableWrite, Goto, OthersStay, Locked, RowsInv, TypeOK
<1>2. /\ a \in Accounts /\ wallets[a] \in Row /\ wallets[a].owner = u
      /\ off \in Row /\ off.owner = u /\ ~off.isDefault
  <2>1. a \in Accounts /\ wallets[a] \in Row /\ wallets[a].owner = u
    BY <1>1, ArgFields DEF RowsInv, TypeOK, RowFound, OwnedBy, Bound
  <2> QED BY <2>1 DEF Disabled, Row
<1>3. target # None =>
        /\ target \in Accounts /\ target # a
        /\ wallets[target] \in Row /\ wallets[target].owner = u /\ wallets[target].active
        /\ wallets[a].isDefault
  <2>1. target \in Accounts \cup {None}
    BY DEF RowsInv, TypeOK, Local
  <2> QED BY <1>1, <2>1 DEF DefaultInv, StillTrue, DefaultOf, ActiveOf, Bound
<1>4. target # None => on \in Row /\ on.owner = u /\ on.active
  BY <1>3 DEF Row
<1>5. /\ wallets'[a] = off
      /\ target # None => wallets'[target] = on
      /\ \A b \in Accounts \ {a} : b # target => wallets'[b] = wallets[b]
  <2>1. CASE target = None
    <3>1. wallets' = [wallets EXCEPT ![a] = off]
      BY <2>1 DEF DisableWrite
    <3> HIDE DEF off
    <3> QED BY <1>1, <1>2, <2>1, <3>1
  <2>2. CASE target # None
    <3>1. wallets' = [[wallets EXCEPT ![a] = off] EXCEPT ![target].isDefault = TRUE]
      BY <2>2 DEF DisableWrite
    <3> HIDE DEF off
    <3>2. [wallets EXCEPT ![a] = off][target] = wallets[target]
      BY <1>1, <1>3, <2>2
    <3>3. wallets' = [[wallets EXCEPT ![a] = off] EXCEPT ![target] = on]
      BY <3>1, <3>2
    <3> HIDE DEF on
    <3> QED BY <1>1, <1>2, <1>3, <2>2, <3>3
  <2> QED BY <2>1, <2>2
<1> HIDE DEF a, u, target, off, on
<1>6. \A b \in Accounts : wallets[b] # None => wallets[b] \in Row
  BY <1>1
<1>7. AtMostOneDefault'
  <2> SUFFICES ASSUME NEW b \in Accounts, NEW d \in Accounts,
                      wallets'[b] # None, wallets'[b].isDefault,
                      wallets'[d] # None, wallets'[d].isDefault,
                      wallets'[b].owner = wallets'[d].owner
               PROVE  b = d
    BY DEF AtMostOneDefault, Bound
  <2>1. \A e, f \in Accounts :
          /\ wallets[e] # None /\ wallets[e].isDefault
          /\ wallets[f] # None /\ wallets[f].isDefault
          /\ wallets[e].owner = wallets[f].owner
          => e = f
    BY DEF DefaultInv, AtMostOneDefault, Bound
  <2>2. wallets[a] # None /\ b # a /\ d # a
    BY <1>2, <1>5, NoneAssumption
  <2>3. CASE target = None
    BY <1>5, <2>1, <2>2, <2>3, NoneAssumption
  <2>4. CASE target # None
    <3>1. \A e \in Accounts \ {a} : wallets[e] # None /\ wallets[e].owner = u => ~wallets[e].isDefault
      BY <1>2, <1>3, <2>1, <2>2, <2>4
    <3> QED BY <1>3, <1>4, <1>5, <2>1, <2>2, <2>4, <3>1
  <2> QED BY <2>3, <2>4
<1>8. DefaultIsActive'
  <2> SUFFICES ASSUME NEW b \in Accounts, wallets'[b] # None, wallets'[b].isDefault
               PROVE  wallets'[b].active
    BY DEF DefaultIsActive, Bound
  <2> QED BY <1>2, <1>4, <1>5, NoneAssumption DEF DefaultInv, DefaultIsActive, Bound
<1>9. OnlyRowsOf(u)
  BY <1>2, <1>3, <1>4, <1>5, NoneAssumption DEF OnlyRowsOf
<1>10. pc[c] \in Locked /\ OnlyRowsOf(arg[c].user)
  BY <1>1, <1>9 DEF u, Locked
<1> QED BY <1>1, <1>7, <1>8, <1>10, OwnerWrite

LEMMA SetWriteDefaults ==
  ASSUME RowsInv, DefaultInv, NEW c \in Calls, SetWrite(c) PROVE DefaultInv'
<1> DEFINE a == arg[c].account
           u == arg[c].user
           owned == {b \in Accounts : Bound(b) /\ wallets[b].owner = u}
<1>1. /\ pc[c] = "setWrite" /\ ReleaseLocks(c) /\ OthersStay(c) /\ pc'[c] \notin Locked
      /\ wallets \in [Accounts -> Row \cup {None}]
  BY DEF SetWrite, Goto, OthersStay, Locked, RowsInv, TypeOK
<1>2. a \in Accounts /\ ActiveOf(a, u)
  BY <1>1, ArgFields DEF RowsInv, DefaultInv, StillTrue
<1>3. ASSUME NEW b \in owned
      PROVE  /\ wallets'[b] \in Row /\ wallets'[b].owner = u
             /\ wallets'[b].isDefault = (b = a)
             /\ wallets'[b].active = wallets[b].active
  <2> DEFINE row == [wallets[b] EXCEPT !.isDefault = (b = a)]
  <2>1. wallets[b] \in Row /\ wallets[b].owner = u /\ (b = a) \in BOOLEAN
    BY <1>1 DEF Bound
  <2>2. wallets'[b] = row
    BY DEF SetWrite
  <2>3. row \in Row /\ row.owner = u /\ row.isDefault = (b = a) /\ row.active = wallets[b].active
    BY <2>1 DEF Row
  <2> QED BY <2>2, <2>3
<1>4. \A b \in Accounts \ owned : wallets'[b] = wallets[b]
  BY DEF SetWrite
<1>5. a \in owned /\ wallets[a].active
  BY <1>2 DEF ActiveOf
<1>6. \A b \in Accounts \ owned : wallets'[b] # None => wallets'[b].owner # u
  BY <1>4 DEF Bound
<1>7. \A b \in owned : b \in Accounts /\ wallets[b].owner = u
  OBVIOUS
<1> HIDE DEF a, u, owned
<1>8. AtMostOneDefault'
  <2> SUFFICES ASSUME NEW b \in Accounts, NEW d \in Accounts,
                      wallets'[b] # None, wallets'[b].isDefault,
                      wallets'[d] # None, wallets'[d].isDefault,
                      wallets'[b].owner = wallets'[d].owner
               PROVE  b = d
    BY DEF AtMostOneDefault, Bound
  <2>1. CASE b \in owned
    BY <1>3, <1>6, <2>1
  <2>2. CASE b \notin owned
    <3>1. d \notin owned
      BY <1>3, <1>6, <2>2
    <3> QED BY <1>4, <2>2, <3>1 DEF DefaultInv, AtMostOneDefault, Bound
  <2> QED BY <2>1, <2>2
<1>9. DefaultIsActive'
  BY <1>3, <1>4, <1>5 DEF DefaultInv, DefaultIsActive, Bound
<1>10. OnlyRowsOf(u)
  BY <1>3, <1>4, <1>7, NoneAssumption DEF OnlyRowsOf
<1>11. pc[c] \in Locked /\ OnlyRowsOf(arg[c].user)
  BY <1>1, <1>10 DEF u, Locked
<1> QED BY <1>1, <1>8, <1>9, <1>11, OwnerWrite

\* UnsetDefault takes no owner lock, but it waits for the row lock of a Disable
\* that has seen the flag, and it only ever clears one.
LEMMA UnsetDefaultDefaults ==
  ASSUME RowsInv, DefaultInv, NEW c \in Calls, UnsetDefault(c) PROVE DefaultInv'
<1> DEFINE a == arg[c].account
           row == [wallets[a] EXCEPT !.isDefault = FALSE]
<1>1. /\ pc[c] = "unset" /\ OthersStay(c) /\ pc'[c] \notin Locked /\ RowFree(a, c)
      /\ wallets \in [Accounts -> Row \cup {None}]
      /\ UNCHANGED <<ownerLock, rowLock>>
  BY DEF UnsetDefault, Goto, OthersStay, Locked, LocksUnchanged, RowsInv, TypeOK
<1>2. a \in Accounts
  BY <1>1, ArgFields DEF RowsInv
<1>3. CASE UNCHANGED wallets
  BY <1>1, <1>3, Unlocked, QuietDefaults DEF LocksStay
<1>4. CASE ~UNCHANGED wallets
  <2>1. wallets[a] \in Row /\ wallets' = [wallets EXCEPT ![a] = row]
    BY <1>1, <1>2, <1>4 DEF UnsetDefault, ActiveOf, Bound
  <2>2. row \in Row /\ row.owner = wallets[a].owner /\ row.active = wallets[a].active /\ ~row.isDefault
    BY <2>1 DEF Row
  <2> HIDE DEF a, row
  <2>3. wallets'[a] = row /\ \A b \in Accounts \ {a} : wallets'[b] = wallets[b]
    BY <1>1, <1>2, <2>1
  <2>4. AtMostOneDefault' /\ DefaultIsActive'
    BY <2>2, <2>3 DEF DefaultInv, AtMostOneDefault, DefaultIsActive, Bound
  <2>5. row # None /\ wallets[a] # None
    BY <2>1, <2>2, NoneAssumption
  <2>6. \A u \in Users :
          /\ HasDefault(u)' => HasDefault(u)
          /\ \A b \in Accounts : ActiveOf(b, u) => ActiveOf(b, u)'
    BY <2>2, <2>3, <2>5 DEF HasDefault, DefaultOf, ActiveOf, Bound
  <2>7. ASSUME NEW d \in Calls \ {c}, NEW b \in Accounts, NEW u \in Users,
               rowLock[b] = d, DefaultOf(b, u)
        PROVE  DefaultOf(b, u)'
    <3>1. b # a
      BY <1>1, <2>7, NoneAssumption DEF RowFree
    <3> QED BY <2>3, <2>7, <3>1 DEF DefaultOf, ActiveOf, Bound
  <2>8. \A d \in Calls \ {c} : HeldBy(d)' /\ StillTrue(d)'
    BY <1>1, <2>6, <2>7, CallKept DEF OthersStay
  <2> QED BY <1>1, <2>4, <2>8, Unlocked DEF DefaultInv
<1> QED BY <1>3, <1>4

LEMMA DefaultStep == RowsInv /\ DefaultInv /\ [Next]_vars => DefaultInv'
<1> SUFFICES ASSUME RowsInv, DefaultInv, [Next]_vars PROVE DefaultInv'
  OBVIOUS
<1>1. ASSUME NEW c \in Calls, Advance(c) PROVE DefaultInv'
  BY <1>1, OutsideDefaults, LockOwnerDefaults, CountDefaultsDefaults, SelectForUpdateDefaults,
     CreateWriteDefaults, ReactivateWriteDefaults, DisableReplaceDefaults, DisableWriteDefaults,
     SetWriteDefaults, UnsetDefaultDefaults DEF Advance
<1>2. ASSUME NEW c \in Calls, Abort(c) \/ \E r \in Requests : Call(c, r) PROVE DefaultInv'
  BY <1>2, OutsideDefaults
<1>3. CASE Tick \/ UNCHANGED vars \/ \E n \in NonceIds : Evict(n)
  BY <1>3 DEF Tick, vars, Evict, LocksUnchanged, DefaultInv, AtMostOneDefault, DefaultIsActive,
              HeldBy, StillTrue, HasDefault, DefaultOf, ActiveOf, Bound
<1> QED BY <1>1, <1>2, <1>3 DEF Next

\* No interleaving of transactions gives a user two default wallets, without the
\* help of the partial index: the owner lock carries the count to the write.
THEOREM OneDefault == Spec => []AtMostOneDefault
<1>1. DefaultInv => AtMostOneDefault
  BY DEF DefaultInv
<1> QED BY <1>1, RowsInit, RowsStep, DefaultInit, DefaultStep, PTL DEF Spec

\* No promotion, restoration or SetDefault makes an unbound wallet the default.
THEOREM DefaultsAreActive == Spec => []DefaultIsActive
<1>1. DefaultInv => DefaultIsActive
  BY DEF DefaultInv
<1> QED BY <1>1, RowsInit, RowsStep, DefaultInit, DefaultStep, PTL DEF Spec

-----------------------------------------------------------------------------
(* What the writing steps do to the rows *)

\* Every step of a call leaves the others alone.
LEMMA OneCallSteps ==
  ASSUME RowsInv, NEW c \in Calls,
         Advance(c) \/ Abort(c) \/ \E r \in Requests : Call(c, r)
  PROVE  OthersStay(c)
<1> USE DEF Goto, OthersStay, RowsInv, TypeOK
<1>1. CASE Abort(c) \/ \E r \in Requests : Call(c, r)
  BY <1>1 DEF Abort, Call
<1>2. CASE Consume(c) \/ Find(c) \/ LockOwner(c) \/ CountDefaults(c) \/ SelectForUpdate(c)
  BY <1>2 DEF Consume, Find, LockOwner, CountDefaults, SelectForUpdate
<1>3. CASE CreateWrite(c) \/ ReactivateWrite(c) \/ Reread(c) \/ DisableReplace(c) \/ DisableWrite(c)
  BY <1>3 DEF CreateWrite, ReactivateWrite, Reread, DisableReplace, DisableWrite
<1>4. CASE UpdateLabel(c) \/ SetWrite(c) \/ UnsetDefault(c) \/ Return(c)
  BY <1>4 DEF UpdateLabel, SetWrite, UnsetDefault, Return
<1>5. CASE \E n \in NonceIds : StoreChallenge(c, n) \/ CollideChallenge(c, n)
  BY <1>5 DEF StoreChallenge, CollideChallenge
<1> QED BY <1>1, <1>2, <1>3, <1>4, <1>5 DEF Advance

\* The row of a is the only one that changes, and it is an active wallet of u.
Activates(a, u, flag, n) ==
  /\ \A b \in Accounts \ {a} : wallets'[b] = wallets[b]
  /\ wallets'[a] # None
  /\ wallets'[a].owner = u
  /\ wallets'[a].active
  /\ wallets'[a].isDefault = flag
  /\ Record(a, u, n)

LEMMA CreatedRow ==
  ASSUME RowsInv, NEW c \in Calls, CreateWrite(c)
  PROVE  /\ arg[c].account \in Accounts /\ arg[c].user \in Users /\ arg[c].nonce \in NonceIds
         /\ \/ UNCHANGED <<wallets, witness>> /\ pc'[c] = "winner"
            \/ /\ ~Bound(arg[c].account)
               /\ Activates(arg[c].account, arg[c].user, ~mem[c].hasDefault, arg[c].nonce)
<1> DEFINE row == [owner |-> arg[c].user, active |-> TRUE, isDefault |-> ~mem[c].hasDefault,
                   createdAt |-> mem[c].at, proof |-> arg[c].nonce]
<1>1. pc[c] = "createWrite" /\ arg[c].op = "bind" /\ mem[c].at \in Nat /\ mem[c].hasDefault \in BOOLEAN
  BY DEF CreateWrite, RowsInv, TypeOK, RowFound, Local, BindSteps, Holding, CreateSteps
<1>2. /\ arg[c].account \in Accounts /\ arg[c].user \in Users /\ arg[c].nonce \in NonceIds
      /\ row \in Row
  BY <1>1, ArgFields DEF RowsInv, Row
<1>3. \/ UNCHANGED <<wallets, witness>> /\ pc'[c] = "winner"
      \/ /\ ~Bound(arg[c].account) /\ wallets' = [wallets EXCEPT ![arg[c].account] = row]
         /\ Record(arg[c].account, arg[c].user, arg[c].nonce)
  BY DEF CreateWrite, Conflict, Goto, RowsInv, TypeOK
<1>4. row.owner = arg[c].user /\ row.active /\ row.isDefault = ~mem[c].hasDefault /\ row # None
  BY <1>2, NoneAssumption
<1> HIDE DEF row
<1> QED BY <1>2, <1>3, <1>4 DEF Activates, RowsInv, TypeOK

LEMMA ReactivatedRow ==
  ASSUME RowsInv, NEW c \in Calls, ReactivateWrite(c)
  PROVE  /\ arg[c].account \in Accounts /\ arg[c].user \in Users /\ arg[c].nonce \in NonceIds
         /\ OwnedBy(arg[c].account, arg[c].user)
         /\ Activates(arg[c].account, arg[c].user, ~mem[c].hasDefault, arg[c].nonce)
<1> DEFINE a == arg[c].account
           row == [wallets[a] EXCEPT !.active = TRUE, !.isDefault = ~mem[c].hasDefault,
                                     !.proof = arg[c].nonce]
<1>1. /\ pc[c] = "reactivateWrite" /\ wallets' = [wallets EXCEPT ![a] = row]
      /\ Record(a, arg[c].user, arg[c].nonce)
  BY DEF ReactivateWrite
<1>2. /\ a \in Accounts /\ arg[c].user \in Users /\ OwnedBy(a, arg[c].user)
      /\ wallets[a] \in Row /\ wallets[a].owner = arg[c].user
  BY <1>1, ArgFields DEF RowsInv, TypeOK, RowFound, ReactivateSteps, OwnedBy, Bound
<1>3. /\ arg[c].nonce \in NonceIds
      /\ row \in Row /\ row.owner = arg[c].user /\ row.active /\ row.isDefault = ~mem[c].hasDefault
  <2>1. arg[c].nonce \in NonceIds /\ mem[c].hasDefault \in BOOLEAN
    BY <1>1, HolderFields DEF RowsInv, TypeOK, Local, Holding, ReactivateSteps
  <2> QED BY <1>2, <2>1 DEF Row
<1> HIDE DEF row
<1>4. wallets'[a] = row /\ row # None /\ \A b \in Accounts \ {a} : wallets'[b] = wallets[b]
  BY <1>1, <1>2, <1>3, NoneAssumption DEF RowsInv, TypeOK
<1> QED BY <1>1, <1>2, <1>3, <1>4 DEF Activates

\* The owner and the status stay; the flag may change.
SameWallet(b) ==
  wallets'[b] # None /\ wallets'[b].owner = wallets[b].owner /\ wallets'[b].active = wallets[b].active

LEMMA DisabledRow ==
  ASSUME RowsInv, DefaultInv, NEW c \in Calls, DisableWrite(c), NEW a, NEW u, NEW target,
         a = arg[c].account, u = arg[c].user, target = mem[c].target
  PROVE  /\ a \in Accounts /\ u \in Users /\ ActiveOf(a, u)
         /\ wallets'[a] # None /\ wallets'[a].owner = u
         /\ ~wallets'[a].active /\ ~wallets'[a].isDefault
         /\ target # None =>
              /\ target \in Accounts \ {a} /\ ActiveOf(target, u) /\ DefaultOf(a, u)
              /\ SameWallet(target) /\ wallets'[target].isDefault
         /\ \A b \in Accounts \ {a} : b # target => wallets'[b] = wallets[b]
<1> DEFINE off == Disabled(wallets[a])
           on == [wallets[target] EXCEPT !.isDefault = TRUE]
<1>1. pc[c] = "disableWrite" /\ wallets \in [Accounts -> Row \cup {None}]
  BY DEF DisableWrite, RowsInv, TypeOK
<1>2. a \in Accounts /\ u \in Users /\ ActiveOf(a, u) /\ wallets[a] \in Row
  BY <1>1, ArgFields DEF RowsInv, DefaultInv, StillTrue, ActiveOf, Bound
<1>3. target # None =>
        target \in Accounts \ {a} /\ ActiveOf(target, u) /\ DefaultOf(a, u) /\ wallets[target] \in Row
  BY <1>1 DEF RowsInv, TypeOK, Local, DefaultInv, StillTrue, ActiveOf, Bound
<1>4. /\ off \in Row /\ off.owner = u /\ ~off.active /\ ~off.isDefault
      /\ target # None => /\ on \in Row /\ on.owner = wallets[target].owner
                          /\ on.active = wallets[target].active /\ on.isDefault
  BY <1>2, <1>3 DEF Disabled, Row, ActiveOf
<1>5. /\ wallets'[a] = off
      /\ target # None => wallets'[target] = on
      /\ \A b \in Accounts \ {a} : b # target => wallets'[b] = wallets[b]
  <2>1. CASE target = None
    <3>1. wallets' = [wallets EXCEPT ![a] = off]
      BY <2>1 DEF DisableWrite
    <3> HIDE DEF off
    <3> QED BY <1>1, <1>2, <2>1, <3>1
  <2>2. CASE target # None
    <3>1. wallets' = [[wallets EXCEPT ![a] = off] EXCEPT ![target].isDefault = TRUE]
      BY <2>2 DEF DisableWrite
    <3> HIDE DEF off
    <3>2. [wallets EXCEPT ![a] = off][target] = wallets[target]
      BY <1>1, <1>3, <2>2
    <3>3. wallets' = [[wallets EXCEPT ![a] = off] EXCEPT ![target] = on]
      BY <3>1, <3>2
    <3> HIDE DEF on
    <3> QED BY <1>1, <1>2, <1>3, <2>2, <3>3
  <2> QED BY <2>1, <2>2
<1> HIDE DEF off, on
<1> QED BY <1>2, <1>3, <1>4, <1>5, NoneAssumption DEF SameWallet

LEMMA SetRows ==
  ASSUME RowsInv, DefaultInv, NEW c \in Calls, SetWrite(c), NEW a, NEW u,
         a = arg[c].account, u = arg[c].user
  PROVE  /\ a \in Accounts /\ u \in Users /\ ActiveOf(a, u)
         /\ \A b \in Accounts :
              IF OwnedBy(b, u) THEN SameWallet(b) /\ wallets'[b].isDefault = (b = a)
              ELSE wallets'[b] = wallets[b]
<1> DEFINE owned == {b \in Accounts : OwnedBy(b, u)}
<1>1. pc[c] = "setWrite" /\ wallets \in [Accounts -> Row \cup {None}]
  BY DEF SetWrite, RowsInv, TypeOK
<1>2. a \in Accounts /\ u \in Users /\ ActiveOf(a, u)
  BY <1>1, ArgFields DEF RowsInv, DefaultInv, StillTrue
<1>3. wallets' = [b \in Accounts |->
        IF b \in owned THEN [wallets[b] EXCEPT !.isDefault = (b = a)] ELSE wallets[b]]
  BY DEF SetWrite, OwnedBy
<1>4. ASSUME NEW b \in Accounts, OwnedBy(b, u)
      PROVE  SameWallet(b) /\ wallets'[b].isDefault = (b = a)
  <2>1. wallets[b] \in Row /\ (b = a) \in BOOLEAN
    BY <1>1, <1>4 DEF OwnedBy, Bound
  <2>2. wallets'[b] = [wallets[b] EXCEPT !.isDefault = (b = a)]
    BY <1>3, <1>4
  <2>3. wallets'[b] \in Row
    BY <2>1, <2>2, RowFields
  <2> QED BY <2>1, <2>2, <2>3, NoneAssumption DEF SameWallet, Row
<1>5. ASSUME NEW b \in Accounts, ~OwnedBy(b, u) PROVE wallets'[b] = wallets[b]
  BY <1>3, <1>5
<1> QED BY <1>2, <1>4, <1>5

LEMMA UnsetRow ==
  ASSUME RowsInv, NEW c \in Calls, UnsetDefault(c), NEW a, NEW u,
         a = arg[c].account, u = arg[c].user
  PROVE  /\ a \in Accounts /\ u \in Users
         /\ \/ UNCHANGED wallets
            \/ /\ ActiveOf(a, u) /\ SameWallet(a) /\ ~wallets'[a].isDefault
               /\ \A b \in Accounts \ {a} : wallets'[b] = wallets[b]
<1> DEFINE row == [wallets[a] EXCEPT !.isDefault = FALSE]
<1>1. pc[c] = "unset" /\ wallets \in [Accounts -> Row \cup {None}]
  BY DEF UnsetDefault, RowsInv, TypeOK
<1>2. a \in Accounts /\ u \in Users
  BY <1>1, ArgFields DEF RowsInv
<1>3. UNCHANGED wallets \/ (ActiveOf(a, u) /\ wallets' = [wallets EXCEPT ![a] = row])
  BY DEF UnsetDefault
<1>4. ActiveOf(a, u) =>
        row \in Row /\ row.owner = wallets[a].owner /\ row.active = wallets[a].active /\ ~row.isDefault
  BY <1>1, <1>2 DEF ActiveOf, Bound, Row
<1> HIDE DEF row
<1> QED BY <1>1, <1>2, <1>3, <1>4, NoneAssumption DEF SameWallet

-----------------------------------------------------------------------------
(* Layer 4: bindings that took effect *)

\* Steps of the other operations.
OtherSteps ==
  {"draw", "label", "unset", "setLock", "setSelect", "setWrite",
   "disableLock", "disableSelect", "disableReplace", "disableWrite"}

\* A bind knows of every moment at which its account was an active wallet of its
\* caller.  While it creates the row there was none, so one that is found after
\* that was written during the call.
Witnessed(c) ==
  /\ pc[c] \in OtherSteps => arg[c].op # "bind"
  /\ pc[c] # "idle" /\ arg[c].op = "bind" =>
       /\ pc[c] \in {"reread", "ok"} => witness[c]
       /\ ActiveOf(arg[c].account, arg[c].user) => witness[c]
       /\ pc[c] \in CreateSteps \cup {"winner"} /\ OwnedBy(arg[c].account, arg[c].user) => witness[c]

WitnessInv == \A c \in Calls : Witnessed(c)

LEMMA WitnessInit == Init => WitnessInv
BY DEF Init, WitnessInv, Witnessed, OtherSteps, CreateSteps

\* A row that comes to count for a waiting bind is witnessed by it.
NewsWitnessed(d, a, u) ==
  /\ ActiveOf(a, u)' => ActiveOf(a, u) \/ witness'[d]
  /\ OwnedBy(a, u)' => OwnedBy(a, u) \/ witness'[d]

\* A step of another call keeps what d knows.
LEMMA WitnessKept ==
  ASSUME RowsInv, WitnessInv, NEW d \in Calls, pc'[d] = pc[d], arg'[d] = arg[d],
         witness[d] => witness'[d],
         \A a \in Accounts, u \in Users :
           pc[d] # "idle" /\ arg[d].op = "bind" /\ a = arg[d].account /\ u = arg[d].user
             => NewsWitnessed(d, a, u)
  PROVE  Witnessed(d)'
<1>1. Witnessed(d)
  BY DEF WitnessInv
<1>2. CASE pc[d] # "idle" /\ arg[d].op = "bind"
  <2>1. arg[d].account \in Accounts /\ arg[d].user \in Users
    BY <1>2, ArgFields DEF RowsInv
  <2>2. PICK a \in Accounts, u \in Users : a = arg[d].account /\ u = arg[d].user
    BY <2>1
  <2>3. NewsWitnessed(d, a, u)
    BY <1>2, <2>2
  <2>4. /\ ActiveOf(arg[d].account, arg[d].user)' => ActiveOf(a, u) \/ witness'[d]
        /\ OwnedBy(arg[d].account, arg[d].user)' => OwnedBy(a, u) \/ witness'[d]
    BY <2>2, <2>3 DEF NewsWitnessed, ActiveOf, OwnedBy, Bound
  <2> QED BY <1>1, <1>2, <2>2, <2>4 DEF Witnessed
<1>3. CASE ~(pc[d] # "idle" /\ arg[d].op = "bind")
  BY <1>1, <1>3 DEF Witnessed
<1> QED BY <1>2, <1>3

\* Steps of c that write no row.
LEMMA QuietWitness ==
  ASSUME RowsInv, WitnessInv, NEW c \in Calls, OthersStay(c), UNCHANGED wallets,
         \A d \in Calls \ {c} : witness'[d] = witness[d],
         Witnessed(c)'
  PROVE  WitnessInv'
<1>1. \A d \in Calls, a \in Accounts, u \in Users : NewsWitnessed(d, a, u)
  BY DEF NewsWitnessed, ActiveOf, OwnedBy, Bound
<1>2. \A d \in Calls \ {c} : Witnessed(d)'
  BY <1>1, WitnessKept DEF OthersStay
<1> QED BY <1>2 DEF WitnessInv

\* Such a step that keeps c's request as well.
LEMMA NextStepWitness ==
  ASSUME RowsInv, WitnessInv, NEW c \in Calls, OthersStay(c), UNCHANGED <<wallets, witness, arg>>,
         pc'[c] \in OtherSteps => arg[c].op # "bind",
         arg[c].op = "bind" =>
           /\ pc'[c] \in {"reread", "ok"} => witness[c]
           /\ ActiveOf(arg[c].account, arg[c].user) => witness[c]
           /\ pc'[c] \in CreateSteps \cup {"winner"} /\ OwnedBy(arg[c].account, arg[c].user)
                => witness[c]
  PROVE  WitnessInv'
<1>1. Witnessed(c)'
  BY DEF Witnessed, ActiveOf, OwnedBy, Bound
<1> QED BY <1>1, QuietWitness

\* A bind consumes first.
LEMMA BindFirst ==
  ASSUME NEW r \in Request, r.op = "bind"
  PROVE  FirstStep(r) = "consume"
BY RequestFields DEF FirstStep, OpStart

LEMMA CallWitness ==
  ASSUME RowsInv, WitnessInv, NEW c \in Calls, NEW r \in Requests, Call(c, r) PROVE WitnessInv'
<1>1. r \in Request
  BY DEF Requests
<1>2. /\ pc'[c] = FirstStep(r) /\ arg'[c] = r /\ UNCHANGED wallets
      /\ witness'[c] = (r.op = "bind" /\ ActiveOf(r.account, r.user))
      /\ \A d \in Calls \ {c} : witness'[d] = witness[d]
  BY DEF Call, Goto, RowsInv, TypeOK
<1>3. Witnessed(c)'
  <2>1. CASE r.op # "bind"
    BY <1>2, <2>1 DEF Witnessed
  <2>2. CASE r.op = "bind"
    <3>1. FirstStep(r) = "consume"
      BY <1>1, <2>2, BindFirst
    <3>2. ActiveOf(r.account, r.user)' => witness'[c]
      BY <1>2, <2>2 DEF ActiveOf, Bound
    <3> QED BY <1>2, <3>1, <3>2 DEF Witnessed, OtherSteps, CreateSteps, ActiveOf, Bound
  <2> QED BY <2>1, <2>2
<1>4. OthersStay(c)
  BY OneCallSteps
<1> QED BY <1>2, <1>3, <1>4, QuietWitness

LEMMA ReturnWitness ==
  ASSUME RowsInv, WitnessInv, NEW c \in Calls, Return(c) PROVE WitnessInv'
<1>1. /\ pc'[c] = "idle" /\ UNCHANGED wallets
      /\ \A d \in Calls \ {c} : witness'[d] = witness[d]
  BY DEF Return, Goto, RowsInv, TypeOK
<1>2. Witnessed(c)'
  BY <1>1 DEF Witnessed, OtherSteps
<1>3. OthersStay(c)
  BY OneCallSteps DEF Advance
<1> QED BY <1>1, <1>2, <1>3, QuietWitness

\* Steps that are not of BindWallet.
LEMMA OtherWitness ==
  ASSUME RowsInv, WitnessInv, NEW c \in Calls,
         \/ \E n \in NonceIds : StoreChallenge(c, n) \/ CollideChallenge(c, n)
         \/ SelectForUpdate(c) \/ DisableReplace(c) \/ UpdateLabel(c)
  PROVE  WitnessInv'
<1>1. OthersStay(c)
  BY OneCallSteps DEF Advance
<1>2. UNCHANGED <<wallets, witness, arg>> /\ pc[c] \in OtherSteps
  BY DEF StoreChallenge, CollideChallenge, SelectForUpdate, DisableReplace, UpdateLabel,
         DataUnchanged, OtherSteps
<1>3. arg[c].op # "bind"
  BY <1>2 DEF WitnessInv, Witnessed
<1> QED BY <1>1, <1>2, <1>3, NextStepWitness

LEMMA BindWitness ==
  ASSUME RowsInv, WitnessInv, NEW c \in Calls,
         Consume(c) \/ Find(c) \/ LockOwner(c) \/ CountDefaults(c) \/ Reread(c) \/ Abort(c)
  PROVE  WitnessInv'
<1>1. OthersStay(c)
  BY OneCallSteps DEF Advance
<1>2. UNCHANGED <<wallets, witness, arg>> /\ pc[c] # "idle" /\ Witnessed(c)
  <2>1. pc[c] \in (DOMAIN AfterLock) \cup (DOMAIN AfterCount) => pc[c] # "idle"
    BY DEF AfterLock, AfterCount
  <2>2. UNCHANGED <<wallets, witness, arg>>
    BY DEF Consume, Find, LockOwner, CountDefaults, Reread, Abort, DataUnchanged
  <2>3. pc[c] # "idle"
    BY <2>1 DEF Consume, Find, LockOwner, CountDefaults, Reread, Abort
  <2> QED BY <2>2, <2>3 DEF WitnessInv
<1>3. arg[c].op = "bind" /\ ActiveOf(arg[c].account, arg[c].user) => witness[c]
  BY <1>2 DEF Witnessed
<1> USE DEF Goto, RowsInv, TypeOK, OtherSteps, CreateSteps
<1>4. CASE Consume(c)
  <2>1. pc'[c] \in {"find", "failed"}
    BY <1>4 DEF Consume
  <2> QED BY <1>1, <1>2, <1>3, <2>1, NextStepWitness
<1>5. CASE Find(c)
  <2>1. pc'[c] = AfterFind(arg[c].account, arg[c].user)
    BY <1>5 DEF Find
  <2>2. /\ pc'[c] \in {"createLock", "ok", "reactivateLock", "failed"}
        /\ pc'[c] = "createLock" => ~Bound(arg[c].account)
        /\ pc'[c] = "ok" => ActiveOf(arg[c].account, arg[c].user)
    BY <2>1 DEF AfterFind, ActiveOf
  <2> QED BY <1>1, <1>2, <1>3, <2>2, NextStepWitness DEF OwnedBy
<1>6. CASE LockOwner(c)
  <2>1. \/ pc[c] = "createLock" /\ pc'[c] = "createCount"
        \/ pc[c] = "reactivateLock" /\ pc'[c] = "reactivateCount"
        \/ pc[c] \in OtherSteps /\ pc'[c] \in {"disableSelect", "setSelect"}
    BY <1>6, AfterLockSteps DEF LockOwner
  <2> QED BY <1>1, <1>2, <1>3, <2>1, NextStepWitness DEF Witnessed
<1>7. CASE CountDefaults(c)
  <2>1. \/ pc[c] = "createCount" /\ pc'[c] = "createWrite"
        \/ pc[c] = "reactivateCount" /\ pc'[c] = "reactivateWrite"
    BY <1>7, AfterCountSteps DEF CountDefaults
  <2> QED BY <1>1, <1>2, <1>3, <2>1, NextStepWitness DEF Witnessed
<1>8. CASE Reread(c)
  <2>1. /\ pc[c] \in {"winner", "reread"} /\ pc'[c] \in {"ok", "failed"}
        /\ pc'[c] = "ok" => OwnedBy(arg[c].account, arg[c].user)
    BY <1>8 DEF Reread, OwnedBy
  <2>2. arg[c].op = "bind" /\ pc'[c] = "ok" => witness[c]
    BY <1>2, <2>1 DEF Witnessed
  <2> QED BY <1>1, <1>2, <1>3, <2>1, <2>2, NextStepWitness
<1>9. CASE Abort(c)
  <2>1. \/ pc[c] \in CreateSteps /\ pc'[c] = "winner"
        \/ pc'[c] = "failed"
    BY <1>9 DEF Abort
  <2> QED BY <1>1, <1>2, <1>3, <2>1, NextStepWitness DEF Witnessed
<1> QED BY <1>4, <1>5, <1>6, <1>7, <1>8, <1>9

\* The writes that switch flags make no account count that did not.
LEMMA FlagWitness ==
  ASSUME RowsInv, DefaultInv, WitnessInv, NEW c \in Calls,
         DisableWrite(c) \/ SetWrite(c) \/ UnsetDefault(c)
  PROVE  WitnessInv'
<1>1. OthersStay(c)
  BY OneCallSteps DEF Advance
<1>2. UNCHANGED <<witness, arg>> /\ pc[c] \in OtherSteps
  BY DEF DisableWrite, SetWrite, UnsetDefault, OtherSteps
<1>3. ASSUME NEW b \in Accounts
      PROVE  \/ wallets'[b] = wallets[b]
             \/ /\ wallets'[b] # None /\ wallets[b] # None
                /\ wallets'[b].owner = wallets[b].owner
                /\ wallets'[b].active => wallets[b].active
  <2> USE DEF ActiveOf, OwnedBy, SameWallet, Bound
  <2>1. PICK a, u, target : a = arg[c].account /\ u = arg[c].user /\ target = mem[c].target
    OBVIOUS
  <2>2. CASE DisableWrite(c)
    <3>1. /\ ActiveOf(a, u) /\ wallets'[a] # None /\ wallets'[a].owner = u /\ ~wallets'[a].active
          /\ target # None => ActiveOf(target, u) /\ SameWallet(target)
          /\ \A d \in Accounts \ {a} : d # target => wallets'[d] = wallets[d]
      BY <2>1, <2>2, DisabledRow
    <3> QED BY <3>1, NoneAssumption
  <2>3. CASE SetWrite(c)
    BY <2>1, <2>3, SetRows
  <2>4. CASE UnsetDefault(c)
    BY <2>1, <2>4, UnsetRow
  <2> QED BY <2>2, <2>3, <2>4
<1>4. \A d \in Calls, a \in Accounts, u \in Users : NewsWitnessed(d, a, u)
  BY <1>3 DEF NewsWitnessed, ActiveOf, OwnedBy, Bound
<1>5. \A d \in Calls \ {c} : Witnessed(d)'
  BY <1>1, <1>2, <1>4, WitnessKept DEF OthersStay
<1>6. arg'[c].op # "bind"
  BY <1>2 DEF WitnessInv, Witnessed
<1>7. Witnessed(c)'
  BY <1>6 DEF Witnessed
<1> QED BY <1>5, <1>7 DEF WitnessInv

\* Every bind of the account by the same user witnesses a row that is activated.
LEMMA ActivationWitness ==
  ASSUME RowsInv, WitnessInv, NEW c \in Calls, OthersStay(c),
         NEW a \in Accounts, NEW u \in Users, NEW flag, NEW n, Activates(a, u, flag, n),
         a = arg[c].account, u = arg[c].user, pc[c] \in {"createWrite", "reactivateWrite"},
         UNCHANGED arg, pc'[c] \in {"ok", "winner", "reread"}
  PROVE  WitnessInv'
<1>1. \A d \in Calls :
        /\ witness[d] => witness'[d]
        /\ pc[d] # "idle" /\ arg[d].op = "bind" /\ arg[d].account = a /\ arg[d].user = u
             => witness'[d]
  BY DEF Activates, Record
<1>2. ASSUME NEW d \in Calls \ {c} PROVE Witnessed(d)'
  <2>1. ASSUME NEW b \in Accounts, NEW v \in Users, pc[d] # "idle", arg[d].op = "bind",
               b = arg[d].account, v = arg[d].user
        PROVE  NewsWitnessed(d, b, v)
    <3>1. CASE b = a /\ v = u
      BY <1>1, <2>1, <3>1 DEF NewsWitnessed
    <3>2. CASE ~(b = a /\ v = u)
      BY <3>2 DEF NewsWitnessed, Activates, ActiveOf, OwnedBy, Bound
    <3> QED BY <3>1, <3>2
  <2> QED BY <1>1, <2>1, WitnessKept DEF OthersStay
<1>3. arg[c].op = "bind"
  BY DEF RowsInv, RowFound, BindSteps, Holding, CreateSteps, ReactivateSteps
<1>4. witness'[c]
  BY <1>1, <1>3
<1>5. Witnessed(c)'
  BY <1>4 DEF Witnessed, OtherSteps
<1> QED BY <1>2, <1>5 DEF WitnessInv

LEMMA WriteWitness ==
  ASSUME RowsInv, WitnessInv, NEW c \in Calls, CreateWrite(c) \/ ReactivateWrite(c)
  PROVE  WitnessInv'
<1>1. OthersStay(c)
  BY OneCallSteps DEF Advance
<1>2. CASE CreateWrite(c)
  <2>1. UNCHANGED arg /\ pc[c] = "createWrite" /\ pc'[c] \in {"ok", "winner"} /\ Witnessed(c)
    BY <1>2 DEF CreateWrite, Goto, RowsInv, TypeOK, WitnessInv
  <2>2. CASE UNCHANGED <<wallets, witness>> /\ pc'[c] = "winner"
    BY <1>1, <2>1, <2>2, NextStepWitness DEF Witnessed, OtherSteps, CreateSteps
  <2> QED BY <1>1, <1>2, <2>1, <2>2, CreatedRow, ActivationWitness
<1>3. CASE ReactivateWrite(c)
  BY <1>1, <1>3, ReactivatedRow, ActivationWitness DEF ReactivateWrite, Goto, RowsInv, TypeOK
<1> QED BY <1>2, <1>3

LEMMA WitnessStep == RowsInv /\ DefaultInv /\ WitnessInv /\ [Next]_vars => WitnessInv'
<1> SUFFICES ASSUME RowsInv, DefaultInv, WitnessInv, [Next]_vars PROVE WitnessInv'
  OBVIOUS
<1>1. ASSUME NEW c \in Calls, Advance(c) PROVE WitnessInv'
  BY <1>1, OtherWitness, BindWitness, FlagWitness, WriteWitness, ReturnWitness DEF Advance
<1>2. ASSUME NEW c \in Calls, Abort(c) \/ \E r \in Requests : Call(c, r) PROVE WitnessInv'
  BY <1>2, BindWitness, CallWitness
<1>3. CASE Tick \/ UNCHANGED vars \/ \E n \in NonceIds : Evict(n)
  BY <1>3 DEF Tick, vars, Evict, WitnessInv, Witnessed, ActiveOf, OwnedBy, Bound
<1> QED BY <1>1, <1>2, <1>3 DEF Next

\* A successful BindWallet has bound: its wallet was active and its caller's at
\* some moment of the call: on the fast path, after a restoration (service/wallet.go:155)
\* and when the answer is the winner of a lost race, which is found whatever its
\* status (service/wallet.go:175).
THEOREM BindsTakeEffect == Spec => []BindTakesEffect
<1>1. RowsInv /\ WitnessInv => BindTakesEffect
  BY DEF WitnessInv, Witnessed, BindTakesEffect
<1> QED BY <1>1, RowsInit, RowsStep, DefaultInit, DefaultStep, WitnessInit, WitnessStep, PTL DEF Spec

-----------------------------------------------------------------------------
(* Layer 5: the registry *)

\* Disable has found nobody to take over the default that it is about to remove.
NobodyElse(c) ==
  LET a == arg[c].account
      u == arg[c].user
  IN pc[c] = "disableWrite" /\ mem[c].target = None /\ DefaultOf(a, u)
       => \A b \in Accounts \ {a} : ~ActiveOf(b, u)

ReplacementInv == \A c \in Calls : NobodyElse(c)

LEMMA ReplacementInit == Init => ReplacementInv
BY DEF Init, ReplacementInv, NobodyElse

\* Nothing new counts for v.
NoNews(v) ==
  \A b \in Accounts : (ActiveOf(b, v)' => ActiveOf(b, v)) /\ (DefaultOf(b, v)' => DefaultOf(b, v))

\* A step of another call keeps what d has found.
LEMMA ReplacementKept ==
  ASSUME RowsInv, ReplacementInv, NEW d \in Calls, pc'[d] = pc[d], arg'[d] = arg[d],
         mem'[d] = mem[d],
         \A v \in Users : pc[d] = "disableWrite" /\ v = arg[d].user => NoNews(v)
  PROVE  NobodyElse(d)'
<1>1. CASE pc[d] # "disableWrite"
  BY <1>1 DEF NobodyElse
<1>2. CASE pc[d] = "disableWrite"
  <2>1. PICK a \in Accounts, u \in Users : a = arg[d].account /\ u = arg[d].user
    BY <1>2, ArgFields DEF RowsInv
  <2>2. NoNews(u) /\ NobodyElse(d)
    BY <1>2, <2>1 DEF ReplacementInv
  <2>3. mem[d].target = None /\ DefaultOf(a, u)' => \A b \in Accounts \ {a} : ~ActiveOf(b, u)'
    BY <1>2, <2>1, <2>2 DEF NoNews, NobodyElse
  <2> QED BY <2>1, <2>3 DEF NobodyElse, DefaultOf, ActiveOf, Bound
<1> QED BY <1>1, <1>2

\* A step of c that writes no row, or only rows of its own user behind the lock.
LEMMA ReplacementAfter ==
  ASSUME RowsInv, DefaultInv, ReplacementInv, NEW c \in Calls, OthersStay(c), NobodyElse(c)',
         \/ UNCHANGED wallets
         \/ pc[c] \in Locked /\ OnlyRowsOf(arg[c].user)
         \/ \A v \in Users : NoNews(v)
  PROVE  ReplacementInv'
<1>1. ASSUME NEW d \in Calls \ {c}, NEW v \in Users, pc[d] = "disableWrite", v = arg[d].user
      PROVE  NoNews(v)
  <2>1. CASE UNCHANGED wallets
    BY <2>1 DEF NoNews, DefaultOf, ActiveOf, Bound
  <2>2. CASE pc[c] \in Locked /\ OnlyRowsOf(arg[c].user)
    <3>1. v # arg[c].user
      BY <1>1, <2>2, OneLocked DEF Locked
    <3> QED BY <2>2, <3>1 DEF OnlyRowsOf, NoNews, DefaultOf, ActiveOf, Bound
  <2> QED BY <2>1, <2>2
<1>2. \A d \in Calls \ {c} : NobodyElse(d)'
  BY <1>1, ReplacementKept DEF OthersStay
<1> QED BY <1>2 DEF ReplacementInv

LEMMA QuietReplacement ==
  ASSUME RowsInv, DefaultInv, ReplacementInv, NEW c \in Calls,
         \/ \E n \in NonceIds : StoreChallenge(c, n) \/ CollideChallenge(c, n)
         \/ \E r \in Requests : Call(c, r)
         \/ Return(c) \/ Consume(c) \/ Find(c) \/ Reread(c) \/ UpdateLabel(c) \/ Abort(c)
         \/ LockOwner(c) \/ CountDefaults(c)
  PROVE  ReplacementInv'
<1>1. UNCHANGED wallets
  BY DEF StoreChallenge, CollideChallenge, Call, Return, Consume, Find, Reread, UpdateLabel, Abort,
         LockOwner, CountDefaults, DataUnchanged
<1>2. OthersStay(c)
  BY OneCallSteps DEF Advance
<1>3. pc'[c] # "disableWrite"
  <2> USE DEF Goto, RowsInv, TypeOK
  <2>1. CASE UpdateLabel(c)
    <3>1. arg[c].want \in {"keep", "set", "unset"}
      BY <2>1, RequestFields DEF UpdateLabel
    <3>2. AfterLabel[arg[c].want] \in {"reread", "setLock", "unset"}
      BY <3>1 DEF AfterLabel
    <3> QED BY <2>1, <3>2 DEF UpdateLabel
  <2>2. ASSUME NEW r \in Requests, Call(c, r) PROVE pc'[c] # "disableWrite"
    <3>1. r \in Request
      BY DEF Requests
    <3> QED BY <2>2, <3>1, FirstSteps DEF Call
  <2>3. CASE Find(c)
    BY <2>3 DEF Find, AfterFind
  <2>4. CASE LockOwner(c)
    BY <2>4, AfterLockSteps DEF LockOwner
  <2>5. CASE CountDefaults(c)
    BY <2>5, AfterCountSteps DEF CountDefaults
  <2>6. CASE \E n \in NonceIds : StoreChallenge(c, n) \/ CollideChallenge(c, n)
    BY <2>6 DEF StoreChallenge, CollideChallenge
  <2>7. CASE Return(c) \/ Consume(c) \/ Reread(c) \/ Abort(c)
    BY <2>7 DEF Return, Consume, Reread, Abort
  <2> QED BY <2>1, <2>2, <2>3, <2>4, <2>5, <2>6, <2>7
<1>4. NobodyElse(c)'
  BY <1>3 DEF NobodyElse
<1> QED BY <1>1, <1>2, <1>4, ReplacementAfter

\* Disable looks for a replacement when the wallet that it locks is the default.
LEMMA DisableReplacement ==
  ASSUME RowsInv, DefaultInv, ReplacementInv, NEW c \in Calls,
         SelectForUpdate(c) \/ DisableReplace(c)
  PROVE  ReplacementInv'
<1>1. UNCHANGED <<wallets, arg>> /\ pc[c] # "idle"
  BY DEF SelectForUpdate, DisableReplace, DataUnchanged
<1>2. OthersStay(c)
  BY OneCallSteps DEF Advance
<1>3. PICK a \in Accounts, u \in Users : a = arg[c].account /\ u = arg[c].user
  BY <1>1, ArgFields DEF RowsInv
<1>4. \/ pc'[c] # "disableWrite"
      \/ ~DefaultOf(a, u)
      \/ mem'[c].target = None => \A b \in Accounts \ {a} : ~ActiveOf(b, u)
  <2>1. CASE SelectForUpdate(c)
    BY <1>3, <2>1 DEF SelectForUpdate, Goto, RowsInv, TypeOK, DefaultOf
  <2>2. CASE DisableReplace(c)
    <3>1. PICK b \in Replacement(a, u) : mem' = [mem EXCEPT ![c] = [mem[c] EXCEPT !.target = b]]
      BY <1>3, <2>2 DEF DisableReplace
    <3>2. mem'[c].target = b
      BY <3>1 DEF RowsInv, TypeOK, Local
    <3> QED BY <3>1, <3>2, NoneAssumption DEF Replacement
  <2> QED BY <2>1, <2>2
<1>5. NobodyElse(c)'
  BY <1>1, <1>3, <1>4 DEF NobodyElse, DefaultOf, ActiveOf, Bound
<1> QED BY <1>1, <1>2, <1>5, ReplacementAfter

LEMMA WriteReplacement ==
  ASSUME RowsInv, DefaultInv, ReplacementInv, NEW c \in Calls,
         CreateWrite(c) \/ ReactivateWrite(c) \/ DisableWrite(c) \/ SetWrite(c) \/ UnsetDefault(c)
  PROVE  ReplacementInv'
<1>1. OthersStay(c)
  BY OneCallSteps DEF Advance
<1>2. pc'[c] # "disableWrite"
  BY DEF CreateWrite, ReactivateWrite, DisableWrite, SetWrite, UnsetDefault, Goto, RowsInv, TypeOK
<1>3. NobodyElse(c)'
  BY <1>2 DEF NobodyElse
<1>4. PICK a, u, target : a = arg[c].account /\ u = arg[c].user /\ target = mem[c].target
  OBVIOUS
<1>6. CASE CreateWrite(c) \/ ReactivateWrite(c)
  <2>1. UNCHANGED wallets \/ OnlyRowsOf(u)
    BY <1>4, <1>6, CreatedRow, ReactivatedRow DEF Activates, OnlyRowsOf, OwnedBy, Bound
  <2>2. pc[c] \in Locked
    BY <1>6 DEF CreateWrite, ReactivateWrite, Locked
  <2> QED BY <1>1, <1>3, <1>4, <2>1, <2>2, ReplacementAfter
<1>7. CASE DisableWrite(c)
  <2>1. /\ ActiveOf(a, u) /\ wallets'[a] # None /\ wallets'[a].owner = u
        /\ target # None => ActiveOf(target, u) /\ SameWallet(target)
        /\ \A d \in Accounts \ {a} : d # target => wallets'[d] = wallets[d]
    BY <1>4, <1>7, DisabledRow
  <2>2. OnlyRowsOf(u)
    BY <2>1, NoneAssumption DEF OnlyRowsOf, SameWallet, ActiveOf, Bound
  <2>3. pc[c] \in Locked
    BY <1>7 DEF DisableWrite, Locked
  <2> QED BY <1>1, <1>3, <1>4, <2>2, <2>3, ReplacementAfter
<1>8. CASE SetWrite(c)
  <2>1. OnlyRowsOf(u)
    BY <1>4, <1>8, SetRows DEF OnlyRowsOf, SameWallet, OwnedBy, Bound
  <2>2. pc[c] \in Locked
    BY <1>8 DEF SetWrite, Locked
  <2> QED BY <1>1, <1>3, <1>4, <2>1, <2>2, ReplacementAfter
<1>9. CASE UnsetDefault(c)
  <2>1. UNCHANGED wallets \/ \A v \in Users : NoNews(v)
    BY <1>4, <1>9, UnsetRow DEF NoNews, SameWallet, DefaultOf, ActiveOf, Bound
  <2> QED BY <1>1, <1>3, <2>1, ReplacementAfter
<1> QED BY <1>6, <1>7, <1>8, <1>9

LEMMA ReplacementStep == RowsInv /\ DefaultInv /\ ReplacementInv /\ [Next]_vars => ReplacementInv'
<1> SUFFICES ASSUME RowsInv, DefaultInv, ReplacementInv, [Next]_vars PROVE ReplacementInv'
  OBVIOUS
<1>1. ASSUME NEW c \in Calls, Advance(c) PROVE ReplacementInv'
  BY <1>1, QuietReplacement, DisableReplacement, WriteReplacement DEF Advance
<1>2. ASSUME NEW c \in Calls, Abort(c) \/ \E r \in Requests : Call(c, r) PROVE ReplacementInv'
  BY <1>2, QuietReplacement
<1>3. CASE Tick \/ UNCHANGED vars \/ \E n \in NonceIds : Evict(n)
  BY <1>3 DEF Tick, vars, Evict, ReplacementInv, NobodyElse, DefaultOf, ActiveOf, Bound
<1> QED BY <1>1, <1>2, <1>3 DEF Next

(* What the registry shows of the rows *)

OwnerMap  == [a \in Accounts |-> IF Bound(a) THEN wallets[a].owner ELSE None]
ActiveSet == {a \in Accounts : Bound(a) /\ wallets[a].active}
DefaultMap ==
  [u \in Users |-> IF HasDefault(u) THEN CHOOSE a \in Accounts : DefaultOf(a, u) ELSE None]

Others(a, u) == {b \in ActiveSet : OwnerMap[b] = u} \ {a}

\* With one default at most, the choice is no choice.
LEMMA TheDefault ==
  ASSUME AtMostOneDefault, NEW u \in Users, NEW a \in Accounts
  PROVE  DefaultMap[u] = a <=> DefaultOf(a, u)
<1>1. ASSUME DefaultOf(a, u) PROVE DefaultMap[u] = a
  <2>1. HasDefault(u) /\ \A b \in Accounts : DefaultOf(b, u) => b = a
    BY <1>1 DEF HasDefault, AtMostOneDefault, DefaultOf, ActiveOf
  <2> QED BY <1>1, <2>1 DEF DefaultMap
<1>2. ASSUME DefaultMap[u] = a PROVE DefaultOf(a, u)
  <2>1. HasDefault(u)
    BY <1>2, NoneAssumption DEF DefaultMap
  <2> QED BY <1>2, <2>1 DEF DefaultMap, HasDefault
<1> QED BY <1>1, <1>2

LEMMA TheNextDefault ==
  ASSUME AtMostOneDefault', NEW u \in Users, NEW a \in Accounts
  PROVE  DefaultMap'[u] = a <=> DefaultOf(a, u)'
<1>1. ASSUME DefaultOf(a, u)' PROVE DefaultMap'[u] = a
  <2>1. HasDefault(u)' /\ \A b \in Accounts : DefaultOf(b, u)' => b = a
    BY <1>1 DEF HasDefault, AtMostOneDefault, DefaultOf, ActiveOf
  <2> QED BY <1>1, <2>1 DEF DefaultMap
<1>2. ASSUME DefaultMap'[u] = a PROVE DefaultOf(a, u)'
  <2>1. HasDefault(u)'
    BY <1>2, NoneAssumption DEF DefaultMap
  <2> QED BY <1>2, <2>1 DEF DefaultMap, HasDefault
<1> QED BY <1>1, <1>2

LEMMA NoDefault ==
  ASSUME NEW u \in Users
  PROVE  /\ DefaultMap[u] \in Accounts \cup {None} /\ DefaultMap'[u] \in Accounts \cup {None}
         /\ (\A a \in Accounts : ~DefaultOf(a, u)) => DefaultMap[u] = None
         /\ (\A a \in Accounts : ~DefaultOf(a, u)') => DefaultMap'[u] = None
BY DEF DefaultMap, HasDefault

\* A default that no write concerns.
LEMMA SameDefault ==
  ASSUME AtMostOneDefault, AtMostOneDefault', NEW u \in Users,
         \A a \in Accounts : DefaultOf(a, u)' <=> DefaultOf(a, u)
  PROVE  DefaultMap'[u] = DefaultMap[u]
BY TheDefault, TheNextDefault, NoDefault

\* The default of u is the only one that changes, to d.
LEMMA OneDefaultChanges ==
  ASSUME NEW u \in Users, NEW d, DefaultMap'[u] = d,
         \A v \in Users \ {u} : DefaultMap'[v] = DefaultMap[v]
  PROVE  DefaultMap' = [DefaultMap EXCEPT ![u] = d]
<1>1. DefaultMap = [v \in Users |-> DefaultMap[v]] /\ DefaultMap' = [v \in Users |-> DefaultMap'[v]]
  BY DEF DefaultMap
<1> QED BY <1>1

LEMMA NoDefaultChanges ==
  ASSUME \A v \in Users : DefaultMap'[v] = DefaultMap[v]
  PROVE  DefaultMap' = DefaultMap
<1>1. DefaultMap = [v \in Users |-> DefaultMap[v]] /\ DefaultMap' = [v \in Users |-> DefaultMap'[v]]
  BY DEF DefaultMap
<1> QED BY <1>1

\* Wallets that keep their owners and statuses look the same but for the default.
LEMMA SameMaps ==
  ASSUME \A b \in Accounts : wallets'[b] = wallets[b] \/ (Bound(b) /\ SameWallet(b))
  PROVE  OwnerMap' = OwnerMap /\ ActiveSet' = ActiveSet
BY DEF OwnerMap, ActiveSet, SameWallet, Bound

LEMMA RegistryStutters ==
  ASSUME UNCHANGED <<OwnerMap, ActiveSet, DefaultMap>>
  PROVE  UNCHANGED Registry!vars
BY DEF Registry!vars, OwnerMap, ActiveSet, DefaultMap

LEMMA QuietRegistry == ASSUME UNCHANGED wallets PROVE UNCHANGED Registry!vars
BY DEF Registry!vars, Bound, HasDefault, DefaultOf, ActiveOf

(* The operations *)

\* The default of a verified bind.
MayBecome(a, u) ==
  IF DefaultMap[u] \in {None, a}
    THEN \E d \in {None, a} : DefaultMap' = [DefaultMap EXCEPT ![u] = d]
    ELSE UNCHANGED DefaultMap

LEMMA ActivationShown ==
  ASSUME RowsInv, DefaultInv, DefaultInv', NEW c \in Calls, NEW a \in Accounts, NEW u \in Users,
         NEW n, pc[c] \in {"createWrite", "reactivateWrite"}, a = arg[c].account, u = arg[c].user,
         Activates(a, u, ~mem[c].hasDefault, n), Bound(a) => OwnedBy(a, u)
  PROVE  /\ OwnerMap' = [OwnerMap EXCEPT ![a] = u]
         /\ ActiveSet' = ActiveSet \cup {a}
         /\ MayBecome(a, u)
<1> USE DEF Activates
<1>1. OwnerMap' = [OwnerMap EXCEPT ![a] = u]
  BY DEF OwnerMap, Bound
<1>2. ActiveSet' = ActiveSet \cup {a}
  BY DEF ActiveSet, Bound
<1>3. AtMostOneDefault /\ AtMostOneDefault'
  BY DEF DefaultInv
<1>4. \A v \in Users \ {u} : DefaultMap'[v] = DefaultMap[v]
  <2>1. ASSUME NEW v \in Users \ {u}, NEW b \in Accounts
        PROVE  DefaultOf(b, v)' <=> DefaultOf(b, v)
    BY DEF DefaultOf, ActiveOf, OwnedBy, Bound
  <2> QED BY <1>3, <2>1, SameDefault
<1>5. \A b \in Accounts \ {a} : DefaultOf(b, u)' <=> DefaultOf(b, u)
  BY DEF DefaultOf, ActiveOf, Bound
<1>6. mem[c].hasDefault \in BOOLEAN
  BY DEF RowsInv, TypeOK, Local
<1>7. MayBecome(a, u)
  <2>1. CASE mem[c].hasDefault = FALSE
    <3>1. ~HasDefault(u)
      BY <2>1 DEF DefaultInv, StillTrue
    <3>2. DefaultMap[u] = None
      BY <3>1 DEF DefaultMap
    <3>3. DefaultOf(a, u)'
      BY <2>1 DEF DefaultOf, ActiveOf, Bound
    <3>4. DefaultMap'[u] = a
      BY <1>3, <3>3, TheNextDefault
    <3> QED BY <1>4, <3>2, <3>4, OneDefaultChanges DEF MayBecome
  <2>2. CASE mem[c].hasDefault = TRUE /\ DefaultOf(a, u)
    <3>1. DefaultMap[u] = a
      BY <1>3, <2>2, TheDefault
    <3>2. \A b \in Accounts : ~DefaultOf(b, u)'
      <4>1. \A b \in Accounts \ {a} : ~DefaultOf(b, u)
        BY <1>3, <2>2 DEF AtMostOneDefault, DefaultOf, ActiveOf
      <4>2. ~DefaultOf(a, u)'
        BY <2>2 DEF DefaultOf
      <4> QED BY <1>5, <4>1, <4>2
    <3>3. DefaultMap'[u] = None
      BY <3>2, NoDefault
    <3> QED BY <1>4, <3>1, <3>3, OneDefaultChanges DEF MayBecome
  <2>3. CASE mem[c].hasDefault = TRUE /\ ~DefaultOf(a, u)
    <3>1. \A b \in Accounts : DefaultOf(b, u)' <=> DefaultOf(b, u)
      BY <1>5, <2>3 DEF DefaultOf
    <3>2. DefaultMap'[u] = DefaultMap[u]
      BY <1>3, <3>1, SameDefault
    <3>3. DefaultMap' = DefaultMap /\ DefaultMap' = [DefaultMap EXCEPT ![u] = DefaultMap[u]]
      BY <1>4, <3>2, NoDefaultChanges, OneDefaultChanges
    <3> QED BY <3>3 DEF MayBecome
  <2> QED BY <1>6, <2>1, <2>2, <2>3
<1> QED BY <1>1, <1>2, <1>7

LEMMA CreateShown ==
  ASSUME RowsInv, DefaultInv, DefaultInv', NEW c \in Calls, CreateWrite(c)
  PROVE  [Registry!Next]_(Registry!vars)
<1>1. CASE UNCHANGED wallets
  BY <1>1, QuietRegistry
<1>2. CASE ~UNCHANGED wallets
  <2>1. PICK a \in Accounts, u \in Users, n \in NonceIds :
          /\ a = arg[c].account /\ u = arg[c].user
          /\ ~Bound(a) /\ Activates(a, u, ~mem[c].hasDefault, n)
    BY <1>2, CreatedRow
  <2>2. pc[c] = "createWrite"
    BY DEF CreateWrite
  <2>3. /\ OwnerMap' = [OwnerMap EXCEPT ![a] = u]
        /\ ActiveSet' = ActiveSet \cup {a} /\ MayBecome(a, u)
    BY <2>1, <2>2, ActivationShown
  <2>4. OwnerMap[a] = None
    BY <2>1 DEF OwnerMap
  <2>5. Registry!Bind(a, u)
    BY <2>3, <2>4 DEF Registry!Bind, Registry!MayBecomeDefault, MayBecome, OwnerMap, ActiveSet, DefaultMap
  <2> QED BY <2>5 DEF Registry!Next
<1> QED BY <1>1, <1>2

LEMMA ReactivateShown ==
  ASSUME RowsInv, DefaultInv, DefaultInv', NEW c \in Calls, ReactivateWrite(c)
  PROVE  [Registry!Next]_(Registry!vars)
<1>1. PICK a \in Accounts, u \in Users, n \in NonceIds :
        /\ a = arg[c].account /\ u = arg[c].user
        /\ OwnedBy(a, u) /\ Activates(a, u, ~mem[c].hasDefault, n)
  BY ReactivatedRow
<1>2. pc[c] = "reactivateWrite"
  BY DEF ReactivateWrite
<1>3. /\ OwnerMap' = [OwnerMap EXCEPT ![a] = u]
      /\ ActiveSet' = ActiveSet \cup {a} /\ MayBecome(a, u)
  BY <1>1, <1>2, ActivationShown
<1>4. OwnerMap[a] = u /\ OwnerMap' = OwnerMap
  BY <1>1, <1>3 DEF OwnerMap, OwnedBy
<1>5. Registry!Rebind(a, u)
  BY <1>3, <1>4 DEF Registry!Rebind, Registry!MayBecomeDefault, MayBecome, OwnerMap, ActiveSet, DefaultMap
<1> QED BY <1>5 DEF Registry!Next

LEMMA DisableShown ==
  ASSUME RowsInv, DefaultInv, DefaultInv', ReplacementInv, NEW c \in Calls, DisableWrite(c)
  PROVE  [Registry!Next]_(Registry!vars)
<1>1. PICK a, u, target : a = arg[c].account /\ u = arg[c].user /\ target = mem[c].target
  OBVIOUS
<1>2. /\ a \in Accounts /\ u \in Users /\ ActiveOf(a, u)
      /\ wallets'[a] # None /\ wallets'[a].owner = u /\ ~wallets'[a].active /\ ~wallets'[a].isDefault
      /\ target # None =>
           /\ target \in Accounts \ {a} /\ ActiveOf(target, u) /\ DefaultOf(a, u)
           /\ SameWallet(target) /\ wallets'[target].isDefault
      /\ \A b \in Accounts \ {a} : b # target => wallets'[b] = wallets[b]
  BY <1>1, DisabledRow
<1>3. AtMostOneDefault /\ AtMostOneDefault'
  BY DEF DefaultInv
<1>4. OwnerMap' = OwnerMap /\ ActiveSet' = ActiveSet \ {a}
  BY <1>2, NoneAssumption DEF OwnerMap, ActiveSet, SameWallet, ActiveOf, Bound
<1>5. OwnerMap[a] = u /\ a \in ActiveSet
  BY <1>2 DEF OwnerMap, ActiveSet, ActiveOf, Bound
<1>6. \A v \in Users \ {u} : DefaultMap'[v] = DefaultMap[v]
  <2>1. ASSUME NEW v \in Users \ {u}, NEW b \in Accounts
        PROVE  DefaultOf(b, v)' <=> DefaultOf(b, v)
    BY <1>2, NoneAssumption DEF DefaultOf, ActiveOf, SameWallet, Bound
  <2> QED BY <1>3, <2>1, SameDefault
<1>7. \A b \in Accounts : b \in Others(a, u) <=> b # a /\ ActiveOf(b, u)
  BY NoneAssumption, <1>2 DEF Others, ActiveSet, OwnerMap, ActiveOf, Bound
<1>8. CASE DefaultMap[u] = a
  <2>1. DefaultOf(a, u)
    BY <1>2, <1>3, <1>8, TheDefault
  <2>2. \A b \in Accounts \ {a} : ~DefaultOf(b, u)
    BY <1>2, <2>1, <1>3 DEF AtMostOneDefault, DefaultOf, ActiveOf
  <2>3. CASE target = None
    <3>1. \A b \in Accounts \ {a} : ~ActiveOf(b, u)
      BY <1>1, <2>1, <2>3 DEF ReplacementInv, NobodyElse, DisableWrite
    <3>2. Others(a, u) = {}
      BY <1>7, <3>1 DEF Others, ActiveSet
    <3>3. \A b \in Accounts : ~DefaultOf(b, u)'
      BY <1>2, <2>2, <2>3, NoneAssumption DEF DefaultOf, ActiveOf, Bound
    <3>4. DefaultMap'[u] = None
      BY <1>2, <3>3, NoDefault
    <3>5. DefaultMap' = [DefaultMap EXCEPT ![u] = None]
      BY <1>2, <1>6, <3>4, OneDefaultChanges
    <3>6. Registry!Unbind(a, u)
      BY <1>4, <1>5, <1>8, <3>2, <3>5 DEF Registry!Unbind, Others, OwnerMap, ActiveSet, DefaultMap
    <3> QED BY <1>2, <3>6 DEF Registry!Next
  <2>4. CASE target # None
    <3>1. target \in Others(a, u)
      BY <1>2, <1>7, <2>4
    <3>2. DefaultOf(target, u)'
      BY <1>2, <2>4 DEF DefaultOf, ActiveOf, SameWallet, Bound
    <3>3. DefaultMap'[u] = target
      BY <1>2, <1>3, <2>4, <3>2, TheNextDefault
    <3>4. DefaultMap' = [DefaultMap EXCEPT ![u] = target]
      BY <1>2, <1>6, <3>3, OneDefaultChanges
    <3>5. Registry!Unbind(a, u)
      BY <1>4, <1>5, <1>8, <3>1, <3>4 DEF Registry!Unbind, Others, OwnerMap, ActiveSet, DefaultMap
    <3> QED BY <1>2, <3>5 DEF Registry!Next
  <2> QED BY <2>3, <2>4
<1>9. CASE DefaultMap[u] # a
  <2>1. ~DefaultOf(a, u)
    BY <1>2, <1>3, <1>9, TheDefault
  <2>2. target = None
    BY <1>2, <2>1
  <2>3. \A b \in Accounts : DefaultOf(b, u)' <=> DefaultOf(b, u)
    BY <1>2, <2>1, <2>2, NoneAssumption DEF DefaultOf, ActiveOf, Bound
  <2>4. DefaultMap' = DefaultMap
    BY <1>2, <1>3, <1>6, <2>3, SameDefault, NoDefaultChanges
  <2>5. Registry!Unbind(a, u)
    BY <1>4, <1>5, <1>9, <2>4 DEF Registry!Unbind, OwnerMap, ActiveSet, DefaultMap
  <2> QED BY <1>2, <2>5 DEF Registry!Next
<1> QED BY <1>8, <1>9

LEMMA SetShown ==
  ASSUME RowsInv, DefaultInv, DefaultInv', NEW c \in Calls, SetWrite(c)
  PROVE  [Registry!Next]_(Registry!vars)
<1>1. PICK a, u : a = arg[c].account /\ u = arg[c].user
  OBVIOUS
<1>2. /\ a \in Accounts /\ u \in Users /\ ActiveOf(a, u)
      /\ \A b \in Accounts :
           IF OwnedBy(b, u) THEN SameWallet(b) /\ wallets'[b].isDefault = (b = a)
           ELSE wallets'[b] = wallets[b]
  BY <1>1, SetRows
<1>3. AtMostOneDefault /\ AtMostOneDefault'
  BY DEF DefaultInv
<1>4. OwnerMap' = OwnerMap /\ ActiveSet' = ActiveSet
  BY <1>2, SameMaps DEF OwnedBy
<1>5. OwnerMap[a] = u /\ a \in ActiveSet
  BY <1>2 DEF OwnerMap, ActiveSet, ActiveOf, Bound
<1>6. \A v \in Users \ {u} : DefaultMap'[v] = DefaultMap[v]
  <2>1. ASSUME NEW v \in Users \ {u}, NEW b \in Accounts
        PROVE  DefaultOf(b, v)' <=> DefaultOf(b, v)
    BY <1>2 DEF DefaultOf, ActiveOf, OwnedBy, SameWallet, Bound
  <2> QED BY <1>3, <2>1, SameDefault
<1>7. DefaultOf(a, u)'
  BY <1>2 DEF DefaultOf, ActiveOf, OwnedBy, SameWallet, Bound
<1>8. DefaultMap'[u] = a
  BY <1>2, <1>3, <1>7, TheNextDefault
<1>9. DefaultMap' = [DefaultMap EXCEPT ![u] = a]
  BY <1>2, <1>6, <1>8, OneDefaultChanges
<1>10. Registry!SetDefault(a, u)
  BY <1>4, <1>5, <1>9 DEF Registry!SetDefault, OwnerMap, ActiveSet, DefaultMap
<1> QED BY <1>2, <1>10 DEF Registry!Next

LEMMA UnsetShown ==
  ASSUME RowsInv, DefaultInv, DefaultInv', NEW c \in Calls, UnsetDefault(c)
  PROVE  [Registry!Next]_(Registry!vars)
<1>1. CASE UNCHANGED wallets
  BY <1>1, QuietRegistry
<1>2. CASE ~UNCHANGED wallets
  <2>1. PICK a, u : a = arg[c].account /\ u = arg[c].user
    OBVIOUS
  <2>2. /\ a \in Accounts /\ u \in Users /\ ActiveOf(a, u) /\ SameWallet(a) /\ ~wallets'[a].isDefault
        /\ \A b \in Accounts \ {a} : wallets'[b] = wallets[b]
    BY <1>2, <2>1, UnsetRow
  <2>3. AtMostOneDefault /\ AtMostOneDefault'
    BY DEF DefaultInv
  <2>4. OwnerMap' = OwnerMap /\ ActiveSet' = ActiveSet
    BY <2>2, SameMaps DEF ActiveOf
  <2>5. \A v \in Users \ {u} : DefaultMap'[v] = DefaultMap[v]
    <3>1. ASSUME NEW v \in Users \ {u}, NEW b \in Accounts
          PROVE  DefaultOf(b, v)' <=> DefaultOf(b, v)
      BY <2>2 DEF DefaultOf, ActiveOf, SameWallet, Bound
    <3> QED BY <2>3, <3>1, SameDefault
  <2>6. CASE DefaultOf(a, u)
    <3>1. \A b \in Accounts : ~DefaultOf(b, u)'
      BY <2>2, <2>3, <2>6 DEF AtMostOneDefault, DefaultOf, ActiveOf, Bound
    <3>2. DefaultMap'[u] = None
      BY <2>2, <3>1, NoDefault
    <3>3. DefaultMap' = [DefaultMap EXCEPT ![u] = None]
      BY <2>2, <2>5, <3>2, OneDefaultChanges
    <3>4. Registry!UnsetDefault(u)
      BY <2>4, <3>3 DEF Registry!UnsetDefault, OwnerMap, ActiveSet, DefaultMap
    <3> QED BY <2>2, <3>4 DEF Registry!Next
  <2>7. CASE ~DefaultOf(a, u)
    <3>1. \A b \in Accounts : DefaultOf(b, u)' <=> DefaultOf(b, u)
      BY <2>2, <2>7 DEF DefaultOf, ActiveOf, Bound
    <3>2. DefaultMap' = DefaultMap
      BY <2>2, <2>3, <2>5, <3>1, SameDefault, NoDefaultChanges
    <3> QED BY <2>4, <3>2, RegistryStutters
  <2> QED BY <2>6, <2>7
<1> QED BY <1>1, <1>2

LEMMA RegistryStart == Init => Registry!Init
BY DEF Init, Registry!Init, Bound, HasDefault, DefaultOf, ActiveOf

LEMMA RegistryStep ==
  RowsInv /\ DefaultInv /\ DefaultInv' /\ ReplacementInv /\ [Next]_vars
    => [Registry!Next]_(Registry!vars)
<1> SUFFICES ASSUME RowsInv, DefaultInv, DefaultInv', ReplacementInv, [Next]_vars
             PROVE  [Registry!Next]_(Registry!vars)
  OBVIOUS
<1>1. CASE UNCHANGED wallets
  BY <1>1, QuietRegistry
<1>2. ASSUME NEW c \in Calls, Advance(c) PROVE [Registry!Next]_(Registry!vars)
  <2>1. CASE CreateWrite(c) \/ ReactivateWrite(c) \/ DisableWrite(c) \/ SetWrite(c) \/ UnsetDefault(c)
    BY <2>1, CreateShown, ReactivateShown, DisableShown, SetShown, UnsetShown
  <2>2. UNCHANGED wallets \/ CreateWrite(c) \/ ReactivateWrite(c) \/ DisableWrite(c) \/ SetWrite(c)
          \/ UnsetDefault(c)
    BY <1>2 DEF Advance, StoreChallenge, CollideChallenge, Consume, Find, LockOwner, CountDefaults,
                SelectForUpdate, Reread, DisableReplace, UpdateLabel, Return, DataUnchanged
  <2> QED BY <1>1, <2>1, <2>2
<1>3. CASE ~\E c \in Calls : Advance(c)
  BY <1>1, <1>3 DEF Next, Call, Abort, Evict, Tick, vars, DataUnchanged
<1> QED BY <1>2, <1>3

\* The statements of concurrent calls, with their aborts and lost answers, add up
\* to the atomic operations of the registry: a bind takes the default from no
\* other wallet (CreateBoundWallet, Reactivate), and unbinding the default passes
\* it on when there is another active wallet (Disable).
THEOREM BindingImplementsRegistry == Spec => ImplementsRegistry
<1>1. Spec => [](RowsInv /\ DefaultInv /\ ReplacementInv)
  BY RowsInit, RowsStep, DefaultInit, DefaultStep, ReplacementInit, ReplacementStep, PTL DEF Spec
<1> QED BY <1>1, RegistryStart, RegistryStep, PTL DEF Spec, ImplementsRegistry, Registry!Spec
=============================================================================
