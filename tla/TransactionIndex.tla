-------------------------- MODULE TransactionIndex -------------------------
(***************************************************************************)
(* The index of wallet transactions of the Web3 service on one chain: the  *)
(* background scanner (internal/service/scanner.go), the queries that look *)
(* a transaction up and store what they find                               *)
(* (internal/service/transaction.go), and the tables they share            *)
(* (internal/repository/scanner.go, transaction.go).                       *)
(*                                                                         *)
(* Every service instance runs a scanner; nothing excludes two of them.    *)
(* Simplifications:                                                        *)
(*  - Chains are independent: every table is keyed by the chain.           *)
(*  - The items of a block are its native transfers (event index -1, one   *)
(*    per transaction) and its ERC-20 Transfer logs.  Of a row we keep its *)
(*    status and block; amounts, times, hashes and counters are left out.  *)
(*    The code stores block hashes and never compares them.                *)
(*  - The lookups of a transaction's sender and recipient are one step, as *)
(*    are the reading of wallets, logs and receipts that follow each other *)
(*    with nothing written in between.                                     *)
(*  - The chain is not part of the program.  Its head block number never   *)
(*    goes back, and reorganisations replace at most MaxReorg blocks,      *)
(*    fewer than the confirmations asked for.  An RPC node may lag: it     *)
(*    reports a smaller height, has a transaction pending, or has no logs  *)
(*    of a block that it has not got yet.                                  *)
(***************************************************************************)
EXTENDS Naturals, FiniteSets

CONSTANTS
  Txs,            \* transactions that may be mined
  Logs,           \* ERC-20 Transfer logs they emit
  TxOf,           \* TxOf[l]: the transaction that emits log l
  Parties,        \* Parties[i]: the wallets that item i moves assets from or to
  From, To,       \* From[l], To[l]: those of log l, by the topic that names them
  Reverted,       \* transactions whose execution fails
  Wallets,        \* rows of table wallets on this chain
  Scanners,       \* service instances
  Queries,        \* slots for concurrent GetTransaction calls
  Confirmations,  \* required_confirmations of the chain
  MaxReorg,       \* the deepest reorganisation
  BatchSize,      \* scanner.batch_size
  StartBlock,     \* scanner.start_block; 0: begin at the present
  MaxHeight,      \* bound on the chain's height
  None

Items == Txs \cup Logs

\* Blocks that the scanner stays behind the head: the head itself counts as
\* the first confirmation.
Delay == IF Confirmations > 1 THEN Confirmations - 1 ELSE 0

ASSUME IndexAssumption ==
  /\ Confirmations \in Nat /\ MaxHeight \in Nat /\ StartBlock \in Nat
  /\ BatchSize \in Nat \ {0}
  /\ MaxReorg \in 0..Delay
  /\ TxOf \in [Logs -> Txs]
  /\ Parties \in [Items -> SUBSET Wallets]
  /\ \A l \in Logs : Parties[l] = From[l] \cup To[l]
  /\ Reverted \subseteq Txs
  /\ Txs \cap Logs = {}
  /\ None \notin Nat \cup Items

VARIABLES
  head,      \* the number of the chain's latest block
  minedAt,   \* minedAt[t]: the block that holds transaction t, or 0
  since,     \* since[w]: None if w is not active; else history: the highest
             \* block that a scanner had taken up when w became active
  hidden,    \* history: the logs that a node which lagged did not show to a scan
  cursor,    \* the row of chain_scan_cursors, or None
  origin,    \* history: the block after which the index is meant to begin, or None
  rows,      \* rows[w][i]: the row of wallet_transactions, or None
  receipts,  \* receipts[l]: the status in chain_event_receipts, or None
  job,       \* job[s]: what the scanner of instance s is doing
  query      \* query[q]: what call q is doing

tables == <<cursor, origin, rows, receipts>>
chain  == <<head, minedAt>>
vars   == <<chain, since, hidden, tables, job, query>>

-----------------------------------------------------------------------------
(* Types *)

Height == 0..MaxHeight
Status == {"pending", "confirmed", "failed"}
Snapshot == [status: Status, block: Height]
Receipt == {"pending", "processed", "failed"}

ASSUME NoneAssumption == None \notin Snapshot /\ None \notin Receipt

ScanSteps == {"idle", "cursor", "first", "fetch", "native", "nativeRow",
              "log", "logRow", "mark", "save"}
Job == [pc: ScanSteps, latest: Height, block: Nat, scanned: 0..BatchSize,
        todo: SUBSET Items, item: Items \cup {None}, targets: SUBSET Wallets,
        known: SUBSET Wallets, failed: BOOLEAN]
Resting == [pc |-> "idle", latest |-> 0, block |-> 0, scanned |-> 0, todo |-> {},
            item |-> None, targets |-> {}, known |-> {}, failed |-> FALSE]

QuerySteps == {"idle", "find", "chain", "receipt", "latest", "store"}
Query == [pc: QuerySteps, wallet: Wallets \cup {None}, tx: Txs \cup {None},
          found: Snapshot]
Unseen == [status |-> "pending", block |-> 0]
Done   == [pc |-> "idle", wallet |-> None, tx |-> None, found |-> Unseen]

TypeOK ==
  /\ head \in Height
  /\ minedAt \in [Txs -> Height]
  /\ since \in [Wallets -> Nat \cup {None}]
  /\ hidden \subseteq Logs
  /\ cursor \in Height \cup {None}
  /\ origin \in Nat \cup {None}
  /\ rows \in [Wallets -> [Items -> Snapshot \cup {None}]]
  /\ receipts \in [Logs -> Receipt \cup {None}]
  /\ job \in [Scanners -> Job]
  /\ query \in [Queries -> Query]

-----------------------------------------------------------------------------
(* Helpers *)

Tx(i)      == IF i \in Logs THEN TxOf[i] ELSE i
MinedAt(i) == minedAt[Tx(i)]
Active     == {w \in Wallets : since[w] # None}

\* minedTransactionStatus: the receipt tells whether the execution succeeded.
IgnoreRevert(i) == "confirmed"                                \* variant: mined is confirmed
Outcome(i)      == IF Tx(i) \in Reverted THEN "failed" ELSE "confirmed"

\* Upsert: the last writer's status and block win.
Upsert(w, i, snapshot) == rows' = [rows EXCEPT ![w][i] = snapshot]

\* The highest block that a scanner has taken up.
TakenUp ==
  LET blocks == {0} \cup ({cursor} \ {None}) \cup {job[s].block : s \in Scanners}
  IN CHOOSE b \in blocks : \A d \in blocks : d <= b

Does(s, step)     == job[s].pc = step
Become(s, j)      == job' = [job EXCEPT ![s] = j]
Rest(s)           == Become(s, Resting)
RestFailed(s)     == Become(s, [Resting EXCEPT !.failed = TRUE])
ReadsOnly         == UNCHANGED <<chain, since, hidden, tables, query>>

Init ==
  /\ head = 0
  /\ minedAt = [t \in Txs |-> 0]
  /\ since \in [Wallets -> {0, None}]
  /\ hidden = {}
  /\ cursor = None
  /\ origin = IF StartBlock > 0 THEN StartBlock - 1 ELSE None
  /\ rows = [w \in Wallets |-> [i \in Items |-> None]]
  /\ receipts = [l \in Logs |-> None]
  /\ job = [s \in Scanners |-> Resting]
  /\ query = [q \in Queries |-> Done]

-----------------------------------------------------------------------------
(* The environment: the chain, and the wallets that users bind and unbind  *)

Extend(block) ==
  /\ head < MaxHeight
  /\ head' = head + 1
  /\ block \subseteq {t \in Txs : minedAt[t] = 0}
  /\ minedAt' = [t \in Txs |-> IF t \in block THEN head + 1 ELSE minedAt[t]]
  /\ UNCHANGED <<since, hidden, tables, job, query>>

\* The last "depth" blocks are replaced; their transactions may be mined in
\* other blocks or drop out.
Reorg(depth) ==
  LET kept == head - depth
      loose == {t \in Txs : minedAt[t] = 0 \/ minedAt[t] > kept}
  IN /\ depth <= head
     /\ \E placed \in [loose -> {0} \cup (kept + 1)..head] :
          minedAt' = [t \in Txs |-> IF t \in loose THEN placed[t] ELSE minedAt[t]]
     /\ UNCHANGED <<head, since, hidden, tables, job, query>>

Bind(w) ==
  /\ since[w] = None
  /\ since' = [since EXCEPT ![w] = TakenUp]
  /\ UNCHANGED <<chain, hidden, tables, job, query>>

Unbind(w) ==
  /\ since[w] # None
  /\ since' = [since EXCEPT ![w] = None]
  /\ UNCHANGED <<chain, hidden, tables, job, query>>

-----------------------------------------------------------------------------
(* ScanChainOnce *)

\* latestBlock asks one node, which may lag; nothing is done while the chain is
\* shorter than the delay.
StartScan(s, latest) ==
  /\ Does(s, "idle")
  /\ latest <= head
  /\ latest >= Delay
  /\ Become(s, [Resting EXCEPT !.pc = "cursor", !.latest = latest])
  /\ ReadsOnly

\* safeHead, the last block with enough confirmations when the scan began.
SafeHead(latest) == latest - Delay

\* The block after the cursor.
Again(block) == block                                         \* variant: "+ 1" forgotten
After(block) == block + 1

\* nextBlock; a chain without cursor starts at StartBlock, or at the present.
ReadCursor(s) ==
  LET first == IF cursor = None THEN StartBlock ELSE After(cursor)
      safe  == SafeHead(job[s].latest)
  IN /\ Does(s, "cursor")
     /\ IF cursor = None /\ StartBlock = 0 THEN Become(s, [job[s] EXCEPT !.pc = "first"])
        ELSE IF first > safe THEN Rest(s)
        ELSE Become(s, [job[s] EXCEPT !.pc = "fetch", !.block = first])
     /\ ReadsOnly

\* The cursor starts at the safe head, which is not scanned.
SaveFirstCursor(s) ==
  /\ Does(s, "first")
  /\ cursor' = SafeHead(job[s].latest)
  /\ origin' = IF origin = None THEN cursor' ELSE origin
  /\ Rest(s)
  /\ UNCHANGED <<chain, since, hidden, rows, receipts, query>>

\* The loop condition, and blockByNumber.
BatchFull(scanned) == scanned = BatchSize

FetchBlock(s) ==
  LET j == job[s]
  IN /\ Does(s, "fetch")
     /\ IF j.block > SafeHead(j.latest) \/ BatchFull(j.scanned) THEN Rest(s)
        ELSE Become(s, [j EXCEPT !.pc = "native", !.todo = {t \in Txs : minedAt[t] = j.block}])
     /\ ReadsOnly

(* scanTransaction *)

\* FindByChainAddress of sender and recipient, active wallets only, and the
\* receipt of the transaction.
FindParties(s, t) ==
  LET found == Parties[t] \cap Active
      rest  == [job[s] EXCEPT !.todo = @ \ {t}]
  IN /\ Does(s, "native")
     /\ t \in job[s].todo
     /\ IF found = {} THEN Become(s, rest)
        ELSE Become(s, [rest EXCEPT !.pc = "nativeRow", !.item = t, !.targets = found])
     /\ ReadsOnly

\* One row per wallet, in the order of a Go map.
WriteRow(s, w, after) ==
  LET j == job[s]
      rest == j.targets \ {w}
  IN /\ w \in j.targets
     /\ Upsert(w, j.item, [status |-> Outcome(j.item), block |-> j.block])
     /\ Become(s, [j EXCEPT !.targets = rest, !.pc = IF rest = {} THEN after ELSE @])
     /\ UNCHANGED <<chain, since, hidden, cursor, origin, receipts, query>>

UpsertNative(s, w) == Does(s, "nativeRow") /\ WriteRow(s, w, "native")

(* scanERC20Transfers *)

\* The logs of a block that name an active wallet under the topic.
Matching(topic, block) == {l \in Logs : MinedAt(l) = block /\ topic[l] \cap Active # {}}

\* FilterLogs, of whichever node is next: one that has not got the block yet answers
\* with no logs, and without an error.
FilterLogs(topic, block) == {Matching(topic, block), {}}

\* ListActiveByChain and transferLogs, once all native transfers are done: one call
\* for the senders and one for the recipients.
ListLogs(s) ==
  LET j == job[s]
      all == Matching(From, j.block) \cup Matching(To, j.block)
  IN /\ Does(s, "native")
     /\ j.todo = {}
     /\ \E sent \in FilterLogs(From, j.block), received \in FilterLogs(To, j.block) :
          LET logs == sent \cup received IN
          /\ hidden' = hidden \cup (all \ logs)
          /\ Become(s, [j EXCEPT !.pc = IF logs = {} THEN "save" ELSE "log",
                                 !.todo = logs, !.known = Active])
     /\ UNCHANGED <<chain, since, tables, query>>

\* persistTransferLog: CreateEventIfAbsent, then the receipt of the transaction.
CreateEvent(s, l) ==
  LET j == job[s]
  IN /\ Does(s, "log")
     /\ l \in j.todo
     /\ receipts' = [receipts EXCEPT ![l] = IF @ = None THEN "pending" ELSE @]
     /\ Become(s, [j EXCEPT !.pc = "logRow", !.todo = @ \ {l}, !.item = l,
                            !.targets = Parties[l] \cap j.known])
     /\ UNCHANGED <<chain, since, hidden, cursor, origin, rows, query>>

UpsertLog(s, w) == Does(s, "logRow") /\ WriteRow(s, w, "mark")

\* The Upsert fails (its commit may have gone through): MarkEventFailed.
FailLog(s, w) ==
  LET j == job[s]
  IN /\ Does(s, "logRow")
     /\ w \in j.targets
     /\ \/ Upsert(w, j.item, [status |-> Outcome(j.item), block |-> j.block])
        \/ UNCHANGED rows
     /\ receipts' = [receipts EXCEPT ![j.item] = "failed"]
     /\ RestFailed(s)
     /\ UNCHANGED <<chain, since, hidden, cursor, origin, query>>

MarkOnlyPending(status) == IF status = "pending" THEN "processed" ELSE status  \* variant
MarkProcessed(status)   == "processed"

MarkEvent(s) ==
  LET j == job[s]
  IN /\ Does(s, "mark")
     /\ receipts' = [receipts EXCEPT ![j.item] = MarkProcessed(@)]
     /\ Become(s, [j EXCEPT !.pc = IF j.todo = {} THEN "save" ELSE "log"])
     /\ UNCHANGED <<chain, since, hidden, cursor, origin, rows, query>>

\* SaveCursor overwrites whatever another instance has saved.
SaveCursor(s) ==
  LET j == job[s]
  IN /\ Does(s, "save")
     /\ cursor' = j.block
     /\ Become(s, [Resting EXCEPT !.pc = "fetch", !.latest = j.latest,
                                  !.block = j.block + 1, !.scanned = j.scanned + 1])
     /\ UNCHANGED <<chain, since, hidden, origin, rows, receipts, query>>

\* A node or the database fails, the context is cancelled, or the process is
\* restarted: the scan ends where it is and the next poll starts again.
\* Variant: the block is given up, not tried again.
SaveAtError(s) == RestFailed(s) /\ cursor' = IF Does(s, "native") THEN job[s].block ELSE cursor
StopAtError(s) == RestFailed(s) /\ UNCHANGED cursor

Interrupt(s) ==
  /\ ~Does(s, "idle")
  /\ StopAtError(s)
  /\ UNCHANGED <<chain, since, hidden, origin, rows, receipts, query>>

Scan(s) ==
  \/ ReadCursor(s) \/ SaveFirstCursor(s) \/ FetchBlock(s)
  \/ \E t \in Txs : FindParties(s, t)
  \/ \E w \in Wallets : UpsertNative(s, w) \/ UpsertLog(s, w)
  \/ ListLogs(s)
  \/ \E l \in Logs : CreateEvent(s, l)
  \/ MarkEvent(s) \/ SaveCursor(s)

-----------------------------------------------------------------------------
(* GetTransaction *)

Sees(q, x) == query' = [query EXCEPT ![q] = x]
Asks(q, step) == query[q].pc = step

\* activeWallet
Ask(q, w, t) ==
  /\ Asks(q, "idle")
  /\ w \in Active
  /\ Sees(q, [Done EXCEPT !.pc = "find", !.wallet = w, !.tx = t])
  /\ UNCHANGED <<chain, since, hidden, tables, job>>

\* FindByHash: any row of the wallet for this transaction is the answer.
FindByHash(q) ==
  LET x == query[q]
      stored == \E i \in Items : Tx(i) = x.tx /\ rows[x.wallet][i] # None
  IN /\ Asks(q, "find")
     /\ Sees(q, IF stored THEN Done ELSE [x EXCEPT !.pc = "chain"])
     /\ UNCHANGED <<chain, since, hidden, tables, job>>

\* TransactionByHash: a node that lags still has the transaction pending.
TransactionByHash(q) ==
  LET x == query[q]
  IN /\ Asks(q, "chain")
     /\ \/ x.wallet \notin Parties[x.tx] /\ Sees(q, Done)
        \/ x.wallet \in Parties[x.tx] /\ Sees(q, [x EXCEPT !.pc = "store"])
        \/ /\ x.wallet \in Parties[x.tx] /\ minedAt[x.tx] # 0
           /\ Sees(q, [x EXCEPT !.pc = "receipt"])
     /\ UNCHANGED <<chain, since, hidden, tables, job>>

(* enrichMinedTransaction *)

\* A receipt that is not found, or not found any more, leaves it pending.
TransactionReceipt(q) ==
  LET x == query[q]
  IN /\ Asks(q, "receipt")
     /\ \/ Sees(q, [x EXCEPT !.pc = "store"])
        \/ /\ minedAt[x.tx] # 0
           /\ Sees(q, [x EXCEPT !.pc = "latest", !.found.block = minedAt[x.tx]])
     /\ UNCHANGED <<chain, since, hidden, tables, job>>

\* Confirmed only with enough confirmations; the block itself is the first.
AnyDepth(latest, block) == latest >= block                    \* variant: any depth will do
Enough(latest, block) ==
  Confirmations = 0 \/ (latest >= block /\ latest - block + 1 >= Confirmations)

LatestBlock(q, latest) ==
  LET x == query[q]
  IN /\ Asks(q, "latest")
     /\ latest <= head
     /\ Sees(q, [x EXCEPT !.pc = "store",
          !.found.status = IF x.tx \in Reverted THEN "failed"
                           ELSE IF Enough(latest, x.found.block) THEN "confirmed" ELSE "pending"])
     /\ UNCHANGED <<chain, since, hidden, tables, job>>

\* Upsert, and the answer.
Store(q) ==
  LET x == query[q]
  IN /\ Asks(q, "store")
     /\ Upsert(x.wallet, x.tx, x.found)
     /\ Sees(q, Done)
     /\ UNCHANGED <<chain, since, hidden, cursor, origin, receipts, job>>

GiveUp(q) ==
  /\ ~Asks(q, "idle")
  /\ Sees(q, Done)
  /\ UNCHANGED <<chain, since, hidden, tables, job>>

Answer(q) ==
  \/ \E w \in Wallets, t \in Txs : Ask(q, w, t)
  \/ FindByHash(q) \/ TransactionByHash(q) \/ TransactionReceipt(q)
  \/ \E latest \in Height : LatestBlock(q, latest)
  \/ Store(q) \/ GiveUp(q)

-----------------------------------------------------------------------------

Failure == \E s \in Scanners : Interrupt(s) \/ \E w \in Wallets : FailLog(s, w)

Next ==
  \/ \E block \in SUBSET Txs : Extend(block)
  \/ \E depth \in 1..MaxReorg : Reorg(depth)
  \/ \E w \in Wallets : Bind(w) \/ Unbind(w)
  \/ \E s \in Scanners : Scan(s) \/ \E latest \in Height : StartScan(s, latest)
  \/ Failure
  \/ \E q \in Queries : Answer(q)

Spec == Init /\ [][Next]_vars

\* The ticker polls for ever, a scan that is under way goes on, the round robin
\* over the nodes reaches one that is up to date, and failures come to an end.
FairSpec ==
  /\ Spec
  /\ \A s \in Scanners : WF_vars(Scan(s)) /\ SF_vars(StartScan(s, head))
  /\ <>[][~Failure]_vars

-----------------------------------------------------------------------------
(* Properties *)

Final(w, i) == rows[w][i] # None /\ rows[w][i].status # "pending"

\* Is item i in a block that the index claims to have done, and was wallet w
\* active from before the block was taken up?
Owed(w, i) ==
  /\ cursor # None /\ origin < MinedAt(i) /\ MinedAt(i) <= cursor
  /\ w \in Parties[i]
  /\ since[w] # None /\ since[w] < MinedAt(i)

Kept(w, i) == rows[w][i] # None /\ (Queries = {} => Final(w, i))

\* "The cursor moves on only when a block is stored completely, so a retry loses
\* nothing" (ScanChainOnce): whatever the nodes answer.
BlocksAreComplete == \A w \in Wallets, i \in Items : Owed(w, i) => Kept(w, i)

\* What no node has hidden is not lost (ScanChainOnce): over failures and
\* restarts at any step, reorganised blocks, nodes that report old heights, batches,
\* several instances, and wallets that come and go.  A native transfer is always
\* shown, with its block.  Only a query can have left such a row pending.
NothingMissed ==
  \A w \in Wallets, i \in Items : Owed(w, i) /\ i \notin hidden => Kept(w, i)

\* The receipts of the logs in those blocks that no node has hidden are processed: one
\* that failed or was left pending is taken up again before the cursor passes it, one
\* shown by half the query has both its wallets (MarkEventFailed, transferLogs).
ReceiptsSettled ==
  \A w \in Wallets, l \in Logs : Owed(w, l) /\ l \notin hidden => receipts[l] = "processed"

\* A row that says confirmed or failed is right: the transaction is in the block
\* the row names, with that outcome, and as deep as confirmed promises.
VerdictIsTrue ==
  \A w \in Wallets, i \in Items :
    Final(w, i) =>
      /\ rows[w][i] = [status |-> Outcome(i), block |-> MinedAt(i)]
      /\ rows[w][i].status = "confirmed" => head - MinedAt(i) + 1 >= Confirmations

\* Upsert's comment: a transaction seen again is updated to the latest status.
\* So a row that is confirmed or failed does not become pending again.
FinalStaysFinal ==
  [][\A w \in Wallets, i \in Items : Final(w, i) => Final(w, i)']_rows

\* Every block gets its turn once it is deep enough.
CatchesUp ==
  \A b \in 1..MaxHeight :
    head >= b + Delay ~> cursor # None /\ (cursor >= b \/ origin >= b)
=============================================================================
