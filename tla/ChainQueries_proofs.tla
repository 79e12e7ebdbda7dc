------------------------- MODULE ChainQueries_proofs ------------------------
(***************************************************************************)
(* Proofs about what web3 tells of the chain: TransactionIndex, for any    *)
(* transactions, wallets, scanners, queries and heights.                   *)
(*                                                                         *)
(* Four layers, each inductive with the help of those before it:           *)
(*   1. ScanInv: types, and how far scans and cursor may be;               *)
(*   2. RowsInv: which rows are there behind a scan and behind the cursor; *)
(*   3. ReceiptInv: the same for receipts, with one scanner;               *)
(*   4. VerdictInv: what a query has found, and what final rows say.       *)
(***************************************************************************)
EXTENDS TransactionIndex, BalanceQueries, WellFoundedInduction, TLAPS

-----------------------------------------------------------------------------
(* The invariants *)

NativeSteps == {"native", "nativeRow"}
LogSteps    == {"log", "logRow", "mark", "save"}
InBlock     == NativeSteps \cup LogSteps
UnderWay    == {"fetch"} \cup InBlock

\* What a scan that has taken up a block is working on.
OnItem(j) ==
  /\ j.scanned < BatchSize
  /\ j.todo \subseteq (IF j.pc \in NativeSteps THEN Txs ELSE Logs)
  /\ \A i \in j.todo : MinedAt(i) = j.block
  /\ j.pc = "save" => j.todo = {}
  /\ j.pc = "nativeRow" => j.item \in Txs
  /\ j.pc \in {"logRow", "mark"} => j.item \in Logs
  /\ j.pc \in {"nativeRow", "logRow", "mark"} => MinedAt(j.item) = j.block

\* A scan is deeper than any reorganisation reaches, from its first block on.
Deep(j) ==
  /\ j.pc # "idle" => Delay <= j.latest /\ j.latest <= head
  /\ j.pc \in {"idle", "cursor", "first"} => j.block = 0
  /\ j.pc \in UnderWay => 1 <= j.block /\ j.block <= SafeHead(j.latest) + 1 /\ origin # None
  /\ j.pc \in InBlock => j.block <= SafeHead(j.latest) /\ OnItem(j)
  /\ j.pc = "first" => StartBlock = 0

ChainInv ==
  /\ \A t \in Txs : minedAt[t] <= head
  /\ cursor # None => origin # None /\ cursor + Delay <= head
  /\ StartBlock > 0 => origin = StartBlock - 1
  /\ StartBlock = 0 /\ cursor = None => origin = None

\* Who asks has a wallet and a transaction in mind.
Named(x) == x.pc # "idle" => x.wallet \in Wallets /\ x.tx \in Txs

ScanInv ==
  /\ TypeOK
  /\ ChainInv
  /\ \A s \in Scanners : Deep(job[s])
  /\ \A q \in Queries : Named(query[q])

\* Wallet w has had item i to itself since before its block was taken up, and every
\* scan of that block has been shown it.
Due(w, i) ==
  /\ w \in Parties[i] /\ since[w] # None /\ since[w] < MinedAt(i)
  /\ i \notin hidden

Stored(w, i) == rows[w][i] # None /\ (Queries = {} => Final(w, i))

\* What is due of the blocks up to b is stored.
Complete(b) ==
  \A w \in Wallets, i \in Items :
    Due(w, i) /\ origin < MinedAt(i) /\ MinedAt(i) <= b => Stored(w, i)

\* What is left to do of the block that j has taken up.
Progress(j) ==
  \A w \in Wallets, i \in Items :
    Due(w, i) /\ MinedAt(i) = j.block =>
      /\ i \in Txs => \/ Stored(w, i)
                      \/ j.pc \in NativeSteps /\ i \in j.todo
                      \/ j.pc = "nativeRow" /\ i = j.item /\ w \in j.targets
      /\ i \in Logs /\ j.pc \in LogSteps =>
           /\ w \in j.known
           /\ \/ Stored(w, i)
              \/ i \in j.todo
              \/ j.pc = "logRow" /\ i = j.item /\ w \in j.targets

\* Two scanners may each begin at the present of a chain without cursor, and the
\* later one leaves out the blocks between; else the first block is settled.
OneBeginning == StartBlock > 0 \/ \A s, t \in Scanners : s = t

RowsInv ==
  /\ \A s \in Scanners : job[s].pc = "first" => cursor = None
  /\ cursor # None => Complete(cursor)
  /\ \A s \in Scanners :
       /\ job[s].pc \in UnderWay => Complete(job[s].block - 1)
       /\ job[s].pc \in InBlock => Progress(job[s])

\* The receipts of the blocks up to b.
Settled(b) ==
  \A w \in Wallets, l \in Logs :
    Due(w, l) /\ origin < MinedAt(l) /\ MinedAt(l) <= b => receipts[l] = "processed"

OneScanner == \A s, t \in Scanners : s = t

\* The logs of its block that j has still to see to.
LogsLeft(j) ==
  \A w \in Wallets, l \in Logs :
    Due(w, l) /\ MinedAt(l) = j.block =>
      \/ receipts[l] = "processed"
      \/ l \in j.todo
      \/ j.pc \in {"logRow", "mark"} /\ l = j.item

ReceiptInv ==
  /\ cursor # None => Settled(cursor)
  /\ \A s \in Scanners :
       /\ job[s].pc \in UnderWay => Settled(job[s].block - 1)
       /\ job[s].pc \in UnderWay /\ cursor # None => job[s].block = cursor + 1
       /\ job[s].pc \in LogSteps => LogsLeft(job[s])

\* The verdict v on item i: final, so it is in that block for good.
Correct(i, v) ==
  v.status # "pending" =>
    /\ v = [status |-> Outcome(i), block |-> MinedAt(i)]
    /\ MinedAt(i) >= 1
    /\ Queries = {} => MinedAt(i) + Delay <= head
    /\ v.status = "confirmed" => head - MinedAt(i) + 1 >= Confirmations

\* What call x has found out so far.
FoundOut(x) ==
  /\ x.pc \in {"find", "chain", "receipt"} => x.found = Unseen
  /\ x.pc = "latest" => x.found = [status |-> "pending", block |-> minedAt[x.tx]]
                        /\ minedAt[x.tx] # 0
  /\ x.pc = "store" => Correct(x.tx, x.found)

QueryInv == \A q \in Queries : FoundOut(query[q])

\* A query asks its node three times; nothing holds the chain still meanwhile.
StillWhenAsked == MaxReorg = 0 \/ Queries = {}

VerdictInv ==
  /\ QueryInv
  /\ \A w \in Wallets, i \in Items : rows[w][i] # None => Correct(i, rows[w][i])

-----------------------------------------------------------------------------
(* Layer 1: types, and how far scans and cursor may be *)

LEMMA DelayFacts ==
  /\ Delay \in Nat /\ MaxReorg \in Nat /\ MaxReorg <= Delay
  /\ Confirmations \in Nat /\ Confirmations <= Delay + 1
  /\ MaxHeight \in Nat /\ StartBlock \in Nat
<1>1. Delay \in Nat /\ Confirmations <= Delay + 1
  BY IndexAssumption DEF Delay
<1> QED BY <1>1, IndexAssumption

\* All types but those of the scanners.
DataTypes ==
  /\ head \in Height
  /\ minedAt \in [Txs -> Height]
  /\ since \in [Wallets -> Nat \cup {None}]
  /\ hidden \subseteq Logs
  /\ cursor \in Height \cup {None}
  /\ origin \in Nat \cup {None}
  /\ rows \in [Wallets -> [Items -> Snapshot \cup {None}]]
  /\ receipts \in [Logs -> Receipt \cup {None}]
  /\ query \in [Queries -> Query]

LEMMA TypesSplit == TypeOK <=> DataTypes /\ job \in [Scanners -> Job]
BY DEF TypeOK, DataTypes

LEMMA ItemFacts ==
  ASSUME NEW i \in Items
  PROVE  Tx(i) \in Txs /\ (i \in Txs => Tx(i) = i) /\ Parties[i] \in SUBSET Wallets
BY IndexAssumption DEF Tx, Items

LEMMA HeightFacts ==
  ASSUME DataTypes
  PROVE  /\ head \in Nat /\ head <= MaxHeight
         /\ \A t \in Txs : minedAt[t] \in Nat
         /\ \A i \in Items : MinedAt(i) \in Nat
         /\ cursor # None => cursor \in Nat
BY ItemFacts, DelayFacts DEF DataTypes, Height, MinedAt

LEMMA HeightsNext ==
  ASSUME DataTypes'
  PROVE  head' \in Nat /\ \A i \in Items : MinedAt(i)' \in Nat
BY ItemFacts, DelayFacts DEF DataTypes, Height, MinedAt, Tx

LEMMA JobFields ==
  ASSUME NEW j \in Job
  PROVE  /\ j.pc \in ScanSteps /\ j.latest \in Nat /\ j.latest \in Height /\ j.block \in Nat
         /\ j.scanned \in 0..BatchSize
         /\ j.todo \in SUBSET Items /\ j.item \in Items \cup {None}
         /\ j.targets \in SUBSET Wallets /\ j.known \in SUBSET Wallets
BY DelayFacts DEF Job, Height

LEMMA RestFacts ==
  /\ Resting \in Job /\ [Resting EXCEPT !.failed = TRUE] \in Job
  /\ Resting.pc = "idle" /\ Resting.block = 0
  /\ [Resting EXCEPT !.failed = TRUE].pc = "idle" /\ [Resting EXCEPT !.failed = TRUE].block = 0
<1>1. 0 \in Height /\ 0 \in 0..BatchSize
  BY DelayFacts, IndexAssumption DEF Height
<1> QED BY <1>1 DEF Resting, Job, ScanSteps

LEMMA RestDeep ==
  ASSUME NEW e, e.pc = "idle", e.block = 0
  PROVE  Deep(e)
BY DEF Deep, UnderWay, InBlock, NativeSteps, LogSteps

LEMMA ScanInit == Init => ScanInv
<1> SUFFICES ASSUME Init PROVE ScanInv
  OBVIOUS
<1>1. DataTypes
  <2>1. 0 \in Height /\ (StartBlock > 0 => StartBlock - 1 \in Nat)
    BY DelayFacts DEF Height
  <2>2. Done \in Query
    BY <2>1 DEF Done, Query, QuerySteps, Unseen, Snapshot, Status
  <2>3. since \in [Wallets -> Nat \cup {None}]
    BY DEF Init
  <2> QED BY <2>1, <2>2, <2>3, DelayFacts DEF Init, DataTypes
<1>2. job \in [Scanners -> Job] /\ \A s \in Scanners : Deep(job[s])
  <2>1. Deep(Resting)
    BY RestFacts, RestDeep
  <2> QED BY <2>1, RestFacts DEF Init
<1>3. ChainInv
  <2>1. /\ head = 0 /\ cursor = None /\ minedAt = [t \in Txs |-> 0]
        /\ origin = IF StartBlock > 0 THEN StartBlock - 1 ELSE None
    BY DEF Init
  <2>2. \A t \in Txs : minedAt[t] <= head
    BY <2>1
  <2>3. cursor # None => origin # None /\ cursor + Delay <= head
    BY <2>1
  <2>4. StartBlock > 0 => origin = StartBlock - 1
    BY <2>1
  <2>5. StartBlock = 0 /\ cursor = None => origin = None
    BY <2>1
  <2> QED BY <2>2, <2>3, <2>4, <2>5 DEF ChainInv
<1>4. \A q \in Queries : Named(query[q])
  BY DEF Init, Done, Named
<1> QED BY <1>1, <1>2, <1>3, <1>4, TypesSplit DEF ScanInv

\* What lies deeper than the delay stays where it is.
Firm == \A i \in Items : MinedAt(i) >= 1 /\ MinedAt(i) + Delay <= head => MinedAt(i)' = MinedAt(i)

LEMMA DeepStays ==
  ASSUME DataTypes, DataTypes', NEW j \in Job, Deep(j),
         head <= head', origin # None => origin' # None, Firm
  PROVE  Deep(j)'
<1>1. j.latest \in Nat /\ j.block \in Nat /\ j.todo \subseteq Items /\ head \in Nat /\ head' \in Nat
  BY JobFields, HeightFacts, DelayFacts DEF DataTypes, Height
<1>2. j.pc \in InBlock => j.block >= 1 /\ j.block + Delay <= head
  <2> SUFFICES ASSUME j.pc \in InBlock PROVE j.block >= 1 /\ j.block + Delay <= head
    OBVIOUS
  <2>1. j.pc \in UnderWay /\ j.pc # "idle"
    BY DEF UnderWay, InBlock, NativeSteps, LogSteps
  <2>2. 1 <= j.block /\ j.block <= j.latest - Delay /\ j.latest <= head
    BY <2>1 DEF Deep, SafeHead
  <2> QED BY <1>1, <2>2, DelayFacts
<1>3. \A i \in Items : j.pc \in InBlock /\ MinedAt(i) = j.block => MinedAt(i)' = j.block
  BY <1>2 DEF Firm
<1>4. j.pc \in InBlock => OnItem(j)'
  <2> SUFFICES ASSUME j.pc \in InBlock PROVE OnItem(j)'
    OBVIOUS
  <2>1. OnItem(j)
    BY DEF Deep
  <2>2. \A i \in j.todo : MinedAt(i)' = j.block
    BY <1>1, <1>3, <2>1 DEF OnItem
  <2>3. j.pc \in {"nativeRow", "logRow", "mark"} => j.item \in Items /\ MinedAt(j.item)' = j.block
    BY <1>3, <2>1 DEF OnItem, Items
  <2>4. j.pc \in {"nativeRow", "logRow", "mark"} => MinedAt(j.item)' = j.block
    BY <2>3
  <2> QED BY <2>1, <2>2, <2>4 DEF OnItem
<1>5. j.pc # "idle" => Delay <= j.latest /\ j.latest <= head'
  BY <1>1, DelayFacts DEF Deep
<1> QED BY <1>4, <1>5 DEF Deep, SafeHead

\* A step of a scanner goes to e; the chain stands.
LEMMA ScannerKeeps ==
  ASSUME ScanInv, NEW s \in Scanners, NEW e \in Job, job' = [job EXCEPT ![s] = e],
         UNCHANGED <<chain, query>>, DataTypes', ChainInv', origin # None => origin' # None,
         Deep(e)'
  PROVE  ScanInv'
<1>1. DataTypes /\ job \in [Scanners -> Job] /\ Firm /\ head <= head'
  <2>1. DataTypes /\ job \in [Scanners -> Job]
    BY TypesSplit DEF ScanInv
  <2>2. Firm
    BY DEF Firm, MinedAt, Tx, chain
  <2> QED BY <2>1, <2>2, HeightFacts DEF chain
<1>2. job' \in [Scanners -> Job]
  BY <1>1
<1>3. ASSUME NEW d \in Scanners PROVE Deep(job[d])'
  <2>1. CASE d = s
    <3>1. job'[d] = e
      BY <1>1, <2>1
    <3> QED BY <3>1 DEF Deep, OnItem
  <2>2. CASE d # s
    <3> DEFINE j == job[d]
    <3>1. job'[d] = j /\ j \in Job /\ Deep(j)
      BY <1>1, <2>2 DEF ScanInv
    <3> HIDE DEF j
    <3>2. PICK k \in Job : k = j /\ Deep(k)
      BY <3>1
    <3>3. Deep(k)'
      BY <1>1, <3>2, DeepStays
    <3> QED BY <3>1, <3>2, <3>3 DEF Deep, OnItem
  <2> QED BY <2>1, <2>2
<1>4. \A q \in Queries : Named(query'[q])
  BY DEF ScanInv
<1> QED BY <1>2, <1>3, <1>4, TypesSplit DEF ScanInv, TypeOK, DataTypes, Named

\* A step that leaves the scanners alone.
LEMMA OthersKeep ==
  ASSUME ScanInv, UNCHANGED job, DataTypes', ChainInv', head <= head', UNCHANGED origin, Firm,
         \A q \in Queries : Named(query'[q])
  PROVE  ScanInv'
<1>1. DataTypes /\ job \in [Scanners -> Job]
  BY TypesSplit DEF ScanInv
<1>2. ASSUME NEW d \in Scanners PROVE Deep(job[d])'
  <2>1. job[d] \in Job /\ Deep(job[d])
    BY <1>1 DEF ScanInv
  <2>2. PICK k \in Job : k = job[d] /\ Deep(k)
    BY <2>1
  <2>3. Deep(k)'
    BY <1>1, <2>2, DeepStays
  <2> QED BY <2>2, <2>3 DEF Deep, OnItem
<1> QED BY <1>1, <1>2, TypesSplit DEF ScanInv, TypeOK, DataTypes, Named

-----------------------------------------------------------------------------
(* The chain, and the wallets that come and go *)

LEMMA ExtendFacts ==
  ASSUME DataTypes, ChainInv, NEW block \in SUBSET Txs, Extend(block)
  PROVE  /\ head' = head + 1 /\ head' \in Height /\ minedAt' \in [Txs -> Height]
         /\ \A t \in Txs : minedAt[t] >= 1 => minedAt'[t] = minedAt[t]
         /\ \A t \in Txs : minedAt'[t] # minedAt[t] => minedAt'[t] = head + 1
         /\ \A t \in Txs : minedAt'[t] <= head'
<1>1. head \in Nat /\ head < MaxHeight /\ head' = head + 1 /\ MaxHeight \in Nat
  BY HeightFacts, DelayFacts DEF Extend
<1>2. head + 1 \in Height
  BY <1>1 DEF Height
<1>3. minedAt' = [t \in Txs |-> IF t \in block THEN head + 1 ELSE minedAt[t]]
  BY DEF Extend
<1>4. \A t \in Txs : minedAt'[t] = IF t \in block THEN head + 1 ELSE minedAt[t]
  BY <1>3
<1>5. \A t \in block : minedAt[t] = 0
  BY DEF Extend
<1>6. \A t \in Txs : minedAt[t] \in Nat /\ minedAt[t] \in Height /\ minedAt[t] <= head
  BY HeightFacts DEF DataTypes, ChainInv
<1>7. minedAt' \in [Txs -> Height]
  BY <1>2, <1>3, <1>6
<1> QED BY <1>1, <1>2, <1>4, <1>5, <1>6, <1>7

LEMMA ReorgFacts ==
  ASSUME DataTypes, ChainInv, NEW depth \in 1..MaxReorg, Reorg(depth)
  PROVE  /\ head' = head /\ minedAt' \in [Txs -> Height]
         /\ \A t \in Txs : minedAt[t] >= 1 /\ minedAt[t] + Delay <= head => minedAt'[t] = minedAt[t]
         /\ \A t \in Txs : minedAt'[t] >= 1 /\ minedAt'[t] + Delay <= head => minedAt'[t] = minedAt[t]
         /\ \A t \in Txs : minedAt'[t] <= head'
<1>1. head \in Nat /\ head <= MaxHeight /\ MaxHeight \in Nat /\ depth \in Nat /\ depth <= Delay
      /\ Delay \in Nat /\ depth <= head /\ head' = head
  BY HeightFacts, DelayFacts DEF Reorg
<1> DEFINE kept == head - depth
           loose == {t \in Txs : minedAt[t] = 0 \/ minedAt[t] > kept}
<1>2. PICK placed \in [loose -> {0} \cup (kept + 1)..head] :
        minedAt' = [t \in Txs |-> IF t \in loose THEN placed[t] ELSE minedAt[t]]
  BY DEF Reorg
<1>3. kept \in Nat /\ kept + Delay >= head
  BY <1>1
<1>4. \A t \in Txs : minedAt[t] \in Nat /\ minedAt[t] \in Height /\ minedAt[t] <= head
  BY HeightFacts DEF DataTypes, ChainInv
<1>5. \A t \in Txs : minedAt'[t] = IF t \in loose THEN placed[t] ELSE minedAt[t]
  BY <1>2
<1>6. ASSUME NEW t \in Txs, t \in loose
      PROVE  /\ minedAt'[t] = 0 \/ (minedAt'[t] \in Nat /\ minedAt'[t] > kept /\ minedAt'[t] <= head)
             /\ minedAt[t] = 0 \/ minedAt[t] > kept
  <2>1. placed[t] \in {0} \cup (kept + 1)..head
    BY <1>6
  <2> QED BY <1>1, <1>3, <1>5, <1>6, <2>1
<1>7. ASSUME NEW t \in Txs, t \notin loose PROVE minedAt'[t] = minedAt[t]
  BY <1>5, <1>7
<1>8. ASSUME NEW t \in Txs PROVE minedAt'[t] \in Height /\ minedAt'[t] <= head
  <2>1. CASE t \in loose
    <3>1. minedAt'[t] \in Nat /\ minedAt'[t] <= head
      BY <1>1, <1>6, <2>1
    <3> QED BY <1>1, <3>1 DEF Height
  <2>2. CASE t \notin loose
    BY <1>4, <1>7, <2>2
  <2> QED BY <2>1, <2>2
<1>9. minedAt' \in [Txs -> Height]
  BY <1>2, <1>8
<1>10. ASSUME NEW t \in Txs, minedAt'[t] # minedAt[t]
       PROVE  /\ ~(minedAt[t] >= 1 /\ minedAt[t] + Delay <= head)
              /\ ~(minedAt'[t] >= 1 /\ minedAt'[t] + Delay <= head)
  <2>1. t \in loose
    BY <1>7, <1>10
  <2> HIDE DEF kept, loose
  <2> QED BY <1>1, <1>3, <1>4, <1>6, <2>1
<1> QED BY <1>1, <1>8, <1>9, <1>10

\* What a step of the chain may move: it moves only what is not firm, and not to
\* where it would be.
Moves ==
  \A i \in Items : MinedAt(i)' # MinedAt(i) =>
    /\ ~(MinedAt(i) >= 1 /\ MinedAt(i) + Delay <= head)
    /\ ~(MinedAt(i)' >= 1 /\ MinedAt(i)' + Delay <= head)

LEMMA ChainMoves ==
  ASSUME DataTypes, ChainInv,
         \/ \E block \in SUBSET Txs : Extend(block)
         \/ \E depth \in 1..MaxReorg : Reorg(depth)
  PROVE  /\ Moves /\ head <= head' /\ head' \in Height /\ minedAt' \in [Txs -> Height]
         /\ \A t \in Txs : minedAt'[t] <= head'
         /\ UNCHANGED <<since, hidden, tables, job, query>>
<1>1. head \in Nat /\ Delay \in Nat /\ \A t \in Txs : minedAt[t] \in Nat
  BY HeightFacts, DelayFacts
<1>2. CASE \E block \in SUBSET Txs : Extend(block)
  <2>1. PICK block \in SUBSET Txs : Extend(block)
    BY <1>2
  <2>2. \A t \in Txs : minedAt'[t] # minedAt[t] => minedAt[t] = 0 /\ minedAt'[t] = head + 1
    BY <1>1, <2>1, ExtendFacts
  <2>3. Moves
    BY <1>1, <2>2, ItemFacts DEF Moves, MinedAt, Tx
  <2>4. UNCHANGED <<since, hidden, tables, job, query>>
    BY <2>1 DEF Extend
  <2>5. /\ head' = head + 1 /\ head' \in Height /\ minedAt' \in [Txs -> Height]
        /\ \A t \in Txs : minedAt'[t] <= head'
    BY <2>1, ExtendFacts
  <2> QED BY <1>1, <2>3, <2>4, <2>5
<1>3. CASE \E depth \in 1..MaxReorg : Reorg(depth)
  <2>1. PICK depth \in 1..MaxReorg : Reorg(depth)
    BY <1>3
  <2>2. Moves
    <3> SUFFICES ASSUME NEW i \in Items, MinedAt(i)' # MinedAt(i)
                 PROVE  /\ ~(MinedAt(i) >= 1 /\ MinedAt(i) + Delay <= head)
                        /\ ~(MinedAt(i)' >= 1 /\ MinedAt(i)' + Delay <= head)
      BY DEF Moves
    <3>1. Tx(i) \in Txs /\ MinedAt(i) = minedAt[Tx(i)] /\ MinedAt(i)' = minedAt'[Tx(i)]
      BY ItemFacts DEF MinedAt, Tx
    <3> QED BY <2>1, <3>1, ReorgFacts
  <2>3. UNCHANGED <<since, hidden, tables, job, query>>
    BY <2>1 DEF Reorg
  <2>4. /\ head' = head /\ minedAt' \in [Txs -> Height]
        /\ \A t \in Txs : minedAt'[t] <= head'
    BY <2>1, ReorgFacts
  <2>5. head \in Height
    BY DEF DataTypes
  <2> QED BY <1>1, <2>2, <2>3, <2>4, <2>5
<1> QED BY <1>2, <1>3

LEMMA ChainScan ==
  ASSUME ScanInv,
         \/ \E block \in SUBSET Txs : Extend(block)
         \/ \E depth \in 1..MaxReorg : Reorg(depth)
  PROVE  ScanInv' /\ Moves /\ head <= head'
<1>1. DataTypes /\ ChainInv
  BY TypesSplit DEF ScanInv
<1>2. /\ Moves /\ head <= head' /\ head' \in Height /\ minedAt' \in [Txs -> Height]
      /\ \A t \in Txs : minedAt'[t] <= head'
      /\ UNCHANGED <<since, hidden, tables, job, query>>
  BY <1>1, ChainMoves
<1>3. DataTypes'
  BY <1>1, <1>2 DEF DataTypes, tables
<1>4. head \in Nat /\ head' \in Nat /\ Delay \in Nat /\ (cursor # None => cursor \in Nat)
  BY <1>1, <1>2, <1>3, HeightFacts, DelayFacts DEF Height
<1>5. cursor # None => cursor + Delay <= head'
  BY <1>1, <1>2, <1>4 DEF ChainInv
<1>6. ChainInv'
  BY <1>1, <1>2, <1>5 DEF ChainInv, tables
<1>7. Firm
  BY <1>2 DEF Firm, Moves
<1>8. \A q \in Queries : Named(query'[q])
  BY <1>2 DEF ScanInv
<1> QED BY <1>2, <1>3, <1>6, <1>7, <1>8, OthersKeep DEF tables

\* The largest element of a bounded set.
Less == {p \in Nat \X Nat : p[1] < p[2]}

LEMMA LessIsWellFounded == IsWellFoundedOn(Less, Nat)
<1>1. Less = OpToRel(<, Nat)
  BY DEF Less, OpToRel
<1> QED BY <1>1, NatLessThanWellFounded

LEMMA LargestExists ==
  ASSUME NEW bound \in Nat, NEW B \in SUBSET (0..bound), B # {}
  PROVE  \E b \in B : \A d \in B : d <= b
<1> DEFINE T == {bound - b : b \in B}
<1>1. T \subseteq Nat
  OBVIOUS
<1>2. T # {}
  <2>1. PICK b \in B : TRUE
    OBVIOUS
  <2>2. bound - b \in T
    OBVIOUS
  <2> QED BY <2>2
<1>3. PICK x \in T : \A y \in T : <<y, x>> \notin Less
  <2> HIDE DEF T
  <2> QED BY <1>1, <1>2, LessIsWellFounded, WFMin
<1>4. PICK b \in B : x = bound - b
  BY <1>3
<1>5. ASSUME NEW d \in B PROVE d <= b
  <2>1. <<bound - d, x>> \notin Less
    BY <1>3
  <2>2. <<bound - d, x>> \in Nat \X Nat /\ ~(bound - d < x)
    BY <2>1, <1>4 DEF Less
  <2> QED BY <2>2, <1>4
<1> QED BY <1>5

\* Whoever binds a wallet does so after all blocks that have been taken up.
LEMMA TakenUpFacts ==
  ASSUME ScanInv
  PROVE  /\ TakenUp \in Nat
         /\ cursor # None => cursor <= TakenUp
         /\ \A s \in Scanners : job[s].block <= TakenUp
<1> DEFINE B == {0} \cup ({cursor} \ {None}) \cup {job[s].block : s \in Scanners}
<1>1. DataTypes /\ job \in [Scanners -> Job] /\ MaxHeight \in Nat /\ Delay \in Nat
  BY TypesSplit, DelayFacts DEF ScanInv
<1>2. cursor # None => cursor \in 0..MaxHeight + 1
  BY <1>1 DEF DataTypes, Height
<1>3. ASSUME NEW s \in Scanners PROVE job[s].block \in 0..MaxHeight + 1
  <2>1. PICK j \in Job : j = job[s] /\ Deep(j)
    BY <1>1 DEF ScanInv
  <2>2. j.block \in Nat /\ j.latest \in Nat /\ j.pc \in ScanSteps /\ head \in Nat /\ head <= MaxHeight
    BY <1>1, JobFields, HeightFacts
  <2>3. j.pc \in {"idle", "cursor", "first"} \/ (j.pc \in UnderWay /\ j.pc # "idle")
    BY <2>2 DEF ScanSteps, UnderWay, InBlock, NativeSteps, LogSteps
  <2>4. j.block = 0 \/ (j.block <= j.latest - Delay + 1 /\ j.latest <= head)
    BY <2>1, <2>3 DEF Deep, SafeHead
  <2>5. j.block <= MaxHeight + 1
    BY <1>1, <2>2, <2>4
  <2> QED BY <1>1, <2>1, <2>2, <2>5
<1>4. B \in SUBSET (0..MaxHeight + 1) /\ B # {}
  BY <1>1, <1>2, <1>3
<1>5. \E b \in B : \A d \in B : d <= b
  <2> HIDE DEF B
  <2>1. PICK bound \in Nat : bound = MaxHeight + 1
    BY <1>1
  <2>2. B \in SUBSET (0..bound)
    BY <1>4, <2>1
  <2> QED BY <1>4, <2>2, LargestExists
<1>6. TakenUp = CHOOSE b \in B : \A d \in B : d <= b
  BY DEF TakenUp
<1>7. TakenUp \in B /\ \A d \in B : d <= TakenUp
  <2> HIDE DEF B
  <2> QED BY <1>5, <1>6
<1> QED BY <1>4, <1>7

LEMMA WalletScan ==
  ASSUME ScanInv, NEW w \in Wallets, Bind(w) \/ Unbind(w)
  PROVE  /\ ScanInv' /\ UNCHANGED <<chain, hidden, tables, job, query>>
         /\ \A d \in Wallets : since'[d] = since[d] \/ since'[d] = None
                               \/ (Bind(w) /\ since'[d] = TakenUp)
<1>1. DataTypes /\ TakenUp \in Nat /\ head \in Nat
  BY TypesSplit, TakenUpFacts, HeightFacts DEF ScanInv
<1>2. UNCHANGED <<chain, hidden, tables, job, query>>
  BY DEF Bind, Unbind
<1>3. /\ since' \in [Wallets -> Nat \cup {None}]
      /\ \A d \in Wallets : since'[d] = since[d] \/ since'[d] = None
                            \/ (Bind(w) /\ since'[d] = TakenUp)
  BY <1>1 DEF Bind, Unbind, DataTypes
<1>4. DataTypes'
  BY <1>1, <1>2, <1>3 DEF DataTypes, chain, tables
<1>5. ChainInv'
  BY <1>2 DEF ScanInv, ChainInv, chain, tables
<1>6. Firm
  BY <1>2 DEF Firm, MinedAt, Tx, chain
<1>7. \A q \in Queries : Named(query'[q])
  BY <1>2 DEF ScanInv
<1>8. ScanInv'
  BY <1>1, <1>2, <1>4, <1>5, <1>6, <1>7, OthersKeep DEF chain, tables
<1> QED BY <1>2, <1>3, <1>8

LEMMA UpsertFacts ==
  ASSUME DataTypes, NEW w, NEW i, NEW v \in Snapshot, Upsert(w, i, v)
  PROVE  /\ rows' \in [Wallets -> [Items -> Snapshot \cup {None}]]
         /\ \A d \in Wallets, k \in Items :
              rows'[d][k] = IF d = w /\ k = i THEN v ELSE rows[d][k]
BY DEF DataTypes, Upsert

LEMMA QueryFields ==
  ASSUME NEW x \in Query
  PROVE  /\ \A step \in QuerySteps : [x EXCEPT !.pc = step] \in Query
         /\ x.found \in Snapshot /\ x.wallet \in Wallets \cup {None} /\ x.tx \in Txs \cup {None}
         /\ Done \in Query
<1>1. 0 \in Height
  BY DelayFacts DEF Height
<1> QED BY <1>1 DEF Query, Done, QuerySteps, Unseen, Snapshot, Status

\* A step of a query: what it goes to has the type of a query, and only Store
\* writes a row.
LEMMA AnswerFacts ==
  ASSUME DataTypes, NEW q \in Queries, Named(query[q]), Answer(q)
  PROVE  /\ \E y \in Query : Sees(q, y) /\ Named(y)
         /\ rows' \in [Wallets -> [Items -> Snapshot \cup {None}]]
         /\ UNCHANGED <<chain, since, hidden, cursor, origin, receipts, job>>
         /\ Store(q) \/ UNCHANGED rows
<1> DEFINE x == query[q]
<1>1. /\ x \in Query /\ rows \in [Wallets -> [Items -> Snapshot \cup {None}]]
      /\ Done \in Query /\ Named(Done)
  BY QueryFields DEF DataTypes, Named, Done
<1>2. ASSUME NEW step \in QuerySteps, x.pc # "idle"
      PROVE  [x EXCEPT !.pc = step] \in Query /\ Named([x EXCEPT !.pc = step])
  BY <1>1, <1>2 DEF Query, Named
<1>3. CASE \E w \in Wallets, t \in Txs : Ask(q, w, t)
  <2>1. PICK w \in Wallets, t \in Txs : Ask(q, w, t)
    BY <1>3
  <2> DEFINE y == [Done EXCEPT !.pc = "find", !.wallet = w, !.tx = t]
  <2>2. y \in Query /\ Named(y)
    BY <1>1 DEF Query, QuerySteps, Done, Named
  <2>3. Sees(q, y) /\ UNCHANGED <<chain, since, hidden, tables, job>>
    BY <2>1 DEF Ask
  <2> HIDE DEF y
  <2> QED BY <1>1, <2>2, <2>3 DEF tables
<1>4. CASE FindByHash(q)
  <2>1. x.pc # "idle" /\ UNCHANGED <<chain, since, hidden, tables, job>>
        /\ (Sees(q, Done) \/ Sees(q, [x EXCEPT !.pc = "chain"]))
    BY <1>4 DEF FindByHash, Asks
  <2> QED BY <1>1, <1>2, <2>1 DEF tables, QuerySteps
<1>5. CASE TransactionByHash(q)
  <2>1. x.pc # "idle" /\ UNCHANGED <<chain, since, hidden, tables, job>>
        /\ (Sees(q, Done) \/ Sees(q, [x EXCEPT !.pc = "store"]) \/ Sees(q, [x EXCEPT !.pc = "receipt"]))
    BY <1>5 DEF TransactionByHash, Asks
  <2> QED BY <1>1, <1>2, <2>1 DEF tables, QuerySteps
<1>6. CASE TransactionReceipt(q)
  <2> DEFINE y == [x EXCEPT !.pc = "latest", !.found.block = minedAt[x.tx]]
  <2>1. x.pc # "idle" /\ UNCHANGED <<chain, since, hidden, tables, job>>
        /\ (Sees(q, [x EXCEPT !.pc = "store"]) \/ Sees(q, y))
    BY <1>6 DEF TransactionReceipt, Asks
  <2>2. minedAt[x.tx] \in Height
    BY <2>1 DEF DataTypes, Named
  <2>3. y \in Query /\ Named(y)
    BY <1>1, <2>1, <2>2 DEF Query, QuerySteps, Snapshot, Named
  <2> HIDE DEF y
  <2> QED BY <1>1, <1>2, <2>1, <2>3 DEF tables, QuerySteps
<1>7. CASE \E latest \in Height : LatestBlock(q, latest)
  <2>1. PICK latest \in Height : LatestBlock(q, latest)
    BY <1>7
  <2>2. PICK status \in Status : Sees(q, [x EXCEPT !.pc = "store", !.found.status = status])
    BY <2>1 DEF LatestBlock, Status
  <2> DEFINE y == [x EXCEPT !.pc = "store", !.found.status = status]
  <2>3. x.pc # "idle" /\ UNCHANGED <<chain, since, hidden, tables, job>>
    BY <2>1 DEF LatestBlock, Asks
  <2>4. y \in Query /\ Named(y)
    BY <1>1, <2>3 DEF Query, QuerySteps, Snapshot, Named
  <2>5. Sees(q, y)
    BY <2>2
  <2> HIDE DEF y
  <2> QED BY <1>1, <2>3, <2>4, <2>5 DEF tables
<1>8. CASE Store(q)
  <2>1. Sees(q, Done) /\ Upsert(x.wallet, x.tx, x.found)
        /\ UNCHANGED <<chain, since, hidden, cursor, origin, receipts, job>>
    BY <1>8 DEF Store
  <2>2. x.found \in Snapshot
    BY <1>1, QueryFields
  <2> QED BY <1>1, <1>8, <2>1, <2>2, UpsertFacts
<1>9. CASE GiveUp(q)
  BY <1>1, <1>9 DEF GiveUp, tables
<1> QED BY <1>3, <1>4, <1>5, <1>6, <1>7, <1>8, <1>9 DEF Answer

LEMMA AnswerScan ==
  ASSUME ScanInv, NEW q \in Queries, Answer(q)
  PROVE  ScanInv' /\ UNCHANGED <<chain, since, hidden, cursor, origin, receipts, job>>
<1>1. DataTypes /\ Named(query[q]) /\ head \in Nat
  BY TypesSplit, HeightFacts DEF ScanInv
<1>2. /\ rows' \in [Wallets -> [Items -> Snapshot \cup {None}]]
      /\ UNCHANGED <<chain, since, hidden, cursor, origin, receipts, job>>
  BY <1>1, AnswerFacts
<1>3. PICK y \in Query : Sees(q, y) /\ Named(y)
  BY <1>1, AnswerFacts
<1>4. query' \in [Queries -> Query] /\ \A d \in Queries : query'[d] = IF d = q THEN y ELSE query[d]
  BY <1>1, <1>3 DEF DataTypes, Sees
<1>5. DataTypes'
  BY <1>1, <1>2, <1>4 DEF DataTypes, chain
<1>6. ChainInv'
  BY <1>2 DEF ScanInv, ChainInv, chain
<1>7. Firm
  BY <1>2 DEF Firm, MinedAt, Tx, chain
<1>8. \A d \in Queries : Named(query'[d])
  BY <1>3, <1>4 DEF ScanInv
<1>9. ScanInv'
  BY <1>1, <1>2, <1>5, <1>6, <1>7, <1>8, OthersKeep DEF chain
<1> QED BY <1>2, <1>9

-----------------------------------------------------------------------------
(* Layer 1: the steps of a scanner *)

\* What every step of a scanner starts from.
LEMMA JobFacts ==
  ASSUME ScanInv, NEW s \in Scanners
  PROVE  /\ job[s] \in Job /\ Deep(job[s]) /\ DataTypes /\ ChainInv
         /\ job[s].latest \in Nat /\ job[s].block \in Nat /\ head \in Nat /\ Delay \in Nat
         /\ \A e : Become(s, e) => /\ job' = [job EXCEPT ![s] = e] /\ job'[s] = e
                                   /\ \A d \in Scanners : d # s => job'[d] = job[d]
<1>1. DataTypes /\ job \in [Scanners -> Job] /\ Delay \in Nat
  BY TypesSplit, DelayFacts DEF ScanInv
<1>2. job[s] \in Job /\ Deep(job[s]) /\ head \in Nat
  BY <1>1, HeightFacts DEF ScanInv
<1>3. job[s].latest \in Nat /\ job[s].block \in Nat
  BY <1>2, JobFields
<1> QED BY <1>1, <1>2, <1>3 DEF ScanInv, Become

LEMMA SameChain ==
  ASSUME NEW j, UNCHANGED chain, origin # None => origin' # None, Deep(j)
  PROVE  Deep(j)'
BY DEF Deep, OnItem, MinedAt, Tx, chain

LEMMA ReadKeeps ==
  ASSUME ScanInv, NEW s \in Scanners, NEW e \in Job, Become(s, e), ReadsOnly, Deep(e)
  PROVE  ScanInv'
<1>1. DataTypes /\ ChainInv
  BY TypesSplit DEF ScanInv
<1>2. UNCHANGED <<chain, query>> /\ UNCHANGED <<head, minedAt, since, hidden, cursor, origin, rows, receipts, query>>
  BY DEF ReadsOnly, chain, tables
<1>3. DataTypes'
  BY <1>1, <1>2 DEF DataTypes
<1>4. ChainInv'
  BY <1>1, <1>2 DEF ChainInv
<1>5. PICK k \in Job : k = e /\ Deep(k)
  OBVIOUS
<1>6. Deep(k)'
  BY <1>2, <1>5, SameChain
<1> QED BY <1>2, <1>3, <1>4, <1>5, <1>6, ScannerKeeps DEF Become

LEMMA StartScanKeeps ==
  ASSUME ScanInv, NEW s \in Scanners, NEW latest \in Height, StartScan(s, latest)
  PROVE  ScanInv'
<1> DEFINE e == [Resting EXCEPT !.pc = "cursor", !.latest = latest]
<1>1. e \in Job
  BY RestFacts DEF Job, ScanSteps
<1>2. e.pc = "cursor" /\ e.latest = latest /\ e.block = 0
  BY DEF Resting
<1>3. latest <= head /\ Delay <= latest /\ Become(s, e) /\ ReadsOnly
  BY JobFacts, DelayFacts DEF StartScan, Height
<1> HIDE DEF e
<1>4. Deep(e)
  BY <1>2, <1>3 DEF Deep, UnderWay, InBlock, NativeSteps, LogSteps
<1> QED BY <1>1, <1>3, <1>4, ReadKeeps

LEMMA ReadCursorKeeps ==
  ASSUME ScanInv, NEW s \in Scanners, ReadCursor(s)
  PROVE  ScanInv'
<1> DEFINE j == job[s]
           first == IF cursor = None THEN StartBlock ELSE After(cursor)
<1>1. /\ j \in Job /\ Deep(j) /\ DataTypes /\ ChainInv
      /\ j.pc = "cursor" /\ ReadsOnly /\ j.latest \in Nat /\ head \in Nat /\ Delay \in Nat
      /\ Delay <= j.latest /\ j.latest <= head /\ StartBlock \in Nat
  BY JobFacts, DelayFacts DEF ReadCursor, Does, Deep
<1>2. CASE cursor = None /\ StartBlock = 0
  <2> DEFINE e == [j EXCEPT !.pc = "first"]
  <2>1. e \in Job /\ e.pc = "first" /\ e.latest = j.latest /\ e.block = 0
    BY <1>1 DEF Job, ScanSteps, Deep
  <2>2. Become(s, e)
    BY <1>2 DEF ReadCursor
  <2> HIDE DEF e
  <2>3. Deep(e)
    BY <1>1, <1>2, <2>1 DEF Deep, UnderWay, InBlock, NativeSteps, LogSteps
  <2> QED BY <1>1, <2>1, <2>2, <2>3, ReadKeeps
<1>3. CASE ~(cursor = None /\ StartBlock = 0) /\ first > SafeHead(j.latest)
  <2>1. Become(s, Resting)
    BY <1>3 DEF ReadCursor, Rest
  <2> QED BY <1>1, <2>1, RestFacts, RestDeep, ReadKeeps
<1>4. CASE ~(cursor = None /\ StartBlock = 0) /\ ~(first > SafeHead(j.latest))
  <2> DEFINE e == [j EXCEPT !.pc = "fetch", !.block = first]
  <2>1. first \in Nat /\ first >= 1 /\ origin # None
    <3>1. CASE cursor = None
      BY <1>1, <1>4, <3>1, IndexAssumption DEF ChainInv
    <3>2. CASE cursor # None
      BY <1>1, <3>2, HeightFacts DEF ChainInv, After
    <3> QED BY <3>1, <3>2
  <2>2. Become(s, e)
    BY <1>4 DEF ReadCursor
  <2>3. first <= SafeHead(j.latest) + 1
    BY <1>1, <1>4, <2>1 DEF SafeHead
  <2> HIDE DEF first
  <2>4. e \in Job /\ e.pc = "fetch" /\ e.latest = j.latest /\ e.block = first
    BY <1>1, <2>1 DEF Job, ScanSteps
  <2> HIDE DEF e
  <2>5. Deep(e)
    BY <1>1, <2>1, <2>3, <2>4 DEF Deep, UnderWay, InBlock, NativeSteps, LogSteps
  <2> QED BY <1>1, <2>2, <2>4, <2>5, ReadKeeps
<1> QED BY <1>2, <1>3, <1>4

LEMMA SaveFirstCursorKeeps ==
  ASSUME ScanInv, NEW s \in Scanners, SaveFirstCursor(s)
  PROVE  ScanInv' /\ cursor' # None /\ origin' # None
<1> DEFINE j == job[s]
<1>1. /\ j \in Job /\ Deep(j) /\ DataTypes /\ ChainInv /\ j.pc = "first"
      /\ j.latest \in Nat /\ head \in Nat /\ Delay \in Nat /\ StartBlock = 0
      /\ Delay <= j.latest /\ j.latest <= head /\ head <= MaxHeight /\ MaxHeight \in Nat
  BY JobFacts, HeightFacts, DelayFacts DEF SaveFirstCursor, Does, Deep
<1>2. /\ cursor' = j.latest - Delay /\ origin' = (IF origin = None THEN cursor' ELSE origin)
      /\ Become(s, Resting) /\ UNCHANGED <<chain, since, hidden, rows, receipts, query>>
  BY DEF SaveFirstCursor, SafeHead, Rest
<1>3. cursor' \in Nat /\ cursor' <= MaxHeight /\ cursor' + Delay <= head
  BY <1>1, <1>2
<1>4. cursor' \in Height /\ cursor' # None /\ origin' \in Nat \cup {None} /\ origin' # None
  BY <1>1, <1>2, <1>3, IndexAssumption DEF Height, DataTypes
<1>5. DataTypes'
  BY <1>1, <1>2, <1>4 DEF DataTypes, chain
<1>6. ChainInv'
  BY <1>1, <1>2, <1>3, <1>4 DEF ChainInv, chain
<1>7. Resting \in Job /\ Deep(Resting)'
  BY RestFacts DEF Deep, UnderWay, InBlock, NativeSteps, LogSteps
<1>8. job' = [job EXCEPT ![s] = Resting]
  BY <1>2 DEF Become
<1> QED BY <1>2, <1>4, <1>5, <1>6, <1>7, <1>8, ScannerKeeps

LEMMA FetchBlockKeeps ==
  ASSUME ScanInv, NEW s \in Scanners, FetchBlock(s)
  PROVE  ScanInv'
<1> DEFINE j == job[s]
           found == {t \in Txs : minedAt[t] = j.block}
           e == [j EXCEPT !.pc = "native", !.todo = found]
<1>1. /\ j \in Job /\ Deep(j) /\ DataTypes /\ ChainInv /\ j.pc = "fetch" /\ ReadsOnly
      /\ j.latest \in Nat /\ j.block \in Nat /\ head \in Nat /\ Delay \in Nat
  BY JobFacts DEF FetchBlock, Does
<1>2. CASE j.block > SafeHead(j.latest) \/ BatchFull(j.scanned)
  <2>1. Become(s, Resting)
    BY <1>2 DEF FetchBlock, Rest
  <2> QED BY <1>1, <2>1, RestFacts, RestDeep, ReadKeeps
<1>3. CASE ~(j.block > SafeHead(j.latest) \/ BatchFull(j.scanned))
  <2>1. Become(s, e)
    BY <1>3 DEF FetchBlock
  <2>2. found \in SUBSET Items /\ found \subseteq Txs /\ \A t \in found : MinedAt(t) = j.block
    BY ItemFacts DEF Items, MinedAt
  <2> HIDE DEF found
  <2>3. /\ e \in Job /\ e.pc = "native" /\ e.todo = found /\ e.block = j.block
        /\ e.latest = j.latest /\ e.scanned = j.scanned
    BY <1>1, <2>2 DEF Job, ScanSteps
  <2>4. j.block <= SafeHead(j.latest)
    BY <1>1, <1>3 DEF SafeHead
  <2>5. /\ Delay <= j.latest /\ j.latest <= head /\ 1 <= j.block
        /\ j.block <= SafeHead(j.latest) + 1 /\ origin # None
    BY <1>1 DEF Deep, UnderWay
  <2> HIDE DEF e
  <2>8. j.scanned < BatchSize
    BY <1>1, <1>3, JobFields, IndexAssumption DEF BatchFull
  <2>6. OnItem(e)
    BY <2>2, <2>3, <2>8 DEF OnItem, NativeSteps
  <2>7. Deep(e)
    BY <2>3, <2>4, <2>5, <2>6 DEF Deep, UnderWay, InBlock, NativeSteps
  <2> QED BY <1>1, <2>1, <2>3, <2>7, ReadKeeps
<1> QED BY <1>2, <1>3

\* From one step on a block to another one on it.
LEMMA SameBlock ==
  ASSUME NEW j \in Job, Deep(j), j.pc \in InBlock, NEW e \in Job, e.pc \in InBlock,
         e.block = j.block, e.latest = j.latest, OnItem(e)
  PROVE  Deep(e)
<1>1. j.pc \in UnderWay /\ j.pc # "idle" /\ e.pc \in UnderWay /\ e.pc \notin {"idle", "cursor", "first"}
  BY DEF UnderWay, InBlock, NativeSteps, LogSteps
<1> QED BY <1>1 DEF Deep

\* A step that writes rows and receipts at most.
LEMMA WriteKeeps ==
  ASSUME ScanInv, NEW s \in Scanners, NEW e \in Job, Become(s, e),
         UNCHANGED <<chain, since, hidden, cursor, origin, query>>,
         rows' \in [Wallets -> [Items -> Snapshot \cup {None}]],
         receipts' \in [Logs -> Receipt \cup {None}], Deep(e)
  PROVE  ScanInv'
<1>1. DataTypes /\ ChainInv
  BY TypesSplit DEF ScanInv
<1>2. UNCHANGED <<chain, query>> /\ UNCHANGED <<head, minedAt, since, hidden, cursor, origin, query>>
  BY DEF chain
<1>3. DataTypes'
  BY <1>1, <1>2 DEF DataTypes
<1>4. ChainInv'
  BY <1>1, <1>2 DEF ChainInv
<1>5. PICK k \in Job : k = e /\ Deep(k)
  OBVIOUS
<1>6. Deep(k)'
  BY <1>2, <1>5, SameChain
<1> QED BY <1>2, <1>3, <1>4, <1>5, <1>6, ScannerKeeps DEF Become

LEMMA FindPartiesKeeps ==
  ASSUME ScanInv, NEW s \in Scanners, NEW t \in Txs, FindParties(s, t)
  PROVE  ScanInv'
<1> DEFINE j == job[s]
           found == Parties[t] \cap Active
           e == [j EXCEPT !.todo = @ \ {t}]
           f == [e EXCEPT !.pc = "nativeRow", !.item = t, !.targets = found]
<1>1. /\ j \in Job /\ Deep(j) /\ j.pc = "native" /\ t \in j.todo /\ ReadsOnly
      /\ OnItem(j) /\ j.pc \in InBlock
  BY JobFacts DEF FindParties, Does, Deep, InBlock, NativeSteps
<1>2. found \in SUBSET Wallets /\ t \in Items
  BY ItemFacts DEF Items
<1>3. j.todo \in SUBSET Items
  BY <1>1, JobFields
<1>4. /\ e \in Job /\ e.pc = "native" /\ e.todo = j.todo \ {t} /\ e.block = j.block
      /\ e.latest = j.latest /\ e.scanned = j.scanned
  BY <1>1, <1>3 DEF Job
<1>5. CASE found = {}
  <2>1. Become(s, e)
    BY <1>5 DEF FindParties
  <2> HIDE DEF e
  <2>2. OnItem(e)
    BY <1>1, <1>4 DEF OnItem, NativeSteps
  <2>3. Deep(e)
    BY <1>1, <1>4, <2>2, SameBlock DEF InBlock, NativeSteps
  <2> QED BY <1>1, <1>4, <2>1, <2>3, ReadKeeps
<1>6. CASE found # {}
  <2>1. Become(s, f)
    BY <1>6 DEF FindParties
  <2>2. /\ f \in Job /\ f.pc = "nativeRow" /\ f.todo = j.todo \ {t} /\ f.block = j.block
        /\ f.latest = j.latest /\ f.scanned = j.scanned /\ f.item = t
    <3> HIDE DEF e, found
    <3> QED BY <1>2, <1>4 DEF Job, ScanSteps
  <2> HIDE DEF f
  <2>3. MinedAt(t) = j.block
    BY <1>1 DEF OnItem
  <2>4. OnItem(f)
    BY <1>1, <2>2, <2>3 DEF OnItem, NativeSteps
  <2>5. Deep(f)
    BY <1>1, <2>2, <2>4, SameBlock DEF InBlock, NativeSteps
  <2> QED BY <1>1, <2>1, <2>2, <2>5, ReadKeeps
<1> QED BY <1>5, <1>6

\* What a row says is a verdict: final, and in the block at hand.
LEMMA OutcomeFacts ==
  ASSUME NEW i
  PROVE  Outcome(i) \in {"confirmed", "failed"} /\ Outcome(i) \in Status /\ Outcome(i) # "pending"
BY DEF Outcome, Status

\* The block of a scan under way is one of the chain.
LEMMA BlockFacts ==
  ASSUME ScanInv, NEW s \in Scanners, job[s].pc \in InBlock
  PROVE  /\ OnItem(job[s]) /\ job[s].block \in Height
         /\ 1 <= job[s].block /\ job[s].block + Delay <= head
         /\ [status |-> Outcome(job[s].item), block |-> job[s].block] \in Snapshot
<1> DEFINE j == job[s]
<1>1. /\ j \in Job /\ Deep(j) /\ DataTypes /\ j.latest \in Nat /\ j.block \in Nat
      /\ head \in Nat /\ Delay \in Nat /\ head <= MaxHeight /\ MaxHeight \in Nat
  BY JobFacts, HeightFacts, DelayFacts
<1>2. j.pc \in UnderWay /\ j.pc # "idle"
  BY DEF UnderWay, InBlock, NativeSteps, LogSteps
<1>3. OnItem(j) /\ 1 <= j.block /\ j.block <= j.latest - Delay /\ j.latest <= head
  BY <1>1, <1>2 DEF Deep, SafeHead
<1>4. j.block + Delay <= head /\ j.block <= MaxHeight
  BY <1>1, <1>3
<1>5. j.block \in Height
  BY <1>1, <1>4 DEF Height
<1> QED BY <1>3, <1>4, <1>5, OutcomeFacts DEF Snapshot

LEMMA WriteRowKeeps ==
  ASSUME ScanInv, NEW s \in Scanners, NEW w \in Wallets, UpsertNative(s, w) \/ UpsertLog(s, w)
  PROVE  ScanInv'
<1> DEFINE j == job[s]
           rest == j.targets \ {w}
           v == [status |-> Outcome(j.item), block |-> j.block]
<1>1. PICK step \in {"nativeRow", "logRow"}, after \in {"native", "mark"} :
        /\ j.pc = step /\ WriteRow(s, w, after)
        /\ after = IF step = "nativeRow" THEN "native" ELSE "mark"
  BY DEF UpsertNative, UpsertLog, Does
<1>2. /\ j \in Job /\ Deep(j) /\ DataTypes /\ j.pc \in InBlock
  BY <1>1, JobFacts DEF InBlock, NativeSteps, LogSteps
<1>3. v \in Snapshot /\ OnItem(j)
  BY <1>2, BlockFacts
<1> DEFINE e == [j EXCEPT !.targets = rest, !.pc = IF rest = {} THEN after ELSE @]
<1>4. /\ Upsert(w, j.item, v) /\ Become(s, e)
      /\ UNCHANGED <<chain, since, hidden, cursor, origin, receipts, query>>
  BY <1>1 DEF WriteRow
<1>5. rest \in SUBSET Wallets /\ after \in ScanSteps
  BY <1>1, <1>2, JobFields DEF ScanSteps
<1>6. /\ e \in Job /\ e.pc \in {j.pc, after} /\ e.todo = j.todo /\ e.block = j.block
      /\ e.latest = j.latest /\ e.scanned = j.scanned /\ e.item = j.item
  <2> HIDE DEF rest
  <2> QED BY <1>1, <1>2, <1>5 DEF Job
<1>7. /\ rows' \in [Wallets -> [Items -> Snapshot \cup {None}]]
      /\ receipts' \in [Logs -> Receipt \cup {None}]
  <2>1. rows' \in [Wallets -> [Items -> Snapshot \cup {None}]]
    <3> HIDE DEF v
    <3> QED BY <1>2, <1>3, <1>4, UpsertFacts
  <2> QED BY <1>2, <1>4, <2>1 DEF DataTypes
<1> HIDE DEF e, v
<1>8. OnItem(e) /\ e.pc \in InBlock
  BY <1>1, <1>3, <1>6 DEF OnItem, InBlock, NativeSteps, LogSteps
<1>9. Deep(e)
  BY <1>2, <1>6, <1>8, SameBlock
<1> QED BY <1>4, <1>6, <1>7, <1>9, WriteKeeps

\* Of the logs of the block that name an active wallet, a scan is shown some; the
\* others are hidden.
LEMMA ListLogsShows ==
  ASSUME NEW s \in Scanners, ListLogs(s), hidden \subseteq Logs
  PROVE  \E logs \in SUBSET Logs :
           /\ Become(s, [job[s] EXCEPT !.pc = IF logs = {} THEN "save" ELSE "log",
                                       !.todo = logs, !.known = Active])
           /\ \A l \in logs : MinedAt(l) = job[s].block
           /\ \A l \in Logs : MinedAt(l) = job[s].block /\ Parties[l] \cap Active # {}
                             => l \in logs \/ l \in hidden'
           /\ hidden \subseteq hidden' /\ hidden' \subseteq Logs
           /\ UNCHANGED <<chain, since, tables, query>>
<1> DEFINE j == job[s]
           all == Matching(From, j.block) \cup Matching(To, j.block)
<1>1. /\ UNCHANGED <<chain, since, tables, query>>
      /\ \E sent \in FilterLogs(From, j.block), received \in FilterLogs(To, j.block) :
           LET logs == sent \cup received IN
           /\ hidden' = hidden \cup (all \ logs)
           /\ Become(s, [j EXCEPT !.pc = IF logs = {} THEN "save" ELSE "log",
                                  !.todo = logs, !.known = Active])
  BY DEF ListLogs
<1>2. PICK sent \in FilterLogs(From, j.block), received \in FilterLogs(To, j.block) :
        LET logs == sent \cup received IN
        /\ hidden' = hidden \cup (all \ logs)
        /\ Become(s, [j EXCEPT !.pc = IF logs = {} THEN "save" ELSE "log",
                               !.todo = logs, !.known = Active])
  BY <1>1
<1> DEFINE logs == sent \cup received
<1>3. all \subseteq Logs /\ logs \subseteq all /\ \A l \in all : MinedAt(l) = j.block
  BY DEF FilterLogs, Matching
<1>4. ASSUME NEW l \in Logs, MinedAt(l) = j.block, Parties[l] \cap Active # {}
      PROVE  l \in all
  <2>1. Parties[l] = From[l] \cup To[l]
    BY IndexAssumption
  <2>2. From[l] \cap Active # {} \/ To[l] \cap Active # {}
    BY <1>4, <2>1
  <2> QED BY <1>4, <2>2 DEF Matching
<1>5. hidden' = hidden \cup (all \ logs)
      /\ Become(s, [j EXCEPT !.pc = IF logs = {} THEN "save" ELSE "log",
                             !.todo = logs, !.known = Active])
  BY <1>2
<1> HIDE DEF all, logs
<1>6. logs \in SUBSET Logs /\ \A l \in logs : MinedAt(l) = j.block
  BY <1>3
<1>7. \A l \in Logs : MinedAt(l) = j.block /\ Parties[l] \cap Active # {}
                    => l \in logs \/ l \in hidden'
  BY <1>4, <1>5
<1>8. hidden \subseteq hidden' /\ hidden' \subseteq Logs
  BY <1>3, <1>5
<1> QED BY <1>1, <1>5, <1>6, <1>7, <1>8

LEMMA ListLogsKeeps ==
  ASSUME ScanInv, NEW s \in Scanners, ListLogs(s)
  PROVE  ScanInv'
<1> DEFINE j == job[s]
<1>1. /\ j \in Job /\ Deep(j) /\ j.pc = "native" /\ j.pc \in InBlock
      /\ DataTypes /\ ChainInv /\ hidden \subseteq Logs
  BY JobFacts, TypesSplit DEF ListLogs, Does, InBlock, NativeSteps, ScanInv, DataTypes
<1>2. PICK logs \in SUBSET Logs :
        /\ Become(s, [j EXCEPT !.pc = IF logs = {} THEN "save" ELSE "log",
                               !.todo = logs, !.known = Active])
        /\ \A l \in logs : MinedAt(l) = j.block
        /\ hidden' \subseteq Logs
        /\ UNCHANGED <<chain, since, tables, query>>
  BY <1>1, ListLogsShows
<1> DEFINE e == [j EXCEPT !.pc = IF logs = {} THEN "save" ELSE "log", !.todo = logs, !.known = Active]
<1>3. logs \in SUBSET Items /\ Active \in SUBSET Wallets
  BY DEF Items, Active
<1>4. /\ e \in Job /\ e.pc = (IF logs = {} THEN "save" ELSE "log") /\ e.todo = logs /\ e.block = j.block
      /\ e.latest = j.latest /\ e.scanned = j.scanned
  BY <1>1, <1>3 DEF Job, ScanSteps
<1>5. Become(s, e)
  BY <1>2
<1> HIDE DEF e
<1>6. OnItem(e) /\ e.pc \in InBlock
  BY <1>1, <1>2, <1>4, BlockFacts DEF OnItem, InBlock, NativeSteps, LogSteps
<1>7. Deep(e)
  BY <1>1, <1>4, <1>6, SameBlock
<1>8. UNCHANGED <<head, minedAt, since, cursor, origin, rows, receipts, query>>
  BY <1>2 DEF chain, tables
<1>9. DataTypes' /\ ChainInv'
  BY <1>1, <1>2, <1>8 DEF DataTypes, ChainInv
<1>10. PICK k \in Job : k = e /\ Deep(k)
  BY <1>4, <1>7
<1>11. Deep(k)'
  BY <1>2, <1>8, <1>10, SameChain
<1> QED BY <1>2, <1>5, <1>8, <1>9, <1>10, <1>11, ScannerKeeps DEF Become

LEMMA CreateEventKeeps ==
  ASSUME ScanInv, NEW s \in Scanners, NEW l \in Logs, CreateEvent(s, l)
  PROVE  ScanInv'
<1> DEFINE j == job[s]
           found == Parties[l] \cap j.known
           e == [j EXCEPT !.pc = "logRow", !.todo = @ \ {l}, !.item = l, !.targets = found]
<1>1. /\ j \in Job /\ Deep(j) /\ DataTypes /\ j.pc = "log" /\ j.pc \in InBlock /\ OnItem(j)
      /\ l \in j.todo /\ Become(s, e)
      /\ receipts' = [receipts EXCEPT ![l] = IF @ = None THEN "pending" ELSE @]
      /\ UNCHANGED <<chain, since, hidden, cursor, origin, rows, query>>
  BY JobFacts DEF CreateEvent, Does, Deep, InBlock, LogSteps
<1>2. found \in SUBSET Wallets /\ l \in Items /\ j.todo \in SUBSET Items
  BY <1>1, JobFields, ItemFacts DEF Items
<1> HIDE DEF found
<1>3. /\ e \in Job /\ e.pc = "logRow" /\ e.todo = j.todo \ {l} /\ e.block = j.block
      /\ e.latest = j.latest /\ e.scanned = j.scanned /\ e.item = l
  BY <1>1, <1>2 DEF Job, ScanSteps
<1> HIDE DEF e
<1>4. MinedAt(l) = j.block
  BY <1>1 DEF OnItem
<1>5. OnItem(e) /\ e.pc \in InBlock
  BY <1>1, <1>3, <1>4 DEF OnItem, InBlock, NativeSteps, LogSteps
<1>6. Deep(e)
  BY <1>1, <1>3, <1>5, SameBlock
<1>7. /\ rows' \in [Wallets -> [Items -> Snapshot \cup {None}]]
      /\ receipts' \in [Logs -> Receipt \cup {None}]
  BY <1>1 DEF DataTypes, Receipt
<1> QED BY <1>1, <1>3, <1>6, <1>7, WriteKeeps

LEMMA FailLogKeeps ==
  ASSUME ScanInv, NEW s \in Scanners, NEW w \in Wallets, FailLog(s, w)
  PROVE  ScanInv'
<1> DEFINE j == job[s]
           v == [status |-> Outcome(j.item), block |-> j.block]
           e == [Resting EXCEPT !.failed = TRUE]
<1>1. /\ DataTypes /\ j.pc = "logRow" /\ j.pc \in InBlock /\ Become(s, e)
      /\ Upsert(w, j.item, v) \/ UNCHANGED rows
      /\ receipts' = [receipts EXCEPT ![j.item] = "failed"]
      /\ UNCHANGED <<chain, since, hidden, cursor, origin, query>>
  BY JobFacts DEF FailLog, Does, RestFailed, InBlock, LogSteps
<1>2. v \in Snapshot
  BY <1>1, BlockFacts
<1>3. rows' \in [Wallets -> [Items -> Snapshot \cup {None}]]
  <2> HIDE DEF v
  <2>1. CASE Upsert(w, j.item, v)
    BY <1>1, <1>2, <2>1, UpsertFacts
  <2>2. CASE UNCHANGED rows
    BY <1>1, <2>2 DEF DataTypes
  <2> QED BY <1>1, <2>1, <2>2
<1>4. receipts' \in [Logs -> Receipt \cup {None}]
  BY <1>1 DEF DataTypes, Receipt
<1>5. e \in Job /\ Deep(e)
  BY RestFacts, RestDeep
<1> HIDE DEF e, v
<1> QED BY <1>1, <1>3, <1>4, <1>5, WriteKeeps

LEMMA MarkEventKeeps ==
  ASSUME ScanInv, NEW s \in Scanners, MarkEvent(s)
  PROVE  ScanInv'
<1> DEFINE j == job[s]
           e == [j EXCEPT !.pc = IF j.todo = {} THEN "save" ELSE "log"]
<1>1. /\ j \in Job /\ Deep(j) /\ DataTypes /\ j.pc = "mark" /\ j.pc \in InBlock /\ OnItem(j)
      /\ Become(s, e) /\ receipts' = [receipts EXCEPT ![j.item] = MarkProcessed(@)]
      /\ UNCHANGED <<chain, since, hidden, cursor, origin, rows, query>>
  BY JobFacts DEF MarkEvent, Does, Deep, InBlock, LogSteps
<1>2. /\ e \in Job /\ e.pc = (IF j.todo = {} THEN "save" ELSE "log") /\ e.todo = j.todo /\ e.block = j.block
      /\ e.latest = j.latest /\ e.scanned = j.scanned
  BY <1>1 DEF Job, ScanSteps
<1> HIDE DEF e
<1>3. OnItem(e) /\ e.pc \in InBlock
  BY <1>1, <1>2 DEF OnItem, InBlock, NativeSteps, LogSteps
<1>4. Deep(e)
  BY <1>1, <1>2, <1>3, SameBlock
<1>5. /\ rows' \in [Wallets -> [Items -> Snapshot \cup {None}]]
      /\ receipts' \in [Logs -> Receipt \cup {None}]
  BY <1>1 DEF DataTypes, MarkProcessed, Receipt
<1> QED BY <1>1, <1>2, <1>4, <1>5, WriteKeeps

LEMMA SaveCursorKeeps ==
  ASSUME ScanInv, NEW s \in Scanners, SaveCursor(s)
  PROVE  /\ ScanInv' /\ origin # None /\ cursor' = job[s].block /\ cursor' # None
         /\ job'[s].pc = "fetch" /\ job'[s].block = job[s].block + 1
<1> DEFINE j == job[s]
           e == [Resting EXCEPT !.pc = "fetch", !.latest = j.latest,
                                !.block = j.block + 1, !.scanned = j.scanned + 1]
<1>1. /\ j \in Job /\ Deep(j) /\ DataTypes /\ ChainInv /\ j.pc = "save" /\ j.pc \in InBlock
      /\ j.latest \in Nat /\ j.block \in Nat /\ Delay \in Nat /\ head \in Nat
      /\ cursor' = j.block /\ Become(s, e)
      /\ UNCHANGED <<chain, since, hidden, origin, rows, receipts, query>>
  BY JobFacts DEF SaveCursor, Does, InBlock, LogSteps
<1>2. j.block \in Height /\ j.block + Delay <= head /\ 1 <= j.block
  BY <1>1, BlockFacts
<1>3. j.block <= SafeHead(j.latest) /\ Delay <= j.latest /\ j.latest <= head /\ origin # None
  BY <1>1 DEF Deep, InBlock, UnderWay, LogSteps
<1>4. j.scanned \in Nat /\ j.scanned + 1 \in 0..BatchSize
  <2>1. j.scanned < BatchSize /\ j.scanned \in 0..BatchSize /\ BatchSize \in Nat
    BY <1>1, BlockFacts, JobFields, IndexAssumption DEF OnItem
  <2> QED BY <2>1
<1>5. PICK k \in Job : Become(s, k) /\ k.pc = "fetch" /\ k.latest = j.latest /\ k.block = j.block + 1
  <2>1. j.latest \in Height
    BY <1>1, JobFields
  <2>2. e \in Job /\ e.pc = "fetch" /\ e.latest = j.latest /\ e.block = j.block + 1
    <3>1. j.block + 1 \in Nat
      BY <1>1
    <3>2. PICK block \in Nat, latest \in Height, n \in 0..BatchSize :
            block = j.block + 1 /\ latest = j.latest /\ n = j.scanned + 1
      BY <1>4, <2>1, <3>1
    <3>3. e = [Resting EXCEPT !.pc = "fetch", !.latest = latest, !.block = block, !.scanned = n]
      BY <3>2
    <3> HIDE DEF e
    <3>4. e \in Job /\ e.pc = "fetch" /\ e.latest = latest /\ e.block = block
      BY <3>3, RestFacts DEF Job, ScanSteps
    <3> QED BY <3>2, <3>4
  <2> HIDE DEF e
  <2> QED BY <1>1, <2>2
<1>6. Deep(k)
  BY <1>1, <1>2, <1>3, <1>5 DEF Deep, SafeHead, UnderWay, InBlock, NativeSteps, LogSteps
<1>7. cursor' # None /\ cursor' \in Height
  BY <1>1, <1>2, IndexAssumption DEF Height
<1>8. DataTypes'
  BY <1>1, <1>7 DEF DataTypes, chain
<1>9. ChainInv'
  BY <1>1, <1>2, <1>3, <1>7 DEF ChainInv, chain
<1>10. job' = [job EXCEPT ![s] = k] /\ job'[s] = k
  BY <1>5, JobFacts
<1>11. Deep(k)'
  BY <1>1, <1>6, SameChain
<1>12. ScanInv'
  BY <1>1, <1>5, <1>8, <1>9, <1>10, <1>11, ScannerKeeps
<1> QED BY <1>1, <1>3, <1>5, <1>7, <1>10, <1>12

LEMMA InterruptKeeps ==
  ASSUME ScanInv, NEW s \in Scanners, Interrupt(s)
  PROVE  ScanInv'
<1> DEFINE e == [Resting EXCEPT !.failed = TRUE]
<1>1. Become(s, e) /\ ReadsOnly
  BY DEF Interrupt, StopAtError, RestFailed, ReadsOnly, tables
<1>2. e \in Job /\ Deep(e)
  BY RestFacts, RestDeep
<1> HIDE DEF e
<1> QED BY <1>1, <1>2, ReadKeeps

LEMMA ScanStep == ScanInv /\ [Next]_vars => ScanInv'
<1> SUFFICES ASSUME ScanInv, [Next]_vars PROVE ScanInv'
  OBVIOUS
<1>1. CASE \/ \E block \in SUBSET Txs : Extend(block)
           \/ \E depth \in 1..MaxReorg : Reorg(depth)
  BY <1>1, ChainScan
<1>2. CASE \E w \in Wallets : Bind(w) \/ Unbind(w)
  BY <1>2, WalletScan
<1>3. CASE \E s \in Scanners : Scan(s)
  <2>1. PICK s \in Scanners : Scan(s)
    BY <1>3
  <2> QED BY <2>1, ReadCursorKeeps, SaveFirstCursorKeeps, FetchBlockKeeps, FindPartiesKeeps,
             WriteRowKeeps, ListLogsKeeps, CreateEventKeeps, MarkEventKeeps, SaveCursorKeeps
          DEF Scan
<1>4. CASE \E s \in Scanners, latest \in Height : StartScan(s, latest)
  BY <1>4, StartScanKeeps
<1>5. CASE Failure
  BY <1>5, InterruptKeeps, FailLogKeeps DEF Failure
<1>6. CASE \E q \in Queries : Answer(q)
  BY <1>6, AnswerScan
<1>7. CASE UNCHANGED vars
  <2>1. UNCHANGED <<head, minedAt, since, hidden, cursor, origin, rows, receipts, job, query>>
    BY <1>7 DEF vars, chain, tables
  <2> QED BY <2>1 DEF ScanInv, TypeOK, ChainInv, Deep, OnItem, MinedAt, Tx, Named
<1> QED BY <1>1, <1>2, <1>3, <1>4, <1>5, <1>6, <1>7 DEF Next

\* The types are kept, and no scan is nearer to the head than the delay: whatever
\* the nodes say, the cursor never passes the confirmed part of the chain
\* (blockByNumber, SaveCursor).
THEOREM ScansAreSafe == Spec => []ScanInv
<1>1. Init => ScanInv
  BY ScanInit
<1>2. ScanInv /\ [Next]_vars => ScanInv'
  BY ScanStep
<1> QED BY <1>1, <1>2, PTL DEF Spec

\* The types of TransactionIndex.
THEOREM IndexTypes == Spec => []TypeOK
<1>1. ScanInv => TypeOK
  BY DEF ScanInv
<1> QED BY <1>1, ScansAreSafe, PTL

-----------------------------------------------------------------------------
(* Layer 2: the rows *)

\* What no step does: move a block into the confirmed part of the chain, have a
\* wallet pass for bound earlier than it was, take back a row, begin elsewhere, show
\* what has been hidden.
Keep ==
  /\ \A i \in Items :
       MinedAt(i)' # MinedAt(i) => ~(MinedAt(i)' >= 1 /\ MinedAt(i)' + Delay <= head)
  /\ \A w \in Wallets : since'[w] \in {since[w], None, TakenUp}
  /\ \A w \in Wallets, i \in Items : Stored(w, i) => Stored(w, i)'
  /\ origin # None => origin' = origin
  /\ hidden \subseteq hidden'

\* So what a wallet is due in a confirmed block that has been taken up, it was due before.
LEMMA DueBefore ==
  ASSUME ScanInv, ScanInv', Keep, NEW w \in Wallets, NEW i \in Items, Due(w, i)',
         MinedAt(i)' >= 1, MinedAt(i)' + Delay <= head, MinedAt(i)' <= TakenUp
  PROVE  Due(w, i) /\ MinedAt(i) = MinedAt(i)'
<1>1. MinedAt(i)' = MinedAt(i) /\ MinedAt(i)' \in Nat
  <2>1. DataTypes'
    BY TypesSplit DEF ScanInv, TypeOK, DataTypes
  <2> QED BY <2>1, HeightsNext DEF Keep
<1>2. since'[w] # None /\ since'[w] < MinedAt(i)' /\ w \in Parties[i]
  BY DEF Due
<1>3. TakenUp \in Nat
  BY TakenUpFacts
<1>4. since'[w] # TakenUp
  BY <1>1, <1>2, <1>3
<1>5. since'[w] = since[w]
  BY <1>2, <1>4 DEF Keep
<1>6. i \notin hidden
  BY DEF Due, Keep
<1> QED BY <1>1, <1>2, <1>5, <1>6 DEF Due

LEMMA CompleteKeeps ==
  ASSUME ScanInv, ScanInv', Keep, NEW b \in Nat, b + Delay <= head, b <= TakenUp,
         origin # None, Complete(b)
  PROVE  Complete(b)'
<1> SUFFICES ASSUME NEW w \in Wallets, NEW i \in Items, Due(w, i)', origin' < MinedAt(i)', MinedAt(i)' <= b
             PROVE  Stored(w, i)'
  BY DEF Complete
<1>1. MinedAt(i)' \in Nat /\ head \in Nat /\ Delay \in Nat /\ TakenUp \in Nat /\ origin \in Nat
      /\ origin' = origin
  <2>1. DataTypes /\ DataTypes'
    BY TypesSplit DEF ScanInv, TypeOK, DataTypes
  <2>2. MinedAt(i)' \in Nat
    BY <2>1, HeightsNext
  <2> QED BY <2>1, <2>2, HeightFacts, DelayFacts, TakenUpFacts DEF DataTypes, Keep
<1>2. MinedAt(i)' >= 1 /\ MinedAt(i)' + Delay <= head /\ MinedAt(i)' <= TakenUp
  BY <1>1
<1>3. Due(w, i) /\ MinedAt(i) = MinedAt(i)'
  BY <1>2, DueBefore
<1>4. Stored(w, i)
  BY <1>1, <1>3 DEF Complete
<1> QED BY <1>4 DEF Keep

LEMMA ProgressKeeps ==
  ASSUME ScanInv, ScanInv', Keep, NEW j \in Job, 1 <= j.block, j.block + Delay <= head,
         j.block <= TakenUp, Progress(j)
  PROVE  Progress(j)'
<1> SUFFICES ASSUME NEW w \in Wallets, NEW i \in Items, Due(w, i)', MinedAt(i)' = j.block
             PROVE  /\ i \in Txs => \/ Stored(w, i)'
                                    \/ j.pc \in NativeSteps /\ i \in j.todo
                                    \/ j.pc = "nativeRow" /\ i = j.item /\ w \in j.targets
                    /\ i \in Logs /\ j.pc \in LogSteps =>
                         /\ w \in j.known
                         /\ \/ Stored(w, i)'
                            \/ i \in j.todo
                            \/ j.pc = "logRow" /\ i = j.item /\ w \in j.targets
  BY DEF Progress
<1>1. Due(w, i) /\ MinedAt(i) = j.block
  BY DueBefore
<1>2. Stored(w, i) => Stored(w, i)'
  BY DEF Keep
<1> QED BY <1>1, <1>2 DEF Progress

\* What the blocks of a scan under way are to the chain.
LEMMA UnderWayFacts ==
  ASSUME ScanInv, NEW s \in Scanners, job[s].pc \in UnderWay
  PROVE  /\ job[s].block \in Nat /\ 1 <= job[s].block /\ job[s].block <= TakenUp
         /\ job[s].block - 1 \in Nat /\ job[s].block - 1 + Delay <= head
         /\ job[s].block - 1 <= TakenUp /\ origin # None
<1> DEFINE j == job[s]
<1>1. /\ Deep(j) /\ j.block \in Nat /\ j.latest \in Nat /\ head \in Nat /\ Delay \in Nat
      /\ j.block <= TakenUp /\ TakenUp \in Nat
  BY JobFacts, TakenUpFacts
<1>2. j.pc # "idle"
  BY DEF UnderWay, InBlock, NativeSteps, LogSteps
<1>3. 1 <= j.block /\ j.block <= j.latest - Delay + 1 /\ j.latest <= head /\ origin # None
  BY <1>1, <1>2 DEF Deep, SafeHead
<1> HIDE DEF j
<1>4. j.block - 1 \in Nat /\ j.block - 1 + Delay <= head /\ j.block - 1 <= TakenUp
  BY <1>1, <1>3
<1> QED BY <1>1, <1>3, <1>4 DEF j

\* What has been reached stays reached.
LEMMA ReachedStays ==
  ASSUME ScanInv, ScanInv', RowsInv, Keep
  PROVE  /\ \A c \in Nat : c = cursor => Complete(c)'
         /\ \A s \in Scanners : \A k \in Job : k = job[s] =>
              /\ k.pc \in UnderWay => Complete(k.block - 1)'
              /\ k.pc \in InBlock => Progress(k)'
<1>1. ASSUME NEW c \in Nat, c = cursor PROVE Complete(c)'
  <2>1. Complete(c) /\ c + Delay <= head /\ c <= TakenUp /\ origin # None
    BY <1>1, TakenUpFacts, IndexAssumption DEF RowsInv, ScanInv, ChainInv
  <2> QED BY <2>1, CompleteKeeps
<1>2. ASSUME NEW s \in Scanners, NEW k \in Job, k = job[s], k.pc \in UnderWay
      PROVE  Complete(k.block - 1)'
  <2>1. Complete(k.block - 1)
    BY <1>2 DEF RowsInv
  <2>2. k.block - 1 \in Nat /\ k.block - 1 + Delay <= head /\ k.block - 1 <= TakenUp /\ origin # None
    BY <1>2, UnderWayFacts
  <2>3. PICK b \in Nat : b = k.block - 1
    BY <2>2
  <2>4. Complete(b)'
    BY <2>1, <2>2, <2>3, CompleteKeeps
  <2> QED BY <2>3, <2>4
<1>3. ASSUME NEW s \in Scanners, NEW k \in Job, k = job[s], k.pc \in InBlock
      PROVE  Progress(k)'
  <2>1. Progress(k) /\ 1 <= k.block /\ k.block + Delay <= head
    BY <1>3, BlockFacts DEF RowsInv
  <2>2. k.block <= TakenUp
    BY <1>3, TakenUpFacts
  <2> QED BY <2>1, <2>2, ProgressKeeps
<1> QED BY <1>1, <1>2, <1>3

\* A scanner only writes rows that are final.
LEMMA ScannerKeep ==
  ASSUME UNCHANGED <<chain, since>>, hidden \subseteq hidden', origin # None => origin' = origin,
         \A w \in Wallets, i \in Items :
           \/ rows'[w][i] = rows[w][i]
           \/ rows'[w][i] # None /\ rows'[w][i].status # "pending"
  PROVE  Keep
<1>1. \A i \in Items : MinedAt(i)' = MinedAt(i)
  BY DEF MinedAt, Tx, chain
<1>2. ASSUME NEW w \in Wallets, NEW i \in Items, Stored(w, i) PROVE Stored(w, i)'
  BY <1>2 DEF Stored, Final
<1> QED BY <1>1, <1>2 DEF Keep

LEMMA RowsOfScanner ==
  ASSUME ScanInv, ScanInv', RowsInv, OneBeginning, Keep, NEW s \in Scanners, NEW e \in Job,
         Become(s, e), UNCHANGED cursor \/ \A c \in Nat : cursor' = c => Complete(c)',
         e.pc = "first" => cursor' = None,
         e.pc \in UnderWay => Complete(e.block - 1)',
         e.pc \in InBlock => Progress(e)'
  PROVE  RowsInv'
<1>1. cursor' # None => Complete(cursor)'
  <2>1. cursor' # None => cursor' \in Nat
    BY TypesSplit, DelayFacts DEF ScanInv, TypeOK, Height
  <2>2. ASSUME NEW c \in Nat, cursor' = c PROVE Complete(c)'
    <3>1. CASE UNCHANGED cursor
      BY <2>2, <3>1, ReachedStays
    <3>2. CASE \A b \in Nat : cursor' = b => Complete(b)'
      BY <2>2, <3>2
    <3> QED BY <3>1, <3>2
  <2> QED BY <2>1, <2>2 DEF Complete
<1>2. ASSUME NEW d \in Scanners
      PROVE  /\ job'[d].pc = "first" => cursor' = None
             /\ job'[d].pc \in UnderWay => Complete(job[d].block - 1)'
             /\ job'[d].pc \in InBlock => Progress(job[d])'
  <2>1. CASE d = s
    <3>1. job'[d] = e
      BY <2>1, JobFacts
    <3> QED BY <3>1 DEF Complete, Progress
  <2>2. CASE d # s
    <3>1. job'[d] = job[d] /\ job[d] \in Job /\ Deep(job[d]) /\ StartBlock \in Nat
      BY <2>2, JobFacts, DelayFacts DEF Become, ScanInv
    <3>2. StartBlock > 0
      BY <2>2 DEF OneBeginning
    <3>3. job[d].pc # "first"
      BY <3>1, <3>2 DEF Deep
    <3>4. PICK k \in Job : k = job[d]
      BY <3>1
    <3>5. (k.pc \in UnderWay => Complete(k.block - 1)') /\ (k.pc \in InBlock => Progress(k)')
      BY <3>4, ReachedStays
    <3>6. k = job'[d]
      BY <3>1, <3>4
    <3> QED BY <3>1, <3>3, <3>4, <3>5, <3>6 DEF Complete, Progress
  <2> QED BY <2>1, <2>2
<1> QED BY <1>1, <1>2 DEF RowsInv

\* A step that leaves the scanners and the cursor alone.
LEMMA RowsOfOthers ==
  ASSUME ScanInv, ScanInv', RowsInv, Keep, UNCHANGED <<job, cursor>>
  PROVE  RowsInv'
<1>1. cursor' # None => Complete(cursor)'
  <2>1. cursor' # None => cursor' \in Nat
    BY TypesSplit, DelayFacts DEF ScanInv, TypeOK, Height
  <2>2. \A c \in Nat : cursor' = c => Complete(c)'
    BY ReachedStays
  <2> QED BY <2>1, <2>2 DEF Complete
<1>2. ASSUME NEW d \in Scanners
      PROVE  /\ job'[d].pc = "first" => cursor' = None
             /\ job'[d].pc \in UnderWay => Complete(job[d].block - 1)'
             /\ job'[d].pc \in InBlock => Progress(job[d])'
  <2>1. job[d] \in Job
    BY JobFacts
  <2>2. PICK k \in Job : k = job[d] /\ k = job'[d]
    BY <2>1
  <2>3. (k.pc \in UnderWay => Complete(k.block - 1)') /\ (k.pc \in InBlock => Progress(k)')
    BY <2>2, ReachedStays
  <2>4. job'[d].pc = "first" => cursor' = None
    BY DEF RowsInv
  <2> QED BY <2>2, <2>3, <2>4 DEF Complete, Progress
<1> QED BY <1>1, <1>2 DEF RowsInv

\* A step that takes nothing up.
LEMMA RowsIfIdle ==
  ASSUME ScanInv, ScanInv', RowsInv, OneBeginning, Keep, NEW s \in Scanners, NEW e \in Job,
         Become(s, e), e.pc \in {"idle", "cursor"}, UNCHANGED cursor
  PROVE  RowsInv'
<1>1. e.pc # "first" /\ e.pc \notin UnderWay /\ e.pc \notin InBlock
  BY DEF UnderWay, InBlock, NativeSteps, LogSteps
<1> QED BY <1>1, RowsOfScanner

LEMMA ReadKeep ==
  ASSUME ReadsOnly
  PROVE  Keep /\ UNCHANGED <<chain, since, hidden, cursor, origin, rows, receipts, query>>
<1>1. UNCHANGED <<chain, since, hidden, cursor, origin, rows, receipts, query>>
  BY DEF ReadsOnly, tables
<1> QED BY <1>1, ScannerKeep

\* Reading is no writing: what is complete or under way stays so.
LEMMA SameRows ==
  ASSUME ReadsOnly
  PROVE  /\ \A b \in Nat : Complete(b) => Complete(b)'
         /\ \A j \in Job : Progress(j) => Progress(j)'
<1>1. UNCHANGED <<head, minedAt, since, hidden, origin, rows>>
  BY DEF ReadsOnly, tables, chain
<1>2. \A i \in Items : MinedAt(i)' = MinedAt(i)
  BY <1>1 DEF MinedAt, Tx
<1>3. \A w \in Wallets, i \in Items : Due(w, i)' = Due(w, i) /\ Stored(w, i)' = Stored(w, i)
  BY <1>1, <1>2 DEF Due, Stored, Final
<1>4. ASSUME NEW b \in Nat, Complete(b) PROVE Complete(b)'
  BY <1>1, <1>2, <1>3, <1>4 DEF Complete
<1>5. ASSUME NEW j \in Job, Progress(j) PROVE Progress(j)'
  BY <1>2, <1>3, <1>5 DEF Progress
<1> QED BY <1>4, <1>5

LEMMA NextJob ==
  ASSUME ScanInv, ScanInv', NEW s \in Scanners, NEW e, Become(s, e)
  PROVE  e \in Job
<1>1. job'[s] = e
  BY JobFacts
<1> QED BY <1>1 DEF ScanInv, TypeOK

\* Where the steps on a block lead.
LEMMA WriteRowGoes ==
  ASSUME ScanInv, ScanInv', NEW s \in Scanners, NEW w \in Wallets, NEW after, WriteRow(s, w, after)
  PROVE  \E e \in Job :
           /\ Become(s, e)
           /\ e.pc = (IF job[s].targets \ {w} = {} THEN after ELSE job[s].pc)
           /\ e.block = job[s].block /\ e.todo = job[s].todo /\ e.item = job[s].item
           /\ e.known = job[s].known /\ e.targets = job[s].targets \ {w}
<1> DEFINE j == job[s]
           rest == j.targets \ {w}
           k == [j EXCEPT !.targets = rest, !.pc = IF rest = {} THEN after ELSE @]
<1>1. Become(s, k) /\ j \in Job
  BY JobFacts DEF WriteRow
<1>2. /\ k.pc = (IF rest = {} THEN after ELSE j.pc)
      /\ k.block = j.block /\ k.todo = j.todo /\ k.item = j.item
      /\ k.known = j.known /\ k.targets = rest
  <2> HIDE DEF rest
  <2> QED BY <1>1 DEF Job
<1> HIDE DEF k
<1> QED BY <1>1, <1>2, NextJob

LEMMA ListLogsGoes ==
  ASSUME ScanInv, ScanInv', NEW s \in Scanners, ListLogs(s)
  PROVE  /\ \E e \in Job :
              /\ Become(s, e) /\ e.pc = (IF e.todo = {} THEN "save" ELSE "log")
              /\ e.block = job[s].block /\ e.known = Active
              /\ \A w \in Wallets, l \in Logs :
                   Due(w, l)' /\ MinedAt(l) = job[s].block => w \in e.known /\ l \in e.todo
         /\ Keep /\ UNCHANGED <<chain, since, cursor, origin, rows, receipts>>
<1> DEFINE j == job[s]
<1>1. j \in Job /\ hidden \subseteq Logs
  BY JobFacts DEF ScanInv, TypeOK
<1>2. PICK logs \in SUBSET Logs :
        /\ Become(s, [j EXCEPT !.pc = IF logs = {} THEN "save" ELSE "log",
                               !.todo = logs, !.known = Active])
        /\ \A l \in Logs : MinedAt(l) = j.block /\ Parties[l] \cap Active # {}
                          => l \in logs \/ l \in hidden'
        /\ hidden \subseteq hidden'
        /\ UNCHANGED <<chain, since, tables, query>>
  BY <1>1, ListLogsShows
<1> DEFINE k == [j EXCEPT !.pc = IF logs = {} THEN "save" ELSE "log", !.todo = logs, !.known = Active]
<1>3. /\ k.pc = (IF logs = {} THEN "save" ELSE "log")
      /\ k.block = j.block /\ k.todo = logs /\ k.known = Active
  BY <1>1 DEF Job
<1>4. Become(s, k)
  BY <1>2
<1> HIDE DEF k
<1>5. k \in Job
  BY <1>4, NextJob
<1>6. UNCHANGED <<chain, since, cursor, origin, rows, receipts>>
  BY <1>2 DEF tables
<1>7. ASSUME NEW w \in Wallets, NEW l \in Logs, Due(w, l)', MinedAt(l) = j.block
      PROVE  w \in Active /\ l \in logs
  <2>1. w \in Parties[l] /\ since[w] # None /\ l \notin hidden'
    BY <1>6, <1>7 DEF Due
  <2>2. w \in Active
    BY <2>1 DEF Active
  <2> QED BY <1>2, <1>7, <2>1, <2>2
<1>8. Keep
  BY <1>2, <1>6, ScannerKeep
<1> QED BY <1>3, <1>4, <1>5, <1>6, <1>7, <1>8

LEMMA CreateEventGoes ==
  ASSUME ScanInv, ScanInv', NEW s \in Scanners, NEW l \in Logs, CreateEvent(s, l)
  PROVE  \E e \in Job : /\ Become(s, e) /\ e.pc = "logRow" /\ e.block = job[s].block
                        /\ e.todo = job[s].todo \ {l} /\ e.item = l
                        /\ e.known = job[s].known /\ e.targets = Parties[l] \cap job[s].known
<1> DEFINE j == job[s]
           found == Parties[l] \cap j.known
           k == [j EXCEPT !.pc = "logRow", !.todo = @ \ {l}, !.item = l, !.targets = found]
<1>1. Become(s, k) /\ j \in Job
  BY JobFacts DEF CreateEvent
<1>2. /\ k.pc = "logRow" /\ k.block = j.block /\ k.todo = j.todo \ {l}
      /\ k.item = l /\ k.known = j.known /\ k.targets = found
  <2> HIDE DEF found
  <2> QED BY <1>1 DEF Job
<1> HIDE DEF k
<1> QED BY <1>1, <1>2, NextJob

LEMMA MarkEventGoes ==
  ASSUME ScanInv, ScanInv', NEW s \in Scanners, MarkEvent(s)
  PROVE  \E e \in Job : /\ Become(s, e) /\ e.pc = (IF job[s].todo = {} THEN "save" ELSE "log")
                        /\ e.block = job[s].block /\ e.todo = job[s].todo /\ e.known = job[s].known
<1> DEFINE j == job[s]
           k == [j EXCEPT !.pc = IF j.todo = {} THEN "save" ELSE "log"]
<1>1. Become(s, k) /\ j \in Job
  BY JobFacts DEF MarkEvent
<1>2. /\ k.pc = (IF j.todo = {} THEN "save" ELSE "log")
      /\ k.block = j.block /\ k.todo = j.todo /\ k.known = j.known
  BY <1>1 DEF Job
<1> HIDE DEF k
<1> QED BY <1>1, <1>2, NextJob

LEMMA StartScanRows ==
  ASSUME ScanInv, ScanInv', RowsInv, OneBeginning, NEW s \in Scanners, NEW latest \in Height,
         StartScan(s, latest)
  PROVE  RowsInv'
<1> DEFINE e == [Resting EXCEPT !.pc = "cursor", !.latest = latest]
<1>1. Become(s, e) /\ ReadsOnly /\ e.pc = "cursor"
  BY DEF StartScan, Resting
<1> HIDE DEF e
<1> QED BY <1>1, NextJob, ReadKeep, RowsIfIdle

LEMMA ReadCursorRows ==
  ASSUME ScanInv, ScanInv', RowsInv, OneBeginning, NEW s \in Scanners, ReadCursor(s)
  PROVE  RowsInv'
<1> DEFINE j == job[s]
           first == IF cursor = None THEN StartBlock ELSE After(cursor)
<1>1. j \in Job /\ Deep(j) /\ j.pc = "cursor" /\ ReadsOnly /\ ChainInv
  BY JobFacts DEF ReadCursor, Does
<1>2. Keep /\ UNCHANGED cursor
  BY <1>1, ReadKeep
<1>3. CASE cursor = None /\ StartBlock = 0
  <2> DEFINE e == [j EXCEPT !.pc = "first"]
  <2>1. Become(s, e) /\ e.pc = "first"
    BY <1>1, <1>3 DEF ReadCursor, Job
  <2> HIDE DEF e
  <2>2. e.pc \notin UnderWay /\ e.pc \notin InBlock
    BY <2>1 DEF UnderWay, InBlock, NativeSteps, LogSteps
  <2> QED BY <1>2, <1>3, <2>1, <2>2, NextJob, RowsOfScanner
<1>4. CASE ~(cursor = None /\ StartBlock = 0) /\ first > SafeHead(j.latest)
  <2>1. Become(s, Resting)
    BY <1>4 DEF ReadCursor, Rest
  <2> QED BY <1>2, <2>1, RestFacts, RowsIfIdle
<1>5. CASE ~(cursor = None /\ StartBlock = 0) /\ ~(first > SafeHead(j.latest))
  <2>1. PICK e \in Job : Become(s, e) /\ e.pc = "fetch" /\ e.block = first
    <3> DEFINE k == [j EXCEPT !.pc = "fetch", !.block = first]
    <3>1. Become(s, k) /\ k.pc = "fetch" /\ k.block = first
      BY <1>1, <1>5 DEF ReadCursor, Job
    <3> HIDE DEF k
    <3> QED BY <3>1, NextJob
  <2>2. PICK b \in Nat : b = first - 1 /\ (cursor # None => b = cursor)
                         /\ (cursor = None => b = origin)
    <3>1. CASE cursor = None
      BY <1>1, <1>5, <3>1, DelayFacts DEF ChainInv
    <3>2. CASE cursor # None
      BY <3>2, JobFacts, HeightFacts DEF After
    <3> QED BY <3>1, <3>2
  <2>3. Complete(b)'
    <3>1. CASE cursor # None
      BY <1>1, <2>2, <3>1, SameRows DEF RowsInv
    <3>2. CASE cursor = None
      <4>1. origin' = b
        BY <1>1, <2>2, <3>2, ReadKeep
      <4>2. \A i \in Items : MinedAt(i)' \in Nat
        BY TypesSplit, HeightsNext DEF ScanInv, TypeOK, DataTypes
      <4> QED BY <4>1, <4>2 DEF Complete
    <3> QED BY <3>1, <3>2
  <2>4. Complete(e.block - 1)'
    BY <2>1, <2>2, <2>3
  <2>5. e.pc # "first" /\ e.pc \notin InBlock
    BY <2>1 DEF InBlock, NativeSteps, LogSteps
  <2> QED BY <1>2, <2>1, <2>4, <2>5, RowsOfScanner
<1> QED BY <1>3, <1>4, <1>5

LEMMA SaveFirstCursorRows ==
  ASSUME ScanInv, ScanInv', RowsInv, OneBeginning, NEW s \in Scanners, SaveFirstCursor(s)
  PROVE  RowsInv'
<1>1. /\ Deep(job[s]) /\ ChainInv /\ job[s].pc = "first" /\ origin' = (IF origin = None THEN cursor' ELSE origin)
      /\ Become(s, Resting) /\ UNCHANGED <<chain, since, hidden, rows>>
  BY JobFacts DEF SaveFirstCursor, Rest, Does
<1>2. origin = None /\ origin' = cursor'
  BY <1>1 DEF RowsInv, Deep, ChainInv
<1>3. Keep
  BY <1>1, <1>2, ScannerKeep
<1>4. ASSUME NEW c \in Nat, cursor' = c PROVE Complete(c)'
  <2>1. \A i \in Items : MinedAt(i)' \in Nat
    BY TypesSplit, HeightsNext DEF ScanInv, TypeOK, DataTypes
  <2> QED BY <1>2, <1>4, <2>1 DEF Complete
<1>5. Resting.pc # "first" /\ Resting.pc \notin UnderWay /\ Resting.pc \notin InBlock
  BY RestFacts DEF UnderWay, InBlock, NativeSteps, LogSteps
<1> QED BY <1>1, <1>3, <1>4, <1>5, RestFacts, RowsOfScanner

\* A step on the block at hand: the blocks before it are complete as they were.
LEMMA RowsInBlock ==
  ASSUME ScanInv, ScanInv', RowsInv, OneBeginning, Keep, NEW s \in Scanners, NEW e \in Job,
         Become(s, e), UNCHANGED cursor, job[s].pc \in UnderWay, e.pc \in InBlock,
         e.block = job[s].block, Progress(e)'
  PROVE  RowsInv'
<1>1. PICK k \in Job : k = job[s]
  BY JobFacts
<1>2. Complete(k.block - 1)'
  BY <1>1, ReachedStays
<1>3. k.block = e.block
  BY <1>1
<1>4. Complete(e.block - 1)'
  BY <1>2, <1>3
<1>5. e.pc # "first"
  BY DEF InBlock, NativeSteps, LogSteps
<1> QED BY <1>4, <1>5, RowsOfScanner

LEMMA FetchBlockRows ==
  ASSUME ScanInv, ScanInv', RowsInv, OneBeginning, NEW s \in Scanners, FetchBlock(s)
  PROVE  RowsInv'
<1> DEFINE j == job[s]
           found == {t \in Txs : minedAt[t] = j.block}
           e == [j EXCEPT !.pc = "native", !.todo = found]
<1>1. j \in Job /\ j.pc = "fetch" /\ j.pc \in UnderWay /\ ReadsOnly
  BY JobFacts DEF FetchBlock, Does, UnderWay
<1>2. Keep /\ UNCHANGED <<cursor, minedAt>>
  BY <1>1, ReadKeep DEF chain
<1>3. CASE Become(s, Resting)
  BY <1>2, <1>3, RestFacts, RowsIfIdle
<1>4. CASE Become(s, e)
  <2>3. PICK k \in Job : Become(s, k) /\ k.block = j.block /\ k.pc = "native" /\ k.todo = found
    <3> HIDE DEF found
    <3>1. e.pc = "native" /\ e.block = j.block /\ e.todo = found
      BY <1>1 DEF Job
    <3> HIDE DEF e
    <3> QED BY <1>4, <3>1, NextJob
  <2>4. ASSUME NEW i \in Txs, MinedAt(i)' = k.block PROVE i \in k.todo
    BY <1>2, <2>3, <2>4, ItemFacts DEF MinedAt, Items
  <2>5. Progress(k)'
    BY <2>3, <2>4 DEF Progress, NativeSteps, LogSteps
  <2> QED BY <1>1, <1>2, <2>3, <2>5, RowsInBlock DEF InBlock, NativeSteps
<1> QED BY <1>3, <1>4 DEF FetchBlock, Rest

\* Only the chain and the wallets change what is due.
LEMMA SameDue ==
  ASSUME UNCHANGED <<chain, since, hidden>>
  PROVE  /\ \A i \in Items : MinedAt(i)' = MinedAt(i)
         /\ \A w \in Wallets, i \in Items : Due(w, i)' = Due(w, i)
BY DEF Due, MinedAt, Tx, chain

LEMMA FindPartiesRows ==
  ASSUME ScanInv, ScanInv', RowsInv, OneBeginning, NEW s \in Scanners, NEW t \in Txs,
         FindParties(s, t)
  PROVE  RowsInv'
<1> DEFINE j == job[s]
           found == Parties[t] \cap Active
           rest == [j EXCEPT !.todo = @ \ {t}]
<1>1. /\ j \in Job /\ j.pc = "native" /\ j.pc \in UnderWay /\ t \in j.todo /\ ReadsOnly
      /\ Progress(j)
  BY JobFacts DEF FindParties, Does, UnderWay, InBlock, NativeSteps, RowsInv
<1>2. Keep /\ UNCHANGED <<chain, since, hidden, cursor>>
  BY <1>1, ReadKeep
<1>3. \A w \in Wallets : since[w] # None => w \in Active
  BY DEF Active
<1>4. ASSUME NEW e \in Job, e.pc \in NativeSteps, e.block = j.block, e.todo = j.todo \ {t},
             \A w \in found : e.pc = "nativeRow" /\ e.item = t /\ w \in e.targets
      PROVE  Progress(e)'
  <2>1. e.pc \notin LogSteps
    BY <1>4 DEF NativeSteps, LogSteps
  <2> SUFFICES ASSUME NEW w \in Wallets, NEW i \in Items, Due(w, i)', MinedAt(i)' = e.block, i \in Txs
               PROVE  \/ Stored(w, i)'
                      \/ e.pc \in NativeSteps /\ i \in e.todo
                      \/ e.pc = "nativeRow" /\ i = e.item /\ w \in e.targets
    BY <2>1 DEF Progress
  <2>2. Due(w, i) /\ MinedAt(i) = j.block
    BY <1>2, <1>4, SameDue
  <2>3. Stored(w, i) \/ i \in j.todo
    BY <1>1, <2>2 DEF Progress
  <2>4. CASE i = t
    <3>1. w \in found
      BY <1>3, <2>2, <2>4 DEF Due
    <3> QED BY <1>4, <2>4, <3>1
  <2>5. CASE i # t
    BY <1>2, <1>4, <2>3, <2>5 DEF Keep
  <2> QED BY <2>4, <2>5
<1>5. rest.pc = "native" /\ rest.block = j.block /\ rest.todo = j.todo \ {t}
  BY <1>1 DEF Job
<1>6. PICK e \in Job : /\ Become(s, e) /\ e.pc \in NativeSteps /\ e.block = j.block /\ e.todo = j.todo \ {t}
                       /\ \A w \in found : e.pc = "nativeRow" /\ e.item = t /\ w \in e.targets
  <2>1. CASE found = {}
    <3>1. Become(s, rest)
      BY <2>1 DEF FindParties
    <3> HIDE DEF rest
    <3>2. rest \in Job
      BY <3>1, NextJob
    <3> QED BY <1>5, <2>1, <3>1, <3>2 DEF NativeSteps
  <2>2. CASE found # {}
    <3> DEFINE k == [rest EXCEPT !.pc = "nativeRow", !.item = t, !.targets = found]
    <3>1. Become(s, k)
      BY <2>2 DEF FindParties
    <3>2. k.pc = "nativeRow" /\ k.block = j.block /\ k.todo = j.todo \ {t} /\ k.item = t /\ k.targets = found
      <4> HIDE DEF found
      <4> QED BY <1>1 DEF Job
    <3> HIDE DEF k
    <3>3. k \in Job
      BY <3>1, NextJob
    <3> QED BY <3>1, <3>2, <3>3 DEF NativeSteps
  <2> QED BY <2>1, <2>2
<1>7. Progress(e)'
  BY <1>4, <1>6
<1> QED BY <1>1, <1>2, <1>6, <1>7, RowsInBlock DEF InBlock

\* Writing the row of item i settles it for wallet w.
LEMMA RowWritten ==
  ASSUME ScanInv, NEW w \in Wallets, NEW i \in Items, NEW b \in Height,
         Upsert(w, i, [status |-> Outcome(i), block |-> b]),
         UNCHANGED <<chain, since, hidden>>, origin # None => origin' = origin
  PROVE  Keep /\ Stored(w, i)'
<1> DEFINE v == [status |-> Outcome(i), block |-> b]
<1>1. v \in Snapshot /\ v.status # "pending" /\ v # None /\ DataTypes
  BY OutcomeFacts, NoneAssumption, TypesSplit DEF Snapshot, ScanInv
<1>2. \A d \in Wallets, k \in Items :
        rows'[d][k] = IF d = w /\ k = i THEN v ELSE rows[d][k]
  <2> HIDE DEF v
  <2>1. Upsert(w, i, v)
    BY DEF v
  <2> QED BY <1>1, <2>1, UpsertFacts
<1> HIDE DEF v
<1>3. Keep
  BY <1>1, <1>2, ScannerKeep
<1>4. Stored(w, i)'
  BY <1>1, <1>2 DEF Stored, Final
<1> QED BY <1>3, <1>4

LEMMA WriteRowRows ==
  ASSUME ScanInv, ScanInv', RowsInv, OneBeginning, NEW s \in Scanners, NEW w \in Wallets,
         UpsertNative(s, w) \/ UpsertLog(s, w)
  PROVE  RowsInv'
<1> DEFINE j == job[s]
           rest == j.targets \ {w}
<1>1. PICK after \in {"native", "mark"} :
        /\ j.pc = (IF after = "native" THEN "nativeRow" ELSE "logRow")
        /\ WriteRow(s, w, after)
  BY DEF UpsertNative, UpsertLog, Does
<1>2. j \in Job /\ j.pc \in InBlock /\ j.pc \in UnderWay /\ Progress(j)
  BY <1>1, JobFacts DEF UnderWay, InBlock, NativeSteps, LogSteps, RowsInv
<1>3. OnItem(j) /\ j.block \in Height /\ j.item \in Items
  BY <1>1, <1>2, BlockFacts DEF OnItem, Items
<1>4. /\ Upsert(w, j.item, [status |-> Outcome(j.item), block |-> j.block])
      /\ UNCHANGED <<chain, since, hidden, cursor, origin>>
  BY <1>1 DEF WriteRow
<1>5. PICK i \in Items : i = j.item /\ Keep /\ Stored(w, i)'
  <2>1. PICK i \in Items, b \in Height : i = j.item /\ b = j.block
    BY <1>3
  <2>2. Keep /\ Stored(w, i)'
    BY <1>4, <2>1, RowWritten
  <2> QED BY <2>1, <2>2
<1>6. PICK e \in Job : /\ Become(s, e) /\ e.pc = (IF rest = {} THEN after ELSE j.pc)
                       /\ e.block = j.block /\ e.todo = j.todo /\ e.item = i
                       /\ e.known = j.known /\ e.targets = rest
  BY <1>1, <1>5, WriteRowGoes
<1>7. Progress(e)'
  <2> SUFFICES ASSUME NEW d \in Wallets, NEW l \in Items, Due(d, l)', MinedAt(l)' = e.block
               PROVE  /\ l \in Txs => \/ Stored(d, l)'
                                      \/ e.pc \in NativeSteps /\ l \in e.todo
                                      \/ e.pc = "nativeRow" /\ l = e.item /\ d \in e.targets
                      /\ l \in Logs /\ e.pc \in LogSteps =>
                           /\ d \in e.known
                           /\ \/ Stored(d, l)'
                              \/ l \in e.todo
                              \/ e.pc = "logRow" /\ l = e.item /\ d \in e.targets
    BY DEF Progress
  <2>1. Due(d, l) /\ MinedAt(l) = j.block
    BY <1>4, <1>6, SameDue
  <2>2. Stored(d, l) => Stored(d, l)'
    BY <1>5 DEF Keep
  <2>3. /\ l \in Txs => \/ Stored(d, l)
                        \/ j.pc \in NativeSteps /\ l \in j.todo
                        \/ j.pc = "nativeRow" /\ l = j.item /\ d \in j.targets
        /\ l \in Logs /\ j.pc \in LogSteps =>
             /\ d \in j.known
             /\ \/ Stored(d, l)
                \/ l \in j.todo
                \/ j.pc = "logRow" /\ l = j.item /\ d \in j.targets
    BY <1>2, <2>1 DEF Progress
  <2>4. /\ (e.pc \in LogSteps) = (j.pc \in LogSteps)
        /\ (e.pc \in NativeSteps) = (j.pc \in NativeSteps)
    BY <1>1, <1>6 DEF NativeSteps, LogSteps
  <2>5. CASE l = i /\ d = w
    BY <1>5, <2>3, <2>4, <1>6, <2>5
  <2>6. CASE ~(l = i /\ d = w)
    <3>1. l = j.item /\ d \in j.targets => d \in rest /\ e.pc = j.pc
      BY <1>5, <1>6, <2>6
    <3> QED BY <1>5, <1>6, <2>2, <2>3, <2>4, <3>1
  <2> QED BY <2>5, <2>6
<1>8. e.pc \in InBlock
  BY <1>1, <1>2, <1>6 DEF InBlock, NativeSteps, LogSteps
<1> QED BY <1>2, <1>4, <1>5, <1>6, <1>7, <1>8, RowsInBlock

LEMMA ListLogsRows ==
  ASSUME ScanInv, ScanInv', RowsInv, OneBeginning, NEW s \in Scanners, ListLogs(s)
  PROVE  RowsInv'
<1> DEFINE j == job[s]
<1>1. /\ j \in Job /\ j.pc = "native" /\ j.pc \in UnderWay /\ j.todo = {}
      /\ Progress(j)
  BY JobFacts DEF ListLogs, Does, UnderWay, InBlock, NativeSteps, RowsInv
<1>2. PICK e \in Job :
        /\ Become(s, e) /\ e.pc = (IF e.todo = {} THEN "save" ELSE "log")
        /\ e.block = j.block /\ e.known = Active
        /\ \A w \in Wallets, l \in Logs :
             Due(w, l)' /\ MinedAt(l) = j.block => w \in e.known /\ l \in e.todo
  BY ListLogsGoes
<1>3. Keep /\ UNCHANGED <<chain, since, cursor>>
  BY ListLogsGoes
<1>4. Progress(e)'
  <2> SUFFICES ASSUME NEW w \in Wallets, NEW i \in Items, Due(w, i)', MinedAt(i)' = e.block
               PROVE  /\ i \in Txs => Stored(w, i)'
                      /\ i \in Logs => w \in e.known /\ i \in e.todo
    BY DEF Progress
  <2>1. MinedAt(i) = j.block /\ MinedAt(i)' = MinedAt(i)
    BY <1>2, <1>3 DEF MinedAt, Tx, chain
  <2>2. Due(w, i)
    BY <1>3, <2>1 DEF Due, Keep
  <2>3. i \in Txs => Stored(w, i)
    BY <1>1, <2>1, <2>2 DEF Progress
  <2> QED BY <1>2, <1>3, <2>1, <2>3 DEF Keep
<1>5. e.pc \in InBlock
  BY <1>2 DEF InBlock, LogSteps
<1> QED BY <1>1, <1>2, <1>3, <1>4, <1>5, RowsInBlock

LEMMA CreateEventRows ==
  ASSUME ScanInv, ScanInv', RowsInv, OneBeginning, NEW s \in Scanners, NEW l \in Logs,
         CreateEvent(s, l)
  PROVE  RowsInv'
<1> DEFINE j == job[s]
           found == Parties[l] \cap j.known
<1>1. /\ j \in Job /\ j.pc = "log" /\ j.pc \in UnderWay /\ l \in j.todo /\ Progress(j)
      /\ UNCHANGED <<chain, since, hidden, cursor, origin, rows>>
  BY JobFacts DEF CreateEvent, Does, UnderWay, InBlock, LogSteps, RowsInv
<1>2. Keep
  BY <1>1, ScannerKeep
<1>3. PICK e \in Job : /\ Become(s, e) /\ e.pc = "logRow" /\ e.block = j.block /\ e.todo = j.todo \ {l}
                       /\ e.item = l /\ e.known = j.known /\ e.targets = found
  BY CreateEventGoes
<1>4. Progress(e)'
  <2> SUFFICES ASSUME NEW w \in Wallets, NEW i \in Items, Due(w, i)', MinedAt(i)' = e.block
               PROVE  /\ i \in Txs => Stored(w, i)'
                      /\ i \in Logs => /\ w \in e.known
                                       /\ \/ Stored(w, i)'
                                          \/ i \in e.todo
                                          \/ i = e.item /\ w \in e.targets
    BY <1>3 DEF Progress, NativeSteps
  <2>1. Due(w, i) /\ MinedAt(i) = j.block /\ w \in Parties[i]
    BY <1>1, <1>3, SameDue DEF Due
  <2>2. /\ i \in Txs => Stored(w, i)
        /\ i \in Logs => w \in j.known /\ (Stored(w, i) \/ i \in j.todo)
    BY <1>1, <2>1 DEF Progress, NativeSteps, LogSteps
  <2> QED BY <1>2, <1>3, <2>1, <2>2 DEF Keep
<1>5. e.pc \in InBlock
  BY <1>3 DEF InBlock, LogSteps
<1> QED BY <1>1, <1>2, <1>3, <1>4, <1>5, RowsInBlock

LEMMA FailLogRows ==
  ASSUME ScanInv, ScanInv', RowsInv, OneBeginning, NEW s \in Scanners, NEW w \in Wallets,
         FailLog(s, w)
  PROVE  RowsInv'
<1> DEFINE j == job[s]
           e == [Resting EXCEPT !.failed = TRUE]
<1>1. /\ j.pc = "logRow" /\ j.pc \in InBlock /\ Become(s, e)
      /\ UNCHANGED <<chain, since, hidden, cursor, origin>>
      /\ \/ Upsert(w, j.item, [status |-> Outcome(j.item), block |-> j.block])
         \/ UNCHANGED rows
  BY DEF FailLog, Does, RestFailed, InBlock, LogSteps
<1>2. PICK i \in Items, b \in Height : i = j.item /\ b = j.block
  BY <1>1, BlockFacts DEF OnItem, Items
<1>3. Keep
  <2>1. CASE UNCHANGED rows
    BY <1>1, <2>1, ScannerKeep
  <2>2. CASE Upsert(w, j.item, [status |-> Outcome(j.item), block |-> j.block])
    BY <1>1, <1>2, <2>2, RowWritten
  <2> QED BY <1>1, <2>1, <2>2
<1>4. e \in Job /\ e.pc = "idle"
  BY RestFacts
<1> HIDE DEF e
<1> QED BY <1>1, <1>3, <1>4, RowsIfIdle

LEMMA MarkEventRows ==
  ASSUME ScanInv, ScanInv', RowsInv, OneBeginning, NEW s \in Scanners, MarkEvent(s)
  PROVE  RowsInv'
<1> DEFINE j == job[s]
<1>1. /\ j \in Job /\ j.pc = "mark" /\ j.pc \in UnderWay /\ Progress(j)
      /\ UNCHANGED <<chain, since, hidden, cursor, origin, rows>>
  BY JobFacts DEF MarkEvent, Does, UnderWay, InBlock, LogSteps, RowsInv
<1>2. Keep
  BY <1>1, ScannerKeep
<1>3. PICK e \in Job : /\ Become(s, e) /\ e.pc = (IF j.todo = {} THEN "save" ELSE "log")
                       /\ e.block = j.block /\ e.todo = j.todo /\ e.known = j.known
  BY MarkEventGoes
<1>4. Progress(e)'
  <2> SUFFICES ASSUME NEW w \in Wallets, NEW i \in Items, Due(w, i)', MinedAt(i)' = e.block
               PROVE  /\ i \in Txs => Stored(w, i)'
                      /\ i \in Logs => w \in e.known /\ (Stored(w, i)' \/ i \in e.todo)
    BY DEF Progress
  <2>1. Due(w, i) /\ MinedAt(i) = j.block
    BY <1>1, <1>3, SameDue
  <2>2. /\ i \in Txs => Stored(w, i)
        /\ i \in Logs => w \in j.known /\ (Stored(w, i) \/ i \in j.todo)
    BY <1>1, <2>1 DEF Progress, NativeSteps, LogSteps
  <2> QED BY <1>2, <1>3, <2>2 DEF Keep
<1>5. e.pc \in InBlock
  BY <1>3 DEF InBlock, LogSteps
<1> QED BY <1>1, <1>2, <1>3, <1>4, <1>5, RowsInBlock

LEMMA SaveCursorRows ==
  ASSUME ScanInv, ScanInv', RowsInv, OneBeginning, NEW s \in Scanners, SaveCursor(s)
  PROVE  RowsInv'
<1> DEFINE j == job[s]
<1>1. /\ j.pc = "save" /\ j.pc \in InBlock /\ j.pc \in UnderWay
      /\ UNCHANGED <<chain, since, hidden, origin, rows>>
      /\ cursor' = j.block
  BY DEF SaveCursor, Does, UnderWay, InBlock, LogSteps
<1>2. Keep
  BY <1>1, ScannerKeep
<1>3. PICK k \in Job : k = j /\ Complete(k.block - 1)' /\ Progress(k)'
  <2>1. PICK k \in Job : k = j
    BY JobFacts
  <2> QED BY <1>1, <1>2, <2>1, ReachedStays
<1>4. k.block \in Nat /\ k.todo = {} /\ k.pc = "save"
  BY <1>1, <1>3, BlockFacts, JobFields DEF OnItem
<1>5. Complete(k.block)'
  <2> SUFFICES ASSUME NEW w \in Wallets, NEW i \in Items, Due(w, i)', origin' < MinedAt(i)',
                      MinedAt(i)' <= k.block
               PROVE  Stored(w, i)'
    BY DEF Complete
  <2>1. MinedAt(i)' \in Nat
    BY TypesSplit, HeightsNext DEF ScanInv, TypeOK, DataTypes
  <2>2. CASE MinedAt(i)' <= k.block - 1
    BY <1>3, <2>2 DEF Complete
  <2>3. CASE MinedAt(i)' = k.block
    BY <1>3, <1>4, <2>3 DEF Progress, Items, NativeSteps, LogSteps
  <2> QED BY <1>4, <2>1, <2>2, <2>3
<1>6. PICK e \in Job : Become(s, e) /\ e.pc = "fetch" /\ e.block = j.block + 1
  <2>1. PICK e : Become(s, e)
    BY DEF SaveCursor
  <2>2. job'[s] = e /\ e \in Job
    BY <2>1, JobFacts, NextJob
  <2> QED BY <2>1, <2>2, SaveCursorKeeps
<1>7. k.block = e.block - 1
  BY <1>3, <1>4, <1>6
<1>8. Complete(e.block - 1)'
  BY <1>5, <1>7
<1>9. ASSUME NEW c \in Nat, cursor' = c PROVE Complete(c)'
  BY <1>1, <1>3, <1>5, <1>9
<1>10. e.pc # "first" /\ e.pc \notin InBlock
  BY <1>6 DEF InBlock, NativeSteps, LogSteps
<1> QED BY <1>2, <1>6, <1>8, <1>9, <1>10, RowsOfScanner

LEMMA InterruptRows ==
  ASSUME ScanInv, ScanInv', RowsInv, OneBeginning, NEW s \in Scanners, Interrupt(s)
  PROVE  RowsInv'
<1> DEFINE e == [Resting EXCEPT !.failed = TRUE]
<1>1. Become(s, e) /\ UNCHANGED <<chain, since, hidden, cursor, origin, rows>>
  BY DEF Interrupt, StopAtError, RestFailed
<1>2. Keep
  BY <1>1, ScannerKeep
<1>3. e \in Job /\ e.pc = "idle"
  BY RestFacts
<1> HIDE DEF e
<1> QED BY <1>1, <1>2, <1>3, RowsIfIdle

LEMMA OthersRows ==
  ASSUME ScanInv, ScanInv', RowsInv,
         \/ \E block \in SUBSET Txs : Extend(block)
         \/ \E depth \in 1..MaxReorg : Reorg(depth)
         \/ \E w \in Wallets : Bind(w) \/ Unbind(w)
         \/ \E q \in Queries : Answer(q)
  PROVE  RowsInv' /\ Keep
<1>1. CASE \/ \E block \in SUBSET Txs : Extend(block)
           \/ \E depth \in 1..MaxReorg : Reorg(depth)
  <2>1. DataTypes /\ ChainInv
    BY TypesSplit DEF ScanInv
  <2>2. Moves /\ UNCHANGED <<since, hidden, cursor, origin, rows, job>>
    BY <1>1, <2>1, ChainMoves DEF tables
  <2>3. \A w \in Wallets, i \in Items : Stored(w, i) => Stored(w, i)'
    BY <2>2 DEF Stored, Final
  <2>4. Keep
    BY <2>2, <2>3 DEF Keep, Moves
  <2> QED BY <2>2, <2>4, RowsOfOthers
<1>2. CASE \E w \in Wallets : Bind(w) \/ Unbind(w)
  <2>1. PICK w \in Wallets : Bind(w) \/ Unbind(w)
    BY <1>2
  <2>2. UNCHANGED <<head, minedAt, hidden, cursor, origin, rows, job>>
    BY <2>1, WalletScan DEF chain, tables
  <2>3. \A i \in Items : MinedAt(i)' = MinedAt(i)
    BY <2>2 DEF MinedAt, Tx
  <2>4. \A d \in Wallets, i \in Items : Stored(d, i) => Stored(d, i)'
    BY <2>2 DEF Stored, Final
  <2>5. \A d \in Wallets : since'[d] \in {since[d], None, TakenUp}
    BY <2>1, WalletScan
  <2>6. Keep
    BY <2>2, <2>3, <2>4, <2>5 DEF Keep
  <2> QED BY <2>2, <2>6, RowsOfOthers
<1>3. CASE \E q \in Queries : Answer(q)
  <2>1. PICK q \in Queries : Answer(q)
    BY <1>3
  <2>2. UNCHANGED <<chain, since, hidden, cursor, origin, job>> /\ DataTypes /\ Named(query[q])
    BY <2>1, AnswerScan, TypesSplit DEF ScanInv
  <2>3. \A i \in Items : MinedAt(i)' = MinedAt(i)
    BY <2>2, SameDue
  <2>4. ASSUME NEW d \in Wallets, NEW i \in Items, rows[d][i] # None PROVE rows'[d][i] # None
    <3>1. CASE UNCHANGED rows
      BY <2>4, <3>1
    <3>2. CASE Store(q)
      <4>1. query[q].found \in Snapshot
        BY <2>2, QueryFields DEF DataTypes
      <4>2. Upsert(query[q].wallet, query[q].tx, query[q].found)
        BY <3>2 DEF Store
      <4>3. rows'[d][i] \in {rows[d][i], query[q].found}
        BY <2>2, <4>1, <4>2, UpsertFacts
      <4> QED BY <2>4, <4>1, <4>3, NoneAssumption
    <3> QED BY <2>1, <2>2, <3>1, <3>2, AnswerFacts
  <2>5. \A d \in Wallets, i \in Items : Stored(d, i) => Stored(d, i)'
    BY <2>1, <2>4 DEF Stored
  <2>6. Keep
    BY <2>2, <2>3, <2>5 DEF Keep
  <2> QED BY <2>2, <2>6, RowsOfOthers
<1> QED BY <1>1, <1>2, <1>3

LEMMA RowsInit == Init => RowsInv
<1> SUFFICES ASSUME Init PROVE RowsInv
  OBVIOUS
<1>1. cursor = None /\ \A s \in Scanners : job[s].pc = "idle"
  BY RestFacts DEF Init
<1>2. "idle" \notin UnderWay /\ "idle" \notin InBlock
  BY DEF UnderWay, InBlock, NativeSteps, LogSteps
<1> QED BY <1>1, <1>2 DEF RowsInv

LEMMA RowsStep == OneBeginning /\ ScanInv /\ RowsInv /\ [Next]_vars => RowsInv'
<1> SUFFICES ASSUME OneBeginning, ScanInv, RowsInv, [Next]_vars PROVE RowsInv'
  OBVIOUS
<1> ScanInv'
  BY ScanStep
<1>1. CASE \/ \E block \in SUBSET Txs : Extend(block)
           \/ \E depth \in 1..MaxReorg : Reorg(depth)
           \/ \E w \in Wallets : Bind(w) \/ Unbind(w)
           \/ \E q \in Queries : Answer(q)
  BY <1>1, OthersRows
<1>2. CASE \E s \in Scanners : Scan(s)
  <2>1. PICK s \in Scanners : Scan(s)
    BY <1>2
  <2> QED BY <2>1, ReadCursorRows, SaveFirstCursorRows, FetchBlockRows, FindPartiesRows,
             WriteRowRows, ListLogsRows, CreateEventRows, MarkEventRows, SaveCursorRows
          DEF Scan
<1>3. CASE \E s \in Scanners, latest \in Height : StartScan(s, latest)
  BY <1>3, StartScanRows
<1>4. CASE Failure
  BY <1>4, InterruptRows, FailLogRows DEF Failure
<1>5. CASE UNCHANGED vars
  <2>1. UNCHANGED <<head, minedAt, since, hidden, cursor, origin, rows, job>>
    BY <1>5 DEF vars, chain, tables
  <2> QED BY <2>1 DEF RowsInv, Complete, Progress, Due, Stored, Final, MinedAt, Tx
<1> QED BY <1>1, <1>2, <1>3, <1>4, <1>5 DEF Next

\* The index loses nothing it was shown: of every block between the beginning of the
\* index and the cursor, and of every wallet bound since before the block was taken
\* up, each native transfer is stored, and each log that no node has hidden from a
\* scan of its block, however often scans fail, restart and overlap and whatever the
\* chain replaces (ScanChainOnce).  With start_block at 0 it takes that only one
\* instance begins the chain.
THEOREM MissesNothing ==
  ASSUME OneBeginning
  PROVE  Spec => []NothingMissed
<1>1. Init => ScanInv /\ RowsInv
  BY ScanInit, RowsInit
<1>2. ScanInv /\ RowsInv /\ [Next]_vars => (ScanInv /\ RowsInv)'
  BY ScanStep, RowsStep
<1>3. RowsInv => NothingMissed
  BY DEF RowsInv, NothingMissed, Owed, Kept, Complete, Due, Stored
<1>4. Spec => [](ScanInv /\ RowsInv)
  BY <1>1, <1>2, PTL DEF Spec
<1> QED BY <1>3, <1>4, PTL

-----------------------------------------------------------------------------
(* Layer 3: the receipts *)

\* A step after which the processed receipts are still processed.
StillProcessed == \A l \in Logs : receipts[l] = "processed" => receipts'[l] = "processed"

LEMMA SettledStays ==
  ASSUME ScanInv, ScanInv', Keep, StillProcessed, NEW b \in Nat, b + Delay <= head,
         b <= TakenUp, origin # None, Settled(b)
  PROVE  Settled(b)'
<1> SUFFICES ASSUME NEW w \in Wallets, NEW l \in Logs, Due(w, l)', origin' < MinedAt(l)', MinedAt(l)' <= b
             PROVE  receipts'[l] = "processed"
  BY DEF Settled
<1>1. PICK i \in Items : i = l
  BY DEF Items
<1>2. MinedAt(i)' \in Nat /\ head \in Nat /\ Delay \in Nat /\ TakenUp \in Nat /\ origin \in Nat
      /\ origin' = origin
  <2>1. DataTypes /\ DataTypes'
    BY TypesSplit DEF ScanInv, TypeOK, DataTypes
  <2> QED BY <2>1, HeightsNext, HeightFacts, DelayFacts, TakenUpFacts DEF DataTypes, Keep
<1>3. MinedAt(i)' >= 1 /\ MinedAt(i)' + Delay <= head /\ MinedAt(i)' <= TakenUp /\ Due(w, i)'
  BY <1>1, <1>2
<1>4. Due(w, i) /\ MinedAt(i) = MinedAt(i)'
  BY <1>3, DueBefore
<1>5. receipts[l] = "processed"
  BY <1>1, <1>2, <1>4 DEF Settled
<1> QED BY <1>5 DEF StillProcessed

LEMMA LogsLeftStays ==
  ASSUME ScanInv, ScanInv', Keep, StillProcessed, NEW j \in Job, 1 <= j.block,
         j.block + Delay <= head, j.block <= TakenUp, LogsLeft(j)
  PROVE  LogsLeft(j)'
<1> SUFFICES ASSUME NEW w \in Wallets, NEW l \in Logs, Due(w, l)', MinedAt(l)' = j.block
             PROVE  \/ receipts'[l] = "processed"
                    \/ l \in j.todo
                    \/ j.pc \in {"logRow", "mark"} /\ l = j.item
  BY DEF LogsLeft
<1>1. PICK i \in Items : i = l
  BY DEF Items
<1>2. Due(w, i) /\ MinedAt(i) = j.block
  BY <1>1, DueBefore
<1> QED BY <1>1, <1>2 DEF LogsLeft, StillProcessed

LEMMA ReceiptsStay ==
  ASSUME ScanInv, ScanInv', ReceiptInv, Keep, StillProcessed
  PROVE  /\ \A c \in Nat : c = cursor => Settled(c)'
         /\ \A s \in Scanners : \A k \in Job : k = job[s] =>
              /\ k.pc \in UnderWay => Settled(k.block - 1)'
              /\ k.pc \in LogSteps => LogsLeft(k)'
<1>1. ASSUME NEW c \in Nat, c = cursor PROVE Settled(c)'
  <2>1. Settled(c) /\ c + Delay <= head /\ c <= TakenUp /\ origin # None
    BY <1>1, TakenUpFacts, IndexAssumption DEF ReceiptInv, ScanInv, ChainInv
  <2> QED BY <2>1, SettledStays
<1>2. ASSUME NEW s \in Scanners, NEW k \in Job, k = job[s], k.pc \in UnderWay
      PROVE  Settled(k.block - 1)'
  <2>1. Settled(k.block - 1)
    BY <1>2 DEF ReceiptInv
  <2>2. k.block - 1 \in Nat /\ k.block - 1 + Delay <= head /\ k.block - 1 <= TakenUp /\ origin # None
    BY <1>2, UnderWayFacts
  <2>3. PICK b \in Nat : b = k.block - 1
    BY <2>2
  <2>4. Settled(b)'
    BY <2>1, <2>2, <2>3, SettledStays
  <2> QED BY <2>3, <2>4
<1>3. ASSUME NEW s \in Scanners, NEW k \in Job, k = job[s], k.pc \in LogSteps
      PROVE  LogsLeft(k)'
  <2>1. LogsLeft(k) /\ 1 <= k.block /\ k.block + Delay <= head
    BY <1>3, BlockFacts DEF ReceiptInv, InBlock
  <2>2. k.block <= TakenUp
    BY <1>3, TakenUpFacts
  <2> QED BY <2>1, <2>2, LogsLeftStays
<1> QED BY <1>1, <1>2, <1>3

\* The one scanner goes to e.
LEMMA ReceiptsOfScanner ==
  ASSUME ScanInv, ScanInv', OneScanner, NEW s \in Scanners, NEW e \in Job, Become(s, e),
         \A c \in Nat : cursor' = c => Settled(c)',
         e.pc \in UnderWay => Settled(e.block - 1)' /\ (cursor' # None => e.block = cursor' + 1),
         e.pc \in LogSteps => LogsLeft(e)'
  PROVE  ReceiptInv'
<1>1. cursor' # None => Settled(cursor)'
  <2>1. cursor' # None => cursor' \in Nat
    BY TypesSplit, DelayFacts DEF ScanInv, TypeOK, Height
  <2> QED BY <2>1 DEF Settled
<1>2. \A d \in Scanners : d = s
  BY DEF OneScanner
<1>3. job'[s] = e
  BY JobFacts
<1>4. /\ job'[s].pc \in UnderWay => Settled(job[s].block - 1)'
      /\ job'[s].pc \in UnderWay /\ cursor' # None => job'[s].block = cursor' + 1
      /\ job'[s].pc \in LogSteps => LogsLeft(job[s])'
  BY <1>3 DEF Settled, LogsLeft
<1>5. ASSUME NEW d \in Scanners
      PROVE  /\ job'[d].pc \in UnderWay => Settled(job[d].block - 1)'
             /\ job'[d].pc \in UnderWay /\ cursor' # None => job'[d].block = cursor' + 1
             /\ job'[d].pc \in LogSteps => LogsLeft(job[d])'
  <2>1. d = s
    BY <1>2
  <2> QED BY <1>4, <2>1
<1> QED BY <1>1, <1>5 DEF ReceiptInv

\* A step on the block at hand that does not take up another.
LEMMA ReceiptsInBlock ==
  ASSUME ScanInv, ScanInv', ReceiptInv, OneScanner, Keep, StillProcessed, NEW s \in Scanners,
         NEW e \in Job, Become(s, e), UNCHANGED cursor, job[s].pc \in UnderWay,
         e.block = job[s].block, e.pc \in LogSteps => LogsLeft(e)'
  PROVE  ReceiptInv'
<1>1. PICK k \in Job : k = job[s]
  BY JobFacts
<1>2. Settled(k.block - 1)' /\ (cursor # None => k.block = cursor + 1)
  BY <1>1, ReceiptsStay DEF ReceiptInv
<1>3. k.block = e.block
  BY <1>1
<1>4. Settled(e.block - 1)' /\ (cursor' # None => e.block = cursor' + 1)
  BY <1>2, <1>3
<1>5. \A c \in Nat : cursor' = c => Settled(c)'
  BY ReceiptsStay
<1> QED BY <1>4, <1>5, ReceiptsOfScanner

LEMMA ReceiptsIfIdle ==
  ASSUME ScanInv, ScanInv', ReceiptInv, OneScanner, Keep, StillProcessed, NEW s \in Scanners,
         NEW e \in Job, Become(s, e), UNCHANGED cursor, e.pc \in {"idle", "cursor", "first"}
  PROVE  ReceiptInv'
<1>1. e.pc \notin UnderWay /\ e.pc \notin LogSteps
  BY DEF UnderWay, InBlock, NativeSteps, LogSteps
<1>2. \A c \in Nat : cursor' = c => Settled(c)'
  BY ReceiptsStay
<1> QED BY <1>1, <1>2, ReceiptsOfScanner

LEMMA ReceiptsOfOthers ==
  ASSUME ScanInv, ScanInv', ReceiptInv, Keep, UNCHANGED <<job, cursor, receipts>>
  PROVE  ReceiptInv'
<1>1. StillProcessed
  BY DEF StillProcessed
<1>2. cursor' # None => Settled(cursor)'
  <2>1. cursor' # None => cursor' \in Nat
    BY TypesSplit, DelayFacts DEF ScanInv, TypeOK, Height
  <2>2. \A c \in Nat : cursor' = c => Settled(c)'
    BY <1>1, ReceiptsStay
  <2> QED BY <2>1, <2>2 DEF Settled
<1>3. ASSUME NEW d \in Scanners
      PROVE  /\ job'[d].pc \in UnderWay => Settled(job[d].block - 1)'
             /\ job'[d].pc \in UnderWay /\ cursor' # None => job'[d].block = cursor' + 1
             /\ job'[d].pc \in LogSteps => LogsLeft(job[d])'
  <2>1. PICK k \in Job : k = job[d] /\ k = job'[d]
    BY JobFacts
  <2>2. (k.pc \in UnderWay => Settled(k.block - 1)') /\ (k.pc \in LogSteps => LogsLeft(k)')
    BY <1>1, <2>1, ReceiptsStay
  <2>3. k.pc \in UnderWay /\ cursor # None => k.block = cursor + 1
    BY <2>1 DEF ReceiptInv
  <2> QED BY <2>1, <2>2, <2>3 DEF Settled, LogsLeft
<1> QED BY <1>2, <1>3 DEF ReceiptInv

LEMMA ReadCursorReceipts ==
  ASSUME ScanInv, ScanInv', ReceiptInv, OneScanner, NEW s \in Scanners, ReadCursor(s)
  PROVE  ReceiptInv'
<1> DEFINE j == job[s]
           first == IF cursor = None THEN StartBlock ELSE After(cursor)
<1>1. j \in Job /\ Deep(j) /\ j.pc = "cursor" /\ ReadsOnly /\ ChainInv
  BY JobFacts DEF ReadCursor, Does
<1>2. Keep /\ UNCHANGED <<cursor, receipts>> /\ StillProcessed
  BY <1>1, ReadKeep DEF StillProcessed
<1>3. CASE cursor = None /\ StartBlock = 0
  <2> DEFINE e == [j EXCEPT !.pc = "first"]
  <2>1. Become(s, e) /\ e.pc = "first"
    BY <1>1, <1>3 DEF ReadCursor, Job
  <2> HIDE DEF e
  <2> QED BY <1>2, <2>1, NextJob, ReceiptsIfIdle
<1>4. CASE ~(cursor = None /\ StartBlock = 0) /\ first > SafeHead(j.latest)
  <2>1. Become(s, Resting)
    BY <1>4 DEF ReadCursor, Rest
  <2> QED BY <1>2, <2>1, RestFacts, ReceiptsIfIdle
<1>5. CASE ~(cursor = None /\ StartBlock = 0) /\ ~(first > SafeHead(j.latest))
  <2>1. PICK e \in Job : Become(s, e) /\ e.pc = "fetch" /\ e.block = first
    <3> DEFINE k == [j EXCEPT !.pc = "fetch", !.block = first]
    <3>1. Become(s, k) /\ k.pc = "fetch" /\ k.block = first
      BY <1>1, <1>5 DEF ReadCursor, Job
    <3> HIDE DEF k
    <3> QED BY <3>1, NextJob
  <2>2. cursor' # None => e.block = cursor' + 1
    BY <1>2, <2>1 DEF After
  <2>3. \A c \in Nat : cursor' = c => Settled(c)'
    BY <1>2, ReceiptsStay
  <2>4. Settled(e.block - 1)'
    <3>1. CASE cursor # None
      <4>1. PICK c \in Nat : c = cursor
        BY <3>1, JobFacts, HeightFacts
      <4>2. c = e.block - 1
        BY <1>2, <2>2, <3>1, <4>1
      <4> QED BY <1>2, <2>3, <4>1, <4>2
    <3>2. CASE cursor = None
      <4>1. e.block - 1 = origin /\ UNCHANGED origin
        BY <1>1, <1>5, <2>1, <3>2, ReadKeep, DelayFacts DEF ChainInv
      <4>2. \A i \in Items : MinedAt(i)' \in Nat
        BY TypesSplit, HeightsNext DEF ScanInv, TypeOK, DataTypes
      <4>3. origin' \in Nat
        BY <1>1, <1>5, <2>1, <3>2, <4>1, DelayFacts DEF ChainInv
      <4> QED BY <4>1, <4>2, <4>3 DEF Settled, Items
    <3> QED BY <3>1, <3>2
  <2>5. e.pc \notin LogSteps
    BY <2>1 DEF LogSteps
  <2> QED BY <2>1, <2>2, <2>3, <2>4, <2>5, ReceiptsOfScanner
<1> QED BY <1>3, <1>4, <1>5

LEMMA SaveFirstCursorReceipts ==
  ASSUME ScanInv, ScanInv', RowsInv, OneScanner, NEW s \in Scanners, SaveFirstCursor(s)
  PROVE  ReceiptInv'
<1>1. /\ Deep(job[s]) /\ ChainInv /\ job[s].pc = "first" /\ Become(s, Resting)
      /\ origin' = (IF origin = None THEN cursor' ELSE origin)
  BY JobFacts DEF SaveFirstCursor, Rest, Does
<1>2. origin' = cursor'
  BY <1>1 DEF RowsInv, Deep, ChainInv
<1>3. ASSUME NEW c \in Nat, cursor' = c PROVE Settled(c)'
  <2>1. \A i \in Items : MinedAt(i)' \in Nat
    BY TypesSplit, HeightsNext DEF ScanInv, TypeOK, DataTypes
  <2> QED BY <1>2, <1>3, <2>1 DEF Settled, Items
<1>4. Resting.pc \notin UnderWay /\ Resting.pc \notin LogSteps
  BY RestFacts DEF UnderWay, InBlock, NativeSteps, LogSteps
<1> QED BY <1>1, <1>3, <1>4, RestFacts, ReceiptsOfScanner

\* The steps that have nothing to do with logs.
LEMMA NativeReceipts ==
  ASSUME ScanInv, ScanInv', ReceiptInv, OneScanner, NEW s \in Scanners,
         \/ \E latest \in Height : StartScan(s, latest)
         \/ FetchBlock(s) \/ Interrupt(s)
         \/ \E t \in Txs : FindParties(s, t)
         \/ \E w \in Wallets : UpsertNative(s, w)
  PROVE  ReceiptInv'
<1> DEFINE j == job[s]
<1>1. j \in Job
  BY JobFacts
<1>2. CASE \E latest \in Height : StartScan(s, latest)
  <2>1. PICK latest \in Height : StartScan(s, latest)
    BY <1>2
  <2> DEFINE e == [Resting EXCEPT !.pc = "cursor", !.latest = latest]
  <2>2. Become(s, e) /\ ReadsOnly /\ e.pc = "cursor"
    BY <2>1 DEF StartScan, Resting
  <2> HIDE DEF e
  <2> QED BY <2>2, NextJob, ReadKeep, ReceiptsIfIdle DEF StillProcessed
<1>3. CASE FetchBlock(s)
  <2>1. Keep /\ UNCHANGED <<cursor, receipts>> /\ j.pc = "fetch"
    BY <1>3, ReadKeep DEF FetchBlock, Does
  <2>2. CASE Become(s, Resting)
    BY <2>1, <2>2, RestFacts, ReceiptsIfIdle DEF StillProcessed
  <2> DEFINE e == [j EXCEPT !.pc = "native", !.todo = {t \in Txs : minedAt[t] = j.block}]
  <2>3. CASE Become(s, e)
    <3>1. e.pc = "native" /\ e.block = j.block
      BY <1>1 DEF Job
    <3> HIDE DEF e
    <3> QED BY <2>1, <2>3, <3>1, NextJob, ReceiptsInBlock DEF StillProcessed, UnderWay, LogSteps
  <2> QED BY <1>3, <2>2, <2>3 DEF FetchBlock, Rest
<1>4. CASE Interrupt(s)
  <2> DEFINE e == [Resting EXCEPT !.failed = TRUE]
  <2>1. Become(s, e) /\ UNCHANGED <<chain, since, hidden, cursor, origin, rows, receipts>>
    BY <1>4 DEF Interrupt, StopAtError, RestFailed
  <2>2. Keep
    BY <2>1, ScannerKeep
  <2>3. e \in Job /\ e.pc = "idle"
    BY RestFacts
  <2> HIDE DEF e
  <2> QED BY <2>1, <2>2, <2>3, ReceiptsIfIdle DEF StillProcessed
<1>5. CASE \E t \in Txs : FindParties(s, t)
  <2>1. PICK t \in Txs : FindParties(s, t)
    BY <1>5
  <2>2. Keep /\ UNCHANGED <<cursor, receipts>> /\ j.pc = "native" /\ j.pc \in UnderWay
    BY <2>1, ReadKeep DEF FindParties, Does, UnderWay, InBlock, NativeSteps
  <2> DEFINE rest == [j EXCEPT !.todo = @ \ {t}]
             found == Parties[t] \cap Active
             more == [rest EXCEPT !.pc = "nativeRow", !.item = t, !.targets = found]
  <2>3. rest.pc = "native" /\ rest.block = j.block
    BY <1>1, <2>2 DEF Job
  <2>4. more.pc = "nativeRow" /\ more.block = j.block
    <3> HIDE DEF found
    <3> QED BY <1>1 DEF Job
  <2>5. Become(s, rest) \/ Become(s, more)
    BY <2>1 DEF FindParties
  <2> HIDE DEF rest, more
  <2> QED BY <2>2, <2>3, <2>4, <2>5, NextJob, ReceiptsInBlock DEF StillProcessed, LogSteps
<1>6. CASE \E w \in Wallets : UpsertNative(s, w)
  <2>1. PICK w \in Wallets : j.pc = "nativeRow" /\ WriteRow(s, w, "native")
    BY <1>6 DEF UpsertNative, Does
  <2>2. PICK e \in Job : Become(s, e) /\ e.pc \in {"native", "nativeRow"} /\ e.block = j.block
    BY <2>1, WriteRowGoes
  <2>3. j.pc \in InBlock /\ j.pc \in UnderWay
    BY <2>1 DEF UnderWay, InBlock, NativeSteps
  <2>4. PICK i \in Items, b \in Height : i = j.item /\ b = j.block
    BY <2>1, <2>3, BlockFacts DEF OnItem, Items
  <2>5. /\ Upsert(w, i, [status |-> Outcome(i), block |-> b])
        /\ UNCHANGED <<chain, since, hidden, cursor, origin, receipts>>
    BY <2>1, <2>4 DEF WriteRow
  <2>6. Keep
    BY <2>5, RowWritten
  <2> QED BY <2>2, <2>3, <2>5, <2>6, ReceiptsInBlock DEF StillProcessed, LogSteps
<1> QED BY <1>2, <1>3, <1>4, <1>5, <1>6

LEMMA UpsertLogReceipts ==
  ASSUME ScanInv, ScanInv', ReceiptInv, OneScanner, NEW s \in Scanners, NEW w \in Wallets,
         UpsertLog(s, w)
  PROVE  ReceiptInv'
<1> DEFINE j == job[s]
<1>1. /\ j.pc = "logRow" /\ WriteRow(s, w, "mark") /\ j.pc \in InBlock /\ j.pc \in UnderWay
      /\ LogsLeft(j)
  BY DEF UpsertLog, Does, UnderWay, InBlock, LogSteps, ReceiptInv
<1>2. PICK e \in Job : /\ Become(s, e) /\ e.pc \in {"mark", "logRow"} /\ e.block = j.block
                       /\ e.todo = j.todo /\ e.item = j.item
  BY <1>1, WriteRowGoes
<1>3. PICK i \in Items, b \in Height : i = j.item /\ b = j.block
  BY <1>1, BlockFacts DEF OnItem, Items
<1>4. /\ Upsert(w, i, [status |-> Outcome(i), block |-> b])
      /\ UNCHANGED <<chain, since, hidden, cursor, origin, receipts>>
  BY <1>1, <1>3 DEF WriteRow
<1>5. Keep
  BY <1>4, RowWritten
<1>6. LogsLeft(e)'
  <2> SUFFICES ASSUME NEW d \in Wallets, NEW l \in Logs, Due(d, l)', MinedAt(l)' = e.block
               PROVE  receipts'[l] = "processed" \/ l \in e.todo \/ l = e.item
    BY <1>2 DEF LogsLeft
  <2>1. Due(d, l) /\ MinedAt(l) = j.block
    BY <1>2, <1>4, SameDue DEF Items
  <2> QED BY <1>1, <1>2, <1>4, <2>1 DEF LogsLeft
<1> QED BY <1>1, <1>2, <1>4, <1>5, <1>6, ReceiptsInBlock DEF StillProcessed

LEMMA ListLogsReceipts ==
  ASSUME ScanInv, ScanInv', ReceiptInv, OneScanner, NEW s \in Scanners, ListLogs(s)
  PROVE  ReceiptInv'
<1> DEFINE j == job[s]
<1>1. j.pc \in UnderWay
  BY DEF ListLogs, Does, UnderWay, InBlock, NativeSteps
<1>2. PICK e \in Job :
        /\ Become(s, e) /\ e.block = j.block
        /\ \A w \in Wallets, l \in Logs :
             Due(w, l)' /\ MinedAt(l) = j.block => w \in e.known /\ l \in e.todo
  BY ListLogsGoes
<1>3. Keep /\ UNCHANGED <<chain, since, cursor, receipts>>
  BY ListLogsGoes
<1>4. LogsLeft(e)'
  <2> SUFFICES ASSUME NEW w \in Wallets, NEW l \in Logs, Due(w, l)', MinedAt(l)' = e.block
               PROVE  l \in e.todo
    BY DEF LogsLeft
  <2>1. MinedAt(l) = j.block
    BY <1>2, <1>3 DEF MinedAt, Tx, chain
  <2> QED BY <1>2, <2>1
<1> QED BY <1>1, <1>2, <1>3, <1>4, ReceiptsInBlock DEF StillProcessed

LEMMA CreateEventReceipts ==
  ASSUME ScanInv, ScanInv', ReceiptInv, OneScanner, NEW s \in Scanners, NEW l \in Logs,
         CreateEvent(s, l)
  PROVE  ReceiptInv'
<1> DEFINE j == job[s]
<1>1. /\ j.pc = "log" /\ j.pc \in UnderWay /\ LogsLeft(j)
      /\ UNCHANGED <<chain, since, hidden, cursor, origin, rows>>
      /\ receipts' = [receipts EXCEPT ![l] = IF @ = None THEN "pending" ELSE @]
  BY DEF CreateEvent, Does, UnderWay, InBlock, LogSteps, ReceiptInv
<1>2. Keep
  BY <1>1, ScannerKeep
<1>3. receipts \in [Logs -> Receipt \cup {None}]
  BY DEF ScanInv, TypeOK
<1>4. StillProcessed
  BY <1>1, <1>3, NoneAssumption DEF StillProcessed, Receipt
<1>5. PICK e \in Job : /\ Become(s, e) /\ e.pc = "logRow" /\ e.block = j.block
                       /\ e.todo = j.todo \ {l} /\ e.item = l
  BY CreateEventGoes
<1>6. LogsLeft(e)'
  <2> SUFFICES ASSUME NEW w \in Wallets, NEW k \in Logs, Due(w, k)', MinedAt(k)' = e.block
               PROVE  receipts'[k] = "processed" \/ k \in e.todo \/ k = e.item
    BY <1>5 DEF LogsLeft
  <2>1. Due(w, k) /\ MinedAt(k) = j.block
    BY <1>1, <1>5, SameDue DEF Items
  <2>2. receipts[k] = "processed" \/ k \in j.todo
    BY <1>1, <2>1 DEF LogsLeft
  <2> QED BY <1>4, <1>5, <2>2 DEF StillProcessed
<1> QED BY <1>1, <1>2, <1>4, <1>5, <1>6, ReceiptsInBlock

LEMMA MarkEventReceipts ==
  ASSUME ScanInv, ScanInv', ReceiptInv, OneScanner, NEW s \in Scanners, MarkEvent(s)
  PROVE  ReceiptInv'
<1> DEFINE j == job[s]
<1>1. /\ j.pc = "mark" /\ j.pc \in InBlock /\ j.pc \in UnderWay /\ LogsLeft(j)
      /\ UNCHANGED <<chain, since, hidden, cursor, origin, rows>>
      /\ receipts' = [receipts EXCEPT ![j.item] = MarkProcessed(@)]
  BY DEF MarkEvent, Does, UnderWay, InBlock, LogSteps, ReceiptInv
<1>2. Keep
  BY <1>1, ScannerKeep
<1>3. receipts \in [Logs -> Receipt \cup {None}] /\ j.item \in Logs
  BY <1>1, BlockFacts DEF ScanInv, TypeOK, OnItem
<1>4. StillProcessed /\ receipts'[j.item] = "processed"
  BY <1>1, <1>3 DEF StillProcessed, MarkProcessed
<1>5. PICK e \in Job : Become(s, e) /\ e.block = j.block /\ e.todo = j.todo
  BY MarkEventGoes
<1>6. LogsLeft(e)'
  <2> SUFFICES ASSUME NEW w \in Wallets, NEW l \in Logs, Due(w, l)', MinedAt(l)' = e.block
               PROVE  receipts'[l] = "processed" \/ l \in e.todo
    BY DEF LogsLeft
  <2>1. Due(w, l) /\ MinedAt(l) = j.block
    BY <1>1, <1>5, SameDue DEF Items
  <2>2. receipts[l] = "processed" \/ l \in j.todo \/ l = j.item
    BY <1>1, <2>1 DEF LogsLeft
  <2> QED BY <1>4, <1>5, <2>2 DEF StillProcessed
<1> QED BY <1>1, <1>2, <1>4, <1>5, <1>6, ReceiptsInBlock

\* The receipt that fails is of the block after the cursor.
LEMMA FailLogReceipts ==
  ASSUME ScanInv, ScanInv', ReceiptInv, OneScanner, NEW s \in Scanners, NEW w \in Wallets,
         FailLog(s, w)
  PROVE  ReceiptInv'
<1> DEFINE j == job[s]
           e == [Resting EXCEPT !.failed = TRUE]
<1>1. /\ j.pc = "logRow" /\ j.pc \in InBlock /\ j.pc \in UnderWay /\ Become(s, e)
      /\ UNCHANGED <<chain, since, hidden, cursor, origin>>
      /\ receipts' = [receipts EXCEPT ![j.item] = "failed"]
  BY DEF FailLog, Does, RestFailed, UnderWay, InBlock, LogSteps
<1>2. /\ receipts \in [Logs -> Receipt \cup {None}] /\ j.item \in Logs
      /\ MinedAt(j.item) = j.block /\ j.block \in Nat
  BY <1>1, BlockFacts, JobFacts DEF ScanInv, TypeOK, OnItem
<1>3. ASSUME NEW c \in Nat, cursor' = c PROVE Settled(c)'
  <2>1. cursor = c /\ c # None
    BY <1>1, <1>3, IndexAssumption
  <2>2. Settled(c) /\ MinedAt(j.item) = c + 1
    BY <1>1, <1>2, <2>1 DEF ReceiptInv
  <2> SUFFICES ASSUME NEW d \in Wallets, NEW l \in Logs, Due(d, l)', origin' < MinedAt(l)',
                      MinedAt(l)' <= c
               PROVE  receipts'[l] = "processed"
    BY DEF Settled
  <2>3. Due(d, l) /\ MinedAt(l)' = MinedAt(l)
    BY <1>1, SameDue DEF Items
  <2>4. receipts[l] = "processed" /\ l # j.item
    BY <1>1, <2>2, <2>3 DEF Settled
  <2> QED BY <1>1, <1>2, <2>4
<1>4. e \in Job /\ e.pc = "idle"
  BY RestFacts
<1> HIDE DEF e
<1>5. e.pc \notin UnderWay /\ e.pc \notin LogSteps
  BY <1>4 DEF UnderWay, InBlock, NativeSteps, LogSteps
<1> QED BY <1>1, <1>3, <1>4, <1>5, ReceiptsOfScanner

LEMMA SaveCursorReceipts ==
  ASSUME ScanInv, ScanInv', ReceiptInv, OneScanner, NEW s \in Scanners, SaveCursor(s)
  PROVE  ReceiptInv'
<1> DEFINE j == job[s]
<1>1. /\ j.pc = "save" /\ j.pc \in InBlock /\ j.pc \in UnderWay
      /\ UNCHANGED <<chain, since, hidden, origin, rows, receipts>>
      /\ cursor' = j.block
  BY DEF SaveCursor, Does, UnderWay, InBlock, LogSteps
<1>2. Keep /\ StillProcessed
  BY <1>1, ScannerKeep DEF StillProcessed
<1>3. PICK k \in Job : k = j /\ Settled(k.block - 1)' /\ LogsLeft(k)'
  <2>1. PICK k \in Job : k = j
    BY JobFacts
  <2>2. k.pc \in LogSteps /\ k.pc \in UnderWay
    BY <1>1, <2>1 DEF LogSteps
  <2> QED BY <1>2, <2>1, <2>2, ReceiptsStay
<1>4. k.block \in Nat /\ k.todo = {} /\ k.pc = "save"
  BY <1>1, <1>3, BlockFacts, JobFields DEF OnItem
<1>5. Settled(k.block)'
  <2> SUFFICES ASSUME NEW w \in Wallets, NEW l \in Logs, Due(w, l)', origin' < MinedAt(l)',
                      MinedAt(l)' <= k.block
               PROVE  receipts'[l] = "processed"
    BY DEF Settled
  <2>1. MinedAt(l)' \in Nat
    BY TypesSplit, HeightsNext DEF ScanInv, TypeOK, DataTypes, Items
  <2>2. CASE MinedAt(l)' <= k.block - 1
    BY <1>3, <2>2 DEF Settled
  <2>3. CASE MinedAt(l)' = k.block
    BY <1>3, <1>4, <2>3 DEF LogsLeft
  <2> QED BY <1>4, <2>1, <2>2, <2>3
<1>6. PICK e \in Job : Become(s, e) /\ e.pc = "fetch" /\ e.block = j.block + 1
  <2>1. PICK e : Become(s, e)
    BY DEF SaveCursor
  <2>2. job'[s] = e /\ e \in Job
    BY <2>1, JobFacts, NextJob
  <2> QED BY <2>1, <2>2, SaveCursorKeeps
<1>7. k.block = e.block - 1 /\ e.block = cursor' + 1
  BY <1>1, <1>3, <1>4, <1>6
<1>8. Settled(e.block - 1)'
  BY <1>5, <1>7
<1>9. ASSUME NEW c \in Nat, cursor' = c PROVE Settled(c)'
  BY <1>1, <1>3, <1>5, <1>9
<1>10. e.pc \notin LogSteps
  BY <1>6 DEF LogSteps
<1> QED BY <1>6, <1>7, <1>8, <1>9, <1>10, ReceiptsOfScanner

LEMMA OthersReceipts ==
  ASSUME ScanInv, ScanInv', RowsInv, ReceiptInv,
         \/ \E block \in SUBSET Txs : Extend(block)
         \/ \E depth \in 1..MaxReorg : Reorg(depth)
         \/ \E w \in Wallets : Bind(w) \/ Unbind(w)
         \/ \E q \in Queries : Answer(q)
  PROVE  ReceiptInv'
<1>1. Keep
  BY OthersRows
<1>2. UNCHANGED <<job, cursor, receipts>>
  <2>1. DataTypes /\ ChainInv
    BY TypesSplit DEF ScanInv
  <2> QED BY <2>1, ChainMoves, WalletScan, AnswerScan DEF tables
<1> QED BY <1>1, <1>2, ReceiptsOfOthers

LEMMA ReceiptInit == Init => ReceiptInv
<1> SUFFICES ASSUME Init PROVE ReceiptInv
  OBVIOUS
<1>1. cursor = None /\ \A s \in Scanners : job[s].pc = "idle"
  BY RestFacts DEF Init
<1>2. "idle" \notin UnderWay /\ "idle" \notin LogSteps
  BY DEF UnderWay, InBlock, NativeSteps, LogSteps
<1> QED BY <1>1, <1>2 DEF ReceiptInv

LEMMA ReceiptStep == OneScanner /\ ScanInv /\ RowsInv /\ ReceiptInv /\ [Next]_vars => ReceiptInv'
<1> SUFFICES ASSUME OneScanner, ScanInv, RowsInv, ReceiptInv, [Next]_vars PROVE ReceiptInv'
  OBVIOUS
<1> ScanInv'
  BY ScanStep
<1>1. CASE \/ \E block \in SUBSET Txs : Extend(block)
           \/ \E depth \in 1..MaxReorg : Reorg(depth)
           \/ \E w \in Wallets : Bind(w) \/ Unbind(w)
           \/ \E q \in Queries : Answer(q)
  BY <1>1, OthersReceipts
<1>2. CASE \E s \in Scanners : Scan(s)
  <2>1. PICK s \in Scanners : Scan(s)
    BY <1>2
  <2> QED BY <2>1, ReadCursorReceipts, SaveFirstCursorReceipts, NativeReceipts, UpsertLogReceipts,
             ListLogsReceipts, CreateEventReceipts, MarkEventReceipts, SaveCursorReceipts
          DEF Scan
<1>3. CASE \E s \in Scanners, latest \in Height : StartScan(s, latest)
  BY <1>3, NativeReceipts
<1>4. CASE Failure
  BY <1>4, NativeReceipts, FailLogReceipts DEF Failure
<1>5. CASE UNCHANGED vars
  <2>1. UNCHANGED <<head, minedAt, since, hidden, cursor, origin, receipts, job>>
    BY <1>5 DEF vars, chain, tables
  <2> QED BY <2>1 DEF ReceiptInv, Settled, LogsLeft, Due, MinedAt, Tx
<1> QED BY <1>1, <1>2, <1>3, <1>4, <1>5 DEF Next

\* With one instance, no receipt of a log that no node has hidden from a scan of its
\* block is pending, failed or missing behind the cursor: an event whose row could
\* not be stored is processed before the cursor passes its block (persistTransferLog,
\* MarkEventFailed).  A second instance may fail on an event that the first has
\* processed, and mark it again.
THEOREM SettlesReceipts ==
  ASSUME OneScanner
  PROVE  Spec => []ReceiptsSettled
<1>1. OneBeginning
  BY DEF OneScanner, OneBeginning
<1>2. Init => ScanInv /\ RowsInv /\ ReceiptInv
  BY ScanInit, RowsInit, ReceiptInit
<1>3. ScanInv /\ RowsInv /\ ReceiptInv /\ [Next]_vars => (ScanInv /\ RowsInv /\ ReceiptInv)'
  BY <1>1, ScanStep, RowsStep, ReceiptStep
<1>4. ReceiptInv => ReceiptsSettled
  BY DEF ReceiptInv, ReceiptsSettled, Owed, Settled, Due
<1>5. Spec => [](ScanInv /\ RowsInv /\ ReceiptInv)
  BY <1>2, <1>3, PTL DEF Spec
<1> QED BY <1>4, <1>5, PTL

-----------------------------------------------------------------------------
(* Layer 4: what queries find, and what final rows say *)

\* What is correct stays correct while the chain grows or is replaced at its end.
LEMMA CorrectStays ==
  ASSUME ScanInv, StillWhenAsked,
         \/ \E block \in SUBSET Txs : Extend(block)
         \/ \E depth \in 1..MaxReorg : Reorg(depth)
  PROVE  /\ \A i \in Items : \A v \in Snapshot : Correct(i, v) => Correct(i, v)'
         /\ \A q \in Queries : \A t \in Txs : minedAt[t] # 0 => minedAt'[t] = minedAt[t]
<1>1. DataTypes /\ ChainInv /\ head \in Nat /\ Delay \in Nat /\ MaxReorg \in Nat /\ Confirmations \in Nat
  BY TypesSplit, HeightFacts, DelayFacts DEF ScanInv
<1>2. Moves /\ head <= head' /\ head' \in Nat
  BY <1>1, ChainMoves DEF Height
<1>3. ASSUME MaxReorg = 0 PROVE \A t \in Txs : minedAt[t] # 0 => minedAt'[t] = minedAt[t]
  <2>1. PICK block \in SUBSET Txs : Extend(block)
    BY <1>1, <1>3
  <2> QED BY <1>1, <2>1, ExtendFacts, HeightFacts
<1>4. ASSUME NEW q \in Queries, NEW t \in Txs, minedAt[t] # 0 PROVE minedAt'[t] = minedAt[t]
  BY <1>3, <1>4 DEF StillWhenAsked
<1>5. ASSUME NEW i \in Items, NEW v \in Snapshot, Correct(i, v) PROVE Correct(i, v)'
  <2> SUFFICES ASSUME v.status # "pending" PROVE Correct(i, v)'
    BY DEF Correct
  <2>1. /\ v = [status |-> Outcome(i), block |-> MinedAt(i)] /\ MinedAt(i) >= 1
        /\ Queries = {} => MinedAt(i) + Delay <= head
        /\ v.status = "confirmed" => head - MinedAt(i) + 1 >= Confirmations
    BY <1>5 DEF Correct
  <2>2. MinedAt(i)' = MinedAt(i)
    <3>1. CASE MaxReorg = 0
      BY <1>3, <2>1, <3>1, ItemFacts DEF MinedAt, Tx
    <3>2. CASE Queries = {}
      BY <1>2, <2>1, <3>2 DEF Moves
    <3> QED BY <3>1, <3>2 DEF StillWhenAsked
  <2>3. MinedAt(i) \in Nat
    BY <1>1, HeightFacts
  <2>4. Queries = {} => MinedAt(i) + Delay <= head'
    BY <1>1, <1>2, <2>1, <2>3
  <2>5. v.status = "confirmed" => head' - MinedAt(i) + 1 >= Confirmations
    BY <1>1, <1>2, <2>1, <2>3
  <2> QED BY <2>1, <2>2, <2>4, <2>5 DEF Correct, Outcome, Tx
<1> QED BY <1>4, <1>5

LEMMA SameVerdicts ==
  ASSUME UNCHANGED chain
  PROVE  \A i, v : Correct(i, v)' <=> Correct(i, v)
BY DEF Correct, Outcome, MinedAt, Tx, chain

\* What a scanner writes is correct: it is as deep as the confirmations ask.
LEMMA WritesCorrect ==
  ASSUME ScanInv, VerdictInv, NEW s \in Scanners, NEW w \in Wallets,
         job[s].pc \in {"nativeRow", "logRow"},
         \/ Upsert(w, job[s].item, [status |-> Outcome(job[s].item), block |-> job[s].block])
         \/ UNCHANGED rows,
         UNCHANGED <<chain, query>>
  PROVE  VerdictInv'
<1> DEFINE j == job[s]
           v == [status |-> Outcome(j.item), block |-> j.block]
<1>1. /\ j.pc \in InBlock /\ DataTypes /\ j.block \in Nat /\ head \in Nat /\ Delay \in Nat
      /\ Confirmations \in Nat /\ Confirmations <= Delay + 1
  BY JobFacts, DelayFacts DEF InBlock, NativeSteps, LogSteps
<1>2. OnItem(j) /\ 1 <= j.block /\ j.block + Delay <= head /\ v \in Snapshot
  BY <1>1, BlockFacts
<1>3. MinedAt(j.item) = j.block /\ j.item \in Items
  BY <1>2 DEF OnItem, Items
<1>4. head - j.block + 1 >= Confirmations
  BY <1>1, <1>2
<1>5. Correct(j.item, v)
  BY <1>2, <1>3, <1>4 DEF Correct
<1>6. ASSUME NEW d \in Wallets, NEW i \in Items, rows'[d][i] # None PROVE Correct(i, rows'[d][i])
  <2>1. CASE UNCHANGED rows
    BY <1>6, <2>1 DEF VerdictInv
  <2>2. CASE Upsert(w, j.item, v)
    <3> HIDE DEF v
    <3>1. rows'[d][i] = IF d = w /\ i = j.item THEN v ELSE rows[d][i]
      BY <1>1, <1>2, <2>2, UpsertFacts
    <3> QED BY <1>5, <1>6, <3>1 DEF VerdictInv
  <2> QED BY <2>1, <2>2
<1>7. ASSUME NEW d \in Wallets, NEW i \in Items, rows'[d][i] # None PROVE Correct(i, rows[d][i])'
  BY <1>6, <1>7 DEF Correct, Outcome, MinedAt, Tx, chain
<1>8. QueryInv'
  <2>1. QueryInv
    BY DEF VerdictInv
  <2> QED BY <2>1 DEF QueryInv, FoundOut, Correct, Outcome, MinedAt, Tx, chain
<1> QED BY <1>7, <1>8 DEF VerdictInv

\* Where no row, no query and nothing of the chain changes.
LEMMA SameVerdict ==
  ASSUME VerdictInv, UNCHANGED <<chain, rows, query>>
  PROVE  VerdictInv'
BY DEF VerdictInv, QueryInv, FoundOut, Correct, Outcome, MinedAt, Tx, chain

LEMMA ScannerVerdict ==
  ASSUME ScanInv, VerdictInv, NEW s \in Scanners,
         \/ Scan(s) \/ \E latest \in Height : StartScan(s, latest)
         \/ Interrupt(s) \/ \E w \in Wallets : FailLog(s, w)
  PROVE  VerdictInv'
<1>1. CASE \E w \in Wallets : UpsertNative(s, w) \/ UpsertLog(s, w)
  BY <1>1, WritesCorrect DEF UpsertNative, UpsertLog, WriteRow, Does
<1>2. CASE \E w \in Wallets : FailLog(s, w)
  BY <1>2, WritesCorrect DEF FailLog, Does
<1>3. CASE \/ ReadCursor(s) \/ FetchBlock(s)
           \/ \E t \in Txs : FindParties(s, t)
           \/ \E latest \in Height : StartScan(s, latest)
  <2>1. ReadsOnly
    BY <1>3 DEF ReadCursor, FetchBlock, FindParties, StartScan
  <2> QED BY <2>1, ReadKeep, SameVerdict
<1>4. CASE \/ SaveFirstCursor(s) \/ MarkEvent(s) \/ SaveCursor(s) \/ Interrupt(s) \/ ListLogs(s)
           \/ \E l \in Logs : CreateEvent(s, l)
  BY <1>4, SameVerdict DEF SaveFirstCursor, MarkEvent, SaveCursor, Interrupt, CreateEvent, ListLogs, tables
<1> QED BY <1>1, <1>2, <1>3, <1>4 DEF Scan

\* A step of a query finds out no more than its node can tell.
LEMMA AnswerFinds ==
  ASSUME ScanInv, VerdictInv, NEW q \in Queries, Answer(q)
  PROVE  \E y : Sees(q, y) /\ FoundOut(y)
<1> DEFINE x == query[q]
<1>1. /\ x \in Query /\ Named(x) /\ FoundOut(x) /\ DataTypes /\ ChainInv /\ head \in Nat
      /\ Confirmations \in Nat
  BY TypesSplit, HeightFacts, DelayFacts DEF ScanInv, DataTypes, VerdictInv, QueryInv
<1>2. FoundOut(Done)
  BY DEF Done, FoundOut
<1>3. ASSUME x.pc # "idle", NEW step \in {"chain", "receipt"}, x.found = Unseen
      PROVE  FoundOut([x EXCEPT !.pc = step])
  <2> DEFINE y == [x EXCEPT !.pc = step]
  <2>1. y.pc = step /\ y.found = Unseen
    BY <1>1, <1>3 DEF Query
  <2> HIDE DEF y
  <2>2. FoundOut(y)
    BY <2>1 DEF FoundOut
  <2> QED BY <2>2 DEF y
<1>4. ASSUME x.found = Unseen PROVE FoundOut([x EXCEPT !.pc = "store"])
  <2> DEFINE y == [x EXCEPT !.pc = "store"]
  <2>1. y.pc = "store" /\ y.found.status = "pending"
    BY <1>1, <1>4 DEF Query, Unseen
  <2> HIDE DEF y
  <2>2. FoundOut(y)
    BY <2>1 DEF FoundOut, Correct
  <2> QED BY <2>2 DEF y
<1>5. CASE \E w \in Wallets, t \in Txs : Ask(q, w, t)
  <2>1. PICK w \in Wallets, t \in Txs : Sees(q, [Done EXCEPT !.pc = "find", !.wallet = w, !.tx = t])
    BY <1>5 DEF Ask
  <2> DEFINE y == [Done EXCEPT !.pc = "find", !.wallet = w, !.tx = t]
  <2>2. y.pc = "find" /\ y.found = Unseen /\ Sees(q, y)
    BY <2>1 DEF Done
  <2> HIDE DEF y
  <2> QED BY <2>2 DEF FoundOut
<1>6. CASE FindByHash(q)
  <2>1. x.pc = "find" /\ (Sees(q, Done) \/ Sees(q, [x EXCEPT !.pc = "chain"]))
    BY <1>6 DEF FindByHash, Asks
  <2>2. x.found = Unseen
    BY <1>1, <2>1 DEF FoundOut
  <2> QED BY <1>2, <1>3, <2>1, <2>2
<1>7. CASE TransactionByHash(q)
  <2>1. x.pc = "chain" /\ (Sees(q, Done) \/ Sees(q, [x EXCEPT !.pc = "store"]) \/ Sees(q, [x EXCEPT !.pc = "receipt"]))
    BY <1>7 DEF TransactionByHash, Asks
  <2>2. x.found = Unseen
    BY <1>1, <2>1 DEF FoundOut
  <2> QED BY <1>2, <1>3, <1>4, <2>1, <2>2
<1>8. CASE TransactionReceipt(q)
  <2> DEFINE y == [x EXCEPT !.pc = "latest", !.found.block = minedAt[x.tx]]
  <2>1. /\ x.pc = "receipt"
        /\ Sees(q, [x EXCEPT !.pc = "store"]) \/ (Sees(q, y) /\ minedAt[x.tx] # 0)
    BY <1>8 DEF TransactionReceipt, Asks
  <2>2. x.found = Unseen
    BY <1>1, <2>1 DEF FoundOut
  <2>3. /\ y.pc = "latest" /\ y.tx = x.tx
        /\ y.found = [status |-> "pending", block |-> minedAt[x.tx]]
    BY <1>1, <2>2 DEF Query, Unseen
  <2> HIDE DEF y
  <2>4. minedAt[x.tx] # 0 => FoundOut(y)
    BY <2>3 DEF FoundOut
  <2> QED BY <1>4, <2>1, <2>2, <2>4
<1>9. CASE \E latest \in Height : LatestBlock(q, latest)
  <2>1. PICK latest \in Height : LatestBlock(q, latest)
    BY <1>9
  <2> DEFINE status == IF x.tx \in Reverted THEN "failed"
                       ELSE IF Enough(latest, x.found.block) THEN "confirmed" ELSE "pending"
             y == [x EXCEPT !.pc = "store", !.found.status = status]
  <2>2. x.pc = "latest" /\ latest <= head /\ Sees(q, y)
    BY <2>1 DEF LatestBlock, Asks
  <2>3. /\ x.found = [status |-> "pending", block |-> minedAt[x.tx]] /\ minedAt[x.tx] # 0
        /\ x.tx \in Txs /\ minedAt[x.tx] \in Nat /\ minedAt[x.tx] <= head /\ latest \in Nat
    BY <1>1, <2>2, HeightFacts, DelayFacts DEF FoundOut, Named, ChainInv, Height
  <2> HIDE DEF status
  <2>4. y.pc = "store" /\ y.tx = x.tx /\ y.found = [status |-> status, block |-> minedAt[x.tx]]
    BY <1>1, <2>3 DEF Query
  <2>5. x.tx \in Items /\ MinedAt(x.tx) = minedAt[x.tx] /\ Tx(x.tx) = x.tx
    BY <2>3, ItemFacts DEF MinedAt, Items
  <2>6. status # "pending" => status = Outcome(x.tx)
    BY <2>5 DEF status, Outcome
  <2>7. status = "confirmed" => head - minedAt[x.tx] + 1 >= Confirmations
    <3>1. status = "confirmed" => Enough(latest, minedAt[x.tx])
      BY <2>3 DEF status
    <3> QED BY <1>1, <2>2, <2>3, <3>1 DEF Enough
  <2>8. minedAt[x.tx] >= 1
    BY <2>3
  <2> HIDE DEF y
  <2>9. Correct(x.tx, y.found)
    BY <2>4, <2>5, <2>6, <2>7, <2>8 DEF Correct
  <2>10. FoundOut(y)
    BY <2>4, <2>9 DEF FoundOut
  <2> QED BY <2>2, <2>10
<1>10. CASE Store(q) \/ GiveUp(q)
  BY <1>2, <1>10 DEF Store, GiveUp
<1> QED BY <1>5, <1>6, <1>7, <1>8, <1>9, <1>10 DEF Answer

LEMMA AnswerVerdict ==
  ASSUME ScanInv, VerdictInv, NEW q \in Queries, Answer(q)
  PROVE  VerdictInv'
<1>1. UNCHANGED chain /\ DataTypes /\ Named(query[q])
  BY AnswerScan, TypesSplit DEF ScanInv
<1>2. PICK y : Sees(q, y) /\ FoundOut(y)
  BY AnswerFinds
<1>3. \A d \in Queries : query'[d] = IF d = q THEN y ELSE query[d]
  BY <1>1, <1>2 DEF Sees, DataTypes
<1>4. \A d \in Queries : FoundOut(query'[d])
  BY <1>2, <1>3 DEF VerdictInv, QueryInv
<1>5. QueryInv'
  BY <1>1, <1>4 DEF QueryInv, FoundOut, Correct, Outcome, MinedAt, Tx, chain
<1>6. ASSUME NEW d \in Wallets, NEW i \in Items, rows'[d][i] # None PROVE Correct(i, rows'[d][i])
  <2>1. CASE UNCHANGED rows
    BY <1>6, <2>1 DEF VerdictInv
  <2>2. CASE Store(q)
    <3>1. query[q].found \in Snapshot /\ query[q].pc = "store"
      BY <1>1, <2>2, QueryFields DEF DataTypes, Store, Asks
    <3>2. Upsert(query[q].wallet, query[q].tx, query[q].found)
      BY <2>2 DEF Store
    <3>3. Correct(query[q].tx, query[q].found)
      BY <3>1 DEF VerdictInv, QueryInv, FoundOut
    <3>4. rows'[d][i] = IF d = query[q].wallet /\ i = query[q].tx THEN query[q].found ELSE rows[d][i]
      BY <1>1, <3>1, <3>2, UpsertFacts
    <3> QED BY <1>6, <3>3, <3>4 DEF VerdictInv
  <2> QED BY <1>1, <2>1, <2>2, AnswerFacts
<1>7. ASSUME NEW d \in Wallets, NEW i \in Items, rows'[d][i] # None PROVE Correct(i, rows[d][i])'
  BY <1>1, <1>6, <1>7 DEF Correct, Outcome, MinedAt, Tx, chain
<1> QED BY <1>5, <1>7 DEF VerdictInv

LEMMA ChainVerdict ==
  ASSUME ScanInv, VerdictInv, StillWhenAsked,
         \/ \E block \in SUBSET Txs : Extend(block)
         \/ \E depth \in 1..MaxReorg : Reorg(depth)
  PROVE  VerdictInv'
<1>1. UNCHANGED <<rows, query>> /\ DataTypes
  BY TypesSplit, ChainMoves DEF ScanInv, tables
<1>2. ASSUME NEW d \in Wallets, NEW i \in Items, rows'[d][i] # None PROVE Correct(i, rows[d][i])'
  <2>1. PICK v \in Snapshot : v = rows[d][i] /\ v = rows'[d][i]
    BY <1>1, <1>2 DEF DataTypes
  <2>2. Correct(i, v)'
    BY <1>1, <1>2, <2>1, CorrectStays DEF VerdictInv
  <2> QED BY <2>1, <2>2 DEF Correct
<1>3. ASSUME NEW q \in Queries PROVE FoundOut(query[q])'
  <2>1. PICK x \in Query : x = query[q] /\ x = query'[q]
    BY <1>1 DEF DataTypes
  <2>2. FoundOut(x) /\ Named(x) /\ x.found \in Snapshot
    BY <2>1, QueryFields DEF VerdictInv, QueryInv, ScanInv
  <2>3. x.pc = "latest" => minedAt'[x.tx] = minedAt[x.tx]
    BY <2>2, CorrectStays DEF FoundOut, Named
  <2>4. x.pc = "store" => Correct(x.tx, x.found)'
    BY <2>2, CorrectStays DEF FoundOut, Named, Items
  <2>5. FoundOut(x)'
    BY <2>2, <2>3, <2>4 DEF FoundOut
  <2> QED BY <2>1, <2>5 DEF FoundOut, Correct
<1>4. QueryInv'
  BY <1>3 DEF QueryInv
<1> QED BY <1>2, <1>4 DEF VerdictInv

LEMMA VerdictInit == Init => VerdictInv
<1> SUFFICES ASSUME Init PROVE VerdictInv
  OBVIOUS
<1>1. \A q \in Queries : FoundOut(query[q])
  BY DEF Init, Done, FoundOut
<1> QED BY <1>1 DEF VerdictInv, QueryInv, Init

LEMMA VerdictStep == StillWhenAsked /\ ScanInv /\ VerdictInv /\ [Next]_vars => VerdictInv'
<1> SUFFICES ASSUME StillWhenAsked, ScanInv, VerdictInv, [Next]_vars PROVE VerdictInv'
  OBVIOUS
<1>1. CASE \/ \E block \in SUBSET Txs : Extend(block)
           \/ \E depth \in 1..MaxReorg : Reorg(depth)
  BY <1>1, ChainVerdict
<1>2. CASE \E w \in Wallets : Bind(w) \/ Unbind(w)
  BY <1>2, WalletScan, SameVerdict DEF tables
<1>3. CASE \E s \in Scanners : Scan(s) \/ \E latest \in Height : StartScan(s, latest)
  BY <1>3, ScannerVerdict
<1>4. CASE Failure
  BY <1>4, ScannerVerdict DEF Failure
<1>5. CASE \E q \in Queries : Answer(q)
  BY <1>5, AnswerVerdict
<1>6. CASE UNCHANGED vars
  BY <1>6, SameVerdict DEF vars, tables
<1> QED BY <1>1, <1>2, <1>3, <1>4, <1>5, <1>6 DEF Next

\* A row that says confirmed or failed is right about the transaction, its block and
\* its depth, whoever of the scanners and queries wrote it last (Upsert), if the
\* chain is not reorganised between the node calls of a query.
THEOREM VerdictsAreTrue ==
  ASSUME StillWhenAsked
  PROVE  Spec => []VerdictIsTrue
<1>1. Init => ScanInv /\ VerdictInv
  BY ScanInit, VerdictInit
<1>2. ScanInv /\ VerdictInv /\ [Next]_vars => (ScanInv /\ VerdictInv)'
  BY ScanStep, VerdictStep
<1>3. VerdictInv => VerdictIsTrue
  BY DEF VerdictInv, VerdictIsTrue, Final, Correct
<1>4. Spec => [](ScanInv /\ VerdictInv)
  BY <1>1, <1>2, PTL DEF Spec
<1> QED BY <1>3, <1>4, PTL

\* As long as nobody asks, a final row stays final: scanners write no others, even
\* when two of them write the same row (scanTransaction, persistTransferLog).  A
\* query that asked while the transaction was pending may undo it.
THEOREM FinalStays ==
  ASSUME Queries = {}
  PROVE  Spec => FinalStaysFinal
<1>1. ScanInv /\ [Next]_vars => [\A w \in Wallets, i \in Items : Final(w, i) => Final(w, i)']_rows
  <2> SUFFICES ASSUME ScanInv, [Next]_vars, NEW w \in Wallets, NEW i \in Items, Final(w, i)
               PROVE  Final(w, i)' \/ UNCHANGED rows
    OBVIOUS
  <2>1. CASE \/ \E block \in SUBSET Txs : Extend(block)
             \/ \E depth \in 1..MaxReorg : Reorg(depth)
             \/ \E d \in Wallets : Bind(d) \/ Unbind(d)
             \/ UNCHANGED vars
    BY <2>1 DEF Extend, Reorg, Bind, Unbind, tables, vars
  <2>2. ASSUME NEW s \in Scanners, NEW d \in Wallets, job[s].pc \in {"nativeRow", "logRow"},
               \/ Upsert(d, job[s].item, [status |-> Outcome(job[s].item), block |-> job[s].block])
               \/ UNCHANGED rows,
               UNCHANGED <<chain, since, hidden, cursor, origin>>
        PROVE  Final(w, i)' \/ UNCHANGED rows
    <3>1. job[s].pc \in InBlock
      BY <2>2 DEF InBlock, NativeSteps, LogSteps
    <3>2. PICK k \in Items, b \in Height : k = job[s].item /\ b = job[s].block
      BY <2>2, <3>1, BlockFacts DEF OnItem, Items
    <3>3. CASE Upsert(d, k, [status |-> Outcome(k), block |-> b])
      <4>1. Keep
        BY <2>2, <3>3, RowWritten
      <4>2. Stored(w, i)
        BY DEF Stored, Final
      <4> QED BY <4>1, <4>2 DEF Keep, Stored
    <3> QED BY <2>2, <3>2, <3>3
  <2>3. CASE \E s \in Scanners : Scan(s) \/ \E latest \in Height : StartScan(s, latest)
    <3>1. PICK s \in Scanners : Scan(s) \/ \E latest \in Height : StartScan(s, latest)
      BY <2>3
    <3>2. CASE \E d \in Wallets : UpsertNative(s, d) \/ UpsertLog(s, d)
      BY <2>2, <3>2 DEF UpsertNative, UpsertLog, WriteRow, Does
    <3> QED BY <3>1, <3>2 DEF Scan, StartScan, ReadCursor, FetchBlock, ListLogs, FindParties,
                              ReadsOnly, SaveFirstCursor, MarkEvent, SaveCursor, CreateEvent, tables
  <2>4. CASE Failure
    <3>1. PICK s \in Scanners : Interrupt(s) \/ \E d \in Wallets : FailLog(s, d)
      BY <2>4 DEF Failure
    <3>2. CASE \E d \in Wallets : FailLog(s, d)
      BY <2>2, <3>2 DEF FailLog, Does
    <3> QED BY <3>1, <3>2 DEF Interrupt
  <2> QED BY <2>1, <2>3, <2>4 DEF Next
<1> QED BY <1>1, ScansAreSafe, PTL DEF Spec, FinalStaysFinal

-----------------------------------------------------------------------------
(* Balances *)

\* All parts are there, from one node.
Whole(answer) == \E n \in RpcNodes : \A p \in Parts : answer[p] = n

\* A request: its type, and what its step needs.
AskerType == [step : {"idle", "cache", "call", "store", "served", "refused", "exhausted", "cancelled"},
              start : RpcNodes, attempt : 0 .. Attempts, part : Parts,
              got : [Parts -> RpcNodes \cup {-1}]]

AskedAt(b) == (b.start + b.attempt) % NodeCount

Sound(b) ==
  /\ b.step \in {"idle", "cache"} => b.attempt = 0 /\ b.part = "balance"
  /\ b.step = "call" => /\ b.attempt < Attempts
                        /\ b.part # "balance" => b.got["balance"] = AskedAt(b)
                        /\ b.part = "symbol" => b.got["decimals"] = AskedAt(b)
  /\ b.step \in {"store", "served"} => Whole(b.got)

BalanceInv ==
  /\ BalanceTypes
  /\ cached = Unread \/ Whole(cached)
  /\ \A q \in Askers : Sound(balance[q])

LEMMA Remainder ==
  ASSUME NEW a \in Nat
  PROVE  a % NodeCount \in RpcNodes
BY BalanceAssumption DEF RpcNodes

LEMMA AskerFields ==
  ASSUME NEW b \in AskerType
  PROVE  /\ b.start \in RpcNodes /\ b.start \in Nat /\ b.attempt \in Nat /\ b.attempt <= Attempts
         /\ b.part \in Parts /\ b.got \in [Parts -> RpcNodes \cup {-1}]
         /\ AskedAt(b) \in RpcNodes
         /\ Attempts \in Nat
<1>1. b.start \in RpcNodes /\ b.start \in Nat /\ b.attempt \in Nat /\ b.attempt <= Attempts
      /\ Attempts \in Nat
  BY BalanceAssumption DEF AskerType, RpcNodes
<1>2. AskedAt(b) \in RpcNodes
  BY <1>1, Remainder DEF AskedAt
<1> QED BY <1>1, <1>2 DEF AskerType

LEMMA BalanceStart == BalanceInit => BalanceInv
<1> SUFFICES ASSUME BalanceInit PROVE BalanceInv
  OBVIOUS
<1>1. 0 \in RpcNodes /\ 0 \in 0..Attempts /\ RpcFaults \in 0..RpcFaults
  BY BalanceAssumption DEF RpcNodes
<1>2. BalanceTypes
  BY <1>1 DEF BalanceInit, BalanceTypes, NewAsker, Unread, Parts
<1> QED BY <1>2 DEF BalanceInit, BalanceInv, NewAsker, Sound

\* Request q goes to b.
LEMMA AskerGoes ==
  ASSUME BalanceInv, NEW q \in Askers, NEW b \in AskerType, Sound(b),
         balance' = [balance EXCEPT ![q] = b], active' \in BOOLEAN, next' \in RpcNodes,
         rpcFaults' \in 0 .. RpcFaults, cached' \in [Parts -> RpcNodes \cup {-1}],
         cached' = Unread \/ Whole(cached')
  PROVE  BalanceInv'
<1>1. balance \in [Askers -> AskerType] /\ \A d \in Askers : Sound(balance[d])
  BY DEF BalanceInv, BalanceTypes, AskerType
<1>2. balance' \in [Askers -> AskerType] /\ \A d \in Askers : Sound(balance'[d])
  BY <1>1
<1>3. BalanceTypes'
  BY <1>2 DEF BalanceTypes, AskerType
<1> QED BY <1>2, <1>3 DEF BalanceInv, Whole

LEMMA BalanceStep == BalanceInv /\ [BalanceNext]_balanceVars => BalanceInv'
<1> SUFFICES ASSUME BalanceInv, [BalanceNext]_balanceVars PROVE BalanceInv'
  OBVIOUS
<1>1. /\ active \in BOOLEAN /\ next \in RpcNodes /\ rpcFaults \in 0 .. RpcFaults
      /\ cached \in [Parts -> RpcNodes \cup {-1}] /\ (cached = Unread \/ Whole(cached))
      /\ balance \in [Askers -> AskerType] /\ \A q \in Askers : Sound(balance[q])
  BY DEF BalanceInv, BalanceTypes, AskerType
<1>2. CASE FlipWallet \/ Forget \/ UNCHANGED balanceVars
  <2>1. Unread \in [Parts -> RpcNodes \cup {-1}]
    BY DEF Unread
  <2>2. /\ UNCHANGED <<next, balance, rpcFaults>> /\ active' \in BOOLEAN
        /\ cached' \in {cached, Unread}
    BY <1>1, <1>2 DEF FlipWallet, Forget, balanceVars
  <2>3. BalanceTypes'
    BY <1>1, <2>1, <2>2 DEF BalanceTypes, AskerType
  <2> QED BY <1>1, <2>2, <2>3 DEF BalanceInv, Whole
<1>3. ASSUME NEW q \in Askers, FindWallet(q) PROVE BalanceInv'
  <2> DEFINE b == [balance[q] EXCEPT !.step = IF active THEN "cache" ELSE "refused"]
  <2>1. balance' = [balance EXCEPT ![q] = b] /\ UNCHANGED <<active, next, cached, rpcFaults>>
    BY <1>1, <1>3 DEF FindWallet
  <2>2. balance[q] \in AskerType /\ balance[q].step = "idle" /\ Sound(balance[q])
    BY <1>1, <1>3 DEF FindWallet
  <2>3. b \in AskerType /\ b.step \in {"cache", "refused"} /\ b.attempt = 0 /\ b.part = "balance"
    BY <1>1, <2>2 DEF AskerType, Sound
  <2> HIDE DEF b
  <2>4. Sound(b)
    BY <2>3 DEF Sound
  <2> QED BY <1>1, <2>1, <2>3, <2>4, AskerGoes
<1>4. ASSUME NEW q \in Askers, LookUp(q) PROVE BalanceInv'
  <2>1. balance[q] \in AskerType /\ balance[q].step = "cache" /\ Sound(balance[q])
    BY <1>1, <1>4 DEF LookUp
  <2>2. CASE cached # Unread /\ UNCHANGED next
             /\ balance' = [balance EXCEPT ![q].step = "served", ![q].got = cached]
    <3> DEFINE b == [balance[q] EXCEPT !.step = "served", !.got = cached]
    <3>1. balance' = [balance EXCEPT ![q] = b]
      BY <1>1, <2>2
    <3>2. b \in AskerType /\ b.step = "served" /\ b.got = cached
      BY <1>1, <2>1 DEF AskerType
    <3> HIDE DEF b
    <3>3. Sound(b)
      BY <1>1, <2>2, <3>2 DEF Sound
    <3> QED BY <1>1, <1>4, <2>2, <3>1, <3>2, <3>3, AskerGoes DEF LookUp
  <2>3. CASE next' = (next + 1) % NodeCount
             /\ balance' = [balance EXCEPT ![q].step = "call", ![q].start = next]
    <3> DEFINE b == [balance[q] EXCEPT !.step = "call", !.start = next]
    <3>1. balance' = [balance EXCEPT ![q] = b]
      BY <1>1, <2>3
    <3>2. b \in AskerType /\ b.step = "call" /\ b.attempt = 0 /\ b.part = "balance"
      BY <1>1, <2>1 DEF AskerType, Sound
    <3>3. next + 1 \in Nat
      BY <1>1 DEF RpcNodes
    <3>4. next' \in RpcNodes
      BY <2>3, <3>3, Remainder
    <3> HIDE DEF b
    <3>5. Sound(b)
      BY <3>2, BalanceAssumption DEF Sound
    <3> QED BY <1>1, <1>4, <3>1, <3>2, <3>4, <3>5, AskerGoes DEF LookUp
  <2> QED BY <1>4, <2>2, <2>3 DEF LookUp
<1>5. ASSUME NEW q \in Askers, Reply(q) PROVE BalanceInv'
  <2> DEFINE a == balance[q]
             n == NodeOf(q)
             last == Order[a.part] = "done"
             b == [a EXCEPT !.got[a.part] = n,
                            !.part = IF last THEN a.part ELSE Order[a.part],
                            !.step = IF last THEN "store" ELSE "call"]
  <2>1. a \in AskerType /\ a.step = "call" /\ Sound(a) /\ n = AskedAt(a) /\ n \in RpcNodes
    BY <1>1, <1>5, AskerFields DEF Reply, NodeOf, AskedAt
  <2>2. balance' = [balance EXCEPT ![q] = b] /\ UNCHANGED <<active, next, cached, rpcFaults>>
    BY <1>1, <1>5 DEF Reply
  <2>3. /\ a.part = "balance" => ~last /\ Order[a.part] = "decimals"
        /\ a.part = "decimals" => ~last /\ Order[a.part] = "symbol"
        /\ a.part = "symbol" => last
        /\ a.part \in {"balance", "decimals", "symbol"}
    BY <2>1, AskerFields DEF Order, Parts
  <2>4. /\ b.got = [a.got EXCEPT ![a.part] = n] /\ b.start = a.start /\ b.attempt = a.attempt
        /\ b.part = (IF last THEN a.part ELSE Order[a.part])
        /\ b.step = (IF last THEN "store" ELSE "call")
    <3> HIDE DEF n, last
    <3> QED BY <2>1 DEF AskerType
  <2>5. b \in AskerType
    <3>1. [a.got EXCEPT ![a.part] = n] \in [Parts -> RpcNodes \cup {-1}]
      BY <2>1, AskerFields
    <3>2. PICK part \in Parts, step \in {"store", "call"}, got \in [Parts -> RpcNodes \cup {-1}] :
            /\ part = (IF last THEN a.part ELSE Order[a.part])
            /\ step = (IF last THEN "store" ELSE "call")
            /\ got = [a.got EXCEPT ![a.part] = n]
      BY <2>3, <3>1 DEF Parts
    <3>3. b = [a EXCEPT !.got = got, !.part = part, !.step = step]
      BY <2>1, <3>2 DEF AskerType
    <3> HIDE DEF b, a
    <3> QED BY <2>1, <3>3 DEF AskerType
  <2>6. AskedAt(b) = n /\ b.attempt < Attempts
    BY <2>1, <2>4 DEF AskedAt, Sound
  <2> HIDE DEF b, n
  <2>7. Sound(b)
    <3>1. a.got \in [Parts -> RpcNodes \cup {-1}]
      BY <2>1, AskerFields
    <3>2. \A p \in Parts : b.got[p] = IF p = a.part THEN n ELSE a.got[p]
      BY <2>4, <3>1
    <3>3. CASE a.part = "balance"
      <4>1. b.step = "call" /\ b.part = "decimals" /\ b.got["balance"] = n
        BY <2>3, <2>4, <3>2, <3>3 DEF Parts
      <4> QED BY <2>6, <4>1 DEF Sound
    <3>4. CASE a.part = "decimals"
      <4>1. b.step = "call" /\ b.part = "symbol" /\ b.got["decimals"] = n /\ b.got["balance"] = n
        BY <2>1, <2>3, <2>4, <3>2, <3>4 DEF Parts, Sound
      <4> QED BY <2>6, <4>1 DEF Sound
    <3>5. CASE a.part = "symbol"
      <4>1. a.got["balance"] = n /\ a.got["decimals"] = n
        BY <2>1, <3>5 DEF Sound
      <4>2. b.step = "store" /\ \A p \in Parts : b.got[p] = n
        BY <2>3, <2>4, <3>2, <3>5, <4>1 DEF Parts
      <4> QED BY <2>1, <4>2 DEF Sound, Whole
    <3> QED BY <2>3, <3>3, <3>4, <3>5
  <2> QED BY <1>1, <2>2, <2>5, <2>7, AskerGoes
<1>6. ASSUME NEW q \in Askers, CallErr(q) PROVE BalanceInv'
  <2> DEFINE a == balance[q]
             step == IF a.attempt + 1 = Attempts THEN "exhausted" ELSE "call"
             b == [a EXCEPT !.step = step, !.attempt = @ + 1, !.part = "balance"]
  <2>1. /\ a \in AskerType /\ a.step = "call" /\ Sound(a) /\ a.attempt < Attempts
        /\ UNCHANGED <<active, next, cached>> /\ rpcFaults > 0 /\ rpcFaults' = rpcFaults - 1
    BY <1>1, <1>6 DEF CallErr, Sound
  <2>2. balance' = [balance EXCEPT ![q] = b]
    BY <1>1, <1>6 DEF CallErr, FirstPart
  <2>3. a.attempt + 1 \in 0..Attempts /\ rpcFaults' \in 0..RpcFaults
    BY <1>1, <2>1, AskerFields, BalanceAssumption
  <2>4. /\ b \in AskerType /\ b.step = step /\ b.attempt = a.attempt + 1 /\ b.part = "balance"
    <3> HIDE DEF a
    <3> QED BY <2>1, <2>3 DEF AskerType, Parts
  <2>5. b.step = "call" => b.attempt < Attempts
    BY <2>1, <2>4, AskerFields
  <2>6. b.step \in {"exhausted", "call"}
    BY <2>4
  <2> HIDE DEF b
  <2>7. Sound(b)
    BY <2>4, <2>5, <2>6 DEF Sound
  <2> QED BY <1>1, <2>1, <2>2, <2>3, <2>4, <2>7, AskerGoes
<1>7. ASSUME NEW q \in Askers, GiveUpCall(q) PROVE BalanceInv'
  <2> DEFINE b == [balance[q] EXCEPT !.step = "cancelled"]
  <2>1. balance' = [balance EXCEPT ![q] = b] /\ UNCHANGED <<active, next, cached, rpcFaults>>
    BY <1>1, <1>7 DEF GiveUpCall
  <2>2. b \in AskerType /\ b.step = "cancelled"
    BY <1>1 DEF AskerType
  <2> HIDE DEF b
  <2>3. Sound(b)
    BY <2>2 DEF Sound
  <2> QED BY <1>1, <2>1, <2>2, <2>3, AskerGoes
<1>8. ASSUME NEW q \in Askers, StoreBalance(q) PROVE BalanceInv'
  <2> DEFINE a == balance[q]
             b == [a EXCEPT !.step = "served"]
  <2>1. /\ a \in AskerType /\ a.step = "store" /\ Sound(a)
        /\ balance' = [balance EXCEPT ![q] = b] /\ UNCHANGED <<active, next, rpcFaults>>
        /\ cached' \in {cached, a.got}
    BY <1>1, <1>8 DEF StoreBalance
  <2>2. b \in AskerType /\ b.step = "served" /\ b.got = a.got
    BY <2>1 DEF AskerType
  <2>3. Whole(a.got) /\ a.got \in [Parts -> RpcNodes \cup {-1}]
    BY <2>1, AskerFields DEF Sound
  <2>4. cached' \in [Parts -> RpcNodes \cup {-1}] /\ (cached' = Unread \/ Whole(cached'))
    BY <1>1, <2>1, <2>3
  <2> HIDE DEF b
  <2>5. Sound(b)
    BY <2>2, <2>3 DEF Sound
  <2> QED BY <1>1, <2>1, <2>2, <2>4, <2>5, AskerGoes
<1> QED BY <1>2, <1>3, <1>4, <1>5, <1>6, <1>7, <1>8 DEF BalanceNext

\* The types of BalanceQueries.
THEOREM BalanceIsTyped == BalanceSpec => []BalanceTypes
<1>1. BalanceInv => BalanceTypes
  BY DEF BalanceInv
<1> QED BY <1>1, BalanceStart, BalanceStep, PTL DEF BalanceSpec

\* What a request is told of a balance, cached or not, is complete and comes from one
\* node (fetchBalance, Execute), for any number of nodes, attempts, requests and faults.
THEOREM BalanceFromOneNode == BalanceSpec => []OneNode
<1>1. BalanceInv => OneNode
  BY DEF BalanceInv, Sound, Whole, OneNode
<1> QED BY <1>1, BalanceStart, BalanceStep, PTL DEF BalanceSpec
=============================================================================
