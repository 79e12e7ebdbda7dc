----------------------- MODULE TronApprovals_proofs -----------------------
(***************************************************************************)
(* What holds of the TRON approval check for every number of requests,     *)
(* instances, addresses, lists, days, faults and limits.                   *)
(*                                                                         *)
(* Each invariant is proved with a strengthening that says where requests  *)
(* stand: BudgetInv what a transaction has read under its row lock,        *)
(* FlightInv whose check an entry of the inflight map is, CutInv what a    *)
(* request whose context has ended carries, CompleteInv what the           *)
(* enumeration has found so far, CountInv which results are still owed.    *)
(***************************************************************************)
EXTENDS TronApprovals, FiniteSetTheorems, SequenceTheorems, TLAPS

----------------------------------------------------------------------------
(* Types *)

SharedOK ==
    /\ today \in Days
    /\ usage \in [Days -> [Counters -> Nat] \cup {Nobody}]
    /\ seen \in [Days -> SUBSET Addresses]
    /\ lock \in [Days -> Requests \cup {Nobody}]
    /\ cache \in [Addresses -> Answers \cup {Nobody}]
    /\ inflight \in [Instances -> [Addresses -> Requests \cup {Nobody}]]
    /\ faults \in 0..Faults

LocalOK ==
    /\ cancelled \subseteq Open
    /\ pc \in [Requests -> Places]
    /\ mem \in [Requests -> Memory \cup {Nobody}]
    /\ \A r \in Requests : r \in Open <=> mem[r] # Nobody

Live == Places \ {"idle", "done"}

\* A request on its way has locals.
LEMMA LocalMemory ==
    ASSUME TypeOK, NEW r \in Requests, pc[r] \notin {"idle", "done"}
    PROVE  mem[r] \in Memory /\ r \in Open /\ pc[r] \in Live
BY DEF TypeOK, Open, Live

\* A request moves on with new locals.
LEMMA Moves ==
    ASSUME TypeOK, NEW r \in Requests, r \in Open,
           NEW m \in Memory, NEW p \in Live,
           mem' = [mem EXCEPT ![r] = m], pc' = [pc EXCEPT ![r] = p], UNCHANGED cancelled
    PROVE  LocalOK'
<1>1. pc' \in [Requests -> Places] /\ mem' \in [Requests -> Memory \cup {Nobody}]
  BY DEF TypeOK, Live
<1>2. Open' = Open
  BY DEF TypeOK, Open, Live
<1>3. \A q \in Requests : q \in Open' <=> mem'[q] # Nobody
  BY <1>2, NobodyAssumption DEF TypeOK
<1> QED BY <1>1, <1>2, <1>3 DEF LocalOK, TypeOK

\* A handler that returns leaves its request closed.
LEMMA Returns ==
    ASSUME TypeOK, NEW r \in Requests, r \in Open, Return(r)
    PROVE  LocalOK'
<1>1. pc' \in [Requests -> Places] /\ mem' \in [Requests -> Memory \cup {Nobody}]
  BY DEF TypeOK, Return, Goto, Places
<1>2. Open' = Open \ {r}
  BY DEF TypeOK, Open, Return, Goto
<1>3. \A q \in Requests : q \in Open' <=> mem'[q] # Nobody
  BY <1>2 DEF TypeOK, Return
<1>4. cancelled' \subseteq Open'
  BY <1>2 DEF TypeOK, Return
<1> QED BY <1>1, <1>3, <1>4 DEF LocalOK

\* Counting on an existing row keeps it a row of counters (RecordResult, ReserveUpstreamCall).
LEMMA BumpType ==
    ASSUME TypeOK, NEW d \in Days, usage[d] # Nobody, NEW keys, Bump(d, keys)
    PROVE  usage' \in [Days -> [Counters -> Nat] \cup {Nobody}]
<1>1. usage[d] \in [Counters -> Nat]
  BY DEF TypeOK
<1>2. [k \in Counters |-> IF k \in keys THEN usage[d][k] + 1 ELSE usage[d][k]] \in [Counters -> Nat]
  BY <1>1
<1> QED BY <1>2 DEF TypeOK, Bump

\* Faults stay within their bound.
LEMMA FaultType == ASSUME TypeOK, faults' = faults \/ Fault PROVE faults' \in 0..Faults
BY ApprovalsAssumption DEF TypeOK, Fault

\* The end of a transaction leaves a map of locks.
LEMMA UnlockType == ASSUME TypeOK, NEW r \in Requests PROVE Unlocked(r) \in [Days -> Requests \cup {Nobody}]
BY DEF TypeOK, Unlocked

\* The initial state has the right types.
LEMMA InitType == Init => TypeOK
<1> SUFFICES ASSUME Init PROVE TypeOK
  OBVIOUS
<1>1. Open = {}
  BY DEF Init, Open
<1> QED BY <1>1, ApprovalsAssumption DEF Init, TypeOK, Places

\* Locals with a page count that may be one too high.
Loose == [address : Addresses, on : Instances, day : Days, read : [Counters -> Nat],
          leader : Requests \cup {Nobody}, page : Nat, start : Nat,
          found : SUBSET Spenders, truncated : BOOLEAN, complete : BOOLEAN,
          decimals : BOOLEAN, pending : SUBSET Spenders, verified : SUBSET Spenders,
          cut : BOOLEAN, refused : Days \cup {Nobody}, hit : BOOLEAN,
          answer : Answers \cup {Nobody}]

\* The end of check, or of its enumeration, leaves proper locals.
LEMMA AnsweredType ==
    ASSUME NEW m \in Loose, NEW st \in {"success", "partial", "failed"}
    PROVE  Answered(m, st) \in Memory /\ AfterList(m) \in Memory
<1>1. 0 \in 0..(MaxPages - 1)
  BY ApprovalsAssumption
<1>2. \A x \in {"success", "partial", "failed"} : [status |-> x, verified |-> m.verified, cut |-> m.cut] \in Answers
  BY DEF Answers, Loose
<1>3. ASSUME NEW x \in {"success", "partial", "failed"}
      PROVE  Answered(m, x) \in Memory
  <2>1. [status |-> x, verified |-> m.verified, cut |-> m.cut] \in Answers \cup {Nobody}
    BY <1>2
  <2> QED BY <1>1, <2>1 DEF Answered, Memory, Loose
<1>4. [m EXCEPT !.page = 0, !.start = 0] \in Memory
  BY <1>1 DEF Memory, Loose
<1>5. Answered(m, st) \in Memory /\ Answered(m, "failed") \in Memory
  BY <1>3
<1> QED BY <1>4, <1>5 DEF AfterList

\* Locals are loose locals.
LEMMA MemoryLoose == ASSUME NEW m \in Memory PROVE m \in Loose
BY ApprovalsAssumption DEF Memory, Loose

\* A failing reservation or call keeps the types of what it writes.
LEMMA FailsType ==
    ASSUME TypeOK, NEW r \in Requests, NEW m \in Memory, Fails(r, m)
    PROVE  /\ usage' \in [Days -> [Counters -> Nat] \cup {Nobody}]
           /\ faults' \in 0..Faults
           /\ \E n \in Memory : mem' = [mem EXCEPT ![r] = n]
<1>1. CASE Unpaid(r, m)
  <2>1. [m EXCEPT !.refused = today] \in Memory
    BY DEF TypeOK, Memory
  <2> QED BY <1>1, <2>1 DEF Unpaid, TypeOK
<1>2. CASE Unsure(r, m)
  <2>1. [m EXCEPT !.cut = @ \/ r \in cancelled] \in Memory
    BY DEF Memory
  <2>2. usage' = usage \/ (today \in Days /\ usage[today] # Nobody /\ Bump(today, {"calls"}))
    BY <1>2 DEF Unsure, Charge, TypeOK
  <2>3. usage' \in [Days -> [Counters -> Nat] \cup {Nobody}]
    BY <2>2, BumpType DEF TypeOK
  <2>4. faults' \in 0..Faults
    BY <1>2, FaultType DEF Unsure, Trips
  <2> QED BY <1>2, <2>1, <2>3, <2>4 DEF Unsure
<1> QED BY <1>1, <1>2 DEF Fails

\* So does one that succeeds.
LEMMA PayType ==
    ASSUME TypeOK, NEW r \in Requests, Pay(r)
    PROVE  usage' \in [Days -> [Counters -> Nat] \cup {Nobody}] /\ UNCHANGED faults
BY BumpType DEF Pay, Charge, TypeOK

\* The checks leave everything else alone.
LEMMA CheckType ==
    ASSUME TypeOK, NEW r \in Requests, r \in Open, UNCHANGED quiet,
           usage' \in [Days -> [Counters -> Nat] \cup {Nobody}], faults' \in 0..Faults,
           NEW m \in Memory, mem' = [mem EXCEPT ![r] = m],
           NEW p \in Live, pc' = [pc EXCEPT ![r] = p]
    PROVE  TypeOK'
<1>1. LocalOK'
  BY Moves DEF quiet
<1>2. SharedOK'
  BY DEF SharedOK, TypeOK, quiet
<1> QED BY <1>1, <1>2 DEF TypeOK, SharedOK, LocalOK

\* The locals after a page, before the enumeration ends or goes on.
PageStart(m, entries) == m.start + Len(entries)
PageEnds(m, entries) == Len(entries) = 0 \/ PageStart(m, entries) >= Len(Listing[m.address])
PageCuts(m, entries) ==
    \/ m.truncated \/ Truncates(m.found, entries)
    \/ ~PageEnds(m, entries) /\ LastPage(m.page)
NextPage(m, entries) ==
    [m EXCEPT !.found = Found(m.found, entries), !.start = PageStart(m, entries),
              !.page = IF PageEnds(m, entries) THEN m.page ELSE m.page + 1,
              !.truncated = PageCuts(m, entries),
              !.complete = PageEnds(m, entries) /\ ~PageCuts(m, entries)]

\* What ListPage does, in these terms (enumerate, approval.go).
LEMMA Page ==
    ASSUME NEW r \in Requests, ListPage(r)
    PROVE  \E entries \in Pages(mem[r].address, mem[r].start) :
              IF PageEnds(mem[r], entries) \/ LastPage(mem[r].page)
              THEN /\ mem' = [mem EXCEPT ![r] = AfterList(NextPage(mem[r], entries))]
                   /\ Goto(r, Enumerated(NextPage(mem[r], entries)))
              ELSE mem' = [mem EXCEPT ![r] = NextPage(mem[r], entries)] /\ UNCHANGED pc
BY DEF ListPage, NextPage, PageStart, PageEnds, PageCuts

\* A page keeps the types, also of the page counter at its limit.
LEMMA PageType ==
    ASSUME NEW m \in Memory, NEW entries \in Pages(m.address, m.start)
    PROVE  /\ Len(entries) \in Nat
           /\ NextPage(m, entries) \in Loose
           /\ ~PageEnds(m, entries) /\ ~LastPage(m.page) => NextPage(m, entries) \in Memory
           /\ NextPage(m, entries) =
                 [m EXCEPT !.found = Found(m.found, entries), !.start = PageStart(m, entries),
                           !.page = NextPage(m, entries).page,
                           !.truncated = PageCuts(m, entries),
                           !.complete = PageEnds(m, entries) /\ ~PageCuts(m, entries)]
<1>1. Len(entries) \in Nat
  <2>1. Listing[m.address] \in Seq(Entries) /\ m.start \in Nat
    BY ApprovalsAssumption DEF Memory
  <2>2. PICK n \in Nat : entries = SubSeq(Listing[m.address], m.start + 1, m.start + n)
    BY <2>1 DEF Pages
  <2>3. \A i \in (m.start + 1)..(m.start + n) : Listing[m.address][i] \in {Listing[m.address][j] : j \in Int}
    BY <2>1, <2>2
  <2>4. entries \in Seq({Listing[m.address][j] : j \in Int})
    <3>1. m.start + 1 \in Int /\ m.start + n \in Int
      BY <2>1, <2>2
    <3> QED BY <2>2, <2>3, <3>1, SubSeqProperties
  <2> QED BY <2>4
<1>2. Found(m.found, entries) \in SUBSET Spenders /\ PageStart(m, entries) \in Nat
  BY <1>1 DEF Found, Memory, PageStart
<1>3. PageCuts(m, entries) \in BOOLEAN /\ (PageEnds(m, entries) /\ ~PageCuts(m, entries)) \in BOOLEAN
  BY DEF Memory, Truncates, LastPage, PageCuts
<1>4. /\ m.page \in Nat /\ m.page \in 0..(MaxPages - 1)
      /\ ~LastPage(m.page) => m.page + 1 \in 0..(MaxPages - 1)
  BY ApprovalsAssumption DEF Memory, LastPage
<1>5. NextPage(m, entries) \in Loose
  <2> DEFINE page == IF PageEnds(m, entries) THEN m.page ELSE m.page + 1
             complete == PageEnds(m, entries) /\ ~PageCuts(m, entries)
  <2>1. page \in Nat /\ complete \in BOOLEAN
    BY <1>3, <1>4
  <2>2. m \in Loose
    BY MemoryLoose
  <2>3. NextPage(m, entries) =
           [m EXCEPT !.found = Found(m.found, entries), !.start = PageStart(m, entries), !.page = page,
                     !.truncated = PageCuts(m, entries), !.complete = complete]
    BY DEF NextPage
  <2> HIDE DEF page, complete
  <2>4. [m EXCEPT !.found = Found(m.found, entries), !.start = PageStart(m, entries), !.page = page,
                  !.truncated = PageCuts(m, entries), !.complete = complete] \in Loose
    BY <1>2, <1>3, <2>1, <2>2 DEF Loose
  <2> QED BY <2>3, <2>4
<1>6. ~PageEnds(m, entries) /\ ~LastPage(m.page) => NextPage(m, entries) \in Memory
  BY <1>2, <1>3, <1>4 DEF Memory, NextPage
<1>7. NextPage(m, entries).page = IF PageEnds(m, entries) THEN m.page ELSE m.page + 1
  BY DEF NextPage, Memory
<1> QED BY <1>1, <1>5, <1>6, <1>7 DEF NextPage

\* Every handler's step keeps the types.
LEMMA TypeStep == TypeOK /\ [Next]_vars => TypeOK'
<1> SUFFICES ASSUME TypeOK, [Next]_vars PROVE TypeOK'
  OBVIOUS
<1>1. CASE UNCHANGED vars
  BY <1>1 DEF vars, TypeOK, Open
<1>2. CASE Tick
  BY <1>2 DEF Tick, TypeOK, Open, store
<1>3. ASSUME NEW a \in Addresses, Expire(a) PROVE TypeOK'
  BY <1>3 DEF Expire, TypeOK, Open, store
<1>4. ASSUME NEW i \in Instances, Crash(i) PROVE TypeOK'
  <2> DEFINE here == {r \in Requests : mem[r] # Nobody /\ mem[r].on = i}
  <2>1. SharedOK'
    BY <1>4, FaultType DEF Crash, SharedOK, TypeOK
  <2>2. /\ pc' = [r \in Requests |-> IF r \in here THEN "done" ELSE pc[r]]
        /\ mem' = [r \in Requests |-> IF r \in here THEN Nobody ELSE mem[r]]
        /\ cancelled' = cancelled \ here
    BY <1>4 DEF Crash
  <2>3. Open' = Open \ here
    BY <2>2 DEF Open, TypeOK
  <2>4. LocalOK'
    BY <2>2, <2>3 DEF LocalOK, TypeOK, Places
  <2> QED BY <2>1, <2>4 DEF TypeOK, SharedOK, LocalOK
<1>5. ASSUME NEW r \in Requests, Cancel(r) PROVE TypeOK'
  <2>1. Open' = Open /\ cancelled' \subseteq Open
    BY <1>5 DEF Cancel, Open, TypeOK
  <2>2. faults' \in 0..Faults
    BY <1>5, FaultType DEF Cancel
  <2> QED BY <1>5, <2>1, <2>2 DEF Cancel, TypeOK, store
<1>6. ASSUME NEW r \in Requests, NEW a \in Addresses, NEW i \in Instances, Call(r, a, i) PROVE TypeOK'
  <2> DEFINE m == [address |-> a, on |-> i, day |-> today, read |-> FreshRow, leader |-> Nobody,
           page |-> 0, start |-> 0, found |-> {}, truncated |-> FALSE, complete |-> FALSE,
           decimals |-> FALSE, pending |-> {}, verified |-> {}, cut |-> FALSE,
           refused |-> Nobody, hit |-> FALSE, answer |-> Nobody]
  <2>1. m \in Memory
    BY ApprovalsAssumption DEF Memory, TypeOK, FreshRow
  <2>2. mem' = [mem EXCEPT ![r] = m] /\ pc' = [pc EXCEPT ![r] = "begin"] /\ UNCHANGED cancelled
    BY <1>6 DEF Call, Goto
  <2> HIDE DEF m
  <2>3. Open' = Open \cup {r}
    BY <2>2 DEF Open, TypeOK
  <2>4. LocalOK'
    BY <2>1, <2>2, <2>3, NobodyAssumption DEF LocalOK, TypeOK, Places
  <2>5. SharedOK'
    BY <1>6 DEF Call, SharedOK, TypeOK, store
  <2> QED BY <2>4, <2>5 DEF TypeOK, SharedOK, LocalOK
<1>7. ASSUME NEW r \in Requests, Step(r) PROVE TypeOK'
  <2>0. /\ pc[r] \notin {"idle", "done"}
        /\ mem[r] \in Memory /\ r \in Open /\ pc[r] \in Live
    <3>1. pc[r] \notin {"idle", "done"}
      BY <1>7 DEF Step, LockDay, Reserve, Refuse, ReadCache, Lead, Follow, GiveUp, Record, Check, ListPage,
           ListFails, Risk, Decimals, Conclude, StoreCache, Publish, Verify
    <3> QED BY <3>1, LocalMemory
  <2> DEFINE d == mem[r].day
  <2>00. d \in Days /\ mem[r].address \in Addresses /\ mem[r].on \in Instances
    BY <2>0 DEF Memory
  <2>1. CASE LockDay(r)
    <3>1. Row(d) \in [Counters -> Nat]
      BY <2>00 DEF Row, TypeOK, FreshRow
    <3>2. [mem[r] EXCEPT !.read = Row(d)] \in Memory
      BY <2>0, <3>1 DEF Memory
    <3>3. LocalOK'
      BY <2>0, <2>1, <3>2, Moves DEF LockDay, Goto, Live, Places, Checking
    <3>4. SharedOK'
      BY <2>1, <2>00 DEF LockDay, SharedOK, TypeOK
    <3> QED BY <3>3, <3>4 DEF TypeOK, SharedOK, LocalOK
  <2>2. CASE Reserve(r)
    <3>1. Row(d) \in [Counters -> Nat]
      BY <2>00 DEF Row, TypeOK, FreshRow
    <3>2. [Row(d) EXCEPT !["queries"] = @ + 1, !["addresses"] = IF New(r) THEN @ + 1 ELSE @] \in [Counters -> Nat]
      BY <3>1 DEF Counters
    <3>3. SharedOK'
      BY <2>2, <2>00, <3>2, UnlockType, FaultType DEF Reserve, SharedOK, TypeOK
    <3>4. CASE Return(r)
      BY <2>0, <3>3, <3>4, Returns DEF TypeOK, SharedOK, LocalOK
    <3>5. CASE Goto(r, "cache") /\ mem' = [mem EXCEPT ![r].read = FreshRow] /\ UNCHANGED cancelled
      <4>1. [mem[r] EXCEPT !.read = FreshRow] \in Memory
        BY <2>0 DEF Memory, FreshRow
      <4>2. LocalOK'
        BY <2>0, <3>5, <4>1, Moves DEF Goto, Live, Places, Checking
      <4> QED BY <3>3, <4>2 DEF TypeOK, SharedOK, LocalOK
    <3> QED BY <2>2, <3>4, <3>5 DEF Reserve
  <2>3. CASE Refuse(r)
    <3>1. LocalOK'
      BY <2>0, <2>3, Returns DEF Refuse
    <3>2. SharedOK'
      BY <2>3, UnlockType, FaultType DEF Refuse, SharedOK, TypeOK, Trips
    <3> QED BY <3>1, <3>2 DEF TypeOK, SharedOK, LocalOK
  <2>4. CASE ReadCache(r)
    <3>1. SharedOK'
      BY <2>4, FaultType DEF ReadCache, SharedOK, TypeOK, Trips, store
    <3>2. \E m \in Memory : mem' = [mem EXCEPT ![r] = m]
      <4>1. CASE cache[mem[r].address] # Nobody /\ mem' = [mem EXCEPT ![r].answer = cache[mem[r].address], ![r].hit = TRUE]
        <5>1. [mem[r] EXCEPT !.answer = cache[mem[r].address], !.hit = TRUE] \in Memory
          BY <2>0, <2>00 DEF Memory, TypeOK
        <5>2. mem' = [mem EXCEPT ![r] = [mem[r] EXCEPT !.answer = cache[mem[r].address], !.hit = TRUE]]
          BY <4>1, <2>0 DEF TypeOK
        <5> QED BY <5>1, <5>2
      <4>2. CASE UNCHANGED mem
        BY <2>0, <4>2 DEF TypeOK
      <4> QED BY <2>4, <4>1, <4>2 DEF ReadCache
    <3>3. \E p \in Live : pc' = [pc EXCEPT ![r] = p]
      BY <2>4 DEF ReadCache, Goto, Live, Places, Checking
    <3>4. LocalOK'
      BY <2>0, <2>4, <3>2, <3>3, Moves DEF ReadCache
    <3> QED BY <3>1, <3>4 DEF TypeOK, SharedOK, LocalOK
  <2>5. CASE Lead(r)
    <3>1. SharedOK'
      BY <2>5, <2>00 DEF Lead, SharedOK, TypeOK, store
    <3>2. LocalOK'
      <4>1. mem' = [mem EXCEPT ![r] = mem[r]] /\ pc' = [pc EXCEPT ![r] = "list"] /\ UNCHANGED cancelled
        BY <2>5 DEF Lead, TypeOK, Goto
      <4> QED BY <2>0, <4>1, Moves DEF Live, Places, Checking
    <3> QED BY <3>1, <3>2 DEF TypeOK, SharedOK, LocalOK
  <2>6. CASE Follow(r)
    <3>1. SharedOK'
      BY <2>6 DEF Follow, SharedOK, TypeOK, store
    <3>1a. Leader(r) \in Requests \cup {Nobody}
      BY <2>00 DEF Leader, TypeOK
    <3>2. [mem[r] EXCEPT !.leader = Leader(r)] \in Memory
      BY <2>0, <3>1a DEF Memory
    <3>3. LocalOK'
      BY <2>0, <2>6, <3>2, Moves DEF Follow, Goto, Live, Places, Checking
    <3> QED BY <3>1, <3>3 DEF TypeOK, SharedOK, LocalOK
  <2>7. CASE GiveUp(r)
    <3>1. LocalOK'
      BY <2>0, <2>7, Returns DEF GiveUp
    <3>2. SharedOK'
      BY <2>7 DEF GiveUp, SharedOK, TypeOK, store
    <3> QED BY <3>1, <3>2 DEF TypeOK, SharedOK, LocalOK
  <2>8. CASE Record(r)
    <3>1. LocalOK'
      BY <2>0, <2>8, Returns DEF Record
    <3>2. usage' = usage \/ (usage[d] # Nobody /\ \E keys : Bump(d, keys))
      BY <2>8 DEF Record, Counted
    <3>3. usage' \in [Days -> [Counters -> Nat] \cup {Nobody}]
      BY <2>00, <3>2, BumpType DEF TypeOK
    <3>4. faults' \in 0..Faults
      BY <2>8, FaultType DEF Record, Counted, Trips
    <3>5. SharedOK'
      BY <2>8, <3>3, <3>4 DEF Record, SharedOK, TypeOK
    <3> QED BY <3>1, <3>5 DEF TypeOK, SharedOK, LocalOK
  <2>9. CASE ListPage(r)
    <3>1. PICK entries \in Pages(mem[r].address, mem[r].start) :
              IF PageEnds(mem[r], entries) \/ LastPage(mem[r].page)
              THEN /\ mem' = [mem EXCEPT ![r] = AfterList(NextPage(mem[r], entries))]
                   /\ Goto(r, Enumerated(NextPage(mem[r], entries)))
              ELSE mem' = [mem EXCEPT ![r] = NextPage(mem[r], entries)] /\ UNCHANGED pc
      BY <2>9, Page
    <3> DEFINE next == NextPage(mem[r], entries)
    <3>7. AfterList(next) \in Memory
      BY <2>0, PageType, AnsweredType
    <3>8. \E m \in Memory : mem' = [mem EXCEPT ![r] = m]
      BY <2>0, <3>1, <3>7, PageType
    <3>9. \E p \in Live : pc' = [pc EXCEPT ![r] = p]
      <4>1. pc' = [pc EXCEPT ![r] = Enumerated(next)] \/ pc' = pc
        BY <3>1 DEF Goto
      <4> QED BY <2>0, <4>1 DEF Enumerated, Live, Places, Checking, TypeOK
    <3>10. usage' \in [Days -> [Counters -> Nat] \cup {Nobody}] /\ UNCHANGED <<faults, quiet>>
      BY <2>9, PayType DEF ListPage
    <3> QED BY <2>0, <3>8, <3>9, <3>10, CheckType DEF TypeOK
  <2>10. CASE ListFails(r)
    <3>1. AfterList(mem[r]) \in Memory
      BY <2>0, MemoryLoose, AnsweredType
    <3>2. Enumerated(mem[r]) \in Live
      BY DEF Enumerated, Live, Places, Checking
    <3> QED BY <2>0, <2>10, <3>1, <3>2, FailsType, CheckType DEF ListFails, Goto
  <2>11. CASE Risk(r)
    <3>1. \E m \in Memory : mem' = [mem EXCEPT ![r] = m]
      BY <2>0, <2>11, FailsType DEF Risk, TypeOK
    <3>2. usage' \in [Days -> [Counters -> Nat] \cup {Nobody}] /\ faults' \in 0..Faults
      BY <2>0, <2>11, FailsType, PayType DEF Risk, TypeOK
    <3>3. pc' = [pc EXCEPT ![r] = "decimals"] /\ "decimals" \in Live /\ UNCHANGED quiet
      BY <2>11 DEF Risk, Goto, Live, Places, Checking
    <3> QED BY <2>0, <3>1, <3>2, <3>3, CheckType
  <2>12. CASE Decimals(r)
    <3> DEFINE m == [mem[r] EXCEPT !.pending = mem[r].found]
    <3>1. m \in Memory /\ [m EXCEPT !.decimals = TRUE] \in Memory
      BY <2>0 DEF Memory
    <3>2. \/ Pay(r) /\ mem' = [mem EXCEPT ![r] = [m EXCEPT !.decimals = TRUE]]
          \/ Fails(r, m)
      BY <2>12 DEF Decimals
    <3>3. pc' = [pc EXCEPT ![r] = "verify"] /\ "verify" \in Live /\ UNCHANGED quiet
      BY <2>12 DEF Decimals, Goto, Live, Places, Checking
    <3> HIDE DEF m
    <3>4. CASE Fails(r, m)
      BY <2>0, <3>1, <3>3, <3>4, FailsType, CheckType
    <3>5. CASE Pay(r) /\ mem' = [mem EXCEPT ![r] = [m EXCEPT !.decimals = TRUE]]
      <4>1. usage' \in [Days -> [Counters -> Nat] \cup {Nobody}] /\ faults' \in 0..Faults
        BY <3>5, PayType DEF TypeOK
      <4> QED BY <2>0, <3>1, <3>3, <3>5, <4>1, CheckType
    <3> QED BY <3>2, <3>4, <3>5
  <2>13. ASSUME NEW s \in Spenders, Verify(r, s) PROVE TypeOK'
    <3> DEFINE m == [mem[r] EXCEPT !.pending = @ \ {s}]
    <3>1. m \in Memory /\ [m EXCEPT !.verified = @ \cup {s}] \in Memory
      BY <2>0 DEF Memory
    <3>2. \/ Pay(r) /\ mem' = [mem EXCEPT ![r] = [m EXCEPT !.verified = @ \cup {s}]]
          \/ Fails(r, m)
      BY <2>13 DEF Verify
    <3>3. pc' = [pc EXCEPT ![r] = pc[r]] /\ UNCHANGED quiet
      BY <2>13 DEF Verify, TypeOK
    <3> HIDE DEF m
    <3>4. CASE Fails(r, m)
      BY <2>0, <3>1, <3>3, <3>4, FailsType, CheckType
    <3>5. CASE Pay(r) /\ mem' = [mem EXCEPT ![r] = [m EXCEPT !.verified = @ \cup {s}]]
      <4>1. usage' \in [Days -> [Counters -> Nat] \cup {Nobody}] /\ faults' \in 0..Faults
        BY <3>5, PayType DEF TypeOK
      <4> QED BY <2>0, <3>1, <3>3, <3>5, <4>1, CheckType
    <3> QED BY <3>2, <3>4, <3>5
  <2>14. CASE Conclude(r)
    <3>1. \E m \in Memory : mem' = [mem EXCEPT ![r] = m]
      BY <2>0, <2>14, MemoryLoose, AnsweredType DEF Conclude
    <3>2. pc' = [pc EXCEPT ![r] = "store"] /\ "store" \in Live /\ UNCHANGED quiet
      BY <2>14 DEF Conclude, Goto, Live, Places, Checking, quiet, store
    <3> QED BY <2>0, <2>14, <3>1, <3>2, CheckType DEF Conclude, store, TypeOK
  <2>15. CASE StoreCache(r)
    <3>1. SharedOK'
      <4>1. cache' \in [Addresses -> Answers \cup {Nobody}]
        BY <2>0, <2>00, <2>15 DEF StoreCache, TypeOK, Memory
      <4> QED BY <2>15, <4>1, FaultType DEF StoreCache, SharedOK, TypeOK, store, Trips
    <3>2. LocalOK'
      <4>1. mem' = [mem EXCEPT ![r] = mem[r]] /\ pc' = [pc EXCEPT ![r] = "publish"] /\ UNCHANGED cancelled
        BY <2>15 DEF StoreCache, TypeOK, Goto
      <4> QED BY <2>0, <4>1, Moves DEF Live, Places, Checking
    <3> QED BY <3>1, <3>2 DEF TypeOK, SharedOK, LocalOK
  <2>16. CASE Publish(r)
    <3>1. SharedOK'
      BY <2>16, <2>00 DEF Publish, SharedOK, TypeOK, store
    <3>2. PICK woken \in SUBSET Requests :
            /\ woken \subseteq {f \in Requests : pc[f] = "follow"}
            /\ pc' = [f \in Requests |-> IF f \in woken THEN "shared" ELSE IF f = r THEN "record" ELSE pc[f]]
            /\ mem' = [f \in Requests |-> IF f \in woken
                                         THEN [mem[f] EXCEPT !.answer = mem[r].answer] ELSE mem[f]]
            /\ UNCHANGED cancelled
      BY <2>16 DEF Publish, Followers
    <3>3. \A f \in woken : mem[f] \in Memory /\ [mem[f] EXCEPT !.answer = mem[r].answer] \in Memory
      <4> SUFFICES ASSUME NEW f \in woken PROVE mem[f] \in Memory /\ [mem[f] EXCEPT !.answer = mem[r].answer] \in Memory
        OBVIOUS
      <4>1. mem[f] \in Memory
        BY <3>2, LocalMemory
      <4>2. mem[r].answer \in Answers \cup {Nobody}
        BY <2>0 DEF Memory
      <4> QED BY <4>1, <4>2 DEF Memory
    <3>4. Open' = Open
      BY <2>0, <3>2 DEF Open, TypeOK
    <3>5. pc' \in [Requests -> Places] /\ mem' \in [Requests -> Memory \cup {Nobody}]
      BY <3>2, <3>3 DEF TypeOK, Places
    <3>6. \A q \in Requests : q \in Open' <=> mem'[q] # Nobody
      BY <3>2, <3>3, <3>4, NobodyAssumption DEF TypeOK
    <3> QED BY <3>1, <3>2, <3>4, <3>5, <3>6 DEF TypeOK, SharedOK, LocalOK
  <2> QED BY <1>7, <2>1, <2>2, <2>3, <2>4, <2>5, <2>6, <2>7, <2>8, <2>9, <2>10, <2>11, <2>12, <2>13, <2>14, <2>15, <2>16 DEF Step, Check
<1> QED BY <1>1, <1>2, <1>3, <1>4, <1>5, <1>6, <1>7 DEF Next

\* Requests have locals exactly while they are open, pages and counters stay in
\* their ranges: the handlers of approval.go and usage.go keep the types.
THEOREM TypeCorrect == Spec => []TypeOK
BY InitType, TypeStep, PTL DEF Spec

----------------------------------------------------------------------------
(* What the steps of a check do to its request *)

Kept(m, n) ==
    n.address = m.address /\ n.on = m.on /\ n.day = m.day /\ n.leader = m.leader /\ n.hit = m.hit

\* The end of check, or of its enumeration, keeps what identifies the request.
LEMMA AnsweredKeeps ==
    ASSUME NEW m \in Loose, NEW st \in {"success", "partial", "failed"}
    PROVE  Kept(m, Answered(m, st)) /\ Kept(m, AfterList(m))
BY DEF Answered, AfterList, Kept, Loose

\* So does a failing call; it counts at most one upstream call.
LEMMA FailsKeeps ==
    ASSUME TypeOK, NEW r \in Requests, r \in Open, NEW m \in Memory, Fails(r, m)
    PROVE  /\ Kept(m, mem'[r]) /\ mem' = [mem EXCEPT ![r] = mem'[r]]
           /\ usage' = usage \/ Charge(r)
BY DEF TypeOK, Fails, Unpaid, Unsure, Kept, Memory

Walk(r) ==
    \/ ListPage(r) \/ ListFails(r) \/ Risk(r) \/ Decimals(r) \/ Conclude(r)
    \/ \E s \in Spenders : Verify(r, s)

\* A step of check writes nothing shared but the counter of upstream calls.
LEMMA Walks ==
    ASSUME TypeOK, NEW r \in Requests, Walk(r)
    PROVE  /\ UNCHANGED <<today, seen, lock, cache, inflight, cancelled>>
           /\ usage' = usage \/ Charge(r)
           /\ pc[r] \in Checking /\ pc'[r] \in Checking
           /\ \A q \in Requests : q # r => pc'[q] = pc[q] /\ mem'[q] = mem[q]
           /\ Kept(mem[r], mem'[r])
<1>0. /\ pc[r] \in Checking /\ pc[r] \notin {"idle", "done"} /\ mem[r] \in Memory /\ r \in Open
  <2>1. pc[r] \in Checking /\ pc[r] \notin {"idle", "done"}
    BY DEF Walk, ListPage, ListFails, Risk, Decimals, Conclude, Verify, Checking
  <2> QED BY <2>1, LocalMemory
<1>1. /\ UNCHANGED <<today, seen, lock, cache, inflight, cancelled>>
      /\ usage' = usage \/ Charge(r)
  BY DEF Walk, ListPage, ListFails, Risk, Decimals, Conclude, Verify, quiet, store, Fails, Unpaid, Unsure, Pay
<1>2. pc'[r] \in Checking /\ \A q \in Requests : q # r => pc'[q] = pc[q]
  BY <1>0 DEF Walk, ListPage, ListFails, Risk, Decimals, Conclude, Verify, Goto, Enumerated, Checking, TypeOK
<1>3. \A q \in Requests : q # r => mem'[q] = mem[q]
  BY <1>0 DEF Walk, ListPage, ListFails, Risk, Decimals, Conclude, Verify, Fails, Unpaid, Unsure, TypeOK
<1>4. Kept(mem[r], mem'[r])
  <2>1. CASE ListPage(r)
    <3>1. PICK entries \in Pages(mem[r].address, mem[r].start) :
              mem'[r] = NextPage(mem[r], entries) \/ mem'[r] = AfterList(NextPage(mem[r], entries))
      BY <2>1, <1>0, Page DEF TypeOK
    <3> DEFINE next == NextPage(mem[r], entries)
    <3>3. Kept(mem[r], next)
      BY <1>0 DEF Kept, Memory, NextPage
    <3>4. Kept(next, AfterList(next))
      BY <1>0, PageType, AnsweredKeeps
    <3> QED BY <3>1, <3>3, <3>4 DEF Kept
  <2>2. CASE ListFails(r)
    <3>1. AfterList(mem[r]) \in Memory /\ Kept(mem[r], AfterList(mem[r]))
      BY <1>0, MemoryLoose, AnsweredType, AnsweredKeeps
    <3>2. Kept(AfterList(mem[r]), mem'[r])
      BY <2>2, <1>0, <3>1, FailsKeeps DEF ListFails
    <3> QED BY <3>1, <3>2 DEF Kept
  <2>3. CASE Risk(r)
    BY <2>3, <1>0, FailsKeeps DEF Risk, Kept
  <2>4. CASE Decimals(r)
    <3> DEFINE m == [mem[r] EXCEPT !.pending = mem[r].found]
    <3>1. m \in Memory /\ Kept(mem[r], m) /\ Kept(m, [m EXCEPT !.decimals = TRUE])
      BY <1>0 DEF Memory, Kept
    <3>2. Fails(r, m) \/ mem'[r] = [m EXCEPT !.decimals = TRUE]
      BY <2>4, <1>0 DEF Decimals, TypeOK
    <3> HIDE DEF m
    <3>3. Kept(m, mem'[r])
      BY <3>1, <3>2, <1>0, FailsKeeps
    <3> QED BY <3>1, <3>3 DEF Kept
  <2>5. ASSUME NEW s \in Spenders, Verify(r, s) PROVE Kept(mem[r], mem'[r])
    <3> DEFINE m == [mem[r] EXCEPT !.pending = mem[r].pending \ {s}]
    <3>1. m \in Memory /\ Kept(mem[r], m) /\ Kept(m, [m EXCEPT !.verified = @ \cup {s}])
      BY <1>0 DEF Memory, Kept
    <3>2. Fails(r, m) \/ mem'[r] = [m EXCEPT !.verified = @ \cup {s}]
      BY <2>5, <1>0 DEF Verify, TypeOK
    <3> HIDE DEF m
    <3>3. Kept(m, mem'[r])
      BY <3>1, <3>2, <1>0, FailsKeeps
    <3> QED BY <3>1, <3>3 DEF Kept
  <2>6. CASE Conclude(r)
    <3>1. \E st \in {"success", "partial", "failed"} : mem'[r] = Answered(mem[r], st)
      BY <2>6, <1>0 DEF Conclude, TypeOK
    <3> QED BY <3>1, <1>0, MemoryLoose, AnsweredKeeps
  <2> QED BY <2>1, <2>2, <2>3, <2>4, <2>5, <2>6 DEF Walk
<1> QED BY <1>0, <1>1, <1>2, <1>3, <1>4

\* Whoever is about to publish or to count a result has one.
Answering == \A r \in Requests : pc[r] \in {"store", "publish", "shared", "record"} => mem[r].answer \in Answers

\* A check that comes to storing or publishing has its answer.
LEMMA WalkAnswers ==
    ASSUME TypeOK, NEW r \in Requests, Walk(r), pc'[r] \in {"store", "publish"}
    PROVE  mem'[r].answer \in Answers
<1>0. mem[r] \in Memory /\ mem[r] \in Loose
  BY Walks, LocalMemory, MemoryLoose DEF Checking
<1>1. ASSUME NEW m \in Loose, NEW st \in {"success", "partial", "failed"} PROVE Answered(m, st).answer \in Answers
  BY <1>1 DEF Answered, Answers, Loose
<1>2. CASE ListPage(r)
  <2>1. PICK entries \in Pages(mem[r].address, mem[r].start) :
              IF PageEnds(mem[r], entries) \/ LastPage(mem[r].page)
              THEN /\ mem' = [mem EXCEPT ![r] = AfterList(NextPage(mem[r], entries))]
                   /\ Goto(r, Enumerated(NextPage(mem[r], entries)))
              ELSE mem' = [mem EXCEPT ![r] = NextPage(mem[r], entries)] /\ UNCHANGED pc
    BY <1>2, Page
  <2> DEFINE next == NextPage(mem[r], entries)
  <2>2. Enumerated(next) = "publish" /\ mem'[r] = AfterList(next)
    BY <1>0, <1>2, <2>1 DEF Goto, Enumerated, TypeOK, ListPage
  <2>3. mem'[r] = Answered(next, "failed") /\ next \in Loose
    BY <1>0, <2>2, PageType DEF AfterList
  <2> QED BY <1>1, <2>3
<1>3. CASE ListFails(r)
  <2>1. Enumerated(mem[r]) = "publish" /\ AfterList(mem[r]) = Answered(mem[r], "failed")
    BY <1>3 DEF ListFails, Goto, TypeOK, Enumerated, AfterList
  <2>2. AfterList(mem[r]) \in Memory /\ AfterList(mem[r]).answer \in Answers
    BY <1>0, <1>1, <2>1, AnsweredType
  <2>3. /\ [AfterList(mem[r]) EXCEPT !.refused = today].answer = AfterList(mem[r]).answer
        /\ [AfterList(mem[r]) EXCEPT !.cut = @ \/ r \in cancelled].answer = AfterList(mem[r]).answer
    BY <2>2 DEF Memory
  <2> QED BY <1>0, <1>3, <2>2, <2>3 DEF ListFails, Fails, Unpaid, Unsure, TypeOK
<1>4. CASE Conclude(r)
  BY <1>0, <1>1, <1>4 DEF Conclude, TypeOK
<1> QED BY <1>2, <1>3, <1>4 DEF Walk, Risk, Decimals, Verify, Goto, TypeOK

\* Every step keeps Answering.
LEMMA AnsweringStep == TypeOK /\ Answering /\ [Next]_vars => Answering'
<1> SUFFICES ASSUME TypeOK, Answering, [Next]_vars PROVE Answering'
  OBVIOUS
<1>1. CASE UNCHANGED vars
  BY <1>1 DEF vars, Answering
<1>2. CASE Tick \/ (\E a \in Addresses : Expire(a)) \/ (\E r \in Requests : Cancel(r))
  BY <1>2 DEF Tick, Expire, Cancel, Answering
<1>3. CASE \E i \in Instances : Crash(i)
  BY <1>3 DEF Crash, Answering
<1>4. ASSUME NEW r \in Requests,
             (\E a \in Addresses, i \in Instances : Call(r, a, i))
                \/ LockDay(r) \/ Reserve(r) \/ Refuse(r) \/ Lead(r) \/ Follow(r) \/ GiveUp(r) \/ Record(r)
      PROVE  Answering'
  BY <1>4 DEF Call, LockDay, Reserve, Refuse, Lead, Follow, GiveUp, Record, Return, Goto, Answering, TypeOK
<1>5. ASSUME NEW r \in Requests, ReadCache(r) PROVE Answering'
  <2>1. mem[r] \in Memory
    BY <1>5, LocalMemory DEF ReadCache
  <2>2. mem[r].address \in Addresses
    BY <2>1 DEF Memory
  <2>3. cache[mem[r].address] # Nobody => cache[mem[r].address] \in Answers
    BY <2>2 DEF TypeOK
  <2>4. pc'[r] = "record" => mem'[r].answer \in Answers
    BY <1>5, <2>1, <2>3 DEF ReadCache, Goto, TypeOK, Memory
  <2> QED BY <1>5, <2>4 DEF ReadCache, Goto, Answering, TypeOK
<1>6. ASSUME NEW r \in Requests, StoreCache(r) PROVE Answering'
  BY <1>6 DEF StoreCache, Goto, Answering, TypeOK
<1>7. ASSUME NEW r \in Requests, Publish(r) PROVE Answering'
  <2>1. mem[r].answer \in Answers
    BY <1>7 DEF Publish, Answering
  <2>2. \A f \in Followers(r) : mem[f] \in Memory
    BY LocalMemory DEF Followers
  <2>3. \A f \in Followers(r) : [mem[f] EXCEPT !.answer = mem[r].answer].answer = mem[r].answer
    BY <2>2 DEF Memory
  <2> QED BY <1>7, <2>1, <2>3 DEF Publish, Answering
<1>8. ASSUME NEW r \in Requests, Walk(r) PROVE Answering'
  BY <1>8, Walks, WalkAnswers DEF Answering, Checking
<1> QED BY <1>1, <1>2, <1>3, <1>4, <1>5, <1>6, <1>7, <1>8 DEF Next, Step, Check, Walk

----------------------------------------------------------------------------
(* Budgets *)

\* A transaction that has read the row still reads what is there.
Reserving == \A r \in Requests : pc[r] = "reserve" => lock[mem[r].day] = r /\ mem[r].read = Row(mem[r].day)
NothingSeen == \A d \in Days : usage[d] = Nobody => seen[d] = {}

BudgetInv == TypeOK /\ Answering /\ WithinBudgets /\ Reserving /\ NothingSeen

\* No request comes to "reserve", and those there keep what they have read.
Settled == \A q \in Requests : pc'[q] = "reserve" =>
             pc[q] = "reserve" /\ mem'[q].day = mem[q].day /\ mem'[q].read = mem[q].read

\* Steps that write no row keep the budgets.
LEMMA BudgetFrame ==
    ASSUME BudgetInv, Settled, UNCHANGED <<usage, seen>>,
           \A q \in Requests : pc'[q] = "reserve" => lock'[mem[q].day] = lock[mem[q].day]
    PROVE  WithinBudgets' /\ Reserving' /\ NothingSeen'
BY DEF BudgetInv, WithinBudgets, Reserving, NothingSeen, Settled, Row

\* Counting on a row that no transaction has locked keeps the budgets.
LEMMA BudgetBump ==
    ASSUME BudgetInv, Settled, NEW d \in Days, usage[d] # Nobody, lock[d] = Nobody,
           NEW keys \in SUBSET (Counters \ {"queries", "addresses"}), Bump(d, keys),
           "calls" \in keys => usage[d]["calls"] < UpstreamLimit,
           UNCHANGED <<seen, lock>>
    PROVE  WithinBudgets' /\ Reserving' /\ NothingSeen'
<1>1. usage[d] \in [Counters -> Nat] /\ UpstreamLimit \in Nat
  BY ApprovalsAssumption DEF BudgetInv, TypeOK
<1>2. /\ usage'[d] = [k \in Counters |-> IF k \in keys THEN usage[d][k] + 1 ELSE usage[d][k]]
      /\ \A e \in Days : e # d => usage'[e] = usage[e]
  BY DEF Bump, BudgetInv, TypeOK
<1>3. usage'[d] # Nobody
  <2>1. usage'[d] \in [Counters -> Nat]
    BY <1>1, <1>2
  <2> QED BY <2>1, NobodyAssumption
<1>4. /\ usage'[d]["queries"] = usage[d]["queries"] /\ usage'[d]["addresses"] = usage[d]["addresses"]
      /\ usage'[d]["calls"] <= UpstreamLimit
  <2>1. usage'[d]["queries"] = usage[d]["queries"] /\ usage'[d]["addresses"] = usage[d]["addresses"]
    BY <1>2 DEF Counters
  <2>2. usage[d]["calls"] <= UpstreamLimit /\ usage[d]["calls"] \in Nat
    BY <1>1 DEF BudgetInv, WithinBudgets, Counters
  <2>3. usage'[d]["calls"] = IF "calls" \in keys THEN usage[d]["calls"] + 1 ELSE usage[d]["calls"]
    BY <1>2 DEF Counters
  <2> QED BY <1>1, <2>1, <2>2, <2>3
<1>5. WithinBudgets'
  BY <1>2, <1>4 DEF BudgetInv, WithinBudgets
<1>6. NothingSeen'
  BY <1>2, <1>3 DEF BudgetInv, NothingSeen
<1>7. Reserving'
  <2> SUFFICES ASSUME NEW q \in Requests, pc'[q] = "reserve"
               PROVE  lock'[mem'[q].day] = q /\ mem'[q].read = Row(mem[q].day)'
    BY DEF Reserving
  <2>1. /\ lock[mem[q].day] = q /\ mem[q].read = Row(mem[q].day)
        /\ mem'[q].day = mem[q].day /\ mem'[q].read = mem[q].read
    BY DEF BudgetInv, Reserving, Settled
  <2>2. mem[q].day # d /\ mem[q].day \in Days
    <3>1. mem[q] \in Memory
      BY LocalMemory DEF BudgetInv, Settled
    <3> QED BY <2>1, <3>1, ApprovalsAssumption DEF Memory
  <2>3. usage'[mem'[q].day] = usage[mem[q].day]
    BY <1>2, <2>1, <2>2
  <2> QED BY <2>1, <2>3 DEF Row
<1> QED BY <1>5, <1>6, <1>7

\* The conditional update of ReserveUpstreamCall keeps the budgets.
LEMMA BudgetCharge ==
    ASSUME BudgetInv, Settled, NEW r \in Requests, Charge(r), UNCHANGED <<seen, lock>>
    PROVE  WithinBudgets' /\ Reserving' /\ NothingSeen'
<1>1. today \in Days /\ usage[today] # Nobody /\ lock[today] = Nobody /\ Bump(today, {"calls"})
  BY DEF Charge, Free, BudgetInv, TypeOK
<1>2. usage[today]["calls"] < UpstreamLimit
  <2>1. usage[today] \in [Counters -> Nat]
    BY <1>1 DEF BudgetInv, TypeOK
  <2>2. usage[today]["calls"] \in Nat /\ UpstreamLimit \in Nat
    BY <2>1, ApprovalsAssumption DEF Counters
  <2> QED BY <2>2 DEF Charge, Spent
<1>3. {"calls"} \in SUBSET (Counters \ {"queries", "addresses"})
  BY DEF Counters
<1> QED BY <1>1, <1>2, <1>3, BudgetBump

\* So do the writes of ReserveQuery: the row is still as it was read under the lock.
LEMMA BudgetReserve ==
    ASSUME BudgetInv, NEW r \in Requests, Reserve(r)
    PROVE  WithinBudgets' /\ Reserving' /\ NothingSeen'
<1> DEFINE d == mem[r].day
           a == mem[r].address
           row == Row(d)
<1>1. mem[r] \in Memory /\ d \in Days /\ a \in Addresses /\ row \in [Counters -> Nat]
  <2>1. mem[r] \in Memory
    BY LocalMemory DEF BudgetInv, Reserve
  <2>2. d \in Days /\ a \in Addresses
    BY <2>1 DEF Memory
  <2>3. row \in [Counters -> Nat]
    BY <2>2 DEF Row, FreshRow, BudgetInv, TypeOK
  <2> QED BY <2>1, <2>2, <2>3
<1>2. lock[d] = r /\ mem[r].read = row /\ ~Exceeds(r)
  BY DEF BudgetInv, Reserving, Reserve
<1>3. /\ usage' = [usage EXCEPT ![d] = [row EXCEPT !["queries"] = row["queries"] + 1,
                                 !["addresses"] = IF New(r) THEN row["addresses"] + 1 ELSE row["addresses"]]]
      /\ seen' = [seen EXCEPT ![d] = seen[d] \cup {a}]
      /\ lock' = Unlocked(r)
      /\ pc'[r] # "reserve"
      /\ \A q \in Requests : q # r => pc'[q] = pc[q] /\ mem'[q] = mem[q]
  <2>1. pc \in [Requests -> Places] /\ mem \in [Requests -> Memory \cup {Nobody}]
    BY DEF BudgetInv, TypeOK
  <2> QED BY <2>1 DEF Reserve, Return, Goto, Counters
<1>4. row["queries"] < QueryLimit /\ (New(r) => row["addresses"] < AddressLimit)
  BY <1>1, <1>2, ApprovalsAssumption DEF Exceeds, Counters
<1>5. /\ usage'[d]["queries"] = row["queries"] + 1
      /\ usage'[d]["addresses"] = (IF New(r) THEN row["addresses"] + 1 ELSE row["addresses"])
      /\ usage'[d]["calls"] = row["calls"]
      /\ usage'[d] # Nobody
      /\ \A e \in Days \ {d} : usage'[e] = usage[e] /\ seen'[e] = seen[e]
      /\ seen'[d] = seen[d] \cup {a}
  <2>1. [row EXCEPT !["queries"] = row["queries"] + 1,
                    !["addresses"] = IF New(r) THEN row["addresses"] + 1 ELSE row["addresses"]]
           \in [Counters -> Nat]
    BY <1>1 DEF Counters
  <2> QED BY <1>1, <1>3, <2>1, NobodyAssumption DEF BudgetInv, TypeOK, Counters
<1>6. /\ row["queries"] \in Nat /\ row["addresses"] \in Nat /\ row["calls"] \in Nat
      /\ QueryLimit \in Nat /\ AddressLimit \in Nat /\ UpstreamLimit \in Nat
  BY <1>1, ApprovalsAssumption DEF Counters
<1>7. /\ row["addresses"] = Cardinality(seen[d]) /\ row["addresses"] <= AddressLimit
      /\ row["calls"] <= UpstreamLimit
  <2>1. CASE usage[d] = Nobody
    <3>1. row["addresses"] = 0 /\ row["calls"] = 0 /\ seen[d] = {}
      BY <1>1, <2>1 DEF Row, FreshRow, Counters, BudgetInv, NothingSeen
    <3> QED BY <3>1, <1>6, FS_EmptySet
  <2>2. CASE usage[d] # Nobody
    BY <1>1, <2>2 DEF Row, BudgetInv, WithinBudgets
  <2> QED BY <2>1, <2>2
<1>8. Cardinality(seen'[d]) = usage'[d]["addresses"]
  <2>1. IsFiniteSet(seen[d])
    <3>1. seen[d] \subseteq Addresses
      BY <1>1 DEF BudgetInv, TypeOK
    <3>2. IsFiniteSet(Addresses)
      BY ApprovalsAssumption
    <3> QED BY <3>1, <3>2, FS_Subset
  <2>2. Cardinality(seen[d] \cup {a}) = IF a \in seen[d] THEN Cardinality(seen[d]) ELSE Cardinality(seen[d]) + 1
    BY <2>1, FS_AddElement
  <2> QED BY <1>5, <1>7, <2>2 DEF New
<1>9. WithinBudgets'
  <2>1. usage'[d]["queries"] <= QueryLimit /\ usage'[d]["addresses"] <= AddressLimit /\ usage'[d]["calls"] <= UpstreamLimit
    BY <1>4, <1>5, <1>6, <1>7
  <2> QED BY <1>5, <1>8, <2>1 DEF BudgetInv, WithinBudgets
<1>10. NothingSeen'
  BY <1>5 DEF BudgetInv, NothingSeen
<1>11. Reserving'
  <2> SUFFICES ASSUME NEW q \in Requests, pc'[q] = "reserve"
               PROVE  lock'[mem'[q].day] = q /\ mem'[q].read = Row(mem[q].day)'
    BY DEF Reserving
  <2>1. q # r /\ pc[q] = "reserve" /\ mem'[q] = mem[q]
    BY <1>3
  <2>2. lock[mem[q].day] = q /\ mem[q].read = Row(mem[q].day) /\ mem[q].day \in Days
    <3>1. mem[q] \in Memory
      BY <2>1, LocalMemory DEF BudgetInv
    <3> QED BY <2>1, <3>1 DEF BudgetInv, Reserving, Memory
  <2>3. mem[q].day # d /\ lock'[mem[q].day] = q
    BY <1>2, <1>3, <2>1, <2>2 DEF Unlocked
  <2>4. usage'[mem'[q].day] = usage[mem[q].day]
    BY <1>5, <2>1, <2>2, <2>3
  <2> QED BY <2>1, <2>2, <2>3, <2>4 DEF Row
<1> QED BY <1>9, <1>10, <1>11

\* Every step keeps the budgets.
LEMMA BudgetStep == BudgetInv /\ [Next]_vars => BudgetInv'
<1> SUFFICES ASSUME BudgetInv, [Next]_vars PROVE WithinBudgets' /\ Reserving' /\ NothingSeen'
  BY TypeStep, AnsweringStep DEF BudgetInv
<1>1. CASE UNCHANGED vars
  BY <1>1, BudgetFrame DEF vars, Settled
<1>2. CASE Tick
  BY <1>2, BudgetFrame DEF Tick, Settled, store
<1>3. ASSUME NEW a \in Addresses, Expire(a) PROVE WithinBudgets' /\ Reserving' /\ NothingSeen'
  BY <1>3, BudgetFrame DEF Expire, Settled, store
<1>4. ASSUME NEW i \in Instances, Crash(i) PROVE WithinBudgets' /\ Reserving' /\ NothingSeen'
  <2> DEFINE here == {r \in Requests : mem[r] # Nobody /\ mem[r].on = i}
  <2>1. /\ pc' = [r \in Requests |-> IF r \in here THEN "done" ELSE pc[r]]
        /\ mem' = [r \in Requests |-> IF r \in here THEN Nobody ELSE mem[r]]
        /\ lock' = [d \in Days |-> IF lock[d] \in here THEN Nobody ELSE lock[d]]
        /\ UNCHANGED <<usage, seen>>
    BY <1>4 DEF Crash
  <2> HIDE DEF here
  <2>2. Settled /\ \A q \in Requests : pc'[q] = "reserve" => q \notin here /\ pc[q] = "reserve"
    BY <2>1 DEF Settled
  <2>3. ASSUME NEW q \in Requests, pc'[q] = "reserve" PROVE lock'[mem[q].day] = lock[mem[q].day]
    <3>1. lock[mem[q].day] = q /\ mem[q] \in Memory
      BY <2>2, <2>3, LocalMemory DEF BudgetInv, Reserving
    <3> QED BY <2>1, <2>2, <2>3, <3>1 DEF Memory
  <2> QED BY <2>1, <2>2, <2>3, BudgetFrame
<1>5. ASSUME NEW r \in Requests, Cancel(r) PROVE WithinBudgets' /\ Reserving' /\ NothingSeen'
  BY <1>5, BudgetFrame DEF Cancel, Settled, store
<1>6. ASSUME NEW r \in Requests, NEW a \in Addresses, NEW i \in Instances, Call(r, a, i)
      PROVE  WithinBudgets' /\ Reserving' /\ NothingSeen'
  <2>1. Settled
    BY <1>6 DEF Call, Settled, Goto, BudgetInv, TypeOK
  <2> QED BY <1>6, <2>1, BudgetFrame DEF Call, store
<1>7. ASSUME NEW r \in Requests, Step(r) PROVE WithinBudgets' /\ Reserving' /\ NothingSeen'
  <2>1. CASE LockDay(r)
    <3>0. mem[r] \in Memory /\ mem[r].day \in Days
      BY <2>1, LocalMemory DEF LockDay, BudgetInv, Memory
    <3>1. /\ lock' = [lock EXCEPT ![mem[r].day] = r] /\ lock[mem[r].day] = Nobody
          /\ mem' = [mem EXCEPT ![r] = [mem[r] EXCEPT !.read = Row(mem[r].day)]]
          /\ pc' = [pc EXCEPT ![r] = "reserve"] /\ UNCHANGED <<usage, seen>>
      BY <2>1 DEF LockDay, Goto
    <3>2. WithinBudgets' /\ NothingSeen'
      BY <3>1 DEF BudgetInv, WithinBudgets, NothingSeen
    <3>3. ASSUME NEW q \in Requests, pc'[q] = "reserve"
          PROVE  lock'[mem'[q].day] = q /\ mem'[q].read = Row(mem[q].day)'
      <4>1. CASE q = r
        <5>1. mem'[r].day = mem[r].day /\ mem'[r].read = Row(mem[r].day)
          BY <3>0, <3>1 DEF Memory, BudgetInv, TypeOK
        <5> QED BY <3>0, <3>1, <4>1, <5>1 DEF Row, BudgetInv, TypeOK
      <4>2. CASE q # r
        <5>1. mem'[q] = mem[q] /\ pc[q] = "reserve"
          BY <3>1, <3>3, <4>2 DEF BudgetInv, TypeOK
        <5>2. lock[mem[q].day] = q /\ mem[q].read = Row(mem[q].day) /\ mem[q].day # mem[r].day
          BY <3>1, <5>1, ApprovalsAssumption DEF BudgetInv, Reserving
        <5> QED BY <3>0, <3>1, <5>1, <5>2 DEF Row, BudgetInv, TypeOK
      <4> QED BY <4>1, <4>2
    <3> QED BY <3>2, <3>3 DEF Reserving
  <2>2. CASE Reserve(r)
    BY <2>2, BudgetReserve
  <2>3. CASE Refuse(r)
    <3>1. /\ pc' = [pc EXCEPT ![r] = "done"] /\ mem' = [mem EXCEPT ![r] = Nobody]
          /\ lock' = Unlocked(r) /\ UNCHANGED <<usage, seen>>
      BY <2>3 DEF Refuse, Return, Goto
    <3>2. Settled /\ \A q \in Requests : pc'[q] = "reserve" => q # r /\ pc[q] = "reserve"
      BY <3>1 DEF Settled, BudgetInv, TypeOK
    <3>3. ASSUME NEW q \in Requests, pc'[q] = "reserve" PROVE lock'[mem[q].day] = lock[mem[q].day]
      <4>1. lock[mem[q].day] = q /\ mem[q] \in Memory
        BY <3>2, <3>3, LocalMemory DEF BudgetInv, Reserving
      <4> QED BY <3>1, <3>2, <3>3, <4>1 DEF Memory, Unlocked
    <3> QED BY <3>1, <3>2, <3>3, BudgetFrame
  <2>4. CASE ReadCache(r) \/ Lead(r) \/ Follow(r) \/ GiveUp(r) \/ StoreCache(r)
    <3>1. Settled
      BY <2>4 DEF ReadCache, Lead, Follow, GiveUp, StoreCache, Return, Goto, Settled, BudgetInv, TypeOK
    <3>2. UNCHANGED <<usage, seen, lock>>
      BY <2>4 DEF ReadCache, Lead, Follow, GiveUp, StoreCache, store
    <3> QED BY <3>1, <3>2, BudgetFrame
  <2>5. CASE Publish(r)
    <3>1. Settled /\ UNCHANGED <<usage, seen, lock>>
      BY <2>5 DEF Publish, Followers, Settled, store
    <3> QED BY <3>1, BudgetFrame
  <2>6. CASE Record(r)
    <3>0. mem[r] \in Memory /\ mem[r].day \in Days
      BY <2>6, LocalMemory DEF Record, BudgetInv, Memory
    <3>1. Settled /\ UNCHANGED <<seen, lock>>
      BY <2>6 DEF Record, Return, Goto, Settled, BudgetInv, TypeOK
    <3>2. CASE UNCHANGED usage
      BY <3>1, <3>2, BudgetFrame
    <3>3. CASE usage[mem[r].day] # Nobody
               /\ Bump(mem[r].day, IF mem[r].hit THEN {mem[r].answer.status, "hits"} ELSE {mem[r].answer.status})
      <4>1. mem[r].answer.status \in {"success", "partial", "failed"}
        BY <2>6, <3>0 DEF Record, BudgetInv, Answering, Answers
      <4> DEFINE keys == IF mem[r].hit THEN {mem[r].answer.status, "hits"} ELSE {mem[r].answer.status}
      <4>2. keys \in SUBSET (Counters \ {"queries", "addresses"}) /\ "calls" \notin keys
        BY <4>1 DEF Counters
      <4>3. lock[mem[r].day] = Nobody
        BY <2>6, <3>3 DEF Record, Free
      <4> QED BY <3>0, <3>1, <3>3, <4>2, <4>3, BudgetBump
    <3> QED BY <2>6, <3>2, <3>3 DEF Record, Counted
  <2>7. CASE Walk(r)
    <3>1. Settled /\ UNCHANGED <<seen, lock>> /\ (usage' = usage \/ Charge(r))
      BY <2>7, Walks DEF BudgetInv, Settled, Checking
    <3> QED BY <3>1, BudgetFrame, BudgetCharge
  <2> QED BY <1>7, <2>1, <2>2, <2>3, <2>4, <2>5, <2>6, <2>7 DEF Step, Check, Walk
<1> QED BY <1>1, <1>2, <1>3, <1>4, <1>5, <1>6, <1>7 DEF Next

\* No day admits more queries, addresses or TRONSCAN and TronGrid calls than its
\* limits, however the transactions of ReserveQuery and the updates of
\* ReserveUpstreamCall interleave over instances, midnights and crashes.
THEOREM BudgetsHold == Spec => []WithinBudgets
<1>1. Init => BudgetInv
  <2> SUFFICES ASSUME Init PROVE BudgetInv
    OBVIOUS
  <2>1. WithinBudgets /\ Reserving /\ NothingSeen /\ Answering
    BY DEF Init, WithinBudgets, Reserving, NothingSeen, Answering
  <2> QED BY <2>1, InitType DEF BudgetInv
<1>2. BudgetInv => WithinBudgets
  BY DEF BudgetInv
<1> QED BY <1>1, <1>2, BudgetStep, PTL DEF Spec

----------------------------------------------------------------------------
(* Calls in flight *)

\* What is registered is a check that runs there; followers have seen one.
Leading ==
    /\ \A i \in Instances, a \in Addresses : inflight[i][a] # Nobody =>
          /\ pc[inflight[i][a]] \in Checking
          /\ mem[inflight[i][a]].on = i /\ mem[inflight[i][a]].address = a
    /\ \A r \in Requests : pc[r] = "follow" => mem[r].leader # Nobody

FlightInv == TypeOK /\ FollowersHaveALeader /\ Leading

\* What the invariant says of one request.
LEMMA FlightFacts ==
    ASSUME FlightInv, NEW r \in Requests, pc[r] \in Checking \cup {"join", "follow"}
    PROVE  /\ r \in Open /\ mem[r] \in Memory
           /\ mem[r].on \in Instances /\ mem[r].address \in Addresses
           /\ pc[r] \in Checking => Leader(r) = r
           /\ pc[r] = "follow" => /\ Leader(r) = mem[r].leader /\ Leader(r) \in Requests
                                 /\ pc[Leader(r)] \in Checking
<1>1. r \in Open /\ mem[r] \in Memory
  BY LocalMemory DEF FlightInv, Checking
<1>2. mem[r].on \in Instances /\ mem[r].address \in Addresses /\ mem[r].leader \in Requests \cup {Nobody}
  BY <1>1 DEF Memory
<1> QED BY <1>1, <1>2 DEF FlightInv, FollowersHaveALeader, Leading

\* Steps that leave the inflight maps alone keep them in order.
LEMMA FlightFrame ==
    ASSUME FlightInv, UNCHANGED inflight,
           \A q \in Requests : pc'[q] \in Checking <=> pc[q] \in Checking,
           \A q \in Requests : pc[q] \in Checking => Kept(mem[q], mem'[q]),
           \A q \in Requests : pc'[q] = "follow" => pc[q] = "follow" /\ Kept(mem[q], mem'[q])
    PROVE  FollowersHaveALeader' /\ Leading'
<1>1. \A r \in Requests : pc'[r] \in Checking => Leader(r)' = r
  BY FlightFacts DEF Leader, Kept
<1>2. \A r \in Requests : pc'[r] = "follow" =>
         Leader(r)' = mem'[r].leader /\ pc'[Leader(r)'] \in Checking /\ mem'[r].leader # Nobody
  <2> SUFFICES ASSUME NEW r \in Requests, pc'[r] = "follow"
               PROVE  Leader(r)' = mem'[r].leader /\ pc'[Leader(r)'] \in Checking /\ mem'[r].leader # Nobody
    OBVIOUS
  <2>1. pc[r] = "follow" /\ Kept(mem[r], mem'[r])
    OBVIOUS
  <2>2. Leader(r) = mem[r].leader /\ Leader(r) \in Requests /\ pc[Leader(r)] \in Checking
    BY <2>1, FlightFacts
  <2>3. Leader(r)' = Leader(r) /\ mem'[r].leader = mem[r].leader
    BY <2>1 DEF Leader, Kept
  <2> QED BY <2>2, <2>3, ApprovalsAssumption
<1>3. ASSUME NEW i \in Instances, NEW a \in Addresses, inflight'[i][a] # Nobody
      PROVE  /\ pc'[inflight'[i][a]] \in Checking
             /\ mem'[inflight'[i][a]].on = i /\ mem'[inflight'[i][a]].address = a
  <2>1. inflight[i][a] \in Requests
    BY <1>3 DEF FlightInv, TypeOK
  <2> QED BY <1>3, <2>1 DEF FlightInv, Leading, Kept
<1> QED BY <1>1, <1>2, <1>3 DEF FollowersHaveALeader, Leading, Open

\* Registering a check where there is none keeps them in order.
LEMMA FlightLead ==
    ASSUME FlightInv, NEW r \in Requests, Lead(r)
    PROVE  FollowersHaveALeader' /\ Leading'
<1> DEFINE i == mem[r].on
           a == mem[r].address
<1>1. i \in Instances /\ a \in Addresses /\ inflight[i][a] = Nobody
  BY FlightFacts DEF Lead, Leader
<1>2. /\ inflight' = [inflight EXCEPT ![i] = [inflight[i] EXCEPT ![a] = r]]
      /\ pc' = [pc EXCEPT ![r] = "list"] /\ UNCHANGED mem
  BY DEF Lead, Goto
<1>3. /\ inflight'[i][a] = r
      /\ \A j \in Instances, b \in Addresses : j # i \/ b # a => inflight'[j][b] = inflight[j][b]
  BY <1>1, <1>2 DEF FlightInv, TypeOK
<1>4. pc'[r] = "list" /\ "list" \in Checking /\ pc[r] = "join" /\ \A q \in Requests : q # r => pc'[q] = pc[q]
  BY <1>2 DEF FlightInv, TypeOK, Checking, Lead
<1>5. \A q \in Requests : pc[q] \in Checking \cup {"follow"} /\ q # r =>
         /\ Leader(q) # Nobody /\ (mem[q].on # i \/ mem[q].address # a)
         /\ Leader(q)' = Leader(q)
  <2> SUFFICES ASSUME NEW q \in Requests, pc[q] \in Checking \cup {"follow"}, q # r
               PROVE  /\ Leader(q) # Nobody /\ (mem[q].on # i \/ mem[q].address # a)
                      /\ Leader(q)' = Leader(q)
    OBVIOUS
  <2>1. /\ Leader(q) # Nobody /\ mem[q].on \in Instances /\ mem[q].address \in Addresses
    BY FlightFacts, ApprovalsAssumption
  <2>2. mem[q].on # i \/ mem[q].address # a
    BY <1>1, <2>1 DEF Leader
  <2>3. Leader(q)' = Leader(q)
    BY <1>2, <1>3, <2>1, <2>2 DEF Leader
  <2> QED BY <2>1, <2>2, <2>3
<1>6. \A q \in Requests : pc'[q] \in Checking => Leader(q)' = q
  BY <1>2, <1>3, <1>4, <1>5, FlightFacts DEF Leader
<1>7. \A q \in Requests : pc'[q] = "follow" =>
         Leader(q)' = mem'[q].leader /\ pc'[Leader(q)'] \in Checking /\ mem'[q].leader # Nobody
  <2> SUFFICES ASSUME NEW q \in Requests, pc'[q] = "follow"
               PROVE  Leader(q)' = mem'[q].leader /\ pc'[Leader(q)'] \in Checking /\ mem'[q].leader # Nobody
    OBVIOUS
  <2>1. q # r /\ pc[q] = "follow"
    BY <1>4
  <2>2. /\ Leader(q)' = Leader(q) /\ Leader(q) = mem[q].leader /\ Leader(q) \in Requests /\ pc[Leader(q)] \in Checking
    BY <1>5, <2>1, FlightFacts
  <2> QED BY <1>2, <1>4, <2>2, ApprovalsAssumption
<1>8. ASSUME NEW j \in Instances, NEW b \in Addresses, inflight'[j][b] # Nobody
      PROVE  /\ pc'[inflight'[j][b]] \in Checking
             /\ mem'[inflight'[j][b]].on = j /\ mem'[inflight'[j][b]].address = b
  <2>1. CASE j = i /\ b = a
    BY <1>2, <1>3, <1>4, <2>1
  <2>2. CASE j # i \/ b # a
    <3>1. inflight'[j][b] = inflight[j][b] /\ inflight[j][b] \in Requests
      BY <1>3, <1>8, <2>2 DEF FlightInv, TypeOK
    <3> QED BY <1>2, <1>4, <1>8, <3>1 DEF FlightInv, Leading
  <2> QED BY <2>1, <2>2
<1> QED BY <1>6, <1>7, <1>8 DEF FollowersHaveALeader, Leading, Open

\* Publishing wakes all that wait for the check it removes.
LEMMA FlightPublish ==
    ASSUME FlightInv, NEW r \in Requests, Publish(r)
    PROVE  FollowersHaveALeader' /\ Leading'
<1> DEFINE i == mem[r].on
           a == mem[r].address
<1>1. i \in Instances /\ a \in Addresses /\ inflight[i][a] = r /\ pc[r] = "publish"
  BY FlightFacts DEF Publish, Leader, Checking
<1>2. /\ inflight' = [inflight EXCEPT ![i] = [inflight[i] EXCEPT ![a] = Nobody]]
      /\ pc' = [f \in Requests |-> IF f \in Followers(r) THEN "shared" ELSE IF f = r THEN "record" ELSE pc[f]]
      /\ mem' = [f \in Requests |-> IF f \in Followers(r)
                                    THEN [mem[f] EXCEPT !.answer = mem[r].answer] ELSE mem[f]]
  BY DEF Publish
<1>3. /\ inflight'[i][a] = Nobody
      /\ \A j \in Instances, b \in Addresses : j # i \/ b # a => inflight'[j][b] = inflight[j][b]
  BY <1>1, <1>2 DEF FlightInv, TypeOK
<1>4. \A q \in Requests : pc'[q] \in Checking \cup {"follow"} =>
         q # r /\ q \notin Followers(r) /\ pc'[q] = pc[q] /\ mem'[q] = mem[q]
  BY <1>2 DEF Checking
<1>5. \A q \in Requests : pc[q] \in Checking /\ q # r => pc'[q] = pc[q] /\ mem'[q] = mem[q]
  BY <1>2 DEF Followers, Checking
<1>6. \A q \in Requests : pc'[q] \in Checking \cup {"follow"} => Leader(q) # r /\ Leader(q)' = Leader(q)
  <2> SUFFICES ASSUME NEW q \in Requests, pc'[q] \in Checking \cup {"follow"}
               PROVE  Leader(q) # r /\ Leader(q)' = Leader(q)
    OBVIOUS
  <2>1. q # r /\ q \notin Followers(r) /\ pc'[q] = pc[q] /\ mem'[q] = mem[q]
    BY <1>4
  <2>2. Leader(q) # r /\ mem[q].on \in Instances /\ mem[q].address \in Addresses
    BY <2>1, FlightFacts DEF Followers
  <2>3. mem[q].on # i \/ mem[q].address # a
    BY <1>1, <2>2 DEF Leader
  <2> QED BY <1>3, <2>1, <2>2, <2>3 DEF Leader
<1>7. \A q \in Requests : pc'[q] \in Checking => Leader(q)' = q
  BY <1>4, <1>6, FlightFacts
<1>8. \A q \in Requests : pc'[q] = "follow" =>
         Leader(q)' = mem'[q].leader /\ pc'[Leader(q)'] \in Checking /\ mem'[q].leader # Nobody
  <2> SUFFICES ASSUME NEW q \in Requests, pc'[q] = "follow"
               PROVE  Leader(q)' = mem'[q].leader /\ pc'[Leader(q)'] \in Checking /\ mem'[q].leader # Nobody
    OBVIOUS
  <2>1. /\ Leader(q)' = Leader(q) /\ Leader(q) = mem[q].leader /\ mem'[q] = mem[q]
        /\ Leader(q) \in Requests /\ pc[Leader(q)] \in Checking /\ Leader(q) # r
    BY <1>4, <1>6, FlightFacts
  <2> QED BY <1>5, <2>1, ApprovalsAssumption
<1>9. ASSUME NEW j \in Instances, NEW b \in Addresses, inflight'[j][b] # Nobody
      PROVE  /\ pc'[inflight'[j][b]] \in Checking
             /\ mem'[inflight'[j][b]].on = j /\ mem'[inflight'[j][b]].address = b
  <2>1. j # i \/ b # a
    BY <1>3, <1>9
  <2>2. inflight'[j][b] = inflight[j][b] /\ inflight[j][b] \in Requests
    BY <1>3, <1>9, <2>1 DEF FlightInv, TypeOK
  <2>3. /\ pc[inflight[j][b]] \in Checking
        /\ mem[inflight[j][b]].on = j /\ mem[inflight[j][b]].address = b
    BY <1>9, <2>2 DEF FlightInv, Leading
  <2> QED BY <1>5, <2>1, <2>2, <2>3
<1> QED BY <1>7, <1>8, <1>9 DEF FollowersHaveALeader, Leading, Open

\* A crash takes an instance's checks and their followers together.
LEMMA FlightCrash ==
    ASSUME FlightInv, NEW i \in Instances, Crash(i)
    PROVE  FollowersHaveALeader' /\ Leading'
<1> DEFINE here == {r \in Requests : mem[r] # Nobody /\ mem[r].on = i}
<1>1. /\ pc' = [r \in Requests |-> IF r \in here THEN "done" ELSE pc[r]]
      /\ mem' = [r \in Requests |-> IF r \in here THEN Nobody ELSE mem[r]]
      /\ inflight' = [inflight EXCEPT ![i] = [a \in Addresses |-> Nobody]]
  BY DEF Crash
<1>2. /\ \A a \in Addresses : inflight'[i][a] = Nobody
      /\ \A j \in Instances : j # i => inflight'[j] = inflight[j]
  BY <1>1 DEF FlightInv, TypeOK
<1>3. \A q \in Requests : mem[q] \in Memory /\ mem[q].on # i => pc'[q] = pc[q] /\ mem'[q] = mem[q]
  BY <1>1
<1>4. \A q \in Requests : pc'[q] \in Checking \cup {"follow"} =>
         pc'[q] = pc[q] /\ mem'[q] = mem[q] /\ mem[q].on # i /\ Leader(q)' = Leader(q)
  <2> SUFFICES ASSUME NEW q \in Requests, pc'[q] \in Checking \cup {"follow"}
               PROVE  pc'[q] = pc[q] /\ mem'[q] = mem[q] /\ mem[q].on # i /\ Leader(q)' = Leader(q)
    OBVIOUS
  <2>1. q \notin here /\ pc'[q] = pc[q] /\ mem'[q] = mem[q]
    BY <1>1 DEF Checking
  <2>2. mem[q].on # i /\ mem[q].on \in Instances
    BY <2>1, FlightFacts, NobodyAssumption
  <2> QED BY <1>2, <2>1, <2>2 DEF Leader
<1>5. ASSUME NEW j \in Instances, NEW b \in Addresses, inflight'[j][b] # Nobody
      PROVE  /\ pc'[inflight'[j][b]] \in Checking
             /\ mem'[inflight'[j][b]].on = j /\ mem'[inflight'[j][b]].address = b
  <2>1. j # i /\ inflight'[j][b] = inflight[j][b] /\ inflight[j][b] \in Requests
    BY <1>2, <1>5 DEF FlightInv, TypeOK
  <2>2. /\ pc[inflight[j][b]] \in Checking
        /\ mem[inflight[j][b]].on = j /\ mem[inflight[j][b]].address = b
    BY <1>5, <2>1 DEF FlightInv, Leading
  <2>3. mem[inflight[j][b]] \in Memory
    BY <2>1, <2>2, FlightFacts
  <2> QED BY <1>3, <2>1, <2>2, <2>3
<1>6. \A q \in Requests : pc'[q] \in Checking => Leader(q)' = q
  BY <1>4, FlightFacts
<1>7. \A q \in Requests : pc'[q] = "follow" =>
         Leader(q)' = mem'[q].leader /\ pc'[Leader(q)'] \in Checking /\ mem'[q].leader # Nobody
  <2> SUFFICES ASSUME NEW q \in Requests, pc'[q] = "follow"
               PROVE  Leader(q)' = mem'[q].leader /\ pc'[Leader(q)'] \in Checking /\ mem'[q].leader # Nobody
    OBVIOUS
  <2>1. /\ Leader(q)' = Leader(q) /\ Leader(q) = mem[q].leader /\ mem'[q] = mem[q] /\ mem[q].on # i
        /\ Leader(q) \in Requests /\ pc[Leader(q)] \in Checking
        /\ mem[q].on \in Instances /\ mem[q].address \in Addresses
    BY <1>4, FlightFacts
  <2>2. mem[Leader(q)].on = mem[q].on /\ mem[Leader(q)] \in Memory
    <3>1. Leader(q) = inflight[mem[q].on][mem[q].address] /\ Leader(q) # Nobody
      BY <2>1, ApprovalsAssumption DEF Leader
    <3>2. mem[Leader(q)].on = mem[q].on
      BY <2>1, <3>1 DEF FlightInv, Leading
    <3> QED BY <2>1, <3>2, FlightFacts
  <2> QED BY <1>3, <2>1, <2>2, ApprovalsAssumption
<1> QED BY <1>5, <1>6, <1>7 DEF FollowersHaveALeader, Leading, Open

\* Every step keeps the inflight maps in order.
LEMMA FlightStep == FlightInv /\ [Next]_vars => FlightInv'
<1> SUFFICES ASSUME FlightInv, [Next]_vars PROVE FollowersHaveALeader' /\ Leading'
  BY TypeStep DEF FlightInv
<1>1. CASE UNCHANGED vars \/ Tick \/ (\E a \in Addresses : Expire(a)) \/ (\E r \in Requests : Cancel(r))
  <2>1. UNCHANGED <<inflight, pc, mem>>
    BY <1>1 DEF vars, Tick, Expire, Cancel
  <2> QED BY <2>1, FlightFrame DEF Kept
<1>2. CASE \E i \in Instances : Crash(i)
  BY <1>2, FlightCrash
<1>3. ASSUME NEW r \in Requests,
             (\E a \in Addresses, i \in Instances : Call(r, a, i))
                \/ LockDay(r) \/ Reserve(r) \/ Refuse(r) \/ ReadCache(r) \/ GiveUp(r) \/ Record(r)
      PROVE  FollowersHaveALeader' /\ Leading'
  <2>1. UNCHANGED inflight /\ pc[r] \notin Checking /\ pc'[r] \notin Checking \cup {"follow"}
    BY <1>3 DEF Call, LockDay, Reserve, Refuse, ReadCache, GiveUp, Record, Return, Goto, Checking, FlightInv, TypeOK
  <2>2. \A q \in Requests : q # r => pc'[q] = pc[q] /\ mem'[q] = mem[q]
    BY <1>3 DEF Call, LockDay, Reserve, Refuse, ReadCache, GiveUp, Record, Return, Goto, FlightInv, TypeOK
  <2> QED BY <2>1, <2>2, FlightFrame DEF Kept
<1>4. ASSUME NEW r \in Requests, Follow(r) PROVE FollowersHaveALeader' /\ Leading'
  <2>0. mem[r] \in Memory /\ mem[r].on \in Instances /\ mem[r].address \in Addresses
    BY <1>4, FlightFacts DEF Follow
  <2>1. /\ UNCHANGED inflight /\ pc[r] = "join" /\ pc'[r] = "follow"
        /\ \A q \in Requests : q # r => pc'[q] = pc[q] /\ mem'[q] = mem[q]
        /\ mem'[r].on = mem[r].on /\ mem'[r].address = mem[r].address /\ mem'[r].leader = Leader(r)
    BY <1>4, <2>0 DEF Follow, Goto, FlightInv, TypeOK, Memory
  <2>2. Leader(r)' = Leader(r) /\ Leader(r) \in Requests /\ Leader(r) # Nobody /\ pc[Leader(r)] \in Checking
    BY <1>4, <2>0, <2>1 DEF Follow, Leader, FlightInv, TypeOK, Leading
  <2>3. \A q \in Requests : q # r /\ pc'[q] \in Checking \cup {"follow"} => Leader(q)' = Leader(q)
    BY <2>1 DEF Leader
  <2>4. \A q \in Requests : pc'[q] \in Checking => q # r /\ Leader(q)' = q
    BY <2>1, <2>3, FlightFacts DEF Checking
  <2>5. \A q \in Requests : pc[q] \in Checking => pc'[q] \in Checking /\ mem'[q] = mem[q]
    BY <2>1 DEF Checking
  <2>6. \A q \in Requests : pc'[q] = "follow" =>
           Leader(q)' = mem'[q].leader /\ pc'[Leader(q)'] \in Checking /\ mem'[q].leader # Nobody
    <3> SUFFICES ASSUME NEW q \in Requests, pc'[q] = "follow"
                 PROVE  Leader(q)' = mem'[q].leader /\ pc'[Leader(q)'] \in Checking /\ mem'[q].leader # Nobody
      OBVIOUS
    <3>1. CASE q = r
      BY <2>1, <2>2, <2>5, <3>1
    <3>2. CASE q # r
      <4>1. Leader(q)' = Leader(q) /\ mem'[q] = mem[q] /\ pc[q] = "follow"
        BY <2>1, <2>3, <3>2
      <4>2. Leader(q) = mem[q].leader /\ Leader(q) \in Requests /\ pc[Leader(q)] \in Checking
        BY <4>1, FlightFacts
      <4> QED BY <2>5, <4>1, <4>2, ApprovalsAssumption
    <3> QED BY <3>1, <3>2
  <2>7. ASSUME NEW j \in Instances, NEW b \in Addresses, inflight'[j][b] # Nobody
        PROVE  /\ pc'[inflight'[j][b]] \in Checking
               /\ mem'[inflight'[j][b]].on = j /\ mem'[inflight'[j][b]].address = b
    <3>1. inflight'[j][b] = inflight[j][b] /\ inflight[j][b] \in Requests
      BY <2>1, <2>7 DEF FlightInv, TypeOK
    <3> QED BY <2>5, <2>7, <3>1 DEF FlightInv, Leading
  <2> QED BY <2>4, <2>6, <2>7 DEF FollowersHaveALeader, Leading, Open
<1>5. ASSUME NEW r \in Requests, StoreCache(r) PROVE FollowersHaveALeader' /\ Leading'
  <2>1. /\ UNCHANGED <<inflight, mem>> /\ pc[r] \in Checking /\ pc'[r] \in Checking /\ pc'[r] # "follow"
        /\ \A q \in Requests : q # r => pc'[q] = pc[q]
    BY <1>5 DEF StoreCache, Goto, Checking, FlightInv, TypeOK
  <2> QED BY <2>1, FlightFrame DEF Kept
<1>6. ASSUME NEW r \in Requests, Walk(r) PROVE FollowersHaveALeader' /\ Leading'
  <2>1. \A q \in Requests : pc'[q] \in Checking <=> pc[q] \in Checking
    BY <1>6, Walks DEF FlightInv
  <2>2. \A q \in Requests : pc[q] \in Checking => Kept(mem[q], mem'[q])
    BY <1>6, Walks DEF FlightInv, Kept
  <2>3. \A q \in Requests : pc'[q] = "follow" => pc[q] = "follow" /\ Kept(mem[q], mem'[q])
    BY <1>6, Walks DEF FlightInv, Kept, Checking
  <2> QED BY <1>6, <2>1, <2>2, <2>3, Walks, FlightFrame DEF FlightInv
<1> QED BY <1>1, <1>2, <1>3, <1>4, <1>5, <1>6, FlightLead, FlightPublish DEF Next, Step, Check, Walk

\* CheckTronUSDTApprovals registers one check per address and instance, and
\* whoever waits on its channel waits for a request that will close it.
THEOREM FlightHolds == Spec => []FollowersHaveALeader
<1>1. Init => FlightInv
  <2> SUFFICES ASSUME Init PROVE FlightInv
    OBVIOUS
  <2>1. FollowersHaveALeader /\ Leading
    BY DEF Init, FollowersHaveALeader, Leading, Open
  <2> QED BY <2>1, InitType DEF FlightInv
<1>2. FlightInv => FollowersHaveALeader
  BY DEF FlightInv
<1> QED BY <1>1, <1>2, FlightStep, PTL DEF Spec

----------------------------------------------------------------------------
(* What the cache may hold *)

\* Only a request whose context has ended sees errors of its context, and what
\* is about to be stored has not failed.
Cutting ==
    \A r \in Requests : r \in Open =>
        /\ mem[r].cut => r \in cancelled
        /\ pc[r] = "store" => /\ mem[r].answer.status # "failed"
                              /\ mem[r].answer.cut => r \in cancelled

CutInv == TypeOK /\ Answering /\ CacheUnspoiled /\ Cutting

\* A failing call leaves what the check has found as it is.
Held(m, n) ==
    n.address = m.address /\ n.found = m.found /\ n.complete = m.complete /\ n.answer = m.answer

\* A failing call changes nothing of the result so far, and is cut only by its own context.
LEMMA FailsHolds ==
    ASSUME TypeOK, NEW r \in Requests, r \in Open, NEW m \in Memory, Fails(r, m)
    PROVE  Held(m, mem'[r]) /\ (mem'[r].cut => m.cut \/ r \in cancelled)
BY DEF TypeOK, Fails, Unpaid, Unsure, Held, Memory

\* The answer at the end of check carries its status and what was verified.
LEMMA AnsweredHolds ==
    ASSUME NEW m \in Loose, NEW st \in {"success", "partial", "failed"}
    PROVE  /\ Answered(m, st).address = m.address /\ Answered(m, st).cut = m.cut
           /\ Answered(m, st).answer = [status |-> st, verified |-> m.verified, cut |-> m.cut]
           /\ AfterList(m).cut = m.cut
           /\ IF Enumerated(m) = "publish" THEN AfterList(m) = Answered(m, "failed")
                                           ELSE Held(m, AfterList(m))
BY DEF Answered, AfterList, Held, Loose

\* A step of check is cut only by its own context; what it stores has not failed.
LEMMA WalkCut ==
    ASSUME TypeOK, NEW r \in Requests, Walk(r)
    PROVE  /\ mem'[r].cut => mem[r].cut \/ r \in cancelled
           /\ pc'[r] = "store" => mem'[r].answer.status # "failed" /\ mem'[r].answer.cut = mem[r].cut
<1>0. /\ mem[r] \in Memory /\ mem[r] \in Loose /\ r \in Open /\ mem \in [Requests -> Memory \cup {Nobody}]
      /\ pc \in [Requests -> Places]
  BY Walks, LocalMemory, MemoryLoose DEF Checking, TypeOK
<1>1. CASE ListPage(r)
  <2>1. PICK entries \in Pages(mem[r].address, mem[r].start) :
            /\ mem'[r] = NextPage(mem[r], entries) \/ mem'[r] = AfterList(NextPage(mem[r], entries))
            /\ pc'[r] # "store"
    <3>1. PICK entries \in Pages(mem[r].address, mem[r].start) :
              IF PageEnds(mem[r], entries) \/ LastPage(mem[r].page)
              THEN /\ mem' = [mem EXCEPT ![r] = AfterList(NextPage(mem[r], entries))]
                   /\ Goto(r, Enumerated(NextPage(mem[r], entries)))
              ELSE mem' = [mem EXCEPT ![r] = NextPage(mem[r], entries)] /\ UNCHANGED pc
      BY <1>1, Page
    <3>2. pc[r] = "list"
      BY <1>1 DEF ListPage
    <3>3. CASE PageEnds(mem[r], entries) \/ LastPage(mem[r].page)
      BY <1>0, <3>1, <3>3 DEF Goto, Enumerated
    <3>4. CASE ~(PageEnds(mem[r], entries) \/ LastPage(mem[r].page))
      BY <1>0, <3>1, <3>2, <3>4
    <3> QED BY <3>3, <3>4
  <2>2. NextPage(mem[r], entries) \in Loose /\ NextPage(mem[r], entries).cut = mem[r].cut
    <3>1. NextPage(mem[r], entries).cut = mem[r].cut
      BY <1>0 DEF NextPage, Memory
    <3> QED BY <1>0, <3>1, PageType
  <2> QED BY <2>1, <2>2, AnsweredHolds
<1>2. CASE ListFails(r)
  <2>1. AfterList(mem[r]) \in Memory /\ AfterList(mem[r]).cut = mem[r].cut
    BY <1>0, AnsweredType, AnsweredHolds
  <2>2. pc'[r] # "store"
    BY <1>0, <1>2 DEF ListFails, Goto, Enumerated
  <2> QED BY <1>0, <1>2, <2>1, <2>2, FailsHolds DEF ListFails
<1>3. CASE Risk(r)
  BY <1>0, <1>3, FailsHolds DEF Risk, Goto
<1>4. CASE Decimals(r)
  <2> DEFINE m == [mem[r] EXCEPT !.pending = mem[r].found]
  <2>1. m \in Memory /\ m.cut = mem[r].cut /\ [m EXCEPT !.decimals = TRUE].cut = mem[r].cut
    BY <1>0 DEF Memory
  <2>2. (Fails(r, m) \/ mem'[r] = [m EXCEPT !.decimals = TRUE]) /\ pc'[r] # "store"
    BY <1>0, <1>4 DEF Decimals, Goto
  <2> HIDE DEF m
  <2> QED BY <1>0, <2>1, <2>2, FailsHolds
<1>5. ASSUME NEW s \in Spenders, Verify(r, s)
      PROVE  (mem'[r].cut => mem[r].cut \/ r \in cancelled) /\ pc'[r] # "store"
  <2> DEFINE m == [mem[r] EXCEPT !.pending = mem[r].pending \ {s}]
  <2>1. m \in Memory /\ m.cut = mem[r].cut /\ [m EXCEPT !.verified = @ \cup {s}].cut = mem[r].cut
    BY <1>0 DEF Memory
  <2>2. (Fails(r, m) \/ mem'[r] = [m EXCEPT !.verified = @ \cup {s}]) /\ pc'[r] # "store"
    BY <1>0, <1>5 DEF Verify, Goto
  <2> HIDE DEF m
  <2> QED BY <1>0, <2>1, <2>2, FailsHolds
<1>6. CASE Conclude(r)
  <2>1. PICK st \in {"success", "partial"} : mem'[r] = Answered(mem[r], st)
    BY <1>0, <1>6 DEF Conclude
  <2>2. /\ mem'[r].cut = mem[r].cut
        /\ mem'[r].answer = [status |-> st, verified |-> mem[r].verified, cut |-> mem[r].cut]
    <3>1. st \in {"success", "partial", "failed"}
      OBVIOUS
    <3>2. mem[r] \in Loose
      BY <1>0
    <3>3. /\ Answered(mem[r], st).cut = mem[r].cut
          /\ Answered(mem[r], st).answer = [status |-> st, verified |-> mem[r].verified, cut |-> mem[r].cut]
      BY <3>1, <3>2, AnsweredHolds
    <3> QED BY <2>1, <3>3
  <2> QED BY <2>2
<1> QED BY <1>1, <1>2, <1>3, <1>4, <1>5, <1>6 DEF Walk

\* Every step keeps spoiled answers out of the cache.
LEMMA CutStep == CutInv /\ [Next]_vars => CutInv'
<1> SUFFICES ASSUME CutInv, [Next]_vars PROVE CacheUnspoiled' /\ Cutting'
  BY TypeStep, AnsweringStep DEF CutInv
<1>0. \A r \in Requests : (r \in Open <=> pc[r] \notin {"idle", "done"}) /\ (r \in Open' <=> pc'[r] \notin {"idle", "done"})
  BY DEF Open
<1>1. CASE UNCHANGED vars \/ Tick
  BY <1>1 DEF vars, Tick, CutInv, CacheUnspoiled, Cutting, Open
<1>2. ASSUME NEW a \in Addresses, Expire(a) PROVE CacheUnspoiled' /\ Cutting'
  BY <1>2 DEF Expire, CutInv, CacheUnspoiled, Cutting, Open, TypeOK
<1>3. ASSUME NEW r \in Requests, Cancel(r) PROVE CacheUnspoiled' /\ Cutting'
  BY <1>3 DEF Cancel, CutInv, CacheUnspoiled, Cutting, Open
<1>4. ASSUME NEW i \in Instances, Crash(i) PROVE CacheUnspoiled' /\ Cutting'
  <2>1. UNCHANGED cache /\ \A q \in Requests : q \in Open' =>
           /\ q \in Open /\ pc'[q] = pc[q] /\ mem'[q] = mem[q]
           /\ q \in cancelled => q \in cancelled'
    BY <1>0, <1>4 DEF Crash
  <2> QED BY <2>1 DEF CutInv, CacheUnspoiled, Cutting
<1>5. ASSUME NEW r \in Requests, Step(r) \/ \E a \in Addresses, i \in Instances : Call(r, a, i),
             UNCHANGED cache,
             \A q \in Requests : q # r => pc'[q] = pc[q] /\ mem'[q] = mem[q] /\ (q \in cancelled => q \in cancelled'),
             r \in Open' => /\ mem'[r].cut => r \in cancelled'
                            /\ pc'[r] = "store" => /\ mem'[r].answer.status # "failed"
                                                   /\ mem'[r].answer.cut => r \in cancelled'
      PROVE  CacheUnspoiled' /\ Cutting'
  <2>1. ASSUME NEW q \in Requests, q \in Open', q # r
        PROVE  /\ mem'[q].cut => q \in cancelled'
               /\ pc'[q] = "store" => /\ mem'[q].answer.status # "failed"
                                      /\ mem'[q].answer.cut => q \in cancelled'
    BY <1>0, <1>5, <2>1 DEF CutInv, Cutting
  <2> QED BY <1>5, <2>1 DEF CutInv, CacheUnspoiled, Cutting
<1>6. ASSUME NEW r \in Requests, NEW a \in Addresses, NEW i \in Instances, Call(r, a, i)
      PROVE  CacheUnspoiled' /\ Cutting'
  <2>1. pc'[r] = "begin" /\ mem'[r].cut = FALSE
    BY <1>6 DEF Call, Goto, CutInv, TypeOK
  <2> QED BY <1>5, <1>6, <2>1 DEF Call, Goto, CutInv, TypeOK
<1>7. ASSUME NEW r \in Requests, Reserve(r) \/ Refuse(r) \/ GiveUp(r) \/ Record(r), Return(r)
      PROVE  CacheUnspoiled' /\ Cutting'
  <2>1. r \notin Open' /\ UNCHANGED cache
    BY <1>0, <1>7 DEF Reserve, Refuse, GiveUp, Record, Return, Goto, CutInv, TypeOK, store
  <2> QED BY <1>5, <1>7, <2>1 DEF Return, Goto, CutInv, TypeOK, Step
<1>8. ASSUME NEW r \in Requests, LockDay(r) \/ (Reserve(r) /\ ~Return(r)) \/ ReadCache(r) \/ Lead(r) \/ Follow(r)
      PROVE  CacheUnspoiled' /\ Cutting'
  <2>0. mem[r] \in Memory /\ r \in Open
    BY <1>8, LocalMemory DEF LockDay, Reserve, ReadCache, Lead, Follow, CutInv
  <2>1. UNCHANGED <<cache, cancelled>> /\ pc'[r] # "store"
    BY <1>8 DEF LockDay, Reserve, ReadCache, Lead, Follow, Goto, CutInv, TypeOK, store
  <2>2. mem'[r].cut = mem[r].cut
    BY <1>8, <2>0 DEF LockDay, Reserve, ReadCache, Lead, Follow, CutInv, TypeOK, Memory
  <2>3. \A q \in Requests : q # r => pc'[q] = pc[q] /\ mem'[q] = mem[q]
    BY <1>8 DEF LockDay, Reserve, ReadCache, Lead, Follow, Goto, CutInv, TypeOK
  <2>4. Step(r) /\ (mem[r].cut => r \in cancelled)
    BY <1>8, <2>0 DEF Step, CutInv, Cutting
  <2> QED BY <1>5, <2>1, <2>2, <2>3, <2>4
<1>9. ASSUME NEW r \in Requests, Walk(r) PROVE CacheUnspoiled' /\ Cutting'
  <2>0. r \in Open /\ Step(r)
    BY <1>9, Walks, LocalMemory DEF CutInv, Checking, Walk, Step, Check
  <2>1. mem[r].cut => r \in cancelled
    BY <2>0 DEF CutInv, Cutting
  <2> QED BY <1>5, <1>9, <2>0, <2>1, Walks, WalkCut DEF CutInv
<1>10. ASSUME NEW r \in Requests, StoreCache(r) PROVE CacheUnspoiled' /\ Cutting'
  <2>0. mem[r] \in Memory /\ r \in Open /\ mem[r].address \in Addresses
    BY <1>10, LocalMemory DEF StoreCache, CutInv, Memory
  <2>1. mem[r].answer.status # "failed" /\ (mem[r].answer.cut => r \in cancelled)
    BY <1>10, <2>0 DEF StoreCache, CutInv, Cutting
  <2>2. CacheUnspoiled'
    BY <1>10, <2>0, <2>1 DEF StoreCache, CutInv, CacheUnspoiled, TypeOK
  <2>3. UNCHANGED <<mem, cancelled>> /\ pc' = [pc EXCEPT ![r] = "publish"]
    BY <1>10 DEF StoreCache, Goto
  <2> QED BY <1>0, <2>0, <2>2, <2>3 DEF CutInv, Cutting, TypeOK
<1>11. ASSUME NEW r \in Requests, Publish(r) PROVE CacheUnspoiled' /\ Cutting'
  <2>1. UNCHANGED <<cache, cancelled>> /\ \A q \in Requests : pc'[q] # "store" \/ (pc'[q] = pc[q] /\ mem'[q] = mem[q])
    BY <1>11 DEF Publish
  <2>2. ASSUME NEW q \in Requests, q \in Open' PROVE q \in Open /\ mem[q].cut = mem'[q].cut
    <3>1. q \in Open
      BY <1>0, <1>11, <2>2 DEF Publish, Followers
    <3>2. mem[q] \in Memory
      BY <3>1, LocalMemory DEF Open, CutInv
    <3> QED BY <1>11, <3>1, <3>2 DEF Publish, Memory
  <2> QED BY <1>0, <2>1, <2>2 DEF CutInv, CacheUnspoiled, Cutting
<1>12. ASSUME NEW r \in Requests, Step(r) PROVE CacheUnspoiled' /\ Cutting'
  <2>1. CASE Reserve(r)
    BY <2>1, <1>7, <1>8
  <2>2. CASE Refuse(r) \/ GiveUp(r) \/ Record(r)
    <3>1. Return(r)
      BY <2>2 DEF Refuse, GiveUp, Record
    <3> QED BY <2>2, <3>1, <1>7
  <2>3. CASE LockDay(r) \/ ReadCache(r) \/ Lead(r) \/ Follow(r)
    BY <2>3, <1>8
  <2>4. CASE Walk(r) \/ StoreCache(r) \/ Publish(r)
    BY <2>4, <1>9, <1>10, <1>11
  <2> QED BY <1>12, <2>1, <2>2, <2>3, <2>4 DEF Step, Check, Walk
<1> QED BY <1>1, <1>2, <1>3, <1>4, <1>6, <1>12 DEF Next

\* What check hands to storeCache and Redis keeps is neither a failure nor cut
\* short by the end of the context of the request that computed it.
THEOREM CacheHolds == Spec => []CacheUnspoiled
<1>1. Init => CutInv
  <2> SUFFICES ASSUME Init PROVE CutInv
    OBVIOUS
  <2>1. CacheUnspoiled /\ Cutting /\ Answering
    BY DEF Init, CacheUnspoiled, Cutting, Answering, Open
  <2> QED BY <2>1, InitType DEF CutInv
<1>2. CutInv => CacheUnspoiled
  BY DEF CutInv
<1> QED BY <1>1, <1>2, CutStep, PTL DEF Spec

----------------------------------------------------------------------------
(* What "success" means *)

\* The spenders among the first n entries of a's list.
ListedTo(a, n) == {Listing[a][k] : k \in 1..n} \cap Spenders

\* What the enumeration has found: nothing before it begins, then every
\* spender of the part that it has read, unless it has been truncated.
Enumeration(r) ==
    /\ pc[r] \in {"begin", "reserve", "cache", "join"} =>
          mem[r].start = 0 /\ mem[r].found = {} /\ mem[r].complete = FALSE
    /\ pc[r] = "list" =>
          /\ mem[r].complete = FALSE /\ mem[r].start <= Len(Listing[mem[r].address])
          /\ ~mem[r].truncated => mem[r].found = ListedTo(mem[r].address, mem[r].start)
    /\ pc[r] \in {"risk", "decimals", "verify"} /\ mem[r].complete =>
          mem[r].found = Listed(Listing[mem[r].address])

\* What holds of an open request.
Sound(r) == r \in Open => Enumeration(r) /\ Complete(mem[r].address, mem[r].answer)

CompleteInv == FlightInv /\ SuccessIsComplete /\ \A r \in Requests : Sound(r)

\* An untruncated page extends what was found by exactly its spenders, and the last one reaches the end of the list.
LEMMA PageFinds ==
    ASSUME NEW m \in Memory, NEW entries \in Pages(m.address, m.start),
           m.start <= Len(Listing[m.address]),
           ~m.truncated => m.found = ListedTo(m.address, m.start)
    PROVE  /\ PageStart(m, entries) <= Len(Listing[m.address])
           /\ ~PageCuts(m, entries) => Found(m.found, entries) = ListedTo(m.address, PageStart(m, entries))
           /\ PageEnds(m, entries) => PageStart(m, entries) = Len(Listing[m.address])
<1> DEFINE L == Listing[m.address]
           s == m.start
<1>1. L \in Seq(Entries) /\ s \in Nat /\ Len(L) \in Nat
  BY ApprovalsAssumption DEF Memory
<1>2. PICK n \in Nat : /\ entries = SubSeq(L, s + 1, s + n) /\ s + n <= Len(L)
                       /\ n = 0 => s = Len(L)
  <2>1. PICK n \in IF Len(L) - s = 0 THEN {0} ELSE {k \in 1..(Len(L) - s) : k <= PageSize} :
            entries = SubSeq(L, s + 1, s + n)
    BY DEF Pages
  <2>2. Len(L) - s \in Nat
    BY <1>1
  <2>3. n \in Nat /\ n <= Len(L) - s /\ (n = 0 => Len(L) - s = 0)
    BY <2>1, <2>2
  <2>4. s + n <= Len(L) /\ (n = 0 => s = Len(L))
    BY <1>1, <2>2, <2>3
  <2> QED BY <2>1, <2>3, <2>4
<1> DEFINE N == Len(L)
<1>2a. s \in Nat /\ N \in Nat /\ s + n <= N /\ (n = 0 => s = N)
  BY <1>1, <1>2
<1> HIDE DEF N, s
<1>3. Len(entries) = n /\ \A k \in 1..n : entries[k] = L[s + k]
  <2>1. \A i \in (s + 1)..(s + n) : L[i] \in Entries
    <3>1. \A i \in (s + 1)..(s + n) : i \in 1..N
      BY <1>2a
    <3> QED BY <1>1, <3>1 DEF N
  <2>2. s + 1 \in Int /\ s + n \in Int
    BY <1>1, <1>2
  <2>3. /\ Len(entries) = IF s + 1 <= s + n THEN (s + n) - (s + 1) + 1 ELSE 0
        /\ \A i \in 1..((s + n) - (s + 1) + 1) : entries[i] = L[(s + 1) + i - 1]
    BY <1>2, <2>1, <2>2, SubSeqProperties
  <2>4. (s + n) - (s + 1) + 1 = n /\ (s + 1 <= s + n <=> n # 0) /\ \A i \in 1..n : (s + 1) + i - 1 = s + i
    BY <1>2a
  <2> QED BY <2>3, <2>4
<1>4. PageStart(m, entries) = s + n
  BY <1>3 DEF PageStart, s
<1>5. PageEnds(m, entries) => PageStart(m, entries) = Len(L)
  BY <1>2a, <1>3, <1>4 DEF PageEnds, N
<1>6. ASSUME ~PageCuts(m, entries) PROVE Found(m.found, entries) = ListedTo(m.address, s + n)
  <2>1. m.found = ListedTo(m.address, s) /\ Listed(entries) \subseteq Found(m.found, entries)
    BY <1>6 DEF PageCuts, Truncates, s
  <2>2. Listed(entries) = {L[s + k] : k \in 1..n} \cap Spenders
    BY <1>3 DEF Listed
  <2>3. Found(m.found, entries) \subseteq m.found \cup Listed(entries) /\ m.found \subseteq Found(m.found, entries)
    BY DEF Found, Listed
  <2>4. {L[k] : k \in 1..(s + n)} = {L[k] : k \in 1..s} \cup {L[s + k] : k \in 1..n}
    <3>1. \A k \in 1..(s + n) : k \in 1..s \/ (k - s \in 1..n /\ s + (k - s) = k)
      BY <1>1
    <3>2. \A k \in 1..n : s + k \in 1..(s + n)
      BY <1>1
    <3>3. \A k \in 1..s : k \in 1..(s + n)
      BY <1>1
    <3>4. \A k \in 1..(s + n) : L[k] \in {L[j] : j \in 1..s} \cup {L[s + j] : j \in 1..n}
      BY <3>1
    <3> QED BY <3>2, <3>3, <3>4
  <2> QED BY <2>1, <2>2, <2>3, <2>4 DEF ListedTo
<1> QED BY <1>2, <1>4, <1>5, <1>6 DEF s

\* A step of check keeps what its request has found sound.
LEMMA WalkFinds ==
    ASSUME TypeOK, NEW r \in Requests, Walk(r), Sound(r)
    PROVE  Enumeration(r)' /\ Complete(mem'[r].address, mem'[r].answer)
<1>0. /\ mem[r] \in Memory /\ mem[r] \in Loose /\ r \in Open /\ mem \in [Requests -> Memory \cup {Nobody}]
      /\ pc \in [Requests -> Places]
  BY Walks, LocalMemory, MemoryLoose DEF Checking, TypeOK
<1>1. Enumeration(r) /\ Complete(mem[r].address, mem[r].answer)
  BY <1>0 DEF Sound
<1>2. \A a, v, c : Complete(a, [status |-> "failed", verified |-> v, cut |-> c])
  BY DEF Complete
<1>3. CASE ListPage(r)
  <2>0. pc[r] = "list"
    BY <1>3 DEF ListPage
  <2>1. PICK entries \in Pages(mem[r].address, mem[r].start) :
            IF PageEnds(mem[r], entries) \/ LastPage(mem[r].page)
            THEN /\ mem' = [mem EXCEPT ![r] = AfterList(NextPage(mem[r], entries))]
                 /\ Goto(r, Enumerated(NextPage(mem[r], entries)))
            ELSE mem' = [mem EXCEPT ![r] = NextPage(mem[r], entries)] /\ UNCHANGED pc
    BY <1>3, Page
  <2> DEFINE next == NextPage(mem[r], entries)
             L == Listing[mem[r].address]
  <2>2. /\ PageStart(mem[r], entries) <= Len(L)
        /\ ~PageCuts(mem[r], entries) => Found(mem[r].found, entries) = ListedTo(mem[r].address, PageStart(mem[r], entries))
        /\ PageEnds(mem[r], entries) => PageStart(mem[r], entries) = Len(L)
    BY <1>0, <1>1, <2>0, PageFinds DEF Enumeration
  <2>3. /\ next \in Loose /\ next.address = mem[r].address /\ next.answer = mem[r].answer
        /\ next.found = Found(mem[r].found, entries) /\ next.start = PageStart(mem[r], entries)
        /\ next.truncated = PageCuts(mem[r], entries)
        /\ next.complete = (PageEnds(mem[r], entries) /\ ~PageCuts(mem[r], entries))
    <3>1. next \in Loose
      BY <1>0, PageType
    <3> QED BY <1>0, <3>1 DEF NextPage, Memory
  <2>4. next.complete => next.found = Listed(L)
    BY <2>2, <2>3 DEF ListedTo, Listed
  <2> HIDE DEF next
  <2>5. CASE PageEnds(mem[r], entries) \/ LastPage(mem[r].page)
    <3>1. mem'[r] = AfterList(next) /\ pc'[r] = Enumerated(next)
      BY <1>0, <2>1, <2>5 DEF Goto, next
    <3>2. CASE Enumerated(next) = "publish"
      <4>1. mem'[r].answer = [status |-> "failed", verified |-> next.verified, cut |-> next.cut]
        <5>1. next \in Loose
          BY <2>3
        <5>2. AfterList(next) = Answered(next, "failed")
          BY <3>2, <5>1, AnsweredHolds
        <5>3. Answered(next, "failed").answer = [status |-> "failed", verified |-> next.verified, cut |-> next.cut]
          BY <5>1, AnsweredHolds
        <5> QED BY <3>1, <5>2, <5>3
      <4> QED BY <1>2, <3>1, <3>2, <4>1 DEF Enumeration
    <3>3. CASE Enumerated(next) = "risk"
      <4>1. Held(next, mem'[r])
        BY <2>3, <3>1, <3>3, AnsweredHolds
      <4> QED BY <1>1, <2>3, <2>4, <3>1, <3>3, <4>1 DEF Held, Enumeration
    <3> QED BY <3>2, <3>3 DEF Enumerated
  <2>6. CASE ~(PageEnds(mem[r], entries) \/ LastPage(mem[r].page))
    <3>1. mem'[r] = next /\ pc'[r] = "list"
      BY <1>0, <2>0, <2>1, <2>6 DEF next
    <3>2. next.complete = FALSE
      BY <2>3, <2>6
    <3> QED BY <1>1, <2>2, <2>3, <3>1, <3>2 DEF Enumeration
  <2> QED BY <2>5, <2>6
<1>4. CASE ListFails(r)
  <2>0. pc[r] = "list" /\ pc'[r] = Enumerated(mem[r]) /\ mem[r].complete = FALSE
    BY <1>0, <1>1, <1>4 DEF ListFails, Goto, Enumeration
  <2>1. AfterList(mem[r]) \in Memory
    BY <1>0, AnsweredType
  <2>2. Held(AfterList(mem[r]), mem'[r])
    BY <1>0, <1>4, <2>1, FailsHolds DEF ListFails
  <2>3. CASE Enumerated(mem[r]) = "publish"
    <3>1. AfterList(mem[r]).answer = [status |-> "failed", verified |-> mem[r].verified, cut |-> mem[r].cut]
      BY <1>0, <2>3, AnsweredHolds
    <3> QED BY <1>2, <2>0, <2>2, <2>3, <3>1 DEF Held, Enumeration
  <2>4. CASE Enumerated(mem[r]) = "risk"
    <3>1. Held(mem[r], AfterList(mem[r]))
      BY <1>0, <2>4, AnsweredHolds
    <3> QED BY <1>1, <2>0, <2>2, <2>4, <3>1 DEF Held, Enumeration
  <2> QED BY <2>3, <2>4 DEF Enumerated
<1>5. ASSUME Held(mem[r], mem'[r]), pc[r] \in {"risk", "decimals", "verify"}, pc'[r] \in {"decimals", "verify"}
      PROVE  Enumeration(r)' /\ Complete(mem'[r].address, mem'[r].answer)
  BY <1>1, <1>5 DEF Held, Enumeration
<1>6. CASE Risk(r)
  <2>1. Held(mem[r], mem'[r])
    BY <1>0, <1>6, FailsHolds DEF Risk, Held
  <2> QED BY <1>0, <1>5, <1>6, <2>1 DEF Risk, Goto
<1>7. CASE Decimals(r)
  <2> DEFINE m == [mem[r] EXCEPT !.pending = mem[r].found]
  <2>1. m \in Memory /\ Held(mem[r], m) /\ Held(m, [m EXCEPT !.decimals = TRUE])
    BY <1>0 DEF Memory, Held
  <2>2. /\ Fails(r, m) \/ mem'[r] = [m EXCEPT !.decimals = TRUE]
        /\ pc[r] = "decimals" /\ pc'[r] = "verify"
    BY <1>0, <1>7 DEF Decimals, Goto
  <2> HIDE DEF m
  <2>3. Held(m, mem'[r])
    BY <1>0, <2>1, <2>2, FailsHolds
  <2>4. Held(mem[r], mem'[r])
    BY <2>1, <2>3 DEF Held
  <2> QED BY <1>5, <2>2, <2>4
<1>8. ASSUME NEW s \in Spenders, Verify(r, s)
      PROVE  Enumeration(r)' /\ Complete(mem'[r].address, mem'[r].answer)
  <2> DEFINE m == [mem[r] EXCEPT !.pending = mem[r].pending \ {s}]
  <2>1. m \in Memory /\ Held(mem[r], m) /\ Held(m, [m EXCEPT !.verified = @ \cup {s}])
    BY <1>0 DEF Memory, Held
  <2>2. /\ Fails(r, m) \/ mem'[r] = [m EXCEPT !.verified = @ \cup {s}]
        /\ pc[r] = "verify" /\ pc'[r] = "verify"
    BY <1>0, <1>8 DEF Verify, Goto
  <2> HIDE DEF m
  <2>3. Held(m, mem'[r])
    BY <1>0, <2>1, <2>2, FailsHolds
  <2>4. Held(mem[r], mem'[r])
    BY <2>1, <2>3 DEF Held
  <2> QED BY <1>5, <2>2, <2>4
<1>9. CASE Conclude(r)
  <2> DEFINE status == IF mem[r].complete /\ mem[r].decimals /\ mem[r].verified = mem[r].found THEN "success" ELSE "partial"
  <2>1. mem'[r] = Answered(mem[r], status) /\ pc[r] = "verify" /\ pc'[r] = "store"
    BY <1>0, <1>9 DEF Conclude, Goto
  <2>2. status \in {"success", "partial", "failed"}
    OBVIOUS
  <2>3. status = "success" => mem[r].verified = Listed(Listing[mem[r].address])
    BY <1>1, <2>1 DEF Enumeration
  <2> HIDE DEF status
  <2>4. /\ mem'[r].address = mem[r].address
        /\ mem'[r].answer = [status |-> status, verified |-> mem[r].verified, cut |-> mem[r].cut]
    <3>1. mem[r] \in Loose
      BY <1>0
    <3>2. /\ Answered(mem[r], status).address = mem[r].address
          /\ Answered(mem[r], status).answer = [status |-> status, verified |-> mem[r].verified, cut |-> mem[r].cut]
      BY <2>2, <3>1, AnsweredHolds
    <3> QED BY <2>1, <3>2
  <2>5. Complete(mem'[r].address, mem'[r].answer)
    BY <2>3, <2>4 DEF Complete
  <2> QED BY <2>1, <2>5 DEF Enumeration
<1> QED BY <1>3, <1>4, <1>6, <1>7, <1>8, <1>9 DEF Walk

\* Every step keeps successful answers complete.
LEMMA CompleteStep == CompleteInv /\ [Next]_vars => CompleteInv'
<1> SUFFICES ASSUME CompleteInv, [Next]_vars
             PROVE  (\A a \in Addresses : Complete(a, cache'[a])) /\ (\A r \in Requests : Sound(r)')
  BY FlightStep DEF CompleteInv, SuccessIsComplete, Sound, Complete, Open
<1>0. /\ \A r \in Requests : (r \in Open <=> pc[r] \notin {"idle", "done"}) /\ (r \in Open' <=> pc'[r] \notin {"idle", "done"})
      /\ TypeOK /\ FlightInv /\ (\A a \in Addresses : Complete(a, cache[a])) /\ \A r \in Requests : Sound(r)
  BY DEF Open, CompleteInv, FlightInv, SuccessIsComplete
\* Requests that do not move, or end, stay sound.
<1>1. ASSUME NEW q \in Requests, q \in Open' => pc'[q] = pc[q] /\ mem'[q] = mem[q]
      PROVE  Sound(q)'
  BY <1>0, <1>1 DEF Sound, Enumeration
<1>2. CASE UNCHANGED vars \/ Tick \/ (\E r \in Requests : Cancel(r))
  <2>1. UNCHANGED <<pc, mem, cache>>
    BY <1>2 DEF vars, Tick, Cancel
  <2> QED BY <1>0, <1>1, <2>1
<1>3. ASSUME NEW a \in Addresses, Expire(a)
      PROVE  (\A b \in Addresses : Complete(b, cache'[b])) /\ (\A r \in Requests : Sound(r)')
  <2>1. UNCHANGED <<pc, mem>> /\ \A b \in Addresses : cache'[b] = cache[b] \/ cache'[b] = Nobody
    BY <1>0, <1>3 DEF Expire, TypeOK
  <2>2. \A b \in Addresses : Complete(b, cache'[b])
    BY <1>0, <2>1 DEF Complete
  <2> QED BY <1>1, <2>1, <2>2
<1>4. CASE \E i \in Instances : Crash(i)
  <2>1. UNCHANGED cache /\ \A q \in Requests : q \in Open' => pc'[q] = pc[q] /\ mem'[q] = mem[q]
    BY <1>0, <1>4 DEF Crash
  <2> QED BY <1>0, <1>1, <2>1
\* One request moves.
<1>5. ASSUME NEW r \in Requests, UNCHANGED cache, Sound(r)',
             \A q \in Requests : q # r => pc'[q] = pc[q] /\ mem'[q] = mem[q]
      PROVE  (\A a \in Addresses : Complete(a, cache'[a])) /\ (\A q \in Requests : Sound(q)')
  BY <1>0, <1>1, <1>5
<1>6. ASSUME NEW r \in Requests, NEW a \in Addresses, NEW i \in Instances, Call(r, a, i)
      PROVE  (\A b \in Addresses : Complete(b, cache'[b])) /\ (\A q \in Requests : Sound(q)')
  <2>1. /\ pc'[r] = "begin" /\ mem'[r].start = 0 /\ mem'[r].found = {} /\ mem'[r].complete = FALSE
        /\ mem'[r].answer = Nobody
    BY <1>0, <1>6 DEF Call, Goto, TypeOK
  <2>2. Sound(r)'
    BY <2>1 DEF Sound, Enumeration, Complete
  <2> QED BY <1>0, <1>5, <1>6, <2>2 DEF Call, Goto, TypeOK
<1>7. ASSUME NEW r \in Requests, Return(r), UNCHANGED cache
      PROVE  (\A b \in Addresses : Complete(b, cache'[b])) /\ (\A q \in Requests : Sound(q)')
  <2>1. r \notin Open' /\ \A q \in Requests : q # r => pc'[q] = pc[q] /\ mem'[q] = mem[q]
    BY <1>0, <1>7 DEF Return, Goto, TypeOK
  <2> QED BY <1>1, <1>5, <1>7, <2>1
<1>8. ASSUME NEW r \in Requests, LockDay(r) \/ (Reserve(r) /\ ~Return(r)) \/ Lead(r) \/ Follow(r)
      PROVE  (\A b \in Addresses : Complete(b, cache'[b])) /\ (\A q \in Requests : Sound(q)')
  <2>0. mem[r] \in Memory /\ r \in Open /\ Enumeration(r) /\ Complete(mem[r].address, mem[r].answer)
    BY <1>0, <1>8, LocalMemory DEF LockDay, Reserve, Lead, Follow, Sound
  <2>1. UNCHANGED cache /\ \A q \in Requests : q # r => pc'[q] = pc[q] /\ mem'[q] = mem[q]
    BY <1>0, <1>8 DEF LockDay, Reserve, Lead, Follow, Goto, TypeOK, store
  <2>2. /\ Held(mem[r], mem'[r]) /\ mem'[r].start = mem[r].start
        /\ pc[r] \in {"begin", "reserve", "cache", "join"} /\ pc'[r] \in {"reserve", "cache", "list", "follow"}
    BY <1>0, <1>8, <2>0 DEF LockDay, Reserve, Lead, Follow, Goto, TypeOK, Memory, Held
  <2>3. mem[r].start = 0 /\ mem[r].found = {} /\ mem[r].complete = FALSE
    BY <2>0, <2>2 DEF Enumeration
  <2>4. ListedTo(mem'[r].address, 0) = {} /\ 0 <= Len(Listing[mem'[r].address])
    <3>1. Listing[mem'[r].address] \in Seq(Entries)
      BY <2>0, <2>2, ApprovalsAssumption DEF Held, Memory
    <3> QED BY <3>1 DEF ListedTo
  <2>5. Sound(r)'
    BY <2>0, <2>2, <2>3, <2>4 DEF Held, Enumeration, Sound
  <2> QED BY <1>5, <2>1, <2>5
<1>9. ASSUME NEW r \in Requests, ReadCache(r)
      PROVE  (\A b \in Addresses : Complete(b, cache'[b])) /\ (\A q \in Requests : Sound(q)')
  <2>0. mem[r] \in Memory /\ mem[r].address \in Addresses /\ r \in Open /\ pc[r] = "cache"
    BY <1>0, <1>9, LocalMemory DEF ReadCache, Memory
  <2>1. UNCHANGED cache /\ \A q \in Requests : q # r => pc'[q] = pc[q] /\ mem'[q] = mem[q]
    BY <1>0, <1>9 DEF ReadCache, Goto, TypeOK
  <2>2. CASE pc'[r] = "record" /\ mem' = [mem EXCEPT ![r].answer = cache[mem[r].address], ![r].hit = TRUE]
    <3>1. mem'[r].address = mem[r].address /\ mem'[r].answer = cache[mem[r].address]
      BY <1>0, <2>0, <2>2 DEF TypeOK, Memory
    <3>2. Sound(r)'
      BY <1>0, <2>0, <2>2, <3>1 DEF Sound, Enumeration
    <3> QED BY <1>5, <2>1, <3>2
  <2>3. CASE pc'[r] = "join" /\ UNCHANGED mem
    <3>1. Sound(r)'
      BY <1>0, <2>0, <2>3 DEF Sound, Enumeration
    <3> QED BY <1>5, <2>1, <3>1
  <2> QED BY <1>0, <1>9, <2>2, <2>3 DEF ReadCache, Goto, TypeOK
<1>10. ASSUME NEW r \in Requests, StoreCache(r)
       PROVE  (\A b \in Addresses : Complete(b, cache'[b])) /\ (\A q \in Requests : Sound(q)')
  <2>0. mem[r] \in Memory /\ mem[r].address \in Addresses /\ r \in Open
    BY <1>0, <1>10, LocalMemory DEF StoreCache, Memory
  <2>1. Complete(mem[r].address, mem[r].answer)
    BY <1>0, <2>0 DEF Sound
  <2>2. \A b \in Addresses : Complete(b, cache'[b])
    BY <1>0, <1>10, <2>0, <2>1 DEF StoreCache, TypeOK
  <2>3. UNCHANGED mem /\ pc'[r] = "publish" /\ \A q \in Requests : q # r => pc'[q] = pc[q]
    BY <1>0, <1>10 DEF StoreCache, Goto, TypeOK
  <2>4. Sound(r)'
    BY <2>1, <2>3 DEF Sound, Enumeration
  <2> QED BY <1>1, <2>2, <2>3, <2>4
<1>11. ASSUME NEW r \in Requests, Publish(r)
       PROVE  (\A b \in Addresses : Complete(b, cache'[b])) /\ (\A q \in Requests : Sound(q)')
  <2>0. mem[r] \in Memory /\ r \in Open /\ Complete(mem[r].address, mem[r].answer) /\ Leader(r) = r
    BY <1>0, <1>11, FlightFacts DEF Publish, Sound, Checking
  <2>1. /\ UNCHANGED cache
        /\ pc' = [f \in Requests |-> IF f \in Followers(r) THEN "shared" ELSE IF f = r THEN "record" ELSE pc[f]]
        /\ mem' = [f \in Requests |-> IF f \in Followers(r)
                                      THEN [mem[f] EXCEPT !.answer = mem[r].answer] ELSE mem[f]]
    BY <1>11 DEF Publish
  <2>2. ASSUME NEW f \in Followers(r) PROVE Sound(f)'
    <3>1. f \in Requests /\ pc[f] = "follow" /\ mem[f].leader = r
      BY DEF Followers
    <3>2. mem[f] \in Memory /\ Leader(f) = r /\ mem[f].on \in Instances /\ mem[f].address \in Addresses
      BY <1>0, <3>1, FlightFacts
    <3>3. mem[r].address = mem[f].address
      <4>1. inflight[mem[f].on][mem[f].address] = r /\ r # Nobody
        BY <3>2, ApprovalsAssumption DEF Leader
      <4> QED BY <1>0, <3>2, <4>1 DEF FlightInv, Leading
    <3>4. mem'[f].address = mem[r].address /\ mem'[f].answer = mem[r].answer /\ pc'[f] = "shared"
      BY <2>1, <3>1, <3>2, <3>3 DEF Memory
    <3> QED BY <2>0, <3>4 DEF Sound, Enumeration
  <2>3. r \notin Followers(r)
    BY <1>11 DEF Publish, Followers
  <2>4. Sound(r)'
    BY <2>0, <2>1, <2>3 DEF Sound, Enumeration
  <2>5. ASSUME NEW q \in Requests, q # r, q \notin Followers(r) PROVE Sound(q)'
    BY <1>1, <2>1, <2>5
  <2> QED BY <1>0, <2>1, <2>2, <2>4, <2>5
<1>12. ASSUME NEW r \in Requests, Walk(r)
       PROVE  (\A b \in Addresses : Complete(b, cache'[b])) /\ (\A q \in Requests : Sound(q)')
  <2>1. Sound(r)'
    BY <1>0, <1>12, WalkFinds DEF Sound
  <2> QED BY <1>0, <1>5, <1>12, <2>1, Walks
<1>13. ASSUME NEW r \in Requests, Step(r)
       PROVE  (\A b \in Addresses : Complete(b, cache'[b])) /\ (\A q \in Requests : Sound(q)')
  <2>1. CASE Reserve(r) /\ Return(r)
    BY <2>1, <1>7 DEF Reserve
  <2>2. CASE Refuse(r) \/ GiveUp(r) \/ Record(r)
    <3>1. Return(r) /\ UNCHANGED cache
      BY <2>2 DEF Refuse, GiveUp, Record
    <3> QED BY <3>1, <1>7
  <2>3. CASE LockDay(r) \/ (Reserve(r) /\ ~Return(r)) \/ Lead(r) \/ Follow(r)
    BY <2>3, <1>8
  <2>4. CASE ReadCache(r) \/ Walk(r) \/ StoreCache(r) \/ Publish(r)
    BY <2>4, <1>9, <1>10, <1>11, <1>12
  <2> QED BY <1>13, <2>1, <2>2, <2>3, <2>4 DEF Step, Check, Walk
<1> QED BY <1>2, <1>3, <1>4, <1>6, <1>13 DEF Next

\* An answer with CheckStatusSuccess, computed, cached or shared, holds every
\* spender of the TRONSCAN list, whatever the pages, caps and failures were.
THEOREM SuccessHolds == Spec => []SuccessIsComplete
<1>1. Init => CompleteInv
  <2> SUFFICES ASSUME Init PROVE CompleteInv
    OBVIOUS
  <2>1. FollowersHaveALeader /\ Leading /\ Open = {} /\ \A a \in Addresses : Complete(a, cache[a])
    BY DEF Init, FollowersHaveALeader, Leading, Open, Complete
  <2> QED BY <2>1, InitType DEF CompleteInv, FlightInv, SuccessIsComplete, Sound
<1>2. CompleteInv => SuccessIsComplete
  BY DEF CompleteInv
<1> QED BY <1>1, <1>2, CompleteStep, PTL DEF Spec

----------------------------------------------------------------------------
(* Results *)

\* Only requests that come from the cache are hits, and they have not failed.
Hitting == \A r \in Requests : r \in Open /\ mem[r].hit => pc[r] = "record" /\ mem[r].answer.status # "failed"

Total(row) == row["success"] + row["partial"] + row["failed"]

Counts(d) ==
    /\ IsFiniteSet(Owed(d))
    /\ usage[d] = Nobody => Owed(d) = {}
    /\ usage[d] # Nobody => /\ Total(usage[d]) + Cardinality(Owed(d)) <= usage[d]["queries"]
                           /\ usage[d]["hits"] <= usage[d]["success"] + usage[d]["partial"]

CountInv == CutInv /\ Hitting /\ \A d \in Days : Counts(d)

\* The answers to hits come from the cache; nothing else turns a request into one.
LEMMA HittingStep == CutInv /\ Hitting /\ [Next]_vars => Hitting'
<1> SUFFICES ASSUME CutInv, Hitting, [Next]_vars PROVE Hitting'
  OBVIOUS
<1>0. TypeOK /\ \A r \in Requests : (r \in Open <=> pc[r] \notin {"idle", "done"}) /\ (r \in Open' <=> pc'[r] \notin {"idle", "done"})
  BY DEF Open, CutInv
<1>1. CASE UNCHANGED vars \/ Tick \/ (\E a \in Addresses : Expire(a)) \/ (\E r \in Requests : Cancel(r))
  <2>1. UNCHANGED <<pc, mem>>
    BY <1>1 DEF vars, Tick, Expire, Cancel
  <2> QED BY <1>0, <2>1 DEF Hitting
<1>2. CASE \E i \in Instances : Crash(i)
  BY <1>0, <1>2 DEF Crash, Hitting
<1>3. ASSUME NEW r \in Requests,
             \A q \in Requests : q # r => pc'[q] = pc[q] /\ mem'[q] = mem[q],
             r \in Open' => mem'[r].hit = FALSE
      PROVE  Hitting'
  BY <1>0, <1>3 DEF Hitting
<1>4. ASSUME NEW r \in Requests, \E a \in Addresses, i \in Instances : Call(r, a, i) PROVE Hitting'
  <2>1. mem'[r].hit = FALSE
    BY <1>0, <1>4 DEF Call, TypeOK
  <2> QED BY <1>0, <1>3, <1>4, <2>1 DEF Call, Goto, TypeOK
<1>5. ASSUME NEW r \in Requests, Return(r) PROVE Hitting'
  <2>1. r \notin Open' /\ \A q \in Requests : q # r => pc'[q] = pc[q] /\ mem'[q] = mem[q]
    BY <1>0, <1>5 DEF Return, Goto, TypeOK
  <2> QED BY <1>3, <2>1
<1>6. ASSUME NEW r \in Requests, LockDay(r) \/ (Reserve(r) /\ ~Return(r)) \/ Lead(r) \/ Follow(r) \/ StoreCache(r)
      PROVE  Hitting'
  <2>0. mem[r] \in Memory /\ r \in Open /\ pc[r] # "record"
    BY <1>0, <1>6, LocalMemory DEF LockDay, Reserve, Lead, Follow, StoreCache
  <2>1. \A q \in Requests : q # r => pc'[q] = pc[q] /\ mem'[q] = mem[q]
    BY <1>0, <1>6 DEF LockDay, Reserve, Lead, Follow, StoreCache, Goto, TypeOK
  <2>2. mem'[r].hit = mem[r].hit
    BY <1>0, <1>6, <2>0 DEF LockDay, Reserve, Lead, Follow, StoreCache, TypeOK, Memory
  <2>3. mem[r].hit = FALSE
    <3>1. mem[r].hit \in BOOLEAN
      BY <2>0 DEF Memory
    <3> QED BY <2>0, <3>1 DEF Hitting
  <2> QED BY <1>3, <2>1, <2>2, <2>3
<1>7. ASSUME NEW r \in Requests, ReadCache(r) PROVE Hitting'
  <2>0. mem[r] \in Memory /\ mem[r].address \in Addresses /\ r \in Open /\ pc[r] = "cache"
    BY <1>0, <1>7, LocalMemory DEF ReadCache, Memory
  <2>1. \A q \in Requests : q # r => pc'[q] = pc[q] /\ mem'[q] = mem[q]
    BY <1>0, <1>7 DEF ReadCache, Goto, TypeOK
  <2>2. \/ /\ cache[mem[r].address] # Nobody /\ pc'[r] = "record" /\ mem'[r].answer = cache[mem[r].address]
        \/ mem'[r] = mem[r]
    BY <1>0, <1>7, <2>0 DEF ReadCache, Goto, TypeOK, Memory
  <2>3. CASE mem'[r] = mem[r]
    <3>1. mem[r].hit = FALSE
      <4>1. mem[r].hit \in BOOLEAN
        BY <2>0 DEF Memory
      <4> QED BY <2>0, <4>1 DEF Hitting
    <3> QED BY <1>3, <2>1, <2>3, <3>1
  <2>4. CASE cache[mem[r].address] # Nobody /\ pc'[r] = "record" /\ mem'[r].answer = cache[mem[r].address]
    <3>1. cache[mem[r].address].status # "failed"
      BY <2>0, <2>4 DEF CutInv, CacheUnspoiled
    <3> QED BY <1>0, <2>1, <2>4, <3>1 DEF Hitting
  <2> QED BY <2>2, <2>3, <2>4
<1>8. ASSUME NEW r \in Requests, Publish(r) PROVE Hitting'
  <2>1. mem' = [f \in Requests |-> IF f \in Followers(r) THEN [mem[f] EXCEPT !.answer = mem[r].answer] ELSE mem[f]]
        /\ pc' = [f \in Requests |-> IF f \in Followers(r) THEN "shared" ELSE IF f = r THEN "record" ELSE pc[f]]
        /\ pc[r] = "publish"
    BY <1>8 DEF Publish
  <2>2. ASSUME NEW f \in Requests, f \in Followers(r) \/ f = r PROVE mem'[f].hit = FALSE
    <3>1. mem[f] \in Memory /\ f \in Open /\ pc[f] # "record"
      BY <1>0, <2>1, <2>2, LocalMemory DEF Followers
    <3>2. mem[f].hit = FALSE
      <4>1. mem[f].hit \in BOOLEAN
        BY <3>1 DEF Memory
      <4> QED BY <3>1, <4>1 DEF Hitting
    <3> QED BY <2>1, <3>1, <3>2 DEF Memory
  <2> QED BY <1>0, <2>1, <2>2 DEF Hitting
<1>9. ASSUME NEW r \in Requests, Walk(r) PROVE Hitting'
  <2>0. r \in Open /\ pc[r] # "record" /\ mem[r] \in Memory
    BY <1>0, <1>9, Walks, LocalMemory DEF Checking
  <2>1. mem[r].hit = FALSE
    <3>1. mem[r].hit \in BOOLEAN
      BY <2>0 DEF Memory
    <3> QED BY <2>0, <3>1 DEF Hitting
  <2>2. mem'[r].hit = mem[r].hit /\ \A q \in Requests : q # r => pc'[q] = pc[q] /\ mem'[q] = mem[q]
    BY <1>0, <1>9, Walks DEF Kept
  <2> QED BY <1>3, <2>1, <2>2
<1>10. ASSUME NEW r \in Requests, Step(r) PROVE Hitting'
  <2>1. CASE Return(r)
    BY <2>1, <1>5
  <2>2. CASE ~Return(r)
    <3>1. ~Refuse(r) /\ ~GiveUp(r) /\ ~Record(r)
      BY <2>2 DEF Refuse, GiveUp, Record
    <3> QED BY <1>10, <2>2, <3>1, <1>6, <1>7, <1>8, <1>9 DEF Step, Check, Walk
  <2> QED BY <2>1, <2>2
<1> QED BY <1>1, <1>2, <1>4, <1>10 DEF Next

\* Owed results may be dropped, and calls counted.
LEMMA CountFrame ==
    ASSUME CountInv, usage' = usage \/ (today \in Days /\ usage[today] # Nobody /\ Bump(today, {"calls"})),
           NEW d \in Days, Owed(d)' \subseteq Owed(d)
    PROVE  Counts(d)'
<1>1. IsFiniteSet(Owed(d)) /\ IsFiniteSet(Owed(d)') /\ Cardinality(Owed(d)') <= Cardinality(Owed(d))
      /\ Cardinality(Owed(d)) \in Nat /\ Cardinality(Owed(d)') \in Nat
  <2>1. IsFiniteSet(Owed(d))
    BY DEF CountInv, Counts
  <2> QED BY <2>1, FS_Subset, FS_CardinalityType
<1>2. CASE usage' = usage
  <2>1. CASE usage[d] = Nobody
    BY <1>1, <1>2, <2>1 DEF CountInv, Counts
  <2>2. CASE usage[d] # Nobody
    <3>1. usage[d] \in [Counters -> Nat]
      BY <2>2 DEF CountInv, CutInv, TypeOK
    <3>2. Total(usage[d]) \in Nat /\ usage[d]["queries"] \in Nat
      BY <3>1 DEF Total, Counters
    <3> QED BY <1>1, <1>2, <2>2, <3>2 DEF CountInv, Counts
  <2> QED BY <2>1, <2>2
<1>3. CASE today \in Days /\ usage[today] # Nobody /\ Bump(today, {"calls"})
  <2>1. CASE usage[d] = Nobody
    <3>1. usage'[d] = Nobody
      BY <1>3, <2>1 DEF Bump, CountInv, CutInv, TypeOK
    <3> QED BY <1>1, <2>1, <3>1 DEF CountInv, Counts
  <2>2. CASE usage[d] # Nobody
    <3>1. usage[d] \in [Counters -> Nat]
      BY <2>2 DEF CountInv, CutInv, TypeOK
    <3>2. \A k \in Counters \ {"calls"} : usage'[d][k] = usage[d][k]
      BY <1>3, <3>1 DEF Bump, CountInv, CutInv, TypeOK
    <3>3. Total(usage[d]) \in Nat /\ usage[d]["queries"] \in Nat /\ Total(usage'[d]) = Total(usage[d])
          /\ usage'[d]["queries"] = usage[d]["queries"]
          /\ usage'[d]["hits"] = usage[d]["hits"] /\ usage'[d]["success"] = usage[d]["success"]
          /\ usage'[d]["partial"] = usage[d]["partial"]
      BY <3>1, <3>2 DEF Total, Counters
    <3>4. Total(usage'[d]) + Cardinality(Owed(d)') <= usage'[d]["queries"]
      BY <1>1, <2>2, <3>3 DEF CountInv, Counts
    <3>5. usage'[d]["hits"] <= usage'[d]["success"] + usage'[d]["partial"]
      BY <2>2, <3>3 DEF CountInv, Counts
    <3>6. usage'[d] # Nobody
      <4>1. usage'[d] \in [Counters -> Nat]
        BY <1>3, <3>1 DEF Bump, CountInv, CutInv, TypeOK
      <4> QED BY <4>1, NobodyAssumption
    <3> QED BY <1>1, <3>4, <3>5, <3>6 DEF Counts
  <2> QED BY <2>1, <2>2
<1> QED BY <1>2, <1>3

\* Admitting a query makes room for its result.
LEMMA CountReserve ==
    ASSUME CountInv, NEW r \in Requests, Reserve(r), NEW d \in Days
    PROVE  Counts(d)'
<1> DEFINE day == mem[r].day
           row == Row(day)
<1>0. /\ mem[r] \in Memory /\ day \in Days /\ TypeOK /\ r \in Open /\ pc[r] = "reserve"
      /\ row \in [Counters -> Nat]
  <2>1. mem[r] \in Memory /\ TypeOK /\ r \in Open /\ pc[r] = "reserve"
    BY LocalMemory DEF CountInv, CutInv, Reserve
  <2>2. day \in Days
    BY <2>1 DEF Memory
  <2> QED BY <2>1, <2>2 DEF Row, FreshRow, TypeOK
<1>1. /\ usage' = [usage EXCEPT ![day] = [row EXCEPT !["queries"] = row["queries"] + 1,
                                   !["addresses"] = IF New(r) THEN row["addresses"] + 1 ELSE row["addresses"]]]
      /\ \A q \in Requests : q # r => pc'[q] = pc[q] /\ mem'[q] = mem[q]
  BY <1>0 DEF Reserve, Return, Goto, TypeOK, Counters
<1>2. r \in Open' => mem'[r].day = day
  BY <1>0 DEF Reserve, Return, Goto, TypeOK, Open, Memory
<1>3. Owed(d)' \subseteq (IF d = day THEN Owed(d) \cup {r} ELSE Owed(d)) /\ r \notin Owed(d)
  BY <1>0, <1>1, <1>2 DEF Owed, Open
<1>4. /\ usage'[day] \in [Counters -> Nat]
      /\ usage'[day]["queries"] = row["queries"] + 1 /\ usage'[day]["hits"] = row["hits"]
      /\ usage'[day]["success"] = row["success"] /\ usage'[day]["partial"] = row["partial"]
      /\ Total(usage'[day]) = Total(row)
      /\ Total(row) \in Nat /\ row["queries"] \in Nat
  <2>1. [row EXCEPT !["queries"] = row["queries"] + 1,
                    !["addresses"] = IF New(r) THEN row["addresses"] + 1 ELSE row["addresses"]]
           \in [Counters -> Nat]
    BY <1>0 DEF Counters
  <2>2. usage'[day] = [row EXCEPT !["queries"] = row["queries"] + 1,
                    !["addresses"] = IF New(r) THEN row["addresses"] + 1 ELSE row["addresses"]]
    BY <1>0, <1>1 DEF TypeOK
  <2> QED BY <1>0, <2>1, <2>2 DEF Counters, Total
<1>5. IsFiniteSet(Owed(d)) /\ Cardinality(Owed(d)) \in Nat
  <2>1. IsFiniteSet(Owed(d))
    BY DEF CountInv, Counts
  <2> QED BY <2>1, FS_CardinalityType
<1>6. CASE d # day
  <2>1. usage'[d] = usage[d] /\ Owed(d)' \subseteq Owed(d)
    BY <1>0, <1>1, <1>3, <1>6 DEF TypeOK
  <2>2. IsFiniteSet(Owed(d)') /\ Cardinality(Owed(d)') <= Cardinality(Owed(d)) /\ Cardinality(Owed(d)') \in Nat
    BY <1>5, <2>1, FS_Subset, FS_CardinalityType
  <2>3. usage[d] # Nobody => Total(usage[d]) \in Nat /\ usage[d]["queries"] \in Nat
    <3>1. usage[d] # Nobody => usage[d] \in [Counters -> Nat]
      BY <1>0 DEF TypeOK
    <3> QED BY <3>1 DEF Total, Counters
  <2>4. Counts(d)
    BY DEF CountInv
  <2>5. usage'[d] # Nobody => Total(usage'[d]) + Cardinality(Owed(d)') <= usage'[d]["queries"]
    BY <1>5, <2>1, <2>2, <2>3, <2>4 DEF Counts
  <2> QED BY <2>1, <2>2, <2>4, <2>5 DEF Counts
<1>7. CASE d = day
  <2>1. IsFiniteSet(Owed(d)') /\ Cardinality(Owed(d)') <= Cardinality(Owed(d)) + 1 /\ Cardinality(Owed(d)') \in Nat
    <3>1. IsFiniteSet(Owed(d) \cup {r}) /\ Cardinality(Owed(d) \cup {r}) = Cardinality(Owed(d)) + 1
      BY <1>3, <1>5, FS_AddElement
    <3> QED BY <1>3, <1>7, <3>1, FS_Subset, FS_CardinalityType
  <2>2. Total(row) + Cardinality(Owed(d)) <= row["queries"] /\ row["hits"] <= row["success"] + row["partial"]
    <3>0. Counts(d)
      BY DEF CountInv
    <3>1. CASE usage[d] = Nobody
      <4>1. Owed(d) = {}
        BY <3>0, <3>1 DEF Counts
      <4>2. row = FreshRow
        BY <1>7, <3>1 DEF Row
      <4>3. row["success"] = 0 /\ row["partial"] = 0 /\ row["failed"] = 0 /\ row["hits"] = 0 /\ row["queries"] = 0
        BY <4>2 DEF FreshRow, Counters
      <4> HIDE DEF row
      <4> QED BY <4>1, <4>3, FS_EmptySet DEF Total
    <3>2. CASE usage[d] # Nobody
      BY <1>7, <3>0, <3>2 DEF Row, Counts
    <3> QED BY <3>1, <3>2
  <2>3. usage'[d] # Nobody
    BY <1>4, <1>7, NobodyAssumption
  <2> HIDE DEF row
  <2>4. Total(usage'[d]) + Cardinality(Owed(d)') <= usage'[d]["queries"]
    BY <1>4, <1>5, <1>7, <2>1, <2>2
  <2>5. usage'[d]["hits"] <= usage'[d]["success"] + usage'[d]["partial"]
    BY <1>4, <1>7, <2>2
  <2> QED BY <2>1, <2>3, <2>4, <2>5 DEF Counts
<1> QED BY <1>6, <1>7

\* Counting a result pays for one that was owed.
LEMMA CountRecord ==
    ASSUME CountInv, NEW r \in Requests, Record(r), NEW d \in Days
    PROVE  Counts(d)'
<1> DEFINE day == mem[r].day
           st == mem[r].answer.status
           keys == IF mem[r].hit THEN {st, "hits"} ELSE {st}
<1>0. /\ mem[r] \in Memory /\ day \in Days /\ TypeOK /\ r \in Open /\ pc[r] \in {"record", "shared"}
      /\ st \in {"success", "partial", "failed"} /\ (mem[r].hit => st # "failed")
  <2>1. mem[r] \in Memory /\ TypeOK /\ r \in Open /\ pc[r] \in {"record", "shared"}
    BY LocalMemory DEF CountInv, CutInv, Record
  <2>2. day \in Days /\ mem[r].answer \in Answers
    BY <2>1 DEF Memory, CountInv, CutInv, Answering
  <2> QED BY <2>1, <2>2 DEF Answers, CountInv, Hitting
<1>1. pc' = [pc EXCEPT ![r] = "done"] /\ mem' = [mem EXCEPT ![r] = Nobody]
  BY DEF Record, Return, Goto
<1>2. Owed(d)' \subseteq Owed(d)
  BY <1>0, <1>1 DEF Owed, Open, TypeOK
<1>3. CASE usage' = usage
  BY <1>2, <1>3, CountFrame
<1>4. CASE usage[day] # Nobody /\ Bump(day, keys)
  <2>0. Counts(d) /\ usage[day] \in [Counters -> Nat]
    BY <1>0, <1>4 DEF CountInv, TypeOK
  <2>1. /\ \A e \in Days : e # day => usage'[e] = usage[e]
        /\ usage'[day] = [k \in Counters |-> IF k \in keys THEN usage[day][k] + 1 ELSE usage[day][k]]
    BY <1>0, <1>4 DEF Bump, TypeOK
  <2>2. IsFiniteSet(Owed(d)) /\ Cardinality(Owed(d)) \in Nat /\ IsFiniteSet(Owed(d)')
        /\ Cardinality(Owed(d)') <= Cardinality(Owed(d)) /\ Cardinality(Owed(d)') \in Nat
    <3>1. IsFiniteSet(Owed(d))
      BY <2>0 DEF Counts
    <3> QED BY <1>2, <3>1, FS_Subset, FS_CardinalityType
  <2>3. CASE d # day
    <3>1. usage'[d] = usage[d]
      BY <2>1, <2>3
    <3>2. usage[d] # Nobody => Total(usage[d]) \in Nat /\ usage[d]["queries"] \in Nat
      <4>1. usage[d] # Nobody => usage[d] \in [Counters -> Nat]
        BY <1>0 DEF TypeOK
      <4> QED BY <4>1 DEF Total, Counters
    <3>3. usage'[d] # Nobody => Total(usage'[d]) + Cardinality(Owed(d)') <= usage'[d]["queries"]
      BY <2>0, <2>2, <3>1, <3>2 DEF Counts
    <3> QED BY <1>2, <2>0, <2>2, <3>1, <3>3 DEF Counts
  <2>4. CASE d = day
    <3>1. r \in Owed(d) /\ Owed(d)' \subseteq Owed(d) \ {r}
      BY <1>0, <1>1, <1>2, <2>4 DEF Owed, Open, TypeOK
    <3>2. Cardinality(Owed(d)') + 1 <= Cardinality(Owed(d))
      <4>1. IsFiniteSet(Owed(d) \ {r}) /\ Cardinality(Owed(d) \ {r}) = Cardinality(Owed(d)) - 1
        BY <2>2, <3>1, FS_RemoveElement
      <4>2. Cardinality(Owed(d)') <= Cardinality(Owed(d) \ {r})
        BY <3>1, <4>1, FS_Subset
      <4> QED BY <2>2, <4>1, <4>2
    <3>3. \A k \in Counters : usage'[d][k] = IF k \in keys THEN usage[d][k] + 1 ELSE usage[d][k]
      BY <2>1, <2>4
    <3>4. /\ usage'[d]["queries"] = usage[d]["queries"] /\ Total(usage'[d]) = Total(usage[d]) + 1
          /\ Total(usage[d]) \in Nat /\ usage[d]["queries"] \in Nat
      BY <1>0, <2>0, <2>4, <3>3 DEF Counters, Total
    <3>5. usage[d] # Nobody /\ usage'[d] # Nobody
      <4>1. usage'[d] \in [Counters -> Nat]
        BY <2>0, <2>1, <2>4
      <4> QED BY <1>4, <2>4, <4>1, NobodyAssumption
    <3>6. Total(usage[d]) + Cardinality(Owed(d)) <= usage[d]["queries"]
          /\ usage[d]["hits"] <= usage[d]["success"] + usage[d]["partial"]
      BY <2>0, <3>5 DEF Counts
    <3>7. Total(usage'[d]) + Cardinality(Owed(d)') <= usage'[d]["queries"]
      BY <2>2, <3>2, <3>4, <3>6
    <3>8. usage'[d]["hits"] <= usage'[d]["success"] + usage'[d]["partial"]
      BY <1>0, <2>0, <2>4, <3>3, <3>6 DEF Counters
    <3> QED BY <2>2, <3>5, <3>7, <3>8 DEF Counts
  <2> QED BY <2>3, <2>4
<1> QED BY <1>3, <1>4 DEF Record, Counted

\* Every step keeps results within the admitted queries.
LEMMA CountStep == CountInv /\ [Next]_vars => CountInv'
<1> SUFFICES ASSUME CountInv, [Next]_vars, NEW d \in Days PROVE Counts(d)'
  BY CutStep, HittingStep DEF CountInv
<1>0. TypeOK /\ \A r \in Requests : (r \in Open <=> pc[r] \notin {"idle", "done"}) /\ (r \in Open' <=> pc'[r] \notin {"idle", "done"})
  BY DEF Open, CountInv, CutInv
<1>1. CASE UNCHANGED vars \/ Tick \/ (\E a \in Addresses : Expire(a)) \/ (\E r \in Requests : Cancel(r))
  <2>1. UNCHANGED <<pc, mem, usage>>
    BY <1>1 DEF vars, Tick, Expire, Cancel, store
  <2>2. Owed(d)' = Owed(d)
    BY <2>1 DEF Owed, Open
  <2> QED BY <2>1, <2>2, CountFrame
<1>2. CASE \E i \in Instances : Crash(i)
  <2>1. UNCHANGED usage /\ \A q \in Requests : q \in Open' => q \in Open /\ pc'[q] = pc[q] /\ mem'[q] = mem[q]
    BY <1>0, <1>2 DEF Crash
  <2>2. Owed(d)' \subseteq Owed(d)
    BY <2>1 DEF Owed, Open
  <2> QED BY <2>1, <2>2, CountFrame
\* One request moves, and owes no more than before.
<1>3. ASSUME NEW r \in Requests,
             usage' = usage \/ (today \in Days /\ usage[today] # Nobody /\ Bump(today, {"calls"})),
             \A q \in Requests : q # r => pc'[q] = pc[q] /\ mem'[q] = mem[q],
             \/ r \notin Open' \/ pc'[r] \in {"begin", "reserve"}
             \/ r \in Open /\ pc[r] \notin {"begin", "reserve"} /\ mem'[r].day = mem[r].day
      PROVE  Counts(d)'
  <2>1. Owed(d)' \subseteq Owed(d)
    BY <1>0, <1>3 DEF Owed, Open
  <2> QED BY <1>3, <2>1, CountFrame
<1>4. ASSUME NEW r \in Requests, \E a \in Addresses, i \in Instances : Call(r, a, i) PROVE Counts(d)'
  <2>1. /\ UNCHANGED usage /\ pc'[r] = "begin"
        /\ \A q \in Requests : q # r => pc'[q] = pc[q] /\ mem'[q] = mem[q]
    BY <1>0, <1>4 DEF Call, Goto, TypeOK, store
  <2> QED BY <1>3, <2>1
<1>5. ASSUME NEW r \in Requests, Refuse(r) \/ GiveUp(r) PROVE Counts(d)'
  <2>1. /\ UNCHANGED usage /\ r \notin Open'
        /\ \A q \in Requests : q # r => pc'[q] = pc[q] /\ mem'[q] = mem[q]
    BY <1>0, <1>5 DEF Refuse, GiveUp, Return, Goto, TypeOK, store
  <2> QED BY <1>3, <2>1
<1>6. ASSUME NEW r \in Requests, LockDay(r) \/ ReadCache(r) \/ Lead(r) \/ Follow(r) \/ StoreCache(r) PROVE Counts(d)'
  <2>0. mem[r] \in Memory /\ r \in Open
    BY <1>0, <1>6, LocalMemory DEF LockDay, ReadCache, Lead, Follow, StoreCache
  <2>1. UNCHANGED usage /\ \A q \in Requests : q # r => pc'[q] = pc[q] /\ mem'[q] = mem[q]
    BY <1>0, <1>6 DEF LockDay, ReadCache, Lead, Follow, StoreCache, Goto, TypeOK, store
  <2>2. mem'[r].day = mem[r].day
    BY <1>0, <1>6, <2>0 DEF LockDay, ReadCache, Lead, Follow, StoreCache, TypeOK, Memory
  <2>3. pc[r] \notin {"begin", "reserve"} \/ pc'[r] = "reserve"
    BY <1>0, <1>6 DEF LockDay, ReadCache, Lead, Follow, StoreCache, Goto, TypeOK
  <2> QED BY <1>3, <2>0, <2>1, <2>2, <2>3
<1>7. ASSUME NEW r \in Requests, Publish(r) PROVE Counts(d)'
  <2>1. /\ UNCHANGED usage /\ pc[r] = "publish"
        /\ pc' = [f \in Requests |-> IF f \in Followers(r) THEN "shared" ELSE IF f = r THEN "record" ELSE pc[f]]
        /\ mem' = [f \in Requests |-> IF f \in Followers(r)
                                      THEN [mem[f] EXCEPT !.answer = mem[r].answer] ELSE mem[f]]
    BY <1>7 DEF Publish, store
  <2>2. ASSUME NEW q \in Requests, q \in Owed(d)' PROVE q \in Owed(d)
    <3>1. q \in Open /\ pc[q] \notin {"begin", "reserve"}
      BY <1>0, <2>1, <2>2 DEF Owed, Followers
    <3>2. mem[q] \in Memory
      BY <1>0, <3>1, LocalMemory
    <3>3. mem'[q].day = mem[q].day
      BY <2>1, <3>2 DEF Memory
    <3> QED BY <2>2, <3>1, <3>3 DEF Owed
  <2>3. Owed(d)' \subseteq Owed(d)
    BY <2>2 DEF Owed, Open
  <2> QED BY <2>1, <2>3, CountFrame
<1>8. ASSUME NEW r \in Requests, Walk(r) PROVE Counts(d)'
  <2>1. /\ r \in Open /\ pc[r] \notin {"begin", "reserve"} /\ mem'[r].day = mem[r].day
        /\ \A q \in Requests : q # r => pc'[q] = pc[q] /\ mem'[q] = mem[q]
        /\ usage' = usage \/ Charge(r)
    BY <1>0, <1>8, Walks DEF Kept, Checking
  <2>2. Charge(r) => today \in Days /\ usage[today] # Nobody /\ Bump(today, {"calls"})
    BY <1>0 DEF Charge, TypeOK
  <2> QED BY <1>3, <2>1, <2>2
<1> QED BY <1>1, <1>2, <1>4, <1>5, <1>6, <1>7, <1>8, CountReserve, CountRecord DEF Next, Step, Check, Walk

\* RecordResult never counts more results on a day than ReserveQuery has
\* admitted on it, and no more cache hits than answers that can be cached.
THEOREM ResultsHold == Spec => []ResultsAreCounted
<1>1. Init => CountInv
  <2> SUFFICES ASSUME Init PROVE CountInv
    OBVIOUS
  <2>1. CacheUnspoiled /\ Cutting /\ Answering /\ Hitting /\ \A d \in Days : usage[d] = Nobody /\ Owed(d) = {}
    BY DEF Init, CacheUnspoiled, Cutting, Answering, Hitting, Owed, Open
  <2>2. \A d \in Days : Counts(d)
    BY <2>1, FS_EmptySet DEF Counts
  <2> QED BY <2>1, <2>2, InitType DEF CountInv, CutInv
<1>2. CountInv => ResultsAreCounted
  BY DEF CountInv, Counts, ResultsAreCounted, Total
<1> QED BY <1>1, <1>2, CountStep, PTL DEF Spec
=============================================================================
