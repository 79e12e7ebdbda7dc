------------------------ MODULE UserAccounts_proofs ------------------------
(***************************************************************************)
(* Theorems about UserAccounts: types, the uniqueness of ids, and one      *)
(* account for a subject, for any nodes, subjects, requests, clocks,       *)
(* sequences and shards.                                                   *)
(***************************************************************************)
EXTENDS UserAccounts, TLAPS

\* The sequence wraps to zero or goes on by one.
LEMMA SequenceGoesOn ==
    ASSUME NEW S \in Nat \ {0}, NEW s \in 0 .. S - 1
    PROVE  (s + 1) % S \in 0 .. S - 1 /\ ((s + 1) % S # 0 => (s + 1) % S = s + 1)
<1>1. CASE s + 1 = S
  BY <1>1
<1>2. CASE s + 1 < S
  BY <1>2
<1> QED BY <1>1, <1>2

LEMMA NextSequenceGoesOn ==
    ASSUME AccountTypes, NEW n \in Nodes
    PROVE  /\ NextSequence(n) \in 0 .. Sequences - 1
           /\ clock[n] = last[n] /\ ~Wraps(n) => NextSequence(n) = sequence[n] + 1
           /\ clock[n] # last[n] => NextSequence(n) = 0
<1>1. /\ Sequences \in Nat \ {0} /\ sequence[n] \in 0 .. Sequences - 1
  BY AccountsAssumption DEF AccountTypes
<1> QED BY <1>1, SequenceGoesOn DEF NextSequence, Wraps

\* What a request has at its step
Settled(l) ==
    /\ login[l].step = "idle" => login[l].id = Nothing /\ login[l].node = Nothing
    /\ login[l].step # "idle" => login[l].node \in Nodes /\ login[l].subject \in Subjects
    /\ login[l].step \notin {"idle", "spin", "refused", "lost"} => login[l].id \in Ids
    /\ login[l].step = "spin" =>
         login[l].id = Nothing /\ login[l].starts = starts[login[l].node]

Spinning(n) == \E m \in Logins : login[m].step = "spin" /\ login[m].node = n

\* An id that the present life of a generator has given is behind the generator.
Behind(l, n) ==
    login[l].id # Nothing /\ login[l].node = n =>
      /\ login[l].id.node = n /\ login[l].starts <= starts[n]
      /\ login[l].starts = starts[n] /\ <<n, starts[n]>> \notin spent =>
           /\ login[l].id.at <= last[n]
           /\ Spinning(n) \/ login[l].id.at < last[n] \/ login[l].id.seq <= sequence[n]

GeneratorInv ==
    /\ AccountTypes
    /\ \A l \in Logins : Settled(l)
    /\ \A l \in Logins, n \in Nodes : Behind(l, n)

IdInv == GeneratorInv /\ IdsUnique

USE AccountsAssumption

----------------------------------------------------------------------------
(* Types and generators *)

\* Nothing has been given at the start.
LEMMA AccountsStart == AccountsInit => IdInv
<1> SUFFICES ASSUME AccountsInit PROVE IdInv
  OBVIOUS
<1>1. AccountTypes
  BY DEF AccountsInit, AccountTypes, Login
<1>2. \A l \in Logins : login[l].step = "idle" /\ login[l].id = Nothing /\ login[l].node = Nothing
  BY DEF AccountsInit
<1> QED BY <1>1, <1>2 DEF IdInv, GeneratorInv, Settled, Behind, IdsUnique

Working == {"find", "read", "insert", "index", "commit", "refind", "reread"}

\* What the database steps leave alone of a request
Moved(k) ==
    /\ login'[k].node = login[k].node /\ login'[k].subject = login[k].subject
    /\ login'[k].starts = login[k].starts /\ login'[k].id = login[k].id
    /\ \/ login'[k] = login[k]
       \/ login[k].step \in Working /\ login'[k].step \in Working \cup {"served", "refused"}

DatabaseStep(l) ==
    \/ Find(l) \/ Read(l) \/ InsertUser(l) \/ InsertIdentity(l) \/ Commit(l) \/ Fail(l)

LEMMA AnswerMoves ==
    ASSUME IdInv, NEW l \in Logins, login[l].step \in Working,
           NEW step \in Working \cup {"served", "refused"}, NEW id \in Ids,
           login' = [login EXCEPT ![l] = [login[l] EXCEPT !.step = step, !.answer = id]]
    PROVE  login' \in [Logins -> Login] /\ \A k \in Logins : Moved(k)
<1> DEFINE entry == [login[l] EXCEPT !.step = step, !.answer = id]
<1>1. login \in [Logins -> Login] /\ login[l] \in Login
  BY DEF IdInv, GeneratorInv, AccountTypes
<1>2. entry \in Login /\ entry.step = step /\ entry.id = login[l].id /\ entry.node = login[l].node
      /\ entry.subject = login[l].subject /\ entry.starts = login[l].starts
  BY <1>1 DEF Login, Working
<1> HIDE DEF entry
<1>3. login' = [login EXCEPT ![l] = entry]
  BY DEF entry
<1>4. login'[l] = entry /\ \A k \in Logins \ {l} : login'[k] = login[k]
  BY <1>1, <1>3
<1>5. login' \in [Logins -> Login]
  BY <1>1, <1>2, <1>3
<1> QED BY <1>2, <1>4, <1>5 DEF Moved

\* A database step gives the request a new step and perhaps an answer.
LEMMA DatabaseMoves ==
    ASSUME IdInv, NEW l \in Logins, DatabaseStep(l)
    PROVE  /\ login' \in [Logins -> Login] /\ \A k \in Logins : Moved(k)
           /\ UNCHANGED <<clock, starts, generatorVars, replicas>>
           /\ mishaps' \in 0 .. Mishaps
<1>1. /\ login \in [Logins -> Login] /\ mishaps \in 0 .. Mishaps
      /\ identities \subseteq AccountRow /\ users \subseteq AccountRow
  BY DEF IdInv, GeneratorInv, AccountTypes
<1>2. ASSUME NEW step \in Working \cup {"served", "refused"},
             login[l].step \in Working, Goto(l, step)
      PROVE  login' \in [Logins -> Login] /\ \A k \in Logins : Moved(k)
  BY <1>1, <1>2 DEF Goto, Moved, Login, Working
<1>3. ASSUME NEW id \in Ids, login[l].step \in Working, ServeAccount(l, id)
      PROVE  login' \in [Logins -> Login] /\ \A k \in Logins : Moved(k)
  <2>1. login' = [login EXCEPT ![l] = [login[l] EXCEPT !.step = "served", !.answer = id]]
    BY <1>1, <1>3 DEF ServeAccount
  <2> QED BY <1>3, <2>1, AnswerMoves
<1>4. login[l].step \in Working => login[l].id \in Ids
  BY DEF IdInv, GeneratorInv, Settled, Working
<1>5. CASE Find(l)
  <2>1. CASE NotFound(l)
    BY <1>2, <2>1, <1>5, <1>1 DEF NotFound, Find, Working
  <2>2. CASE \E r \in identities :
               login' = [login EXCEPT ![l].step = IF @ = "find" THEN "read" ELSE "reread",
                                      ![l].answer = r.id]
    <3>1. PICK r \in identities :
               login' = [login EXCEPT ![l].step = IF @ = "find" THEN "read" ELSE "reread",
                                      ![l].answer = r.id]
      BY <2>2
    <3>2. r.id \in Ids
      BY <1>1 DEF AccountRow
    <3>3. login[l].step \in {"find", "refind"}
      BY <1>5 DEF Find
    <3>4. login' \in [Logins -> Login] /\ \A k \in Logins : Moved(k)
      <4>1. CASE login[l].step = "find"
        <5>1. login' = [login EXCEPT ![l].step = "read", ![l].answer = r.id]
          BY <3>1, <4>1
        <5>2. login' = [login EXCEPT ![l] = [login[l] EXCEPT !.step = "read", !.answer = r.id]]
          BY <1>1, <5>1
        <5> QED BY <3>2, <4>1, <5>2, AnswerMoves DEF Working
      <4>2. CASE login[l].step = "refind"
        <5>1. login' = [login EXCEPT ![l].step = "reread", ![l].answer = r.id]
          BY <3>1, <4>2
        <5>2. login' = [login EXCEPT ![l] = [login[l] EXCEPT !.step = "reread", !.answer = r.id]]
          BY <1>1, <5>1
        <5> QED BY <3>2, <4>2, <5>2, AnswerMoves DEF Working
      <4> QED BY <3>3, <4>1, <4>2
    <3> QED BY <3>4, <1>5, <1>1 DEF Find
  <2>3. NotFound(l) \/ \E r \in identities :
               login' = [login EXCEPT ![l].step = IF @ = "find" THEN "read" ELSE "reread",
                                      ![l].answer = r.id]
    BY <1>5 DEF Find, MaySee
  <2> QED BY <2>1, <2>2, <2>3
<1>6. CASE Read(l)
  <2>1. PICK seen \in MaySee({u \in users : u.id = login[l].answer}) :
               IF seen = {} THEN NotFound(l) ELSE ServeAccount(l, login[l].answer)
    BY <1>6 DEF Read
  <2>2. login[l].step \in {"read", "reread"}
    BY <1>6 DEF Read
  <2>3. CASE seen = {}
    BY <2>1, <2>2, <2>3, <1>1, <1>2, <1>6 DEF Read, NotFound, Working
  <2>4. CASE seen # {}
    <3>1. seen = {u \in users : u.id = login[l].answer}
      BY <2>4 DEF MaySee
    <3>2. PICK u \in users : u.id = login[l].answer
      BY <3>1, <2>4
    <3>3. login[l].answer \in Ids
      BY <3>2, <1>1 DEF AccountRow
    <3> QED BY <3>3, <2>1, <2>2, <2>4, <1>1, <1>3, <1>6 DEF Read, Working
  <2> QED BY <2>3, <2>4
<1>7. CASE InsertUser(l)
  BY <1>7, <1>1, <1>2 DEF InsertUser, Abort, Working
<1>8. CASE InsertIdentity(l)
  BY <1>8, <1>1, <1>2 DEF InsertIdentity, Abort, Working
<1>9. CASE Commit(l)
  BY <1>9, <1>1, <1>2, <1>3, <1>4 DEF Commit, Mishap, Working
<1>10. CASE Fail(l)
  BY <1>10, <1>1, <1>2 DEF Fail, Abort, Mishap, Working
<1> QED BY <1>5, <1>6, <1>7, <1>8, <1>9, <1>10 DEF DatabaseStep

\* The rows of the tables keep their type.
LEMMA RowsTyped ==
    ASSUME IdInv, NEW l \in Logins, DatabaseStep(l)
    PROVE  users' \subseteq AccountRow /\ identities' \subseteq AccountRow
<1>1. users \subseteq AccountRow /\ identities \subseteq AccountRow
  BY DEF IdInv, GeneratorInv, AccountTypes
<1>2. ASSUME login[l].step = "commit" PROVE Row(l) \in AccountRow
  <2>1. login[l].id \in Ids /\ login[l].subject \in Subjects
    BY <1>2 DEF IdInv, GeneratorInv, Settled
  <2>2. login[l].id.seq \in 0 .. Sequences - 1
    BY <2>1 DEF Ids
  <2>3. Shard(login[l].id) \in 0 .. Shards - 1
    BY <2>2 DEF Shard
  <2> QED BY <2>1, <2>3 DEF Row, AccountRow
<1>3. CASE Commit(l)
  BY <1>1, <1>2, <1>3 DEF Commit
<1>4. CASE ~Commit(l)
  BY <1>1, <1>4 DEF DatabaseStep, Find, Read, InsertUser, InsertIdentity, Fail, Abort, accountRows
<1> QED BY <1>3, <1>4

\* Database steps leave the generators alone, and the requests their ids.
LEMMA DatabaseKeeps ==
    ASSUME IdInv, NEW l \in Logins, DatabaseStep(l)
    PROVE  IdInv'
<1>1. /\ login' \in [Logins -> Login] /\ \A k \in Logins : Moved(k)
      /\ UNCHANGED <<clock, starts, last, sequence, spent, replicas>> /\ mishaps' \in 0 .. Mishaps
  BY DatabaseMoves DEF generatorVars
<1>2. AccountTypes'
  BY <1>1, RowsTyped DEF IdInv, GeneratorInv, AccountTypes
<1>3. ASSUME NEW k \in Logins PROVE Settled(k)'
  <2>1. Settled(k) /\ Moved(k)
    BY <1>1 DEF IdInv, GeneratorInv
  <2> QED BY <2>1, <1>1 DEF Settled, Moved, Working
<1>4. \A n \in Nodes : Spinning(n)' <=> Spinning(n)
  <2>1. \A k \in Logins : login'[k].node = login[k].node
                          /\ (login'[k].step = "spin" <=> login[k].step = "spin")
    BY <1>1 DEF Moved, Working
  <2> QED BY <2>1 DEF Spinning
<1>5. ASSUME NEW k \in Logins, NEW n \in Nodes PROVE Behind(k, n)'
  <2>1. Behind(k, n) /\ Moved(k)
    BY <1>1 DEF IdInv, GeneratorInv
  <2>2. /\ login'[k].node = login[k].node /\ login'[k].id = login[k].id
        /\ login'[k].starts = login[k].starts
    BY <2>1 DEF Moved
  <2> QED BY <2>1, <2>2, <1>1, <1>4 DEF Behind
<1>6. IdsUnique'
  <2>1. \A k \in Logins : /\ login'[k].node = login[k].node /\ login'[k].id = login[k].id
                          /\ login'[k].starts = login[k].starts
    BY <1>1 DEF Moved
  <2> QED BY <2>1, <1>1 DEF IdInv, IdsUnique
<1> QED BY <1>2, <1>3, <1>5, <1>6 DEF IdInv, GeneratorInv

\* A step of the clock alone
LEMMA ClockKeeps ==
    ASSUME IdInv, NEW n \in Nodes, Tick(n) \/ SetBack(n)
    PROVE  IdInv'
<1>1. clock' \in [Nodes -> Int]
  BY DEF Tick, SetBack, IdInv, GeneratorInv, AccountTypes
<1>2. mishaps' \in 0 .. Mishaps
  BY DEF Tick, SetBack, Mishap, IdInv, GeneratorInv, AccountTypes
<1>3. UNCHANGED <<starts, last, sequence, spent, login, users, identities, replicas>>
  BY DEF Tick, SetBack, generatorVars, accountRows
<1>4. AccountTypes'
  BY <1>1, <1>2, <1>3 DEF IdInv, GeneratorInv, AccountTypes
<1>5. IdsUnique' /\ (\A l \in Logins : Settled(l))'
      /\ (\A l \in Logins, m \in Nodes : Behind(l, m))'
  BY <1>3 DEF IdInv, GeneratorInv, IdsUnique, Settled, Behind, Spinning
<1> QED BY <1>4, <1>5 DEF IdInv, GeneratorInv

\* A process that dies takes its requests with it, and the next life of its
\* generator has given nothing yet.
LEMMA RestartKeeps ==
    ASSUME IdInv, NEW n \in Nodes, Restart(n)
    PROVE  IdInv'
<1>1. /\ starts' = [starts EXCEPT ![n] = @ + 1]
      /\ last' = [last EXCEPT ![n] = -1] /\ sequence' = [sequence EXCEPT ![n] = 0]
      /\ UNCHANGED <<clock, spent, users, identities, replicas>>
      /\ mishaps' \in 0 .. Mishaps
  BY DEF Restart, Mishap, accountRows, IdInv, GeneratorInv, AccountTypes
<1>2. AccountTypes
  BY DEF IdInv, GeneratorInv
<1>3. \A k \in Logins :
         login'[k] = IF login[k].node = n /\ login[k].step \notin {"served", "refused"}
                     THEN [login[k] EXCEPT !.step = "lost"] ELSE login[k]
  BY DEF Restart
<1>4. login' \in [Logins -> Login]
  BY <1>2 DEF AccountTypes, Login, Restart
<1>5. AccountTypes'
  BY <1>1, <1>2, <1>4 DEF AccountTypes
<1>6. \A k \in Logins :
         /\ login'[k].node = login[k].node /\ login'[k].subject = login[k].subject
         /\ login'[k].starts = login[k].starts /\ login'[k].id = login[k].id
         /\ login'[k].step = login[k].step
            \/ (login[k].node = n /\ login'[k].step = "lost")
         /\ login'[k].step = "spin" => login[k].step = "spin" /\ login[k].node # n
         /\ login[k].step = "spin" /\ login[k].node # n => login'[k].step = "spin"
  <2> SUFFICES ASSUME NEW k \in Logins
               PROVE  /\ login'[k].node = login[k].node /\ login'[k].subject = login[k].subject
                      /\ login'[k].starts = login[k].starts /\ login'[k].id = login[k].id
                      /\ login'[k].step = login[k].step
                         \/ (login[k].node = n /\ login'[k].step = "lost")
                      /\ login'[k].step = "spin" => login[k].step = "spin" /\ login[k].node # n
                      /\ login[k].step = "spin" /\ login[k].node # n => login'[k].step = "spin"
    OBVIOUS
  <2>1. login[k] \in Login
    BY <1>2 DEF AccountTypes
  <2>2. CASE login[k].node = n /\ login[k].step \notin {"served", "refused"}
    <3>1. login'[k] = [login[k] EXCEPT !.step = "lost"]
      BY <1>3, <2>2
    <3> QED BY <2>1, <2>2, <3>1 DEF Login
  <2>3. CASE ~(login[k].node = n /\ login[k].step \notin {"served", "refused"})
    <3>1. login'[k] = login[k]
      BY <1>3, <2>3
    <3>2. login[k].step = "spin" => login[k].node # n
      BY <2>3
    <3> QED BY <3>1, <3>2
  <2> QED BY <2>2, <2>3
<1>7. ASSUME NEW k \in Logins PROVE Settled(k)'
  <2>1. Settled(k)
    BY DEF IdInv, GeneratorInv
  <2>2. \A m \in Nodes \ {n} : starts'[m] = starts[m]
    BY <1>1, <1>2 DEF AccountTypes
  <2>3. login'[k].step # "idle" => login[k].step # "idle"
    BY <1>6, <2>1 DEF Settled
  <2>4. login'[k].step = "idle" => login[k].step = "idle"
    BY <1>6
  <2>5. login'[k].step = "spin" => login'[k].starts = starts'[login'[k].node]
    <3> SUFFICES ASSUME login'[k].step = "spin"
                 PROVE  login'[k].starts = starts'[login'[k].node]
      OBVIOUS
    <3>1. /\ login[k].step = "spin" /\ login[k].node # n
          /\ login'[k].starts = login[k].starts /\ login'[k].node = login[k].node
      BY <1>6
    <3>2. login[k].node \in Nodes /\ login[k].starts = starts[login[k].node]
      BY <2>1, <3>1 DEF Settled
    <3> QED BY <2>2, <3>1, <3>2
  <2> QED BY <1>6, <2>1, <2>3, <2>4, <2>5 DEF Settled
<1>8. ASSUME NEW k \in Logins, NEW m \in Nodes PROVE Behind(k, m)'
  <2>1. Behind(k, m)
    BY DEF IdInv, GeneratorInv
  <2>2. login[k].starts \in Nat /\ starts \in [Nodes -> Nat]
    BY <1>2 DEF AccountTypes, Login
  <2>3. CASE m = n
    <3>1. starts'[n] = starts[n] + 1
      BY <1>1, <2>2
    <3> QED BY <1>6, <2>1, <2>2, <2>3, <3>1 DEF Behind
  <2>4. CASE m # n
    <3>1. /\ starts'[m] = starts[m] /\ last'[m] = last[m]
          /\ sequence'[m] = sequence[m] /\ spent' = spent
      BY <1>1, <1>2, <2>4 DEF AccountTypes
    <3>2. Spinning(m) => Spinning(m)'
      BY <1>6, <2>4 DEF Spinning
    <3> QED BY <1>6, <2>1, <3>1, <3>2 DEF Behind
  <2> QED BY <2>3, <2>4
<1>9. IdsUnique'
  BY <1>1, <1>6 DEF IdInv, IdsUnique
<1> QED BY <1>5, <1>7, <1>8, <1>9 DEF IdInv, GeneratorInv

----------------------------------------------------------------------------
(* The generator gives an id *)

\* What Take does, for a request whose sequence is in range and not behind
LEMMA TakeKeeps ==
    ASSUME IdInv, NEW l \in Logins, NEW n \in Nodes, NEW entry \in Login,
           NEW seq \in 0 .. Sequences - 1, Take(l, entry, n, seq),
           login[l].step \in {"idle", "spin"}, login[l].step = "spin" => login[l].node = n,
           entry.node = n, entry.subject \in Subjects, entry.starts = starts[n],
           entry.id = Nothing,
           clock[n] >= 0, clock[n] >= last[n],
           sequence' = [sequence EXCEPT ![n] = seq],
           clock[n] = last[n] => ~Spinning(n) /\ seq > sequence[n],
           UNCHANGED <<clock, starts, accountRows, replicas, mishaps>>
    PROVE  IdInv'
<1>1. AccountTypes
  BY DEF IdInv, GeneratorInv
<1>2. /\ login[l].id = Nothing /\ \A k \in Logins : Settled(k)
      /\ \A k \in Logins, m \in Nodes : Behind(k, m)
  BY DEF IdInv, GeneratorInv, Settled
<1>3. sequence' \in [Nodes -> 0 .. Sequences - 1] /\ sequence'[n] = seq
      /\ \A m \in Nodes \ {n} : sequence'[m] = sequence[m]
  BY <1>1 DEF AccountTypes
<1>4. \A m \in Nodes \ {n} : Spinning(m) => Spinning(m)'
  BY <1>1, <1>2 DEF Take, Spinning, AccountTypes, Settled
<1>5. CASE clock[n] >= Capacity
  <2>1. /\ spent' = spent \cup {<<n, starts[n]>>} /\ last' = last
        /\ login' = [login EXCEPT ![l] = [entry EXCEPT !.step = "refused"]]
    BY <1>5 DEF Take
  <2>2. login' \in [Logins -> Login]
    BY <1>1, <2>1 DEF AccountTypes, Login
  <2>3. spent' \subseteq Nodes \X Nat
    BY <1>1, <2>1 DEF AccountTypes
  <2>4. AccountTypes'
    BY <1>1, <1>3, <2>1, <2>2, <2>3 DEF AccountTypes, accountRows
  <2>5. /\ login'[l].step = "refused" /\ login'[l].node = n /\ login'[l].id = Nothing
        /\ login'[l].subject \in Subjects
        /\ \A k \in Logins \ {l} : login'[k] = login[k]
    BY <1>1, <2>1 DEF AccountTypes, Login
  <2>6. \A k \in Logins : Settled(k)'
    BY <1>2, <2>5 DEF Settled
  <2>7. ASSUME NEW k \in Logins, NEW m \in Nodes PROVE Behind(k, m)'
    <3>1. CASE k = l
      BY <2>5, <3>1 DEF Behind
    <3>2. CASE k # l /\ m = n
      <4>1. Behind(k, n) /\ login'[k] = login[k]
        BY <1>2, <2>5, <3>2
      <4>2. <<n, starts[n]>> \in spent'
        BY <2>1
      <4> QED BY <3>2, <4>1, <4>2 DEF Behind
    <3>3. CASE k # l /\ m # n
      <4>1. Behind(k, m) /\ login'[k] = login[k]
        BY <1>2, <2>5, <3>3
      <4> QED BY <1>3, <1>4, <2>1, <3>3, <4>1 DEF Behind
    <3> QED BY <3>1, <3>2, <3>3
  <2>8. IdsUnique'
    BY <2>1, <2>5 DEF IdInv, IdsUnique
  <2> QED BY <2>4, <2>6, <2>7, <2>8 DEF IdInv, GeneratorInv
<1>6. CASE clock[n] < Capacity
  <2> DEFINE new == [at |-> clock[n], node |-> n, seq |-> seq]
  <2>1. /\ last' = [last EXCEPT ![n] = clock[n]] /\ spent' = spent
        /\ login' = [login EXCEPT ![l] = [entry EXCEPT !.step = "find", !.id = new]]
    BY <1>1, <1>6 DEF Take, AccountTypes
  <2>2. clock[n] \in Timestamps
    BY <1>1, <1>6 DEF AccountTypes, Timestamps
  <2>3. new \in Ids
    BY <2>2 DEF Ids
  <2>4. login' \in [Logins -> Login]
    BY <1>1, <2>1, <2>3 DEF AccountTypes, Login
  <2>5. last' \in [Nodes -> Timestamps \cup {-1}] /\ last'[n] = clock[n]
        /\ \A m \in Nodes \ {n} : last'[m] = last[m]
    BY <1>1, <2>1, <2>2 DEF AccountTypes
  <2>6. AccountTypes'
    BY <1>1, <1>3, <2>1, <2>4, <2>5 DEF AccountTypes, accountRows
  <2>7. /\ login'[l].step = "find" /\ login'[l].node = n /\ login'[l].id = new
        /\ login'[l].subject \in Subjects /\ login'[l].starts = starts[n]
        /\ \A k \in Logins \ {l} : login'[k] = login[k]
    BY <1>1, <2>1 DEF AccountTypes, Login
  <2>8. \A k \in Logins : Settled(k)'
    BY <1>2, <2>3, <2>7 DEF Settled
  <2>9. ASSUME NEW k \in Logins \ {l}, login[k].id # Nothing, login[k].node = n,
               login[k].starts = starts[n], <<n, starts[n]>> \notin spent
        PROVE  login[k].id.at < clock[n] \/ (login[k].id.at = clock[n] /\ login[k].id.seq < seq)
    <3>1. Behind(k, n) /\ login[k].id \in Ids
      BY <1>1, <1>2, <2>9 DEF AccountTypes, Login
    <3>2. login[k].id.at \in Int /\ login[k].id.seq \in Int
      BY <3>1 DEF Ids, Timestamps
    <3>3. last[n] \in Int /\ clock[n] \in Int /\ sequence[n] \in Int
      BY <1>1 DEF AccountTypes, Timestamps
    <3>4. login[k].id.at <= last[n]
          /\ (Spinning(n) \/ login[k].id.at < last[n] \/ login[k].id.seq <= sequence[n])
      BY <2>9, <3>1 DEF Behind
    <3> QED BY <3>2, <3>3, <3>4
  <2>10. ASSUME NEW k \in Logins, NEW m \in Nodes PROVE Behind(k, m)'
    <3>1. CASE k = l
      <4>1. login'[k].id.node = n /\ login'[k].id.at = clock[n] /\ login'[k].id.seq = seq
        BY <2>7, <3>1
      <4>2. clock[n] \in Int /\ seq \in Int /\ starts[n] \in Int
        BY <1>1 DEF AccountTypes
      <4> QED BY <1>3, <2>5, <2>7, <3>1, <4>1, <4>2 DEF Behind
    <3>2. CASE k # l /\ m = n
      <4>1. login'[k] = login[k] /\ Behind(k, n)
        BY <1>2, <2>7, <3>2
      <4>2. CASE login[k].id # Nothing /\ login[k].node = n
        <5>1. login[k].id \in Ids
          BY <1>1, <4>2 DEF AccountTypes, Login
        <5>2. login[k].id.at \in Int /\ login[k].id.seq \in Int
          BY <5>1 DEF Ids, Timestamps
        <5>3. clock[n] \in Int
          BY <1>1 DEF AccountTypes
        <5>4. login[k].starts = starts[n] /\ <<n, starts[n]>> \notin spent =>
                login[k].id.at <= clock[n] /\ (login[k].id.at < clock[n] \/ login[k].id.seq <= seq)
          BY <2>9, <3>2, <4>2, <5>2, <5>3
        <5> QED BY <1>3, <2>1, <2>5, <3>2, <4>1, <5>4 DEF Behind
      <4>3. CASE ~(login[k].id # Nothing /\ login[k].node = n)
        BY <3>2, <4>1, <4>3 DEF Behind
      <4> QED BY <4>2, <4>3
    <3>3. CASE k # l /\ m # n
      <4>1. login'[k] = login[k] /\ Behind(k, m)
        BY <1>2, <2>7, <3>3
      <4> QED BY <1>3, <1>4, <2>1, <2>5, <3>3, <4>1 DEF Behind
    <3> QED BY <3>1, <3>2, <3>3
  <2>11. ASSUME NEW k \in Logins \ {l}, login[k].id # Nothing, login[k].id = new,
                login[k].starts = starts[n], <<n, starts[n]>> \notin spent
         PROVE  FALSE
    <3>1. login[k].node = n
      <4>1. login[k].node \in Nodes
        BY <1>2, <2>11 DEF Settled
      <4>2. login[k].id.node = login[k].node
        BY <1>2, <2>11, <4>1 DEF Behind
      <4> QED BY <2>11, <4>2
    <3>2. login[k].id.at = clock[n] /\ login[k].id.seq = seq
      BY <2>11
    <3> QED BY <1>1, <2>9, <2>11, <3>1, <3>2 DEF AccountTypes
  <2>12. IdsUnique'
    <3> SUFFICES ASSUME NEW j \in Logins, NEW k \in Logins,
                        login'[j].id # Nothing, login'[j].id = login'[k].id,
                        login'[j].starts = login'[k].starts,
                        <<login'[j].node, login'[j].starts>> \notin spent, j # k
                 PROVE  FALSE
      BY <2>1 DEF IdsUnique
    <3>1. CASE j # l /\ k # l
      BY <2>7, <3>1 DEF IdInv, IdsUnique
    <3>2. CASE j = l
      BY <2>3, <2>7, <2>11, <3>2
    <3>3. CASE k = l
      <4>1. login[j].node \in Nodes /\ login[j].id # Nothing /\ login[j].id = new
        BY <1>2, <2>7, <3>3 DEF Settled
      <4>2. login[j].id.node = login[j].node
        BY <1>2, <4>1 DEF Behind
      <4>3. login[j].node = n
        BY <4>1, <4>2
      <4> QED BY <2>3, <2>7, <2>11, <3>3, <4>1, <4>3
    <3> QED BY <3>1, <3>2, <3>3
  <2> QED BY <2>6, <2>8, <2>10, <2>12 DEF IdInv, GeneratorInv
<1> QED BY <1>1, <1>5, <1>6 DEF AccountTypes

\* A request that is refused, or begins to wait, has no id.
LEMMA NoIdKeeps ==
    ASSUME IdInv, NEW l \in Logins, NEW n \in Nodes, NEW s \in Subjects,
           NEW step \in {"refused", "spin"}, NEW seq \in [Nodes -> 0 .. Sequences - 1],
           login[l].step = "idle",
           login' = [login EXCEPT ![l] = [login[l] EXCEPT !.subject = s, !.node = n,
                                             !.starts = starts[n], !.step = step]],
           sequence' = seq,
           seq = sequence \/ (step = "spin" /\ \A m \in Nodes \ {n} : seq[m] = sequence[m]),
           UNCHANGED <<clock, starts, last, spent, users, identities, replicas, mishaps>>
    PROVE  IdInv'
<1>1. AccountTypes /\ login[l] \in Login /\ starts[n] \in Nat
  BY DEF IdInv, GeneratorInv, AccountTypes
<1>2. login' \in [Logins -> Login]
  BY <1>1 DEF AccountTypes, Login
<1>3. AccountTypes'
  BY <1>1, <1>2 DEF AccountTypes
<1>4. Settled(l) /\ login[l].id = Nothing
  BY DEF IdInv, GeneratorInv, Settled
<1>5. /\ login'[l].step = step /\ login'[l].node = n /\ login'[l].subject = s
      /\ login'[l].starts = starts[n] /\ login'[l].id = Nothing
      /\ \A k \in Logins \ {l} : login'[k] = login[k]
  BY <1>1, <1>4 DEF AccountTypes, Login
<1>6. ASSUME NEW k \in Logins PROVE Settled(k)'
  <2>1. Settled(k)
    BY DEF IdInv, GeneratorInv
  <2> QED BY <1>5, <2>1 DEF Settled
<1>7. ASSUME NEW k \in Logins, NEW m \in Nodes PROVE Behind(k, m)'
  <2>1. CASE k = l
    BY <1>5, <2>1 DEF Behind
  <2>2. CASE k # l
    <3>1. Behind(k, m) /\ login'[k] = login[k]
      BY <1>5, <2>2 DEF IdInv, GeneratorInv
    <3>2. Spinning(m) => Spinning(m)'
      <4>1. \A j \in Logins : login[j].step = "spin" => login'[j] = login[j]
        BY <1>5
      <4> QED BY <4>1 DEF Spinning
    <3>3. Spinning(m)' \/ sequence'[m] = sequence[m]
      <4>1. step = "spin" => Spinning(n)'
        BY <1>5 DEF Spinning
      <4> QED BY <4>1
    <3> QED BY <3>1, <3>2, <3>3 DEF Behind
  <2> QED BY <2>1, <2>2
<1>8. IdsUnique'
  BY <1>5 DEF IdInv, IdsUnique
<1> QED BY <1>3, <1>6, <1>7, <1>8 DEF IdInv, GeneratorInv

LEMMA DrawKeeps ==
    ASSUME IdInv, NEW l \in Logins, NEW s \in Subjects, NEW n \in Nodes, Draw(l, s, n)
    PROVE  IdInv'
<1> DEFINE entry == [login[l] EXCEPT !.subject = s, !.node = n, !.starts = starts[n]]
<1>1. /\ login[l].step = "idle" /\ ~Spinning(n)
      /\ UNCHANGED <<clock, starts, users, identities, replicas, mishaps>>
  BY DEF Draw, Spinning, accountRows
<1>2. /\ AccountTypes /\ login[l] \in Login /\ starts[n] \in Nat /\ login[l].id = Nothing
      /\ sequence \in [Nodes -> 0 .. Sequences - 1]
  BY <1>1 DEF IdInv, GeneratorInv, AccountTypes, Settled
<1>3. entry \in Login /\ entry.node = n /\ entry.subject = s /\ entry.starts = starts[n]
      /\ entry.id = Nothing
  BY <1>2 DEF Login
<1>4. CASE login' = [login EXCEPT ![l] = [entry EXCEPT !.step = "refused"]]
           /\ UNCHANGED generatorVars
  <2>1. [entry EXCEPT !.step = "refused"]
        = [login[l] EXCEPT !.subject = s, !.node = n, !.starts = starts[n], !.step = "refused"]
    BY <1>2 DEF Login
  <2> QED BY <1>1, <1>2, <1>4, <2>1, NoIdKeeps DEF generatorVars
<1>5. CASE /\ clock[n] >= 0 /\ ~Backwards(n)
           /\ sequence' = [sequence EXCEPT ![n] = NextSequence(n)]
           /\ IF Wraps(n)
              THEN /\ login' = [login EXCEPT ![l] = [entry EXCEPT !.step = "spin"]]
                   /\ UNCHANGED <<last, spent>>
              ELSE Take(l, entry, n, NextSequence(n))
  <2>1. NextSequence(n) \in 0 .. Sequences - 1
    BY <1>2, NextSequenceGoesOn
  <2>2. sequence' \in [Nodes -> 0 .. Sequences - 1]
        /\ \A m \in Nodes \ {n} : sequence'[m] = sequence[m]
    BY <1>2, <1>5, <2>1
  <2>3. CASE Wraps(n)
    <3>1. [entry EXCEPT !.step = "spin"]
          = [login[l] EXCEPT !.subject = s, !.node = n, !.starts = starts[n], !.step = "spin"]
      BY <1>2 DEF Login
    <3> QED BY <1>1, <1>5, <2>2, <2>3, <3>1, NoIdKeeps
  <2>4. CASE ~Wraps(n)
    <3>1. clock[n] \in Int /\ last[n] \in Int /\ sequence[n] \in Int
      BY <1>2 DEF AccountTypes, Timestamps
    <3>2. clock[n] >= last[n]
      BY <1>5, <3>1 DEF Backwards
    <3>3. clock[n] = last[n] => NextSequence(n) > sequence[n]
      BY <1>2, <2>4, <3>1, NextSequenceGoesOn
    <3>4. Take(l, entry, n, NextSequence(n))
      BY <1>5, <2>4
    <3> HIDE DEF entry
    <3> QED BY <1>1, <1>3, <1>5, <2>1, <3>2, <3>3, <3>4, TakeKeeps DEF accountRows
  <2> QED BY <2>3, <2>4
<1> QED BY <1>4, <1>5 DEF Draw

LEMMA EndOfWaitKeeps ==
    ASSUME IdInv, NEW l \in Logins, EndOfWait(l)
    PROVE  IdInv'
<1> DEFINE n == login[l].node
<1>1. /\ AccountTypes /\ login[l] \in Login /\ login[l].step = "spin" /\ n \in Nodes
      /\ login[l].subject \in Subjects /\ login[l].starts = starts[n] /\ login[l].id = Nothing
  BY DEF IdInv, GeneratorInv, AccountTypes, Settled, EndOfWait
<1>2. clock[n] > last[n] /\ clock[n] \in Int /\ last[n] \in Int /\ last[n] >= -1
      /\ sequence[n] \in 0 .. Sequences - 1
  <2>1. clock[n] > last[n]
    BY DEF EndOfWait
  <2>2. /\ clock[n] \in Int /\ last[n] \in Timestamps \cup {-1}
        /\ sequence[n] \in 0 .. Sequences - 1
    BY <1>1 DEF AccountTypes
  <2> QED BY <2>1, <2>2 DEF Timestamps
<1>3. sequence' = [sequence EXCEPT ![n] = sequence[n]]
  BY <1>1 DEF EndOfWait, AccountTypes
<1>4. /\ Take(l, login[l], n, sequence[n])
      /\ UNCHANGED <<clock, starts, accountRows, replicas, mishaps>>
  BY DEF EndOfWait
<1>5. clock[n] >= 0 /\ clock[n] >= last[n] /\ clock[n] # last[n]
  BY <1>2
<1> HIDE DEF n
<1>6. login[l].node = n
  BY DEF n
<1> QED BY <1>1, <1>2, <1>3, <1>4, <1>5, <1>6, TakeKeeps

LEMMA AccountsKeep == IdInv /\ [AccountsNext]_accountVars => IdInv'
<1> SUFFICES ASSUME IdInv, [AccountsNext]_accountVars PROVE IdInv'
  OBVIOUS
<1>1. CASE UNCHANGED accountVars
  BY <1>1 DEF accountVars, generatorVars, accountRows, IdInv, GeneratorInv, AccountTypes,
              Settled, Behind, Spinning, IdsUnique
<1>2. CASE \E n \in Nodes : Tick(n) \/ SetBack(n) \/ Restart(n)
  BY <1>2, ClockKeeps, RestartKeeps
<1>3. CASE \E l \in Logins : DatabaseStep(l)
  BY <1>3, DatabaseKeeps
<1>4. CASE \E l \in Logins, s \in Subjects, n \in Nodes : Draw(l, s, n)
  BY <1>4, DrawKeeps
<1>5. CASE \E l \in Logins : EndOfWait(l)
  BY <1>5, EndOfWaitKeeps
<1> QED BY <1>1, <1>2, <1>3, <1>4, <1>5 DEF AccountsNext, DatabaseStep

\* Requests, generators and rows always have the fields of their types.
THEOREM AccountsTypeCorrect == AccountsSpec => []AccountTypes
<1>1. IdInv => AccountTypes
  BY DEF IdInv, GeneratorInv
<1> QED BY <1>1, AccountsStart, AccountsKeep, PTL DEF AccountsSpec

\* A generator never gives an id twice in one life before it has run out of
\* timestamps, for any number of requests, nodes and ids of a millisecond, and
\* however the clocks jump.
THEOREM IdsAreUnique == AccountsSpec => []IdsUnique
<1>1. IdInv => IdsUnique
  BY DEF IdInv
<1> QED BY <1>1, AccountsStart, AccountsKeep, PTL DEF AccountsSpec

----------------------------------------------------------------------------
(* One account *)

\* What the transactions have written and not committed clashes with nothing.
TransactionInv ==
    /\ OneAccount
    /\ \A l \in Logins : login[l].step = "commit" =>
         /\ \A r \in identities : ~Clash(r, Row(l))
         /\ \A m \in Logins \ {l} : login[m].step = "commit" => ~Clash(Row(m), Row(l))
    /\ \A l \in Logins : login[l].step \in {"read", "reread"} =>
         \E r \in identities : r.subject = login[l].subject /\ r.id = login[l].answer
\* Nothing is committed, and no request comes to an answer or to its commit.
LEMMA CalmKeeps ==
    ASSUME TransactionInv, UNCHANGED accountRows,
           \A k \in Logins : login'[k].step \in {"read", "reread", "commit", "served"} =>
                                login'[k] = login[k]
    PROVE  TransactionInv'
<1>1. users' = users /\ identities' = identities
  BY DEF accountRows
<1>2. \A k \in Logins : login'[k] = login[k] => Row(k)' = Row(k)
  BY DEF Row
<1>3. OneAccount'
  BY <1>1 DEF TransactionInv, OneAccount, Clash
<1>4. ASSUME NEW l \in Logins, login'[l].step = "commit"
      PROVE  /\ \A r \in identities : ~Clash(r, Row(l)')
             /\ \A m \in Logins \ {l} : login'[m].step = "commit" => ~Clash(Row(m)', Row(l)')
  <2>1. login[l].step = "commit" /\ Row(l)' = Row(l)
    BY <1>2, <1>4
  <2>2. ASSUME NEW m \in Logins \ {l}, login'[m].step = "commit"
        PROVE  ~Clash(Row(m)', Row(l)')
    <3>1. login[m].step = "commit" /\ Row(m)' = Row(m)
      BY <1>2, <2>2
    <3> QED BY <2>1, <3>1 DEF TransactionInv
  <2> QED BY <2>1, <2>2 DEF TransactionInv
<1>5. ASSUME NEW l \in Logins, login'[l].step \in {"read", "reread"}
      PROVE  \E r \in identities : r.subject = login'[l].subject /\ r.id = login'[l].answer
  <2>1. login'[l] = login[l]
    BY <1>5
  <2> QED BY <1>5, <2>1 DEF TransactionInv
<1> QED BY <1>1, <1>3, <1>4, <1>5 DEF TransactionInv, Clash

\* One request takes a step of the database and the others stand still.
LEMMA OneMoves ==
    ASSUME IdInv, NEW l \in Logins, NEW entry \in Login, login' = [login EXCEPT ![l] = entry]
    PROVE  login'[l] = entry /\ \A k \in Logins \ {l} : login'[k] = login[k]
BY DEF IdInv, GeneratorInv, AccountTypes

LEMMA GotoMoves ==
    ASSUME IdInv, NEW l \in Logins, NEW step, Goto(l, step)
    PROVE  /\ login'[l] = [login[l] EXCEPT !.step = step] /\ login'[l].step = step
           /\ \A k \in Logins \ {l} : login'[k] = login[k]
<1>1. login \in [Logins -> Login] /\ login[l] \in Login
  BY DEF IdInv, GeneratorInv, AccountTypes
<1>2. login'[l] = [login[l] EXCEPT !.step = step] /\ \A k \in Logins \ {l} : login'[k] = login[k]
  BY <1>1 DEF Goto
<1>3. login'[l].step = step
  BY <1>1, <1>2 DEF Login
<1> QED BY <1>2, <1>3

LEMMA GotoKeeps ==
    ASSUME IdInv, TransactionInv, NEW l \in Logins, UNCHANGED accountRows,
           NEW step \in {"insert", "index", "refind", "refused"}, Goto(l, step)
    PROVE  TransactionInv'
BY GotoMoves, CalmKeeps

LEMMA NotFoundKeeps ==
    ASSUME IdInv, TransactionInv, NEW l \in Logins, UNCHANGED accountRows, NotFound(l)
    PROVE  TransactionInv'
BY GotoKeeps DEF NotFound

\* A row of the index is found, or the account is answered.
LEMMA AnswerKeeps ==
    ASSUME IdInv, TransactionInv, NEW l \in Logins, UNCHANGED accountRows,
           NEW step \in {"read", "reread", "served"}, NEW id \in Ids,
           login' = [login EXCEPT ![l] = [login[l] EXCEPT !.step = step, !.answer = id]],
           \E r \in identities : r.subject = login[l].subject /\ r.id = id
    PROVE  TransactionInv'
<1>1. login \in [Logins -> Login] /\ login[l] \in Login
  BY DEF IdInv, GeneratorInv, AccountTypes
<1>2. /\ login'[l].step = step /\ login'[l].subject = login[l].subject /\ login'[l].answer = id
      /\ \A k \in Logins \ {l} : login'[k] = login[k]
  BY <1>1 DEF Login
<1>3. users' = users /\ identities' = identities
  BY DEF accountRows
<1>4. \A k \in Logins : login'[k].step = "commit" =>
         login[k].step = "commit" /\ Row(k)' = Row(k)
  BY <1>2 DEF Row
<1>5. ASSUME NEW k \in Logins, login'[k].step \in {"read", "reread", "served"}
      PROVE  \E r \in identities : r.subject = login'[k].subject /\ r.id = login'[k].answer
  <2>1. CASE k = l
    BY <1>2, <2>1
  <2>2. CASE k # l
    <3>1. login'[k] = login[k]
      BY <1>2, <2>2
    <3> QED BY <1>5, <3>1 DEF TransactionInv, OneAccount
  <2> QED BY <2>1, <2>2
<1>6. OneAccount'
  BY <1>3, <1>5 DEF TransactionInv, OneAccount, Clash
<1>7. ASSUME NEW k \in Logins, login'[k].step = "commit"
      PROVE  /\ \A r \in identities : ~Clash(r, Row(k)')
             /\ \A m \in Logins \ {k} : login'[m].step = "commit" => ~Clash(Row(m)', Row(k)')
  BY <1>4, <1>7 DEF TransactionInv
<1> QED BY <1>3, <1>5, <1>6, <1>7 DEF TransactionInv, Clash

LEMMA FindKeepsOne ==
    ASSUME IdInv, TransactionInv, NEW l \in Logins, Find(l)
    PROVE  TransactionInv'
<1>1. UNCHANGED accountRows /\ login[l].step \in {"find", "refind"}
  BY DEF Find
<1>2. CASE NotFound(l)
  BY <1>1, <1>2, NotFoundKeeps
<1>3. CASE ~NotFound(l)
  <2>1. PICK seen \in MaySee({r \in identities : r.subject = login[l].subject}) :
           \E r \in seen :
              login' = [login EXCEPT ![l].step = IF @ = "find" THEN "read" ELSE "reread",
                                     ![l].answer = r.id]
    BY <1>3 DEF Find
  <2>2. seen \subseteq {r \in identities : r.subject = login[l].subject}
    BY DEF MaySee
  <2>3. PICK r \in identities :
           /\ r.subject = login[l].subject
           /\ login' = [login EXCEPT ![l].step = IF @ = "find" THEN "read" ELSE "reread",
                                     ![l].answer = r.id]
    BY <2>1, <2>2
  <2>4. login \in [Logins -> Login] /\ r.id \in Ids
    BY DEF IdInv, GeneratorInv, AccountTypes, AccountRow
  <2>5. \E q \in identities : q.subject = login[l].subject /\ q.id = r.id
    BY <2>3
  <2>6. CASE login[l].step = "find"
    <3>1. login' = [login EXCEPT ![l] = [login[l] EXCEPT !.step = "read", !.answer = r.id]]
      BY <2>3, <2>4, <2>6
    <3> QED BY <1>1, <2>4, <2>5, <3>1, AnswerKeeps
  <2>7. CASE login[l].step = "refind"
    <3>1. login' = [login EXCEPT ![l] = [login[l] EXCEPT !.step = "reread", !.answer = r.id]]
      BY <2>3, <2>4, <2>7
    <3> QED BY <1>1, <2>4, <2>5, <3>1, AnswerKeeps
  <2> QED BY <1>1, <2>6, <2>7
<1> QED BY <1>2, <1>3

LEMMA ReadKeepsOne ==
    ASSUME IdInv, TransactionInv, NEW l \in Logins, Read(l)
    PROVE  TransactionInv'
<1>1. UNCHANGED accountRows /\ login[l].step \in {"read", "reread"}
  BY DEF Read
<1>2. CASE NotFound(l)
  BY <1>1, <1>2, NotFoundKeeps
<1>3. CASE ServeAccount(l, login[l].answer)
  <2>1. PICK r \in identities : r.subject = login[l].subject /\ r.id = login[l].answer
    BY <1>1 DEF TransactionInv
  <2>2. r.id \in Ids /\ login \in [Logins -> Login]
    BY DEF IdInv, GeneratorInv, AccountTypes, AccountRow
  <2>3. login' = [login EXCEPT ![l] = [login[l] EXCEPT !.step = "served", !.answer = r.id]]
    BY <1>3, <2>1, <2>2 DEF ServeAccount
  <2> QED BY <1>1, <2>1, <2>2, <2>3, AnswerKeeps
<1> QED BY <1>2, <1>3 DEF Read

\* The unique indexes let the row in, and so nothing clashes with it.
LEMMA InsertIdentityKeepsOne ==
    ASSUME IdInv, TransactionInv, NEW l \in Logins, InsertIdentity(l)
    PROVE  TransactionInv'
<1>1. CASE Abort(l)
  BY <1>1, GotoKeeps DEF Abort
<1>2. CASE (\A r \in identities : ~Clash(r, Row(l))) /\ Goto(l, "commit") /\ UNCHANGED accountRows
  <2>1. login'[l] = [login[l] EXCEPT !.step = "commit"] /\ login'[l].step = "commit"
        /\ \A k \in Logins \ {l} : login'[k] = login[k]
    BY <1>2, GotoMoves
  <2>2. login[l] \in Login
    BY DEF IdInv, GeneratorInv, AccountTypes
  <2>3. \A k \in Logins : Row(k)' = Row(k)
    BY <2>1, <2>2 DEF Row, Login
  <2>4. users' = users /\ identities' = identities
    BY <1>2 DEF accountRows
  <2>5. OneAccount'
    <3>1. \A k \in Logins : login'[k].step = "served" => login'[k] = login[k]
      BY <2>1
    <3>2. users' = identities' /\ \A r, q \in identities' : Clash(r, q) => r = q
      BY <2>4 DEF TransactionInv, OneAccount
    <3>3. ASSUME NEW k \in Logins, login'[k].step = "served"
          PROVE  \E r \in identities' : r.subject = login'[k].subject /\ r.id = login'[k].answer
      BY <2>4, <3>1, <3>3 DEF TransactionInv, OneAccount
    <3> QED BY <3>2, <3>3 DEF OneAccount, Clash
  <2>6. ASSUME NEW m \in Logins \ {l}, login[m].step = "commit"
        PROVE  ~Clash(Row(m), Row(l)) /\ ~Clash(Row(l), Row(m))
    <3>1. Row(m) \in PendingIdentities(l)
      BY <2>6 DEF PendingIdentities
    <3> QED BY <3>1 DEF InsertIdentity, Clash
  <2>7. ASSUME NEW k \in Logins, login'[k].step = "commit"
        PROVE  /\ \A r \in identities : ~Clash(r, Row(k))
               /\ \A m \in Logins \ {k} : login'[m].step = "commit" => ~Clash(Row(m), Row(k))
    <3>1. CASE k = l
      BY <1>2, <2>1, <2>6, <3>1
    <3>2. CASE k # l
      BY <2>1, <2>6, <2>7, <3>2 DEF TransactionInv
    <3> QED BY <3>1, <3>2
  <2>8. ASSUME NEW k \in Logins, login'[k].step \in {"read", "reread"}
        PROVE  \E r \in identities : r.subject = login'[k].subject /\ r.id = login'[k].answer
    <3>1. login'[k] = login[k]
      BY <2>1, <2>8
    <3> QED BY <2>8, <3>1 DEF TransactionInv
  <2> QED BY <2>3, <2>4, <2>5, <2>7, <2>8 DEF TransactionInv, Clash
<1> QED BY <1>1, <1>2 DEF InsertIdentity

\* Both rows come at once, and clash with nothing.
LEMMA CommitKeepsOne ==
    ASSUME IdInv, TransactionInv, NEW l \in Logins, Commit(l)
    PROVE  TransactionInv'
<1>1. /\ login[l].step = "commit" /\ users' = users \cup {Row(l)}
      /\ identities' = identities \cup {Row(l)}
  BY DEF Commit
<1>2. login \in [Logins -> Login] /\ login[l] \in Login
  BY DEF IdInv, GeneratorInv, AccountTypes
<1>3. /\ login'[l].step \in {"served", "refind"} /\ login'[l].subject = login[l].subject
      /\ login'[l].step = "served" => login'[l].answer = login[l].id
      /\ \A k \in Logins \ {l} : login'[k] = login[k]
  <2>1. CASE ServeAccount(l, login[l].id)
    BY <1>2, <2>1 DEF ServeAccount, Login
  <2>2. CASE Goto(l, "refind")
    BY <1>2, <2>2 DEF Goto, Login
  <2> QED BY <2>1, <2>2 DEF Commit
<1>4. users' = identities'
  BY <1>1 DEF TransactionInv, OneAccount
<1>5. ASSUME NEW r \in identities', NEW q \in identities', Clash(r, q) PROVE r = q
  <2>1. \A p \in identities : ~Clash(p, Row(l)) /\ ~Clash(Row(l), p)
    BY <1>1 DEF TransactionInv, Clash
  <2>2. CASE r \in identities /\ q \in identities
    BY <1>5, <2>2 DEF TransactionInv, OneAccount
  <2>3. CASE r = Row(l) \/ q = Row(l)
    BY <1>1, <1>5, <2>1, <2>3
  <2> QED BY <1>1, <2>2, <2>3
<1>6. Row(l).subject = login[l].subject /\ Row(l).id = login[l].id
  BY DEF Row
<1>7. ASSUME NEW k \in Logins, login'[k].step \in {"read", "reread", "served"}
      PROVE  \E r \in identities' : r.subject = login'[k].subject /\ r.id = login'[k].answer
  <2>1. CASE k = l
    BY <1>1, <1>3, <1>6, <1>7, <2>1
  <2>2. CASE k # l
    <3>1. login'[k] = login[k]
      BY <1>3, <2>2
    <3>2. \E r \in identities : r.subject = login[k].subject /\ r.id = login[k].answer
      BY <1>7, <3>1 DEF TransactionInv, OneAccount
    <3> QED BY <1>1, <3>1, <3>2
  <2> QED BY <2>1, <2>2
<1>8. OneAccount'
  BY <1>4, <1>5, <1>7 DEF OneAccount, Clash
<1>9. ASSUME NEW k \in Logins, login'[k].step = "commit"
      PROVE  /\ \A r \in identities' : ~Clash(r, Row(k)')
             /\ \A m \in Logins \ {k} : login'[m].step = "commit" => ~Clash(Row(m)', Row(k)')
  <2>1. \A m \in Logins : login'[m].step = "commit" =>
           m # l /\ login[m].step = "commit" /\ Row(m)' = Row(m)
    BY <1>3 DEF Row
  <2>2. ~Clash(Row(l), Row(k)) /\ \A r \in identities : ~Clash(r, Row(k))
    BY <1>1, <1>9, <2>1 DEF TransactionInv
  <2>3. \A m \in Logins \ {k} : login'[m].step = "commit" => ~Clash(Row(m), Row(k))
    BY <1>9, <2>1 DEF TransactionInv
  <2> QED BY <1>1, <1>9, <2>1, <2>2, <2>3
<1> QED BY <1>7, <1>8, <1>9 DEF TransactionInv, Clash

LEMMA TransactionsKeep ==
    ASSUME IdInv, TransactionInv, [AccountsNext]_accountVars
    PROVE  TransactionInv'
<1>1. CASE UNCHANGED accountVars
  BY <1>1, CalmKeeps DEF accountVars
<1>2. ASSUME NEW n \in Nodes, Tick(n) \/ SetBack(n) PROVE TransactionInv'
  BY <1>2, CalmKeeps DEF Tick, SetBack
<1>3. ASSUME NEW n \in Nodes, Restart(n) PROVE TransactionInv'
  <2>1. UNCHANGED accountRows
    BY <1>3 DEF Restart
  <2>2. ASSUME NEW k \in Logins, login'[k] # login[k] PROVE login'[k].step = "lost"
    <3>1. login[k] \in Login
      BY DEF IdInv, GeneratorInv, AccountTypes
    <3>2. login'[k] = [login[k] EXCEPT !.step = "lost"]
      BY <1>3, <2>2 DEF Restart
    <3> QED BY <3>1, <3>2 DEF Login
  <2> QED BY <2>1, <2>2, CalmKeeps
<1>4. ASSUME NEW l \in Logins, NEW n, NEW entry \in Login, NEW seq, Take(l, entry, n, seq),
             UNCHANGED accountRows
      PROVE  TransactionInv'
  <2>1. login \in [Logins -> Login]
    BY DEF IdInv, GeneratorInv, AccountTypes
  <2>2. login'[l].step \in {"refused", "find"} /\ \A k \in Logins \ {l} : login'[k] = login[k]
    <3>1. CASE login' = [login EXCEPT ![l] = [entry EXCEPT !.step = "refused"]]
      BY <2>1, <3>1 DEF Login
    <3>2. CASE login' = [login EXCEPT ![l] = [entry EXCEPT !.step = "find",
                            !.id = [at |-> clock[n], node |-> n, seq |-> seq]]]
      BY <2>1, <3>2 DEF Login
    <3> QED BY <1>4, <3>1, <3>2 DEF Take
  <2> QED BY <1>4, <2>2, CalmKeeps
<1>5. ASSUME NEW l \in Logins, NEW s \in Subjects, NEW n \in Nodes, Draw(l, s, n)
      PROVE  TransactionInv'
  <2> DEFINE entry == [login[l] EXCEPT !.subject = s, !.node = n, !.starts = starts[n]]
  <2>1. login \in [Logins -> Login] /\ starts[n] \in Nat
    BY DEF IdInv, GeneratorInv, AccountTypes
  <2>2. entry \in Login
    BY <2>1 DEF Login
  <2>3. UNCHANGED accountRows
    BY <1>5 DEF Draw
  <2>4. ASSUME NEW step \in {"refused", "spin"},
               login' = [login EXCEPT ![l] = [entry EXCEPT !.step = step]]
        PROVE  TransactionInv'
    <3>1. login'[l].step = step /\ \A k \in Logins \ {l} : login'[k] = login[k]
      BY <2>1, <2>2, <2>4 DEF Login
    <3> QED BY <2>3, <3>1, CalmKeeps
  <2>5. \/ login' = [login EXCEPT ![l] = [entry EXCEPT !.step = "refused"]]
        \/ login' = [login EXCEPT ![l] = [entry EXCEPT !.step = "spin"]]
        \/ Take(l, entry, n, NextSequence(n))
    BY <1>5 DEF Draw
  <2> HIDE DEF entry
  <2> QED BY <1>4, <2>2, <2>3, <2>4, <2>5
<1>6. ASSUME NEW l \in Logins, EndOfWait(l) PROVE TransactionInv'
  <2>1. login[l] \in Login
    BY DEF IdInv, GeneratorInv, AccountTypes
  <2>2. Take(l, login[l], login[l].node, sequence[login[l].node]) /\ UNCHANGED accountRows
    BY <1>6 DEF EndOfWait
  <2> QED BY <1>4, <2>1, <2>2
<1>7. ASSUME NEW l \in Logins, DatabaseStep(l) PROVE TransactionInv'
  <2>1. CASE InsertUser(l)
    BY <2>1, GotoKeeps DEF InsertUser, Abort
  <2>2. CASE Fail(l)
    BY <2>2, GotoKeeps DEF Fail, Abort
  <2> QED BY <1>7, <2>1, <2>2, FindKeepsOne, ReadKeepsOne, InsertIdentityKeepsOne,
             CommitKeepsOne DEF DatabaseStep
<1> QED BY <1>1, <1>2, <1>3, <1>5, <1>6, <1>7 DEF AccountsNext, DatabaseStep

\* A subject has one account under one id, in the index and in a shard, and
\* every login of the subject is answered with it, for any number of nodes,
\* requests and subjects.
THEOREM OneAccountEach == AccountsSpec => []OneAccount
<1>1. AccountsInit => TransactionInv
  BY DEF AccountsInit, TransactionInv, OneAccount
<1>2. IdInv /\ TransactionInv /\ [AccountsNext]_accountVars => (IdInv /\ TransactionInv)'
  BY AccountsKeep, TransactionsKeep
<1>3. IdInv /\ TransactionInv => OneAccount
  BY DEF TransactionInv
<1> QED BY <1>1, <1>2, <1>3, AccountsStart, PTL DEF AccountsSpec
=============================================================================
