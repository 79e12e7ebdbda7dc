------------------------ MODULE AdminProfiles_proofs ------------------------
(***************************************************************************)
(* Theorems about AdminProfiles: types, the row that is served, and how    *)
(* old a served profile can be, for any administrators, subjects, requests *)
(* and times.                                                              *)
(***************************************************************************)
EXTENDS AdminProfiles, TLAPS

USE ProfilesAssumption

----------------------------------------------------------------------------
(* The inductive invariant *)

\* The history of a row is not ahead of time, and is at it while the row is
\* enabled or has the role.
RowInv(a) ==
    /\ enabledAt[a] <= now /\ (Enabled(a) => enabledAt[a] = now)
    /\ \A c \in Codes : heldAt[a][c] <= now /\ (c \in admin[a].roles => heldAt[a][c] = now)

\* The row a was enabled, and had the role c, at the time t or later.
EnabledSince(a, t) == a \in Admins /\ enabledAt[a] >= t
HeldSince(a, c, t) == a \in Admins /\ c \in Codes /\ heldAt[a][c] >= t

BoundTo(a, s) == a \in Admins /\ s \in Accounts /\ admin[a].subject = s

Pending(e) == e.step \notin {"idle", "served", "refused"}

\* What a replica may still show was so, and not long ago: the history of the rows
\* has not forgotten it, and their subjects have stayed.
PastInv(p) ==
    /\ p.until <= now /\ p.until >= now - Lag
    /\ \A a \in Admins :
         /\ p.rows[a].enabled /\ ~p.rows[a].deleted => enabledAt[a] >= p.until
         /\ \A c \in p.rows[a].roles : heldAt[a][c] >= p.until
         /\ p.rows[a].subject # Nobody => admin[a].subject = p.rows[a].subject

Past == [rows : [Admins -> AdminRow], until : Nat]

\* What holds of a request that stands at e: what it knows was so when it began, or
\* a replica has shown it that is no further behind than Lag.
Sound(e) ==
    /\ e.from <= now
    /\ Pending(e) => e.subject \in Accounts /\ e.name \in Admins /\ now <= e.from + Timeout
    /\ e.step \in {"roles", "unbound", "bind", "store"} => e.row \in Admins
    /\ e.step \in {"roles", "unbound", "bind", "store"} /\ e.enabled =>
         EnabledSince(e.row, e.from - Lag)
    /\ e.step \in {"bind", "store"} /\ e.code # "" => HeldSince(e.row, e.code, e.from - Lag)
    /\ e.step = "store" => e.enabled /\ e.code # ""
    /\ e.step \in {"roles", "store", "served"} => BoundTo(e.row, e.subject)
    /\ e.step = "served" /\ e.from = now =>
         /\ EnabledSince(e.row, now - (TTL + Timeout + Lag) + 1)
         /\ HeldSince(e.row, e.code, now - (TTL + Timeout + Lag) + 1)

\* What holds of a cached profile p of s
Good(p, s) ==
    p.row # Nobody =>
      /\ p.until > now /\ BoundTo(p.row, s)
      /\ EnabledSince(p.row, p.until - (TTL + Timeout + Lag))
      /\ HeldSince(p.row, p.code, p.until - (TTL + Timeout + Lag))

ProfileInv ==
    /\ ProfileTypes
    /\ \A a \in Admins : RowInv(a)
    /\ \A p \in past : PastInv(p)
    /\ \A q \in Lookups : Sound(ask[q])
    /\ \A s \in Accounts : Good(cache[s], s)

LEMMA InvServes == ProfileInv => ServedIsMine /\ StaleForAtMost
<1> SUFFICES ASSUME ProfileInv, NEW q \in Lookups, ask[q].step = "served"
             PROVE  /\ admin[ask[q].row].subject = ask[q].subject
                    /\ ask[q].from = now =>
                         /\ enabledAt[ask[q].row] > now - (TTL + Timeout + Lag)
                         /\ heldAt[ask[q].row][ask[q].code] > now - (TTL + Timeout + Lag)
  BY DEF ServedIsMine, StaleForAtMost
<1>1. Sound(ask[q])
  BY DEF ProfileInv
<1>2. admin[ask[q].row].subject = ask[q].subject
  BY <1>1 DEF Sound, BoundTo
<1>3. ASSUME ask[q].from = now
      PROVE  /\ enabledAt[ask[q].row] > now - (TTL + Timeout + Lag)
             /\ heldAt[ask[q].row][ask[q].code] > now - (TTL + Timeout + Lag)
  <2>1. /\ ask[q].row \in Admins /\ ask[q].code \in Codes
        /\ enabledAt[ask[q].row] >= now - (TTL + Timeout + Lag) + 1
        /\ heldAt[ask[q].row][ask[q].code] >= now - (TTL + Timeout + Lag) + 1
    BY <1>1, <1>3 DEF Sound, EnabledSince, HeldSince
  <2>2. now \in Int /\ enabledAt[ask[q].row] \in Int /\ heldAt[ask[q].row][ask[q].code] \in Int
    BY <2>1 DEF ProfileInv, ProfileTypes
  <2> QED BY <2>1, <2>2
<1> QED BY <1>2, <1>3

----------------------------------------------------------------------------
(* What lasts *)

\* Subjects stay, and the history of a row only grows.
Grows ==
    \A a \in Admins :
        /\ admin[a].subject # Nobody => admin'[a].subject = admin[a].subject
        /\ enabledAt'[a] >= enabledAt[a]
        /\ \A c \in Codes : heldAt'[a][c] >= heldAt[a][c]

\* Who had a role lately had it lately, by an earlier measure.
LEMMA HeldEarlier ==
    ASSUME ProfileTypes, NEW a, NEW c, NEW from \in Nat, from <= now,
           HeldSince(a, c, now - Lag)
    PROVE  HeldSince(a, c, from - Lag)
<1>1. a \in Admins /\ c \in Codes /\ heldAt[a][c] \in Nat /\ now \in Nat
  BY DEF HeldSince, ProfileTypes
<1>2. heldAt[a][c] >= now - Lag
  BY DEF HeldSince
<1>3. heldAt[a][c] >= from - Lag
  BY <1>1, <1>2
<1> QED BY <1>1, <1>3 DEF HeldSince

LEMMA SinceStays ==
    ASSUME ProfileTypes, ProfileTypes', Grows, NEW a, NEW c, NEW s, NEW t \in Int
    PROVE  /\ EnabledSince(a, t) => EnabledSince(a, t)'
           /\ HeldSince(a, c, t) => HeldSince(a, c, t)'
           /\ BoundTo(a, s) => BoundTo(a, s)'
<1>1. ASSUME EnabledSince(a, t) PROVE EnabledSince(a, t)'
  <2>1. a \in Admins /\ enabledAt[a] \in Int /\ enabledAt'[a] \in Int
    BY <1>1 DEF EnabledSince, ProfileTypes
  <2> QED BY <1>1, <2>1 DEF EnabledSince, Grows
<1>2. ASSUME HeldSince(a, c, t) PROVE HeldSince(a, c, t)'
  <2>1. a \in Admins /\ c \in Codes /\ heldAt[a][c] \in Int /\ heldAt'[a][c] \in Int
    BY <1>2 DEF HeldSince, ProfileTypes
  <2>2. heldAt'[a][c] >= heldAt[a][c] /\ heldAt[a][c] >= t
    BY <1>2, <2>1 DEF HeldSince, Grows
  <2> QED BY <2>1, <2>2 DEF HeldSince
<1>3. ASSUME BoundTo(a, s) PROVE BoundTo(a, s)'
  BY <1>3 DEF BoundTo, Grows
<1> QED BY <1>1, <1>2, <1>3

\* In no time, what holds of a request and of a profile goes on holding.
LEMMA SoundStays ==
    ASSUME ProfileTypes, ProfileTypes', Grows, now' = now, NEW e \in Inquiry, Sound(e)
    PROVE  Sound(e)'
<1>1. now \in Int /\ e.from - Lag \in Int /\ now - (TTL + Timeout + Lag) + 1 \in Int
  <2>1. now \in Nat /\ e.from \in Nat
    BY DEF ProfileTypes, Inquiry
  <2> QED BY <2>1
<1>2. /\ EnabledSince(e.row, e.from - Lag) => EnabledSince(e.row, e.from - Lag)'
      /\ HeldSince(e.row, e.code, e.from - Lag) => HeldSince(e.row, e.code, e.from - Lag)'
      /\ BoundTo(e.row, e.subject) => BoundTo(e.row, e.subject)'
  <2>1. PICK u \in Int : u = e.from - Lag
    BY <1>1
  <2>2. /\ EnabledSince(e.row, u) => EnabledSince(e.row, u)'
        /\ HeldSince(e.row, e.code, u) => HeldSince(e.row, e.code, u)'
        /\ BoundTo(e.row, e.subject) => BoundTo(e.row, e.subject)'
    BY SinceStays
  <2> QED BY <2>1, <2>2 DEF EnabledSince, HeldSince
<1>3. /\ EnabledSince(e.row, now - (TTL + Timeout + Lag) + 1) =>
           EnabledSince(e.row, now - (TTL + Timeout + Lag) + 1)'
      /\ HeldSince(e.row, e.code, now - (TTL + Timeout + Lag) + 1) =>
           HeldSince(e.row, e.code, now - (TTL + Timeout + Lag) + 1)'
  <2> DEFINE t == now - (TTL + Timeout + Lag) + 1
  <2>1. PICK u \in Int : u = t
    BY <1>1
  <2>2. u = t'
    BY <2>1
  <2>3. /\ EnabledSince(e.row, u) => EnabledSince(e.row, u)'
        /\ HeldSince(e.row, e.code, u) => HeldSince(e.row, e.code, u)'
    BY SinceStays
  <2> QED BY <2>1, <2>2, <2>3 DEF EnabledSince, HeldSince
<1> QED BY <1>2, <1>3 DEF Sound, Pending

LEMMA GoodStays ==
    ASSUME ProfileTypes, ProfileTypes', Grows, NEW p \in Profile, NEW s \in Accounts, Good(p, s),
           p.row # Nobody => p.until > now'
    PROVE  Good(p, s)'
<1>1. p.until - (TTL + Timeout + Lag) \in Int
  <2>1. p.until \in Nat
    BY DEF Profile
  <2> QED BY <2>1
<1> QED BY <1>1, SinceStays DEF Good

\* What the past shows goes on being no news, while it is not too old.
LEMMA PastStays ==
    ASSUME ProfileTypes, ProfileTypes', Grows, NEW p \in Past, PastInv(p),
           now <= now', p.until >= now' - Lag
    PROVE  PastInv(p)'
<1>1. now \in Int /\ now' \in Int /\ p.until \in Int /\ p.until <= now'
  <2>1. now \in Int /\ now' \in Int /\ p.until \in Int /\ p.until <= now
    BY DEF ProfileTypes, Past, PastInv
  <2> QED BY <2>1
<1>2. ASSUME NEW a \in Admins
      PROVE  /\ p.rows[a].enabled /\ ~p.rows[a].deleted => enabledAt'[a] >= p.until
             /\ \A c \in p.rows[a].roles : heldAt'[a][c] >= p.until
             /\ p.rows[a].subject # Nobody => admin'[a].subject = p.rows[a].subject
  <2>1. p.rows[a].roles \subseteq Codes
    BY DEF Past, AdminRow
  <2>2. /\ enabledAt[a] \in Int /\ enabledAt'[a] \in Int /\ enabledAt'[a] >= enabledAt[a]
        /\ \A c \in Codes : /\ heldAt[a][c] \in Int /\ heldAt'[a][c] \in Int
                            /\ heldAt'[a][c] >= heldAt[a][c]
    BY DEF ProfileTypes, Grows
  <2>3. /\ p.rows[a].enabled /\ ~p.rows[a].deleted => enabledAt[a] >= p.until
        /\ \A c \in p.rows[a].roles : heldAt[a][c] >= p.until
        /\ p.rows[a].subject # Nobody => admin[a].subject = p.rows[a].subject
    BY DEF PastInv
  <2>4. p.rows[a].subject # Nobody => admin'[a].subject = p.rows[a].subject
    BY <2>3 DEF Grows
  <2>5. p.rows[a].enabled /\ ~p.rows[a].deleted => enabledAt'[a] >= p.until
    BY <1>1, <2>2, <2>3
  <2>6. ASSUME NEW c \in p.rows[a].roles PROVE heldAt'[a][c] >= p.until
    BY <1>1, <2>1, <2>2, <2>3
  <2> QED BY <2>4, <2>5, <2>6
<1> QED BY <1>1, <1>2 DEF PastInv

\* What is replaced becomes past.
LEMMA NowIsPast ==
    ASSUME ProfileInv, ProfileTypes', Grows, now' = now, NEW p \in Past,
           p = [rows |-> admin, until |-> now]
    PROVE  PastInv(p)'
<1>1. now \in Nat /\ p.rows = admin /\ p.until = now
  BY DEF ProfileInv, ProfileTypes
<1>2. now <= now /\ now >= now - Lag
  BY <1>1
<1>3. ASSUME NEW a \in Admins
      PROVE  /\ admin[a].enabled /\ ~admin[a].deleted => enabledAt[a] >= now
             /\ \A c \in admin[a].roles : heldAt[a][c] >= now
  <2>1. /\ Enabled(a) => enabledAt[a] = now
        /\ \A c \in Codes : c \in admin[a].roles => heldAt[a][c] = now
    BY DEF ProfileInv, RowInv
  <2>2. admin[a].roles \subseteq Codes
    BY DEF ProfileInv, ProfileTypes, AdminRow
  <2> QED BY <1>1, <2>1, <2>2 DEF Enabled
<1>4. PastInv(p)
  BY <1>1, <1>2, <1>3 DEF PastInv
<1> QED BY <1>1, <1>2, <1>4, PastStays DEF ProfileInv

\* The rows are replaced, or stay, and nothing else becomes past.
LEMMA BecomesTypes ==
    ASSUME ProfileTypes, NEW rows, Becomes(rows) \/ UNCHANGED <<admin, past>>
    PROVE  /\ past' \subseteq Past
           /\ \A p \in past' : p \in past \/ p = [rows |-> admin, until |-> now]
<1>1. past \subseteq Past /\ [rows |-> admin, until |-> now] \in Past
  BY DEF ProfileTypes, Past
<1> QED BY <1>1 DEF Becomes

LEMMA BecomesKeeps ==
    ASSUME ProfileInv, ProfileTypes', Grows, now' = now,
           NEW rows, Becomes(rows) \/ UNCHANGED <<admin, past>>
    PROVE  \A p \in past' : p \in past \/ PastInv(p)'
BY BecomesTypes, NowIsPast DEF ProfileInv

\* What a query is shown is no older than Lag, and shows no wrong binding.
LEMMA ShownIsRecent ==
    ASSUME ProfileInv, NEW rows \in Shown, NEW a \in Admins
    PROVE  /\ rows[a] \in AdminRow
           /\ rows[a].enabled /\ ~rows[a].deleted => EnabledSince(a, now - Lag)
           /\ \A c \in rows[a].roles : HeldSince(a, c, now - Lag)
           /\ rows[a].subject # Nobody => BoundTo(a, rows[a].subject)
<1>1. now \in Nat /\ now >= now - Lag /\ admin \in [Admins -> AdminRow]
      /\ enabledAt[a] \in Nat /\ \A c \in Codes : heldAt[a][c] \in Nat
  BY DEF ProfileInv, ProfileTypes
<1>2. CASE rows = admin
  <2>1. rows[a] \in AdminRow /\ rows[a].roles \subseteq Codes
    BY <1>1, <1>2 DEF AdminRow
  <2>2. /\ Enabled(a) => enabledAt[a] = now
        /\ \A c \in Codes : c \in admin[a].roles => heldAt[a][c] = now
    BY DEF ProfileInv, RowInv
  <2>3. rows[a].enabled /\ ~rows[a].deleted => EnabledSince(a, now - Lag)
    BY <1>1, <1>2, <2>2 DEF Enabled, EnabledSince
  <2>4. \A c \in rows[a].roles : HeldSince(a, c, now - Lag)
    BY <1>1, <1>2, <2>1, <2>2 DEF HeldSince
  <2>5. rows[a].subject # Nobody => BoundTo(a, rows[a].subject)
    BY <1>2, <2>1 DEF AdminRow, BoundTo
  <2> QED BY <2>1, <2>3, <2>4, <2>5
<1>3. CASE \E p \in past : rows = p.rows
  <2>1. PICK p \in past : rows = p.rows
    BY <1>3
  <2>2. PastInv(p) /\ p \in Past
    BY DEF ProfileInv, ProfileTypes, Past
  <2>3. rows[a] \in AdminRow /\ rows[a].roles \subseteq Codes /\ p.until \in Nat
    BY <2>1, <2>2 DEF Past, AdminRow
  <2>4. /\ p.until >= now - Lag
        /\ rows[a].enabled /\ ~rows[a].deleted => enabledAt[a] >= p.until
        /\ \A c \in rows[a].roles : heldAt[a][c] >= p.until
        /\ rows[a].subject # Nobody => admin[a].subject = rows[a].subject
    BY <2>1, <2>2 DEF PastInv
  <2>5. rows[a].enabled /\ ~rows[a].deleted => EnabledSince(a, now - Lag)
    BY <1>1, <2>3, <2>4 DEF EnabledSince
  <2>6. \A c \in rows[a].roles : HeldSince(a, c, now - Lag)
    BY <1>1, <2>3, <2>4 DEF HeldSince
  <2>7. rows[a].subject # Nobody => BoundTo(a, rows[a].subject)
    BY <2>3, <2>4 DEF AdminRow, BoundTo
  <2> QED BY <2>3, <2>5, <2>6, <2>7
<1> QED BY <1>2, <1>3 DEF Shown

\* A step in no time: what is new is sound, and the rest only grows.
LEMMA StepKeeps ==
    ASSUME ProfileInv, ProfileTypes', Grows, now' = now, \A a \in Admins : RowInv(a)',
           \A p \in past' : p \in past \/ PastInv(p)',
           \A q \in Lookups : ask'[q] = ask[q] \/ Sound(ask[q])',
           \A s \in Accounts : cache'[s] = cache[s] \/ Good(cache[s], s)'
    PROVE  ProfileInv'
<1>1. ProfileTypes
  BY DEF ProfileInv
<1>2. ASSUME NEW q \in Lookups, ask'[q] = ask[q] PROVE Sound(ask[q])'
  <2>1. PICK e \in Inquiry : e = ask[q] /\ e = ask'[q]
    BY <1>1, <1>2 DEF ProfileTypes
  <2>2. Sound(e)
    BY <2>1 DEF ProfileInv
  <2>3. Sound(e)'
    BY <1>1, <2>2, SoundStays
  <2> QED BY <2>1, <2>3 DEF Sound, Pending
<1>3. ASSUME NEW s \in Accounts, cache'[s] = cache[s] PROVE Good(cache[s], s)'
  <2>1. PICK p \in Profile : p = cache[s] /\ p = cache'[s]
    BY <1>1, <1>3 DEF ProfileTypes
  <2>2. Good(p, s)
    BY <2>1 DEF ProfileInv
  <2>3. p.row # Nobody => p.until > now'
    BY <2>2 DEF Good
  <2>4. Good(p, s)'
    BY <1>1, <2>2, <2>3, GoodStays
  <2> QED BY <2>1, <2>4 DEF Good
<1>4. ASSUME NEW p \in past', p \in past PROVE PastInv(p)'
  <2>1. p \in Past /\ PastInv(p)
    BY <1>1, <1>4 DEF ProfileInv, ProfileTypes, Past
  <2>2. now \in Int /\ now <= now' /\ p.until >= now' - Lag
    BY <1>1, <2>1 DEF ProfileTypes, PastInv
  <2> QED BY <1>1, <2>1, <2>2, PastStays
<1> QED BY <1>2, <1>3, <1>4 DEF ProfileInv

\* One request goes to e, and nothing else changes.
LEMMA RequestKeeps ==
    ASSUME ProfileInv, UNCHANGED rest, changes' \in 0 .. Changes,
           NEW q \in Lookups, NEW e \in Inquiry, ask' = [ask EXCEPT ![q] = e], Sound(e)
    PROVE  ProfileInv'
<1>1. ProfileTypes /\ \A a \in Admins : RowInv(a)
  BY DEF ProfileInv
<1>2. /\ now' = now /\ admin' = admin /\ past' = past /\ cache' = cache
      /\ enabledAt' = enabledAt /\ heldAt' = heldAt
  BY DEF rest
<1>3. ask' \in [Lookups -> Inquiry] /\ ask'[q] = e /\ \A p \in Lookups \ {q} : ask'[p] = ask[p]
  BY <1>1 DEF ProfileTypes
<1>4. ProfileTypes'
  BY <1>1, <1>2, <1>3 DEF ProfileTypes
<1>5. Grows
  <2>1. \A a \in Admins : enabledAt[a] \in Int /\ \A c \in Codes : heldAt[a][c] \in Int
    BY <1>1 DEF ProfileTypes
  <2> QED BY <1>2, <2>1 DEF Grows
<1>6. \A a \in Admins : RowInv(a)'
  BY <1>1, <1>2 DEF RowInv, Enabled
<1>7. Sound(ask[q])'
  BY <1>2, <1>3 DEF Sound, Pending, EnabledSince, HeldSince, BoundTo
<1> QED BY <1>2, <1>3, <1>4, <1>5, <1>6, <1>7, StepKeeps

\* A refused request has nothing to answer for.
LEMMA RefusedSound ==
    ASSUME now \in Nat
    PROVE  LET e == [NoRequest EXCEPT !.step = "refused"] IN e \in Inquiry /\ Sound(e)
<1> DEFINE e == [NoRequest EXCEPT !.step = "refused"]
<1>1. e \in Inquiry /\ e.step = "refused" /\ e.from = 0
  BY DEF Inquiry, NoRequest
<1> HIDE DEF e
<1>2. Sound(e)
  BY <1>1 DEF Sound, Pending
<1> QED BY <1>1, <1>2 DEF e

LEMMA RefuseKeeps ==
    ASSUME ProfileInv, UNCHANGED rest, changes' \in 0 .. Changes, NEW q \in Lookups, Refuse(q)
    PROVE  ProfileInv'
<1>1. now \in Nat
  BY DEF ProfileInv, ProfileTypes
<1> QED BY <1>1, RefusedSound, RequestKeeps DEF Refuse

\* The profile of the row a may be served to s when it was good so lately.
LEMMA ServeSound ==
    ASSUME ProfileTypes, NEW a, NEW s, NEW c, NEW t \in Int, BoundTo(a, s),
           EnabledSince(a, t), HeldSince(a, c, t), t > now - (TTL + Timeout + Lag)
    PROVE  LET e == [NoRequest EXCEPT !.step = "served", !.subject = s, !.row = a, !.code = c,
                                      !.from = now]
           IN  e \in Inquiry /\ Sound(e)
<1> DEFINE e == [NoRequest EXCEPT !.step = "served", !.subject = s, !.row = a, !.code = c,
                                  !.from = now]
<1>1. a \in Admins /\ s \in Accounts /\ c \in Codes /\ now \in Nat
  BY DEF ProfileTypes, BoundTo, HeldSince
<1>2. /\ e \in Inquiry /\ e.step = "served" /\ e.subject = s /\ e.row = a /\ e.code = c
      /\ e.from = now
  BY <1>1 DEF Inquiry, NoRequest
<1>3. enabledAt[a] \in Int /\ heldAt[a][c] \in Int
  BY <1>1 DEF ProfileTypes
<1>4. /\ EnabledSince(a, now - (TTL + Timeout + Lag) + 1)
      /\ HeldSince(a, c, now - (TTL + Timeout + Lag) + 1)
  BY <1>1, <1>3 DEF EnabledSince, HeldSince
<1> HIDE DEF e
<1>5. Sound(e)
  BY <1>1, <1>2, <1>4 DEF Sound, Pending
<1> QED BY <1>2, <1>5 DEF e

\* What a request at its store has read is good enough to be served.
LEMMA StoreIsGood ==
    ASSUME ProfileInv, NEW q \in Lookups, ask[q].step = "store"
    PROVE  /\ BoundTo(ask[q].row, ask[q].subject) /\ now \in Nat
           /\ now - (Timeout + Lag) \in Int /\ now - (Timeout + Lag) > now - (TTL + Timeout + Lag)
           /\ EnabledSince(ask[q].row, now - (Timeout + Lag))
           /\ HeldSince(ask[q].row, ask[q].code, now - (Timeout + Lag))
<1>1. Sound(ask[q]) /\ ask[q] \in Inquiry /\ now \in Nat
  BY DEF ProfileInv, ProfileTypes
<1>2. /\ BoundTo(ask[q].row, ask[q].subject) /\ now <= ask[q].from + Timeout
      /\ EnabledSince(ask[q].row, ask[q].from - Lag)
      /\ HeldSince(ask[q].row, ask[q].code, ask[q].from - Lag)
  BY <1>1 DEF Sound, Pending
<1>3. ask[q].from \in Nat
  BY <1>1 DEF Inquiry
<1>4. /\ ask[q].row \in Admins /\ ask[q].code \in Codes
      /\ enabledAt[ask[q].row] \in Int /\ heldAt[ask[q].row][ask[q].code] \in Int
  BY <1>2 DEF EnabledSince, HeldSince, ProfileInv, ProfileTypes
<1>5. /\ EnabledSince(ask[q].row, now - (Timeout + Lag))
      /\ HeldSince(ask[q].row, ask[q].code, now - (Timeout + Lag))
  BY <1>1, <1>2, <1>3, <1>4 DEF EnabledSince, HeldSince
<1> QED BY <1>1, <1>2, <1>5

LEMMA ServeKeeps ==
    ASSUME ProfileInv, UNCHANGED rest, changes' \in 0 .. Changes, NEW q \in Lookups,
           NEW a, NEW c, NEW t \in Int, ServeProfile(q, a, c), BoundTo(a, ask[q].subject),
           EnabledSince(a, t), HeldSince(a, c, t), t > now - (TTL + Timeout + Lag)
    PROVE  ProfileInv'
<1> DEFINE e == [NoRequest EXCEPT !.step = "served", !.subject = ask[q].subject, !.row = a,
                                  !.code = c, !.from = now]
<1>1. ProfileTypes
  BY DEF ProfileInv
<1>2. e \in Inquiry /\ Sound(e)
  BY <1>1, ServeSound
<1>3. ask' = [ask EXCEPT ![q] = e]
  BY DEF ServeProfile
<1> QED BY <1>2, <1>3, RequestKeeps

\* The request goes to a step at which less, or no more, is known of it.
LEMMA GoKeeps ==
    ASSUME ProfileInv, UNCHANGED rest, changes' \in 0 .. Changes, NEW q \in Lookups,
           NEW step \in {"drop", "subject", "again", "name"}, Asking(q),
           ask' = [ask EXCEPT ![q].step = step]
    PROVE  ProfileInv'
<1> DEFINE e == [ask[q] EXCEPT !.step = step]
<1>1. ask \in [Lookups -> Inquiry] /\ Sound(ask[q])
  BY DEF ProfileInv, ProfileTypes
<1>2. /\ e \in Inquiry /\ e.step = step /\ e.subject = ask[q].subject /\ e.name = ask[q].name
      /\ e.from = ask[q].from
  BY <1>1 DEF Inquiry
<1>3. ask' = [ask EXCEPT ![q] = e]
  BY <1>1
<1> HIDE DEF e
<1>4. Sound(e)
  BY <1>1, <1>2 DEF Sound, Pending, Asking
<1> QED BY <1>2, <1>3, <1>4, RequestKeeps

----------------------------------------------------------------------------
(* The steps of a request *)

LEMMA InquiryStands ==
    ASSUME ProfileInv, NEW q \in Lookups
    PROVE  ask \in [Lookups -> Inquiry] /\ ask[q] \in Inquiry /\ Sound(ask[q]) /\ now \in Nat
BY DEF ProfileInv, ProfileTypes

\* The row that a query has found, as it was shown
LEMMA RowKeeps ==
    ASSUME ProfileInv, UNCHANGED <<rest, changes>>, NEW q \in Lookups, Asking(q),
           NEW rows \in Shown, NEW a \in Admins, ~rows[a].deleted, NEW step \in {"roles", "unbound"},
           step = "roles" => BoundTo(a, ask[q].subject),
           ask' = [ask EXCEPT ![q].step = step, ![q].row = a, ![q].enabled = rows[a].enabled]
    PROVE  ProfileInv'
<1> DEFINE e == [ask[q] EXCEPT !.step = step, !.row = a, !.enabled = rows[a].enabled]
<1>1. ask \in [Lookups -> Inquiry] /\ ask[q] \in Inquiry /\ Sound(ask[q]) /\ now \in Nat
  BY InquiryStands
<1>2. rows[a].enabled \in BOOLEAN /\ changes \in 0 .. Changes
  BY ShownIsRecent DEF ProfileInv, ProfileTypes, AdminRow
<1>3. /\ e \in Inquiry /\ e.step = step /\ e.subject = ask[q].subject /\ e.name = ask[q].name
      /\ e.row = a /\ e.enabled = rows[a].enabled /\ e.from = ask[q].from
  BY <1>1, <1>2 DEF Inquiry
<1>4. rows[a].enabled => EnabledSince(a, ask[q].from - Lag)
  <2>1. rows[a].enabled => EnabledSince(a, now - Lag)
    BY ShownIsRecent
  <2>2. ask[q].from <= now /\ ask[q].from \in Nat
    BY <1>1 DEF Sound, Inquiry
  <2>3. enabledAt[a] \in Nat
    BY DEF ProfileInv, ProfileTypes
  <2> QED BY <1>1, <2>1, <2>2, <2>3 DEF EnabledSince
<1>5. ask' = [ask EXCEPT ![q] = e]
  BY <1>1
<1> HIDE DEF e
<1>6. Sound(e)
  BY <1>1, <1>3, <1>4 DEF Sound, Pending, Asking
<1> QED BY <1>2, <1>3, <1>5, <1>6, RequestKeeps

\* A request that is judged, with a role that its row has, goes to its store or
\* is refused.
LEMMA JudgeSound ==
    ASSUME ProfileTypes, NEW e \in Inquiry, Sound(e), Pending(e), e.row \in Admins,
           BoundTo(e.row, e.subject), e.enabled => EnabledSince(e.row, e.from - Lag),
           e.code # "" => HeldSince(e.row, e.code, e.from - Lag)
    PROVE  Judge(e) \in Inquiry /\ Sound(Judge(e))
<1>1. now \in Nat
  BY DEF ProfileTypes
<1>2. CASE e.enabled /\ e.code # ""
  <2> DEFINE f == [e EXCEPT !.step = "store"]
  <2>1. /\ f \in Inquiry /\ f.step = "store" /\ f.subject = e.subject /\ f.name = e.name
        /\ f.row = e.row /\ f.enabled = e.enabled /\ f.code = e.code /\ f.from = e.from
    BY DEF Inquiry
  <2>2. Judge(e) = f
    BY <1>2 DEF Judge
  <2> HIDE DEF f
  <2>3. Sound(f)
    BY <1>2, <2>1 DEF Sound, Pending
  <2> QED BY <2>1, <2>2, <2>3
<1>3. CASE ~(e.enabled /\ e.code # "")
  BY <1>1, <1>3, RefusedSound DEF Judge
<1> QED BY <1>2, <1>3

LEMMA ArriveKeeps ==
    ASSUME ProfileInv, NEW q \in Lookups, NEW s \in Accounts, NEW name \in Admins,
           Arrive(q, s, name)
    PROVE  ProfileInv'
<1> DEFINE e == [ask[q] EXCEPT !.step = "cache", !.subject = s, !.name = name, !.from = now]
<1>1. ask \in [Lookups -> Inquiry] /\ ask[q] \in Inquiry /\ now \in Nat
  BY InquiryStands
<1>2. changes \in 0 .. Changes
  BY DEF ProfileInv, ProfileTypes
<1>3. e \in Inquiry /\ e.step = "cache" /\ e.subject = s /\ e.name = name /\ e.from = now
  BY <1>1 DEF Inquiry
<1>4. ask' = [ask EXCEPT ![q] = e]
  BY <1>1 DEF Arrive
<1> HIDE DEF e
<1>5. Sound(e)
  BY <1>1, <1>3 DEF Sound, Pending
<1> QED BY <1>2, <1>3, <1>4, <1>5, RequestKeeps DEF Arrive

LEMMA ReadCacheKeeps ==
    ASSUME ProfileInv, NEW q \in Lookups, ReadCache(q)
    PROVE  ProfileInv'
<1> DEFINE s == ask[q].subject
           p == cache[s]
<1>1. /\ Asking(q) /\ UNCHANGED rest /\ changes' \in 0 .. Changes
      /\ ask[q].step = "cache"
  BY DEF ReadCache, Asking, ProfileInv, ProfileTypes
<1>2. Sound(ask[q]) /\ now \in Nat
  BY InquiryStands
<1>3. s \in Accounts
  BY <1>1, <1>2 DEF Sound, Pending
<1>4. Good(p, s) /\ p \in Profile
  BY <1>3 DEF ProfileInv, ProfileTypes
<1>5. CASE p.row # Nobody /\ ServeProfile(q, p.row, p.code)
  <2> DEFINE t == p.until - (TTL + Timeout + Lag)
  <2>1. p.until \in Nat
    BY <1>4 DEF Profile
  <2>2. p.until > now /\ BoundTo(p.row, s) /\ EnabledSince(p.row, t) /\ HeldSince(p.row, p.code, t)
    BY <1>4, <1>5 DEF Good
  <2>3. t \in Int /\ t > now - (TTL + Timeout + Lag)
    BY <1>2, <2>1, <2>2
  <2> HIDE DEF t, p
  <2> QED BY <1>1, <1>5, <2>2, <2>3, ServeKeeps
<1>6. CASE ask' = [ask EXCEPT ![q].step = "subject"]
  BY <1>1, <1>6, GoKeeps
<1>7. CASE ask' = [ask EXCEPT ![q].step = "drop"]
  BY <1>1, <1>7, GoKeeps
<1> QED BY <1>5, <1>6, <1>7 DEF ReadCache

LEMMA FindBySubjectKeeps ==
    ASSUME ProfileInv, NEW q \in Lookups, FindBySubject(q)
    PROVE  ProfileInv'
<1> DEFINE s == ask[q].subject
<1>1. Asking(q) /\ UNCHANGED <<rest, changes>>
  BY DEF FindBySubject, Asking
<1>2. changes' \in 0 .. Changes /\ s \in Accounts
  BY <1>1, InquiryStands DEF ProfileInv, ProfileTypes, Sound, Pending, Asking
<1>3. ASSUME NEW rows \in Shown, NEW a \in Admins, rows[a].subject = s, ~rows[a].deleted,
             ask' = [ask EXCEPT ![q].step = "roles", ![q].row = a, ![q].enabled = rows[a].enabled]
      PROVE  ProfileInv'
  <2>1. BoundTo(a, s)
    BY <1>2, <1>3, ShownIsRecent
  <2> HIDE DEF s
  <2>2. BoundTo(a, ask[q].subject)
    BY <2>1 DEF s
  <2> QED BY <1>1, <1>3, <2>2, RowKeeps
<1>4. CASE ask' = [ask EXCEPT ![q].step = "name"]
  BY <1>1, <1>2, <1>4, GoKeeps
<1>5. CASE Refuse(q)
  BY <1>1, <1>2, <1>5, RefuseKeeps
<1> QED BY <1>3, <1>4, <1>5 DEF FindBySubject

LEMMA FindByNameKeeps ==
    ASSUME ProfileInv, NEW q \in Lookups, FindByName(q)
    PROVE  ProfileInv'
<1> DEFINE a == ask[q].name
<1>1. Asking(q) /\ UNCHANGED <<rest, changes>>
  BY DEF FindByName, Asking
<1>2. changes' \in 0 .. Changes /\ a \in Admins
  BY <1>1, InquiryStands DEF ProfileInv, ProfileTypes, Sound, Pending, Asking
<1>3. CASE Refuse(q)
  BY <1>1, <1>2, <1>3, RefuseKeeps
<1>4. ASSUME NEW rows \in Shown, ~rows[a].deleted,
             ask' = [ask EXCEPT ![q].step = "unbound", ![q].row = a,
                                ![q].enabled = rows[a].enabled]
      PROVE  ProfileInv'
  <2> HIDE DEF a
  <2> QED BY <1>1, <1>2, <1>4, RowKeeps
<1> QED BY <1>3, <1>4 DEF FindByName

LEMMA ReadRolesKeeps ==
    ASSUME ProfileInv, NEW q \in Lookups, ReadRoles(q)
    PROVE  ProfileInv'
<1>0. PICK rows \in Shown :
         LET entry == [ask[q] EXCEPT !.code = Selected(rows[ask[q].row].roles)] IN
         ask' = [ask EXCEPT ![q] = IF ask[q].step = "roles" THEN Judge(entry)
                                   ELSE [entry EXCEPT !.step = "bind"]]
  BY DEF ReadRoles
<1> DEFINE a == ask[q].row
           c == Selected(rows[a].roles)
           e == [ask[q] EXCEPT !.code = c]
<1>1. /\ ask[q].step \in {"roles", "unbound"} /\ UNCHANGED rest /\ changes' \in 0 .. Changes
  BY DEF ReadRoles, ProfileInv, ProfileTypes
<1>2. ask \in [Lookups -> Inquiry] /\ ask[q] \in Inquiry /\ Sound(ask[q]) /\ now \in Nat
  BY InquiryStands
<1>3. a \in Admins /\ c \in Codes \cup {""} /\ (c # "" => c \in rows[a].roles)
  BY <1>1, <1>2 DEF Sound, Selected, Codes
<1>4. c # "" => HeldSince(a, c, ask[q].from - Lag)
  <2>1. ask[q].from <= now /\ ask[q].from \in Nat
    BY <1>2 DEF Sound, Inquiry
  <2>2. c # "" => HeldSince(a, c, now - Lag)
    BY <1>3, ShownIsRecent
  <2>3. ProfileTypes
    BY DEF ProfileInv
  <2> HIDE DEF a, c
  <2> QED BY <1>2, <2>1, <2>2, <2>3, HeldEarlier
<1>5. /\ e \in Inquiry /\ e.step = ask[q].step /\ e.subject = ask[q].subject
      /\ e.name = ask[q].name /\ e.row = a /\ e.enabled = ask[q].enabled /\ e.code = c
      /\ e.from = ask[q].from
  BY <1>2, <1>3 DEF Inquiry
<1>6. ask' = [ask EXCEPT ![q] = IF ask[q].step = "roles" THEN Judge(e)
                                ELSE [e EXCEPT !.step = "bind"]]
  BY <1>0
<1>7. e.enabled => EnabledSince(a, e.from - Lag)
  BY <1>1, <1>2, <1>5 DEF Sound
<1>8. Sound(e) /\ Pending(e)
  BY <1>1, <1>2, <1>5, <1>7 DEF Sound, Pending
<1>9. CASE ask[q].step = "roles"
  <2>1. BoundTo(a, e.subject)
    BY <1>2, <1>5, <1>9 DEF Sound
  <2>2. ProfileTypes
    BY DEF ProfileInv
  <2>3. ask' = [ask EXCEPT ![q] = Judge(e)]
    BY <1>6, <1>9
  <2> HIDE DEF a, c, e
  <2>4. Judge(e) \in Inquiry /\ Sound(Judge(e))
    BY <1>3, <1>4, <1>5, <1>7, <1>8, <2>1, <2>2, JudgeSound
  <2> QED BY <1>1, <2>3, <2>4, RequestKeeps
<1>10. CASE ask[q].step = "unbound"
  <2> DEFINE f == [e EXCEPT !.step = "bind"]
  <2>1. /\ f \in Inquiry /\ f.step = "bind" /\ f.subject = e.subject /\ f.name = e.name
        /\ f.row = a /\ f.enabled = e.enabled /\ f.code = c /\ f.from = e.from
    BY <1>5 DEF Inquiry
  <2>2. ask' = [ask EXCEPT ![q] = f]
    BY <1>6, <1>10
  <2> HIDE DEF a, c, e, f
  <2>3. Sound(f)
    BY <1>3, <1>4, <1>5, <1>7, <1>8, <2>1 DEF Sound, Pending
  <2> QED BY <1>1, <2>1, <2>2, <2>3, RequestKeeps
<1> QED BY <1>1, <1>9, <1>10

----------------------------------------------------------------------------
(* The steps that write *)

\* A profile is dropped, spoilt or stored, and perhaps a request goes to e.
LEMMA CacheKeeps ==
    ASSUME ProfileInv, UNCHANGED <<now, admin, past, enabledAt, heldAt>>, changes' \in 0 .. Changes,
           NEW s \in Accounts, NEW p \in Profile, Good(p, s), cache' = [cache EXCEPT ![s] = p],
           NEW q \in Lookups, NEW e \in Inquiry, Sound(e), ask' = [ask EXCEPT ![q] = e]
    PROVE  ProfileInv'
<1>1. ProfileTypes /\ \A a \in Admins : RowInv(a)
  BY DEF ProfileInv
<1>2. ask' \in [Lookups -> Inquiry] /\ ask'[q] = e /\ \A r \in Lookups \ {q} : ask'[r] = ask[r]
  BY <1>1 DEF ProfileTypes
<1>3. /\ cache' \in [Accounts -> Profile] /\ cache'[s] = p
      /\ \A t \in Accounts \ {s} : cache'[t] = cache[t]
  BY <1>1 DEF ProfileTypes
<1>4. ProfileTypes'
  BY <1>1, <1>2, <1>3 DEF ProfileTypes
<1>5. Grows
  <2>1. \A a \in Admins : enabledAt[a] \in Int /\ \A c \in Codes : heldAt[a][c] \in Int
    BY <1>1 DEF ProfileTypes
  <2> QED BY <2>1 DEF Grows
<1>6. \A a \in Admins : RowInv(a)'
  BY <1>1 DEF RowInv, Enabled
<1>7. Sound(ask[q])'
  BY <1>2 DEF Sound, Pending, EnabledSince, HeldSince, BoundTo
<1>8. Good(cache[s], s)'
  BY <1>3 DEF Good, EnabledSince, HeldSince, BoundTo
<1> QED BY <1>2, <1>3, <1>4, <1>5, <1>6, <1>7, <1>8, StepKeeps

LEMMA NoProfileIsGood ==
    ASSUME NEW p \in {NoProfile, Corrupt}, NEW s
    PROVE  p \in Profile /\ Good(p, s)
<1>1. NoProfile.row = Nobody /\ NoProfile \in Profile
  BY DEF NoProfile, Profile
<1>2. Corrupt.row = Nobody /\ Corrupt \in Profile
  BY DEF NoProfile, Corrupt, Profile
<1> QED BY <1>1, <1>2 DEF Good

LEMMA DropCacheKeeps ==
    ASSUME ProfileInv, NEW q \in Lookups, DropCache(q)
    PROVE  ProfileInv'
<1> DEFINE e == [ask[q] EXCEPT !.step = "subject"]
<1>1. ask \in [Lookups -> Inquiry] /\ ask[q] \in Inquiry /\ Sound(ask[q])
  BY InquiryStands
<1>2. ask[q].step = "drop" /\ changes' \in 0 .. Changes
  BY DEF DropCache, ProfileInv, ProfileTypes
<1>3. ask[q].subject \in Accounts
  BY <1>1, <1>2 DEF Sound, Pending
<1>4. /\ e \in Inquiry /\ e.step = "subject" /\ e.subject = ask[q].subject
      /\ e.name = ask[q].name /\ e.from = ask[q].from
  BY <1>1 DEF Inquiry
<1>5. ask' = [ask EXCEPT ![q] = e] /\ cache' = [cache EXCEPT ![ask[q].subject] = NoProfile]
      /\ UNCHANGED <<now, admin, past, enabledAt, heldAt>>
  BY <1>1 DEF DropCache
<1> HIDE DEF e
<1>6. Sound(e)
  BY <1>1, <1>2, <1>4 DEF Sound, Pending
<1> QED BY <1>2, <1>3, <1>4, <1>5, <1>6, NoProfileIsGood, CacheKeeps

\* What is stored is as old as the request at most.
LEMMA CacheProfileKeeps ==
    ASSUME ProfileInv, NEW q \in Lookups, CacheProfile(q)
    PROVE  ProfileInv'
<1> DEFINE a == ask[q].row
           s == ask[q].subject
           c == ask[q].code
           p == [row |-> a, code |-> c, until |-> now + TTL]
           e == [NoRequest EXCEPT !.step = "served", !.subject = s, !.row = a, !.code = c,
                                  !.from = now]
<1>1. ask[q].step = "store" /\ changes' \in 0 .. Changes /\ ProfileTypes
  BY DEF CacheProfile, ProfileInv, ProfileTypes
<1>2. /\ BoundTo(a, s) /\ now \in Nat /\ now - (Timeout + Lag) \in Int
      /\ now - (Timeout + Lag) > now - (TTL + Timeout + Lag)
      /\ EnabledSince(a, now - (Timeout + Lag)) /\ HeldSince(a, c, now - (Timeout + Lag))
  BY <1>1, StoreIsGood
<1>3. ask' = [ask EXCEPT ![q] = e] /\ cache' = [cache EXCEPT ![s] = p]
      /\ UNCHANGED <<now, admin, past, enabledAt, heldAt>>
  BY DEF CacheProfile, ServeProfile
<1>4. a \in Admins /\ c \in Codes /\ s \in Accounts
  BY <1>2 DEF BoundTo, HeldSince
<1>5. /\ p \in Profile /\ p.row = a /\ p.code = c /\ p.until = now + TTL
  <2>1. now + TTL \in Nat
    BY <1>2
  <2> HIDE DEF a, c
  <2> QED BY <1>4, <2>1 DEF Profile
<1>6. e \in Inquiry /\ Sound(e)
  <2> HIDE DEF a, s, c
  <2> QED BY <1>1, <1>2, ServeSound
<1> HIDE DEF a, s, c, p, e
<1>7. p.until > now /\ p.until - (TTL + Timeout + Lag) = now - (Timeout + Lag)
  BY <1>2, <1>5
<1>8. Good(p, s)
  BY <1>2, <1>5, <1>7 DEF Good
<1> QED BY <1>1, <1>3, <1>4, <1>5, <1>6, <1>8, CacheKeeps

\* The row a is bound to s, or not, and the request goes to e.
LEMMA BindingKeeps ==
    ASSUME ProfileInv, UNCHANGED <<now, cache, enabledAt, heldAt>>, changes' \in 0 .. Changes,
           NEW a \in Admins, NEW s \in Accounts,
           \/ UNCHANGED <<admin, past>>
           \/ admin[a].subject = Nobody /\ Becomes([admin EXCEPT ![a].subject = s]),
           NEW q \in Lookups, NEW e \in Inquiry, Sound(e)', ask' = [ask EXCEPT ![q] = e]
    PROVE  ProfileInv'
<1>1. ProfileTypes /\ \A b \in Admins : RowInv(b)
  BY DEF ProfileInv
<1>2. ask' \in [Lookups -> Inquiry] /\ ask'[q] = e /\ \A r \in Lookups \ {q} : ask'[r] = ask[r]
  BY <1>1 DEF ProfileTypes
<1>3. admin \in [Admins -> AdminRow]
  BY <1>1 DEF ProfileTypes
<1>4. /\ admin' \in [Admins -> AdminRow]
      /\ \A b \in Admins :
           /\ admin'[b].enabled = admin[b].enabled /\ admin'[b].deleted = admin[b].deleted
           /\ admin'[b].roles = admin[b].roles
           /\ admin[b].subject # Nobody => admin'[b].subject = admin[b].subject
  <2>1. CASE admin' = admin
    BY <1>3, <2>1
  <2>2. CASE admin[a].subject = Nobody /\ admin' = [admin EXCEPT ![a].subject = s]
    BY <1>3, <2>2 DEF AdminRow
  <2> QED BY <2>1, <2>2 DEF Becomes
<1>5. ProfileTypes'
  <2>1. past' \subseteq Past
    BY <1>1, BecomesTypes
  <2> QED BY <1>1, <1>2, <1>4, <2>1 DEF ProfileTypes, Past
<1>6. Grows
  <2>1. \A b \in Admins : enabledAt[b] \in Int /\ \A c \in Codes : heldAt[b][c] \in Int
    BY <1>1 DEF ProfileTypes
  <2> QED BY <1>4, <2>1 DEF Grows
<1>7. \A b \in Admins : RowInv(b)'
  BY <1>1, <1>4 DEF RowInv, Enabled
<1>8. Sound(ask[q])'
  BY <1>2 DEF Sound, Pending
<1>9. \A p \in past' : p \in past \/ PastInv(p)'
  BY <1>5, <1>6, BecomesKeeps
<1> QED BY <1>2, <1>5, <1>6, <1>7, <1>8, <1>9, StepKeeps

LEMMA BindSubjectKeeps ==
    ASSUME ProfileInv, NEW q \in Lookups, BindSubject(q)
    PROVE  ProfileInv'
<1>1. ask \in [Lookups -> Inquiry] /\ ask[q] \in Inquiry /\ Sound(ask[q]) /\ now \in Nat
  BY InquiryStands
<1>2. /\ ask[q].step = "bind" /\ changes' \in 0 .. Changes
      /\ UNCHANGED <<now, cache, enabledAt, heldAt>>
  BY DEF BindSubject, ProfileInv, ProfileTypes
<1>3. ask[q].row \in Admins /\ ask[q].subject \in Accounts
  BY <1>1, <1>2 DEF Sound, Pending
<1>4. PICK a \in Admins, s \in Accounts, old \in Inquiry :
         a = ask[q].row /\ s = ask[q].subject /\ old = ask[q]
  BY <1>1, <1>3
<1>5. CASE Free(a, s)
  <2>1. /\ admin[a].subject = Nobody /\ Becomes([admin EXCEPT ![a].subject = s])
        /\ admin' = [admin EXCEPT ![a].subject = s]
        /\ ask' = [ask EXCEPT ![q] = Judge(old)]
    BY <1>1, <1>4, <1>5 DEF BindSubject, Free, Becomes
  <2>2. admin \in [Admins -> AdminRow]
    BY DEF ProfileInv, ProfileTypes
  <2>3. admin' \in [Admins -> AdminRow] /\ admin'[a].subject = s
    BY <2>1, <2>2 DEF AdminRow
  <2>4. /\ Sound(old) /\ Pending(old) /\ old.row = a /\ old.subject = s
        /\ old.enabled => EnabledSince(a, old.from - Lag)
        /\ old.code # "" => HeldSince(a, old.code, old.from - Lag)
    BY <1>1, <1>2, <1>4 DEF Sound, Pending
  <2>5. Judge(old) \in Inquiry /\ Sound(Judge(old))'
    <3>1. CASE old.enabled /\ old.code # ""
      <4>1. PICK f \in Inquiry :
              /\ f = Judge(old) /\ f.step = "store" /\ f.subject = s /\ f.name = old.name
              /\ f.row = a /\ f.enabled = old.enabled /\ f.code = old.code /\ f.from = old.from
        <5> DEFINE g == [old EXCEPT !.step = "store"]
        <5>1. /\ g \in Inquiry /\ g.step = "store" /\ g.subject = old.subject /\ g.name = old.name
              /\ g.row = old.row /\ g.enabled = old.enabled /\ g.code = old.code
              /\ g.from = old.from
          BY DEF Inquiry
        <5>2. Judge(old) = g
          BY <3>1 DEF Judge
        <5> HIDE DEF g
        <5> QED BY <2>4, <5>1, <5>2
      <4>2. BoundTo(a, s)'
        BY <2>3 DEF BoundTo
      <4>3. EnabledSince(a, old.from - Lag)' /\ HeldSince(a, old.code, old.from - Lag)'
        BY <1>2, <2>4, <3>1 DEF EnabledSince, HeldSince
      <4>4. old.from <= now /\ s \in Accounts /\ old.name \in Admins /\ now <= old.from + Timeout
        BY <2>4 DEF Sound, Pending
      <4>5. Sound(f)'
        BY <1>2, <3>1, <4>1, <4>2, <4>3, <4>4 DEF Sound, Pending
      <4> QED BY <4>1, <4>5
    <3>2. CASE ~(old.enabled /\ old.code # "")
      <4>1. PICK f \in Inquiry : f = Judge(old) /\ f.step = "refused" /\ f.from = 0
        <5> DEFINE g == [NoRequest EXCEPT !.step = "refused"]
        <5>1. g \in Inquiry /\ g.step = "refused" /\ g.from = 0
          BY DEF Inquiry, NoRequest
        <5>2. Judge(old) = g
          BY <3>2 DEF Judge
        <5> HIDE DEF g
        <5> QED BY <5>1, <5>2
      <4>2. now' \in Nat
        BY <1>1, <1>2
      <4>3. f.from <= now' /\ f.step = "refused"
        BY <4>1, <4>2
      <4>4. Sound(f)'
        BY <4>3 DEF Sound, Pending
      <4> QED BY <4>1, <4>4
    <3> QED BY <3>1, <3>2
  <2>6. PICK e \in Inquiry : e = Judge(old)
    BY <2>5
  <2>7. Sound(e)' /\ ask' = [ask EXCEPT ![q] = e]
    BY <2>1, <2>5, <2>6
  <2> QED BY <1>2, <2>1, <2>7, BindingKeeps
<1>6. CASE ask' = [ask EXCEPT ![q].step = "again"] /\ UNCHANGED <<admin, past>>
  BY <1>2, <1>6, GoKeeps DEF Asking, rest
<1> QED BY <1>4, <1>5, <1>6 DEF BindSubject

LEMMA CallFailsKeeps ==
    ASSUME ProfileInv, NEW q \in Lookups, CallFails(q)
    PROVE  ProfileInv'
<1>1. /\ changes' \in 0 .. Changes /\ UNCHANGED <<now, cache, enabledAt, heldAt>>
  BY DEF CallFails, Change, ProfileInv, ProfileTypes
<1>2. CASE ask[q].step \in {"cache", "drop"} /\ ask' = [ask EXCEPT ![q].step = "subject"]
           /\ UNCHANGED <<admin, past>>
  BY <1>1, <1>2, GoKeeps DEF Asking, rest
<1>3. CASE Refuse(q) /\ UNCHANGED <<admin, past>>
  BY <1>1, <1>3, RefuseKeeps DEF rest
<1>4. CASE /\ ask[q].step = "store" /\ ServeProfile(q, ask[q].row, ask[q].code)
           /\ UNCHANGED <<admin, past>>
  <2> DEFINE a == ask[q].row
             c == ask[q].code
             t == now - (Timeout + Lag)
  <2>1. /\ BoundTo(a, ask[q].subject) /\ t \in Int /\ t > now - (TTL + Timeout + Lag)
        /\ EnabledSince(a, t) /\ HeldSince(a, c, t)
    BY <1>4, StoreIsGood
  <2>2. UNCHANGED rest /\ ServeProfile(q, a, c)
    BY <1>1, <1>4 DEF rest
  <2> HIDE DEF a, c, t
  <2> QED BY <1>1, <2>1, <2>2, ServeKeeps
<1>5. CASE /\ ask[q].step = "bind" /\ ask' = [ask EXCEPT ![q].step = "again"]
           /\ \/ UNCHANGED <<admin, past>>
              \/ Free(ask[q].row, ask[q].subject)
                 /\ Becomes([admin EXCEPT ![ask[q].row].subject = ask[q].subject])
  <2>1. ask \in [Lookups -> Inquiry] /\ ask[q] \in Inquiry /\ Sound(ask[q]) /\ now \in Nat
    BY InquiryStands
  <2>2. PICK a \in Admins, s \in Accounts : a = ask[q].row /\ s = ask[q].subject
    BY <1>5, <2>1 DEF Sound, Pending
  <2>3. \/ UNCHANGED <<admin, past>>
        \/ admin[a].subject = Nobody /\ Becomes([admin EXCEPT ![a].subject = s])
    BY <1>5, <2>2 DEF Free
  <2>4. PICK e \in Inquiry : e = [ask[q] EXCEPT !.step = "again"]
    BY <2>1 DEF Inquiry
  <2>5. /\ e.step = "again" /\ e.subject = ask[q].subject /\ e.name = ask[q].name
        /\ e.from = ask[q].from
    BY <2>1, <2>4 DEF Inquiry
  <2>6. Sound(e)'
    BY <1>1, <1>5, <2>1, <2>5 DEF Sound, Pending
  <2>7. ask' = [ask EXCEPT ![q] = e]
    BY <1>5, <2>1, <2>4
  <2> QED BY <1>1, <2>3, <2>6, <2>7, BindingKeeps
<1> QED BY <1>2, <1>3, <1>4, <1>5 DEF CallFails

----------------------------------------------------------------------------
(* The world outside *)

\* Time passes: requests in progress have time left, served ones are of the past,
\* and a profile whose time is over is gone.
LEMMA WaitKeeps ==
    ASSUME ProfileInv, Wait
    PROVE  ProfileInv'
<1>1. ProfileTypes /\ now \in Nat /\ now' = now + 1
  BY DEF ProfileInv, ProfileTypes, Wait
<1>2. UNCHANGED <<admin, ask, changes>>
  BY DEF Wait
<1>3. \A a \in Admins :
         /\ enabledAt'[a] = IF Enabled(a) THEN now' ELSE enabledAt[a]
         /\ \A c \in Codes : heldAt'[a][c] = IF c \in admin[a].roles THEN now' ELSE heldAt[a][c]
  BY <1>1 DEF Wait
<1>4. enabledAt' \in [Admins -> Nat] /\ heldAt' \in [Admins -> [Codes -> Nat]]
  BY <1>1 DEF Wait, ProfileTypes
<1>5. ASSUME NEW s \in Accounts
      PROVE  /\ cache'[s] = NoProfile \/ (cache'[s] = cache[s] /\ ~Expired(cache[s], now'))
             /\ cache'[s] \in Profile
  <2>1. cache[s] \in Profile /\ NoProfile \in Profile
    BY <1>1, NoProfileIsGood DEF ProfileTypes
  <2> QED BY <1>1, <2>1 DEF Wait
<1>6. cache' \in [Accounts -> Profile]
  BY <1>5 DEF Wait
<1>7. ProfileTypes'
  <2>1. past' \subseteq past
    BY DEF Wait
  <2> QED BY <1>1, <1>2, <1>4, <1>6, <2>1 DEF ProfileTypes
<1>8. Grows
  <2> SUFFICES ASSUME NEW a \in Admins
               PROVE  /\ enabledAt'[a] >= enabledAt[a]
                      /\ \A c \in Codes : heldAt'[a][c] >= heldAt[a][c]
    BY <1>2 DEF Grows
  <2>1. enabledAt[a] \in Nat /\ \A c \in Codes : heldAt[a][c] \in Nat
    BY <1>1 DEF ProfileTypes
  <2>2. enabledAt[a] <= now /\ \A c \in Codes : heldAt[a][c] <= now
    BY DEF ProfileInv, RowInv
  <2> QED BY <1>1, <1>3, <2>1, <2>2
<1>9. ASSUME NEW a \in Admins PROVE RowInv(a)'
  <2>1. enabledAt[a] \in Nat /\ \A c \in Codes : heldAt[a][c] \in Nat
    BY <1>1 DEF ProfileTypes
  <2>2. enabledAt[a] <= now /\ \A c \in Codes : heldAt[a][c] <= now
    BY DEF ProfileInv, RowInv
  <2> QED BY <1>1, <1>2, <1>3, <2>1, <2>2 DEF RowInv, Enabled
<1>10. ASSUME NEW q \in Lookups PROVE Sound(ask[q])'
  <2>1. PICK e \in Inquiry : e = ask[q] /\ e = ask'[q]
    BY <1>1, <1>2 DEF ProfileTypes
  <2>2. Sound(e) /\ e.from \in Nat
    BY <2>1 DEF ProfileInv, Inquiry
  <2>3. Pending(e) => now' <= e.from + Timeout
    BY <1>1, <2>1, <2>2 DEF Wait, Asking, Pending
  <2>4. e.from <= now' /\ e.from # now'
    <3>1. e.from <= now
      BY <2>2 DEF Sound
    <3> QED BY <1>1, <2>2, <3>1
  <2>5. /\ EnabledSince(e.row, e.from - Lag) => EnabledSince(e.row, e.from - Lag)'
        /\ HeldSince(e.row, e.code, e.from - Lag) => HeldSince(e.row, e.code, e.from - Lag)'
        /\ BoundTo(e.row, e.subject) => BoundTo(e.row, e.subject)'
    <3>1. PICK u \in Int : u = e.from - Lag
      BY <2>2
    <3>2. /\ EnabledSince(e.row, u) => EnabledSince(e.row, u)'
          /\ HeldSince(e.row, e.code, u) => HeldSince(e.row, e.code, u)'
          /\ BoundTo(e.row, e.subject) => BoundTo(e.row, e.subject)'
      BY <1>1, <1>7, <1>8, SinceStays
    <3> QED BY <3>1, <3>2 DEF EnabledSince, HeldSince
  <2>6. Sound(e)'
    BY <2>2, <2>3, <2>4, <2>5 DEF Sound, Pending
  <2> QED BY <2>1, <2>6 DEF Sound, Pending
<1>11. ASSUME NEW s \in Accounts PROVE Good(cache[s], s)'
  <2>1. PICK p \in Profile : p = cache'[s]
    BY <1>5
  <2>2. Good(p, s)'
    <3>1. CASE p = NoProfile
      BY <3>1 DEF NoProfile, Good
    <3>2. CASE p = cache[s] /\ ~Expired(cache[s], now')
      <4>1. Good(p, s)
        BY <3>2 DEF ProfileInv
      <4>2. p.row # Nobody => p.until > now'
        <5>1. p.until \in Nat
          BY DEF Profile
        <5>2. now' \in Nat
          BY <1>1
        <5> QED BY <3>2, <5>1, <5>2 DEF Expired
      <4> QED BY <1>1, <1>7, <1>8, <4>1, <4>2, GoodStays
    <3> QED BY <1>5, <2>1, <3>1, <3>2
  <2> QED BY <2>1, <2>2 DEF Good
<1>12. ASSUME NEW p \in past' PROVE PastInv(p)'
  <2>1. p \in past /\ p.until >= now' - Lag
    BY <1>1 DEF Wait
  <2>2. p \in Past /\ PastInv(p) /\ now <= now'
    BY <1>1, <2>1 DEF ProfileInv, ProfileTypes, Past
  <2> QED BY <1>1, <1>7, <1>8, <2>1, <2>2, PastStays
<1> QED BY <1>7, <1>9, <1>10, <1>11, <1>12 DEF ProfileInv

LEMMA AlterKeeps ==
    ASSUME ProfileInv, NEW a \in Admins, Alter(a)
    PROVE  ProfileInv'
<1>1. ProfileTypes /\ now \in Nat /\ changes' \in 0 .. Changes
  BY DEF ProfileInv, ProfileTypes, Alter, Change
<1>2. UNCHANGED <<now, cache, ask>>
  BY DEF Alter
<1>3. admin \in [Admins -> AdminRow]
  BY <1>1 DEF ProfileTypes
<1>4. /\ \E rows : Becomes(rows)
      /\ admin' \in [Admins -> AdminRow] /\ \A b \in Admins \ {a} : admin'[b] = admin[b]
      /\ admin'[a].subject = admin[a].subject
  <2>1. CASE Becomes([admin EXCEPT ![a].enabled = ~@])
    BY <1>3, <2>1 DEF AdminRow, Becomes
  <2>2. CASE Becomes([admin EXCEPT ![a].deleted = TRUE])
    BY <1>3, <2>2 DEF AdminRow, Becomes
  <2>3. ASSUME NEW roles \in SUBSET Codes, Becomes([admin EXCEPT ![a].roles = roles])
        PROVE  /\ \E rows : Becomes(rows)
               /\ admin' \in [Admins -> AdminRow]
               /\ \A b \in Admins \ {a} : admin'[b] = admin[b]
               /\ admin'[a].subject = admin[a].subject
    BY <1>3, <2>3 DEF AdminRow, Becomes
  <2> QED BY <2>1, <2>2, <2>3 DEF Alter
<1>5. /\ enabledAt' = [enabledAt EXCEPT ![a] = IF Enabled(a)' THEN now ELSE @]
      /\ heldAt' = [heldAt EXCEPT ![a] =
                      [c \in Codes |-> IF c \in admin'[a].roles THEN now ELSE @[c]]]
  BY DEF Alter
<1>6. enabledAt \in [Admins -> Nat] /\ heldAt \in [Admins -> [Codes -> Nat]]
  BY <1>1 DEF ProfileTypes
<1>7. /\ enabledAt' \in [Admins -> Nat]
      /\ enabledAt'[a] = IF Enabled(a)' THEN now ELSE enabledAt[a]
      /\ \A b \in Admins \ {a} : enabledAt'[b] = enabledAt[b]
  BY <1>1, <1>5, <1>6
<1>8. /\ heldAt' \in [Admins -> [Codes -> Nat]]
      /\ \A c \in Codes : heldAt'[a][c] = IF c \in admin'[a].roles THEN now ELSE heldAt[a][c]
      /\ \A b \in Admins \ {a} : heldAt'[b] = heldAt[b]
  <2> DEFINE f == [c \in Codes |-> IF c \in admin'[a].roles THEN now ELSE heldAt[a][c]]
  <2>1. f \in [Codes -> Nat]
    BY <1>1, <1>6
  <2>2. heldAt' = [heldAt EXCEPT ![a] = f]
    BY <1>5, <1>6
  <2>3. \A c \in Codes : f[c] = IF c \in admin'[a].roles THEN now ELSE heldAt[a][c]
    OBVIOUS
  <2> HIDE DEF f
  <2> QED BY <1>6, <2>1, <2>2, <2>3
<1>9. ProfileTypes'
  <2>1. past' \subseteq Past
    BY <1>1, <1>4, BecomesTypes
  <2> QED BY <1>1, <1>2, <1>4, <1>7, <1>8, <2>1 DEF ProfileTypes, Past
<1>10. \A b \in Admins : /\ enabledAt[b] \in Nat /\ enabledAt[b] <= now
                         /\ \A c \in Codes : heldAt[b][c] \in Nat /\ heldAt[b][c] <= now
  BY <1>6 DEF ProfileInv, RowInv
<1>11. Grows
  <2> SUFFICES ASSUME NEW b \in Admins
               PROVE  /\ admin'[b].subject = admin[b].subject
                      /\ enabledAt'[b] >= enabledAt[b]
                      /\ \A c \in Codes : heldAt'[b][c] >= heldAt[b][c]
    BY DEF Grows
  <2>1. CASE b = a
    BY <1>1, <1>4, <1>7, <1>8, <1>10, <2>1
  <2>2. CASE b # a
    BY <1>4, <1>7, <1>8, <1>10, <2>2
  <2> QED BY <2>1, <2>2
<1>12. ASSUME NEW b \in Admins PROVE RowInv(b)'
  <2>1. CASE b = a
    BY <1>1, <1>2, <1>7, <1>8, <1>10, <2>1 DEF RowInv
  <2>2. CASE b # a
    <3>1. RowInv(b)
      BY DEF ProfileInv
    <3> QED BY <1>2, <1>4, <1>7, <1>8, <2>2, <3>1 DEF RowInv, Enabled
  <2> QED BY <2>1, <2>2
<1>13. \A p \in past' : p \in past \/ PastInv(p)'
  BY <1>2, <1>4, <1>9, <1>11, BecomesKeeps
<1> QED BY <1>2, <1>9, <1>11, <1>12, <1>13, StepKeeps

LEMMA SpoilKeeps ==
    ASSUME ProfileInv, NEW s \in Accounts, Spoil(s)
    PROVE  ProfileInv'
<1>1. ProfileTypes /\ changes' \in 0 .. Changes /\ \A a \in Admins : RowInv(a)
  BY DEF ProfileInv, ProfileTypes, Spoil, Change
<1>2. cache' = [cache EXCEPT ![s] = Corrupt] /\ UNCHANGED <<now, admin, past, ask, enabledAt, heldAt>>
  BY DEF Spoil
<1>3. Corrupt \in Profile /\ Corrupt.row = Nobody
  BY NoProfileIsGood DEF NoProfile, Corrupt
<1>4. /\ cache' \in [Accounts -> Profile] /\ cache'[s].row = Nobody
      /\ \A t \in Accounts \ {s} : cache'[t] = cache[t]
  BY <1>1, <1>2, <1>3 DEF ProfileTypes
<1>5. ProfileTypes'
  BY <1>1, <1>2, <1>4 DEF ProfileTypes
<1>6. Grows
  <2>1. \A a \in Admins : enabledAt[a] \in Int /\ \A c \in Codes : heldAt[a][c] \in Int
    BY <1>1 DEF ProfileTypes
  <2> QED BY <1>2, <2>1 DEF Grows
<1>7. \A a \in Admins : RowInv(a)'
  BY <1>1, <1>2 DEF RowInv, Enabled
<1>8. Good(cache[s], s)'
  BY <1>4 DEF Good
<1> QED BY <1>2, <1>4, <1>5, <1>6, <1>7, <1>8, StepKeeps

----------------------------------------------------------------------------
(* The theorems *)

LEMMA ProfilesStart == ProfilesInit => ProfileInv
<1> SUFFICES ASSUME ProfilesInit PROVE ProfileInv
  OBVIOUS
<1>1. now = 0 /\ changes \in 0 .. Changes
  BY DEF ProfilesInit
<1>2. admin \in [Admins -> AdminRow]
  BY DEF ProfilesInit, AdminRow
<1>3. NoRequest \in Inquiry /\ NoRequest.step = "idle" /\ NoRequest.from = 0
  BY DEF NoRequest, Inquiry
<1>4. /\ ask \in [Lookups -> Inquiry]
      /\ \A q \in Lookups : ask[q].step = "idle" /\ ask[q].from = 0
  BY <1>3 DEF ProfilesInit
<1>5. /\ cache \in [Accounts -> Profile] /\ \A s \in Accounts : cache[s].row = Nobody
  BY NoProfileIsGood DEF ProfilesInit, NoProfile
<1>6. /\ enabledAt \in [Admins -> Nat] /\ heldAt \in [Admins -> [Codes -> Nat]]
      /\ \A a \in Admins : enabledAt[a] = 0 /\ \A c \in Codes : heldAt[a][c] = 0
  BY DEF ProfilesInit
<1>7. ProfileTypes /\ past = {}
  BY <1>1, <1>2, <1>4, <1>5, <1>6 DEF ProfileTypes, ProfilesInit
<1>8. ASSUME NEW a \in Admins PROVE RowInv(a)
  <2>1. enabledAt[a] = now /\ \A c \in Codes : heldAt[a][c] = now
    BY <1>1, <1>6
  <2>2. now <= now
    BY <1>1
  <2> QED BY <2>1, <2>2 DEF RowInv
<1>9. ASSUME NEW q \in Lookups PROVE Sound(ask[q])
  <2>1. ask[q].step = "idle" /\ ask[q].from <= now
    BY <1>1, <1>4
  <2> QED BY <2>1 DEF Sound, Pending
<1>10. \A s \in Accounts : Good(cache[s], s)
  BY <1>5 DEF Good
<1> QED BY <1>7, <1>8, <1>9, <1>10 DEF ProfileInv

LEMMA ProfilesKeep == ProfileInv /\ [ProfilesNext]_profileVars => ProfileInv'
<1> SUFFICES ASSUME ProfileInv, [ProfilesNext]_profileVars PROVE ProfileInv'
  OBVIOUS
<1>1. CASE UNCHANGED profileVars
  <2>1. UNCHANGED <<now, admin, past, cache, ask, enabledAt, heldAt, changes>>
    BY <1>1 DEF profileVars
  <2>2. ProfileTypes /\ ProfileTypes'
    BY <2>1 DEF ProfileInv, ProfileTypes
  <2>3. Grows
    <3>1. \A a \in Admins : enabledAt[a] \in Int /\ \A c \in Codes : heldAt[a][c] \in Int
      BY <2>2 DEF ProfileTypes
    <3> QED BY <2>1, <3>1 DEF Grows
  <2>4. \A a \in Admins : RowInv(a)'
    BY <2>1 DEF ProfileInv, RowInv, Enabled
  <2> QED BY <2>1, <2>2, <2>3, <2>4, StepKeeps
<1>2. CASE Wait \/ (\E a \in Admins : Alter(a)) \/ (\E s \in Accounts : Spoil(s))
  BY <1>2, WaitKeeps, AlterKeeps, SpoilKeeps
<1>3. ASSUME NEW q \in Lookups,
             \/ \E s \in Accounts, name \in Admins : Arrive(q, s, name)
             \/ ReadCache(q) \/ DropCache(q) \/ FindBySubject(q) \/ FindByName(q)
             \/ ReadRoles(q) \/ BindSubject(q) \/ CacheProfile(q) \/ CallFails(q)
      PROVE  ProfileInv'
  BY <1>3, ArriveKeeps, ReadCacheKeeps, DropCacheKeeps, FindBySubjectKeeps, FindByNameKeeps,
     ReadRolesKeeps, BindSubjectKeeps, CacheProfileKeeps, CallFailsKeeps
<1> QED BY <1>1, <1>2, <1>3 DEF ProfilesNext

LEMMA ProfilesInvariant == ProfilesSpec => []ProfileInv
BY ProfilesStart, ProfilesKeep, PTL DEF ProfilesSpec

\* Rows, profiles and requests always have the fields of their types.
THEOREM ProfilesTypeCorrect == ProfilesSpec => []ProfileTypes
<1>1. ProfileInv => ProfileTypes
  BY DEF ProfileInv
<1> QED BY <1>1, ProfilesInvariant, PTL

\* Whoever is served a profile is bound to its row and stays so, for any number
\* of rows, subjects that claim a name, and requests of theirs.
THEOREM ServedRowIsMine == ProfilesSpec => []ServedIsMine
BY InvServes, ProfilesInvariant, PTL

\* A served profile was true less than the life of a cached profile, the life of a
\* request and the delay of a replica ago, whatever those are: a bound on the delay
\* is all that is asked of the database.
THEOREM StaleNoLonger == ProfilesSpec => []StaleForAtMost
BY InvServes, ProfilesInvariant, PTL
=============================================================================
