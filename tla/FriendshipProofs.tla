--------------------------- MODULE FriendshipProofs ---------------------------
(***************************************************************************)
(* Friendship implements Relations for any users and any number of         *)
(* requests in progress; and a pending request can be answered if each     *)
(* user has one request in progress at a time.                             *)
(***************************************************************************)
EXTENDS Friendship, FiniteSetTheorems, TLAPS

-----------------------------------------------------------------------------
(* The inductive invariant of the refinement *)

PairOf(row) == {row.sender, row.receiver}
PairOfRequest(t) == {t[1], req[t].other}

\* The statement about to be made writes the row that was read.
HoldsRow(t) == req[t] # Idle /\ req[t].at = "write" /\ req[t].op # "delete"

\* Ids are given in order.
IdsOK == \A i \in Ids : i > created => friends[i] = NoRow

\* A row that was read is between the two users the request is about, if it is still there,
\* and requests that read the same row are about the same two.
RowsHeldOK ==
    /\ \A t \in Threads :
           HoldsRow(t) =>
               /\ req[t].id \in 1..created
               /\ friends[req[t].id] = NoRow \/ PairOf(friends[req[t].id]) = PairOfRequest(t)
    /\ \A s, t \in Threads :
           HoldsRow(s) /\ HoldsRow(t) /\ req[s].id = req[t].id
               => PairOfRequest(s) = PairOfRequest(t)

\* What a request of u about v knows while it is the only one about the two.
KnowsOf(r, u, v) ==
    /\ r.at = "is_already_sent" => Friends(u, v) = {}
    /\ r.at = "is_already_received" => Friends(u, v) = {} /\ Filter(u, v, {"pending"}) = {}
    /\ r.at \in {"duplicate_sent", "duplicate_received", "insert"} => Between({u, v}) = {}
    /\ r.at = "write" /\ r.op # "delete" => r.id \in Asked(r.op, u, v)
    /\ r.at = "write" /\ r.op = "delete" => Friends(u, v) # {}

Knows(t) == KnowsOf(req[t], t[1], req[t].other)

\* Two users about whom no requests overlapped have one row at most, and one request at most
\* is about them, which is right in what it knows.
PairsOK ==
    /\ \A s, t \in Threads :
           (/\ req[s] # Idle /\ req[t] # Idle
            /\ PairOfRequest(s) = PairOfRequest(t) /\ PairOfRequest(s) \notin raced) => s = t
    /\ \A u, v \in Users : {u, v} \notin raced => \A i, j \in Between({u, v}) : i = j
    /\ \A t \in Threads : req[t] # Idle /\ PairOfRequest(t) \notin raced => Knows(t)

PairsInv == TypeOK /\ IdsOK /\ RowsHeldOK /\ PairsOK

-----------------------------------------------------------------------------
(* Rows, pairs and steps *)

LEMMA PairEquality ==
    \A a, b, c, d : {a, b} = {c, d} <=> (a = c /\ b = d) \/ (a = d /\ b = c)
OBVIOUS

LEMMA RowFacts == \A row \in Row : row # NoRow
<1> SUFFICES ASSUME NEW row \in Row, row = NoRow
             PROVE  FALSE
  OBVIOUS
<1>1. DOMAIN row = {"sender", "receiver", "status"}
  BY DEF Row
<1>2. DOMAIN NoRow = {"sender"}
  BY DEF NoRow
<1> QED
  BY <1>1, <1>2

LEMMA StepNames ==
    /\ Steps = {"idle", "get", "write", "insert", "is_friend", "is_already_sent",
                "is_already_received", "duplicate_sent", "duplicate_received"}
    /\ DOMAIN Checks = 1..5 /\ Len(Checks) = 5
    /\ Checks[1] = "is_friend" /\ Checks[2] = "is_already_sent"
    /\ Checks[3] = "is_already_received" /\ Checks[4] = "duplicate_sent"
    /\ Checks[5] = "duplicate_received"
<1>1. /\ DOMAIN Checks = 1..5 /\ Len(Checks) = 5
      /\ Checks[1] = "is_friend" /\ Checks[2] = "is_already_sent"
      /\ Checks[3] = "is_already_received" /\ Checks[4] = "duplicate_sent"
      /\ Checks[5] = "duplicate_received"
  BY DEF Checks
<1>2. 1..5 = {1, 2, 3, 4, 5}
  OBVIOUS
<1> QED
  BY <1>1, <1>2 DEF Steps

\* A check that finds nothing leads to the next.
NextCheck(step) ==
    CASE step = "is_friend" -> "is_already_sent"
      [] step = "is_already_sent" -> "is_already_received"
      [] step = "is_already_received" -> "duplicate_sent"
      [] step = "duplicate_sent" -> "duplicate_received"
      [] OTHER -> "insert"

CheckNames == {"is_friend", "is_already_sent", "is_already_received",
               "duplicate_sent", "duplicate_received"}

LEMMA CheckStep ==
    ASSUME NEW u, NEW q, Check(u, q)
    PROVE  LET t == <<u, q>>
           IN  /\ req[t].at \in CheckNames
               /\ UNCHANGED <<friends, created>>
               /\ \/ Found(req[t].at, u, req[t].other) # {} /\ Answer(u, q)
                  \/ Found(req[t].at, u, req[t].other) = {} /\ Proceed(u, q, NextCheck(req[t].at))
<1> DEFINE t == <<u, q>>
<1>1. PICK k \in 1..5 :
         /\ req[t].at = Checks[k]
         /\ IF Found(Checks[k], u, req[t].other) # {} THEN Answer(u, q)
            ELSE Proceed(u, q, IF k = 5 THEN "insert" ELSE Checks[k + 1])
         /\ UNCHANGED <<friends, created>>
  BY StepNames DEF Check
<1>2. k = 1 \/ k = 2 \/ k = 3 \/ k = 4 \/ k = 5
  OBVIOUS
<1>3. /\ req[t].at \in CheckNames
      /\ (IF k = 5 THEN "insert" ELSE Checks[k + 1]) = NextCheck(req[t].at)
  BY <1>1, <1>2, StepNames DEF NextCheck, CheckNames
<1> QED
  BY <1>1, <1>3

-----------------------------------------------------------------------------
(* Requests and rows of one pair *)

LEMMA ReqFacts ==
    /\ Idle.at = "idle"
    /\ \A r \in Request : /\ r # Idle /\ r.at # "idle" /\ r.at \in Steps /\ r.op \in Operations
                          /\ r.other \in Users /\ r.id \in 0..MaxRows
    /\ \A r, at : r \in Request /\ at \in Steps \ {"idle"} =>
                      [r EXCEPT !.at = at] \in Request
<1>1. \A r \in Request : /\ r.at # "idle" /\ r.at \in Steps /\ r.op \in Operations
                         /\ r.other \in Users /\ r.id \in 0..MaxRows
  BY DEF Request
<1>2. Idle.at = "idle"
  BY DEF Idle
<1>3. \A r, at : r \in Request /\ at \in Steps \ {"idle"} => [r EXCEPT !.at = at] \in Request
  BY DEF Request
<1> QED
  BY <1>1, <1>2, <1>3

LEMMA ThreadFacts ==
    ASSUME NEW t \in Threads
    PROVE  t[1] \in Users /\ t = <<t[1], t[2]>>
BY DEF Threads

\* The rows with these users and status.
LEMMA InFilter ==
    ASSUME NEW u, NEW v, NEW statuses, NEW i
    PROVE  i \in Filter(u, v, statuses) <=>
             /\ i \in Ids /\ friends[i] # NoRow
             /\ friends[i].sender = u /\ friends[i].receiver = v
             /\ friends[i].status \in statuses
BY DEF Filter, Stored

LEMMA InBetween ==
    ASSUME NEW u, NEW v, NEW i
    PROVE  i \in Between({u, v}) <=>
             /\ i \in Ids /\ friends[i] # NoRow
             /\ \/ friends[i].sender = u /\ friends[i].receiver = v
                \/ friends[i].sender = v /\ friends[i].receiver = u
BY PairEquality DEF Between, Stored

LEMMA BetweenFacts ==
    ASSUME TypeOK, NEW u, NEW v, NEW i
    PROVE  i \in Between({u, v}) <=>
             \/ i \in Filter(u, v, {"pending"}) \/ i \in Filter(v, u, {"pending"})
             \/ i \in Friends(u, v)
<1>1. i \in Ids /\ friends[i] # NoRow =>
          friends[i].status = "pending" \/ friends[i].status = "accepted"
  BY DEF TypeOK, Row, Status
<1>2. i \in Friends(u, v) <=> i \in Filter(u, v, {"accepted"}) \/ i \in Filter(v, u, {"accepted"})
  BY DEF Friends
<1>3. /\ i \in Filter(u, v, {"pending"}) <=>
             i \in Ids /\ friends[i] # NoRow /\ friends[i].sender = u /\ friends[i].receiver = v
                       /\ friends[i].status = "pending"
      /\ i \in Filter(v, u, {"pending"}) <=>
             i \in Ids /\ friends[i] # NoRow /\ friends[i].sender = v /\ friends[i].receiver = u
                       /\ friends[i].status = "pending"
      /\ i \in Filter(u, v, {"accepted"}) <=>
             i \in Ids /\ friends[i] # NoRow /\ friends[i].sender = u /\ friends[i].receiver = v
                       /\ friends[i].status = "accepted"
      /\ i \in Filter(v, u, {"accepted"}) <=>
             i \in Ids /\ friends[i] # NoRow /\ friends[i].sender = v /\ friends[i].receiver = u
                       /\ friends[i].status = "accepted"
  BY InFilter
<1>4. i \in Between({u, v}) <=>
          /\ i \in Ids /\ friends[i] # NoRow
          /\ \/ friends[i].sender = u /\ friends[i].receiver = v
             \/ friends[i].sender = v /\ friends[i].receiver = u
  BY InBetween
<1> QED
  BY <1>1, <1>2, <1>3, <1>4

LEMMA AskedFacts ==
    ASSUME NEW op, NEW u, NEW v, NEW i, i \in Asked(op, u, v)
    PROVE  /\ i \in Between({u, v}) /\ friends[i].status = "pending"
           /\ friends[i].sender \in {u, v}
<1>1. i \in Filter(u, v, {"pending"}) \/ i \in Filter(v, u, {"pending"})
  BY DEF Asked
<1> QED
  BY <1>1, InFilter, InBetween

\* The rows of a pair, in this state and the next.
BetweenIs ==
    \A p, i : i \in Between(p) <=> i \in Ids /\ friends[i] # NoRow /\ PairOf(friends[i]) = p

LEMMA BetweenIsPair == BetweenIs
BY DEF BetweenIs, Between, Stored, PairOf

LEMMA BetweenIsPairNext == BetweenIs'
BY BetweenIsPair, PTL

-----------------------------------------------------------------------------
(* What a request may change *)

\* The request of t comes to r, and the rows that change are of its two users.
Local(t, r) ==
    /\ req' = [req EXCEPT ![t] = r]
    /\ r = Idle \/ (r \in Request /\ r.other = req[t].other)
    /\ friends' \in [Ids -> Row \union {NoRow}]
    /\ created' \in 0..MaxRows /\ created <= created'
    /\ raced' = raced
    /\ \A i \in Ids : i > created' => friends'[i] = NoRow
    /\ \A i \in Ids :
           friends'[i] # friends[i] =>
               /\ friends[i] = NoRow \/ PairOf(friends[i]) = PairOfRequest(t)
               /\ friends'[i] = NoRow \/ PairOf(friends'[i]) = PairOfRequest(t)
               /\ (i \in 1..created /\ friends[i] = NoRow) => HoldsRow(t) /\ req[t].id = i
    /\ r.at = "write" /\ r.op # "delete" =>
           /\ friends' = friends
           /\ r.id \in 1..created /\ friends[r.id] # NoRow
           /\ PairOf(friends[r.id]) = PairOfRequest(t)

LEMMA OthersKept ==
    ASSUME NEW t \in Threads, NEW r, Local(t, r), NEW u, NEW v, {u, v} # PairOfRequest(t)
    PROVE  /\ Between({u, v})' = Between({u, v})
           /\ \A i \in Between({u, v}) : friends'[i] = friends[i]
           /\ \A statuses : Filter(u, v, statuses)' = Filter(u, v, statuses)
<1>1. \A i \in Ids : friends'[i] # friends[i] =>
          /\ friends[i] = NoRow \/ {friends[i].sender, friends[i].receiver} # {u, v}
          /\ friends'[i] = NoRow \/ {friends'[i].sender, friends'[i].receiver} # {u, v}
  BY DEF Local, PairOf
<1>2. Between({u, v})' = Between({u, v})
  BY <1>1 DEF Between, Stored
<1>3. \A i \in Between({u, v}) : friends'[i] = friends[i]
  BY <1>1 DEF Between, Stored
<1>4. ASSUME NEW statuses
      PROVE  Filter(u, v, statuses)' = Filter(u, v, statuses)
  BY <1>1 DEF Filter, Stored
<1> QED
  BY <1>2, <1>3, <1>4

LEMMA TypeKept ==
    ASSUME TypeOK, NEW t \in Threads, NEW r, Local(t, r)
    PROVE  TypeOK'
<1>1. req' \in [Threads -> Request \union {Idle}]
  BY DEF TypeOK, Local
<1> QED
  BY <1>1 DEF TypeOK, Local

\* The two users of a request that is at r, while it is the only one about them.
Served(r, u, v) ==
    /\ r # Idle => KnowsOf(r, u, v)
    /\ \A i, j \in Between({u, v}) : i = j

LEMMA HandlerKeeps ==
    ASSUME PairsInv, NEW t \in Threads, req[t] # Idle, NEW r, Local(t, r),
           NEW u, NEW v, u = t[1], v = req[t].other,
           {u, v} \notin raced => Served(r, u, v)'
    PROVE  PairsInv'
<1> USE DEF PairsInv, Served
<1>1. TypeOK'
  BY TypeKept
<1>2. IdsOK'
  BY DEF Local, IdsOK
<1>3. /\ \A s \in Threads : s # t => req'[s] = req[s]
      /\ req'[t] = r
      /\ raced' = raced
  BY DEF Local, TypeOK
<1>4. \A s \in Threads : req'[s] # Idle =>
          req[s] # Idle /\ PairOfRequest(s)' = PairOfRequest(s)
  BY <1>3 DEF Local, PairOfRequest
<1>5. ASSUME NEW s \in Threads, HoldsRow(s)'
      PROVE  /\ s # t => HoldsRow(s) /\ req'[s] = req[s]
             /\ s = t => /\ req'[t].id = r.id /\ friends' = friends
                         /\ r.id \in 1..created /\ friends[r.id] # NoRow
                         /\ PairOf(friends[r.id]) = PairOfRequest(t)
             /\ PairOfRequest(s)' = PairOfRequest(s)
  BY <1>3, <1>4, <1>5 DEF HoldsRow, Local
<1>6. \A i \in Ids : friends'[i] # friends[i] =>
          /\ friends[i] = NoRow \/ PairOf(friends[i]) = PairOfRequest(t)
          /\ friends'[i] = NoRow \/ PairOf(friends'[i]) = PairOfRequest(t)
          /\ (i \in 1..created /\ friends[i] = NoRow) => HoldsRow(t) /\ req[t].id = i
  BY DEF Local
<1>7. created \in 0..MaxRows /\ created' \in 0..MaxRows /\ created <= created'
  BY DEF Local, TypeOK
<1>8. 1..created \subseteq 1..created' /\ 1..created \subseteq Ids
  BY <1>7, FriendshipAssumption DEF Ids
<1>9. RowsHeldOK'
  <2>1. ASSUME NEW s \in Threads, HoldsRow(s)'
        PROVE  /\ req'[s].id \in 1..created'
               /\ friends'[req'[s].id] = NoRow
                     \/ PairOf(friends'[req'[s].id]) = PairOfRequest(s)'
    <3>1. CASE s = t
      BY <3>1, <2>1, <1>5, <1>8
    <3>2. CASE s # t
      <4>1. HoldsRow(s) /\ req'[s] = req[s] /\ PairOfRequest(s)' = PairOfRequest(s)
        BY <3>2, <2>1, <1>5
      <4> DEFINE i == req[s].id
      <4>2. i \in 1..created /\ (friends[i] = NoRow \/ PairOf(friends[i]) = PairOfRequest(s))
        BY <4>1 DEF RowsHeldOK
      <4>3. HoldsRow(t) /\ req[t].id = i => PairOfRequest(t) = PairOfRequest(s)
        BY <4>1 DEF RowsHeldOK
      <4>4. i \in Ids /\ i \in 1..created'
        BY <4>2, <1>8
      <4> HIDE DEF i
      <4>5. friends'[i] = NoRow \/ PairOf(friends'[i]) = PairOfRequest(s)
        BY <4>2, <4>3, <4>4, <1>6
      <4> QED
        BY <4>1, <4>4, <4>5 DEF i
    <3> QED
      BY <3>1, <3>2
  <2>2. ASSUME NEW s \in Threads, NEW s2 \in Threads, HoldsRow(s)', HoldsRow(s2)',
               req'[s].id = req'[s2].id
        PROVE  PairOfRequest(s)' = PairOfRequest(s2)'
    <3>1. PairOfRequest(s)' = PairOfRequest(s) /\ PairOfRequest(s2)' = PairOfRequest(s2)
      BY <2>2, <1>5
    <3>2. CASE s # t /\ s2 # t
      BY <3>1, <3>2, <2>2, <1>5 DEF RowsHeldOK
    <3>3. ASSUME NEW o \in Threads, o # t, HoldsRow(o)', HoldsRow(t)', req'[o].id = req'[t].id
          PROVE  PairOfRequest(o) = PairOfRequest(t)
      BY <3>3, <1>5 DEF RowsHeldOK
    <3> QED
      BY <3>1, <3>2, <3>3, <2>2
  <2> QED
    BY <2>1, <2>2 DEF RowsHeldOK
<1>10. ASSUME NEW s \in Threads, NEW s2 \in Threads, req'[s] # Idle, req'[s2] # Idle,
              PairOfRequest(s)' = PairOfRequest(s2)', PairOfRequest(s)' \notin raced'
       PROVE  s = s2
  BY <1>10, <1>3, <1>4 DEF PairsOK
<1>11. PairOfRequest(t) = {u, v}
  BY DEF PairOfRequest
<1>15. ASSUME NEW x, NEW y, {x, y} # {u, v}
       PROVE  /\ Between({x, y})' = Between({x, y})
              /\ \A statuses : Filter(x, y, statuses)' = Filter(x, y, statuses)
  <2>1. {x, y} # PairOfRequest(t)
    BY <1>15, <1>11
  <2> QED
    BY <2>1, OthersKept
<1>12. ASSUME NEW x \in Users, NEW y \in Users, {x, y} \notin raced'
       PROVE  \A i, j \in Between({x, y})' : i = j
  <2>1. CASE {x, y} = {u, v}
    BY <2>1, <1>3, <1>12
  <2>2. CASE {x, y} # {u, v}
    <3>1. Between({x, y})' = Between({x, y})
      BY <2>2, <1>15
    <3> QED
      BY <3>1, <1>3, <1>12 DEF PairsOK
  <2> QED
    BY <2>1, <2>2
<1>13. ASSUME NEW s \in Threads, req'[s] # Idle, PairOfRequest(s)' \notin raced'
       PROVE  Knows(s)'
  <2>1. CASE s = t
    <3>1. r # Idle /\ r.other = v /\ PairOfRequest(t) \notin raced
      BY <2>1, <1>13, <1>3, <1>4 DEF Local
    <3>2. KnowsOf(r, u, v)'
      BY <3>1, <1>11
    <3>3. req'[t] = r /\ req'[t].other = v
      BY <3>1, <1>3
    <3> QED
      BY <2>1, <3>2, <3>3 DEF Knows
  <2>2. CASE s # t
    <3>1. req[s] # Idle /\ req'[s] = req[s] /\ PairOfRequest(s) \notin raced
      BY <2>2, <1>13, <1>3, <1>4
    <3> PICK x, y, q : x = s[1] /\ y = req[s].other /\ q = req[s]
      OBVIOUS
    <3>2. {x, y} # {u, v} /\ {y, x} # {u, v}
      <4>1. PairOfRequest(s) = {x, y} /\ {x, y} = {y, x}
        BY DEF PairOfRequest
      <4> QED
        BY <4>1, <3>1, <2>2, <1>11 DEF PairsOK
    <3>3. KnowsOf(q, x, y)
      BY <3>1 DEF PairsOK, Knows
    <3>4. /\ Between({x, y})' = Between({x, y})
          /\ \A statuses : Filter(x, y, statuses)' = Filter(x, y, statuses)
      BY <3>2, <1>15
    <3>8. \A statuses : Filter(y, x, statuses)' = Filter(y, x, statuses)
      BY <3>2, <1>15
    <3>5. Friends(x, y)' = Friends(x, y)
      BY <3>4, <3>8 DEF Friends
    <3>6. \A op : Asked(op, x, y)' = Asked(op, x, y)
      BY <3>4, <3>8 DEF Asked
    <3>7. KnowsOf(q, x, y)'
      BY <3>3, <3>4, <3>5, <3>6 DEF KnowsOf
    <3> QED
      BY <3>1, <3>7 DEF Knows
  <2> QED
    BY <2>1, <2>2
<1>14. PairsOK'
  BY <1>10, <1>12, <1>13 DEF PairsOK
<1> QED
  BY <1>1, <1>2, <1>9, <1>14

-----------------------------------------------------------------------------
(* The relation of a pair, from its rows *)

RelationIs ==
    \A p :
        /\ p \in raced => RelationOf(p) = R!Raced
        /\ p \notin raced /\ Between(p) = {} => RelationOf(p) = R!Strangers
        /\ \A i : p \notin raced /\ Between(p) = {i} =>
                      /\ friends[i].status = "accepted" => RelationOf(p) = R!AreFriends
                      /\ friends[i].status # "accepted" =>
                             RelationOf(p) = R!AskedBy(friends[i].sender)

LEMMA RelationFacts == RelationIs
<1> SUFFICES ASSUME NEW p
             PROVE  /\ p \in raced => RelationOf(p) = R!Raced
                    /\ p \notin raced /\ Between(p) = {} => RelationOf(p) = R!Strangers
                    /\ \A i : p \notin raced /\ Between(p) = {i} =>
                           /\ friends[i].status = "accepted" => RelationOf(p) = R!AreFriends
                           /\ friends[i].status # "accepted" =>
                                  RelationOf(p) = R!AskedBy(friends[i].sender)
  BY DEF RelationIs
<1>1. p \in raced => RelationOf(p) = R!Raced
  BY DEF RelationOf, R!Raced
<1>2. ASSUME p \notin raced, Between(p) = {}
      PROVE  RelationOf(p) = R!Strangers
  <2>1. {friends[i] : i \in Between(p)} = {}
    BY <1>2
  <2>2. Cardinality(Between(p)) # 1
    BY <1>2, FS_EmptySet
  <2> QED
    BY <1>2, <2>1, <2>2 DEF RelationOf, R!Strangers
<1>3. ASSUME NEW i, p \notin raced, Between(p) = {i}
      PROVE  /\ friends[i].status = "accepted" => RelationOf(p) = R!AreFriends
             /\ friends[i].status # "accepted" =>
                    RelationOf(p) = R!AskedBy(friends[i].sender)
  <2> DEFINE rows == {friends[j] : j \in Between(p)}
             row == CHOOSE x \in rows : TRUE
  <2>1. rows = {friends[i]}
    BY <1>3
  <2>2. rows # {}
    BY <2>1
  <2>3. row = friends[i]
    BY <2>1
  <2>4. Cardinality(Between(p)) = 1
    BY <1>3, FS_Singleton
  <2>5. RelationOf(p) = IF row.status = "accepted" THEN [is |-> "friends"]
                        ELSE [is |-> "asked", by |-> row.sender]
    BY <1>3, <2>2, <2>4 DEF RelationOf
  <2> QED
    BY <2>3, <2>5 DEF R!AreFriends, R!AskedBy
<1> QED
  BY <1>1, <1>2, <1>3

LEMMA RelationFactsNext == RelationIs'
BY RelationFacts, PTL

\* A step of Relations for one pair, or none.
Moves(p) ==
    \/ RelationOf(p)' = RelationOf(p)
    \/ R!Step(p, RelationOf(p), RelationOf(p)')

\* A request changes the relation of its two users only.
LEMMA RelationStep ==
    ASSUME TypeOK, NEW t \in Threads, NEW r, Local(t, r),
           NEW p \in Pairs, p = PairOfRequest(t),
           p \notin raced => Moves(p)
    PROVE  [R!Next]_Rel
<1> USE DEF Moves
<1>1. ASSUME NEW o \in Pairs \ {p}
      PROVE  RelationOf(o)' = RelationOf(o)
  <2>1. PICK u \in Users, v \in Users : o = {u, v}
    BY DEF Pairs
  <2>2. Between(o)' = Between(o) /\ \A i \in Between(o) : friends'[i] = friends[i]
    <3>1. {u, v} # PairOfRequest(t)
      BY <2>1
    <3>2. Between({u, v})' = Between({u, v})
      BY <3>1, OthersKept, Zenon
    <3>3. \A i \in Between({u, v}) : friends'[i] = friends[i]
      BY <3>1, OthersKept, Zenon
    <3>4. Between({u, v})' = Between(o)' /\ Between({u, v}) = Between(o)
      BY <2>1
    <3> QED
      BY <3>2, <3>3, <3>4
  <2>3. {friends'[i] : i \in Between(o)'} = {friends[i] : i \in Between(o)}
    BY <2>2
  <2>4. raced' = raced
    BY DEF Local
  <2> QED
    BY <2>2, <2>3, <2>4 DEF RelationOf
<1>2. p \in raced => RelationOf(p)' = RelationOf(p)
  BY RelationFacts, RelationFactsNext DEF RelationIs, Local
<1>3. CASE RelationOf(p)' = RelationOf(p)
  BY <1>1, <1>3 DEF Rel
<1>4. CASE R!Step(p, RelationOf(p), RelationOf(p)')
  <2>1. /\ Rel[p] = RelationOf(p) /\ Rel'[p] = RelationOf(p)'
        /\ \A o \in Pairs \ {p} : Rel'[o] = Rel[o]
    BY <1>1 DEF Rel
  <2>2. R!Step(p, Rel[p], Rel'[p])
    BY <1>4, <2>1
  <2>3. p \in R!Pairs /\ \A o \in R!Pairs \ {p} : Rel'[o] = Rel[o]
    BY <2>1 DEF R!Pairs, Pairs
  <2>4. R!Next
    BY <2>2, <2>3, Zenon DEF R!Next
  <2> QED
    BY <2>4
<1> QED
  BY <1>2, <1>3, <1>4

-----------------------------------------------------------------------------
(* The steps of a request *)

\* What remains to be shown of a step, once it is known to be local.
LEMMA Conclude ==
    ASSUME PairsInv, NEW t \in Threads, req[t] # Idle, NEW r, Local(t, r),
           NEW u \in Users, NEW v \in Users, u = t[1], v = req[t].other,
           {u, v} \notin raced => Served(r, u, v)' /\ Moves({u, v})
    PROVE  PairsInv' /\ [R!Next]_Rel
<1>1. PairsInv'
  BY HandlerKeeps
<1> PICK p : p = {u, v}
  OBVIOUS
<1>2. p \in Pairs /\ p = PairOfRequest(t)
  BY DEF Pairs, PairOfRequest
<1>3. p \notin raced => Moves(p)
  OBVIOUS
<1>4. [R!Next]_Rel
  BY <1>2, <1>3, RelationStep DEF PairsInv
<1> QED
  BY <1>1, <1>4

\* A request in progress, its users and the rows of the two.
LEMMA InProgress ==
    ASSUME PairsInv, NEW t \in Threads, req[t] # Idle
    PROVE  /\ req[t] \in Request /\ t[1] \in Users /\ req[t].other \in Users
           /\ PairOfRequest(t) = {t[1], req[t].other}
           /\ \A i \in Between(PairOfRequest(t)) :
                  i \in 1..created /\ friends[i] # NoRow /\ PairOf(friends[i]) = PairOfRequest(t)
<1>1. req[t] \in Request /\ t[1] \in Users /\ req[t].other \in Users
  BY ReqFacts, ThreadFacts DEF PairsInv, TypeOK
<1>2. ASSUME NEW i \in Ids, friends[i] # NoRow
      PROVE  i \in 1..created
  BY <1>2, FriendshipAssumption DEF PairsInv, TypeOK, IdsOK, Ids
<1> QED
  BY <1>1, <1>2 DEF PairOfRequest, Between, Stored, PairOf

LEMMA SingleRow ==
    ASSUME PairsInv, NEW u \in Users, NEW v \in Users, {u, v} \notin raced,
           NEW i \in Between({u, v})
    PROVE  Between({u, v}) = {i}
<1>1. \A x, y \in Between({u, v}) : x = y
  BY Zenon DEF PairsInv, PairsOK
<1> QED
  BY <1>1

\* What is known depends on the rows and on the request.
LEMMA KnowsKept ==
    ASSUME UNCHANGED friends, NEW s \in Threads, req'[s] = req[s], Knows(s)
    PROVE  Knows(s)'
<1> PICK r, u, v : r = req[s] /\ u = s[1] /\ v = req[s].other
  OBVIOUS
<1>1. KnowsOf(r, u, v)' <=> KnowsOf(r, u, v)
  BY DEF KnowsOf, Friends, Asked, Filter, Between, Stored
<1> QED
  BY <1>1 DEF Knows

\* A step that only reads.
LEMMA ReadStep ==
    ASSUME PairsInv, NEW t \in Threads, req[t] # Idle, NEW r,
           req' = [req EXCEPT ![t] = r], UNCHANGED <<friends, created, raced>>,
           r = Idle \/ (r \in Request /\ r.other = req[t].other),
           r.at = "write" /\ r.op # "delete" => r.id \in Between(PairOfRequest(t)),
           NEW u \in Users, NEW v \in Users, u = t[1], v = req[t].other,
           {u, v} \notin raced /\ r # Idle => KnowsOf(r, u, v)
    PROVE  PairsInv' /\ [R!Next]_Rel
<1>1. r.at = "write" /\ r.op # "delete" =>
          /\ r.id \in 1..created /\ friends[r.id] # NoRow
          /\ PairOf(friends[r.id]) = PairOfRequest(t)
  BY InProgress
<1>2. Local(t, r)
  BY <1>1 DEF Local, PairsInv, TypeOK, IdsOK
<1>3. KnowsOf(r, u, v)' <=> KnowsOf(r, u, v)
  BY DEF KnowsOf, Friends, Asked, Filter, Between, Stored
<1>4. Between({u, v})' = Between({u, v})
  BY DEF Between, Stored
<1>5. {u, v} \notin raced => \A i, j \in Between({u, v}) : i = j
  BY DEF PairsInv, PairsOK
<1>6. Moves({u, v})
  BY DEF Moves, RelationOf, Between, Stored
<1>7. {u, v} \notin raced => Served(r, u, v)'
  BY <1>3, <1>4, <1>5 DEF Served
<1> QED
  BY <1>2, <1>6, <1>7, Conclude

LEMMA CheckKeeps ==
    ASSUME PairsInv, NEW t \in Threads, NEW u, NEW q, t = <<u, q>>, Check(u, q), UNCHANGED raced
    PROVE  PairsInv' /\ [R!Next]_Rel
<1>1. /\ req[t].at \in CheckNames
      /\ UNCHANGED <<friends, created>>
      /\ \/ Found(req[t].at, u, req[t].other) # {} /\ Answer(u, q)
         \/ Found(req[t].at, u, req[t].other) = {} /\ Proceed(u, q, NextCheck(req[t].at))
  BY CheckStep
<1>2. req[t] # Idle /\ t[1] = u
  BY <1>1, ReqFacts DEF CheckNames
<1> PICK v, at : v = req[t].other /\ at = req[t].at
  OBVIOUS
<1>3. /\ req[t] \in Request /\ u \in Users /\ v \in Users
      /\ PairOfRequest(t) = {u, v}
  BY <1>2, InProgress
<1>4. CASE Found(at, u, v) # {} /\ Answer(u, q)
  <2>1. req' = [req EXCEPT ![t] = Idle]
    BY <1>4 DEF Answer
  <2> QED
    BY <1>1, <1>2, <1>3, <2>1, ReqFacts, ReadStep
<1>5. CASE Found(at, u, v) = {} /\ Proceed(u, q, NextCheck(at))
  <2> PICK r : r = [req[t] EXCEPT !.at = NextCheck(at)]
    OBVIOUS
  <2>1. req' = [req EXCEPT ![t] = r]
    BY <1>5 DEF Proceed
  <2>2. NextCheck(at) \in Steps \ {"idle"} /\ NextCheck(at) # "write"
    BY <1>1, StepNames DEF NextCheck, CheckNames
  <2>3. r \in Request /\ r.other = v /\ r.at = NextCheck(at)
    BY <1>3, <2>2, ReqFacts DEF Request
  <2>4. ASSUME {u, v} \notin raced
        PROVE  KnowsOf(r, u, v)
    <3>1. KnowsOf(req[t], u, v)
      BY <1>2, <1>3, <2>4 DEF PairsInv, PairsOK, Knows
    <3>2. CASE at = "is_friend"
      BY <3>2, <1>5, <2>3 DEF KnowsOf, NextCheck, Found
    <3>3. CASE at = "is_already_sent"
      BY <3>3, <3>1, <1>5, <2>3 DEF KnowsOf, NextCheck, Found
    <3>4. CASE at = "is_already_received"
      <4>1. /\ Friends(u, v) = {} /\ Filter(u, v, {"pending"}) = {}
            /\ Filter(v, u, {"pending"}) = {}
        BY <3>4, <3>1, <1>5 DEF KnowsOf, Found
      <4>2. Between({u, v}) = {}
        BY <4>1, BetweenFacts DEF PairsInv
      <4> QED
        BY <3>4, <4>2, <2>3 DEF KnowsOf, NextCheck
    <3>5. CASE at = "duplicate_sent" \/ at = "duplicate_received"
      BY <3>5, <3>1, <2>3 DEF KnowsOf, NextCheck
    <3> QED
      BY <3>2, <3>3, <3>4, <3>5, <1>1 DEF CheckNames
  <2> QED
    BY <1>1, <1>2, <1>3, <2>1, <2>2, <2>3, <2>4, ReadStep
<1> QED
  BY <1>1, <1>4, <1>5

LEMMA GetKeeps ==
    ASSUME PairsInv, NEW t \in Threads, NEW u, NEW q, t = <<u, q>>, Get(u, q), UNCHANGED raced
    PROVE  PairsInv' /\ [R!Next]_Rel
<1>1. /\ req[t].at = "get" /\ req[t].op \in {"cancel", "accept", "reject"}
      /\ UNCHANGED <<friends, created>>
  BY DEF Get
<1>2. req[t] # Idle /\ t[1] = u
  BY <1>1, ReqFacts
<1> PICK v, op : v = req[t].other /\ op = req[t].op
  OBVIOUS
<1>3. /\ req[t] \in Request /\ u \in Users /\ v \in Users
      /\ PairOfRequest(t) = {u, v}
  BY <1>2, InProgress
<1>4. CASE Answer(u, q)
  <2>1. req' = [req EXCEPT ![t] = Idle]
    BY <1>4 DEF Answer
  <2> QED
    BY <1>1, <1>2, <1>3, <2>1, ReqFacts, ReadStep
<1>5. ASSUME NEW i \in Asked(op, u, v),
             req' = [req EXCEPT ![t].at = "write", ![t].id = i]
      PROVE  PairsInv' /\ [R!Next]_Rel
  <2> PICK r : r = [req[t] EXCEPT !.at = "write", !.id = i]
    OBVIOUS
  <2>1. req' = [req EXCEPT ![t] = r]
    BY <1>5 DEF PairsInv, TypeOK
  <2>2. i \in Between({u, v})
    BY AskedFacts
  <2>3. i \in 0..MaxRows
    BY <2>2, FriendshipAssumption DEF Between, Stored, Ids
  <2>4. r \in Request /\ r.other = v /\ r.at = "write" /\ r.op = op /\ r.id = i
    BY <1>3, <2>3, StepNames DEF Request
  <2>5. KnowsOf(r, u, v)
    BY <1>1, <2>4 DEF KnowsOf
  <2> QED
    BY <1>1, <1>2, <1>3, <2>1, <2>2, <2>4, <2>5, ReadStep
<1> QED
  BY <1>4, <1>5 DEF Get

LEMMA FindFriendKeeps ==
    ASSUME PairsInv, NEW t \in Threads, NEW u, NEW q, t = <<u, q>>, FindFriend(u, q),
           UNCHANGED raced
    PROVE  PairsInv' /\ [R!Next]_Rel
<1>1. /\ req[t].at = "get" /\ req[t].op = "delete"
      /\ UNCHANGED <<friends, created>>
  BY DEF FindFriend
<1>2. req[t] # Idle /\ t[1] = u
  BY <1>1, ReqFacts
<1> PICK v : v = req[t].other
  OBVIOUS
<1>3. /\ req[t] \in Request /\ u \in Users /\ v \in Users
      /\ PairOfRequest(t) = {u, v}
  BY <1>2, InProgress
<1>4. CASE Answer(u, q)
  <2>1. req' = [req EXCEPT ![t] = Idle]
    BY <1>4 DEF Answer
  <2> QED
    BY <1>1, <1>2, <1>3, <2>1, ReqFacts, ReadStep
<1>5. CASE Friends(u, v) # {} /\ Proceed(u, q, "write")
  <2> PICK r : r = [req[t] EXCEPT !.at = "write"]
    OBVIOUS
  <2>1. req' = [req EXCEPT ![t] = r]
    BY <1>5 DEF Proceed
  <2>2. r \in Request /\ r.other = v /\ r.at = "write" /\ r.op = "delete"
    BY <1>1, <1>3, StepNames DEF Request
  <2>3. KnowsOf(r, u, v)
    BY <1>5, <2>2 DEF KnowsOf
  <2> QED
    BY <1>1, <1>2, <1>3, <2>1, <2>2, <2>3, ReadStep
<1> QED
  BY <1>4, <1>5 DEF FindFriend

LEMMA InsertKeeps ==
    ASSUME PairsInv, NEW t \in Threads, NEW u, NEW q, t = <<u, q>>, Insert(u, q), UNCHANGED raced
    PROVE  PairsInv' /\ [R!Next]_Rel
<1> PICK v, new, row : /\ v = req[t].other /\ new = created + 1
                       /\ row = [sender |-> u, receiver |-> v, status |-> "pending"]
  OBVIOUS
<1>1. /\ req[t].at = "insert" /\ created < MaxRows
      /\ created' = new /\ friends' = [friends EXCEPT ![new] = row]
      /\ req' = [req EXCEPT ![t] = Idle]
  BY DEF Insert, Answer
<1>2. req[t] # Idle /\ t[1] = u
  BY <1>1, ReqFacts
<1>3. /\ req[t] \in Request /\ u \in Users /\ v \in Users
      /\ PairOfRequest(t) = {u, v}
  BY <1>2, InProgress
<1>4. /\ new \in Ids /\ new \notin 1..created /\ friends[new] = NoRow
      /\ created' \in 0..MaxRows /\ created <= created'
      /\ \A i \in Ids : i > created' => i > created /\ i # new
  BY <1>1, FriendshipAssumption DEF PairsInv, TypeOK, IdsOK, Ids
<1>5. /\ row \in Row /\ PairOf(row) = {u, v} /\ row # NoRow
      /\ row.sender = u /\ row.status # "accepted"
  BY <1>3, RowFacts DEF Row, Status, PairOf
<1>6. /\ friends' \in [Ids -> Row \union {NoRow}]
      /\ friends'[new] = row
      /\ \A i \in Ids : i # new => friends'[i] = friends[i]
  BY <1>1, <1>4, <1>5 DEF PairsInv, TypeOK
<1>7. Local(t, Idle)
  BY <1>1, <1>3, <1>4, <1>5, <1>6, ReqFacts DEF Local, PairsInv, IdsOK
<1>8. ASSUME {u, v} \notin raced
      PROVE  Served(Idle, u, v)' /\ Moves({u, v})
  <2>1. Between({u, v}) = {}
    BY <1>1, <1>2, <1>3, <1>8 DEF PairsInv, PairsOK, Knows, KnowsOf
  <2>2. ASSUME NEW i
        PROVE  i \in Between({u, v})' <=> i = new
    <3>1. i \in Between({u, v})' <=>
              i \in Ids /\ friends'[i] # NoRow /\ PairOf(friends'[i]) = {u, v}
      BY BetweenIsPairNext DEF BetweenIs
    <3>2. ~(i \in Ids /\ friends[i] # NoRow /\ PairOf(friends[i]) = {u, v})
      BY <2>1, BetweenIsPair DEF BetweenIs
    <3> QED
      BY <3>1, <3>2, <1>4, <1>5, <1>6
  <2>3. Between({u, v})' = {new}
    BY <2>2
  <2>6. friends'[new].status # "accepted" /\ friends'[new].sender = u
    BY <1>5, <1>6
  <2>4. RelationOf({u, v}) = R!Strangers
    BY <2>1, <1>8, RelationFacts DEF RelationIs
  <2>5. RelationOf({u, v})' = R!AskedBy(u)
    BY <2>3, <2>6, <1>8, RelationFactsNext DEF RelationIs
  <2> QED
    BY <2>3, <2>4, <2>5 DEF Served, Moves, R!Step
<1> QED
  BY <1>2, <1>3, <1>7, <1>8, Conclude

\* A statement that writes the row that was read: the row becomes new, or goes.
LEMMA WriteRow ==
    ASSUME PairsInv, NEW t \in Threads, HoldsRow(t),
           NEW new, new = NoRow \/ (new \in Row /\ PairOf(new) = PairOfRequest(t)),
           friends' = [friends EXCEPT ![req[t].id] = new],
           req' = [req EXCEPT ![t] = Idle], UNCHANGED <<created, raced>>,
           NEW u \in Users, NEW v \in Users, u = t[1], v = req[t].other,
           new # NoRow => new.status = "accepted"
    PROVE  PairsInv' /\ [R!Next]_Rel
<1> PICK id, op : id = req[t].id /\ op = req[t].op
  OBVIOUS
<1>1. /\ id \in 1..created /\ id \in Ids /\ created \in 0..MaxRows
      /\ friends[id] = NoRow \/ PairOf(friends[id]) = PairOfRequest(t)
      /\ req[t] # Idle /\ req[t].at = "write" /\ op # "delete"
  BY FriendshipAssumption DEF PairsInv, TypeOK, RowsHeldOK, HoldsRow, Ids
<1>2. /\ req[t] \in Request /\ PairOfRequest(t) = {u, v}
  BY <1>1, InProgress
<1>3. /\ friends' \in [Ids -> Row \union {NoRow}]
      /\ friends'[id] = new
      /\ \A i \in Ids : i # id => friends'[i] = friends[i]
  BY <1>1 DEF PairsInv, TypeOK
<1>4. \A i \in Ids : i > created => i # id
  BY <1>1, FriendshipAssumption DEF Ids
<1>5. Local(t, Idle)
  BY <1>1, <1>3, <1>4, ReqFacts DEF Local, PairsInv, IdsOK, TypeOK
<1>6. ASSUME {u, v} \notin raced
      PROVE  Served(Idle, u, v)' /\ Moves({u, v})
  <2>1. id \in Asked(op, u, v)
    BY <1>1, <1>2, <1>6 DEF PairsInv, PairsOK, Knows, KnowsOf
  <2>9. /\ id \in Between({u, v}) /\ friends[id].status = "pending"
        /\ friends[id].sender \in {u, v}
    <3>1. id \in Filter(u, v, {"pending"}) \/ id \in Filter(v, u, {"pending"})
      BY <2>1 DEF Asked
    <3>2. /\ id \in Ids /\ friends[id] # NoRow
          /\ \/ friends[id].sender = u /\ friends[id].receiver = v
             \/ friends[id].sender = v /\ friends[id].receiver = u
      BY ONLY <3>1, InFilter
    <3>3. friends[id].status \in {"pending"}
      BY ONLY <3>1, InFilter
    <3>4. id \in Between({u, v})
      BY ONLY <3>2, InBetween
    <3> QED
      BY ONLY <3>2, <3>3, <3>4
  <2>2. /\ id \in Between({u, v}) /\ friends[id].status # "accepted"
        /\ friends[id].sender \in {u, v}
    BY <2>9
  <2>3. Between({u, v}) = {id}
    BY <2>2, <1>6, SingleRow
  <2>4. RelationOf({u, v}) = R!AskedBy(friends[id].sender)
    BY <2>2, <2>3, <1>6, RelationFacts DEF RelationIs
  <2>5. \A i : i \in Between({u, v})' <=>
            i \in Ids /\ friends'[i] # NoRow /\ PairOf(friends'[i]) = {u, v}
    BY BetweenIsPairNext DEF BetweenIs
  <2>6. \A i : i # id => ~(i \in Ids /\ friends[i] # NoRow /\ PairOf(friends[i]) = {u, v})
    BY <2>3, BetweenIsPair DEF BetweenIs
  <2>7. CASE new = NoRow
    <3>1. Between({u, v})' = {}
      BY <2>5, <2>6, <2>7, <1>3
    <3>2. RelationOf({u, v})' = R!Strangers
      BY <3>1, <1>6, RelationFactsNext DEF RelationIs
    <3> QED
      BY <3>1, <3>2, <2>2, <2>4 DEF Served, Moves, R!Step
  <2>8. CASE new # NoRow
    <3>1. ASSUME NEW i
          PROVE  i \in Between({u, v})' <=> i = id
      BY <2>5, <2>6, <2>8, <1>1, <1>2, <1>3
    <3>2. Between({u, v})' = {id}
      BY <3>1
    <3>3. friends'[id].status = "accepted"
      BY <1>3, <2>8
    <3>4. RelationOf({u, v})' = R!AreFriends
      BY <3>2, <3>3, <1>6, RelationFactsNext DEF RelationIs
    <3> QED
      BY <3>2, <3>4, <2>2, <2>4 DEF Served, Moves, R!Step
  <2> QED
    BY <2>7, <2>8
<1> QED
  BY <1>1, <1>2, <1>5, <1>6, Conclude

LEMMA DeleteRequestKeeps ==
    ASSUME PairsInv, NEW t \in Threads, NEW u, NEW q, t = <<u, q>>, DeleteRequest(u, q),
           UNCHANGED raced
    PROVE  PairsInv' /\ [R!Next]_Rel
<1>1. /\ req[t].at = "write" /\ req[t].op # "delete"
      /\ friends' = [friends EXCEPT ![req[t].id] = NoRow]
      /\ req' = [req EXCEPT ![t] = Idle] /\ UNCHANGED created
  BY DEF DeleteRequest, Writes, Answer
<1>2. req[t] # Idle /\ t[1] = u
  BY <1>1, ReqFacts
<1>3. u \in Users /\ req[t].other \in Users
  BY <1>2, InProgress
<1> PICK v : v = req[t].other
  OBVIOUS
<1> QED
  BY <1>1, <1>2, <1>3, WriteRow DEF HoldsRow

LEMMA AcceptKeeps ==
    ASSUME PairsInv, NEW t \in Threads, NEW u, NEW q, t = <<u, q>>, Accept(u, q), UNCHANGED raced
    PROVE  PairsInv' /\ [R!Next]_Rel
<1> PICK v, new : /\ v = req[t].other
                  /\ new = [sender |-> v, receiver |-> u, status |-> "accepted"]
  OBVIOUS
<1>1. /\ req[t].at = "write" /\ req[t].op = "accept"
      /\ friends' = [friends EXCEPT ![req[t].id] = new]
      /\ req' = [req EXCEPT ![t] = Idle] /\ UNCHANGED created
  BY DEF Accept, Writes, Answer
<1>2. req[t] # Idle /\ t[1] = u
  BY <1>1, ReqFacts
<1>3. u \in Users /\ v \in Users /\ PairOfRequest(t) = {u, v}
  BY <1>2, InProgress
<1>4. new \in Row /\ new.status = "accepted" /\ PairOf(new) = PairOfRequest(t)
  BY <1>3 DEF Row, Status, PairOf
<1> QED
  BY <1>1, <1>2, <1>3, <1>4, WriteRow DEF HoldsRow

LEMMA DeleteFriendKeeps ==
    ASSUME PairsInv, NEW t \in Threads, NEW u, NEW q, t = <<u, q>>, DeleteFriend(u, q),
           UNCHANGED raced
    PROVE  PairsInv' /\ [R!Next]_Rel
<1> PICK v, gone : v = req[t].other /\ gone = Friends(u, v)
  OBVIOUS
<1>1. /\ req[t].at = "write" /\ req[t].op = "delete"
      /\ friends' = [i \in Ids |-> IF i \in gone THEN NoRow ELSE friends[i]]
      /\ req' = [req EXCEPT ![t] = Idle] /\ UNCHANGED created
  BY DEF DeleteFriend, Writes, Answer
<1>2. req[t] # Idle /\ t[1] = u
  BY <1>1, ReqFacts
<1>3. u \in Users /\ v \in Users /\ PairOfRequest(t) = {u, v}
  BY <1>2, InProgress
<1>4. ASSUME NEW i \in gone
      PROVE  i \in Between({u, v}) /\ friends[i].status = "accepted"
  <2>1. i \in Filter(u, v, {"accepted"}) \/ i \in Filter(v, u, {"accepted"})
    BY DEF Friends
  <2>2. /\ i \in Ids /\ friends[i] # NoRow /\ friends[i].status \in {"accepted"}
        /\ \/ friends[i].sender = u /\ friends[i].receiver = v
           \/ friends[i].sender = v /\ friends[i].receiver = u
    BY <2>1, InFilter
  <2> QED
    BY <2>2, InBetween
<1>5. \A i \in gone : i \in Ids /\ friends[i] # NoRow /\ PairOf(friends[i]) = {u, v}
  BY <1>4, BetweenIsPair DEF BetweenIs
<1>6. /\ friends' \in [Ids -> Row \union {NoRow}]
      /\ \A i \in Ids : friends'[i] = IF i \in gone THEN NoRow ELSE friends[i]
  BY <1>1 DEF PairsInv, TypeOK
<1>9. \A i \in Ids : friends'[i] = friends[i] \/ (i \in gone /\ friends'[i] = NoRow)
  BY <1>6
<1>10. created' \in 0..MaxRows /\ created <= created'
  BY <1>1, FriendshipAssumption DEF PairsInv, TypeOK
<1>11. \A i \in Ids : i > created' => friends'[i] = NoRow
  BY <1>1, <1>9 DEF PairsInv, IdsOK
<1>12. \A i \in Ids : friends'[i] # friends[i] =>
           /\ PairOf(friends[i]) = PairOfRequest(t) /\ friends[i] # NoRow /\ friends'[i] = NoRow
  BY <1>3, <1>5, <1>9
<1>7. Local(t, Idle)
  BY <1>1, <1>6, <1>10, <1>11, <1>12, ReqFacts DEF Local
<1>8. ASSUME {u, v} \notin raced
      PROVE  Served(Idle, u, v)' /\ Moves({u, v})
  <2>1. gone # {}
    BY <1>1, <1>2, <1>3, <1>8 DEF PairsInv, PairsOK, Knows, KnowsOf
  <2>2. PICK id : id \in gone
    BY <2>1
  <2>3. Between({u, v}) = {id}
    <3>1. id \in Between({u, v})
      BY <2>2, <1>4
    <3> QED
      BY <3>1, <1>3, <1>8, SingleRow
  <2>4. RelationOf({u, v}) = R!AreFriends
    BY <2>2, <2>3, <1>4, <1>8, RelationFacts DEF RelationIs
  <2>5. \A i : i \in Between({u, v})' <=>
            i \in Ids /\ friends'[i] # NoRow /\ PairOf(friends'[i]) = {u, v}
    BY BetweenIsPairNext DEF BetweenIs
  <2>6. \A i : i # id => ~(i \in Ids /\ friends[i] # NoRow /\ PairOf(friends[i]) = {u, v})
    BY <2>3, BetweenIsPair DEF BetweenIs
  <2>7. Between({u, v})' = {}
    BY <2>2, <2>5, <2>6, <1>6
  <2>8. RelationOf({u, v})' = R!Strangers
    BY <2>7, <1>8, RelationFactsNext DEF RelationIs
  <2> QED
    BY <2>7, <2>8, <2>4 DEF Served, Moves, R!Step
<1> QED
  BY <1>2, <1>3, <1>7, <1>8, Conclude

LEMMA BeginKeeps ==
    ASSUME PairsInv, NEW t \in Threads, NEW u, NEW q, t = <<u, q>>,
           NEW op \in Operations, NEW v \in Users, Begin(u, q, op, v)
    PROVE  PairsInv' /\ [R!Next]_Rel
<1> PICK r, p : /\ r = [at |-> FirstStep(op), op |-> op, other |-> v, id |-> 0]
                /\ p = {u, v}
  OBVIOUS
<1>1. /\ req[t] = Idle /\ req' = [req EXCEPT ![t] = r] /\ UNCHANGED <<friends, created>>
      /\ raced' = IF Busy(u, v) THEN raced \union {p} ELSE raced
  BY DEF Begin
<1>2. u \in Users /\ t[1] = u
  BY ThreadFacts
<1>3. r.at \in {"is_friend", "get"} /\ r.other = v
  BY DEF FirstStep
<1>4. r \in Request
  <2>1. FirstStep(op) \in Steps \ {"idle"} /\ 0 \in 0..MaxRows
    BY StepNames, FriendshipAssumption DEF FirstStep
  <2> QED
    BY <2>1 DEF Request
<1>5. /\ req'[t] = r /\ \A s \in Threads : s # t => req'[s] = req[s]
      /\ req' \in [Threads -> Request \union {Idle}]
  BY <1>1, <1>4 DEF PairsInv, TypeOK
<1>6. raced \subseteq raced' /\ raced' \subseteq SUBSET Users
  BY <1>1, <1>2 DEF PairsInv, TypeOK
<1>7. TypeOK' /\ IdsOK'
  BY <1>1, <1>5, <1>6 DEF PairsInv, TypeOK, IdsOK
<1>8. \A s \in Threads : HoldsRow(s)' =>
          HoldsRow(s) /\ req'[s] = req[s] /\ PairOfRequest(s)' = PairOfRequest(s)
  BY <1>3, <1>5 DEF HoldsRow, PairOfRequest
<1>9. RowsHeldOK'
  BY <1>1, <1>8 DEF PairsInv, RowsHeldOK
<1>10. PairOfRequest(t)' = p
  BY <1>2, <1>3, <1>5 DEF PairOfRequest
<1>11. ASSUME NEW s \in Threads, s # t, req'[s] # Idle, PairOfRequest(s)' = p
       PROVE  p \in raced'
  <2>1. req[s] # Idle /\ {s[1], req[s].other} = {u, v}
    BY <1>5, <1>11 DEF PairOfRequest
  <2>2. Busy(u, v)
    BY <2>1 DEF Busy
  <2> QED
    BY <2>2, <1>1
<1>12. ASSUME NEW s \in Threads, NEW s2 \in Threads, req'[s] # Idle, req'[s2] # Idle,
              PairOfRequest(s)' = PairOfRequest(s2)', PairOfRequest(s)' \notin raced'
       PROVE  s = s2
  <2>1. CASE s # t /\ s2 # t
    <3>1. /\ req'[s] = req[s] /\ req'[s2] = req[s2]
          /\ PairOfRequest(s)' = PairOfRequest(s) /\ PairOfRequest(s2)' = PairOfRequest(s2)
      BY <2>1, <1>5 DEF PairOfRequest
    <3> QED
      BY <3>1, <1>6, <1>12 DEF PairsInv, PairsOK
  <2>2. CASE s = t \/ s2 = t
    BY <2>2, <1>10, <1>11, <1>12
  <2> QED
    BY <2>1, <2>2
<1>13. ASSUME NEW x \in Users, NEW y \in Users, {x, y} \notin raced'
       PROVE  \A i, j \in Between({x, y})' : i = j
  <2>1. Between({x, y})' = Between({x, y})
    BY <1>1 DEF Between, Stored
  <2>2. {x, y} \notin raced
    BY <1>6, <1>13
  <2>3. \A i, j \in Between({x, y}) : i = j
    BY <2>2, Zenon DEF PairsInv, PairsOK
  <2> QED
    BY <2>1, <2>3
<1>14. ASSUME NEW s \in Threads, req'[s] # Idle, PairOfRequest(s)' \notin raced'
       PROVE  Knows(s)'
  <2>1. CASE s = t
    BY <2>1, <1>3, <1>5 DEF Knows, KnowsOf
  <2>2. CASE s # t
    <3>1. req'[s] = req[s] /\ PairOfRequest(s) \notin raced /\ req[s] # Idle
      BY <2>2, <1>5, <1>6, <1>14 DEF PairOfRequest
    <3>2. Knows(s)
      BY <3>1 DEF PairsInv, PairsOK
    <3> QED
      BY <3>1, <3>2, <1>1, KnowsKept
  <2> QED
    BY <2>1, <2>2
<1>15. PairsInv'
  <2>1. PairsOK'
    BY <1>12, <1>13, <1>14 DEF PairsOK
  <2> QED
    BY <2>1, <1>7, <1>9 DEF PairsInv
<1>16. ASSUME NEW o, o \in raced' <=> o \in raced
       PROVE  RelationOf(o)' = RelationOf(o)
  <2>1. Between(o)' = Between(o)
    BY <1>1 DEF Between, Stored
  <2>2. {friends'[i] : i \in Between(o)'} = {friends[i] : i \in Between(o)}
    BY <2>1, <1>1
  <2>3. (o \notin raced') = (o \notin raced) /\ (o \in raced') = (o \in raced)
    BY <1>16
  <2>4. Cardinality(Between(o))' = Cardinality(Between(o))
    BY <2>1
  <2> QED
    BY <2>2, <2>3, <2>4, Zenon DEF RelationOf
<1>17. CASE raced' = raced
  BY <1>15, <1>16, <1>17 DEF Rel
<1>18. CASE raced' # raced
  <2>1. p \in raced' /\ \A o : o # p => (o \in raced' <=> o \in raced)
    BY <1>1, <1>18
  <2>2. p \in Pairs
    BY <1>2 DEF Pairs
  <2>3. RelationOf(p)' = R!Raced
    BY <2>1, RelationFactsNext DEF RelationIs
  <2>4. R!Step(p, Rel[p], Rel'[p]) /\ \A o \in Pairs \ {p} : Rel'[o] = Rel[o]
    BY <2>1, <2>2, <2>3, <1>16 DEF Rel, R!Step
  <2>6. R!Pairs = Pairs
    BY DEF R!Pairs, Pairs
  <2>5. R!Next
    BY <2>2, <2>4, <2>6, Zenon DEF R!Next
  <2> QED
    BY <2>5, <1>15
<1> QED
  BY <1>17, <1>18

LEMMA StepKeeps ==
    ASSUME PairsInv, [Next]_vars
    PROVE  PairsInv' /\ [R!Next]_Rel
<1>1. ASSUME NEW t \in Threads, NEW op \in Operations, NEW v \in Users, Begin(t[1], t[2], op, v)
      PROVE  PairsInv' /\ [R!Next]_Rel
  BY <1>1, ThreadFacts, BeginKeeps
<1>2. ASSUME NEW t \in Threads, Handle(t[1], t[2])
      PROVE  PairsInv' /\ [R!Next]_Rel
  <2> PICK u, q : t = <<u, q>> /\ u = t[1] /\ q = t[2]
    BY ThreadFacts
  <2>1. UNCHANGED raced
    BY <1>2 DEF Handle
  <2>2. CASE Check(u, q)
    BY <2>1, <2>2, CheckKeeps
  <2>3. CASE Insert(u, q)
    BY <2>1, <2>3, InsertKeeps
  <2>4. CASE Get(u, q)
    BY <2>1, <2>4, GetKeeps
  <2>5. CASE DeleteRequest(u, q)
    BY <2>1, <2>5, DeleteRequestKeeps
  <2>6. CASE Accept(u, q)
    BY <2>1, <2>6, AcceptKeeps
  <2>7. CASE FindFriend(u, q)
    BY <2>1, <2>7, FindFriendKeeps
  <2>8. CASE DeleteFriend(u, q)
    BY <2>1, <2>8, DeleteFriendKeeps
  <2> QED
    BY <1>2, <2>2, <2>3, <2>4, <2>5, <2>6, <2>7, <2>8 DEF Handle
<1>3. CASE UNCHANGED vars
  <2>1. UNCHANGED <<friends, created, req, raced>>
    BY <1>3 DEF vars
  <2>2. Rel' = Rel
    BY <2>1 DEF Rel, RelationOf, Between, Stored
  <2>3. TypeOK' /\ IdsOK' /\ RowsHeldOK'
    BY <2>1 DEF PairsInv, TypeOK, IdsOK, RowsHeldOK, HoldsRow, PairOfRequest
  <2>4. PairsOK'
    <3>1. \A s \in Threads : PairOfRequest(s)' = PairOfRequest(s)
      BY <2>1 DEF PairOfRequest
    <3>2. \A p : Between(p)' = Between(p)
      BY <2>1 DEF Between, Stored
    <3>3. \A s \in Threads : req[s] # Idle /\ PairOfRequest(s) \notin raced => Knows(s)'
      BY <2>1, KnowsKept DEF PairsInv, PairsOK
    <3> QED
      BY <2>1, <3>1, <3>2, <3>3 DEF PairsInv, PairsOK
  <2> QED
    BY <2>2, <2>3, <2>4 DEF PairsInv
<1> QED
  BY <1>1, <1>2, <1>3 DEF Next

LEMMA InitPairs == Init => PairsInv /\ R!Init
<1> SUFFICES ASSUME Init
             PROVE  PairsInv /\ R!Init
  OBVIOUS
<1>1. \A t \in Threads : req[t] = Idle
  BY DEF Init
<1>2. Stored = {}
  BY DEF Init, Stored
<1>3. \A p : Between(p) = {}
  BY <1>2 DEF Between
<1>4. TypeOK
  BY FriendshipAssumption DEF Init, TypeOK
<1>5. IdsOK /\ RowsHeldOK /\ PairsOK
  BY <1>1, <1>3 DEF Init, IdsOK, RowsHeldOK, PairsOK, HoldsRow
<1>6. \A p : RelationOf(p) = R!Strangers
  BY <1>3, RelationFacts DEF RelationIs, Init
<1>7. R!Init
  BY <1>6 DEF R!Init, R!Pairs, Pairs, Rel
<1> QED
  BY <1>4, <1>5, <1>7 DEF PairsInv

-----------------------------------------------------------------------------

\* The invariant: what is known about two users whose requests about each other never
\* overlapped (friend.py, models.Friend).
THEOREM PairsInductive == Spec => []PairsInv
<1>1. Init => PairsInv
  BY InitPairs
<1>2. PairsInv /\ [Next]_vars => PairsInv'
  BY StepKeeps
<1> QED
  BY <1>1, <1>2, PTL DEF Spec

\* The table and the requests in progress have the types the code gives them.
THEOREM TypeCorrect == Spec => []TypeOK
<1>1. PairsInv => TypeOK
  BY DEF PairsInv
<1> QED
  BY <1>1, PairsInductive, PTL

\* Two users are strangers, one has asked, or they are friends, and each request takes them
\* from one to the next, whatever requests about others are in progress, unless two requests
\* about the two of them overlapped.
THEOREM ImplementsRelations == Spec => KeepsRelations
<1>1. Init => R!Init
  BY InitPairs
<1>2. PairsInv /\ [Next]_vars => [R!Next]_Rel
  BY StepKeeps
<1> QED
  BY <1>1, <1>2, PairsInductive, PTL DEF Spec, KeepsRelations, R!Spec

-----------------------------------------------------------------------------
(* Pending requests can be answered *)

\* A user waits for the answer to a request before making another one.
OneRequestEach == \A u \in Users : \A p, q \in Requests[u] : p = q

Pending(u, v) == Filter(u, v, {"pending"})

\* One has not been sent yet: from the second check of a "send" to the insertion.
NotSent(t) ==
    req[t].at \in {"is_already_received", "duplicate_sent", "duplicate_received", "insert"}
        => Pending(t[1], req[t].other) = {}

PendingOK ==
    /\ \A u, v \in Users : \A i, j \in Pending(u, v) : i = j
    /\ \A t \in Threads : req[t] # Idle => NotSent(t)

LEMMA OneThread ==
    ASSUME OneRequestEach, NEW s \in Threads, NEW t \in Threads, s[1] = t[1]
    PROVE  s = t
<1>1. /\ s[1] \in Users /\ s[2] \in Requests[s[1]] /\ s = <<s[1], s[2]>>
      /\ t[1] \in Users /\ t[2] \in Requests[t[1]] /\ t = <<t[1], t[2]>>
  BY DEF Threads
<1> QED
  BY <1>1 DEF OneRequestEach

\* The pending rows of a pair, in this state and the next.
PendingIs ==
    \A u, v, i : i \in Pending(u, v) <=>
        /\ i \in Ids /\ friends[i] # NoRow
        /\ friends[i].sender = u /\ friends[i].receiver = v
        /\ friends[i].status = "pending"

LEMMA PendingRows == PendingIs
BY DEF PendingIs, Pending, Filter, Stored

LEMMA PendingRowsNext == PendingIs'
BY PendingRows, PTL

\* A step that makes no row pending.
LEMMA NoNewPending ==
    ASSUME PendingOK, NEW t \in Threads, NEW r, req' = [req EXCEPT ![t] = r],
           req \in [Threads -> Request \union {Idle}],
           \A u, v, i : i \in Pending(u, v)' => i \in Pending(u, v),
           r = Idle \/ NotSent(t)'
    PROVE  PendingOK'
<1>1. \A s \in Threads : s # t => req'[s] = req[s]
  OBVIOUS
<1>2. ASSUME NEW s \in Threads, req'[s] # Idle
      PROVE  NotSent(s)'
  <2>1. CASE s = t
    BY <2>1, <1>2
  <2>2. CASE s # t
    <3> PICK u, v, x : u = s[1] /\ v = req[s].other /\ x = req[s]
      OBVIOUS
    <3>1. req'[s] = x /\ NotSent(s) /\ x # Idle
      BY <2>2, <1>1, <1>2 DEF PendingOK
    <3>2. Pending(u, v) = {} => Pending(u, v)' = {}
      OBVIOUS
    <3> QED
      BY <3>1, <3>2 DEF NotSent
  <2> QED
    BY <2>1, <2>2
<1>3. \A u, v \in Users : \A i, j \in Pending(u, v)' : i = j
  BY DEF PendingOK
<1> QED
  BY <1>2, <1>3 DEF PendingOK

LEMMA PendingInsert ==
    ASSUME OneRequestEach, TypeOK, PendingOK, NEW t \in Threads, NEW u, NEW q, t = <<u, q>>,
           Insert(u, q)
    PROVE  PendingOK'
<1> PICK v, new, row : /\ v = req[t].other /\ new = created + 1
                       /\ row = [sender |-> u, receiver |-> v, status |-> "pending"]
  OBVIOUS
<1>1. /\ req[t].at = "insert" /\ created < MaxRows
      /\ friends' = [friends EXCEPT ![new] = row]
      /\ req' = [req EXCEPT ![t] = Idle]
  BY DEF Insert, Answer
<1>2. req[t] # Idle /\ t[1] = u
  BY <1>1, ReqFacts
<1>3. Pending(u, v) = {}
  BY <1>1, <1>2 DEF PendingOK, NotSent
<1>4. row.sender = u /\ row.receiver = v
  OBVIOUS
<1>5. \A i \in Ids : IF i = new THEN friends'[i] = row ELSE friends'[i] = friends[i]
  BY <1>1 DEF TypeOK
<1>6. ASSUME NEW x, NEW y, NEW i \in Pending(x, y)'
      PROVE  i \in Pending(x, y) \/ (i = new /\ x = u /\ y = v)
  <2>1. /\ i \in Ids /\ friends'[i] # NoRow
        /\ friends'[i].sender = x /\ friends'[i].receiver = y /\ friends'[i].status = "pending"
    BY PendingRowsNext DEF PendingIs
  <2>2. CASE i = new
    BY <2>1, <2>2, <1>4, <1>5
  <2>3. CASE i # new
    BY <2>1, <2>3, <1>5, PendingRows DEF PendingIs
  <2> QED
    BY <2>2, <2>3
<1>7. \A x, y \in Users : \A i, j \in Pending(x, y)' : i = j
  BY <1>3, <1>6 DEF PendingOK
<1>8. ASSUME NEW s \in Threads, req'[s] # Idle
      PROVE  NotSent(s)'
  <2>1. s # t /\ req'[s] = req[s] /\ req[s] # Idle
    BY <1>1, <1>8 DEF TypeOK
  <2> PICK x, y, r : x = s[1] /\ y = req[s].other /\ r = req[s]
    OBVIOUS
  <2>2. x # u
    BY <2>1, <1>2, OneThread
  <2>3. Pending(x, y) = {} => Pending(x, y)' = {}
    BY <2>2, <1>6
  <2> QED
    BY <2>1, <2>3 DEF PendingOK, NotSent
<1> QED
  BY <1>7, <1>8 DEF PendingOK

\* Rows that only go, or are accepted.
LEMMA PendingWrite ==
    ASSUME TypeOK, PendingOK, NEW t \in Threads, req' = [req EXCEPT ![t] = Idle],
           \A i \in Ids : friends'[i] = friends[i] \/ friends'[i] = NoRow
                              \/ friends'[i].status = "accepted"
    PROVE  PendingOK'
<1>1. ASSUME NEW u, NEW v, NEW i, i \in Pending(u, v)'
      PROVE  i \in Pending(u, v)
  <2>1. /\ i \in Ids /\ friends'[i] # NoRow
        /\ friends'[i].sender = u /\ friends'[i].receiver = v /\ friends'[i].status = "pending"
    BY <1>1, PendingRowsNext DEF PendingIs
  <2>2. friends'[i] = friends[i]
    BY <2>1
  <2> QED
    BY <2>1, <2>2, PendingRows DEF PendingIs
<1>2. req \in [Threads -> Request \union {Idle}]
  BY DEF TypeOK
<1> QED
  BY <1>1, <1>2, NoNewPending

LEMMA PendingRead ==
    ASSUME TypeOK, PendingOK, NEW t \in Threads, NEW r, req' = [req EXCEPT ![t] = r],
           UNCHANGED friends,
           r = Idle \/ r.at \notin {"is_already_received", "duplicate_sent",
                                    "duplicate_received", "insert"}
                    \/ Pending(t[1], r.other) = {}
    PROVE  PendingOK'
<1>1. \A u, v : Pending(u, v)' = Pending(u, v)
  BY DEF Pending, Filter, Stored
<1>2. req \in [Threads -> Request \union {Idle}] /\ req'[t] = r
  BY DEF TypeOK
<1>3. r = Idle \/ NotSent(t)'
  <2> PICK u, v : u = t[1] /\ v = r.other
    OBVIOUS
  <2>1. Pending(u, v)' = Pending(u, v)
    BY <1>1
  <2> QED
    BY <1>2, <2>1 DEF NotSent
<1>4. \A u, v, i : i \in Pending(u, v)' => i \in Pending(u, v)
  BY <1>1
<1> QED
  BY <1>2, <1>3, <1>4, NoNewPending

LEMMA PendingCheck ==
    ASSUME TypeOK, PendingOK, NEW t \in Threads, NEW u, NEW q, t = <<u, q>>, Check(u, q)
    PROVE  PendingOK'
<1>1. /\ req[t].at \in CheckNames
      /\ UNCHANGED <<friends, created>>
      /\ \/ Found(req[t].at, u, req[t].other) # {} /\ Answer(u, q)
         \/ Found(req[t].at, u, req[t].other) = {} /\ Proceed(u, q, NextCheck(req[t].at))
  BY CheckStep
<1>2. req[t] # Idle /\ t[1] = u /\ req[t] \in Request
  BY <1>1, ReqFacts DEF CheckNames, TypeOK
<1> PICK v, at : v = req[t].other /\ at = req[t].at
  OBVIOUS
<1>3. CASE Answer(u, q)
  BY <1>1, <1>3, PendingRead DEF Answer
<1>4. CASE Found(at, u, v) = {} /\ Proceed(u, q, NextCheck(at))
  <2> PICK r : r = [req[t] EXCEPT !.at = NextCheck(at)]
    OBVIOUS
  <2>1. req' = [req EXCEPT ![t] = r]
    BY <1>4 DEF Proceed
  <2>2. r.at = NextCheck(at) /\ r.other = v
    BY <1>2 DEF Request
  <2>3. CASE at = "is_friend"
    <3>1. r.at = "is_already_sent"
      BY <2>2, <2>3 DEF NextCheck
    <3> QED
      BY <3>1, <2>1, <1>1, PendingRead
  <2>4. CASE at = "is_already_sent"
    <3>1. Pending(u, v) = {}
      BY <1>4, <2>4 DEF Found, Pending
    <3> QED
      BY <3>1, <1>1, <1>2, <2>1, <2>2, PendingRead
  <2>5. CASE at \in {"is_already_received", "duplicate_sent", "duplicate_received"}
    <3>1. Pending(u, v) = {}
      BY <1>2, <2>5 DEF PendingOK, NotSent
    <3> QED
      BY <3>1, <1>1, <1>2, <2>1, <2>2, PendingRead
  <2> QED
    BY <2>3, <2>4, <2>5, <1>1 DEF CheckNames
<1> QED
  BY <1>1, <1>3, <1>4

LEMMA PendingKept ==
    ASSUME OneRequestEach, PairsInv, PendingOK, [Next]_vars
    PROVE  PendingOK'
<1>0. TypeOK
  BY DEF PairsInv
<1>1. ASSUME NEW t \in Threads, NEW op \in Operations, NEW v \in Users, Begin(t[1], t[2], op, v)
      PROVE  PendingOK'
  <2> PICK u, q : t = <<u, q>> /\ u = t[1] /\ q = t[2]
    BY ThreadFacts
  <2> PICK r : r = [at |-> FirstStep(op), op |-> op, other |-> v, id |-> 0]
    OBVIOUS
  <2>1. req' = [req EXCEPT ![t] = r] /\ UNCHANGED friends
    BY <1>1 DEF Begin
  <2>2. r.at = "is_friend" \/ r.at = "get"
    BY DEF FirstStep
  <2> QED
    BY <1>0, <2>1, <2>2, PendingRead
<1>2. ASSUME NEW t \in Threads, Handle(t[1], t[2])
      PROVE  PendingOK'
  <2> PICK u, q, r : t = <<u, q>> /\ u = t[1] /\ q = t[2] /\ r = req[t]
    BY ThreadFacts
  <2>1. CASE Check(u, q)
    BY <1>0, <2>1, PendingCheck
  <2>2. CASE Insert(u, q)
    BY <1>0, <2>2, PendingInsert
  <2>3. CASE Get(u, q)
    <3>1. UNCHANGED friends /\ req[t] # Idle
      BY <2>3, ReqFacts DEF Get
    <3>2. r \in Request
      BY <1>0, <3>1 DEF TypeOK
    <3>3. CASE Answer(u, q)
      BY <1>0, <3>1, <3>3, PendingRead DEF Answer
    <3>4. ASSUME NEW i, req' = [req EXCEPT ![t].at = "write", ![t].id = i]
          PROVE  PendingOK'
      <4> PICK n : n = [r EXCEPT !.at = "write", !.id = i]
        OBVIOUS
      <4>1. req' = [req EXCEPT ![t] = n]
        BY <1>0, <3>4 DEF TypeOK
      <4>2. n.at = "write"
        BY <3>2 DEF Request
      <4> QED
        BY <1>0, <3>1, <4>1, <4>2, PendingRead
    <3> QED
      BY <2>3, <3>3, <3>4 DEF Get
  <2>4. CASE FindFriend(u, q)
    <3>1. UNCHANGED friends /\ req[t] # Idle
      BY <2>4, ReqFacts DEF FindFriend
    <3>2. r \in Request
      BY <1>0, <3>1 DEF TypeOK
    <3>3. CASE Answer(u, q)
      BY <1>0, <3>1, <3>3, PendingRead DEF Answer
    <3>4. CASE Proceed(u, q, "write")
      <4> PICK n : n = [r EXCEPT !.at = "write"]
        OBVIOUS
      <4>1. req' = [req EXCEPT ![t] = n]
        BY <3>4 DEF Proceed
      <4>2. n.at = "write"
        BY <3>2 DEF Request
      <4> QED
        BY <1>0, <3>1, <4>1, <4>2, PendingRead
    <3> QED
      BY <2>4, <3>3, <3>4 DEF FindFriend
  <2>5. CASE DeleteRequest(u, q)
    <3>1. \A i \in Ids : friends'[i] = friends[i] \/ friends'[i] = NoRow
      BY <1>0, <2>5 DEF DeleteRequest, TypeOK
    <3> QED
      BY <1>0, <2>5, <3>1, PendingWrite DEF DeleteRequest, Answer
  <2>6. CASE Accept(u, q)
    <3> PICK new : new = [sender |-> req[t].other, receiver |-> u, status |-> "accepted"]
      OBVIOUS
    <3>1. friends' = [friends EXCEPT ![req[t].id] = new] /\ req' = [req EXCEPT ![t] = Idle]
      BY <2>6 DEF Accept, Answer
    <3>2. \A i \in Ids : friends'[i] = friends[i] \/ friends'[i] = new
      BY <1>0, <3>1 DEF TypeOK
    <3>3. new.status = "accepted"
      OBVIOUS
    <3> QED
      BY <1>0, <3>1, <3>2, <3>3, PendingWrite
  <2>7. CASE DeleteFriend(u, q)
    <3>1. \A i \in Ids : friends'[i] = friends[i] \/ friends'[i] = NoRow
      BY <2>7 DEF DeleteFriend
    <3> QED
      BY <1>0, <2>7, <3>1, PendingWrite DEF DeleteFriend, Answer
  <2> QED
    BY <1>2, <2>1, <2>2, <2>3, <2>4, <2>5, <2>6, <2>7 DEF Handle
<1>3. CASE UNCHANGED vars
  <2>1. UNCHANGED <<friends, req>>
    BY <1>3 DEF vars
  <2>2. \A x, y : Pending(x, y)' = Pending(x, y)
    BY <2>1 DEF Pending, Filter, Stored
  <2> QED
    BY <2>1, <2>2 DEF PendingOK, NotSent
<1> QED
  BY <1>1, <1>2, <1>3 DEF Next

LEMMA AtMostOnePending == PendingOK => Answerable
<1> SUFFICES ASSUME PendingOK, NEW u \in Users, NEW v \in Users
             PROVE  Cardinality(Pending(u, v)) <= 1
  BY DEF Answerable, Pending
<1>1. CASE Pending(u, v) = {}
  BY <1>1, FS_EmptySet
<1>2. CASE Pending(u, v) # {}
  <2>1. PICK i : i \in Pending(u, v)
    BY <1>2
  <2>2. Pending(u, v) = {i}
    BY <2>1 DEF PendingOK
  <2> QED
    BY <2>2, FS_Singleton
<1> QED
  BY <1>1, <1>2

\* A pending request can be cancelled, accepted and rejected, as get finds one row only
\* (friend.py, CancelFriendRequestAPI, AcceptFriendRequestAPI, RejectFriendRequestAPI), if each
\* user waits for the answer to a request before making another, whatever the others do.
THEOREM AnswerableAlways == OneRequestEach => (Spec => []Answerable)
<1> SUFFICES ASSUME OneRequestEach
             PROVE  Spec => []Answerable
  OBVIOUS
<1>1. Init => PendingOK
  BY DEF Init, PendingOK, Pending, Filter, Stored
<1>2. PairsInv /\ PendingOK /\ [Next]_vars => PendingOK'
  BY PendingKept
<1>3. Spec => []PendingOK
  BY <1>1, <1>2, PairsInductive, PTL DEF Spec
<1> QED
  BY <1>3, AtMostOnePending, PTL
=============================================================================
