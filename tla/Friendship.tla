----------------------------- MODULE Friendship -----------------------------
(***************************************************************************)
(* Friend requests and friends: the table of models.Friend and the five    *)
(* endpoints that change it (accounts/views/friend.py), which friend.js    *)
(* and the page of a user call.  Every statement of an endpoint commits on *)
(* its own: two endpoints interleave between the checks, the read of a row *)
(* and the write based on them.                                            *)
(*                                                                         *)
(* Requests[u] are the requests user u can have in progress at a time: one *)
(* for a user who waits for the answer, several for one who clicks twice.  *)
(***************************************************************************)
EXTENDS Naturals, Sequences, FiniteSets

CONSTANTS
    Users,
    Requests,   \* of each user
    MaxRows     \* bound: how many rows are ever created

ASSUME FriendshipAssumption == MaxRows \in Nat

Ids == 1..MaxRows
Status == {"pending", "accepted"}
Row == [sender: Users, receiver: Users, status: Status]
NoRow == [sender |-> "none"]

VARIABLES
    friends,    \* the table: the row of each id, or NoRow
    created,    \* how many ids are used
    req,        \* the requests in progress
    raced       \* the pairs with two requests in progress at once, now or before: a history
                \* variable of the properties

vars == <<friends, created, req, raced>>

Threads == UNION {{u} \X Requests[u] : u \in Users}

Operations == {"send", "cancel", "accept", "reject", "delete"}

\* The queries SendFriendRequestAPI and Friend.save make before the row is inserted.
Checks == <<"is_friend", "is_already_sent", "is_already_received",
            "duplicate_sent", "duplicate_received">>

\* at: the statement to be made next, a check of a "send" among them; op: the endpoint; other: the user
\* the request is about; id: the row that was read.
Steps == {"idle", "get", "write", "insert"} \union {Checks[k] : k \in DOMAIN Checks}
Idle == [at |-> "idle"]
Request == [at: Steps \ {"idle"}, op: Operations, other: Users, id: 0..MaxRows]

Init ==
    /\ friends = [i \in Ids |-> NoRow]
    /\ created = 0
    /\ req = [t \in Threads |-> Idle]
    /\ raced = {}

-----------------------------------------------------------------------------
(* The table *)

Stored == {i \in Ids : friends[i] # NoRow}

\* Friend.objects.filter(sender=s, receiver=r, status=...)
Filter(s, r, statuses) ==
    {i \in Stored : /\ friends[i].sender = s /\ friends[i].receiver = r
                    /\ friends[i].status \in statuses}

Friends(u, v) == Filter(u, v, {"accepted"}) \union Filter(v, u, {"accepted"})

\* Broken: looks in the direction of the request only.
FoundOneWay(check, s, r) == Filter(s, r, IF check = "is_friend" THEN {"accepted"} ELSE Status)

\* What a check of a request from s to r looks for.
Found(check, s, r) ==
    CASE check = "is_friend" -> Friends(s, r)
      [] check = "is_already_sent" -> Filter(s, r, {"pending"})
      [] check = "is_already_received" -> Filter(r, s, {"pending"})
      [] check = "duplicate_sent" -> Filter(s, r, Status)
      [] check = "duplicate_received" -> Filter(r, s, Status)

\* The pending row an endpoint reads: cancel the one that was sent, accept and reject the
\* one that was received.
Asked(op, u, v) == IF op = "cancel" THEN Filter(u, v, {"pending"}) ELSE Filter(v, u, {"pending"})

-----------------------------------------------------------------------------
(* The requests *)

FirstStep(op) == IF op = "send" THEN "is_friend" ELSE "get"

\* A request of one of the two about the other is in progress.
Busy(u, v) ==
    \E t \in Threads : req[t] # Idle /\ {t[1], req[t].other} = {u, v}

\* A click on a button; _get_user_and_friend refuses one about the user itself.
Begin(u, q, op, v) ==
    /\ req[<<u, q>>] = Idle
    /\ u # v
    /\ op = "send" => created < MaxRows
    /\ req' = [req EXCEPT ![<<u, q>>] = [at |-> FirstStep(op), op |-> op, other |-> v, id |-> 0]]
    /\ raced' = IF Busy(u, v) THEN raced \union {{u, v}} ELSE raced
    /\ UNCHANGED <<friends, created>>

Answer(u, q) == req' = [req EXCEPT ![<<u, q>>] = Idle]

Proceed(u, q, step) == req' = [req EXCEPT ![<<u, q>>].at = step]

\* One exists() before the insertion; the first that finds a row ends the request.
Check(u, q) ==
    \E k \in DOMAIN Checks :
        /\ req[<<u, q>>].at = Checks[k]
        /\ IF Found(Checks[k], u, req[<<u, q>>].other) # {}
           THEN Answer(u, q)
           ELSE Proceed(u, q, IF k = Len(Checks) THEN "insert" ELSE Checks[k + 1])
        /\ UNCHANGED <<friends, created>>

Insert(u, q) ==
    /\ req[<<u, q>>].at = "insert"
    /\ created < MaxRows
    /\ created' = created + 1
    /\ friends' = [friends EXCEPT ![created + 1] =
                       [sender |-> u, receiver |-> req[<<u, q>>].other, status |-> "pending"]]
    /\ Answer(u, q)

\* objects.get: anything but one row raises, which is answered with an error.
Get(u, q) ==
    /\ req[<<u, q>>].at = "get"
    /\ req[<<u, q>>].op \in {"cancel", "accept", "reject"}
    /\ LET found == Asked(req[<<u, q>>].op, u, req[<<u, q>>].other)
       IN IF Cardinality(found) = 1
          THEN \E i \in found :
                   req' = [req EXCEPT ![<<u, q>>].at = "write", ![<<u, q>>].id = i]
          ELSE Answer(u, q)
    /\ UNCHANGED <<friends, created>>

Writes(u, q, op) == req[<<u, q>>].at = "write" /\ req[<<u, q>>].op = op

\* Broken: the row is kept, with a status the model does not have.
DeclineRequest(u, q) ==
    /\ Writes(u, q, "cancel") \/ Writes(u, q, "reject")
    /\ friends' = [friends EXCEPT ![req[<<u, q>>].id] =
                       IF @ = NoRow THEN @ ELSE [@ EXCEPT !.status = "declined"]]
    /\ Answer(u, q)
    /\ UNCHANGED created

\* DELETE by the id that was read, whatever became of the row.
DeleteRequest(u, q) ==
    /\ Writes(u, q, "cancel") \/ Writes(u, q, "reject")
    /\ friends' = [friends EXCEPT ![req[<<u, q>>].id] = NoRow]
    /\ Answer(u, q)
    /\ UNCHANGED created

\* Broken: saves before it sets the status.
AcceptTooSoon(u, q) ==
    /\ Writes(u, q, "accept")
    /\ friends' = [friends EXCEPT ![req[<<u, q>>].id] =
                       [sender |-> req[<<u, q>>].other, receiver |-> u, status |-> "pending"]]
    /\ Answer(u, q)
    /\ UNCHANGED created

\* save writes the whole row that was read, and inserts it again if it is gone: _state.adding
\* is false, so nothing is checked.
Accept(u, q) ==
    /\ Writes(u, q, "accept")
    /\ friends' = [friends EXCEPT ![req[<<u, q>>].id] =
                       [sender |-> req[<<u, q>>].other, receiver |-> u, status |-> "accepted"]]
    /\ Answer(u, q)
    /\ UNCHANGED created

\* DeleteFriendAPI: exists, and then one DELETE with the same filter.
FindFriend(u, q) ==
    /\ req[<<u, q>>].at = "get" /\ req[<<u, q>>].op = "delete"
    /\ IF Friends(u, req[<<u, q>>].other) = {} THEN Answer(u, q) ELSE Proceed(u, q, "write")
    /\ UNCHANGED <<friends, created>>

DeleteFriend(u, q) ==
    /\ Writes(u, q, "delete")
    /\ friends' = [i \in Ids |-> IF i \in Friends(u, req[<<u, q>>].other) THEN NoRow ELSE friends[i]]
    /\ Answer(u, q)
    /\ UNCHANGED created

Handle(u, q) ==
    /\ \/ Check(u, q) \/ Insert(u, q)
       \/ Get(u, q) \/ DeleteRequest(u, q) \/ Accept(u, q)
       \/ FindFriend(u, q) \/ DeleteFriend(u, q)
    /\ UNCHANGED raced

Next ==
    \E t \in Threads :
        \/ \E op \in Operations, v \in Users : Begin(t[1], t[2], op, v)
        \/ Handle(t[1], t[2])

Spec == Init /\ [][Next]_vars

-----------------------------------------------------------------------------

TypeOK ==
    /\ friends \in [Ids -> Row \union {NoRow}]
    /\ created \in 0..MaxRows
    /\ req \in [Threads -> Request \union {Idle}]
    /\ raced \subseteq SUBSET Users

\* A pending request can be cancelled, accepted and rejected: no second row makes get raise
\* for all three and Send refuse a new one, for ever.  Users who wait for the answer to a
\* request before they make another one are enough for it, whatever the others do meanwhile.
Answerable == \A u, v \in Users : Cardinality(Filter(u, v, {"pending"})) <= 1

Between(p) == {i \in Stored : {friends[i].sender, friends[i].receiver} = p}

RelationOf(p) ==
    LET rows == {friends[i] : i \in Between(p)}
    IN CASE p \in raced -> [is |-> "raced"]
         [] p \notin raced /\ rows = {} -> [is |-> "strangers"]
         [] p \notin raced /\ Cardinality(Between(p)) = 1 ->
              LET row == CHOOSE row \in rows : TRUE
              IN IF row.status = "accepted" THEN [is |-> "friends"]
                 ELSE [is |-> "asked", by |-> row.sender]
         [] OTHER -> [is |-> "several rows"]

Pairs == {{u, v} : u, v \in Users}
Rel == [p \in Pairs |-> RelationOf(p)]

R == INSTANCE Relations WITH relation <- Rel

\* Two users are strangers, one has asked, or they are friends, and each request takes them
\* from one to the next, as long as no two requests about the two of them overlap; those
\* about others may.
KeepsRelations == R!Spec
=============================================================================
