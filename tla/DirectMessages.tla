--------------------------- MODULE DirectMessages ---------------------------
(***************************************************************************)
(* Direct messages: the sessions of pairs of users, the messages, the      *)
(* consumer behind the socket of each open page (chat/models.py,           *)
(* consumers.py, dm_consumers.py), the page itself as its log, and the     *)
(* messages the server sends as the system user.                           *)
(*                                                                         *)
(* Sockets are served by one daphne process, whose consumers interleave at *)
(* every await but share one thread for the database; HTTP requests, and   *)
(* with them the system messages, run in the threads of other processes.   *)
(* A socket delivers in order.  No connection fails here (see DMPage).     *)
(***************************************************************************)
EXTENDS Naturals, Sequences, FiniteSets, FiniteSetsExt

CONSTANTS
    People,
    System,         \* the system user
    Pages,          \* places for a page: <<user, other, tab>>
    Notices,        \* system messages, each sent once
    ReceiverOf,     \* of each notice
    MaxMessages,    \* bound: messages sent from each page
    MaxVisits       \* bound: how often each page is opened

ASSUME MessagesAssumption ==
    /\ System \notin People
    /\ \A p \in Pages : /\ p = <<p[1], p[2], p[3]>>
                        /\ p[1] \in People /\ p[2] \in (People \union {System}) \ {p[1]}
    /\ ReceiverOf \in [Notices -> People]
    /\ MaxMessages \in [Pages -> Nat] /\ MaxVisits \in [Pages -> Nat]

Other(p) == p[2]
Pair(p) == {p[1], p[2]}

VARIABLES
    sessions,   \* DMSession: the members of each, in the order of their ids
    log,        \* Message, by timestamp
    page,       \* each page and its consumer
    notice,     \* how far each system message has come
    thread,     \* who uses daphne's database thread in the middle of a call
    visits      \* how often each page was opened, for the bound alone

vars == <<sessions, log, page, notice, thread, visits>>

\* A message is the n-th of its page, or a notice.
PageMessages == UNION {{p} \X (1..MaxMessages[p]) : p \in Pages}
Nobody == <<>>

\* at: the page is "away", or its log is "loaded", or its consumer does "look" for the session,
\* "create" it, "add" its members, "join" the room; then it is "open", and "closing" until the
\* consumer has disconnected.  loaded: how much of log the html showed; live: what arrived
\* since; sent: how many messages were sent; inbox: those the consumer has not received;
\* handling: the one it has stored and not yet sent to the room; outbox: events for it.
NewPage == [at |-> "away", room |-> 0, loaded |-> 0, live |-> <<>>,
            sent |-> 0, inbox |-> <<>>, handling |-> <<>>, outbox |-> <<>>]

Init ==
    /\ sessions = <<>>
    /\ log = <<>>
    /\ page = [p \in Pages |-> NewPage]
    /\ notice = [n \in Notices |-> [at |-> "none", room |-> 0]]
    /\ thread = Nobody
    /\ visits = [p \in Pages |-> 0]

-----------------------------------------------------------------------------
(* DMSession.get_session *)

SessionsOf(pair) == {i \in DOMAIN sessions : pair \subseteq sessions[i]}

\* The first of the sessions both are members of, if there is one; else one is created,
\* without members at first.
Found(pair) == Min(SessionsOf(pair))

-----------------------------------------------------------------------------
(* The page and its consumer *)

\* DMView renders the stored messages.
Load(p) ==
    /\ page[p].at = "away"
    /\ visits[p] < MaxVisits[p]
    /\ visits' = [visits EXCEPT ![p] = @ + 1]
    /\ page' = [page EXCEPT ![p] = [NewPage EXCEPT !.at = "loaded", !.loaded = Len(log),
                                                   !.sent = page[p].sent]]
    /\ UNCHANGED <<sessions, log, notice, thread>>

\* Broken: the database calls of two consumers run side by side.
ConnectAtOnce(p) ==
    /\ page[p].at = "loaded"
    /\ page' = [page EXCEPT ![p].at = "look"]
    /\ UNCHANGED <<sessions, log, notice, thread, visits>>

\* setupDmWebsocket opens the socket; the consumer calls get_session in the database thread.
Connect(p) ==
    /\ page[p].at = "loaded"
    /\ thread = Nobody
    /\ thread' = p
    /\ page' = [page EXCEPT ![p].at = "look"]
    /\ UNCHANGED <<sessions, log, notice, visits>>

Look(p) ==
    /\ page[p].at = "look"
    /\ IF SessionsOf(Pair(p)) # {}
       THEN /\ page' = [page EXCEPT ![p].at = "join", ![p].room = Found(Pair(p))]
            /\ thread' = Nobody
       ELSE page' = [page EXCEPT ![p].at = "create"] /\ UNCHANGED thread
    /\ UNCHANGED <<sessions, log, notice, visits>>

Create(p) ==
    /\ page[p].at = "create"
    /\ sessions' = Append(sessions, {})
    /\ page' = [page EXCEPT ![p].at = "add", ![p].room = Len(sessions) + 1]
    /\ UNCHANGED <<log, notice, thread, visits>>

AddMembers(p) ==
    /\ page[p].at = "add"
    /\ sessions' = [sessions EXCEPT ![page[p].room] = Pair(p)]
    /\ page' = [page EXCEPT ![p].at = "join"]
    /\ thread' = Nobody
    /\ UNCHANGED <<log, notice, visits>>

\* group_add and accept.
Join(p) ==
    /\ page[p].at = "join"
    /\ page' = [page EXCEPT ![p].at = "open"]
    /\ UNCHANGED <<sessions, log, notice, thread, visits>>

InRoom(room) == {p \in Pages : page[p].room = room /\ page[p].at \in {"open", "closing"}}

\* Broken: the page shows what it sends, and again what comes back.
SendAndShow(p) ==
    /\ page[p].at = "open"
    /\ Other(p) # System
    /\ page[p].sent < MaxMessages[p]
    /\ page' = [page EXCEPT ![p].sent = @ + 1, ![p].inbox = Append(@, <<p, page[p].sent + 1>>),
                            ![p].live = Append(@, <<p, page[p].sent + 1>>)]
    /\ UNCHANGED <<sessions, log, notice, thread, visits>>

\* handleSendMessage; a page of the system user has no input.
Send(p) ==
    /\ page[p].at = "open"
    /\ Other(p) # System
    /\ page[p].sent < MaxMessages[p]
    /\ page' = [page EXCEPT ![p].sent = @ + 1, ![p].inbox = Append(@, <<p, page[p].sent + 1>>)]
    /\ UNCHANGED <<sessions, log, notice, thread, visits>>

\* receive stores the message; the consumer dispatches nothing else until it has returned.
Receive(p) ==
    /\ page[p].inbox # <<>> /\ page[p].handling = <<>>
    /\ thread = Nobody
    /\ log' = Append(log, Head(page[p].inbox))
    /\ page' = [page EXCEPT ![p].inbox = Tail(@), ![p].handling = <<Head(page[p].inbox)>>]
    /\ UNCHANGED <<sessions, notice, thread, visits>>

\* Broken: not to the page it comes from.
BroadcastToOthers(p) ==
    /\ page[p].handling # <<>>
    /\ page' = [r \in Pages |->
                   [page[r] EXCEPT !.outbox = IF r \in InRoom(page[p].room) \ {p}
                                              THEN @ \o page[p].handling ELSE @,
                                   !.handling = IF r = p THEN <<>> ELSE @]]
    /\ UNCHANGED <<sessions, log, notice, thread, visits>>

\* group_send, and the end of receive.
Broadcast(p) ==
    /\ page[p].handling # <<>>
    /\ page' = [r \in Pages |->
                   [page[r] EXCEPT !.outbox = IF r \in InRoom(page[p].room)
                                              THEN @ \o page[p].handling ELSE @,
                                   !.handling = IF r = p THEN <<>> ELSE @]]
    /\ UNCHANGED <<sessions, log, notice, thread, visits>>

\* send_data and handleReceiveMessage.
Show(p) ==
    /\ page[p].at = "open"
    /\ page[p].outbox # <<>> /\ page[p].handling = <<>>
    /\ page' = [page EXCEPT ![p].outbox = Tail(@), ![p].live = Append(@, Head(page[p].outbox))]
    /\ UNCHANGED <<sessions, log, notice, thread, visits>>

\* disposeDM closes the socket; the consumer still receives what was sent before.
Leave(p) ==
    /\ page[p].at = "open"
    /\ page' = [page EXCEPT ![p].at = "closing", ![p].live = <<>>, ![p].outbox = <<>>]
    /\ UNCHANGED <<sessions, log, notice, thread, visits>>

Disconnect(p) ==
    /\ page[p].at = "closing"
    /\ page[p].inbox = <<>> /\ page[p].handling = <<>>
    /\ page' = [page EXCEPT ![p] = [NewPage EXCEPT !.sent = page[p].sent]]
    /\ UNCHANGED <<sessions, log, notice, thread, visits>>

Consumer(p) ==
    \/ Connect(p) \/ Look(p) \/ Create(p) \/ AddMembers(p) \/ Join(p)
    \/ Receive(p) \/ Broadcast(p) \/ Show(p) \/ Disconnect(p)

-----------------------------------------------------------------------------
(* send_direct_system_message.  The message is stored, and its group_send reaches no          *)
(* consumer: the channel layer is in the memory of the process.                               *)

NoticeTo(n) == {System, ReceiverOf[n]}

NoticeLook(n) ==
    /\ notice[n].at = "none"
    /\ notice' = [notice EXCEPT ![n].at = IF SessionsOf(NoticeTo(n)) # {} THEN "store" ELSE "create"]
    /\ UNCHANGED <<sessions, log, page, thread, visits>>

NoticeCreate(n) ==
    /\ notice[n].at = "create"
    /\ sessions' = Append(sessions, {})
    /\ notice' = [notice EXCEPT ![n] = [at |-> "add", room |-> Len(sessions) + 1]]
    /\ UNCHANGED <<log, page, thread, visits>>

NoticeAddMembers(n) ==
    /\ notice[n].at = "add"
    /\ sessions' = [sessions EXCEPT ![notice[n].room] = NoticeTo(n)]
    /\ notice' = [notice EXCEPT ![n].at = "store"]
    /\ UNCHANGED <<log, page, thread, visits>>

NoticeStore(n) ==
    /\ notice[n].at = "store"
    /\ log' = Append(log, <<System, n>>)
    /\ notice' = [notice EXCEPT ![n].at = "stored"]
    /\ UNCHANGED <<sessions, page, thread, visits>>

Announce(n) == NoticeLook(n) \/ NoticeCreate(n) \/ NoticeAddMembers(n) \/ NoticeStore(n)

-----------------------------------------------------------------------------

Next ==
    \/ \E p \in Pages : Load(p) \/ Send(p) \/ Leave(p) \/ Consumer(p)
    \/ \E n \in Notices : Announce(n)

\* The event loop of daphne serves every consumer; users need not do anything.
Spec ==
    /\ Init
    /\ [][Next]_vars
    /\ \A p \in Pages : WF_vars(Consumer(p))

-----------------------------------------------------------------------------

\* Two people never have two sessions, each with one of their pages in its room: get_session
\* checks, creates and only then adds the members, but all the sessions of two people are
\* looked for in the one database thread of the consumers.
OneSession ==
    \A u, v \in People : u # v => Cardinality(SessionsOf({u, v})) <= 1

\* Of two messages of a page in seq with none of its messages between them, the second is
\* the next it sent.
Unbroken(seq) ==
    \A j, k \in DOMAIN seq :
        (/\ j < k /\ seq[j][1] = seq[k][1]
         /\ \A i \in (j + 1)..(k - 1) : seq[i][1] # seq[k][1]) => seq[k][2] = seq[j][2] + 1

\* A page shows the messages of another in the order they were sent and stored, without a
\* hole and without a repetition from the first one it received.
NoHoles == \A p \in Pages : Unbroken(page[p].live)

Shows(p, m) == \E k \in DOMAIN page[p].live : page[p].live[k] = m

OnItsWay(m) ==
    /\ page[m[1]].at = "open"
    /\ \E k \in DOMAIN page[m[1]].inbox : page[m[1]].inbox[k] = m

\* A message sent while the pages of both are open is shown on both, unless they are left:
\* whoever came first, they are in one room.
ShownEverywhere ==
    \A m \in PageMessages, p \in Pages :
        Pair(p) = Pair(m[1]) /\ OnItsWay(m) /\ page[p].at = "open"
            ~> Shows(p, m) \/ page[p].at # "open"
=============================================================================
