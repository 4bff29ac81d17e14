---------------------------- MODULE OnlineStatus ----------------------------
(***************************************************************************)
(* Whether a user is online: the row of UserStatus, the sockets of the     *)
(* user's tabs and their consumers (accounts/online_consumers.py,          *)
(* online-status.js, setOnlineStatus.js, logout.js), and what the list of  *)
(* a friend shows.                                                         *)
(*                                                                         *)
(* The consumer of each socket writes the one row: true when it connects,  *)
(* false when it disconnects.  Friends are told by messages of the page,   *)
(* relayed by its consumer.  A tab keeps its socket in one variable, on    *)
(* which the late events of other sockets act as well.  A request and a    *)
(* handshake carry the cookies of the moment they are sent.  A tab has one *)
(* setOnlineStatus under way at a time.  The server keeps running; the     *)
(* friend stays connected.                                                 *)
(***************************************************************************)
EXTENDS Naturals, Sequences

CONSTANTS
    Tabs,
    MaxSockets      \* bound: sockets ever created

ASSUME OnlineStatusAssumption == MaxSockets \in Nat

Ids == 1..MaxSockets
None == 0

VARIABLES
    loggedIn,   \* the cookies of the browser
    tabs,       \* what each tab does
    onlineStatusSocket, \* of each tab: an id or None
    sockets,    \* the sockets created so far, each with its consumer
    created,    \* how many
    is_online,  \* the row of UserStatus
    news,       \* broadcasts on their way to the friend
    list,       \* the friend's list
    \* history variables of the properties:
    overlapped, \* a socket was created while a consumer of another one had not finished
    silent,     \* a connection ended without the page's message
    raced       \* the list was loaded while the status was changing

browser == <<loggedIn, tabs, onlineStatusSocket>>
friend == <<news, list, raced>>
vars == <<browser, sockets, created, is_online, friend, overlapped, silent>>

\* asks: the answer setOnlineStatus of a page waits for, "login" (of a user who was logged in)
\* or "profile", or "no"; leaves: the logout was answered, and its alert is on the screen or
\* about to be.
NewTab == [asks |-> "no", leaves |-> FALSE]

\* client: its readyState, or "failing" when it was closed while connecting or the network
\* dropped it; inbox: what the consumer has not received; consumer: "new", "accepted", "in"
\* when it has set the user online and "gone" when offline; user: the handshake carried the
\* cookies of the user, or it is of nobody.
NoSocket == [client |-> "none", consumer |-> "none"]
NewSocket(t) ==
    [tab |-> t, client |-> "connecting", inbox |-> <<>>, consumer |-> "new", user |-> loggedIn]

Init ==
    /\ loggedIn = FALSE
    /\ tabs = [t \in Tabs |-> NewTab]
    /\ onlineStatusSocket = [t \in Tabs |-> None]
    /\ sockets = [i \in Ids |-> NoSocket]
    /\ created = 0
    /\ is_online = FALSE
    /\ news = <<>>
    /\ list = [at |-> "away", status |-> FALSE]
    /\ overlapped = FALSE /\ silent = FALSE /\ raced = FALSE

Present(i) == sockets[i] # NoSocket /\ sockets[i].consumer # "gone"

-----------------------------------------------------------------------------
(* The page *)

\* Broken: closes first, and then there is no open socket to send on.
HangUp(i) ==
    IF sockets[i].client = "open" THEN [sockets EXCEPT ![i].client = "closing"]
    ELSE IF sockets[i].client = "connecting" THEN [sockets EXCEPT ![i].client = "failing"]
    ELSE sockets

\* Broken: a socket that is still connecting is left alone.
SayGoodbyeIfOpen(i) ==
    IF sockets[i].client = "open"
    THEN [sockets EXCEPT ![i].inbox = Append(@, FALSE), ![i].client = "closing"]
    ELSE sockets

\* sendStatusUpdate and close: a socket that is connecting fails, and its message waits for
\* ever for it to open.
SayGoodbye(i) ==
    IF sockets[i].client = "open"
    THEN [sockets EXCEPT ![i].inbox = Append(@, FALSE), ![i].client = "closing"]
    ELSE IF sockets[i].client = "connecting" THEN [sockets EXCEPT ![i].client = "failing"]
    ELSE sockets

\* disconnectOnlineStatusWebSocket
Disconnected(t) ==
    IF onlineStatusSocket[t] = None THEN sockets ELSE SayGoodbye(onlineStatusSocket[t])

\* A page is rendered: setOnlineStatus asks who is logged in, which for a guest is the end.
SetOnlineStatus(t) ==
    /\ tabs[t].asks = "no" /\ ~tabs[t].leaves
    /\ loggedIn
    /\ tabs' = [tabs EXCEPT ![t].asks = "login"]
    /\ UNCHANGED <<loggedIn, onlineStatusSocket, sockets, created, is_online, friend, overlapped, silent>>

\* The answer, by which the user may have logged out: a guest has no profile.
IsUserLoggedIn(t) ==
    /\ tabs[t].asks = "login"
    /\ tabs' = [tabs EXCEPT ![t].asks = IF loggedIn THEN "profile" ELSE "no"]
    /\ UNCHANGED <<loggedIn, onlineStatusSocket, sockets, created, is_online, friend, overlapped, silent>>

\* connectOnlineStatusWebSocket: a socket that is open stays, one that is connecting is
\* forgotten.
Connect(t) ==
    /\ created < MaxSockets
    /\ created' = created + 1
    /\ sockets' = [sockets EXCEPT ![created + 1] = NewSocket(t)]
    /\ onlineStatusSocket' = [onlineStatusSocket EXCEPT ![t] = created + 1]
    /\ overlapped' = (overlapped \/ \E i \in Ids : Present(i))

IsOpen(i) == i # None /\ sockets[i].client = "open"

\* The profile is there; the user may have logged out since it was asked for.
FetchUserId(t) ==
    /\ tabs[t].asks = "profile"
    /\ tabs' = [tabs EXCEPT ![t].asks = "no"]
    /\ IF ~IsOpen(onlineStatusSocket[t]) THEN Connect(t)
       ELSE UNCHANGED <<onlineStatusSocket, sockets, created, overlapped>>
    /\ UNCHANGED <<loggedIn, is_online, friend, silent>>

Login ==
    /\ ~loggedIn /\ loggedIn' = TRUE
    /\ UNCHANGED <<tabs, onlineStatusSocket, sockets, created, is_online, friend, overlapped, silent>>

\* handleLogout up to its alert: the answer has deleted the cookies.
Logout(t) ==
    /\ loggedIn /\ loggedIn' = FALSE
    /\ ~tabs[t].leaves
    /\ tabs' = [tabs EXCEPT ![t].leaves = TRUE]
    /\ UNCHANGED <<onlineStatusSocket, sockets, created, is_online, friend, overlapped, silent>>

\* The alert is confirmed.
LogoutConfirmed(t) ==
    /\ tabs[t].leaves
    /\ tabs' = [tabs EXCEPT ![t].leaves = FALSE]
    /\ sockets' = Disconnected(t)
    /\ onlineStatusSocket' = [onlineStatusSocket EXCEPT ![t] = None]
    /\ UNCHANGED <<loggedIn, created, is_online, friend, overlapped, silent>>

-----------------------------------------------------------------------------
(* The socket *)

\* handleOpen is given the variable and not the socket: what is sent is sent on the socket
\* the tab holds by now, if there is one; if that is connecting, when it opens, as it does
\* anyway.
OnOpen(i) ==
    /\ sockets[i].client = "connecting" /\ sockets[i].consumer # "new"
    /\ LET open == [sockets EXCEPT ![i].client = "open"]
           held == onlineStatusSocket[sockets[i].tab]
       IN sockets' = IF held # None /\ open[held].client = "open"
                     THEN [open EXCEPT ![held].inbox = Append(@, TRUE)] ELSE open
    /\ UNCHANGED <<browser, created, is_online, friend, overlapped, silent>>

\* The socket is closed, and onclose disconnects the socket the tab holds by now.
OnClose(i) ==
    /\ sockets[i].client \in {"closing", "failing"}
    /\ LET t == sockets[i].tab
       IN /\ sockets' = [Disconnected(t) EXCEPT ![i].client = "closed"]
          /\ onlineStatusSocket' = [onlineStatusSocket EXCEPT ![t] = None]
    /\ UNCHANGED <<loggedIn, tabs, created, is_online, friend, overlapped, silent>>

\* The network drops it, which the page hears as a close; or its tab is closed.
Drop(i) ==
    /\ sockets[i].client \in {"connecting", "open"}
    /\ sockets' = [sockets EXCEPT ![i].client = "failing", ![i].inbox = <<>>]
    /\ silent' = TRUE
    /\ UNCHANGED <<browser, created, is_online, friend, overlapped>>

-----------------------------------------------------------------------------
(* The consumer: one handler after the other *)

\* update_user_status, in the one thread that all consumers share.  Without a user it fails.
Update(i, status) == is_online' = IF sockets[i].user THEN status ELSE is_online

\* group_add and accept; the client may have given up meanwhile.
Accept(i) ==
    /\ sockets[i].consumer = "new"
    /\ sockets' = [sockets EXCEPT ![i].consumer = "accepted"]
    /\ UNCHANGED <<browser, created, is_online, friend, overlapped, silent>>

\* The rest of connect.
SetOnline(i) ==
    /\ sockets[i].consumer = "accepted"
    /\ Update(i, TRUE)
    /\ sockets' = [sockets EXCEPT ![i].consumer = "in"]
    /\ UNCHANGED <<browser, created, friend, overlapped, silent>>

\* receive and broadcast_status.
Receive(i) ==
    /\ sockets[i].consumer = "in" /\ sockets[i].inbox # <<>>
    /\ news' = Append(news, Head(sockets[i].inbox))
    /\ sockets' = [sockets EXCEPT ![i].inbox = Tail(@)]
    /\ UNCHANGED <<browser, created, is_online, list, raced, overlapped, silent>>

\* Broken: while connect still waits for the database.
DisconnectAtOnce(i) ==
    /\ sockets[i].client \in {"closing", "failing", "closed"}
    /\ sockets[i].consumer \in {"new", "accepted", "in"}
    /\ IF sockets[i].consumer = "accepted" THEN is_online' = sockets[i].user
       ELSE IF sockets[i].consumer = "in" THEN Update(i, FALSE) ELSE UNCHANGED is_online
    /\ sockets' = [sockets EXCEPT ![i].consumer = "gone", ![i].inbox = <<>>]
    /\ UNCHANGED <<browser, created, friend, overlapped, silent>>

\* disconnect, when everything sent before is received.
Disconnect(i) ==
    /\ sockets[i].client \in {"closing", "failing", "closed"}
    /\ \/ sockets[i].consumer = "in" /\ sockets[i].inbox = <<>> /\ Update(i, FALSE)
       \/ sockets[i].consumer = "new" /\ UNCHANGED is_online
    /\ sockets' = [sockets EXCEPT ![i].consumer = "gone"]
    /\ UNCHANGED <<browser, created, friend, overlapped, silent>>

-----------------------------------------------------------------------------
(* The list of a friend *)

Settled(i) ==
    \/ sockets[i] = NoSocket
    \/ sockets[i].client = "closed" /\ sockets[i].consumer = "gone"
    \/ sockets[i].client = "open" /\ sockets[i].consumer = "in" /\ sockets[i].inbox = <<>>

AtRest == news = <<>> /\ \A i \in Ids : Settled(i)

\* GetFriendListAPI.
AskList ==
    /\ list.at # "asked"
    /\ list' = [at |-> "asked", status |-> is_online]
    /\ raced' = ~AtRest
    /\ UNCHANGED <<browser, sockets, created, is_online, news, overlapped, silent>>

\* createFriendsList
DrawList ==
    /\ list.at = "asked"
    /\ list' = [list EXCEPT !.at = "shown"]
    /\ raced' = (raced \/ ~AtRest \/ list.status # is_online)
    /\ UNCHANGED <<browser, sockets, created, is_online, news, overlapped, silent>>

\* updateFriendStatus: there may be no list to update.
UpdateFriendStatus ==
    /\ news # <<>>
    /\ news' = Tail(news)
    /\ list' = IF list.at = "shown" THEN [list EXCEPT !.status = Head(news)] ELSE list
    /\ UNCHANGED <<browser, sockets, created, is_online, raced, overlapped, silent>>

-----------------------------------------------------------------------------

Page(t) == IsUserLoggedIn(t) \/ FetchUserId(t) \/ LogoutConfirmed(t)
Server(i) == Accept(i) \/ SetOnline(i) \/ Receive(i) \/ Disconnect(i)

Next ==
    \/ Login
    \/ \E t \in Tabs : SetOnlineStatus(t) \/ Logout(t) \/ Page(t)
    \/ \E i \in Ids : OnOpen(i) \/ OnClose(i) \/ Drop(i) \/ Server(i)
    \/ AskList \/ DrawList \/ UpdateFriendStatus

\* Answers arrive, the alert is confirmed, sockets open and close, and daphne serves them.
Spec ==
    /\ Init
    /\ [][Next]_vars
    /\ \A t \in Tabs : WF_vars(LogoutConfirmed(t))
    /\ \A i \in Ids : WF_vars(OnOpen(i)) /\ WF_vars(OnClose(i)) /\ WF_vars(Server(i))

-----------------------------------------------------------------------------

In(i) == sockets[i] # NoSocket /\ sockets[i].consumer = "in" /\ sockets[i].user

\* A user is never left online without a connection, whatever sockets overlap, fail or close
\* while they open: the last to write is one that disconnects.  And a user with a connection
\* is online unless two connections overlapped, where the first to end sets the user offline.
StatusIsRight ==
    /\ is_online => \E i \in Ids : In(i)
    /\ (\E i \in Ids : In(i)) => is_online \/ overlapped

\* A socket that was made after a logout is of nobody: its page says "online" of the user, and
\* its consumer cannot store it.
Anonymous(i) == Present(i) /\ ~sockets[i].user

\* When nothing is under way a friend sees the status, although it is told by messages of the
\* page and stored by the consumer: unless a connection dropped, two overlapped, the list was
\* loaded in the middle of a change, or a socket of nobody is open.  When that one ends, its
\* page says so, and the friend sees the status again.
FriendSeesStatus ==
    AtRest /\ list.at = "shown" =>
        \/ list.status = is_online
        \/ overlapped \/ silent \/ raced
        \/ \E i \in Ids : Anonymous(i)

\* Who logs out goes offline, also when the socket was still connecting, unless another
\* socket of the user was there.
LogoutEndsOnline == ~loggedIn ~> ~is_online \/ loggedIn \/ overlapped
=============================================================================
