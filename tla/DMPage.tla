------------------------------- MODULE DMPage -------------------------------
(***************************************************************************)
(* The socket of the page of direct messages in one tab                    *)
(* (chat/static/chat/js/module/setup-dm-websocket.js, dm-with-user.js).    *)
(* One module variable, dmSocket, holds the socket of whatever page was    *)
(* set up last; a socket that is closed or given up answers later, with    *)
(* events whose handlers act on that variable and not on the socket.       *)
(*                                                                         *)
(* A page is rendered before the next one is asked for.  Connections open, *)
(* are refused, drop, and are closed by the server (chat/dm_consumers.py)  *)
(* at any time; every timer is a callback of its own.                      *)
(***************************************************************************)
EXTENDS Naturals, FiniteSets

CONSTANTS
    Targets,                \* users to write to
    MaxSockets,             \* bound: sockets ever created
    MaxPagesOpened          \* bound: pages opened by the user

MAX_RECONNECT_ATTEMPTS == 3

ASSUME PageAssumption == MaxSockets \in Nat /\ MaxPagesOpened \in Nat

Ids == 1..MaxSockets
None == 0
List == "list"      \* the page of DM sessions, and any other page without messages

VARIABLES
    shown,      \* the page on the screen: List or the user it writes to
    loading,    \* the page that is being rendered, or "no"
    sockets,    \* the sockets created so far
    created,    \* how many
    dmSocket,   \* the module's variable: an id or None
    reconnectAttempts,
    timers,     \* pending reconnections: how many for each target
    pagesOpened, \* pages opened, for the bound alone
    \* history variables of the properties:
    reconnects, \* sockets created by a timer
    failures,   \* connections that failed since one opened
    cut         \* an open connection was closed by the server, or by a reconnection after it

tabVars == <<shown, loading, sockets, created, dmSocket, reconnectAttempts, timers,
             pagesOpened, reconnects, failures, cut>>

\* A socket is of a target; its state is "connecting", "open", "closing", "failing" (close()
\* was called before it opened) or "closed"; opens is what onopen does: "handleOpen", or
\* "closeCurrent" for one that was given up.
NoSocket == [state |-> "none"]

TabInit ==
    /\ shown = List /\ loading = "no"
    /\ sockets = [i \in Ids |-> NoSocket]
    /\ created = 0
    /\ dmSocket = None
    /\ reconnectAttempts = 0
    /\ timers = [t \in Targets |-> 0]
    /\ pagesOpened = 0
    /\ reconnects = 0
    /\ failures = 0
    /\ cut = FALSE

-----------------------------------------------------------------------------
(* close() and closeDmSocket *)

\* socket.close(): an open socket closes cleanly, one that is connecting fails.
Close(all, i) ==
    CASE all[i].state = "open" -> [all EXCEPT ![i].state = "closing"]
      [] all[i].state = "connecting" -> [all EXCEPT ![i].state = "failing"]
      [] OTHER -> all

\* closeDmSocket, before dmSocket = null: a socket that is connecting is not closed but gets
\* another onopen.
GiveUp(all) ==
    IF dmSocket = None THEN all
    ELSE IF all[dmSocket].state = "connecting"
         THEN [all EXCEPT ![dmSocket].opens = "closeCurrent"]
         ELSE IF all[dmSocket].state = "open" THEN Close(all, dmSocket) ELSE all

CloseDmSocket(all) == sockets' = GiveUp(all) /\ dmSocket' = None

\* setupDmWebsocket: the socket of before is given up.
Setup(t) ==
    /\ created < MaxSockets
    /\ created' = created + 1
    /\ dmSocket' = created + 1
    /\ sockets' = [GiveUp(sockets) EXCEPT ![created + 1] =
                      [state |-> "connecting", target |-> t, opens |-> "handleOpen"]]

-----------------------------------------------------------------------------
(* The pages *)

\* renderView disposes of the current page and asks for the next one.
Navigate(page) ==
    /\ loading = "no"
    /\ loading' = page
    /\ IF shown \in Targets THEN CloseDmSocket(sockets) ELSE UNCHANGED <<sockets, dmSocket>>

Open(page) ==
    /\ pagesOpened < MaxPagesOpened
    /\ pagesOpened' = pagesOpened + 1
    /\ Navigate(page)
    /\ UNCHANGED <<shown, created, reconnectAttempts, timers, reconnects, failures, cut>>

\* The html is there; initDM sets up the socket of a page with messages.
Render ==
    /\ loading # "no"
    /\ shown' = loading /\ loading' = "no"
    /\ IF loading = List THEN UNCHANGED <<sockets, created, dmSocket>> ELSE Setup(loading)
    /\ UNCHANGED <<reconnectAttempts, timers, pagesOpened, reconnects, failures, cut>>

-----------------------------------------------------------------------------
(* The sockets *)

\* handleClose and handleError: the module's socket is given up, whichever socket the event is
\* from, and n times a reconnection is planned; on a page without messages that throws, after
\* the attempt was counted.
Lost(all, t, n) ==
    /\ CloseDmSocket(all)
    /\ reconnectAttempts' = reconnectAttempts + n
    /\ timers' = IF shown = List /\ n > 0 THEN timers ELSE [timers EXCEPT ![t] = @ + n]
    /\ UNCHANGED <<shown, loading, created, pagesOpened, reconnects>>

\* The server accepts: onopen.
Opens(i) ==
    /\ sockets[i].state = "connecting"
    /\ LET opened == [sockets EXCEPT ![i].state = "open"]
       IN sockets' = IF sockets[i].opens = "closeCurrent" /\ dmSocket # None
                     THEN Close(opened, dmSocket) ELSE opened
    /\ failures' = 0
    /\ UNCHANGED <<shown, loading, created, dmSocket, reconnectAttempts, timers, pagesOpened,
                   reconnects, cut>>

Closed(i) == [sockets EXCEPT ![i].state = "closed"]

\* Broken: a connection that dropped is not made again.
DropsForGood(i) ==
    /\ sockets[i].state \in {"open", "closing"}
    /\ Lost(Closed(i), sockets[i].target, 0)
    /\ UNCHANGED <<failures, cut>>

\* The network drops it: a close event that is not clean.
Drops(i) ==
    /\ sockets[i].state \in {"open", "closing"}
    /\ Lost(Closed(i), sockets[i].target, 1)
    /\ UNCHANGED <<failures, cut>>

\* The server closes it, since a message could not be read or stored: the closing handshake is
\* done, and the close event is clean.
ServerCloses(i) ==
    /\ sockets[i].state = "open"
    /\ Lost(Closed(i), sockets[i].target, 0)
    /\ cut' = TRUE
    /\ UNCHANGED failures

\* It could not be opened, or was closed while it was opening: error and close.
Fails(i) ==
    /\ sockets[i].state \in {"connecting", "failing"}
    /\ Lost(Closed(i), sockets[i].target, 2)
    /\ failures' = failures + 1
    /\ UNCHANGED cut

\* The closing handshake that the page began is over: a clean close event.
IsClosed(i) ==
    /\ sockets[i].state = "closing"
    /\ Lost(Closed(i), sockets[i].target, 0)
    /\ UNCHANGED <<failures, cut>>

-----------------------------------------------------------------------------
(* tryReconnection, five seconds later *)

\* A timer of t runs: setupDmWebsocket, whatever has become of the socket since it was set.
TryAgain(t) ==
    /\ timers[t] > 0
    /\ timers' = [timers EXCEPT ![t] = @ - 1]
    /\ Setup(t)
    /\ reconnects' = reconnects + 1
    /\ cut' = (cut \/ (dmSocket # None /\ sockets[dmSocket].state = "open"))
    /\ UNCHANGED <<shown, loading, reconnectAttempts, pagesOpened, failures>>

\* Broken: one attempt too many.
ReconnectOnceMore(t) == reconnectAttempts <= MAX_RECONNECT_ATTEMPTS /\ TryAgain(t)

Reconnect(t) == reconnectAttempts < MAX_RECONNECT_ATTEMPTS /\ TryAgain(t)

ReturnToList(t) ==
    /\ timers[t] > 0
    /\ reconnectAttempts >= MAX_RECONNECT_ATTEMPTS
    /\ Navigate(List)
    /\ timers' = [timers EXCEPT ![t] = @ - 1]
    /\ UNCHANGED <<shown, created, reconnectAttempts, pagesOpened, reconnects, failures, cut>>

-----------------------------------------------------------------------------

Timer(t) == Reconnect(t) \/ ReturnToList(t)

TabNext ==
    \/ \E page \in Targets \union {List} : Open(page)
    \/ Render
    \/ \E i \in Ids : Opens(i) \/ Drops(i) \/ ServerCloses(i) \/ Fails(i) \/ IsClosed(i)
    \/ \E t \in Targets : Timer(t)

\* The browser renders, runs its timers, and hears of every connection; it need not drop.
TabSpec ==
    /\ TabInit
    /\ [][TabNext]_tabVars
    /\ WF_tabVars(Render)
    /\ \A t \in Targets : WF_tabVars(Timer(t))
    /\ \A i \in Ids : WF_tabVars(Opens(i) \/ Fails(i)) /\ WF_tabVars(IsClosed(i))

-----------------------------------------------------------------------------

\* However often connections fail and whatever pages are opened, a tab makes fewer than
\* MAX_RECONNECT_ATTEMPTS reconnections, although an error plans two and no page cancels the
\* timers of the one before.
RetryBound == reconnects < MAX_RECONNECT_ATTEMPTS

Hears == \E i \in Ids : sockets[i].state = "open" /\ sockets[i].target = shown

\* The first page of messages a tab opens is not left deaf: after every failure it receives
\* messages again or makes way for the list, although each socket's events give up the socket
\* of the moment. That holds as long as no open connection was closed (cut): the close event of
\* such a one is clean, plans nothing, and may give up the connection made after it.
Recovers ==
    pagesOpened = 1 /\ shown \in Targets ~> Hears \/ shown = List \/ pagesOpened > 1 \/ cut

\* setup-dm-websocket.js: "the DM top page after a number of attempts that did not connect".
\* Not so: the error and the close of one failure count as two attempts.
ReturnsAfterFailures ==
    [][(\E t \in Targets : ReturnToList(t)) => failures >= MAX_RECONNECT_ATTEMPTS]_tabVars
=============================================================================
