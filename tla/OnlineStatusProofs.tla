------------------------- MODULE OnlineStatusProofs -------------------------
(***************************************************************************)
(* A user is online while one connection is there, and a friend sees it,   *)
(* for any number of tabs and sockets.                                     *)
(***************************************************************************)
EXTENDS OnlineStatus, SequenceTheorems, TLAPS

-----------------------------------------------------------------------------
(* Types *)

\* A socket is of the user, or of nobody when the user had logged out by its handshake.
Socket ==
    [tab: Tabs, client: {"connecting", "open", "closing", "failing", "closed"},
     inbox: Seq(BOOLEAN), consumer: {"new", "accepted", "in", "gone"}, user: BOOLEAN]

TabState == [asks: {"no", "login", "profile"}, leaves: BOOLEAN]

Created == 1..created

TypeOK ==
    /\ loggedIn \in BOOLEAN
    /\ tabs \in [Tabs -> TabState]
    /\ created \in Nat /\ created <= MaxSockets
    /\ onlineStatusSocket \in [Tabs -> Created \union {None}]
    /\ sockets \in [Ids -> Socket \union {NoSocket}]
    /\ \A i \in Created : sockets[i] \in Socket
    /\ \A i \in Ids : i \notin Created => sockets[i] = NoSocket
    /\ is_online \in BOOLEAN
    /\ news \in Seq(BOOLEAN)
    /\ list \in [at: {"away", "asked", "shown"}, status: BOOLEAN]
    /\ overlapped \in BOOLEAN /\ silent \in BOOLEAN /\ raced \in BOOLEAN

-----------------------------------------------------------------------------
(* The inductive invariant *)

\* A consumer that has not accepted has got nothing, and one that is gone had a client that
\* gave up; nor is there a message on a socket that never opened or was dropped.
SocketOK(s) ==
    /\ s.consumer = "gone" => s.client \notin {"connecting", "open"}
    /\ s.consumer = "new" => s.client # "open" /\ s.inbox = <<>>
    /\ s.client \in {"connecting", "failing"} => s.inbox = <<>>

SocketsOK == \A i \in Created : SocketOK(sockets[i])

\* A socket whose consumer is not gone.
Serves(i) == i \in Created /\ sockets[i].consumer # "gone"

OneServes == overlapped \/ \A i, j \in Created : Serves(i) /\ Serves(j) => i = j

\* Its tab holds the socket until it closes it.
HeldOK ==
    overlapped \/ \A i \in Created :
        sockets[i].client \in {"connecting", "open"} => onlineStatusSocket[sockets[i].tab] = i

\* A consumer that has set its user online.
Inside(i) == i \in Created /\ sockets[i].consumer = "in" /\ sockets[i].user

StatusOK ==
    /\ is_online => \E i \in Created : Inside(i)
    /\ \A i \in Created : Inside(i) => is_online \/ overlapped

\* What the list shows when it has got the news, and after the messages of socket s too.
Current == IF news = <<>> THEN list.status ELSE news[Len(news)]
Tells(s, status) ==
    (IF s.inbox = <<>> THEN status ELSE s.inbox[Len(s.inbox)]) = (s.client = "open")

\* A list that was loaded while a socket of nobody was open is not told that it opened.
Heeds(s, status) == Tells(s, status) \/ (~s.user /\ s.inbox = <<>> /\ status = FALSE)

\* The list is told that a socket opened, and that it closed.
Told ==
    /\ \A i \in Created : Serves(i) => Heeds(sockets[i], Current)
    /\ (\A i \in Created : ~Serves(i)) => Current = FALSE
ListOK == overlapped \/ silent \/ raced \/ list.at # "shown" \/ Told

StatusInv == TypeOK /\ SocketsOK /\ OneServes /\ HeldOK /\ StatusOK /\ ListOK

-----------------------------------------------------------------------------
(* Sockets *)

LEMMA SocketFields ==
    ASSUME NEW s \in Socket
    PROVE  /\ s.tab \in Tabs /\ s.user \in BOOLEAN /\ s.inbox \in Seq(BOOLEAN)
           /\ s.client \in {"connecting", "open", "closing", "failing", "closed"}
           /\ s.consumer \in {"new", "accepted", "in", "gone"}
BY DEF Socket

LEMMA CreatedFacts ==
    ASSUME StatusInv
    PROVE  /\ created \in Nat /\ MaxSockets \in Nat /\ created <= MaxSockets
           /\ Created = 1..created /\ Ids = 1..MaxSockets
           /\ \A i \in Created : i \in Ids /\ i # None
           /\ \A i \in Created : sockets[i] \in Socket /\ SocketOK(sockets[i])
           /\ \A i \in Ids : i \notin Created => sockets[i] = NoSocket
<1>1. /\ created \in Nat /\ MaxSockets \in Nat /\ created <= MaxSockets
      /\ Created = 1..created /\ Ids = 1..MaxSockets
  BY OnlineStatusAssumption DEF StatusInv, TypeOK, Created, Ids
<1>2. \A i \in Created : i \in Ids /\ i # None
  BY ONLY <1>1 DEF None
<1> QED
  <2>1. /\ \A i \in Created : sockets[i] \in Socket
        /\ \A i \in Ids : i \notin Created => sockets[i] = NoSocket
    BY DEF StatusInv, TypeOK
  <2>2. \A i \in Created : SocketOK(sockets[i])
    BY DEF StatusInv, SocketsOK
  <2> QED
    BY <1>1, <1>2, <2>1, <2>2

\* Only the sockets that were created have a client and a consumer.
LEMMA NoSocketFacts ==
    ASSUME StatusInv, NEW i \in Ids
    PROVE  /\ sockets[i].client # "none" => i \in Created
           /\ sockets[i].consumer # "none" => i \in Created
           /\ i \in Created => sockets[i] # NoSocket
<1>1. i \notin Created => sockets[i] = NoSocket
  BY CreatedFacts
<1>2. NoSocket.client = "none" /\ NoSocket.consumer = "none"
  BY DEF NoSocket
<1>3. i \in Created => sockets[i].client # "none"
  BY CreatedFacts, SocketFields
<1> QED
  BY <1>1, <1>2, <1>3

LEMMA LastOfAppend ==
    ASSUME NEW S, NEW seq \in Seq(S), NEW e \in S
    PROVE  /\ Append(seq, e) \in Seq(S) /\ Append(seq, e) # <<>>
           /\ Append(seq, e)[Len(Append(seq, e))] = e
BY AppendProperties

\* What the page or the browser does to a socket.
Changed(s, t) ==
    t \in Socket /\ SocketOK(t) /\ t.tab = s.tab /\ t.consumer = s.consumer /\ t.user = s.user

KeepsTelling(s, t) == \A status : Heeds(s, status) => Heeds(t, status)

Bye(s) ==
    IF s.client = "open" THEN [s EXCEPT !.inbox = Append(@, FALSE), !.client = "closing"]
    ELSE IF s.client = "connecting" THEN [s EXCEPT !.client = "failing"]
    ELSE s

LEMMA ByeFacts ==
    ASSUME NEW s \in Socket, SocketOK(s)
    PROVE  /\ Changed(s, Bye(s)) /\ KeepsTelling(s, Bye(s))
           /\ Bye(s).client \notin {"connecting", "open"}
           /\ s.client \notin {"connecting", "open"} => Bye(s) = s
<1>1. CASE s.client = "open"
  <2> PICK inbox, no, t : inbox = Append(s.inbox, no) /\ no = FALSE /\ t = Bye(s)
    OBVIOUS
  <2>1. /\ inbox \in Seq(BOOLEAN) /\ inbox # <<>> /\ inbox[Len(inbox)] = no
    <3>1. s.inbox \in Seq(BOOLEAN) /\ no \in BOOLEAN
      BY SocketFields
    <3> QED
      BY <3>1, LastOfAppend
  <2>2. t = [s EXCEPT !.inbox = inbox, !.client = "closing"]
    BY <1>1 DEF Bye
  <2>3. /\ t \in Socket /\ t.tab = s.tab /\ t.consumer = s.consumer /\ t.client = "closing"
        /\ t.inbox = inbox /\ t.user = s.user
    BY ONLY <2>1, <2>2, s \in Socket DEF Socket
  <2>4. SocketOK(t)
    BY <1>1, <2>3 DEF SocketOK
  <2>5. \A status : Tells(t, status)
    BY <2>1, <2>3 DEF Tells
  <2> QED
    BY <1>1, <2>3, <2>4, <2>5 DEF Changed, KeepsTelling, Heeds
<1>2. CASE s.client = "connecting"
  <2> PICK t : t = Bye(s)
    OBVIOUS
  <2>1. t = [s EXCEPT !.client = "failing"]
    BY <1>2 DEF Bye
  <2>2. /\ t \in Socket /\ t.tab = s.tab /\ t.consumer = s.consumer /\ t.client = "failing"
        /\ t.inbox = s.inbox /\ t.user = s.user
    BY ONLY <2>1, s \in Socket DEF Socket
  <2>3. SocketOK(t)
    BY <1>2, <2>2 DEF SocketOK
  <2> QED
    BY <1>2, <2>2, <2>3 DEF Changed, KeepsTelling, Heeds, Tells
<1>3. CASE s.client \notin {"connecting", "open"}
  BY <1>3 DEF Bye, Changed, KeepsTelling
<1> QED
  BY <1>1, <1>2, <1>3

LEMMA SayGoodbyeIs ==
    ASSUME StatusInv, NEW h \in Created
    PROVE  SayGoodbye(h) = [sockets EXCEPT ![h] = Bye(sockets[h])]
<1>1. sockets \in [Ids -> Socket \union {NoSocket}] /\ h \in Ids
  BY CreatedFacts DEF StatusInv, TypeOK
<1> QED
  BY <1>1 DEF SayGoodbye, Bye

\* disconnectOnlineStatusWebSocket changes the socket the tab holds.
LEMMA DisconnectedIs ==
    ASSUME StatusInv, NEW t \in Tabs
    PROVE  /\ Disconnected(t) \in [Ids -> Socket \union {NoSocket}]
           /\ \A i \in Created : Disconnected(t)[i] =
                  IF i = onlineStatusSocket[t] THEN Bye(sockets[i]) ELSE sockets[i]
           /\ \A i \in Ids : i \notin Created => Disconnected(t)[i] = NoSocket
<1> PICK h : h = onlineStatusSocket[t]
  OBVIOUS
<1>1. h \in Created \union {None} /\ sockets \in [Ids -> Socket \union {NoSocket}]
  BY DEF StatusInv, TypeOK
<1>2. CASE h = None
  <2>1. Disconnected(t) = sockets
    BY <1>2 DEF Disconnected
  <2> QED
    BY <2>1, <1>1, <1>2, CreatedFacts
<1>3. CASE h # None
  <2>1. h \in Created /\ h \in Ids
    BY <1>1, <1>3, CreatedFacts
  <2>2. Disconnected(t) = [sockets EXCEPT ![h] = Bye(sockets[h])]
    BY <1>3, <2>1, SayGoodbyeIs DEF Disconnected
  <2>3. Bye(sockets[h]) \in Socket
    BY <2>1, CreatedFacts, ByeFacts DEF Changed
  <2> QED
    BY <2>1, <2>2, <2>3, <1>1, CreatedFacts
<1> QED
  BY <1>2, <1>3

-----------------------------------------------------------------------------
(* Steps of the page and the browser *)

\* They change what the clients do, and no consumer.
LEMMA ClientStep ==
    ASSUME StatusInv, loggedIn' \in BOOLEAN, tabs' \in [Tabs -> TabState],
           onlineStatusSocket' \in [Tabs -> Created \union {None}],
           sockets' \in [Ids -> Socket \union {NoSocket}],
           \A i \in Ids : i \notin Created => sockets'[i] = NoSocket,
           UNCHANGED <<created, is_online, news, list, raced, overlapped>>,
           silent' = silent \/ silent' = TRUE,
           \A i \in Created : Changed(sockets[i], sockets'[i]),
           overlapped \/ silent' \/ \A i \in Created : KeepsTelling(sockets[i], sockets'[i]),
           overlapped \/ \A i \in Created : sockets'[i].client \in {"connecting", "open"} =>
                                                onlineStatusSocket'[sockets'[i].tab] = i
    PROVE  StatusInv'
<1>1. Created' = Created
  BY DEF Created
<1>2. TypeOK'
  BY <1>1 DEF StatusInv, TypeOK, Changed
<1>3. SocketsOK'
  BY <1>1 DEF SocketsOK, Changed
<1>4. \A i : Serves(i)' <=> Serves(i)
  BY <1>1 DEF Serves, Changed
<1>5. OneServes'
  BY <1>1, <1>4 DEF StatusInv, OneServes
<1>6. HeldOK'
  BY <1>1 DEF HeldOK
<1>7. \A i : Inside(i)' <=> Inside(i)
  BY <1>1 DEF Inside, Changed
<1>8. StatusOK'
  BY <1>1, <1>7 DEF StatusInv, StatusOK
<1>9. ListOK'
  <2>1. Current' = Current
    BY DEF Current
  <2> QED
    BY <2>1, <1>1, <1>4 DEF StatusInv, ListOK, Told, KeepsTelling
<1> QED
  BY <1>2, <1>3, <1>5, <1>6, <1>8, <1>9 DEF StatusInv

LEMMA Unmoved == ASSUME NEW s \in Socket, SocketOK(s)
                 PROVE  Changed(s, s) /\ KeepsTelling(s, s)
BY DEF Changed, KeepsTelling

\* The steps that leave the sockets alone.
LEMMA BrowserStep ==
    ASSUME StatusInv, loggedIn' \in BOOLEAN, tabs' \in [Tabs -> TabState],
           UNCHANGED <<onlineStatusSocket, sockets, created, is_online, news, list, raced,
                       overlapped, silent>>
    PROVE  StatusInv'
<1>1. /\ onlineStatusSocket \in [Tabs -> Created \union {None}]
      /\ sockets \in [Ids -> Socket \union {NoSocket}]
      /\ \A i \in Ids : i \notin Created => sockets[i] = NoSocket
  BY DEF StatusInv, TypeOK
<1>2. \A i \in Created : Changed(sockets[i], sockets[i]) /\ KeepsTelling(sockets[i], sockets[i])
  BY CreatedFacts, Unmoved
<1>3. overlapped \/ \A i \in Created : sockets[i].client \in {"connecting", "open"} =>
                                           onlineStatusSocket[sockets[i].tab] = i
  BY DEF StatusInv, HeldOK
<1> QED
  BY <1>1, <1>2, <1>3, ClientStep

LEMMA ConnectStep ==
    ASSUME StatusInv, NEW t \in Tabs, loggedIn' \in BOOLEAN,
           tabs' \in [Tabs -> TabState], Connect(t), UNCHANGED <<is_online, friend, silent>>
    PROVE  StatusInv'
<1> PICK new, s : new = created + 1 /\ s = NewSocket(t)
  OBVIOUS
<1>1. /\ created < MaxSockets /\ created' = new
      /\ sockets' = [sockets EXCEPT ![new] = s]
      /\ onlineStatusSocket' = [onlineStatusSocket EXCEPT ![t] = new]
      /\ overlapped' = (overlapped \/ \E i \in Ids : Present(i))
      /\ UNCHANGED <<news, list, raced, is_online, silent>>
  BY DEF Connect, friend
<1>2. /\ created \in Nat /\ MaxSockets \in Nat /\ Created = 1..created /\ Ids = 1..MaxSockets
      /\ \A i \in Created : i \in Ids /\ i # None
      /\ \A i \in Created : sockets[i] \in Socket /\ SocketOK(sockets[i])
      /\ \A i \in Ids : i \notin Created => sockets[i] = NoSocket
  BY CreatedFacts
<1>3. /\ Created' = 1..new
      /\ new \in Ids /\ new \notin Created /\ new <= MaxSockets /\ new \in Nat
      /\ \A i : i \in 1..new <=> i \in Created \/ i = new
  <2>1. Created' = 1..new
    BY <1>1 DEF Created
  <2>2. created \in Nat /\ MaxSockets \in Nat /\ created < MaxSockets /\ new = created + 1
    BY <1>1, <1>2
  <2>3. /\ new \in 1..MaxSockets /\ new \notin 1..created /\ new <= MaxSockets /\ new \in Nat
        /\ \A i : i \in 1..new <=> i \in 1..created \/ i = new
    BY ONLY <2>2
  <2> QED
    BY <2>1, <2>3, <1>2
<1>4. \A i : i \in Created' <=> i \in Created \/ i = new
  BY <1>3
<1>5. /\ s \in Socket /\ s.tab = t /\ s.client = "connecting" /\ s.inbox = <<>>
      /\ s.consumer = "new"
  <2>1. <<>> \in Seq(BOOLEAN) /\ loggedIn \in BOOLEAN
    BY EmptySeq DEF StatusInv, TypeOK
  <2> QED
    BY <2>1 DEF NewSocket, Socket
<1>6. /\ sockets \in [Ids -> Socket \union {NoSocket}]
      /\ onlineStatusSocket \in [Tabs -> Created \union {None}]
  BY DEF StatusInv, TypeOK
<1>7. /\ sockets' \in [Ids -> Socket \union {NoSocket}] /\ sockets'[new] = s
      /\ \A i \in Ids : i # new => sockets'[i] = sockets[i]
      /\ \A u \in Tabs : onlineStatusSocket'[u] =
                             IF u = t THEN new ELSE onlineStatusSocket[u]
  BY <1>1, <1>3, <1>5, <1>6
<1>8. /\ \A i \in Created' : sockets'[i] \in Socket
      /\ \A i \in Ids : i \notin Created' => sockets'[i] = NoSocket
  BY <1>2, <1>4, <1>5, <1>7
<1>9. onlineStatusSocket' \in [Tabs -> Created' \union {None}]
  BY <1>1, <1>4, <1>6
<1>10. TypeOK'
  <2>1. overlapped' \in BOOLEAN
    BY <1>1
  <2>2. UNCHANGED <<news, list, raced, is_online, silent>>
    BY <1>1
  <2>3. created' \in Nat /\ created' <= MaxSockets
    BY <1>1, <1>3
  <2> QED
    BY <2>1, <2>2, <2>3, <1>7, <1>8, <1>9 DEF StatusInv, TypeOK
<1>11. SocketsOK'
  <2>1. SocketOK(s)
    BY <1>5 DEF SocketOK
  <2> QED
    BY <2>1, <1>2, <1>4, <1>7 DEF SocketsOK
<1>12. ~overlapped' => ~overlapped /\ \A i \in Created : ~Serves(i)
  BY <1>1, <1>2, NoSocketFacts DEF Present, Serves
<1>13. \A i \in Created : (Serves(i)' <=> Serves(i)) /\ i # new
  BY <1>2, <1>3, <1>4, <1>7 DEF Serves
<1>14. overlapped' \/ \A i \in Created' : i # new => ~Serves(i)'
  BY <1>4, <1>12, <1>13
<1>15. OneServes'
  BY <1>14 DEF OneServes
<1>16. HeldOK'
  <2> SUFFICES ASSUME ~overlapped', NEW i \in Created',
                      sockets'[i].client \in {"connecting", "open"}
               PROVE  onlineStatusSocket'[sockets'[i].tab] = i
    BY DEF HeldOK
  <2>1. CASE i = new
    BY <2>1, <1>5, <1>7
  <2>2. CASE i # new
    <3>1. i \in Created /\ ~Serves(i) /\ sockets'[i] = sockets[i]
      BY <2>2, <1>2, <1>4, <1>7, <1>12
    <3>2. sockets[i].consumer = "gone"
      BY <3>1 DEF Serves
    <3> QED
      BY <3>1, <3>2, <1>2 DEF SocketOK
  <2> QED
    BY <2>1, <2>2
<1>17. \A i : Inside(i)' <=> Inside(i)
  BY <1>2, <1>3, <1>4, <1>5, <1>7 DEF Inside
<1>18. StatusOK'
  <2>1. is_online' = is_online /\ (overlapped => overlapped')
    BY <1>1
  <2> QED
    BY <2>1, <1>17 DEF StatusInv, StatusOK, Inside
<1>19. ListOK'
  <2> SUFFICES ASSUME ~overlapped', ~silent, ~raced, list.at = "shown"
               PROVE  Told'
    <3>1. silent' = silent /\ raced' = raced /\ list' = list
      BY <1>1
    <3> QED
      BY <3>1 DEF ListOK
  <2>1. Current' = Current
    BY <1>1 DEF Current
  <2>2. Current = FALSE
    BY <1>12 DEF StatusInv, ListOK, Told
  <2>3. Heeds(s, FALSE)
    BY <1>5 DEF Heeds, Tells
  <2> QED
    BY <2>1, <2>2, <2>3, <1>7, <1>14 DEF Told
<1> QED
  BY <1>10, <1>11, <1>15, <1>16, <1>18, <1>19 DEF StatusInv

\* setOnlineStatus, the logins and logouts up to the alert, and a profile that opens no socket.
LEMMA TabFacts ==
    ASSUME StatusInv, NEW t \in Tabs
    PROVE  /\ \A a \in {"no", "login", "profile"} : [tabs EXCEPT ![t].asks = a] \in [Tabs -> TabState]
           /\ \A b \in BOOLEAN : [tabs EXCEPT ![t].leaves = b] \in [Tabs -> TabState]
           /\ loggedIn \in BOOLEAN /\ tabs \in [Tabs -> TabState]
<1>1. tabs \in [Tabs -> TabState] /\ tabs[t] \in TabState /\ loggedIn \in BOOLEAN
  BY DEF StatusInv, TypeOK
<1>2. ASSUME NEW a \in {"no", "login", "profile"}
      PROVE  [tabs EXCEPT ![t].asks = a] \in [Tabs -> TabState]
  <2>1. [tabs[t] EXCEPT !.asks = a] \in TabState
    BY <1>1 DEF TabState
  <2> QED
    BY <1>1, <2>1
<1>3. ASSUME NEW b \in BOOLEAN
      PROVE  [tabs EXCEPT ![t].leaves = b] \in [Tabs -> TabState]
  <2>1. [tabs[t] EXCEPT !.leaves = b] \in TabState
    BY <1>1 DEF TabState
  <2> QED
    BY <1>1, <2>1
<1> QED
  BY <1>1, <1>2, <1>3

LEMMA SetOnlineStatusStep ==
    ASSUME StatusInv, NEW t \in Tabs, SetOnlineStatus(t)
    PROVE  StatusInv'
<1>1. /\ tabs' = [tabs EXCEPT ![t].asks = "login"]
      /\ UNCHANGED <<loggedIn, onlineStatusSocket, sockets, created, is_online, news, list,
                     raced, overlapped, silent>>
  BY DEF SetOnlineStatus, friend
<1> QED
  BY <1>1, TabFacts, BrowserStep

LEMMA IsUserLoggedInStep ==
    ASSUME StatusInv, NEW t \in Tabs, IsUserLoggedIn(t)
    PROVE  StatusInv'
<1> PICK asks : asks = IF loggedIn THEN "profile" ELSE "no"
  OBVIOUS
<1>1. /\ tabs' = [tabs EXCEPT ![t].asks = asks]
      /\ UNCHANGED <<loggedIn, onlineStatusSocket, sockets, created, is_online, news, list,
                     raced, overlapped, silent>>
  BY DEF IsUserLoggedIn, friend
<1>2. asks \in {"no", "login", "profile"}
  OBVIOUS
<1> QED
  BY <1>1, <1>2, TabFacts, BrowserStep

LEMMA FetchUserIdStep ==
    ASSUME StatusInv, NEW t \in Tabs, FetchUserId(t)
    PROVE  StatusInv'
<1>1. /\ tabs' = [tabs EXCEPT ![t].asks = "no"] /\ UNCHANGED loggedIn
      /\ UNCHANGED <<is_online, friend, silent>>
  BY DEF FetchUserId
<1>2. tabs' \in [Tabs -> TabState] /\ loggedIn' \in BOOLEAN
  BY <1>1, TabFacts
<1>3. CASE ~IsOpen(onlineStatusSocket[t])
  <2>1. Connect(t)
    BY <1>3 DEF FetchUserId
  <2> QED
    BY <2>1, <1>1, <1>2, <1>3, ConnectStep
<1>4. CASE IsOpen(onlineStatusSocket[t])
  <2>1. UNCHANGED <<onlineStatusSocket, sockets, created, overlapped>>
    BY <1>4 DEF FetchUserId
  <2> QED
    BY <2>1, <1>1, <1>2, BrowserStep DEF friend
<1> QED
  BY <1>3, <1>4

LEMMA LoginStep ==
    ASSUME StatusInv, Login
    PROVE  StatusInv'
<1>1. /\ loggedIn' = TRUE
      /\ UNCHANGED <<tabs, onlineStatusSocket, sockets, created, is_online, news, list,
                     raced, overlapped, silent>>
  BY DEF Login, friend
<1>2. tabs \in [Tabs -> TabState]
  BY DEF StatusInv, TypeOK
<1> QED
  BY <1>1, <1>2, BrowserStep

LEMMA LogoutStep ==
    ASSUME StatusInv, NEW t \in Tabs, Logout(t)
    PROVE  StatusInv'
<1>1. /\ loggedIn' = FALSE /\ tabs' = [tabs EXCEPT ![t].leaves = TRUE]
      /\ UNCHANGED <<onlineStatusSocket, sockets, created, is_online, news, list,
                     raced, overlapped, silent>>
  BY DEF Logout, friend
<1> QED
  BY <1>1, TabFacts, BrowserStep

LEMMA LogoutConfirmedStep ==
    ASSUME StatusInv, NEW t \in Tabs, LogoutConfirmed(t)
    PROVE  StatusInv'
<1> PICK h : h = onlineStatusSocket[t]
  OBVIOUS
<1>1. /\ tabs' = [tabs EXCEPT ![t].leaves = FALSE] /\ sockets' = Disconnected(t)
      /\ onlineStatusSocket' = [onlineStatusSocket EXCEPT ![t] = None]
      /\ UNCHANGED <<loggedIn, created, is_online, news, list, raced, overlapped, silent>>
  BY DEF LogoutConfirmed, friend
<1>2. onlineStatusSocket \in [Tabs -> Created \union {None}]
  BY DEF StatusInv, TypeOK
<1>3. /\ onlineStatusSocket' \in [Tabs -> Created \union {None}]
      /\ \A u \in Tabs : u # t => onlineStatusSocket'[u] = onlineStatusSocket[u]
  BY <1>1, <1>2
<1>4. /\ sockets' \in [Ids -> Socket \union {NoSocket}]
      /\ \A i \in Created : sockets'[i] = IF i = h THEN Bye(sockets[i]) ELSE sockets[i]
      /\ \A i \in Ids : i \notin Created => sockets'[i] = NoSocket
  BY <1>1, DisconnectedIs
<1>5. \A i \in Created : /\ Changed(sockets[i], sockets'[i])
                         /\ KeepsTelling(sockets[i], sockets'[i])
  BY <1>4, CreatedFacts, ByeFacts, Unmoved
<1>6. ASSUME ~overlapped, NEW i \in Created, sockets'[i].client \in {"connecting", "open"}
      PROVE  onlineStatusSocket'[sockets'[i].tab] = i
  <2>1. i # h /\ sockets'[i] = sockets[i]
    BY <1>4, <1>6, CreatedFacts, ByeFacts
  <2>2. onlineStatusSocket[sockets[i].tab] = i /\ sockets[i].tab \in Tabs
    BY <2>1, <1>6, CreatedFacts, SocketFields DEF StatusInv, HeldOK
  <2> QED
    BY <2>1, <2>2, <1>3
<1>7. loggedIn' \in BOOLEAN /\ tabs' \in [Tabs -> TabState]
  BY <1>1, TabFacts
<1> QED
  BY <1>1, <1>3, <1>4, <1>5, <1>6, <1>7, ClientStep

Opened(s) == [s EXCEPT !.client = "open"]
Heard(s) == [s EXCEPT !.inbox = Append(@, TRUE)]
Sent(open, held) ==
    IF held # None /\ open[held].client = "open"
    THEN [open EXCEPT ![held].inbox = Append(@, TRUE)] ELSE open

LEMMA OpenedFacts ==
    ASSUME NEW s \in Socket, SocketOK(s), s.client = "connecting", s.consumer # "new"
    PROVE  Changed(s, Opened(s)) /\ Opened(s).client = "open"
<1> PICK t : t = Opened(s)
  OBVIOUS
<1>1. /\ t \in Socket /\ t.tab = s.tab /\ t.consumer = s.consumer /\ t.inbox = s.inbox
      /\ t.client = "open" /\ t.user = s.user
  BY DEF Opened, Socket
<1>2. SocketOK(t)
  BY <1>1 DEF SocketOK
<1> QED
  BY <1>1, <1>2 DEF Changed

LEMMA HeardFacts ==
    ASSUME NEW s \in Socket, SocketOK(s), s.client = "open"
    PROVE  /\ Changed(s, Heard(s)) /\ Heard(s).client = "open"
           /\ \A status : Tells(Heard(s), status)
<1> PICK inbox, yes, t : inbox = Append(s.inbox, yes) /\ yes = TRUE /\ t = Heard(s)
  OBVIOUS
<1>1. inbox \in Seq(BOOLEAN) /\ inbox # <<>> /\ inbox[Len(inbox)] = yes
  <2>1. s.inbox \in Seq(BOOLEAN) /\ yes \in BOOLEAN
    BY SocketFields
  <2> QED
    BY <2>1, LastOfAppend
<1>2. t = [s EXCEPT !.inbox = inbox]
  BY DEF Heard
<1>3. /\ t \in Socket /\ t.tab = s.tab /\ t.consumer = s.consumer /\ t.inbox = inbox
      /\ t.client = "open" /\ t.user = s.user
  BY ONLY <1>1, <1>2, s \in Socket, s.client = "open" DEF Socket
<1>4. SocketOK(t)
  BY <1>3 DEF SocketOK
<1>5. \A status : Tells(t, status)
  BY <1>1, <1>3 DEF Tells
<1> QED
  BY <1>3, <1>4, <1>5 DEF Changed

\* The tab holds the socket that opens, unless sockets overlapped: it is the one that sends.
LEMMA OnOpenStep ==
    ASSUME StatusInv, NEW i \in Ids, OnOpen(i)
    PROVE  StatusInv'
<1> PICK s, h, open : /\ s = sockets[i] /\ h = onlineStatusSocket[s.tab]
                      /\ open = [sockets EXCEPT ![i] = Opened(s)]
  OBVIOUS
<1>1. /\ s.client = "connecting" /\ s.consumer # "new"
      /\ UNCHANGED <<loggedIn, tabs, onlineStatusSocket, created, is_online, news, list, raced,
                     overlapped, silent>>
  BY DEF OnOpen, browser, friend
<1>2. i \in Created /\ s \in Socket /\ SocketOK(s)
  BY <1>1, NoSocketFacts, CreatedFacts
<1>3. /\ sockets \in [Ids -> Socket \union {NoSocket}] /\ h \in Created \union {None}
      /\ onlineStatusSocket \in [Tabs -> Created \union {None}]
      /\ loggedIn \in BOOLEAN /\ tabs \in [Tabs -> TabState]
  BY <1>2, SocketFields DEF StatusInv, TypeOK
<1>4. /\ Changed(s, Opened(s)) /\ Opened(s).client = "open" /\ Opened(s) \in Socket
      /\ SocketOK(Opened(s))
  BY <1>1, <1>2, OpenedFacts DEF Changed
<1>5. /\ open \in [Ids -> Socket \union {NoSocket}] /\ open[i] = Opened(s)
      /\ \A j \in Ids : j # i => open[j] = sockets[j]
  BY <1>3, <1>4
<1>6. sockets' = IF h # None /\ open[h].client = "open"
                 THEN [open EXCEPT ![h] = Heard(open[h])] ELSE open
  <2>1. [sockets EXCEPT ![i].client = "open"] = open
    BY DEF Opened
  <2>2. sockets' = Sent([sockets EXCEPT ![i].client = "open"],
                        onlineStatusSocket[sockets[i].tab])
    BY DEF OnOpen, Sent
  <2>3. sockets' = Sent(open, h)
    BY <2>1, <2>2
  <2> QED
    BY <2>3 DEF Sent, Heard
<1>7. \A j \in Created : open[j] \in Socket /\ SocketOK(open[j]) /\ Changed(sockets[j], open[j])
  BY <1>4, <1>5, CreatedFacts, Unmoved
<1>8. CASE h # None /\ open[h].client = "open"
  <2>1. h \in Created /\ h \in Ids
    BY <1>3, <1>8, CreatedFacts
  <2>2. /\ Changed(open[h], Heard(open[h])) /\ Heard(open[h]).client = "open"
        /\ \A status : Tells(Heard(open[h]), status)
    <3>1. open[h] \in Socket /\ SocketOK(open[h])
      BY <2>1, <1>7
    <3> QED
      BY <3>1, <1>8, HeardFacts
  <2>3. /\ sockets' \in [Ids -> Socket \union {NoSocket}] /\ sockets'[h] = Heard(open[h])
        /\ \A j \in Ids : j # h => sockets'[j] = open[j]
    <3> PICK heard : heard = Heard(open[h])
      OBVIOUS
    <3>1. heard \in Socket
      BY <2>2 DEF Changed
    <3>2. sockets' = [open EXCEPT ![h] = heard]
      BY <1>6, <1>8
    <3>3. open \in [Ids -> Socket \union {NoSocket}] /\ h \in Ids
      BY <1>5, <2>1
    <3>4. /\ sockets' \in [Ids -> Socket \union {NoSocket}] /\ sockets'[h] = heard
          /\ \A j \in Ids : j # h => sockets'[j] = open[j]
      BY ONLY <3>1, <3>2, <3>3
    <3> QED
      BY <3>4
  <2>4. \A j \in Ids : j \notin Created => sockets'[j] = NoSocket
    <3> SUFFICES ASSUME NEW j \in Ids, j \notin Created
                 PROVE  sockets'[j] = NoSocket
      OBVIOUS
    <3>1. sockets'[j] = open[j] /\ j # i
      BY <2>1, <2>3, <1>2
    <3>2. open[j] = sockets[j]
      BY <3>1, <1>5
    <3> QED
      BY <3>1, <3>2, CreatedFacts
  <2>5. \A j \in Created : Changed(sockets[j], sockets'[j])
    BY <2>1, <2>2, <2>3, <1>7, CreatedFacts DEF Changed
  <2>6. ~overlapped => h = i
    BY <1>1, <1>2 DEF StatusInv, HeldOK
  <2>7. overlapped \/ \A j \in Created : KeepsTelling(sockets[j], sockets'[j])
    <3> SUFFICES ASSUME ~overlapped, NEW j \in Created
                 PROVE  KeepsTelling(sockets[j], sockets'[j])
      OBVIOUS
    <3>1. CASE j = i
      BY <3>1, <2>2, <2>3, <2>6 DEF KeepsTelling, Heeds
    <3>2. CASE j # i
      <4>1. sockets'[j] = sockets[j]
        BY <3>2, <2>3, <2>6, <1>5, CreatedFacts
      <4> QED
        BY <4>1 DEF KeepsTelling
    <3> QED
      BY <3>1, <3>2
  <2>8. overlapped \/ \A j \in Created : sockets'[j].client \in {"connecting", "open"} =>
                                             onlineStatusSocket'[sockets'[j].tab] = j
    <3> SUFFICES ASSUME ~overlapped, NEW j \in Created,
                        sockets'[j].client \in {"connecting", "open"}
                 PROVE  onlineStatusSocket'[sockets'[j].tab] = j
      OBVIOUS
    <3>1. sockets'[j].tab = sockets[j].tab
      BY <2>5 DEF Changed
    <3>2. sockets[j].client \in {"connecting", "open"}
      <4>1. CASE j = i
        BY <4>1, <1>1
      <4>2. CASE j # i
        BY <4>2, <2>3, <2>6, <1>5, CreatedFacts
      <4> QED
        BY <4>1, <4>2
    <3> QED
      BY <3>1, <3>2, <1>1 DEF StatusInv, HeldOK
  <2> QED
    BY <2>3, <2>4, <2>5, <2>7, <2>8, <1>1, <1>3, ClientStep
<1>9. CASE ~(h # None /\ open[h].client = "open")
  <2>1. overlapped
    <3>1. CASE ~overlapped
      <4>1. h = i /\ i # None
        BY <3>1, <1>1, <1>2, CreatedFacts DEF StatusInv, HeldOK
      <4> QED
        BY <4>1, <1>4, <1>5, <1>9
    <3> QED
      BY <3>1
  <2>2. /\ sockets' \in [Ids -> Socket \union {NoSocket}]
        /\ \A j \in Ids : j \notin Created => sockets'[j] = NoSocket
        /\ \A j \in Created : Changed(sockets[j], sockets'[j])
    BY <1>2, <1>5, <1>6, <1>7, <1>9, CreatedFacts
  <2> QED
    BY <2>1, <2>2, <1>1, <1>3, ClientStep
<1> QED
  BY <1>8, <1>9

Closed(s) == [s EXCEPT !.client = "closed"]

LEMMA ClosedFacts ==
    ASSUME NEW s \in Socket, SocketOK(s), s.client \in {"closing", "failing"}
    PROVE  /\ Changed(s, Closed(s)) /\ KeepsTelling(s, Closed(s)) /\ Closed(s).client = "closed"
<1> PICK t : t = Closed(s)
  OBVIOUS
<1>1. /\ t \in Socket /\ t.tab = s.tab /\ t.consumer = s.consumer /\ t.inbox = s.inbox
      /\ t.client = "closed" /\ t.user = s.user
  <2>1. t = [s EXCEPT !.client = "closed"]
    BY DEF Closed
  <2> QED
    BY ONLY <2>1, s \in Socket DEF Socket
<1>2. SocketOK(t)
  BY <1>1 DEF SocketOK
<1> QED
  <2>1. Changed(s, t)
    BY <1>1, <1>2 DEF Changed
  <2>2. KeepsTelling(s, t)
    BY <1>1 DEF KeepsTelling, Heeds, Tells
  <2> QED
    BY <1>1, <2>1, <2>2

LEMMA OnCloseStep ==
    ASSUME StatusInv, NEW i \in Ids, OnClose(i)
    PROVE  StatusInv'
<1> PICK t, h, bye : t = sockets[i].tab /\ h = onlineStatusSocket[t] /\ bye = Disconnected(t)
  OBVIOUS
<1>1. /\ sockets[i].client \in {"closing", "failing"}
      /\ sockets' = [bye EXCEPT ![i].client = "closed"]
      /\ onlineStatusSocket' = [onlineStatusSocket EXCEPT ![t] = None]
      /\ UNCHANGED <<loggedIn, tabs, created, is_online, news, list, raced, overlapped, silent>>
  BY DEF OnClose, friend
<1>2. i \in Created /\ t \in Tabs
  BY <1>1, NoSocketFacts, CreatedFacts, SocketFields
<1>3. /\ onlineStatusSocket \in [Tabs -> Created \union {None}]
      /\ loggedIn \in BOOLEAN /\ tabs \in [Tabs -> TabState]
  BY DEF StatusInv, TypeOK
<1>4. /\ onlineStatusSocket' \in [Tabs -> Created \union {None}]
      /\ \A u \in Tabs : u # t => onlineStatusSocket'[u] = onlineStatusSocket[u]
  BY <1>1, <1>3
<1>5. /\ bye \in [Ids -> Socket \union {NoSocket}]
      /\ \A j \in Created : bye[j] = IF j = h THEN Bye(sockets[j]) ELSE sockets[j]
      /\ \A j \in Ids : j \notin Created => bye[j] = NoSocket
  BY <1>2, DisconnectedIs
<1>6. bye[i] = sockets[i]
  BY <1>1, <1>2, <1>5, CreatedFacts, ByeFacts
<1>7. sockets' = [bye EXCEPT ![i] = Closed(sockets[i])]
  BY <1>1, <1>6 DEF Closed
<1>8. /\ Changed(sockets[i], Closed(sockets[i])) /\ KeepsTelling(sockets[i], Closed(sockets[i]))
      /\ Closed(sockets[i]).client = "closed" /\ Closed(sockets[i]) \in Socket
  BY <1>1, <1>2, CreatedFacts, ClosedFacts DEF Changed
<1>9. /\ sockets' \in [Ids -> Socket \union {NoSocket}]
      /\ sockets'[i] = Closed(sockets[i]) /\ \A j \in Ids : j # i => sockets'[j] = bye[j]
  BY <1>5, <1>7, <1>8
<1>10. \A j \in Ids : j \notin Created => sockets'[j] = NoSocket
  BY <1>2, <1>5, <1>9
<1>11. \A j \in Created : j # i => sockets'[j] = IF j = h THEN Bye(sockets[j]) ELSE sockets[j]
  BY <1>5, <1>9, CreatedFacts
<1>12. \A j \in Created : /\ Changed(sockets[j], sockets'[j])
                          /\ KeepsTelling(sockets[j], sockets'[j])
  BY <1>8, <1>9, <1>11, CreatedFacts, ByeFacts, Unmoved
<1>13. ASSUME ~overlapped, NEW j \in Created, sockets'[j].client \in {"connecting", "open"}
       PROVE  onlineStatusSocket'[sockets'[j].tab] = j
  <2>1. j # i
    BY <1>8, <1>9, <1>13
  <2>2. j # h /\ sockets'[j] = sockets[j]
    BY <2>1, <1>11, <1>13, CreatedFacts, ByeFacts
  <2>3. onlineStatusSocket[sockets[j].tab] = j /\ sockets[j].tab \in Tabs
    BY <2>2, <1>13, CreatedFacts, SocketFields DEF StatusInv, HeldOK
  <2> QED
    BY <2>2, <2>3, <1>4
<1> QED
  BY <1>1, <1>3, <1>4, <1>9, <1>10, <1>12, <1>13, ClientStep

LEMMA DropStep ==
    ASSUME StatusInv, NEW i \in Ids, Drop(i)
    PROVE  StatusInv'
<1> PICK s, t : s = sockets[i] /\ t = [s EXCEPT !.client = "failing", !.inbox = <<>>]
  OBVIOUS
<1>1. /\ s.client \in {"connecting", "open"} /\ silent' = TRUE
      /\ sockets' = [sockets EXCEPT ![i] = t]
      /\ UNCHANGED <<loggedIn, tabs, onlineStatusSocket, created, is_online, news, list, raced,
                     overlapped>>
  BY DEF Drop, browser, friend
<1>2. i \in Created /\ s \in Socket /\ SocketOK(s)
  BY <1>1, NoSocketFacts, CreatedFacts
<1>3. /\ sockets \in [Ids -> Socket \union {NoSocket}]
      /\ onlineStatusSocket \in [Tabs -> Created \union {None}]
      /\ loggedIn \in BOOLEAN /\ tabs \in [Tabs -> TabState]
  BY DEF StatusInv, TypeOK
<1>4. /\ t \in Socket /\ t.tab = s.tab /\ t.consumer = s.consumer /\ t.client = "failing"
      /\ t.inbox = <<>> /\ t.user = s.user
  <2>1. <<>> \in Seq(BOOLEAN)
    BY EmptySeq
  <2> QED
    BY <2>1, <1>2 DEF Socket
<1>5. Changed(s, t)
  BY <1>4 DEF Changed, SocketOK
<1>6. /\ sockets' \in [Ids -> Socket \union {NoSocket}] /\ sockets'[i] = t
      /\ \A j \in Ids : j # i => sockets'[j] = sockets[j]
  BY <1>1, <1>3, <1>4
<1>7. \A j \in Ids : j \notin Created => sockets'[j] = NoSocket
  BY <1>2, <1>6, CreatedFacts
<1>8. \A j \in Created : Changed(sockets[j], sockets'[j])
  BY <1>5, <1>6, CreatedFacts, Unmoved
<1>9. overlapped \/ \A j \in Created : sockets'[j].client \in {"connecting", "open"} =>
                                           onlineStatusSocket'[sockets'[j].tab] = j
  BY <1>1, <1>4, <1>6, CreatedFacts DEF StatusInv, HeldOK
<1> QED
  BY <1>1, <1>3, <1>6, <1>7, <1>8, <1>9, ClientStep

-----------------------------------------------------------------------------
(* Steps of the server *)

\* They change one consumer, and what it has received; its client they leave alone.
Handled(i, t) ==
    /\ t \in Socket /\ SocketOK(t)
    /\ t.tab = sockets[i].tab /\ t.client = sockets[i].client /\ t.user = sockets[i].user
    /\ sockets' = [sockets EXCEPT ![i] = t]
    /\ UNCHANGED <<loggedIn, tabs, onlineStatusSocket, created, list, raced, overlapped, silent>>

LEMMA HandledFacts ==
    ASSUME StatusInv, NEW i \in Created, NEW t, Handled(i, t)
    PROVE  /\ Created' = Created /\ sockets' \in [Ids -> Socket \union {NoSocket}]
           /\ sockets'[i] = t /\ \A j \in Ids : j # i => sockets'[j] = sockets[j]
           /\ \A j \in Created : j # i => (Serves(j)' <=> Serves(j)) /\ (Inside(j)' <=> Inside(j))
           /\ Serves(i)' <=> t.consumer # "gone"
           /\ Inside(i)' <=> t.consumer = "in" /\ t.user
<1>1. Created' = Created
  BY DEF Handled, Created
<1>2. /\ sockets \in [Ids -> Socket \union {NoSocket}] /\ i \in Ids /\ t \in Socket
      /\ sockets' = [sockets EXCEPT ![i] = t]
  BY CreatedFacts DEF StatusInv, TypeOK, Handled
<1>3. /\ sockets' \in [Ids -> Socket \union {NoSocket}]
      /\ sockets'[i] = t /\ \A j \in Ids : j # i => sockets'[j] = sockets[j]
  BY <1>2
<1>4. \A j \in Created : j # i => (Serves(j)' <=> Serves(j)) /\ (Inside(j)' <=> Inside(j))
  BY <1>1, <1>3, CreatedFacts DEF Serves, Inside
<1>5. (Serves(i)' <=> t.consumer # "gone") /\ (Inside(i)' <=> t.consumer = "in" /\ t.user)
  BY <1>1, <1>3 DEF Serves, Inside
<1> QED
  BY <1>1, <1>3, <1>4, <1>5

LEMMA HandledStep ==
    ASSUME StatusInv, NEW i \in Created, NEW t, Handled(i, t), Serves(i),
           is_online' \in BOOLEAN, news' \in Seq(BOOLEAN), StatusOK', ListOK'
    PROVE  StatusInv'
<1>1. /\ Created' = Created /\ sockets' \in [Ids -> Socket \union {NoSocket}]
      /\ sockets'[i] = t /\ \A j \in Ids : j # i => sockets'[j] = sockets[j]
      /\ \A j \in Created : j # i => (Serves(j)' <=> Serves(j))
  BY HandledFacts
<1>2. /\ t \in Socket /\ SocketOK(t) /\ t.tab = sockets[i].tab /\ t.client = sockets[i].client
      /\ UNCHANGED <<loggedIn, tabs, onlineStatusSocket, created, list, raced, overlapped,
                     silent>>
  BY DEF Handled
<1>3. \A j \in Created : /\ sockets'[j] \in Socket /\ SocketOK(sockets'[j])
                         /\ sockets'[j].tab = sockets[j].tab
                         /\ sockets'[j].client = sockets[j].client
  BY <1>1, <1>2, CreatedFacts
<1>4. \A j \in Ids : j \notin Created => sockets'[j] = NoSocket
  BY <1>1, CreatedFacts
<1>5. TypeOK'
  BY <1>1, <1>2, <1>3, <1>4 DEF StatusInv, TypeOK
<1>6. SocketsOK'
  BY <1>1, <1>3 DEF SocketsOK
<1>7. OneServes'
  <2>1. \A j \in Created : Serves(j)' => Serves(j)
    BY <1>1
  <2> QED
    BY <2>1, <1>1, <1>2 DEF StatusInv, OneServes
<1>8. HeldOK'
  BY <1>1, <1>2, <1>3 DEF StatusInv, HeldOK
<1> QED
  BY <1>5, <1>6, <1>7, <1>8 DEF StatusInv

\* The status stays when no consumer of the user begins or ends to be in.
LEMMA StatusStays ==
    ASSUME StatusInv, NEW i \in Created, NEW t, Handled(i, t), UNCHANGED is_online,
           t.consumer = "in" /\ t.user <=> Inside(i)
    PROVE  StatusOK'
<1>1. /\ Created' = Created /\ \A j \in Created : Inside(j)' <=> Inside(j)
  BY HandledFacts
<1> QED
  BY <1>1 DEF StatusInv, StatusOK, Handled

\* The list stays when nothing is received and no consumer ends.
LEMMA ListStays ==
    ASSUME StatusInv, NEW i \in Created, NEW t, Handled(i, t), UNCHANGED news,
           Serves(i), t.consumer # "gone", t.inbox = sockets[i].inbox
    PROVE  ListOK'
<1>1. /\ Created' = Created /\ sockets'[i] = t
      /\ \A j \in Created : j # i => sockets'[j] = sockets[j]
      /\ \A j \in Created : Serves(j)' <=> Serves(j)
  BY HandledFacts, CreatedFacts
<1>2. Current' = Current /\ UNCHANGED <<list, raced, overlapped, silent>>
  BY DEF Current, Handled
<1>3. \A j \in Created : \A status : Heeds(sockets[j], status) => Heeds(sockets'[j], status)
  BY <1>1 DEF Heeds, Tells, Handled
<1> QED
  BY <1>1, <1>2, <1>3 DEF StatusInv, ListOK, Told

LEMMA ServedFacts ==
    ASSUME StatusInv, NEW i \in Ids, sockets[i].consumer \notin {"none", "gone"}
    PROVE  /\ i \in Created /\ Serves(i) /\ sockets[i] \in Socket /\ SocketOK(sockets[i])
           /\ sockets \in [Ids -> Socket \union {NoSocket}]
           /\ is_online \in BOOLEAN /\ news \in Seq(BOOLEAN)
<1>1. i \in Created
  BY NoSocketFacts
<1> QED
  BY <1>1, CreatedFacts DEF Serves, StatusInv, TypeOK

LEMMA AcceptStep ==
    ASSUME StatusInv, NEW i \in Ids, Accept(i)
    PROVE  StatusInv'
<1> PICK s, t : s = sockets[i] /\ t = [s EXCEPT !.consumer = "accepted"]
  OBVIOUS
<1>1. /\ s.consumer = "new" /\ sockets' = [sockets EXCEPT ![i] = t]
      /\ UNCHANGED <<loggedIn, tabs, onlineStatusSocket, created, is_online, news, list, raced,
                     overlapped, silent>>
  BY DEF Accept, browser, friend
<1>2. /\ i \in Created /\ Serves(i) /\ s \in Socket /\ SocketOK(s)
      /\ is_online \in BOOLEAN /\ news \in Seq(BOOLEAN)
  BY <1>1, ServedFacts
<1>3. /\ t \in Socket /\ t.tab = s.tab /\ t.client = s.client /\ t.inbox = s.inbox
      /\ t.user = s.user /\ t.consumer = "accepted"
  BY <1>2 DEF Socket
<1>4. SocketOK(t)
  BY <1>2, <1>3 DEF SocketOK
<1>5. Handled(i, t)
  BY <1>1, <1>3, <1>4 DEF Handled
<1>6. StatusOK'
  BY <1>1, <1>2, <1>3, <1>5, StatusStays DEF Inside
<1>7. ListOK'
  BY <1>1, <1>2, <1>3, <1>5, ListStays
<1> QED
  BY <1>1, <1>2, <1>5, <1>6, <1>7, HandledStep

LEMMA SetOnlineStep ==
    ASSUME StatusInv, NEW i \in Ids, SetOnline(i)
    PROVE  StatusInv'
<1> PICK s, t : s = sockets[i] /\ t = [s EXCEPT !.consumer = "in"]
  OBVIOUS
<1>1. /\ s.consumer = "accepted" /\ sockets' = [sockets EXCEPT ![i] = t]
      /\ UNCHANGED <<loggedIn, tabs, onlineStatusSocket, created, news, list, raced,
                     overlapped, silent>>
  BY DEF SetOnline, browser, friend
<1>2. /\ i \in Created /\ Serves(i) /\ s \in Socket /\ SocketOK(s) /\ news \in Seq(BOOLEAN)
  BY <1>1, ServedFacts
<1>3. s.user \in BOOLEAN /\ is_online \in BOOLEAN
  BY <1>1, <1>2, SocketFields, ServedFacts
<1>4. /\ s.user => is_online' = TRUE
      /\ ~s.user => is_online' = is_online
      /\ is_online' \in BOOLEAN
  <2>1. is_online' = IF s.user THEN TRUE ELSE is_online
    BY DEF SetOnline, Update
  <2> QED
    BY <2>1, <1>3
<1>5. /\ t \in Socket /\ t.tab = s.tab /\ t.client = s.client /\ t.inbox = s.inbox
      /\ t.user = s.user /\ t.consumer = "in"
  BY <1>2 DEF Socket
<1>6. SocketOK(t)
  BY <1>1, <1>2, <1>5 DEF SocketOK
<1>7. Handled(i, t)
  BY <1>1, <1>5, <1>6 DEF Handled
<1>8. StatusOK'
  <2>1. CASE s.user
    <3>1. Created' = Created /\ Inside(i)' /\ is_online'
      BY <2>1, <1>2, <1>4, <1>5, <1>7, HandledFacts
    <3> QED
      BY <3>1, <1>2 DEF StatusOK
  <2>2. CASE ~s.user
    <3>1. UNCHANGED is_online /\ (t.consumer = "in" /\ t.user <=> Inside(i))
      BY <2>2, <1>4, <1>5 DEF Inside
    <3> QED
      BY <3>1, <1>2, <1>7, StatusStays
  <2> QED
    BY <2>1, <2>2
<1>9. ListOK'
  BY <1>1, <1>2, <1>5, <1>7, ListStays
<1> QED
  BY <1>1, <1>2, <1>4, <1>7, <1>8, <1>9, HandledStep

LEMMA LastOfTail ==
    ASSUME NEW S, NEW seq \in Seq(S), seq # <<>>
    PROVE  /\ Head(seq) \in S /\ Tail(seq) \in Seq(S)
           /\ Tail(seq) # <<>> => Tail(seq)[Len(Tail(seq))] = seq[Len(seq)]
           /\ Tail(seq) = <<>> => Head(seq) = seq[Len(seq)]
<1>1. Len(seq) \in Nat /\ Len(seq) >= 1
  BY EmptySeq, LenProperties
<1>2. /\ Head(seq) = seq[1] /\ Head(seq) \in S /\ Tail(seq) \in Seq(S)
      /\ Len(Tail(seq)) = Len(seq) - 1
      /\ \A k \in 1..(Len(seq) - 1) : Tail(seq)[k] = seq[k + 1]
  BY <1>1, HeadTailProperties, ElementOfSeq
<1>3. CASE Tail(seq) = <<>>
  <2>1. Len(Tail(seq)) = 0
    BY <1>2, <1>3, EmptySeq
  <2>2. Len(seq) = 1
    BY ONLY <2>1, <1>1, <1>2
  <2> QED
    BY <2>2, <1>2, <1>3
<1>4. CASE Tail(seq) # <<>>
  <2>1. Len(Tail(seq)) >= 1
    BY <1>1, <1>2, <1>4, EmptySeq, LenProperties
  <2> QED
    BY <2>1, <1>1, <1>2, <1>4
<1> QED
  BY <1>2, <1>3, <1>4

\* What the list will show after the messages of the socket does not change when one of them
\* is on its way.
LEMMA ReceiveStep ==
    ASSUME StatusInv, NEW i \in Ids, Receive(i)
    PROVE  StatusInv'
<1> PICK s, head, tail, t : /\ s = sockets[i] /\ head = Head(s.inbox) /\ tail = Tail(s.inbox)
                            /\ t = [s EXCEPT !.inbox = tail]
  OBVIOUS
<1>1. /\ s.consumer = "in" /\ s.inbox # <<>> /\ news' = Append(news, head)
      /\ sockets' = [sockets EXCEPT ![i] = t]
      /\ UNCHANGED <<loggedIn, tabs, onlineStatusSocket, created, is_online, list, raced,
                     overlapped, silent>>
  BY DEF Receive, browser
<1>2. /\ i \in Created /\ Serves(i) /\ s \in Socket /\ SocketOK(s)
      /\ is_online \in BOOLEAN /\ news \in Seq(BOOLEAN)
  BY <1>1, ServedFacts
<1>3. /\ head \in BOOLEAN /\ tail \in Seq(BOOLEAN)
      /\ tail # <<>> => tail[Len(tail)] = s.inbox[Len(s.inbox)]
      /\ tail = <<>> => head = s.inbox[Len(s.inbox)]
  <2>1. s.inbox \in Seq(BOOLEAN)
    BY <1>2, SocketFields
  <2> QED
    BY <2>1, <1>1, LastOfTail
<1>4. /\ news' \in Seq(BOOLEAN) /\ news' # <<>> /\ news'[Len(news')] = head
  <2>1. \A seq \in Seq(BOOLEAN), e \in BOOLEAN :
            /\ Append(seq, e) \in Seq(BOOLEAN) /\ Append(seq, e) # <<>>
            /\ Append(seq, e)[Len(Append(seq, e))] = e
    BY LastOfAppend
  <2>2. news \in Seq(BOOLEAN) /\ head \in BOOLEAN /\ news' = Append(news, head)
    BY <1>1, <1>2, <1>3
  <2> QED
    BY ONLY <2>1, <2>2
<1>5. /\ t \in Socket /\ t.tab = s.tab /\ t.client = s.client /\ t.inbox = tail
      /\ t.user = s.user /\ t.consumer = "in"
  BY <1>1, <1>2, <1>3 DEF Socket
<1>6. SocketOK(t)
  BY <1>1, <1>2, <1>5 DEF SocketOK
<1>7. Handled(i, t)
  BY <1>1, <1>5, <1>6 DEF Handled
<1>8. StatusOK'
  BY <1>1, <1>2, <1>5, <1>7, StatusStays DEF Inside
<1>9. ListOK'
  <2> SUFFICES ASSUME ~overlapped, ~silent, ~raced, list.at = "shown"
               PROVE  Told'
    BY <1>1 DEF ListOK
  <2>1. /\ Created' = Created /\ sockets'[i] = t /\ Serves(i)'
        /\ \A j \in Created : j # i => (Serves(j)' <=> Serves(j))
    BY <1>2, <1>5, <1>7, HandledFacts
  <2>2. \A j \in Created : Serves(j)' => j = i
    BY <2>1, <1>2 DEF StatusInv, OneServes
  <2>3. Tells(s, Current)
    BY <1>1, <1>2 DEF StatusInv, ListOK, Told, Heeds
  <2>4. (s.inbox[Len(s.inbox)]) = (s.client = "open")
    BY <2>3, <1>1 DEF Tells
  <2>5. Current' = head
    BY <1>4 DEF Current
  <2>6. Tells(t, head)
    BY <2>4, <1>3, <1>5 DEF Tells
  <2> QED
    BY <2>1, <2>2, <2>5, <2>6, <1>2 DEF Told, Heeds
<1> QED
  BY <1>1, <1>2, <1>4, <1>7, <1>8, <1>9, HandledStep

\* When the consumer ends, its client has said goodbye, and that has been received.
LEMMA DisconnectStep ==
    ASSUME StatusInv, NEW i \in Ids, Disconnect(i)
    PROVE  StatusInv'
<1> PICK s, t : s = sockets[i] /\ t = [s EXCEPT !.consumer = "gone"]
  OBVIOUS
<1>1. /\ s.client \in {"closing", "failing", "closed"} /\ s.consumer \in {"in", "new"}
      /\ s.consumer = "in" => s.inbox = <<>>
      /\ sockets' = [sockets EXCEPT ![i] = t]
      /\ UNCHANGED <<loggedIn, tabs, onlineStatusSocket, created, news, list, raced,
                     overlapped, silent>>
  BY DEF Disconnect, browser, friend
<1>2. /\ i \in Created /\ Serves(i) /\ s \in Socket /\ SocketOK(s)
      /\ is_online \in BOOLEAN /\ news \in Seq(BOOLEAN)
  BY <1>1, ServedFacts
<1>3. s.inbox = <<>>
  BY <1>1, <1>2 DEF SocketOK
<1>4. /\ s.consumer = "in" /\ s.user => is_online' = FALSE
      /\ ~(s.consumer = "in" /\ s.user) => is_online' = is_online
  BY <1>1 DEF Disconnect, Update
<1>5. is_online' \in BOOLEAN
  BY <1>2, <1>4
<1>6. /\ t \in Socket /\ t.tab = s.tab /\ t.client = s.client /\ t.inbox = s.inbox
      /\ t.user = s.user /\ t.consumer = "gone"
  BY <1>2 DEF Socket
<1>7. SocketOK(t)
  BY <1>1, <1>3, <1>6 DEF SocketOK
<1>8. Handled(i, t)
  BY <1>1, <1>6, <1>7 DEF Handled
<1>9. /\ Created' = Created /\ ~Serves(i)' /\ ~Inside(i)'
      /\ \A j \in Created : j # i => (Serves(j)' <=> Serves(j)) /\ (Inside(j)' <=> Inside(j))
  BY <1>2, <1>6, <1>8, HandledFacts
<1>10. overlapped \/ \A j \in Created : ~Serves(j)'
  BY <1>2, <1>9 DEF StatusInv, OneServes
<1>11. StatusOK'
  <2>1. CASE s.consumer = "in" /\ s.user
    <3>1. ~is_online'
      BY <2>1, <1>4
    <3>2. \A j \in Created : Inside(j)' => overlapped'
      <4>1. \A j : Inside(j)' => Serves(j)'
        BY DEF Inside, Serves
      <4> QED
        BY <4>1, <1>1, <1>10
    <3> QED
      BY <3>1, <3>2, <1>9 DEF StatusOK
  <2>2. CASE ~(s.consumer = "in" /\ s.user)
    <3>1. UNCHANGED is_online /\ (t.consumer = "in" /\ t.user <=> Inside(i))
      BY <2>2, <1>4, <1>6 DEF Inside
    <3> QED
      BY <3>1, <1>2, <1>8, StatusStays
  <2> QED
    BY <2>1, <2>2
<1>12. ListOK'
  <2> SUFFICES ASSUME ~overlapped, ~silent, ~raced, list.at = "shown"
               PROVE  Told'
    BY <1>1 DEF ListOK
  <2>1. Heeds(s, Current)
    BY <1>2 DEF StatusInv, ListOK, Told
  <2>2. Current = FALSE
    BY <2>1, <1>1, <1>3 DEF Heeds, Tells
  <2>3. Current' = Current
    BY <1>1 DEF Current
  <2> QED
    BY <2>2, <2>3, <1>9, <1>10 DEF Told
<1> QED
  BY <1>1, <1>2, <1>5, <1>8, <1>11, <1>12, HandledStep

-----------------------------------------------------------------------------
(* Steps of the friend *)

ListState == [at: {"away", "asked", "shown"}, status: BOOLEAN]

LEMMA FriendStep ==
    ASSUME StatusInv, UNCHANGED <<loggedIn, tabs, onlineStatusSocket, sockets, created,
                                  is_online, overlapped, silent>>,
           list' \in ListState, news' \in Seq(BOOLEAN), raced' \in BOOLEAN, ListOK'
    PROVE  StatusInv'
<1>1. Created' = Created
  BY DEF Created
<1>2. TypeOK'
  BY <1>1 DEF StatusInv, TypeOK, ListState
<1>3. SocketsOK' /\ HeldOK'
  BY <1>1 DEF StatusInv, SocketsOK, HeldOK
<1>4. OneServes' /\ StatusOK'
  BY <1>1 DEF StatusInv, OneServes, Serves, StatusOK, Inside
<1> QED
  BY <1>2, <1>3, <1>4 DEF StatusInv

LEMMA FriendFacts ==
    ASSUME StatusInv
    PROVE  /\ list \in ListState /\ news \in Seq(BOOLEAN) /\ is_online \in BOOLEAN
           /\ list.at \in {"away", "asked", "shown"} /\ list.status \in BOOLEAN
           /\ raced \in BOOLEAN
BY DEF StatusInv, TypeOK, ListState

LEMMA AskListStep ==
    ASSUME StatusInv, AskList
    PROVE  StatusInv'
<1>1. /\ list' = [at |-> "asked", status |-> is_online] /\ raced' = ~AtRest
      /\ UNCHANGED <<loggedIn, tabs, onlineStatusSocket, sockets, created, is_online, news,
                     overlapped, silent>>
  BY DEF AskList, browser
<1>2. list' \in ListState /\ list'.at = "asked"
  BY <1>1, FriendFacts DEF ListState
<1>3. raced' \in BOOLEAN
  BY <1>1
<1>4. news' \in Seq(BOOLEAN)
  BY <1>1, FriendFacts
<1>5. ListOK'
  BY <1>2 DEF ListOK
<1> QED
  BY <1>1, <1>2, <1>3, <1>4, <1>5, FriendStep

\* At rest a socket that is served is open and has been heard, and one of the user has set the
\* user online.
LEMMA RestFacts ==
    ASSUME StatusInv, AtRest, ~overlapped, list.status = is_online
    PROVE  Told
<1>1. Current = is_online
  BY DEF AtRest, Current
<1>2. ASSUME NEW i \in Created, Serves(i)
      PROVE  Heeds(sockets[i], Current)
  <2>1. sockets[i] # NoSocket /\ sockets[i].consumer # "gone" /\ i \in Ids
    BY <1>2, CreatedFacts, NoSocketFacts DEF Serves
  <2>2. sockets[i].client = "open" /\ sockets[i].consumer = "in" /\ sockets[i].inbox = <<>>
    BY <2>1 DEF AtRest, Settled
  <2>3. CASE is_online
    <3>1. is_online = TRUE
      BY <2>3, FriendFacts
    <3> QED
      BY <2>2, <3>1, <1>1 DEF Heeds, Tells
  <2>4. CASE ~is_online
    <3>1. ~sockets[i].user
      BY <2>2, <2>4 DEF StatusInv, StatusOK, Inside
    <3>2. is_online = FALSE
      BY <2>4, FriendFacts
    <3> QED
      BY <2>2, <3>1, <3>2, <1>1 DEF Heeds
  <2> QED
    BY <2>3, <2>4
<1>3. ASSUME \A i \in Created : ~Serves(i)
      PROVE  Current = FALSE
  <2>1. ~is_online
    BY <1>3 DEF StatusInv, StatusOK, Inside, Serves
  <2> QED
    BY <2>1, <1>1, FriendFacts
<1> QED
  BY <1>2, <1>3 DEF Told

LEMMA DrawListStep ==
    ASSUME StatusInv, DrawList
    PROVE  StatusInv'
<1>1. /\ list' = [list EXCEPT !.at = "shown"]
      /\ raced' = (raced \/ ~AtRest \/ list.status # is_online)
      /\ UNCHANGED <<loggedIn, tabs, onlineStatusSocket, sockets, created, is_online, news,
                     overlapped, silent>>
  BY DEF DrawList, browser
<1>2. list' \in ListState /\ list'.status = list.status
  BY <1>1, FriendFacts DEF ListState
<1>3. raced' \in BOOLEAN
  BY <1>1
<1>4. news' \in Seq(BOOLEAN)
  BY <1>1, FriendFacts
<1>5. ListOK'
  <2> SUFFICES ASSUME ~overlapped, ~raced'
               PROVE  Told'
    BY <1>1 DEF ListOK
  <2>1. AtRest /\ list.status = is_online
    BY <1>1
  <2>2. Told
    BY <2>1, RestFacts
  <2>3. Created' = Created /\ Current' = Current
    BY <1>1, <1>2 DEF Created, Current
  <2> QED
    BY <2>2, <2>3, <1>1 DEF Told, Serves
<1> QED
  BY <1>1, <1>2, <1>3, <1>4, <1>5, FriendStep

LEMMA UpdateFriendStatusStep ==
    ASSUME StatusInv, UpdateFriendStatus
    PROVE  StatusInv'
<1> PICK head, tail : head = Head(news) /\ tail = Tail(news)
  OBVIOUS
<1>1. /\ news # <<>> /\ news' = tail
      /\ list' = IF list.at = "shown" THEN [list EXCEPT !.status = head] ELSE list
      /\ UNCHANGED <<loggedIn, tabs, onlineStatusSocket, sockets, created, is_online, raced,
                     overlapped, silent>>
  BY DEF UpdateFriendStatus, browser
<1>2. /\ list \in ListState /\ news \in Seq(BOOLEAN) /\ raced \in BOOLEAN
  BY FriendFacts
<1>3. /\ head \in BOOLEAN /\ tail \in Seq(BOOLEAN)
      /\ tail # <<>> => tail[Len(tail)] = news[Len(news)]
      /\ tail = <<>> => head = news[Len(news)]
  BY <1>1, <1>2, LastOfTail
<1>4. /\ list' \in ListState /\ list'.at = list.at
      /\ list.at = "shown" => list'.status = head
  BY <1>1, <1>2, <1>3 DEF ListState
<1>5. ListOK'
  <2> SUFFICES ASSUME ~overlapped, ~silent, ~raced, list.at = "shown"
               PROVE  Told'
    BY <1>1, <1>4 DEF ListOK
  <2>1. Told
    BY DEF StatusInv, ListOK
  <2>2. Current' = Current
    BY <1>1, <1>3, <1>4 DEF Current
  <2>3. Created' = Created
    BY <1>1 DEF Created
  <2> QED
    BY <2>1, <2>2, <2>3, <1>1 DEF Told, Serves
<1>6. news' \in Seq(BOOLEAN) /\ raced' \in BOOLEAN
  BY <1>1, <1>2, <1>3
<1> QED
  BY <1>1, <1>4, <1>5, <1>6, FriendStep

-----------------------------------------------------------------------------
(* The theorems *)

LEMMA StatusInit == Init => StatusInv
<1> SUFFICES ASSUME Init
             PROVE  StatusInv
  OBVIOUS
<1>1. /\ loggedIn = FALSE /\ tabs = [t \in Tabs |-> NewTab]
      /\ onlineStatusSocket = [t \in Tabs |-> None]
      /\ sockets = [i \in Ids |-> NoSocket] /\ created = 0 /\ is_online = FALSE
      /\ news = <<>> /\ list = [at |-> "away", status |-> FALSE]
      /\ overlapped = FALSE /\ silent = FALSE /\ raced = FALSE
  BY DEF Init
<1>2. \A i : i \notin Created
  BY <1>1 DEF Created
<1>3. TypeOK
  <2>1. <<>> \in Seq(BOOLEAN) /\ MaxSockets \in Nat /\ 0 <= MaxSockets
    BY EmptySeq, OnlineStatusAssumption
  <2>2. tabs \in [Tabs -> TabState]
    BY <1>1 DEF NewTab, TabState
  <2>3. list \in [at: {"away", "asked", "shown"}, status: BOOLEAN]
    BY <1>1
  <2> QED
    BY <1>1, <1>2, <2>1, <2>2, <2>3 DEF TypeOK
<1>4. SocketsOK /\ OneServes /\ HeldOK
  BY <1>2 DEF SocketsOK, OneServes, HeldOK
<1>5. StatusOK /\ ListOK
  BY <1>1, <1>2 DEF StatusOK, ListOK
<1> QED
  BY <1>3, <1>4, <1>5 DEF StatusInv

LEMMA StatusStep == StatusInv /\ [Next]_vars => StatusInv'
<1> SUFFICES ASSUME StatusInv, [Next]_vars
             PROVE  StatusInv'
  OBVIOUS
<1>1. CASE Login
  BY <1>1, LoginStep
<1>2. ASSUME NEW t \in Tabs, SetOnlineStatus(t) \/ Logout(t) \/ Page(t)
      PROVE  StatusInv'
  BY <1>2, SetOnlineStatusStep, LogoutStep, IsUserLoggedInStep, FetchUserIdStep, LogoutConfirmedStep DEF Page
<1>3. ASSUME NEW i \in Ids, OnOpen(i) \/ OnClose(i) \/ Drop(i)
      PROVE  StatusInv'
  BY <1>3, OnOpenStep, OnCloseStep, DropStep
<1>4. ASSUME NEW i \in Ids, Server(i)
      PROVE  StatusInv'
  BY <1>4, AcceptStep, SetOnlineStep, ReceiveStep, DisconnectStep DEF Server
<1>5. CASE AskList \/ DrawList \/ UpdateFriendStatus
  BY <1>5, AskListStep, DrawListStep, UpdateFriendStatusStep
<1>6. CASE UNCHANGED vars
  BY <1>6 DEF vars, browser, friend, StatusInv, TypeOK, Created, SocketsOK, OneServes, Serves,
     HeldOK, StatusOK, Inside, ListOK, Told, Heeds, Tells, Current
<1> QED
  BY <1>1, <1>2, <1>3, <1>4, <1>5, <1>6 DEF Next

\* The invariant of the sockets, the row and the list: while no two sockets overlapped one
\* consumer serves, its tab holds it, and the last message under way tells whether it is open,
\* unless the socket is of nobody and the list was loaded while it was open.
THEOREM StatusInductive == Spec => []StatusInv
<1>1. Init => StatusInv
  BY StatusInit
<1>2. StatusInv /\ [Next]_vars => StatusInv'
  BY StatusStep
<1> QED
  BY <1>1, <1>2, PTL DEF Spec

\* Sockets are those created, each of a tab and of the user or of nobody; messages and lists
\* have a status.
THEOREM TypeCorrect == Spec => []TypeOK
<1>1. StatusInv => TypeOK
  BY DEF StatusInv
<1> QED
  BY <1>1, StatusInductive, PTL

LEMMA InIsInside ==
    ASSUME StatusInv, NEW i \in Ids
    PROVE  In(i) <=> Inside(i)
<1>1. CASE i \in Created
  <2>1. sockets[i] # NoSocket
    BY <1>1, NoSocketFacts
  <2> QED
    BY <2>1, <1>1 DEF In, Inside
<1>2. CASE i \notin Created
  BY <1>2, CreatedFacts DEF In, Inside
<1> QED
  BY <1>1, <1>2

\* The row of UserStatus: a user is not left online without a connection, and one with a
\* connection is online unless two overlapped (OnlineStatusConsumer.connect and disconnect).
THEOREM StatusIsRightAlways == Spec => []StatusIsRight
<1>1. StatusInv => StatusIsRight
  <2> SUFFICES ASSUME StatusInv
               PROVE  StatusIsRight
    OBVIOUS
  <2>1. \A i \in Created : i \in Ids
    BY CreatedFacts
  <2>2. \A i \in Ids : In(i) <=> Inside(i)
    BY InIsInside
  <2>3. \A i : Inside(i) => i \in Created
    BY DEF Inside
  <2> QED
    BY <2>1, <2>2, <2>3 DEF StatusInv, StatusOK, StatusIsRight
<1> QED
  BY <1>1, StatusInductive, PTL

\* The list of a friend, fed by the messages of the page, agrees with the row, written by the
\* consumer, when nothing is under way and no socket of nobody is open (createFriendsList,
\* updateFriendStatus).
THEOREM FriendSeesStatusAlways == Spec => []FriendSeesStatus
<1>1. StatusInv => FriendSeesStatus
  <2> SUFFICES ASSUME StatusInv, AtRest, list.at = "shown", ~overlapped, ~silent, ~raced,
                      \A i \in Ids : ~Anonymous(i)
               PROVE  list.status = is_online
    BY DEF FriendSeesStatus
  <2>1. Told /\ Current = list.status
    BY DEF StatusInv, ListOK, AtRest, Current
  <2>2. CASE \E i \in Created : Serves(i)
    <3> PICK i \in Created : Serves(i)
      BY <2>2
    <3>1. sockets[i] # NoSocket /\ sockets[i].consumer # "gone" /\ i \in Ids
      BY CreatedFacts, NoSocketFacts DEF Serves
    <3>2. sockets[i].client = "open" /\ sockets[i].consumer = "in" /\ sockets[i].inbox = <<>>
      BY <3>1 DEF AtRest, Settled
    <3>3. sockets[i].user /\ i \in Created
      BY <3>1 DEF Anonymous, Present, Serves
    <3>4. is_online /\ Tells(sockets[i], list.status)
      BY <2>1, <3>2, <3>3 DEF StatusInv, StatusOK, Inside, Told, Heeds
    <3>5. list.status = TRUE
      BY <3>2, <3>4 DEF Tells
    <3> QED
      BY <3>4, <3>5, FriendFacts
  <2>3. CASE \A i \in Created : ~Serves(i)
    <3>1. list.status = FALSE
      BY <2>1, <2>3 DEF Told
    <3>2. ~is_online
      BY <2>3 DEF StatusInv, StatusOK, Inside, Serves
    <3> QED
      BY <3>1, <3>2, FriendFacts
  <2> QED
    BY <2>2, <2>3
<1> QED
  BY <1>1, StatusInductive, PTL
=============================================================================
