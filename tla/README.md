# ft_transcendence in TLA+

ft_transcendence is a web pong: a Django backend with PostgreSQL, WebSocket
consumers over Django Channels, and a single-page front end in plain JavaScript.
Players sign up, befriend and message each other, play an online pong in one
browser window, and organise tournaments of eight players whose seven matches are
played in a 3D pong.

This directory holds TLA+ modules for the parts of it that are hard to get right,
the TLC configurations that check them on small instances, and TLAPS proofs of what
matters most for every value of the constants. All paths below are relative to
`src/docker/srcs/`; `django/` abbreviates `uwsgi-django/`.

## 1. Inventory

| Component | State it keeps | Operations | Talks to | Hard because |
|---|---|---|---|---|
| Tournament rows and bracket (`django/pong/models.py`, `views/tournament/create_views.py`) | rows of `Tournament` and `Match` | create (one transaction), `clean` on every save | everything below | `save()` writes whole rows; a limit checked on every save |
| Results of matches (`views/tournament/save_views.py`) | the same rows, a message for the organizer | `save_game_result`, `release_match` | signal `round_finished`, chat | nine statements in autocommit, no lock, each may be the last |
| Deleting (`views/tournament/delete_views.py`) | the same rows | check, then cascade | | runs between the statements of the above |
| Starting a match (`views/navi_views.py`) | `Match.is_playing` | `play_tournament` | the match page | check outside the transaction |
| Match page of the SPA (`django/trans_pj/static/spa/js`) | path, current view, what is loading | `switchPage`, `renderView`, `dispose` | `play_tournament`, `release_match` | nothing is awaited, several tabs |
| Tournament pages (`pong/static/pong/js/tournament`, `get_views.py`) | which state is drawn, what is asked for; the tournaments of an organizer | enter, switch state, submit a form, delete | the rows, other tabs | answers drawn late; check in one request, create in another |
| 3D match engine (`vite/pong-three/src/js`) | scene, scores, `isResetting` | frame loop, physics, `endGame` | `save_game_result` | asynchronous frames that overlap |
| Online pong, server (`django/pong/online`) | one game per consumer, one group per user | connect, initialize, update, broadcast, disconnect | its page through a socket, other consumers through the channel layer | handlers that sleep, messages in three queues |
| Online pong, client (`pong/static/pong/js/online`) | `gameState`, `readyToSendNext`, the loop | start, receive, frame, stop, dispose | its consumer | flow control by one flag |
| Friends and blocks (`django/accounts/views/friend.py`, `block.py`) | rows of `Friend`, block lists | request, cancel, accept, reject, delete, block | | check-then-create, stale rows |
| Accounts and sessions (`django/accounts/views`, `refreshJWT.js`) | user rows, TOTP devices, JWT cookies | login, 2FA code, enable, disable, edit, refresh, logout | every request | the second factor is in two tables, `save()` writes whole rows, tokens expire while the user is away |
| Online status (`django/accounts/online_consumers.py`, `online-status.js`) | one row per user, one socket per tab | connect, disconnect, broadcast | all open sockets of a user, the lists of friends | several sockets, one row, late events |
| Chat, server (`django/chat`) | sessions, messages, rooms | connect, receive, system message | tournaments | session created by check-then-create in several processes |
| Chat, client (`chat/static/chat/js`) | `dmSocket`, `reconnectAttempts`, timers | set up, close, reconnect, dispose | its consumer | one variable for whatever socket there is, each event counted |
| SPA router (`spa/js/routing`) | route table | match a path | pages | a table |
| 3D scenes, deployment, `unused/` | | | | no protocol of their own |

What makes each of them correct:

* **Tournament.** A match can start exactly when both players are known; nobody sits
  in a match they did not win their way to, and nobody meets themselves; each match is
  decided once; each round is announced once, in order and only when over; the last
  result ends the tournament; the organizer always has a match to start.
* **Match page.** A match runs on one screen at a time; a match that is on no screen is
  not marked as being played; leaving it changes nothing but that mark.
* **Online pong.** One message is between page and consumer at most; the page draws the
  game its consumer computes; a match has one winner and both sides learn that it is
  over; the ball neither leaves the field nor goes through a paddle; leaving a game
  resets it.
* **3D engine.** One result per game, with the points that were played, however frames and
  pauses overlap; a game goes on after each point; it leaves the page it was played on alone
  once that is left.
* **Tournament pages.** One ongoing tournament; what is drawn is what the page's state stands
  for; a page shows something in the end.
* **Friends.** Two users are strangers, one has asked, or they are friends; a pending request
  can always be answered.
* **Chat.** Two users have one session; messages arrive in order, without holes, on every open
  page of the two; a tab reconnects a bounded number of times and recovers from failures.
* **Accounts.** A user who is asked for a code has a device that makes one; a session lasts as
  long as the user comes back in time.
* **Online status.** A user with a connection is online, one without is not, friends see which.

The system runs as two kinds of process, and the modules depend on which. HTTP requests are
served by the processes and threads of uWSGI; Django commits every statement on its own
unless a transaction is written down, so two requests interleave between any two statements.
WebSockets are served by one daphne process: its consumers interleave at every `await`, each
handles one event at a time, and all database calls of consumers (`database_sync_to_async`)
share one thread. `InMemoryChannelLayer` is the memory of one process: what an HTTP request
sends to a group reaches no consumer.

PROJECT.json lists the hazards of the code line by line, with the properties that guard
against each, or the reason why none does.

## 2. Modules

| Module | Models | Extends / uses |
|---|---|---|
| `Bracket` | which matches there are and who feeds whom | |
| `TournamentServer` | the tournament endpoints, statement by statement, for any clients | `Bracket` |
| `TournamentUI` | the same endpoints under the requests the pages send, overlapping (`UISpec`) or one at a time (`SerialSpec`) | `TournamentServer`, instance of `Knockout` |
| `Knockout` | abstract specification: what a tournament promises | `Bracket` |
| `MatchPages` | the page of one match in several tabs, composed with the endpoints | `TournamentServer` |
| `PongPhysics` | one frame of the online pong | |
| `PongOnline` | consumers, group and pages of one user's online games | `PongPhysics` |
| `PongMatch3D` | the engines, frames and pauses of the 3D games of a tab | |
| `TournamentPages` | the tournament page in several tabs, with the endpoints it uses | |
| `Friendship` | the table of friends and the five endpoints that change it | instance of `Relations` |
| `Relations` | abstract specification: what two users are to each other | |
| `DirectMessages` | sessions, messages, consumers and pages of the chat, system messages | |
| `DMPage` | the socket, timers and reconnections of the chat page of a tab | |
| `Accounts` | the second factor and the session of a user | |
| `OnlineStatus` | the sockets of a user's tabs, their consumers, the row and a friend's list | |
| `TournamentServerProofs`, `PongOnlineProofs`, `PongMatch3DProofs`, `TournamentPagesProofs`, `FriendshipProofs`, `DirectMessagesProofs`, `AccountsProofs`, `OnlineStatusProofs` | theorems | the module they name (`TournamentServerProofs`: also `TournamentUI` and `MatchPages`; `DirectMessagesProofs`: also `DMPage`), `TLAPS`, theorem libraries |
| `MC*` | values for TLC | the module they name |

Operators called "Broken: ..." in a comment are never used by a specification. Each is a
plausible bug at one place of the code; PROJECT.json says which property finds it.

### TournamentServer

A view runs in a thread of its own and Django commits each statement. `req[q]` is what
the handler of request `q` holds between two statements: the name of the next one and the
rows in memory. An action is one statement: `GetMatch` is `Match.objects.get` with the
result filled in (save_views.py:115-128), `SaveMatch` is `match.save()` (:129),
`LoadTournament` the lazy load of `match.tournament` (:131-132), `GetNextMatch` and
`SaveNextMatch` are `assign_winner_to_next_match` (:38-81), `CheckRound`, `SaveRound`,
`Notify`, `CheckAll` and `SaveAll` the tail (:137-157). `GetToRelease`/`SaveReleased`,
`GetToPlay`/`SavePlaying` and `GetToDelete`/`DeleteTournament` are the other three
endpoints; `CreateTournament` is one action because the code makes it one transaction.
A save writes the row that was read, all columns of it, and inserts it again if it is
gone (`StoreMatch`, `StoreTournament`); the foreign key refuses a match without its
tournament (`MatchRefused`). `Abort` ends a handler between two statements: an exception
(the tournament limit of `Tournament.clean`, a database error) or the end of the process.

Nicknames are seats (`clean` makes them distinct), scores are who leads. `reported` and
`life` are history variables: the winners ever stored, and whether the tournament exists.

### TournamentUI and Knockout

Pages link to the game of a match only if it can start and is not finished
(`StateBaseRound._displayMatches`), and `PongApp` checks that again. `SerialSpec` is one
browser that waits for each answer. `Knockout` knows no rows and no requests: `Open`,
`Decide`, `Announce`, `Close`, `Cancel`. `ImplementsKnockout` is its specification under
the mapping `winner[m] = matches[m].winner`, with `Status` computed from `life` and the
tournament row.

### MatchPages

`tabs[t]` is the state of the SPA in a tab: `path` is `window.location`, `view` is
`currentView`, `owns` says that the view's `previousPath` is the match's, `loading` is how
far `renderView` has come. `sent` holds requests that are on their way, in no order.
`ConstructView` and `ShowMatch` are the two halves of `renderView` around its awaits;
`Dispose` is `GameMatch.dispose`, which posts a release only for a path of a match. The
server side is the endpoints of `TournamentServer`, composed by naming their actions with
the thread of the tab and kind of request.

### PongPhysics and PongOnline

`Rally` is `handle_collisions` after the side walls followed by `update_ball_position`;
`OffPaddle` is `adjust_ball_direction_and_speed`; `Moved` is `_updatePaddlePosition` for
the keys that may be down. Positions are integers and the vertical direction counts in
`1/Unit`; products of floats are rounded, the speed up and the vertical move down. No
property compares exact positions.

`PongOnline` has a consumer for each socket and three kinds of queue: `up[s]` (messages of
the page), `layer[s]` (messages of the group, each consumer has its channel) and `down[s]`.
Channels dispatches to a consumer one thing at a time, so while `reset_ball` sleeps
(`consumer[s] = "resetting"`) nothing else of it is handled: `UpdateGoal` is the update up
to the sleep, `ResetBall` the rest of it, score, end of the match, broadcast included.
`SendClientState` is a frame that sends; frames that send nothing move paddles that the
next message overwrites, and are left out. `shown[s]` remembers whose game a page shows.

### PongMatch3D

`engines[v]` is the `PongEngine` of the v-th visit of a match page. A frame that counts a goal
awaits a second in the middle, and the frames after it go on: `Animate` is a frame up to the
pause (`updateGame`, `handleCollisions`, `updateScore`, `checkMatchEnd`), `Serve` and
`DisplayEndGameButton` what resumes after it. The number of sleeping frames of each kind is
part of the engine. `Disposed` is `PongEngine.dispose`, which cancels the next frame and no
timer. The ball is on the field or behind the line of a player; how it got there is the
matter of `PongPhysics`. `results[v]` is what was posted: the request itself, and that it may
be refused, is `GetMatch` of `TournamentServer`.

### TournamentPages

A tab has one container. `currentRound` is `RoundManager`'s state, `container` the state whose
content is drawn, `asked` the requests of states the page went through, whose answers are
drawn when they come. `SaveTournament`, `IsOngoing` and `StoreTournament` are the three parts
of a submitted form: the dialog, the page's question whether there is an ongoing tournament,
the creation. `ConfirmDelete` and `Delete` are the two of deleting. A rejected request calls
`tournamentHandleCatchError`, which replaces the page, and every script of the tab with it
(`Alert`).

### Friendship and Relations

`friends[i]` is the row with id `i`. A request is one `exists()` per step (`Check`: three of
the view, two of `Friend.save`), then `Insert`; or `Get` and the write based on the row that
was read (`DeleteRequest`, `Accept`), or `FindFriend` and `DeleteFriend`. `Requests[u]` says
how many requests a user may have in progress. `KeepsRelations` is the specification of
`Relations` under the mapping `RelationOf`, which reads the rows between two users as one
relation; `raced` names the pairs whose requests about each other once overlapped, about which
nothing is promised.

### DirectMessages

`page[p]` is a page and the consumer behind its socket: `Load` renders the stored messages,
`Connect`, `Look`, `Create`, `AddMembers` are `get_session`, which holds daphne's database
thread throughout, `Join` is `group_add` and `accept`. `Receive` stores a message and
`Broadcast` sends it to the room; in between the consumer handles nothing else. A system
message goes through the same `get_session` in a thread of another process (`NoticeLook` to
`NoticeStore`) and reaches no page that is open.

### DMPage

`dmSocket` is the variable of `setup-dm-websocket.js`. `Drops`, `ServerCloses`, `Fails` and
`IsClosed` are the events of a socket; whichever socket they are of, they give up the one in
`dmSocket` (`Lost`). A failure plans two reconnections, one for `error` and one for `close`, a
drop plans one, and a close that is clean plans none, whether the page began it (`IsClosed`) or
`DMConsumer.receive` did (`ServerCloses`). `timers[t]` counts the reconnections of a target that
are pending; each is a callback of its own (`Reconnect`, `ReturnToList`), and events of sockets
come between two of them. `Open` and `Render` are the two halves of showing a page.

### Accounts

A request holds the `enable_2fa` of the row it was authenticated with and the devices it has
read. Enabling is `SaveEnabled`, `GetDevice`, `CreateDevice` or `SaveDevice`; disabling is
`ListDevices`, one `DeleteDevice` per row, `SaveDisabled`; `SaveEdit` is the `user.save()` of
any other view, which writes `enable_2fa` back. `access` and `refresh` are the ticks the
cookies have left. `Click` is `refreshJWT`, called by every link; `Refresh` is its answer.

### OnlineStatus

`sockets[i]` is a socket with its consumer: what the page believes, what is in its way to the
consumer, and how far the consumer's `connect` has come. `onlineStatusSocket` is the variable
of `online-status.js`: `OnOpen` sends on it and `OnClose` disconnects it, whichever socket the
event is of. `news` are the broadcasts to a friend, `list` is what the friend's page shows.

`setOnlineStatus` awaits two answers: `SetOnlineStatus` asks whether somebody is logged in,
`IsUserLoggedIn` has the answer and asks for the profile, `FetchUserId` has it and makes the
socket. What the server answers depends on the cookies sent with the question, so a guest's
`SetOnlineStatus` changes nothing and is left out; a logout may come between any two of the
three. A socket that is made after the logout is of nobody (`user` is false, `Anonymous`): its
consumer accepts it and cannot write a row, but relays what the page says of the user. One
`setOnlineStatus` of a tab is under way at a time.

## 3. What the runs show

| Run | Configuration | Bounds | States | Outcome |
|---|---|---|---|---|
| `races` | MCTournamentServer | 2 rounds, 2 threads, 4 requests of any kind | 2.1 M | six invariants hold |
| `serial` | MCTournamentSerial | 3 rounds, 1 thread, 8 requests | 0.4 M | refinement of `Knockout`, two invariants, a liveness property |
| `siblings_overwrite` | MCSiblingWinnersMeet | 2 rounds, 2 threads, 3 requests | | violated |
| `pages` | MCMatchPages | 2 tabs, 3 visits | 0.8 M | an invariant and a liveness property |
| `tournament_pages` | MCTournamentPages | 2 tabs, a form each, 2 rounds, 2 tournaments | 0.2 M | three invariants and a liveness property |
| `match3d` | MCPongMatch3D | 3 visits, games to 2 | 0.25 M | two invariants and a liveness property |
| `online` | MCPongOnline | 1 socket, 3 points | 0.4 M | five invariants, an action property and a liveness property |
| `friends` | MCFriendship | 2 of 3 users, one request each at a time, 3 rows | 91 k | refinement of `Relations`, two invariants |
| `messages` | MCDirectMessages | one page of each of 2 users, 2 and 1 messages, a system message | 78 k | two invariants and a liveness property |
| `dm_page` | MCDMPage | 2 targets, 2 visits, 4 sockets | 0.11 M | an invariant and a liveness property |
| `accounts` | MCAccounts | 2 requests at a time, 4 in all, 2 refreshes, lifetimes of 2 and 4 ticks | 46 k | three invariants |
| `online_status` | MCOnlineStatus | 1 tab, 2 sockets | 0.77 M | two invariants and a liveness property |

### What holds

* **races.** No client is restrained: results for matches without players, twice for the
  same match, releases and deletes at any point, handlers that stop anywhere. Even so
  `can_start` is right, seats are won, nobody meets themselves, and no round or tournament
  is over before all its results are in. Two threads let a request act between any two
  statements of another. Two rounds have all the bracket's cases: an odd and an even
  feeder, a first round, a final. The theorems below remove these bounds.
* **serial.** All seven matches in every order the pages allow, with a delete at every
  point. Each result reaches the right seat, rounds are announced once and in order, the
  final closes the tournament, and until then some match can be started. Eight requests
  are the seven results and one more (a release, a start or a delete) between any two of
  them.
* **pages.** When users wait for a page before they leave it, a match that is on no screen
  is neither locked nor lost, although play, result and release requests overtake each
  other and a redirected tab releases as well. Three visits let one tab overtake two
  requests of the other; a tab has at most one request of a kind on its way, which the
  guards of `OpenMatch` and `Leave` say.
* **online.** A whole match, all keys and serves. One message is under way at most, so
  a page that may send shows exactly the game of its consumer; one player wins; the end is
  shown; the ball stays on the field and behind no paddle that covers it. The field is
  small, with the proportions of `PongOnlineConfig` that `PhysicsAssumption` names: a
  contact zone wider than the fastest move, room behind a paddle. With three points a
  match has leads, ties and a decider. `MaxDirY` cuts off balls that paddles have spun
  more than twice the steepest serve.

* **tournament_pages.** Whatever is clicked while answers are awaited, and however late they
  come, a page shows its state or nothing, and something in the end. A second tournament needs
  two forms posted at the same time: each of the two tabs can hold a form that is older than
  the other's tournament. Two rounds have a first and a last one; two tournaments can follow
  each other or exist at once.
* **match3d.** A goal is seen by every frame until the ball is served, and frames go on after
  the last goal and after the page is left, but a game has one result with the points that
  were played. Games to two have a point that goes on and one that ends; three visits let what
  is left of one game meet the next game and another page. Only leaving within the second
  between the end and its button is felt on another page (`hasty`).
* **friends.** Requests of any kind, one at a time for each user, leave at most one pending row
  in each direction, so that it can be cancelled, accepted and rejected; and as long as no two
  requests about a pair overlap it is in one of the three relations, whatever happens
  elsewhere. The third user makes requests of the same user meet that are not about the same
  pair; three rows allow a withdrawn request and two more.
* **messages.** The two first pages of two users open at the same time and still meet in one
  session, since `get_session` of all consumers shares a thread; a message sent while both are
  open is shown on both; each page shows a run of the other's messages. A notice runs through
  `get_session` of another process at the same time, about a pair no page is about.
* **dm_page.** A connection may be refused, drop or be closed by the server at any time, and
  pages may be left in any state of their socket. There are fewer than three reconnections in
  the life of the tab; the first page recovers or makes way for the list, as long as no open
  connection was closed (`cut`). Without that excuse `Recovers` is refuted in two ways. The
  server closes the connection of a message it could not store: a clean close, for which
  `handleClose` plans nothing, and the page stays without a socket. And without any such close:
  an attempt fails and sets two timers, the first makes a connection that opens, the second
  closes it and makes another, and the late close of the former gives up the latter. With two
  reconnections and two visits no more than four sockets are created, so `MaxSockets` cuts
  nothing off.
* **accounts.** In any order of the statements of two requests the factor stays usable, unless
  an edit wrote back a stale `enable_2fa` (`overwritten`) or two requests were enabling at once
  (`overlapped`); the tokens last as promised although up to two refreshes are under way.
  Four requests are an enabling one, a disabling one and two between their statements.
* **online_status.** One tab overlaps sockets of its own: pages are rendered while one is
  connecting, logins and logouts come in between, connections drop in any state. Two sockets
  are what the overlaps are between. The two invariants hold as well in the 21 million states of
  two tabs with two sockets. The list of a friend agrees with the row, except while a socket of
  nobody is open: with one tab and one socket, a logout between the profile's answer and the
  socket already lets the friend see "online" of a user who is offline. It is right again when
  that socket has ended.

Properties with a history variable say under which condition they hold. Without it they do
not, and the variable names the interleaving that breaks them: `overlapped`, `overwritten`,
`raced`, `hasty`, `silent` and `cut` are each a hazard of PROJECT.json (`cut` in two of them). The
excuse of a socket of nobody in `FriendSeesStatus` is a condition on the present state.

### Where the code does something else than it says

* **siblings_overwrite.** Two semi-finals reported at once lose a winner: each handler saves
  the final it read (`save_views.py:81`), and nobody can ever start it.

These came up as well and have no run of their own. The properties are in the modules, with
the comment that they do not hold.

* `TournamentUI!ReleaseOnlyFoldsTheFlag`, refuted by `UISpec` with 2 rounds, 2 threads and 3
  requests: leaving a match page right after the last point can erase the result.
  `release_match` saves the row it read before (`save_views.py:34`), while `GameMatch.js:42`
  says it only folds a flag.
* `MatchPages!OneGame`, refuted by `PatientSpec` with 2 tabs and a visit each: both pass the
  check of `is_playing` (`navi_views.py:66`), which is made before and outside the transaction
  whose comment says that it is there against that.
* `MatchPages!UnlockedWhenLeft` without the patience of the users (`HastySpec`, 1 tab, 1
  visit): the release overtakes the play request, and the match stays locked with no page open.
* `PongOnline!ShowsItsOwnGame`, refuted with 2 visits of one tab and 2 points: the consumer of
  a game that was left broadcasts to `room_<user>`, which the next page has joined, although
  `PongOnlineClientApp.js:56` says that the game is reset.
* `TournamentPages!OneOngoing`: two forms posted together create two ongoing tournaments,
  which `get_views.py` says must not exist.
* `DMPage!ReturnsAfterFailures`, refuted with 1 target, 1 visit and 3 sockets: the page returns
  to the list before three connections failed, because the error and the close of one failure
  count as two attempts.
* `reset_ball` is documented to serve to the side that lost the point
  (`pong_online_updater.py:86`) but receives the scorer, and so does the 3D engine's
  `resetBall`. `displayEndGameButton` throws an `error` it does not define
  (`PongEngineMatch.js:164`), which still ends in the same alert.

### Deadlock

TLC's deadlock check is on for `tournament_pages` and `accounts`, whose users can always do
something more. It is off in the other configurations, because those systems may stop: users
need not act, and what they do is bounded. That nothing stops too early is what the liveness
properties and `AlwaysAMatchToStart` are for.

### Fairness

* `SerialSpec`: weak fairness of each thread's next statement. A thread that serves a
  request runs; no user has to send one.
* `PatientSpec`: weak fairness of rendering and of the server. A browser finishes what it
  asked for, requests arrive and are served; no user has to open or leave anything.
* `PongOnline`: weak fairness of relaying, receiving and drawing. The channel layer
  delivers, the socket is open, frames are drawn; nobody has to play on or press a key.
  `EndIsShown` needs nothing else: whoever ended the match has already broadcast it.
* `PongMatch3D`: weak fairness of the first frame, the next frame and both pauses. The browser
  draws frames and runs its timers.
* `TournamentPages`: weak fairness of the answers to what a page asks for. The requests of a
  form, of deleting, and everything a user does are not fair.
* `DirectMessages`: weak fairness of each consumer, which daphne's event loop serves in turn.
* `DMPage`: weak fairness of rendering, of each target's timers, of a connection attempt being
  decided either way, and of closing handshakes that the page began. No connection needs to
  drop, to be closed by the server or to succeed.
* `OnlineStatus`: weak fairness of the confirmation of the logout alert, of the events of a
  socket and of its consumer. The alert blocks the page until it is confirmed.
* `Friendship` and `Accounts` state none: all their properties are about safety.

## 4. What is proved

The theorems hold for every value of the constants that the named assumptions allow. TLC
evaluates the assumptions in every run. No proof rests on anything else: each invariant is
strengthened to an inductive one, TLC checked that one on the bounds of the run, and then a
lemma for each action shows that the action keeps it. Theorems of the same name in two
modules are about the specification of their module.

**TournamentServerProofs** assumes `RoundsAssumption` (1 to 3 rounds, the program plays 3)
and `MaxRequestsAssumption`; the set of requests is any set. The invariants of `races` are
not inductive: a row that is about to be saved must be right too. `IInv` therefore says
the same of every stored row and of every row a request carries (`RowOK`, `PlayersOK`,
`RequestOK`), relative to the results reported so far: each player has won the match that
feeds the seat, winners come from the seats below their match (`WonOK`), an announced
round or a finished tournament has all its results (`AnnouncedOK`, `TournamentOK`). Since
`reported` and `life` only grow, a row that was right when it was read is right when it is
saved, however late; the lemmas `RowGrows`, `RoundGrows` and `RequestGrows` say so. One
lemma per action then shows that `IInv` is kept, and `Inductive` puts them together. The
other theorems follow from it and from the arithmetic of the bracket (`NextMatchFedBy`,
`FeedersSplitSeats`).

| Theorem | States |
|---|---|
| `TypeCorrect` | `Spec => []TypeOK` |
| `Inductive` | `Spec => []IInv` |
| `StartableIffPairedAlways` | `Spec => []StartableIffPaired` |
| `SeatsAreWonAlways` | `Spec => []SeatsAreWon` |
| `NobodyMeetsThemselvesAlways` | `Spec => []NobodyMeetsThemselves` |
| `RoundsAnnouncedWhenOverAlways` | `Spec => []RoundsAnnouncedWhenOver` |
| `FinishedWhenAllReportedAlways` | `Spec => []FinishedWhenAllReported` |
| `SerialInductive` | `SerialSpec => [](TypeOK /\ SerialInv)` |
| `AlwaysAMatchToStartAlways` | `SerialSpec => []AlwaysAMatchToStart` |
| `LastFinishedRoundIsRightAlways` | `SerialSpec => []LastFinishedRoundIsRight` |
| `KnockoutImplemented` | `SerialSpec => ImplementsKnockout`, the refinement |
| `PagesInductive` | `PatientSpec => [](TypeOK /\ PagesInv)` |
| `UnlockedWhenLeftAlways` | `PatientSpec => []UnlockedWhenLeft` |

The four before the last two are about `TournamentUI`, one request at a time. `SerialInv` says that nobody
is served, or one request alone, and relates the tables to it (`Consistent`): the rows are a
bracket that is played by the rules (`BracketOK`), rounds that are over are stored and
announced (`RoundsOK`), each up to what the request has still to store, and what it holds is
what it would read now (`HoldsOK`). These are operators of the rows and the request, not of
the variables, so that a lemma without primes (`ConsistentSaved` to `ConsistentCreated`)
shows for every statement that its writes lead from one to the next; the lemmas named after
the actions add that the step is one of `Knockout` or none. `EarlierRounds`, that no match is
finished before those that feed it, gives the order of the announcements;
`FirstUnfinishedRound` and `NextRoundStartable` find the match to start. Both are cases over
at most three rounds, which is all the program plays; nothing there is an induction.

The last two are about `MatchPages`, for any number of tabs and visits; they alone rest on
`RequestsAssumption`, that each tab has its three requests. `PagesInv` says what the requests
of a tab hold (`RequestsOK`), that a view of the match releases it when it is left (`TabOK`),
and that while the match is marked as played and not finished some tab owes it a release: it
shows the match, or its release has not stored anything yet (`Owes`). A play request marks the
match only while its own page waits for it, which is where the patience of the users is
needed; a release or a result that stores its row unlocks the match whatever was read before.

**PongOnlineProofs** assumes `PhysicsAssumption`, which the numbers of `PongOnlineConfig`
satisfy (in pixels: field 400 x 300, ball radius 5, paddles 10 wide at x = 140, speed at
most 9.9), and `OnlineAssumption`. For the ball, sockets are any set and the pages of a user
may mix up each other's messages: nothing about queues is needed but types. `OffBothPaddles` and
`RallyFacts` are the heart: what two paddles and a move can do to a ball. `StepFacts` says
that every step keeps the types and either leaves the ball of a consumer alone, plays it
on from between the goal lines, or plays it from the centre. From that follow

| Theorem | States |
|---|---|
| `TypeCorrect` | `Spec => []TypeOK`; in particular no paddle leaves the field |
| `BallOnFieldAlways` | `Spec => []BallOnField`, inductive together with `TypeOK` |
| `NoTunnellingAlways` | `Spec => NoTunnelling`: a ball that crosses the line of a paddle was in contact with its line before, because no move is longer than the contact zone, so the paddle did not cover it |
| `VisitInductive` | `OneVisit => (Spec => []VisitInv)` |
| `InStepAlways` | `OneVisit => (Spec => []InStep)` |
| `ShowsTheGameAlways` | `OneVisit => (Spec => []ShowsTheGame)` |
| `OnePlayerWinsAlways` | `OneVisit => (Spec => []OnePlayerWins)` |

The last four are about one visit of the page (`OneVisit`), since a page that was left still
has its consumer broadcast to the group of the next one. Their invariant lists the situations
of a page and its consumer, from `Fresh` over the circle `InHand`, `Sent`, `Resetting`,
`Reported`, `Relayed` to `Closing` and `Closed`: in each it says what the queues hold and that
what is under way agrees with the game. That nobody passes the maximal score needs all of it,
because the consumer never asks whether the match is over: it is the page that stops sending.

**PongMatch3DProofs** assumes `MatchAssumption`: a maximal score and a number of visits of at
least 1. `ResultsAreRight` is about goals that were counted and timers that have not run; the
inductive `MatchInv` says how they fit in each engine (`GamesOK`): while it runs, every goal is
counted but the one the next frame counts, nobody has all the points, one frame sleeps at
most, exactly while `isResetting` holds the others back, and nothing was posted; afterwards
what was posted is the goals, once, if the match came to its end. `PageOK` says that an
engine that is alive, or about to show the end of its game, is that of the page, unless the
page was left in the last second.

| Theorem | States |
|---|---|
| `MatchInductive` | `Spec => []MatchInv` |
| `ResultsAlwaysRight` | `Spec => []ResultsAreRight`, for any maximal score and any number of visits |
| `StaysOnItsPageAlways` | `Spec => []StaysOnItsPage` |

**TournamentPagesProofs** assumes `PagesAssumption` (1 to 4 rounds; who submits how often is
any set of pairs of a tab and a number). The inductive `PagesInv` says of each tab (`TabOK`)
that a page awaits the answer of its current state and of no other, with a blank container
(nothing can be clicked before it is drawn); and of the forms (`FormsOK`) that unless two were
posted together, one at most is posted, and none while a tournament is going on.

| Theorem | States |
|---|---|
| `PagesInductive` | `Spec => []PagesInv` |
| `TypeCorrect` | `Spec => []TypeOK` |
| `OneAtATimeAlways` | `Spec => []OneAtATime`, for any number of tabs and tournaments |
| `ShowsItsStateAlways` | `Spec => []ShowsItsState` |

**FriendshipProofs** assumes `FriendshipAssumption` (a table of any size), for any set of users
and any number of requests of each. `PairsInv` adds to the types that rows have the ids given out
(`IdsOK`), that a row a request has read is gone or still between its two users
(`RowsHeldOK`), and that between two users whose requests about each other never overlapped
there is one row at most and what the request in progress has read is still so (`PairsOK`).
`ImplementsRelations` is the refinement, step by step: an `Insert`, `Accept`, `DeleteRequest`
or `DeleteFriend` whose write takes effect is the step of `Relations` of that pair, and every
other statement changes no relation. Its lemmas compute `RelationOf` after one row is
inserted, accepted or deleted. `Answerable` needs one request of a user at a time, and one
more invariant (`PendingOK`): the views look for a pending row in both directions before they
insert one.

| Theorem | States |
|---|---|
| `PairsInductive` | `Spec => []PairsInv` |
| `TypeCorrect` | `Spec => []TypeOK` |
| `ImplementsRelations` | `Spec => KeepsRelations` |
| `AnswerableAlways` | `OneRequestEach => (Spec => []Answerable)` |

**DirectMessagesProofs** assumes `MessagesAssumption`: `System` is nobody, a page is of a person
and shows another one. Neither users nor pages nor messages are bounded. `SessionInv` follows a
page through `get_session`: which session it has found, that it found none only while there
is none, that the one it creates it reserves by holding the database thread, and that what
is past it is in the room of its pair. `MessageInv` follows the messages: what a page has
shown and what is on its way to it (`Stream`) comes from its room and has of each other page
consecutive messages, followed by the next one that page hands over (`StreamsOK`).

| Theorem | States |
|---|---|
| `SessionsInductive` | `Spec => []SessionInv` |
| `TypeCorrect` | `Spec => []TypeOK` |
| `OneSessionAlways` | `Spec => []OneSession` |
| `MessagesInductive` | `Spec => [](SessionInv /\ MessageInv)` |
| `NoHolesAlways` | `Spec => []NoHoles` |
| `RetriesInductive` | `TabSpec => []RetryInv` |
| `RetryBoundAlways` | `TabSpec => []RetryBound` |

The last two are about `DMPage`, whose specification is `TabSpec`, for any targets, sockets and
pages. Timers fire one by one, those of different targets may be pending together, and none is
cancelled, so that `reconnects` alone is not inductive: `RetryInv` says that below the limit
every reconnection that was made or is planned was counted as an attempt, and hence that two
targets at most have one planned (`Counted`); at the limit no timer reconnects any more.

**AccountsProofs** assumes `AccountsAssumption`: an access token does not outlive the refresh
token it came with. `FactorInv` is about the two tables of the second factor: if the flag is
set and there is no device, some request is still about to make one or to clear the flag
(`FlagOK`), what a request has read were rows (`ReadOK`), and unless two requests overlapped
there is one device at most, which is the one a request that enables has found
(`OneDevice`). At rest no request is left, so the user can log in.
`SessionOK` relates the two lifetimes: while the access token is valid the refresh token
outlives it by the difference of the lifetimes, afterwards by that less the time away.

| Theorem | States |
|---|---|
| `TypeCorrect` | `Spec => []TypeOK` |
| `FactorInductive` | `Spec => []FactorInv` |
| `NeverStuckAlways` | `Spec => []NeverStuck` |
| `StaysLoggedInAlways` | `Spec => []StaysLoggedIn`, for all lifetimes |

**OnlineStatusProofs** assumes that the number of sockets is a number; tabs are any set.
`StatusInv` says how a consumer lags behind its client (`SocketsOK`), that without overlap one
consumer at most serves (`OneServes`) and a tab holds its socket until it closes it
(`HeldOK`), that the row says whether a consumer of the user is inside (`StatusOK`), and that
the last message on its way to the list, through the socket or after it, tells whether the
socket is open (`ListOK`); only a list that was loaded while a socket of nobody was open may not
have been told of it, and shows offline (`Heeds`). So the list is right once that socket has
said goodbye, and `FriendSeesStatus` needs the excuse only while it is there.

| Theorem | States |
|---|---|
| `StatusInductive` | `Spec => []StatusInv` |
| `TypeCorrect` | `Spec => []TypeOK` |
| `StatusIsRightAlways` | `Spec => []StatusIsRight` |
| `FriendSeesStatusAlways` | `Spec => []FriendSeesStatus` |

Only model-checked:

* the liveness properties `FinalEndsTournament`, `LeavingUnlocks`, `NeverStaysBlank`, `GoesOn`,
  `EndIsShown`, `ShownEverywhere`, `Recovers` and `LogoutEndsOnline`: their fairness needs
  `ENABLED`, which the prover does not handle;
* the invariants of `PongOnline` other than `TypeOK` and `BallOnField` for more than one visit
  of a page: for those that hold there the situations of two consumers would have to be
  combined.

## 5. What is not modelled, and why

* Checks of names, dates and request formats: no property speaks of them, and a request
  that fails them changes nothing. Signup is such a check and one insertion.
* Block lists (`block.py`): a request is one check and one write to the requester's own list,
  with the save of the user row that `Accounts` models as `SaveEdit`. The list decides in one
  place, when the chat page is rendered for a user who blocks the other: that page has no
  messages and no socket (`dm_with.html`, `dm-with-user.js:13`), and is as good as none.
* More than one tournament in `TournamentServer`: all statements but `clean` are about one.
  Several of them are in `TournamentPages`, without their matches.
* Failure of a request of a match page, and tabs that are closed without `dispose`: no
  code reacts to them. A lost connection of the online pong: the page raises an alert.
* The end of the daphne process: it leaves users online until they disconnect the next time,
  since nothing resets the rows. The end of a process between the two tables of 2FA: nothing
  repairs it either.
* Connections that fail while messages are sent: `DirectMessages` has none, `DMPage` has no
  messages. What is sent on a closed socket is lost, and no code repeats it.
* The OAuth callback beyond what it shares with the login; the code of a second factor, which
  is compared with the devices in a library.
* The answer to messages no page of the program sends; `restore_game_state`, which nothing
  calls; anonymous users of the online pong, who share one group.
* Rendering, lights, sounds, CSS, Bootstrap, templates, translations, containers and everything
  under `unused/`; the histories of games, which are only read; the router, which is a table.

## 6. Plan

Done, in this order: `Bracket`, `TournamentServer` and its proofs, `TournamentUI` with
`Knockout`, `MatchPages`, `PongPhysics`, `PongOnline` and its proofs; then `Friendship` with
`Relations`, `DirectMessages`, `DMPage`, `TournamentPages`, `Accounts`, `PongMatch3D`,
`OnlineStatus`.

Proved since: the invariants of `Accounts`, `TournamentPages`, `Friendship`, `PongMatch3D`,
`DirectMessages`, `OnlineStatus` and of one visit of `PongOnline`, those of `SerialSpec`,
`UnlockedWhenLeft` of `PatientSpec`, `RetryBound` of `DMPage`, and the two refinements,
`Relations` by `Friendship` and `Knockout` by `SerialSpec`. Every invariant of a passing run
is now a theorem.
