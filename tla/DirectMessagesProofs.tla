------------------------ MODULE DirectMessagesProofs ------------------------
(***************************************************************************)
(* Two people have one session at most, and a page shows the messages of   *)
(* each other page without a hole, for any pages, tabs, visits and         *)
(* messages, and whatever the system user sends.  Last the socket of the   *)
(* page in one tab, TabSpec of DMPage: few reconnections are made.         *)
(***************************************************************************)
EXTENDS DirectMessages, DMPage, SequenceTheorems, FiniteSetTheorems, WellFoundedInduction, TLAPS

-----------------------------------------------------------------------------
(* Types *)

Everyone == People \union {System}
Message == Pages \X Nat
PageSteps == {"away", "loaded", "look", "create", "add", "join", "open", "closing"}
PageState ==
    [at: PageSteps, room: Nat, loaded: Nat, live: Seq(Message), sent: Nat,
     inbox: Seq(Message), handling: Seq(Message), outbox: Seq(Message)]
NoticeState == [at: {"none", "create", "add", "store", "stored"}, room: Nat]

TypeOK ==
    /\ sessions \in Seq(SUBSET Everyone)
    /\ log \in Seq(Message \union ({System} \X Notices))
    /\ page \in [Pages -> PageState]
    /\ notice \in [Notices -> NoticeState]
    /\ visits \in [Pages -> Nat]

-----------------------------------------------------------------------------
(* The inductive invariant of the sessions *)

\* In get_session, which runs in the database thread.
Working(p) == page[p].at \in {"look", "create", "add"}
InThread == \A p \in Pages : Working(p) => thread = p

\* No other consumer has made a session of the pair meanwhile.
StillNone ==
    \A p \in Pages :
        page[p].at \in {"create", "add"} /\ Other(p) # System => SessionsOf(Pair(p)) = {}

AtMostOne == \A u, v \in People : u # v => \A i, j \in SessionsOf({u, v}) : i = j

\* A session that waits for its members is empty and is nobody else's.
Reserved ==
    /\ \A p \in Pages : page[p].at = "add" =>
           /\ page[p].room \in DOMAIN sessions /\ sessions[page[p].room] = {}
           /\ \A n \in Notices : notice[n].at = "add" => notice[n].room # page[p].room
    /\ \A n \in Notices : notice[n].at = "add" =>
           /\ notice[n].room \in DOMAIN sessions /\ sessions[notice[n].room] = {}
           /\ \A m \in Notices : notice[m].at = "add" /\ notice[m].room = notice[n].room => m = n

\* A consumer joins the room of a session of its two.
InItsRoom ==
    \A p \in Pages :
        page[p].at \in {"join", "open", "closing"} => page[p].room \in SessionsOf(Pair(p))

SessionInv == TypeOK /\ InThread /\ StillNone /\ AtMostOne /\ Reserved /\ InItsRoom

-----------------------------------------------------------------------------
(* The inductive invariant of the messages, on the record r of a page *)

\* What the page has shown and what is on its way to it.
Stream(r) == r.live \o r.outbox

\* The number of the next message of the page that reaches its room.
NextOf(r) == r.sent - Len(r.inbox) - Len(r.handling) + 1

\* The last message of q in seq is the one before number n.
Follows(seq, q, n) ==
    \A j \in DOMAIN seq :
        (seq[j][1] = q /\ \A i \in (j + 1)..Len(seq) : seq[i][1] # q) => seq[j][2] + 1 = n

\* The messages that page p sent and that have not reached the room are the last ones.
Queued(p, r) ==
    /\ Len(r.inbox) + Len(r.handling) <= r.sent
    /\ \A i \in DOMAIN r.inbox : r.inbox[i] = <<p, r.sent - Len(r.inbox) + i>>
    /\ r.handling = <<>> \/ r.handling = <<<<p, r.sent - Len(r.inbox)>>>>
    /\ r.inbox # <<>> \/ r.handling # <<>> => Other(p) # System

QueueOK == \A p \in Pages : Queued(p, page[p])

\* A page that is not in a room has nothing to show or to store.
Idle(r) == r.live = <<>> /\ r.inbox = <<>> /\ r.handling = <<>> /\ r.outbox = <<>>
AwayOK == \A p \in Pages : page[p].at \notin {"open", "closing"} => Idle(page[p])

\* What a page shows was sent to the session of its room.
Has(seq, q) == \E k \in DOMAIN seq : seq[k][1] = q
FromItsRoom ==
    \A p, q \in Pages :
        Has(Stream(page[p]), q) =>
            Other(q) # System /\ page[p].room \in SessionsOf(Pair(q))

StreamsOK ==
    \A p \in Pages :
        /\ Unbroken(Stream(page[p]))
        /\ \A q \in Pages : Follows(Stream(page[p]), q, NextOf(page[q]))

MessageInv == QueueOK /\ AwayOK /\ FromItsRoom /\ StreamsOK

-----------------------------------------------------------------------------
(* Sets of numbers, pairs and sessions *)

LEMMA MinIs ==
    ASSUME NEW S, S \subseteq Nat, S # {}
    PROVE  Min(S) \in S
<1> DEFINE Less == {p \in Nat \X Nat : p[1] < p[2]}
<1>1. OpToRel(<, Nat) = Less
  BY DEF OpToRel
<1>2. IsWellFoundedOn(Less, Nat)
  BY <1>1, NatLessThanWellFounded
<1> HIDE DEF Less
<1>3. \E m \in S : \A y \in S : ~(<<y, m>> \in Less)
  BY <1>2, WFMin
<1>4. PICK m \in S : \A y \in S : ~(<<y, m>> \in Less)
  BY <1>3
<1>5. ASSUME NEW y \in S
      PROVE  m <= y
  <2>1. m \in Nat /\ y \in Nat
    OBVIOUS
  <2>2. y < m => <<y, m>> \in Less
    BY <2>1 DEF Less
  <2> QED
    BY <2>1, <2>2, <1>4
<1> QED
  BY <1>5 DEF Min

LEMMA PairFacts ==
    ASSUME NEW p \in Pages
    PROVE  /\ p[1] \in People /\ p[2] \in Everyone /\ p[1] # p[2]
           /\ Pair(p) = {p[1], p[2]} /\ Pair(p) # {} /\ Pair(p) \subseteq Everyone
           /\ Other(p) # System => p[2] \in People
           /\ p # Nobody
<1>1. p = <<p[1], p[2], p[3]>> /\ p[1] \in People /\ p[2] \in Everyone /\ p[1] # p[2]
  BY MessagesAssumption DEF Everyone
<1>2. p # <<>>
  BY <1>1
<1> QED
  BY <1>1, <1>2 DEF Pair, Other, Everyone, Nobody

\* The sessions of a pair, in this state and the next.
SessionsIs ==
    \A pair, i : i \in SessionsOf(pair) <=> i \in DOMAIN sessions /\ pair \subseteq sessions[i]

LEMMA SessionsHere == SessionsIs
BY DEF SessionsIs, SessionsOf

LEMMA SessionsNext == SessionsIs'
BY SessionsHere, PTL

\* A session without members is a session of nobody.
LEMMA SessionCreated ==
    ASSUME sessions \in Seq(SUBSET Everyone), sessions' = Append(sessions, {})
    PROVE  /\ sessions' \in Seq(SUBSET Everyone)
           /\ Len(sessions) + 1 \in DOMAIN sessions' /\ Len(sessions) + 1 \notin DOMAIN sessions
           /\ sessions'[Len(sessions) + 1] = {} /\ Len(sessions) + 1 \in Nat
           /\ \A i \in DOMAIN sessions : i \in DOMAIN sessions' /\ sessions'[i] = sessions[i]
           /\ \A pair, i : pair # {} => (i \in SessionsOf(pair)' <=> i \in SessionsOf(pair))
<1> PICK new : new = Len(sessions) + 1
  OBVIOUS
<1>1. Len(sessions) \in Nat /\ DOMAIN sessions = 1..Len(sessions)
  BY LenProperties
<1>2. {} \in SUBSET Everyone
  OBVIOUS
<1>3. /\ sessions' \in Seq(SUBSET Everyone) /\ Len(sessions') = new
      /\ \A i \in 1..Len(sessions) : sessions'[i] = sessions[i]
      /\ sessions'[new] = {}
  BY <1>2, AppendProperties
<1>4. DOMAIN sessions' = 1..new
  BY <1>3, LenProperties
<1>5. \A i : i \in DOMAIN sessions' <=> i \in DOMAIN sessions \/ i = new
  BY <1>1, <1>4
<1>6. new \notin DOMAIN sessions
  BY <1>1
<1>7. ASSUME NEW pair, NEW i, pair # {}
      PROVE  i \in SessionsOf(pair)' <=> i \in SessionsOf(pair)
  <2>1. i \in SessionsOf(pair)' <=> i \in DOMAIN sessions' /\ pair \subseteq sessions'[i]
    BY SessionsNext DEF SessionsIs
  <2>2. i \in SessionsOf(pair) <=> i \in DOMAIN sessions /\ pair \subseteq sessions[i]
    BY SessionsHere DEF SessionsIs
  <2>3. CASE i = new
    BY <2>1, <2>2, <2>3, <1>3, <1>6, <1>7
  <2>4. CASE i # new
    BY <2>1, <2>2, <2>4, <1>1, <1>3, <1>5
  <2> QED
    BY <2>3, <2>4
<1> QED
  BY <1>1, <1>3, <1>5, <1>6, <1>7

\* A session that gets its members is a session of theirs.
Filled(room, members) ==
    /\ sessions' \in Seq(SUBSET Everyone) /\ DOMAIN sessions' = DOMAIN sessions
    /\ \A i \in DOMAIN sessions : i # room => sessions'[i] = sessions[i]
    /\ \A pair, i : pair # {} =>
           (i \in SessionsOf(pair)' <=>
               i \in SessionsOf(pair) \/ (i = room /\ pair \subseteq members))

LEMMA SessionFilled ==
    ASSUME sessions \in Seq(SUBSET Everyone), NEW room \in DOMAIN sessions, sessions[room] = {},
           NEW members \in SUBSET Everyone, sessions' = [sessions EXCEPT ![room] = members]
    PROVE  Filled(room, members)
<1>1. room \in 1..Len(sessions)
  BY LenProperties
<1>2. sessions' \in Seq(SUBSET Everyone)
  BY <1>1, ExceptSeq
<1>3. /\ DOMAIN sessions' = DOMAIN sessions
      /\ \A i \in DOMAIN sessions : i # room => sessions'[i] = sessions[i]
      /\ sessions'[room] = members
  OBVIOUS
<1>4. ASSUME NEW pair, NEW i, pair # {}
      PROVE  i \in SessionsOf(pair)' <=>
                 i \in SessionsOf(pair) \/ (i = room /\ pair \subseteq members)
  <2>1. i \in SessionsOf(pair)' <=> i \in DOMAIN sessions' /\ pair \subseteq sessions'[i]
    BY SessionsNext DEF SessionsIs
  <2>2. i \in SessionsOf(pair) <=> i \in DOMAIN sessions /\ pair \subseteq sessions[i]
    BY SessionsHere DEF SessionsIs
  <2>3. CASE i = room
    BY <2>1, <2>2, <2>3, <1>3, <1>4
  <2>4. CASE i # room
    BY <2>1, <2>2, <2>4, <1>3
  <2> QED
    BY <2>3, <2>4
<1> QED
  BY <1>2, <1>3, <1>4 DEF Filled

-----------------------------------------------------------------------------
(* Steps and sessions *)

LEMMA PageStep ==
    ASSUME page \in [Pages -> PageState], NEW p \in Pages, NEW r \in PageState,
           page' = [page EXCEPT ![p] = r]
    PROVE  /\ page' \in [Pages -> PageState]
           /\ page'[p] = r /\ \A o \in Pages : o # p => page'[o] = page[o]
OBVIOUS

LEMMA NoticeStep ==
    ASSUME notice \in [Notices -> NoticeState], NEW n \in Notices, NEW r \in NoticeState,
           notice' = [notice EXCEPT ![n] = r]
    PROVE  /\ notice' \in [Notices -> NoticeState]
           /\ notice'[n] = r /\ \A o \in Notices : o # n => notice'[o] = notice[o]
OBVIOUS

LEMMA PageFields ==
    ASSUME NEW r \in PageState
    PROVE  /\ r.at \in PageSteps /\ r.room \in Nat /\ r.loaded \in Nat /\ r.sent \in Nat
           /\ r.live \in Seq(Message) /\ r.inbox \in Seq(Message)
           /\ r.handling \in Seq(Message) /\ r.outbox \in Seq(Message)
BY DEF PageState

\* No session loses its members.
Grows == \A pair : pair # {} => \A i \in SessionsOf(pair) : i \in SessionsOf(pair)'

\* The messages stay where they are, and a page in a room stays there.
SameMail(r, t) ==
    /\ t.live = r.live /\ t.sent = r.sent /\ t.inbox = r.inbox
    /\ t.handling = r.handling /\ t.outbox = r.outbox

Untouched ==
    \A o \in Pages :
        /\ SameMail(page[o], page'[o])
        /\ \/ page[o].at \notin {"open", "closing"}
           \/ page'[o].at = page[o].at /\ page'[o].room = page[o].room

\* A step that makes no session and leaves nobody working who was not.
LEMMA SessionsKept ==
    ASSUME SessionInv, TypeOK', UNCHANGED <<sessions, thread>>,
           \A p \in Pages :
               \/ page'[p].at \in {"away", "loaded"}
               \/ /\ page'[p].room = page[p].room
                  /\ \/ page'[p].at = page[p].at
                     \/ /\ page[p].at \in {"join", "open", "closing"}
                        /\ page'[p].at \in {"join", "open", "closing"},
           \A n \in Notices : notice'[n].at = "add" => notice'[n] = notice[n]
    PROVE  SessionInv'
<1> USE DEF SessionInv
<1>1. \A pair : SessionsOf(pair)' = SessionsOf(pair)
  BY DEF SessionsOf
<1>2. ASSUME NEW p \in Pages
      PROVE  /\ page'[p].at \in {"look", "create", "add"} =>
                    page'[p].at = page[p].at /\ page'[p].room = page[p].room
             /\ page'[p].at \in {"join", "open", "closing"} =>
                    page[p].at \in {"join", "open", "closing"} /\ page'[p].room = page[p].room
  OBVIOUS
<1>3. InThread'
  BY <1>2 DEF InThread, Working
<1>4. StillNone'
  BY <1>1, <1>2 DEF StillNone
<1>5. AtMostOne'
  BY <1>1 DEF AtMostOne
<1>6. Reserved'
  BY <1>2 DEF Reserved
<1>7. InItsRoom'
  BY <1>1, <1>2 DEF InItsRoom
<1> QED
  BY <1>3, <1>4, <1>5, <1>6, <1>7

LEMMA ConnectSession ==
    ASSUME SessionInv, NEW p \in Pages, Connect(p)
    PROVE  SessionInv' /\ Grows /\ Untouched
<1> USE DEF SessionInv
<1> PICK r : r = [page[p] EXCEPT !.at = "look"]
  OBVIOUS
<1>1. page[p] \in PageState
  BY DEF TypeOK
<1>2. r \in PageState /\ r.at = "look" /\ r.room = page[p].room
  BY <1>1 DEF PageState, PageSteps
<1>3. page' = [page EXCEPT ![p] = r]
  BY DEF Connect
<1>4. /\ page' \in [Pages -> PageState]
      /\ page'[p] = r /\ \A o \in Pages : o # p => page'[o] = page[o]
  BY <1>2, <1>3, PageStep DEF TypeOK
<1>5. /\ UNCHANGED <<sessions, log, notice, visits>>
      /\ thread = Nobody /\ thread' = p
  BY DEF Connect
<1>6. TypeOK'
  BY <1>4, <1>5 DEF TypeOK
<1>7. \A pair : SessionsOf(pair)' = SessionsOf(pair)
  BY <1>5 DEF SessionsOf
<1>8. \A o \in Pages : ~Working(o)
  BY <1>5, PairFacts DEF InThread
<1>9. \A o \in Pages : o # p => page'[o].at \notin {"look", "create", "add"}
  BY <1>4, <1>8 DEF Working
<1>10. InThread' /\ StillNone' /\ Reserved'
  BY <1>2, <1>4, <1>5, <1>9 DEF InThread, StillNone, Reserved, Working
<1>11. AtMostOne'
  BY <1>7 DEF AtMostOne
<1>12. InItsRoom'
  BY <1>2, <1>4, <1>7 DEF InItsRoom
<1>13. SameMail(page[p], r) /\ page[p].at = "loaded"
  BY <1>1 DEF SameMail, PageState, Connect
<1>14. Grows /\ Untouched
  BY <1>4, <1>7, <1>13 DEF Grows, Untouched, SameMail
<1> QED
  BY <1>6, <1>10, <1>11, <1>12, <1>14

LEMMA LookSession ==
    ASSUME SessionInv, NEW p \in Pages, Look(p)
    PROVE  SessionInv' /\ Grows /\ Untouched
<1> USE DEF SessionInv
<1>1. page[p] \in PageState /\ page[p].at = "look" /\ UNCHANGED <<sessions, log, notice, visits>>
  BY DEF TypeOK, Look
<1>2. thread = p /\ \A o \in Pages : Working(o) => o = p
  BY <1>1 DEF InThread, Working
<1>3. \A pair : SessionsOf(pair)' = SessionsOf(pair)
  BY <1>1 DEF SessionsOf
<1>4. AtMostOne'
  BY <1>3 DEF AtMostOne
<1>5. Grows
  BY <1>3 DEF Grows
<1>6. CASE SessionsOf(Pair(p)) # {}
  <2> PICK r : r = [page[p] EXCEPT !.at = "join", !.room = Found(Pair(p))]
    OBVIOUS
  <2>1. page' = [page EXCEPT ![p] = r]
    BY <1>6 DEF Look, TypeOK
  <2>2. SessionsOf(Pair(p)) \subseteq Nat
    BY LenProperties DEF SessionsOf, TypeOK
  <2>3. Found(Pair(p)) \in SessionsOf(Pair(p)) /\ Found(Pair(p)) \in Nat
    BY <1>6, <2>2, MinIs DEF Found
  <2>4. r \in PageState /\ r.at = "join" /\ r.room \in SessionsOf(Pair(p))
    BY <1>1, <2>3 DEF PageState, PageSteps
  <2>5. /\ page' \in [Pages -> PageState]
        /\ page'[p] = r /\ \A o \in Pages : o # p => page'[o] = page[o]
    BY <2>1, <2>4, PageStep DEF TypeOK
  <2>6. TypeOK'
    BY <1>1, <2>5 DEF TypeOK
  <2>7. \A o \in Pages : page'[o].at \notin {"look", "create", "add"}
    BY <1>2, <2>4, <2>5 DEF Working
  <2>8. InThread' /\ StillNone' /\ Reserved'
    BY <1>1, <2>7 DEF InThread, StillNone, Reserved, Working
  <2>9. InItsRoom'
    BY <1>3, <2>4, <2>5 DEF InItsRoom
  <2>10. SameMail(page[p], r)
    BY <1>1, <2>3 DEF SameMail, PageState
  <2>11. Untouched
    BY <1>1, <2>5, <2>10 DEF Untouched, SameMail
  <2> QED
    BY <1>4, <1>5, <2>6, <2>8, <2>9, <2>11
<1>7. CASE SessionsOf(Pair(p)) = {}
  <2> PICK r : r = [page[p] EXCEPT !.at = "create"]
    OBVIOUS
  <2>1. page' = [page EXCEPT ![p] = r] /\ thread' = thread
    BY <1>7 DEF Look
  <2>2. r \in PageState /\ r.at = "create"
    BY <1>1 DEF PageState, PageSteps
  <2>3. /\ page' \in [Pages -> PageState]
        /\ page'[p] = r /\ \A o \in Pages : o # p => page'[o] = page[o]
    BY <2>1, <2>2, PageStep DEF TypeOK
  <2>4. TypeOK'
    BY <1>1, <2>3 DEF TypeOK
  <2>5. \A o \in Pages : o # p => page'[o].at \notin {"look", "create", "add"}
    BY <1>2, <2>3 DEF Working
  <2>6. InThread' /\ Reserved'
    BY <1>1, <1>2, <2>1, <2>2, <2>3, <2>5 DEF InThread, Reserved, Working
  <2>7. StillNone'
    BY <1>3, <1>7, <2>5 DEF StillNone
  <2>8. InItsRoom'
    BY <1>3, <2>2, <2>3 DEF InItsRoom
  <2>9. SameMail(page[p], r)
    BY <1>1 DEF SameMail, PageState
  <2>10. Untouched
    BY <1>1, <2>3, <2>9 DEF Untouched, SameMail
  <2> QED
    BY <1>4, <1>5, <2>4, <2>6, <2>7, <2>8, <2>10
<1> QED
  BY <1>6, <1>7

LEMMA CreateSession ==
    ASSUME SessionInv, NEW p \in Pages, Create(p)
    PROVE  SessionInv' /\ Grows /\ Untouched
<1> USE DEF SessionInv
<1> PICK new, r : /\ new = Len(sessions) + 1
                  /\ r = [page[p] EXCEPT !.at = "add", !.room = new]
  OBVIOUS
<1>1. /\ page[p] \in PageState /\ page[p].at = "create" /\ UNCHANGED <<log, notice, thread, visits>>
      /\ sessions' = Append(sessions, {})
      /\ page' = [page EXCEPT ![p] = r]
  BY DEF TypeOK, Create
<1>2. thread = p /\ \A o \in Pages : Working(o) => o = p
  BY <1>1 DEF InThread, Working
<1>3. /\ sessions' \in Seq(SUBSET Everyone)
      /\ new \in DOMAIN sessions' /\ new \notin DOMAIN sessions
      /\ sessions'[new] = {} /\ new \in Nat
      /\ \A i \in DOMAIN sessions : i \in DOMAIN sessions' /\ sessions'[i] = sessions[i]
      /\ \A pair, i : pair # {} => (i \in SessionsOf(pair)' <=> i \in SessionsOf(pair))
  BY <1>1, SessionCreated DEF TypeOK
<1>4. r \in PageState /\ r.at = "add" /\ r.room = new
  BY <1>1, <1>3 DEF PageState, PageSteps
<1>5. /\ page' \in [Pages -> PageState]
      /\ page'[p] = r /\ \A o \in Pages : o # p => page'[o] = page[o]
  BY <1>1, <1>4, PageStep DEF TypeOK
<1>6. TypeOK'
  BY <1>1, <1>3, <1>5 DEF TypeOK
<1>7. \A o \in Pages : o # p => page'[o].at \notin {"look", "create", "add"}
  BY <1>2, <1>5 DEF Working
<1>8. InThread'
  BY <1>1, <1>2, <1>4, <1>5, <1>7 DEF InThread, Working
<1>9. StillNone'
  <2>1. Other(p) # System => SessionsOf(Pair(p)) = {}
    BY <1>1 DEF StillNone
  <2>2. Other(p) # System => SessionsOf(Pair(p))' = {}
    BY <2>1, <1>3, PairFacts
  <2> QED
    BY <2>2, <1>7 DEF StillNone
<1>10. AtMostOne'
  BY <1>3 DEF AtMostOne
<1>11. Reserved'
  <2>1. \A n \in Notices : notice[n].at = "add" =>
            notice[n].room \in DOMAIN sessions /\ sessions[notice[n].room] = {}
    BY DEF Reserved
  <2> QED
    BY <2>1, <1>1, <1>3, <1>4, <1>5, <1>7 DEF Reserved
<1>12. InItsRoom'
  BY <1>3, <1>4, <1>5, PairFacts DEF InItsRoom
<1>13. Grows
  BY <1>3 DEF Grows
<1>14. SameMail(page[p], r)
  BY <1>1, <1>3 DEF SameMail, PageState
<1>15. Untouched
  BY <1>1, <1>5, <1>14 DEF Untouched, SameMail
<1> QED
  BY <1>6, <1>8, <1>9, <1>10, <1>11, <1>12, <1>13, <1>15

LEMMA AddMembersSession ==
    ASSUME SessionInv, NEW p \in Pages, AddMembers(p)
    PROVE  SessionInv' /\ Grows /\ Untouched
<1> USE DEF SessionInv
<1> PICK room, r : room = page[p].room /\ r = [page[p] EXCEPT !.at = "join"]
  OBVIOUS
<1>1. /\ page[p] \in PageState /\ page[p].at = "add" /\ UNCHANGED <<log, notice, visits>>
      /\ sessions' = [sessions EXCEPT ![room] = Pair(p)]
      /\ page' = [page EXCEPT ![p] = r] /\ thread' = Nobody
  BY DEF TypeOK, AddMembers
<1>2. \A o \in Pages : Working(o) => o = p
  BY <1>1 DEF InThread, Working
<1>3. room \in DOMAIN sessions /\ sessions[room] = {}
  BY <1>1 DEF Reserved
<1>4. /\ sessions' \in Seq(SUBSET Everyone) /\ DOMAIN sessions' = DOMAIN sessions
      /\ \A i \in DOMAIN sessions : i # room => sessions'[i] = sessions[i]
      /\ \A pair, i : pair # {} =>
             (i \in SessionsOf(pair)' <=>
                 i \in SessionsOf(pair) \/ (i = room /\ pair \subseteq Pair(p)))
  <2> PICK members : members = Pair(p)
    OBVIOUS
  <2>1. members \in SUBSET Everyone
    BY PairFacts
  <2>2. sessions \in Seq(SUBSET Everyone) /\ sessions' = [sessions EXCEPT ![room] = members]
    BY <1>1 DEF TypeOK
  <2> HIDE DEF SessionInv
  <2>3. Filled(room, members)
    BY <2>1, <2>2, <1>3, SessionFilled
  <2> QED
    BY <2>3 DEF Filled
<1>5. r \in PageState /\ r.at = "join" /\ r.room = room
  BY <1>1 DEF PageState, PageSteps
<1>6. /\ page' \in [Pages -> PageState]
      /\ page'[p] = r /\ \A o \in Pages : o # p => page'[o] = page[o]
  BY <1>1, <1>5, PageStep DEF TypeOK
<1>7. TypeOK'
  BY <1>1, <1>4, <1>6 DEF TypeOK
<1>8. \A o \in Pages : page'[o].at \notin {"look", "create", "add"}
  BY <1>2, <1>5, <1>6 DEF Working
<1>9. InThread' /\ StillNone'
  BY <1>8 DEF InThread, StillNone, Working
<1>10. AtMostOne'
  <2> SUFFICES ASSUME NEW u \in People, NEW v \in People, u # v,
                      NEW i \in SessionsOf({u, v})', NEW j \in SessionsOf({u, v})'
               PROVE  i = j
    BY DEF AtMostOne
  <2>1. CASE {u, v} \subseteq Pair(p)
    <3>1. Pair(p) = {p[1], p[2]} /\ System \notin People
      BY PairFacts, MessagesAssumption
    <3>2. {u, v} = Pair(p) /\ Other(p) # System
      BY ONLY <2>1, <3>1, u \in People, v \in People, u # v DEF Other
    <3>3. \A k : k \notin SessionsOf({u, v})
      BY <3>2, <1>1 DEF StillNone
    <3>4. i = room
      BY <3>3, <1>4
    <3>5. j = room
      BY <3>3, <1>4
    <3> QED
      BY <3>4, <3>5
  <2>2. CASE ~({u, v} \subseteq Pair(p))
    <3>1. i \in SessionsOf({u, v}) /\ j \in SessionsOf({u, v})
      BY <2>2, <1>4
    <3> QED
      BY <3>1 DEF AtMostOne
  <2> QED
    BY <2>1, <2>2
<1>11. Reserved'
  <2>1. \A n \in Notices : notice[n].at = "add" => notice[n].room # room
    BY <1>1 DEF Reserved
  <2> QED
    BY <2>1, <1>1, <1>4, <1>8 DEF Reserved
<1>12. InItsRoom'
  <2>1. ASSUME NEW o \in Pages, page'[o].at \in {"join", "open", "closing"}
        PROVE  page'[o].room \in SessionsOf(Pair(o))'
    <3>1. CASE o = p
      BY <3>1, <1>4, <1>5, <1>6, PairFacts
    <3>2. CASE o # p
      <4>1. page[o].room \in SessionsOf(Pair(o))
        BY <3>2, <2>1, <1>6 DEF InItsRoom
      <4> QED
        BY <4>1, <3>2, <1>4, <1>6, PairFacts
    <3> QED
      BY <3>1, <3>2
  <2> QED
    BY <2>1 DEF InItsRoom
<1>13. Grows
  BY <1>4 DEF Grows
<1>14. SameMail(page[p], r)
  BY <1>1 DEF SameMail, PageState
<1>15. Untouched
  BY <1>1, <1>6, <1>14 DEF Untouched, SameMail
<1> QED
  BY <1>7, <1>9, <1>10, <1>11, <1>12, <1>13, <1>15

LEMMA NoticeCreateSession ==
    ASSUME SessionInv, NEW n \in Notices, NoticeCreate(n)
    PROVE  SessionInv' /\ Grows /\ Untouched
<1> USE DEF SessionInv
<1> PICK new, r : new = Len(sessions) + 1 /\ r = [at |-> "add", room |-> new]
  OBVIOUS
<1>1. /\ UNCHANGED <<log, page, thread, visits>>
      /\ sessions' = Append(sessions, {})
      /\ notice' = [notice EXCEPT ![n] = r]
  BY DEF NoticeCreate
<1>2. /\ sessions' \in Seq(SUBSET Everyone)
      /\ new \in DOMAIN sessions' /\ new \notin DOMAIN sessions
      /\ sessions'[new] = {} /\ new \in Nat
      /\ \A i \in DOMAIN sessions : i \in DOMAIN sessions' /\ sessions'[i] = sessions[i]
      /\ \A pair, i : pair # {} => (i \in SessionsOf(pair)' <=> i \in SessionsOf(pair))
  BY <1>1, SessionCreated DEF TypeOK
<1>3. r \in NoticeState
  BY <1>2 DEF NoticeState
<1>4. /\ notice' \in [Notices -> NoticeState]
      /\ notice'[n] = r /\ \A o \in Notices : o # n => notice'[o] = notice[o]
  BY <1>1, <1>3, NoticeStep DEF TypeOK
<1>5. TypeOK'
  BY <1>1, <1>2, <1>4 DEF TypeOK
<1>6. InThread'
  BY <1>1 DEF InThread, Working
<1>7. StillNone'
  <2>1. ASSUME NEW o \in Pages, SessionsOf(Pair(o)) = {}
        PROVE  SessionsOf(Pair(o))' = {}
    BY <2>1, <1>2, PairFacts
  <2> QED
    BY <2>1, <1>1 DEF StillNone
<1>8. AtMostOne'
  BY <1>2 DEF AtMostOne
<1>9. Reserved'
  <2>1. \A o \in Notices : notice[o].at = "add" =>
            notice[o].room \in DOMAIN sessions /\ sessions[notice[o].room] = {}
    BY DEF Reserved
  <2>2. \A o \in Pages : page[o].at = "add" =>
            page[o].room \in DOMAIN sessions /\ sessions[page[o].room] = {}
    BY DEF Reserved
  <2> QED
    BY <2>1, <2>2, <1>1, <1>2, <1>4 DEF Reserved
<1>10. InItsRoom'
  BY <1>1, <1>2, PairFacts DEF InItsRoom
<1>11. Grows /\ Untouched
  BY <1>1, <1>2 DEF Grows, Untouched, SameMail
<1> QED
  BY <1>5, <1>6, <1>7, <1>8, <1>9, <1>10, <1>11

LEMMA NoticeAddMembersSession ==
    ASSUME SessionInv, NEW n \in Notices, NoticeAddMembers(n)
    PROVE  SessionInv' /\ Grows /\ Untouched
<1> USE DEF SessionInv
<1> PICK room, r : room = notice[n].room /\ r = [notice[n] EXCEPT !.at = "store"]
  OBVIOUS
<1>1. /\ notice[n] \in NoticeState /\ notice[n].at = "add"
      /\ UNCHANGED <<log, page, thread, visits>>
      /\ sessions' = [sessions EXCEPT ![room] = NoticeTo(n)]
      /\ notice' = [notice EXCEPT ![n] = r]
  BY DEF TypeOK, NoticeAddMembers
<1>2. room \in DOMAIN sessions /\ sessions[room] = {}
  BY <1>1 DEF Reserved
<1>3. NoticeTo(n) \in SUBSET Everyone /\ ReceiverOf[n] \in People /\ System \notin People
  BY MessagesAssumption DEF NoticeTo, Everyone
<1>4. /\ sessions' \in Seq(SUBSET Everyone) /\ DOMAIN sessions' = DOMAIN sessions
      /\ \A i \in DOMAIN sessions : i # room => sessions'[i] = sessions[i]
      /\ \A pair, i : pair # {} =>
             (i \in SessionsOf(pair)' <=>
                 i \in SessionsOf(pair) \/ (i = room /\ pair \subseteq NoticeTo(n)))
  <2> PICK members : members = NoticeTo(n)
    OBVIOUS
  <2>1. members \in SUBSET Everyone
    BY <1>3
  <2>2. sessions \in Seq(SUBSET Everyone) /\ sessions' = [sessions EXCEPT ![room] = members]
    BY <1>1 DEF TypeOK
  <2> HIDE DEF SessionInv
  <2>3. Filled(room, members)
    BY <2>1, <2>2, <1>2, SessionFilled
  <2> QED
    BY <2>3 DEF Filled
<1>5. r \in NoticeState /\ r.at = "store"
  BY <1>1 DEF NoticeState
<1>6. /\ notice' \in [Notices -> NoticeState]
      /\ notice'[n] = r /\ \A o \in Notices : o # n => notice'[o] = notice[o]
  BY <1>1, <1>5, NoticeStep DEF TypeOK
<1>7. TypeOK'
  BY <1>1, <1>4, <1>6 DEF TypeOK
<1>8. InThread'
  BY <1>1 DEF InThread, Working
<1>9. ASSUME NEW u \in People, NEW v \in People, u # v
      PROVE  \A i : i \in SessionsOf({u, v})' <=> i \in SessionsOf({u, v})
  <2>1. ~({u, v} \subseteq NoticeTo(n))
    BY <1>3, <1>9 DEF NoticeTo
  <2> QED
    BY <2>1, <1>4
<1>10. StillNone'
  <2>1. ASSUME NEW o \in Pages, Other(o) # System, SessionsOf(Pair(o)) = {}
        PROVE  SessionsOf(Pair(o))' = {}
    BY <2>1, <1>9, PairFacts
  <2> QED
    BY <2>1, <1>1 DEF StillNone
<1>11. AtMostOne'
  BY <1>9 DEF AtMostOne
<1>12. Reserved'
  <2>1. \A o \in Notices : o # n /\ notice[o].at = "add" => notice[o].room # room
    BY <1>1 DEF Reserved
  <2>2. \A o \in Pages : page[o].at = "add" => page[o].room # room
    BY <1>1 DEF Reserved
  <2> QED
    BY <2>1, <2>2, <1>1, <1>4, <1>5, <1>6 DEF Reserved
<1>13. InItsRoom'
  BY <1>1, <1>4, PairFacts DEF InItsRoom
<1>14. Grows /\ Untouched
  BY <1>1, <1>4 DEF Grows, Untouched, SameMail
<1> QED
  BY <1>7, <1>8, <1>10, <1>11, <1>12, <1>13, <1>14

\* What a step does to the pages that neither makes a session nor looks for one.
Moves(p, r) ==
    /\ r \in PageState
    /\ page'[p] = r
    /\ \A o \in Pages : o # p => page'[o].at = page[o].at /\ page'[o].room = page[o].room
    /\ \/ r.at \in {"away", "loaded"}
       \/ r.room = page[p].room /\ r.at = page[p].at
       \/ /\ r.room = page[p].room
          /\ page[p].at \in {"join", "open", "closing"} /\ r.at \in {"join", "open", "closing"}

LEMMA QuietSession ==
    ASSUME SessionInv, TypeOK', NEW p \in Pages, NEW r, Moves(p, r),
           UNCHANGED <<sessions, notice, thread>>
    PROVE  SessionInv'
<1>1. \A o \in Pages :
          \/ page'[o].at \in {"away", "loaded"}
          \/ /\ page'[o].room = page[o].room
             /\ \/ page'[o].at = page[o].at
                \/ /\ page[o].at \in {"join", "open", "closing"}
                   /\ page'[o].at \in {"join", "open", "closing"}
  BY DEF Moves
<1> QED
  BY <1>1, SessionsKept

Becomes(p, r) == page'[p] = r /\ \A o \in Pages : o # p => page'[o] = page[o]

LEMMA LoadStep ==
    ASSUME SessionInv, NEW p \in Pages, Load(p)
    PROVE  /\ SessionInv' /\ UNCHANGED <<sessions, notice>>
           /\ page[p].at = "away"
           /\ \E r \in PageState :
                  /\ Becomes(p, r)
                  /\ r.at = "loaded" /\ r.room = 0 /\ r.loaded = Len(log) /\ r.live = <<>>
                  /\ r.sent = page[p].sent /\ r.inbox = <<>> /\ r.handling = <<>>
                  /\ r.outbox = <<>>
<1> PICK r : r = [NewPage EXCEPT !.at = "loaded", !.loaded = Len(log), !.sent = page[p].sent]
  OBVIOUS
<1>1. /\ page[p] \in PageState /\ page' = [page EXCEPT ![p] = r]
      /\ UNCHANGED <<sessions, notice, thread>>
      /\ page[p].at = "away"
  BY DEF Load, SessionInv, TypeOK
<1>2. Len(log) \in Nat /\ <<>> \in Seq(Message)
  BY LenProperties, EmptySeq DEF SessionInv, TypeOK
<1>3. /\ r \in PageState
      /\ r.at = "loaded" /\ r.room = 0 /\ r.loaded = Len(log) /\ r.live = <<>>
      /\ r.sent = page[p].sent /\ r.inbox = <<>> /\ r.handling = <<>>
      /\ r.outbox = <<>>
  BY <1>1, <1>2 DEF PageState, PageSteps, NewPage
<1>4. page' \in [Pages -> PageState] /\ Becomes(p, r)
  BY <1>1, <1>3, PageStep DEF SessionInv, TypeOK, Becomes
<1>5. TypeOK'
  BY <1>1, <1>4 DEF SessionInv, TypeOK, Load
<1>6. Moves(p, r)
  BY <1>1, <1>3, <1>4 DEF Moves, Becomes, Load
<1>7. SessionInv'
  BY <1>1, <1>5, <1>6, QuietSession
<1> QED
  BY <1>1, <1>3, <1>4, <1>7

LEMMA JoinStep ==
    ASSUME SessionInv, NEW p \in Pages, Join(p)
    PROVE  /\ SessionInv' /\ UNCHANGED <<sessions, notice>>
           /\ page[p].at = "join"
           /\ \E r \in PageState :
                  /\ Becomes(p, r)
                  /\ r.at = "open" /\ r.room = page[p].room /\ r.loaded = page[p].loaded
                  /\ r.live = page[p].live /\ r.sent = page[p].sent
                  /\ r.inbox = page[p].inbox /\ r.handling = page[p].handling
                  /\ r.outbox = page[p].outbox
<1> PICK r : r = [page[p] EXCEPT !.at = "open"]
  OBVIOUS
<1>1. /\ page[p] \in PageState /\ page' = [page EXCEPT ![p] = r]
      /\ UNCHANGED <<sessions, notice, thread, visits>>
      /\ page[p].at = "join"
  BY DEF Join, SessionInv, TypeOK
<1>2. /\ r \in PageState
      /\ r.at = "open" /\ r.room = page[p].room /\ r.loaded = page[p].loaded
      /\ r.live = page[p].live /\ r.sent = page[p].sent
      /\ r.inbox = page[p].inbox /\ r.handling = page[p].handling
      /\ r.outbox = page[p].outbox
  BY <1>1 DEF PageState, PageSteps, NewPage
<1>3. page' \in [Pages -> PageState] /\ Becomes(p, r)
  BY <1>1, <1>2, PageStep DEF SessionInv, TypeOK, Becomes
<1>4. TypeOK'
  BY <1>1, <1>3 DEF SessionInv, TypeOK, Join
<1>5. Moves(p, r)
  BY <1>1, <1>2, <1>3 DEF Moves, Becomes, Join
<1>6. SessionInv'
  BY <1>1, <1>4, <1>5, QuietSession
<1> QED
  BY <1>1, <1>2, <1>3, <1>6

LEMMA SendStep ==
    ASSUME SessionInv, NEW p \in Pages, Send(p)
    PROVE  /\ SessionInv' /\ UNCHANGED <<sessions, notice>>
           /\ page[p].at = "open" /\ Other(p) # System
           /\ \E r \in PageState :
                  /\ Becomes(p, r)
                  /\ r.at = page[p].at /\ r.room = page[p].room /\ r.loaded = page[p].loaded
                  /\ r.live = page[p].live /\ r.sent = page[p].sent + 1
                  /\ r.inbox = Append(page[p].inbox, <<p, page[p].sent + 1>>)
                  /\ r.handling = page[p].handling /\ r.outbox = page[p].outbox
<1> PICK r : r = [page[p] EXCEPT !.sent = @ + 1, !.inbox = Append(@, <<p, page[p].sent + 1>>)]
  OBVIOUS
<1>1. /\ page[p] \in PageState /\ page' = [page EXCEPT ![p] = r]
      /\ UNCHANGED <<sessions, notice, thread, visits>>
      /\ page[p].at = "open" /\ Other(p) # System
  BY DEF Send, SessionInv, TypeOK
<1>2. page[p].sent + 1 \in Nat /\ Append(page[p].inbox, <<p, page[p].sent + 1>>) \in Seq(Message)
  BY <1>1, PageFields, AppendProperties DEF Message
<1>3. /\ r \in PageState
      /\ r.at = page[p].at /\ r.room = page[p].room /\ r.loaded = page[p].loaded
      /\ r.live = page[p].live /\ r.sent = page[p].sent + 1
      /\ r.inbox = Append(page[p].inbox, <<p, page[p].sent + 1>>)
      /\ r.handling = page[p].handling /\ r.outbox = page[p].outbox
  BY <1>1, <1>2 DEF PageState, PageSteps, NewPage
<1>4. page' \in [Pages -> PageState] /\ Becomes(p, r)
  BY <1>1, <1>3, PageStep DEF SessionInv, TypeOK, Becomes
<1>5. TypeOK'
  BY <1>1, <1>4 DEF SessionInv, TypeOK, Send
<1>6. Moves(p, r)
  BY <1>1, <1>3, <1>4 DEF Moves, Becomes, Send
<1>7. SessionInv'
  BY <1>1, <1>5, <1>6, QuietSession
<1> QED
  BY <1>1, <1>3, <1>4, <1>7

LEMMA ReceiveStep ==
    ASSUME SessionInv, NEW p \in Pages, Receive(p)
    PROVE  /\ SessionInv' /\ UNCHANGED <<sessions, notice>>
           /\ page[p].inbox # <<>> /\ page[p].handling = <<>>
           /\ \E r \in PageState :
                  /\ Becomes(p, r)
                  /\ r.at = page[p].at /\ r.room = page[p].room /\ r.loaded = page[p].loaded
                  /\ r.live = page[p].live /\ r.sent = page[p].sent
                  /\ r.inbox = Tail(page[p].inbox) /\ r.handling = <<Head(page[p].inbox)>>
                  /\ r.outbox = page[p].outbox
<1> PICK r : r = [page[p] EXCEPT !.inbox = Tail(@), !.handling = <<Head(page[p].inbox)>>]
  OBVIOUS
<1>1. /\ page[p] \in PageState /\ page' = [page EXCEPT ![p] = r]
      /\ UNCHANGED <<sessions, notice, thread, visits>>
      /\ page[p].inbox # <<>> /\ page[p].handling = <<>>
  BY DEF Receive, SessionInv, TypeOK
<1>2. /\ Tail(page[p].inbox) \in Seq(Message) /\ Head(page[p].inbox) \in Message
      /\ <<Head(page[p].inbox)>> \in Seq(Message)
  BY <1>1, PageFields, HeadTailProperties
<1>3. /\ r \in PageState
      /\ r.at = page[p].at /\ r.room = page[p].room /\ r.loaded = page[p].loaded
      /\ r.live = page[p].live /\ r.sent = page[p].sent
      /\ r.inbox = Tail(page[p].inbox) /\ r.handling = <<Head(page[p].inbox)>>
      /\ r.outbox = page[p].outbox
  BY <1>1, <1>2 DEF PageState, PageSteps, NewPage
<1>4. page' \in [Pages -> PageState] /\ Becomes(p, r)
  BY <1>1, <1>3, PageStep DEF SessionInv, TypeOK, Becomes
<1>5. log' \in Seq(Message \union ({System} \X Notices))
  BY <1>2, AppendProperties DEF SessionInv, TypeOK, Receive
<1>6. TypeOK'
  BY <1>1, <1>4, <1>5 DEF SessionInv, TypeOK
<1>7. Moves(p, r)
  BY <1>1, <1>3, <1>4 DEF Moves, Becomes, Receive
<1>8. SessionInv'
  BY <1>1, <1>6, <1>7, QuietSession
<1> QED
  BY <1>1, <1>3, <1>4, <1>8

LEMMA ShowStep ==
    ASSUME SessionInv, NEW p \in Pages, Show(p)
    PROVE  /\ SessionInv' /\ UNCHANGED <<sessions, notice>>
           /\ page[p].at = "open" /\ page[p].outbox # <<>>
           /\ \E r \in PageState :
                  /\ Becomes(p, r)
                  /\ r.at = page[p].at /\ r.room = page[p].room /\ r.loaded = page[p].loaded
                  /\ r.live = Append(page[p].live, Head(page[p].outbox))
                  /\ r.sent = page[p].sent /\ r.inbox = page[p].inbox
                  /\ r.handling = page[p].handling /\ r.outbox = Tail(page[p].outbox)
<1> PICK r : r = [page[p] EXCEPT !.outbox = Tail(@), !.live = Append(@, Head(page[p].outbox))]
  OBVIOUS
<1>1. /\ page[p] \in PageState /\ page' = [page EXCEPT ![p] = r]
      /\ UNCHANGED <<sessions, notice, thread, visits>>
      /\ page[p].at = "open" /\ page[p].outbox # <<>>
  BY DEF Show, SessionInv, TypeOK
<1>2. /\ Tail(page[p].outbox) \in Seq(Message)
      /\ Append(page[p].live, Head(page[p].outbox)) \in Seq(Message)
  BY <1>1, PageFields, HeadTailProperties, AppendProperties
<1>3. /\ r \in PageState
      /\ r.at = page[p].at /\ r.room = page[p].room /\ r.loaded = page[p].loaded
      /\ r.live = Append(page[p].live, Head(page[p].outbox))
      /\ r.sent = page[p].sent /\ r.inbox = page[p].inbox
      /\ r.handling = page[p].handling /\ r.outbox = Tail(page[p].outbox)
  BY <1>1, <1>2 DEF PageState, PageSteps, NewPage
<1>4. page' \in [Pages -> PageState] /\ Becomes(p, r)
  BY <1>1, <1>3, PageStep DEF SessionInv, TypeOK, Becomes
<1>5. TypeOK'
  BY <1>1, <1>4 DEF SessionInv, TypeOK, Show
<1>6. Moves(p, r)
  BY <1>1, <1>3, <1>4 DEF Moves, Becomes, Show
<1>7. SessionInv'
  BY <1>1, <1>5, <1>6, QuietSession
<1> QED
  BY <1>1, <1>3, <1>4, <1>7

LEMMA LeaveStep ==
    ASSUME SessionInv, NEW p \in Pages, Leave(p)
    PROVE  /\ SessionInv' /\ UNCHANGED <<sessions, notice>>
           /\ page[p].at = "open"
           /\ \E r \in PageState :
                  /\ Becomes(p, r)
                  /\ r.at = "closing" /\ r.room = page[p].room /\ r.loaded = page[p].loaded
                  /\ r.live = <<>> /\ r.sent = page[p].sent /\ r.inbox = page[p].inbox
                  /\ r.handling = page[p].handling /\ r.outbox = <<>>
<1> PICK r : r = [page[p] EXCEPT !.at = "closing", !.live = <<>>, !.outbox = <<>>]
  OBVIOUS
<1>1. /\ page[p] \in PageState /\ page' = [page EXCEPT ![p] = r]
      /\ UNCHANGED <<sessions, notice, thread, visits>>
      /\ page[p].at = "open"
  BY DEF Leave, SessionInv, TypeOK
<1>2. <<>> \in Seq(Message)
  BY EmptySeq
<1>3. /\ r \in PageState
      /\ r.at = "closing" /\ r.room = page[p].room /\ r.loaded = page[p].loaded
      /\ r.live = <<>> /\ r.sent = page[p].sent /\ r.inbox = page[p].inbox
      /\ r.handling = page[p].handling /\ r.outbox = <<>>
  BY <1>1, <1>2 DEF PageState, PageSteps, NewPage
<1>4. page' \in [Pages -> PageState] /\ Becomes(p, r)
  BY <1>1, <1>3, PageStep DEF SessionInv, TypeOK, Becomes
<1>5. TypeOK'
  BY <1>1, <1>4 DEF SessionInv, TypeOK, Leave
<1>6. Moves(p, r)
  BY <1>1, <1>3, <1>4 DEF Moves, Becomes, Leave
<1>7. SessionInv'
  BY <1>1, <1>5, <1>6, QuietSession
<1> QED
  BY <1>1, <1>3, <1>4, <1>7

LEMMA DisconnectStep ==
    ASSUME SessionInv, NEW p \in Pages, Disconnect(p)
    PROVE  /\ SessionInv' /\ UNCHANGED <<sessions, notice>>
           /\ page[p].inbox = <<>> /\ page[p].handling = <<>>
           /\ \E r \in PageState :
                  /\ Becomes(p, r)
                  /\ r.at = "away" /\ r.room = 0 /\ r.loaded = 0 /\ r.live = <<>>
                  /\ r.sent = page[p].sent /\ r.inbox = <<>> /\ r.handling = <<>>
                  /\ r.outbox = <<>>
<1> PICK r : r = [NewPage EXCEPT !.sent = page[p].sent]
  OBVIOUS
<1>1. /\ page[p] \in PageState /\ page' = [page EXCEPT ![p] = r]
      /\ UNCHANGED <<sessions, notice, thread, visits>>
      /\ page[p].inbox = <<>> /\ page[p].handling = <<>>
  BY DEF Disconnect, SessionInv, TypeOK
<1>2. <<>> \in Seq(Message)
  BY EmptySeq
<1>3. /\ r \in PageState
      /\ r.at = "away" /\ r.room = 0 /\ r.loaded = 0 /\ r.live = <<>>
      /\ r.sent = page[p].sent /\ r.inbox = <<>> /\ r.handling = <<>>
      /\ r.outbox = <<>>
  BY <1>1, <1>2 DEF PageState, PageSteps, NewPage
<1>4. page' \in [Pages -> PageState] /\ Becomes(p, r)
  BY <1>1, <1>3, PageStep DEF SessionInv, TypeOK, Becomes
<1>5. TypeOK'
  BY <1>1, <1>4 DEF SessionInv, TypeOK, Disconnect
<1>6. Moves(p, r)
  BY <1>1, <1>3, <1>4 DEF Moves, Becomes, Disconnect
<1>7. SessionInv'
  BY <1>1, <1>5, <1>6, QuietSession
<1> QED
  BY <1>1, <1>3, <1>4, <1>7

\* Broadcast changes every page in the room.
LEMMA BroadcastStep ==
    ASSUME SessionInv, NEW p \in Pages, Broadcast(p)
    PROVE  /\ SessionInv' /\ UNCHANGED <<sessions, notice>>
           /\ \A o \in Pages :
                  /\ page'[o].at = page[o].at /\ page'[o].room = page[o].room
                  /\ page'[o].live = page[o].live /\ page'[o].sent = page[o].sent
                  /\ page'[o].inbox = page[o].inbox
                  /\ page'[o].handling = IF o = p THEN <<>> ELSE page[o].handling
                  /\ page'[o].outbox = IF o \in InRoom(page[p].room)
                                       THEN page[o].outbox \o page[p].handling
                                       ELSE page[o].outbox
<1> DEFINE new(o) == [page[o] EXCEPT !.outbox = IF o \in InRoom(page[p].room)
                                              THEN @ \o page[p].handling ELSE @,
                                     !.handling = IF o = p THEN <<>> ELSE @]
<1>1. /\ page \in [Pages -> PageState] /\ page' = [o \in Pages |-> new(o)]
      /\ UNCHANGED <<sessions, log, notice, thread, visits>>
  BY DEF SessionInv, TypeOK, Broadcast
<1>2. ASSUME NEW o \in Pages
      PROVE  /\ new(o) \in PageState
             /\ new(o).at = page[o].at /\ new(o).room = page[o].room
             /\ new(o).live = page[o].live /\ new(o).sent = page[o].sent
             /\ new(o).inbox = page[o].inbox
             /\ new(o).handling = IF o = p THEN <<>> ELSE page[o].handling
             /\ new(o).outbox = IF o \in InRoom(page[p].room)
                                THEN page[o].outbox \o page[p].handling
                                ELSE page[o].outbox
  <2> PICK out, hand : /\ out = IF o \in InRoom(page[p].room)
                                THEN page[o].outbox \o page[p].handling
                                ELSE page[o].outbox
                       /\ hand = IF o = p THEN <<>> ELSE page[o].handling
    OBVIOUS
  <2>1. page[o] \in PageState /\ page[p] \in PageState
    BY <1>1
  <2>2. page[o].outbox \o page[p].handling \in Seq(Message) /\ <<>> \in Seq(Message)
    BY <2>1, PageFields, ConcatProperties, EmptySeq
  <2>3. out \in Seq(Message) /\ hand \in Seq(Message)
    BY <2>1, <2>2, PageFields
  <2>4. new(o) = [page[o] EXCEPT !.outbox = out, !.handling = hand]
    OBVIOUS
  <2> HIDE DEF new
  <2> QED
    BY <2>1, <2>3, <2>4 DEF PageState
<1>3. \A o \in Pages : page'[o] = new(o)
  BY <1>1
<1>4. page' \in [Pages -> PageState]
  BY <1>1, <1>2
<1> HIDE DEF new
<1>5. TypeOK'
  BY <1>1, <1>4 DEF SessionInv, TypeOK
<1>6. Moves(p, page'[p])
  BY <1>2, <1>3 DEF Moves
<1>7. SessionInv'
  <2> PICK r : r = page'[p]
    OBVIOUS
  <2>1. Moves(p, r)
    BY <1>6
  <2> QED
    BY <2>1, <1>1, <1>5, QuietSession
<1> QED
  BY <1>1, <1>2, <1>3, <1>7

LEMMA NoticeLookSession ==
    ASSUME SessionInv, NEW n \in Notices, NoticeLook(n)
    PROVE  SessionInv' /\ Grows /\ Untouched
<1> PICK r : r = [notice[n] EXCEPT !.at = IF SessionsOf(NoticeTo(n)) # {} THEN "store"
                                          ELSE "create"]
  OBVIOUS
<1>1. notice[n] \in NoticeState
  BY DEF SessionInv, TypeOK
<1>2. r \in NoticeState /\ r.at # "add"
  BY <1>1 DEF NoticeState
<1>3. /\ UNCHANGED <<sessions, log, page, thread, visits>>
      /\ notice' = [notice EXCEPT ![n] = r]
  BY DEF NoticeLook
<1>4. /\ notice' \in [Notices -> NoticeState]
      /\ notice'[n] = r /\ \A o \in Notices : o # n => notice'[o] = notice[o]
  BY <1>2, <1>3, NoticeStep DEF SessionInv, TypeOK
<1>5. TypeOK'
  BY <1>3, <1>4 DEF SessionInv, TypeOK
<1>6. Grows /\ Untouched
  BY <1>3 DEF Grows, Untouched, SameMail, SessionsOf
<1> QED
  BY <1>2, <1>3, <1>4, <1>5, <1>6, SessionsKept

LEMMA NoticeStoreSession ==
    ASSUME SessionInv, NEW n \in Notices, NoticeStore(n)
    PROVE  SessionInv' /\ Grows /\ Untouched
<1> PICK r : r = [notice[n] EXCEPT !.at = "stored"]
  OBVIOUS
<1>1. notice[n] \in NoticeState
  BY DEF SessionInv, TypeOK
<1>2. r \in NoticeState /\ r.at # "add"
  BY <1>1 DEF NoticeState
<1>3. /\ UNCHANGED <<sessions, page, thread, visits>>
      /\ notice' = [notice EXCEPT ![n] = r] /\ log' = Append(log, <<System, n>>)
  BY DEF NoticeStore
<1>4. /\ notice' \in [Notices -> NoticeState]
      /\ notice'[n] = r /\ \A o \in Notices : o # n => notice'[o] = notice[o]
  BY <1>2, <1>3, NoticeStep DEF SessionInv, TypeOK
<1>5. TypeOK'
  <2>1. <<System, n>> \in Message \union ({System} \X Notices)
    OBVIOUS
  <2>2. log' \in Seq(Message \union ({System} \X Notices))
    BY <2>1, <1>3, AppendProperties DEF SessionInv, TypeOK
  <2> QED
    BY <2>2, <1>3, <1>4 DEF SessionInv, TypeOK
<1>6. Grows /\ Untouched
  BY <1>3 DEF Grows, Untouched, SameMail, SessionsOf
<1> QED
  BY <1>2, <1>3, <1>4, <1>5, <1>6, SessionsKept

LEMMA SessionStep == SessionInv /\ [Next]_vars => SessionInv'
<1> SUFFICES ASSUME SessionInv, [Next]_vars
             PROVE  SessionInv'
  OBVIOUS
<1>1. ASSUME NEW p \in Pages, Load(p) \/ Send(p) \/ Leave(p) \/ Consumer(p)
      PROVE  SessionInv'
  BY <1>1, LoadStep, SendStep, LeaveStep, ConnectSession, LookSession, CreateSession,
     AddMembersSession, JoinStep, ReceiveStep, BroadcastStep, ShowStep, DisconnectStep
     DEF Consumer
<1>2. ASSUME NEW n \in Notices, Announce(n)
      PROVE  SessionInv'
  BY <1>2, NoticeLookSession, NoticeCreateSession, NoticeAddMembersSession, NoticeStoreSession
     DEF Announce
<1>3. CASE UNCHANGED vars
  <2>1. TypeOK'
    BY <1>3 DEF vars, SessionInv, TypeOK
  <2> QED
    BY <2>1, <1>3, SessionsKept DEF vars
<1> QED
  BY <1>1, <1>2, <1>3 DEF Next

LEMMA SessionInit == Init => SessionInv
<1> SUFFICES ASSUME Init
             PROVE  SessionInv
  OBVIOUS
<1>1. /\ sessions = <<>> /\ log = <<>> /\ page = [p \in Pages |-> NewPage]
      /\ notice = [n \in Notices |-> [at |-> "none", room |-> 0]]
      /\ visits = [p \in Pages |-> 0]
  BY DEF Init
<1>2. NewPage \in PageState /\ NewPage.at = "away"
  BY EmptySeq DEF NewPage, PageState, PageSteps
<1>3. TypeOK
  BY <1>1, <1>2, EmptySeq DEF TypeOK, NoticeState
<1>4. \A pair, i : i \notin SessionsOf(pair)
  BY <1>1 DEF SessionsOf
<1>5. (\A p \in Pages : page[p].at = "away") /\ \A n \in Notices : notice[n].at = "none"
  BY <1>1, <1>2
<1>6. InThread /\ StillNone /\ Reserved /\ InItsRoom
  BY <1>5 DEF InThread, Working, StillNone, Reserved, InItsRoom
<1>7. AtMostOne
  BY <1>4 DEF AtMostOne
<1> QED
  BY <1>3, <1>6, <1>7 DEF SessionInv

-----------------------------------------------------------------------------
(* Sequences of messages *)

LEMMA UnbrokenPrefix ==
    ASSUME NEW s \in Seq(Message), NEW t \in Seq(Message), Unbroken(s \o t)
    PROVE  Unbroken(s)
<1>1. /\ Len(s) \in Nat /\ Len(t) \in Nat /\ Len(s \o t) = Len(s) + Len(t)
      /\ \A i \in 1..Len(s) : (s \o t)[i] = s[i]
      /\ DOMAIN s = 1..Len(s) /\ DOMAIN (s \o t) = 1..(Len(s) + Len(t))
  BY ConcatProperties, LenProperties
<1> SUFFICES ASSUME NEW j \in DOMAIN s, NEW k \in DOMAIN s,
                    j < k, s[j][1] = s[k][1],
                    \A i \in (j + 1)..(k - 1) : s[i][1] # s[k][1]
             PROVE  s[k][2] = s[j][2] + 1
  BY DEF Unbroken
<1> PICK st : st = s \o t
  OBVIOUS
<1>2. /\ j \in DOMAIN st /\ k \in DOMAIN st /\ st[j] = s[j] /\ st[k] = s[k]
      /\ \A i \in (j + 1)..(k - 1) : st[i] = s[i]
  BY <1>1
<1>3. \A i \in (j + 1)..(k - 1) : st[i][1] # st[k][1]
  BY <1>2
<1> QED
  BY <1>2, <1>3 DEF Unbroken

LEMMA AppendUnbroken ==
    ASSUME NEW s \in Seq(Message), NEW q \in Pages, NEW n \in Nat,
           Unbroken(s), Follows(s, q, n)
    PROVE  /\ Unbroken(Append(s, <<q, n>>))
           /\ Follows(Append(s, <<q, n>>), q, n + 1)
           /\ \A o, k : o # q /\ Follows(s, o, k) => Follows(Append(s, <<q, n>>), o, k)
<1> PICK t, m, l : t = Append(s, m) /\ m = <<q, n>> /\ l = Len(s)
  OBVIOUS
<1>1. m \in Message /\ m[1] = q /\ m[2] = n
  BY DEF Message
<1>2. /\ l \in Nat /\ Len(t) = l + 1 /\ t \in Seq(Message)
      /\ DOMAIN s = 1..l /\ \A i \in 1..l : t[i] = s[i]
      /\ t[l + 1] = m
  BY <1>1, AppendProperties, LenProperties
<1>3. DOMAIN t = 1..(l + 1)
  BY <1>2, LenProperties
<1>4. Unbroken(t)
  <2> SUFFICES ASSUME NEW j \in DOMAIN t, NEW k \in DOMAIN t,
                      j < k, t[j][1] = t[k][1],
                      \A i \in (j + 1)..(k - 1) : t[i][1] # t[k][1]
               PROVE  t[k][2] = t[j][2] + 1
    BY DEF Unbroken
  <2>1. j \in 1..l /\ t[j] = s[j] /\ j \in DOMAIN s
    BY <1>2, <1>3
  <2>2. CASE k = l + 1
    <3>1. \A i \in (j + 1)..l : s[i][1] # q
      BY <2>1, <2>2, <1>1, <1>2
    <3>2. s[j][1] = q
      BY <2>1, <2>2, <1>1, <1>2
    <3>3. s[j][2] + 1 = n
      BY <3>1, <3>2, <2>1 DEF Follows
    <3> QED
      BY <3>3, <2>1, <2>2, <1>1, <1>2
  <2>3. CASE k # l + 1
    <3>1. k \in 1..l /\ t[k] = s[k] /\ k \in DOMAIN s
      BY <2>3, <1>2, <1>3
    <3>2. \A i \in (j + 1)..(k - 1) : t[i] = s[i]
      BY <3>1, <2>1, <1>2
    <3>3. \A i \in (j + 1)..(k - 1) : s[i][1] # s[k][1]
      BY <3>1, <3>2
    <3> QED
      BY <3>1, <3>3, <2>1 DEF Unbroken
  <2> QED
    BY <2>2, <2>3
<1>5. Follows(t, q, n + 1)
  <2> SUFFICES ASSUME NEW j \in DOMAIN t, t[j][1] = q,
                      \A i \in (j + 1)..Len(t) : t[i][1] # q
               PROVE  t[j][2] + 1 = n + 1
    BY DEF Follows
  <2>1. j = l + 1
    BY <1>1, <1>2, <1>3
  <2> QED
    BY <2>1, <1>1, <1>2
<1>6. ASSUME NEW o, NEW k, o # q, Follows(s, o, k)
      PROVE  Follows(t, o, k)
  <2> SUFFICES ASSUME NEW j \in DOMAIN t, t[j][1] = o,
                      \A i \in (j + 1)..Len(t) : t[i][1] # o
               PROVE  t[j][2] + 1 = k
    BY DEF Follows
  <2>1. j \in 1..l
    BY <1>1, <1>2, <1>3, <1>6
  <2>2. t[j] = s[j] /\ j \in DOMAIN s /\ \A i \in (j + 1)..l : t[i] = s[i] /\ i \in 1..Len(t)
    BY <2>1, <1>2
  <2>3. \A i \in (j + 1)..l : s[i][1] # o
    BY <2>2, <1>2
  <2> QED
    BY <2>2, <2>3, <1>6 DEF Follows
<1> QED
  BY <1>4, <1>5, <1>6

-----------------------------------------------------------------------------
(* Steps and messages *)

LEMMA StreamTyped ==
    ASSUME NEW r \in PageState
    PROVE  Stream(r) \in Seq(Message)
BY PageFields, ConcatProperties DEF Stream

LEMMA SameMailFacts ==
    ASSUME NEW r, NEW t, SameMail(r, t)
    PROVE  /\ Stream(t) = Stream(r) /\ NextOf(t) = NextOf(r)
           /\ \A p : Queued(p, r) => Queued(p, t)
           /\ Idle(r) => Idle(t)
BY DEF SameMail, Stream, NextOf, Queued, Idle

\* The stream of page o stays or becomes empty, and the number of its next message stays.
Kept(o) ==
    /\ Queued(o, page'[o])
    /\ NextOf(page'[o]) = NextOf(page[o])
    /\ page'[o].at \notin {"open", "closing"} => Idle(page'[o])
    /\ \/ Stream(page'[o]) = <<>>
       \/ Stream(page'[o]) = Stream(page[o]) /\ page'[o].room = page[o].room

LEMMA UntouchedKept ==
    ASSUME MessageInv, NEW o \in Pages, SameMail(page[o], page'[o]),
           \/ page[o].at \notin {"open", "closing"}
           \/ page'[o].at = page[o].at /\ page'[o].room = page[o].room
    PROVE  Kept(o)
<1> PICK r, t : r = page[o] /\ t = page'[o]
  OBVIOUS
<1>1. Queued(o, r) /\ (r.at \notin {"open", "closing"} => Idle(r))
  BY DEF MessageInv, QueueOK, AwayOK
<1>2. /\ Stream(t) = Stream(r) /\ NextOf(t) = NextOf(r)
      /\ Queued(o, t) /\ (Idle(r) => Idle(t))
  BY <1>1, SameMailFacts
<1>3. r.at \notin {"open", "closing"} => Stream(r) = <<>>
  <2>1. Idle(r) => Stream(r) = <<>>
    BY EmptySeq, ConcatEmptySeq DEF Idle, Stream
  <2> QED
    BY <2>1, <1>1
<1> QED
  BY <1>1, <1>2, <1>3 DEF Kept

LEMMA MailKept ==
    ASSUME MessageInv, Grows, \A o \in Pages : Kept(o)
    PROVE  MessageInv'
<1>1. QueueOK' /\ AwayOK'
  BY DEF Kept, QueueOK, AwayOK
<1>2. StreamsOK'
  <2> SUFFICES ASSUME NEW o \in Pages
               PROVE  /\ Unbroken(Stream(page'[o]))
                      /\ \A q \in Pages : Follows(Stream(page'[o]), q, NextOf(page'[q]))
    BY DEF StreamsOK
  <2>1. CASE Stream(page'[o]) = <<>>
    BY <2>1 DEF Unbroken, Follows
  <2>2. CASE Stream(page'[o]) = Stream(page[o])
    BY <2>2 DEF Kept, MessageInv, StreamsOK
  <2> QED
    BY <2>1, <2>2 DEF Kept
<1>3. FromItsRoom'
  <2> SUFFICES ASSUME NEW o \in Pages, NEW q \in Pages, Has(Stream(page'[o]), q)
               PROVE  Other(q) # System /\ page'[o].room \in SessionsOf(Pair(q))'
    BY DEF FromItsRoom
  <2>1. Stream(page'[o]) = Stream(page[o]) /\ page'[o].room = page[o].room
    BY DEF Has, Kept
  <2>2. Other(q) # System /\ page[o].room \in SessionsOf(Pair(q))
    BY <2>1 DEF MessageInv, FromItsRoom
  <2>3. Pair(q) # {}
    BY PairFacts
  <2> QED
    BY <2>1, <2>2, <2>3 DEF Grows
<1> QED
  BY <1>1, <1>2, <1>3 DEF MessageInv

LEMMA UntouchedMail ==
    ASSUME MessageInv, Grows, Untouched
    PROVE  MessageInv'
<1>1. \A o \in Pages : Kept(o)
  BY UntouchedKept DEF Untouched
<1> QED
  BY <1>1, MailKept

\* A step of one page.
LEMMA OnePageMail ==
    ASSUME MessageInv, UNCHANGED sessions, NEW p \in Pages, NEW r, Becomes(p, r), Kept(p)
    PROVE  MessageInv'
<1>1. ASSUME NEW o \in Pages, o # p
      PROVE  Kept(o)
  <2>1. page'[o] = page[o]
    BY <1>1 DEF Becomes
  <2>2. SameMail(page[o], page'[o])
    BY <2>1 DEF SameMail
  <2> QED
    BY <2>1, <2>2, UntouchedKept
<1>2. Grows
  BY DEF Grows, SessionsOf
<1> QED
  BY <1>1, <1>2, MailKept

LEMMA LoadMail ==
    ASSUME SessionInv, MessageInv, NEW p \in Pages, Load(p)
    PROVE  MessageInv'
<1>1. /\ UNCHANGED sessions
      /\ \E r \in PageState : /\ Becomes(p, r) /\ r.sent = page[p].sent
                              /\ r.live = <<>> /\ r.outbox = <<>>
                              /\ r.inbox = <<>> /\ r.handling = <<>>
  BY LoadStep
<1>2. page[p].at = "away"
  BY DEF Load
<1>3. PICK r \in PageState : /\ Becomes(p, r) /\ r.sent = page[p].sent
                             /\ r.live = <<>> /\ r.outbox = <<>>
                             /\ r.inbox = <<>> /\ r.handling = <<>>
  BY <1>1
<1>4. SameMail(page[p], page'[p])
  BY <1>2, <1>3 DEF MessageInv, AwayOK, Idle, SameMail, Becomes
<1>5. Kept(p)
  BY <1>2, <1>4, UntouchedKept
<1> QED
  BY <1>1, <1>3, <1>5, OnePageMail

LEMMA JoinMail ==
    ASSUME SessionInv, MessageInv, NEW p \in Pages, Join(p)
    PROVE  MessageInv'
<1>1. UNCHANGED sessions /\ page[p].at = "join"
  BY DEF Join
<1>2. PICK r \in PageState : Becomes(p, r) /\ SameMail(page[p], r)
  BY JoinStep DEF SameMail
<1>3. Kept(p)
  BY <1>1, <1>2, UntouchedKept DEF Becomes
<1> QED
  BY <1>1, <1>2, <1>3, OnePageMail

LEMMA LeaveMail ==
    ASSUME SessionInv, MessageInv, NEW p \in Pages, Leave(p)
    PROVE  MessageInv'
<1>1. PICK r \in PageState :
          /\ UNCHANGED sessions /\ Becomes(p, r) /\ r.at = "closing" /\ r.sent = page[p].sent
          /\ r.inbox = page[p].inbox /\ r.handling = page[p].handling
          /\ r.live = <<>> /\ r.outbox = <<>>
  BY LeaveStep
<1>2. Stream(r) = <<>>
  BY <1>1, EmptySeq, ConcatEmptySeq DEF Stream
<1>3. Queued(p, page[p])
  BY DEF MessageInv, QueueOK
<1>4. Queued(p, r) /\ NextOf(r) = NextOf(page[p])
  BY <1>1, <1>3 DEF Queued, NextOf
<1>5. Kept(p)
  BY <1>1, <1>2, <1>4 DEF Kept, Becomes
<1> QED
  BY <1>1, <1>5, OnePageMail

LEMMA DisconnectMail ==
    ASSUME SessionInv, MessageInv, NEW p \in Pages, Disconnect(p)
    PROVE  MessageInv'
<1>1. PICK r \in PageState :
          /\ UNCHANGED sessions /\ Becomes(p, r) /\ r.sent = page[p].sent
          /\ page[p].inbox = <<>> /\ page[p].handling = <<>>
          /\ r.inbox = <<>> /\ r.handling = <<>> /\ r.live = <<>> /\ r.outbox = <<>>
  BY DisconnectStep
<1>2. Stream(r) = <<>> /\ Idle(r)
  BY <1>1, EmptySeq, ConcatEmptySeq DEF Stream, Idle
<1>3. Queued(p, page[p])
  BY DEF MessageInv, QueueOK
<1>4. Queued(p, r) /\ NextOf(r) = NextOf(page[p])
  BY <1>1, <1>3 DEF Queued, NextOf
<1>5. Kept(p)
  BY <1>1, <1>2, <1>4 DEF Kept, Becomes
<1> QED
  BY <1>1, <1>5, OnePageMail

LEMMA SendMail ==
    ASSUME SessionInv, MessageInv, NEW p \in Pages, Send(p)
    PROVE  MessageInv'
<1> PICK m : m = <<p, page[p].sent + 1>>
  OBVIOUS
<1>1. PICK r \in PageState :
          /\ UNCHANGED sessions /\ Becomes(p, r) /\ page[p].at = "open" /\ Other(p) # System
          /\ r.at = page[p].at /\ r.room = page[p].room /\ r.live = page[p].live
          /\ r.sent = page[p].sent + 1 /\ r.inbox = Append(page[p].inbox, m)
          /\ r.handling = page[p].handling /\ r.outbox = page[p].outbox
  BY SendStep
<1>2. page[p] \in PageState /\ Queued(p, page[p])
  BY DEF SessionInv, TypeOK, MessageInv, QueueOK
<1> PICK sent, inbox, handling, many : /\ sent = page[p].sent /\ inbox = page[p].inbox
                                         /\ handling = page[p].handling /\ many = Len(inbox)
  OBVIOUS
<1>3. /\ sent \in Nat /\ inbox \in Seq(Message) /\ many \in Nat /\ Len(handling) \in Nat
      /\ m \in Message
  BY <1>2, PageFields, LenProperties DEF Message
<1>4. /\ Len(r.inbox) = many + 1 /\ r.inbox[many + 1] = m
      /\ \A i \in 1..many : r.inbox[i] = inbox[i]
      /\ DOMAIN r.inbox = 1..(many + 1) /\ DOMAIN inbox = 1..many
  BY <1>1, <1>3, PageFields, AppendProperties, LenProperties
<1>5. /\ many + Len(handling) <= sent
      /\ \A i \in 1..many : inbox[i] = <<p, sent - many + i>>
      /\ handling = <<>> \/ handling = <<<<p, sent - many>>>>
  BY <1>2, <1>4 DEF Queued
<1>6. /\ NextOf(r) = NextOf(page[p])
      /\ Len(r.inbox) + Len(r.handling) <= r.sent
      /\ r.sent - Len(r.inbox) = sent - many
  <2> PICK held : held = Len(handling)
    OBVIOUS
  <2>1. /\ r.sent = sent + 1 /\ Len(r.inbox) = many + 1 /\ Len(r.handling) = held
        /\ page[p].sent = sent /\ Len(page[p].inbox) = many /\ Len(page[p].handling) = held
    BY <1>1, <1>4
  <2>2. sent \in Nat /\ many \in Nat /\ held \in Nat /\ many + held <= sent
    BY <1>3, <1>5
  <2> QED
    BY ONLY <2>1, <2>2 DEF NextOf
<1>7. Queued(p, r)
  <2>1. Len(r.inbox) + Len(r.handling) <= r.sent
    BY <1>6
  <2>2. r.sent - Len(r.inbox) = sent - many
    BY <1>6
  <2>3. ASSUME NEW i \in DOMAIN r.inbox
        PROVE  r.inbox[i] = <<p, r.sent - Len(r.inbox) + i>>
    <3>1. CASE i = many + 1
      <4>1. r.sent - Len(r.inbox) + i = sent + 1
        <5>1. sent \in Nat /\ many \in Nat
          BY <1>3
        <5> QED
          BY ONLY <5>1, <3>1, <2>2
      <4> QED
        BY <4>1, <3>1, <1>4
    <3>2. CASE i # many + 1
      <4>1. i \in 1..many
        BY <3>2, <1>3, <1>4
      <4> QED
        BY <4>1, <2>2, <1>4, <1>5
    <3> QED
      BY <3>1, <3>2
  <2> QED
    BY <2>1, <2>2, <2>3, <1>1, <1>5 DEF Queued
<1>8. Stream(r) = Stream(page[p])
  BY <1>1 DEF Stream
<1>9. Kept(p)
  BY <1>1, <1>6, <1>7, <1>8 DEF Kept, Becomes
<1> QED
  BY <1>1, <1>9, OnePageMail

LEMMA ReceiveMail ==
    ASSUME SessionInv, MessageInv, NEW p \in Pages, Receive(p)
    PROVE  MessageInv'
<1>1. PICK r \in PageState :
          /\ UNCHANGED sessions /\ Becomes(p, r)
          /\ page[p].inbox # <<>> /\ page[p].handling = <<>>
          /\ r.at = page[p].at /\ r.room = page[p].room /\ r.live = page[p].live
          /\ r.sent = page[p].sent /\ r.inbox = Tail(page[p].inbox)
          /\ r.handling = <<Head(page[p].inbox)>> /\ r.outbox = page[p].outbox
  BY ReceiveStep
<1>2. page[p] \in PageState /\ Queued(p, page[p])
  BY DEF SessionInv, TypeOK, MessageInv, QueueOK
<1> PICK sent, inbox, many : /\ sent = page[p].sent /\ inbox = page[p].inbox
                               /\ many = Len(inbox)
  OBVIOUS
<1>3. /\ sent \in Nat /\ inbox \in Seq(Message) /\ many \in Nat /\ many # 0
      /\ inbox # <<>> /\ DOMAIN inbox = 1..many
  BY <1>1, <1>2, PageFields, LenProperties, EmptySeq
<1>4. /\ Len(r.inbox) = many - 1 /\ Head(inbox) = inbox[1]
      /\ \A i \in 1..(many - 1) : r.inbox[i] = inbox[i + 1]
      /\ DOMAIN r.inbox = 1..(many - 1)
  BY <1>1, <1>3, PageFields, HeadTailProperties, LenProperties
<1>5. /\ many <= sent
      /\ \A i \in 1..many : inbox[i] = <<p, sent - many + i>>
      /\ Other(p) # System
  BY <1>1, <1>2, <1>3 DEF Queued
<1>6. /\ Len(r.handling) = 1 /\ Len(page[p].handling) = 0
      /\ r.handling = <<<<p, sent - many + 1>>>>
  BY <1>1, <1>3, <1>4, <1>5
<1>7. NextOf(r) = NextOf(page[p])
  <2>1. /\ r.sent = sent /\ Len(r.inbox) = many - 1 /\ Len(r.handling) = 1
        /\ page[p].sent = sent /\ Len(page[p].inbox) = many /\ Len(page[p].handling) = 0
    BY <1>1, <1>4, <1>6
  <2>2. sent \in Nat /\ many \in Nat
    BY <1>3
  <2> QED
    BY ONLY <2>1, <2>2 DEF NextOf
<1>8. Queued(p, r)
  <2>1. Len(r.inbox) + Len(r.handling) <= r.sent
    BY <1>1, <1>3, <1>4, <1>5, <1>6
  <2>2. r.sent - Len(r.inbox) = sent - many + 1
    BY <1>1, <1>3, <1>4
  <2>3. ASSUME NEW i \in DOMAIN r.inbox
        PROVE  r.inbox[i] = <<p, r.sent - Len(r.inbox) + i>>
    <3>1. i \in 1..(many - 1) /\ i + 1 \in 1..many
      BY <1>3, <1>4
    <3>2. sent - many + (i + 1) = sent - many + 1 + i
      <4>1. sent \in Nat /\ many \in Nat
        BY <1>3
      <4> QED
        BY ONLY <4>1, <3>1
    <3> QED
      BY <3>1, <3>2, <2>2, <1>4, <1>5
  <2> QED
    BY <2>1, <2>2, <2>3, <1>5, <1>6 DEF Queued
<1>9. Stream(r) = Stream(page[p])
  BY <1>1 DEF Stream
<1>10. page[p].at \in {"open", "closing"}
  BY <1>1 DEF MessageInv, AwayOK, Idle
<1>11. Kept(p)
  BY <1>1, <1>7, <1>8, <1>9, <1>10 DEF Kept, Becomes
<1> QED
  BY <1>1, <1>11, OnePageMail

LEMMA ShowMail ==
    ASSUME SessionInv, MessageInv, NEW p \in Pages, Show(p)
    PROVE  MessageInv'
<1>1. PICK r \in PageState :
          /\ UNCHANGED sessions /\ Becomes(p, r)
          /\ page[p].at = "open" /\ page[p].outbox # <<>>
          /\ r.at = page[p].at /\ r.room = page[p].room
          /\ r.live = Append(page[p].live, Head(page[p].outbox))
          /\ r.sent = page[p].sent /\ r.inbox = page[p].inbox
          /\ r.handling = page[p].handling /\ r.outbox = Tail(page[p].outbox)
  BY ShowStep
<1>2. page[p] \in PageState /\ Queued(p, page[p])
  BY DEF SessionInv, TypeOK, MessageInv, QueueOK
<1> PICK live, outbox, m : live = page[p].live /\ outbox = page[p].outbox /\ m = Head(outbox)
  OBVIOUS
<1>3. /\ live \in Seq(Message) /\ outbox \in Seq(Message) /\ outbox # <<>>
      /\ m \in Message /\ Tail(outbox) \in Seq(Message) /\ <<m>> \in Seq(Message)
  BY <1>1, <1>2, PageFields, HeadTailProperties
<1>4. outbox = <<m>> \o Tail(outbox)
  BY <1>3
<1>5. Append(live, m) = live \o <<m>>
  BY <1>3, AppendIsConcat
<1>6. (live \o <<m>>) \o Tail(outbox) = live \o (<<m>> \o Tail(outbox))
  <2>0. PICK one, rest : one = <<m>> /\ rest = Tail(outbox)
    OBVIOUS
  <2>1. live \in Seq(Message) /\ one \in Seq(Message) /\ rest \in Seq(Message)
    BY <2>0, <1>3
  <2>2. (live \o one) \o rest = live \o (one \o rest)
    BY ONLY <2>1, ConcatAssociative
  <2> QED
    BY ONLY <2>0, <2>2
<1>7. Stream(r) = Stream(page[p])
  BY <1>1, <1>4, <1>5, <1>6 DEF Stream
<1>8. Queued(p, r) /\ NextOf(r) = NextOf(page[p])
  BY <1>1, <1>2 DEF Queued, NextOf
<1>9. Kept(p)
  BY <1>1, <1>7, <1>8 DEF Kept, Becomes
<1> QED
  BY <1>1, <1>9, OnePageMail

\* The message is the next of its page on every page in the room, and those are the only pages
\* with messages of its page: they have one session.
LEMMA BroadcastMail ==
    ASSUME SessionInv, MessageInv, NEW p \in Pages, Broadcast(p)
    PROVE  MessageInv'
<1> PICK n, m, room : n = NextOf(page[p]) /\ m = <<p, n>> /\ room = page[p].room
  OBVIOUS
<1>1. /\ UNCHANGED sessions
      /\ \A o \in Pages :
             /\ page'[o].at = page[o].at /\ page'[o].room = page[o].room
             /\ page'[o].live = page[o].live /\ page'[o].sent = page[o].sent
             /\ page'[o].inbox = page[o].inbox
             /\ page'[o].handling = IF o = p THEN <<>> ELSE page[o].handling
             /\ page'[o].outbox = IF o \in InRoom(room)
                                  THEN page[o].outbox \o page[p].handling
                                  ELSE page[o].outbox
  BY BroadcastStep
<1>2. /\ \A o \in Pages : page[o] \in PageState
      /\ page[p].handling # <<>> /\ Queued(p, page[p])
  BY DEF SessionInv, TypeOK, MessageInv, QueueOK, Broadcast
<1> PICK sent, many : sent = page[p].sent /\ many = Len(page[p].inbox)
  OBVIOUS
<1>3. /\ page[p].handling = <<<<p, sent - many>>>> /\ Len(page[p].handling) = 1
      /\ many + 1 <= sent /\ sent \in Nat /\ many \in Nat /\ Other(p) # System
  <2>1. page[p].handling = <<<<p, sent - many>>>> /\ Other(p) # System
    BY <1>2 DEF Queued
  <2>2. Len(page[p].handling) = 1
    BY <2>1
  <2>3. sent \in Nat /\ many \in Nat
    BY <1>2, PageFields, LenProperties
  <2>4. many + Len(page[p].handling) <= sent
    BY <1>2 DEF Queued
  <2> QED
    BY <2>1, <2>2, <2>3, <2>4
<1>4. n = sent - many /\ n \in Nat
  <2>1. /\ sent \in Nat /\ many \in Nat /\ many + 1 <= sent
        /\ n = NextOf(page[p]) /\ page[p].sent = sent /\ Len(page[p].inbox) = many
        /\ Len(page[p].handling) = 1
    BY <1>3
  <2> QED
    BY ONLY <2>1 DEF NextOf
<1>5. page[p].handling = <<m>> /\ m \in Message /\ <<m>> \in Seq(Message)
  BY <1>3, <1>4 DEF Message
<1>6. p \in InRoom(room) /\ room \in SessionsOf(Pair(p))
  <2>1. page[p].at \in {"open", "closing"}
    BY <1>2 DEF MessageInv, AwayOK, Idle
  <2>2. InItsRoom
    BY DEF SessionInv
  <2> QED
    BY <2>1, <2>2 DEF InRoom, InItsRoom
<1>7. ASSUME NEW o \in InRoom(room)
      PROVE  Stream(page'[o]) = Append(Stream(page[o]), m) /\ Stream(page[o]) \in Seq(Message)
  <2> PICK live, outbox, one : /\ live = page[o].live /\ outbox = page[o].outbox
                               /\ one = <<m>>
    OBVIOUS
  <2>1. o \in Pages /\ page[o] \in PageState
    BY <1>2 DEF InRoom
  <2>2. /\ live \in Seq(Message) /\ outbox \in Seq(Message) /\ one \in Seq(Message)
        /\ Stream(page[o]) \in Seq(Message) /\ Stream(page[o]) = live \o outbox
    BY <2>1, <1>5, PageFields, StreamTyped DEF Stream
  <2>3. page'[o].live = live /\ page'[o].outbox = outbox \o one
    BY <2>1, <1>1, <1>5
  <2>4. (live \o outbox) \o one = live \o (outbox \o one)
    BY ONLY <2>2, ConcatAssociative
  <2>5. Append(Stream(page[o]), m) = Stream(page[o]) \o one
    BY <2>2, <1>5, AppendIsConcat
  <2> QED
    BY <2>2, <2>3, <2>4, <2>5 DEF Stream
<1>8. ASSUME NEW o \in Pages, o \notin InRoom(room)
      PROVE  Stream(page'[o]) = Stream(page[o]) /\ ~Has(Stream(page[o]), p)
  <2>1. Stream(page'[o]) = Stream(page[o])
    BY <1>1, <1>8 DEF Stream
  <2>2. ASSUME Has(Stream(page[o]), p)
        PROVE  FALSE
    <3>1. page[o].room \in SessionsOf(Pair(p))
      BY <2>2 DEF MessageInv, FromItsRoom
    <3>2. Pair(p) = {p[1], p[2]} /\ p[1] \in People /\ p[2] \in People /\ p[1] # p[2]
      BY <1>3, PairFacts
    <3>3. page[o].room = room
      BY <3>1, <3>2, <1>6 DEF SessionInv, AtMostOne
    <3>4. ~Idle(page[o])
      <4>1. Idle(page[o]) => Stream(page[o]) = <<>>
        BY EmptySeq, ConcatEmptySeq DEF Idle, Stream
      <4> QED
        BY <4>1, <2>2 DEF Has
    <3>5. page[o].at \in {"open", "closing"}
      BY <3>4 DEF MessageInv, AwayOK
    <3> QED
      BY <3>3, <3>5, <1>8 DEF InRoom
  <2> QED
    BY <2>1, <2>2
<1>9. NextOf(page'[p]) = n + 1 /\ Queued(p, page'[p])
  <2>1. /\ page'[p].sent = sent /\ Len(page'[p].inbox) = many /\ page'[p].handling = <<>>
        /\ Len(page'[p].handling) = 0 /\ page'[p].inbox = page[p].inbox
    BY <1>1, EmptySeq
  <2>2. NextOf(page'[p]) = n + 1
    <3>1. /\ sent \in Nat /\ many \in Nat /\ n = sent - many
          /\ page'[p].sent = sent /\ Len(page'[p].inbox) = many /\ Len(page'[p].handling) = 0
      BY <1>3, <1>4, <2>1
    <3> QED
      BY ONLY <3>1 DEF NextOf
  <2>3. Len(page'[p].inbox) + Len(page'[p].handling) <= page'[p].sent
    <3>1. /\ sent \in Nat /\ many \in Nat /\ many + 1 <= sent
          /\ page'[p].sent = sent /\ Len(page'[p].inbox) = many /\ Len(page'[p].handling) = 0
      BY <1>3, <2>1
    <3> QED
      BY ONLY <3>1
  <2>4. Queued(p, page'[p])
    BY <2>1, <2>3, <1>2, <1>3 DEF Queued
  <2> QED
    BY <2>2, <2>4
<1>10. ASSUME NEW o \in Pages, o # p
       PROVE  NextOf(page'[o]) = NextOf(page[o]) /\ Queued(o, page'[o])
  <2>1. /\ page'[o].sent = page[o].sent /\ page'[o].inbox = page[o].inbox
        /\ page'[o].handling = page[o].handling
    BY <1>1, <1>10
  <2>2. Queued(o, page[o])
    BY DEF MessageInv, QueueOK
  <2> QED
    BY <2>1, <2>2 DEF NextOf, Queued
<1>11. QueueOK'
  BY <1>9, <1>10 DEF QueueOK
<1>12. AwayOK'
  <2> SUFFICES ASSUME NEW o \in Pages, page'[o].at \notin {"open", "closing"}
               PROVE  Idle(page'[o])
    BY DEF AwayOK
  <2>1. page[o].at \notin {"open", "closing"} /\ o \notin InRoom(room) /\ o # p
    BY <1>1, <1>6 DEF InRoom
  <2>2. Idle(page[o])
    BY <2>1 DEF MessageInv, AwayOK
  <2> QED
    BY <2>1, <2>2, <1>1 DEF Idle
<1>13. StreamsOK'
  <2> SUFFICES ASSUME NEW o \in Pages
               PROVE  /\ Unbroken(Stream(page'[o]))
                      /\ \A q \in Pages : Follows(Stream(page'[o]), q, NextOf(page'[q]))
    BY DEF StreamsOK
  <2> PICK st : st = Stream(page[o])
    OBVIOUS
  <2>1. Unbroken(st) /\ \A q \in Pages : Follows(st, q, NextOf(page[q]))
    BY DEF MessageInv, StreamsOK
  <2>2. CASE o \in InRoom(room)
    <3>1. Stream(page'[o]) = Append(st, m) /\ st \in Seq(Message)
      BY <2>2, <1>7
    <3>2. Unbroken(st) /\ Follows(st, p, n)
      BY <2>1
    <3>3. /\ Unbroken(Append(st, m)) /\ Follows(Append(st, m), p, n + 1)
          /\ \A q, k : q # p /\ Follows(st, q, k) => Follows(Append(st, m), q, k)
      BY <3>1, <3>2, <1>4, AppendUnbroken
    <3>4. ASSUME NEW q \in Pages
          PROVE  Follows(Append(st, m), q, NextOf(page'[q]))
      <4>1. CASE q = p
        BY <4>1, <3>3, <1>9
      <4>2. CASE q # p
        BY <4>2, <3>3, <2>1, <1>10
      <4> QED
        BY <4>1, <4>2
    <3> QED
      BY <3>1, <3>3, <3>4
  <2>3. CASE o \notin InRoom(room)
    <3>1. Stream(page'[o]) = st /\ ~Has(st, p)
      BY <2>3, <1>8
    <3>2. ASSUME NEW q \in Pages
          PROVE  Follows(st, q, NextOf(page'[q]))
      <4>1. CASE q = p
        BY <4>1, <3>1 DEF Follows, Has
      <4>2. CASE q # p
        BY <4>2, <2>1, <1>10
      <4> QED
        BY <4>1, <4>2
    <3> QED
      BY <3>1, <3>2, <2>1
  <2> QED
    BY <2>2, <2>3
<1>14. FromItsRoom'
  <2> SUFFICES ASSUME NEW o \in Pages, NEW q \in Pages, Has(Stream(page'[o]), q)
               PROVE  Other(q) # System /\ page'[o].room \in SessionsOf(Pair(q))'
    BY DEF FromItsRoom
  <2>1. SessionsOf(Pair(q))' = SessionsOf(Pair(q)) /\ page'[o].room = page[o].room
    BY <1>1 DEF SessionsOf
  <2>2. CASE Has(Stream(page[o]), q)
    BY <2>1, <2>2 DEF MessageInv, FromItsRoom
  <2>3. CASE ~Has(Stream(page[o]), q)
    <3>1. o \in InRoom(room) /\ Stream(page'[o]) = Append(Stream(page[o]), m)
      BY <2>3, <1>7, <1>8
    <3>2. q = p
      <4> PICK st : st = Stream(page[o])
        OBVIOUS
      <4>1. st \in Seq(Message) /\ Has(Append(st, m), q) /\ ~Has(st, q) /\ m[1] = p
        BY <3>1, <2>3, <1>7
      <4>2. /\ Len(st) \in Nat /\ DOMAIN st = 1..Len(st)
            /\ DOMAIN Append(st, m) = 1..(Len(st) + 1)
            /\ \A i \in 1..Len(st) : Append(st, m)[i] = st[i]
            /\ Append(st, m)[Len(st) + 1] = m
        BY <4>1, <1>5, AppendProperties, LenProperties
      <4> QED
        BY <4>1, <4>2 DEF Has
    <3>3. page[o].room = room
      BY <3>1 DEF InRoom
    <3> QED
      BY <3>2, <3>3, <2>1, <1>3, <1>6
  <2> QED
    BY <2>2, <2>3
<1> QED
  BY <1>11, <1>12, <1>13, <1>14 DEF MessageInv

LEMMA MessageStep == SessionInv /\ MessageInv /\ [Next]_vars => MessageInv'
<1> SUFFICES ASSUME SessionInv, MessageInv, [Next]_vars
             PROVE  MessageInv'
  OBVIOUS
<1>1. ASSUME NEW p \in Pages, Load(p) \/ Send(p) \/ Leave(p) \/ Consumer(p)
      PROVE  MessageInv'
  BY <1>1, LoadMail, SendMail, LeaveMail, ConnectSession, LookSession, CreateSession,
     AddMembersSession, UntouchedMail, JoinMail, ReceiveMail, BroadcastMail, ShowMail,
     DisconnectMail DEF Consumer
<1>2. ASSUME NEW n \in Notices, Announce(n)
      PROVE  MessageInv'
  BY <1>2, NoticeLookSession, NoticeCreateSession, NoticeAddMembersSession,
     NoticeStoreSession, UntouchedMail DEF Announce
<1>3. CASE UNCHANGED vars
  <2>1. Grows /\ Untouched
    BY <1>3 DEF vars, Grows, Untouched, SameMail, SessionsOf
  <2> QED
    BY <2>1, UntouchedMail
<1> QED
  BY <1>1, <1>2, <1>3 DEF Next

LEMMA MessageInit == Init => MessageInv
<1> SUFFICES ASSUME Init
             PROVE  MessageInv
  OBVIOUS
<1>1. \A p \in Pages : /\ page[p].sent = 0 /\ Idle(page[p])
  BY DEF Init, NewPage, Idle
<1>2. Len(<<>>) = 0 /\ (<<>> \o <<>>) = <<>>
  BY EmptySeq, ConcatEmptySeq
<1>3. \A p \in Pages : Stream(page[p]) = <<>>
  BY <1>1, <1>2 DEF Idle, Stream
<1>4. QueueOK
  <2>1. ASSUME NEW p \in Pages
        PROVE  Queued(p, page[p])
    <3>1. /\ page[p].sent = 0 /\ page[p].inbox = <<>> /\ page[p].handling = <<>>
          /\ Len(page[p].inbox) = 0 /\ Len(page[p].handling) = 0
      BY <1>1, <1>2 DEF Idle
    <3>2. \A i : i \notin DOMAIN page[p].inbox
      BY <3>1
    <3>3. Len(page[p].inbox) + Len(page[p].handling) <= page[p].sent
      BY ONLY <3>1
    <3> QED
      BY <3>1, <3>2, <3>3 DEF Queued
  <2> QED
    BY <2>1 DEF QueueOK
<1>5. AwayOK /\ FromItsRoom /\ StreamsOK
  BY <1>1, <1>3 DEF AwayOK, FromItsRoom, StreamsOK, Has, Unbroken, Follows
<1> QED
  BY <1>4, <1>5 DEF MessageInv

-----------------------------------------------------------------------------
(* Theorems about the sessions *)

\* The session of a page that is looked for or made is nobody else's: get_session runs in the
\* one database thread of the consumers, and the system user is in no pair of two people.
THEOREM SessionsInductive == Spec => []SessionInv
BY SessionInit, SessionStep, PTL DEF Spec

\* Every page, session, message and notice is of its type.
THEOREM TypeCorrect == Spec => []TypeOK
<1>1. SessionInv => TypeOK
  BY DEF SessionInv
<1> QED
  BY <1>1, SessionsInductive, PTL

\* get_session makes no second session of two people whatever pages look for it and whenever.
THEOREM OneSessionAlways == Spec => []OneSession
<1>1. SessionInv => OneSession
  <2> SUFFICES ASSUME SessionInv, NEW u \in People, NEW v \in People, u # v
               PROVE  Cardinality(SessionsOf({u, v})) <= 1
    BY DEF OneSession
  <2>1. \A i, j \in SessionsOf({u, v}) : i = j
    BY DEF SessionInv, AtMostOne
  <2>2. CASE SessionsOf({u, v}) = {}
    BY <2>2, FS_EmptySet
  <2>3. CASE SessionsOf({u, v}) # {}
    <3>1. PICK i : i \in SessionsOf({u, v})
      BY <2>3
    <3>2. SessionsOf({u, v}) = {i}
      BY <3>1, <2>1
    <3>3. Cardinality(SessionsOf({u, v})) = 1
      BY ONLY <3>2, FS_Singleton
    <3> QED
      BY <3>3
  <2> QED
    BY <2>2, <2>3
<1> QED
  BY <1>1, SessionsInductive, PTL

-----------------------------------------------------------------------------
(* Theorems about the messages *)

\* What is on its way to a page comes after what it shows: the messages of another page arrive
\* in the order they were sent, and only the pages in the room of its one session have any.
THEOREM MessagesInductive == Spec => [](SessionInv /\ MessageInv)
<1>1. Init => SessionInv /\ MessageInv
  BY SessionInit, MessageInit
<1>2. SessionInv /\ MessageInv /\ [Next]_vars => SessionInv' /\ MessageInv'
  BY SessionStep, MessageStep
<1> QED
  BY <1>1, <1>2, PTL DEF Spec

\* A page shows the messages of another in order, without a hole and without a repetition from
\* the first it received: group_send reaches every consumer in the room, and each in order.
THEOREM NoHolesAlways == Spec => []NoHoles
<1>1. SessionInv /\ MessageInv => NoHoles
  <2> SUFFICES ASSUME SessionInv, MessageInv, NEW p \in Pages
               PROVE  Unbroken(page[p].live)
    BY DEF NoHoles
  <2> PICK live, outbox : live = page[p].live /\ outbox = page[p].outbox
    OBVIOUS
  <2>1. live \in Seq(Message) /\ outbox \in Seq(Message)
    BY PageFields DEF SessionInv, TypeOK
  <2>2. Unbroken(live \o outbox)
    BY DEF MessageInv, StreamsOK, Stream
  <2> QED
    BY <2>1, <2>2, UnbrokenPrefix
<1> QED
  BY <1>1, MessagesInductive, PTL

-----------------------------------------------------------------------------
(* The socket of the page in one tab (DMPage), whatever its connections do *)

CountersOK == reconnectAttempts \in Nat /\ reconnects \in Nat /\ timers \in [Targets -> Nat]

\* Below the limit of attempts at most two targets have a reconnection planned: every one that
\* was made or is planned was counted as an attempt before.
Counted ==
    \/ (\A t \in Targets : timers[t] = 0) /\ reconnects <= reconnectAttempts
    \/ \E t \in Targets :
          /\ \A other \in Targets \ {t} : timers[other] = 0
          /\ reconnects + timers[t] <= reconnectAttempts
    \/ \E t, u \in Targets :
          /\ t # u
          /\ \A other \in Targets \ {t, u} : timers[other] = 0
          /\ reconnects + timers[t] + timers[u] <= reconnectAttempts

RetryInv ==
    /\ CountersOK
    /\ reconnects < MAX_RECONNECT_ATTEMPTS
    /\ reconnectAttempts < MAX_RECONNECT_ATTEMPTS => Counted

\* An event of a socket: n attempts are counted and at most n reconnections planned for one
\* target.
LEMMA LostKeeps ==
    ASSUME RetryInv, NEW t, NEW n \in Nat, reconnects' = reconnects,
           reconnectAttempts' = reconnectAttempts + n,
           timers' = timers \/ timers' = [timers EXCEPT ![t] = @ + n]
    PROVE  RetryInv'
<1>1. CountersOK'
  BY DEF RetryInv, CountersOK
<1>2. reconnects' < MAX_RECONNECT_ATTEMPTS
  BY DEF RetryInv
<1>3. ASSUME reconnectAttempts' < MAX_RECONNECT_ATTEMPTS
      PROVE  Counted'
  <2>1. Counted /\ CountersOK
    BY <1>3 DEF RetryInv, CountersOK, MAX_RECONNECT_ATTEMPTS
  <2>2. CASE n = 0 \/ timers' = timers \/ t \notin Targets
    <3>1. timers' = timers
      BY <2>1, <2>2 DEF CountersOK
    <3> QED
      BY <2>1, <3>1 DEF Counted, CountersOK
  <2>3. CASE n > 0 /\ timers' = [timers EXCEPT ![t] = @ + n] /\ t \in Targets
    <3>1. timers'[t] = timers[t] + n /\ \A u \in Targets \ {t} : timers'[u] = timers[u]
      BY <2>1, <2>3 DEF CountersOK
    <3>2. reconnectAttempts + n < 3
      BY <1>3 DEF MAX_RECONNECT_ATTEMPTS
    <3>3. CASE \A u \in Targets : timers[u] = 0 /\ reconnects <= reconnectAttempts
      BY <2>1, <2>3, <3>1, <3>3 DEF Counted, CountersOK
    <3>4. ASSUME NEW u \in Targets, \A other \in Targets \ {u} : timers[other] = 0,
                 reconnects + timers[u] <= reconnectAttempts
          PROVE  Counted'
      <4>1. CASE u = t
        BY <2>1, <2>3, <3>1, <3>4, <4>1 DEF Counted, CountersOK
      <4>2. CASE u # t
        <5>1. \A other \in Targets \ {t, u} : timers'[other] = 0
          BY <3>1, <3>4
        <5>2. reconnects' + timers'[t] + timers'[u] <= reconnectAttempts'
          BY <2>1, <2>3, <3>1, <3>4, <4>2 DEF CountersOK
        <5> QED
          BY <2>3, <4>2, <5>1, <5>2 DEF Counted
      <4> QED
        BY <4>1, <4>2
    <3>5. ASSUME NEW u \in Targets, NEW v \in Targets, u # v,
                 \A other \in Targets \ {u, v} : timers[other] = 0,
                 reconnects + timers[u] + timers[v] <= reconnectAttempts
          PROVE  Counted'
      <4> timers[u] \in Nat /\ timers[v] \in Nat /\ reconnects \in Nat /\ reconnectAttempts \in Nat
        BY <2>1 DEF CountersOK
      <4>1. CASE t \in {u, v} \/ timers[u] = 0 \/ timers[v] = 0
        <5>1. \A w \in Targets \ {u, v} : timers[w] = 0
          BY <3>5
        <5>2. CASE t = u
          <6>1. \A w \in Targets \ {u, v} : timers'[w] = 0
            BY <3>1, <5>1, <5>2
          <6>2. reconnects' + timers'[u] + timers'[v] <= reconnectAttempts'
            BY <2>3, <3>1, <3>5, <5>2
          <6> QED
            BY <3>5, <6>1, <6>2 DEF Counted
        <5>3. CASE t = v
          <6>1. \A w \in Targets \ {u, v} : timers'[w] = 0
            BY <3>1, <5>1, <5>3
          <6>2. reconnects' + timers'[u] + timers'[v] <= reconnectAttempts'
            BY <2>3, <3>1, <3>5, <5>3
          <6> QED
            BY <3>5, <6>1, <6>2 DEF Counted
        <5>4. CASE t \notin {u, v} /\ timers[u] = 0
          <6>1. \A w \in Targets \ {t, v} : timers'[w] = 0
            BY <3>1, <5>1, <5>4
          <6>2. reconnects' + timers'[t] + timers'[v] <= reconnectAttempts'
            BY <2>3, <3>1, <3>5, <5>1, <5>4
          <6> QED
            BY <2>3, <5>4, <6>1, <6>2 DEF Counted
        <5>5. CASE t \notin {u, v} /\ timers[v] = 0
          <6>1. \A w \in Targets \ {t, u} : timers'[w] = 0
            BY <3>1, <5>1, <5>5
          <6>2. reconnects' + timers'[t] + timers'[u] <= reconnectAttempts'
            BY <2>3, <3>1, <3>5, <5>1, <5>5
          <6> QED
            BY <2>3, <5>5, <6>1, <6>2 DEF Counted
        <5> QED
          BY <4>1, <5>2, <5>3, <5>4, <5>5
      <4>2. CASE t \notin {u, v} /\ timers[u] > 0 /\ timers[v] > 0
        BY <2>3, <3>2, <3>5, <4>2
      <4> QED
        BY <4>1, <4>2
    <3> QED
      BY <2>1, <3>3, <3>4, <3>5 DEF Counted
  <2> QED
    BY <2>2, <2>3, <2>1
<1> QED
  BY <1>1, <1>2, <1>3 DEF RetryInv

\* A timer of t fires: one reconnection that was planned is made, or none below the limit.
LEMMA TimerKeeps ==
    ASSUME RetryInv, NEW t \in Targets, Timer(t)
    PROVE  RetryInv'
<1>1. timers' = [timers EXCEPT ![t] = @ - 1] /\ reconnectAttempts' = reconnectAttempts /\ timers[t] > 0
  BY DEF Timer, Reconnect, TryAgain, ReturnToList
<1>2. /\ timers'[t] = timers[t] - 1 /\ \A u \in Targets \ {t} : timers'[u] = timers[u]
      /\ timers \in [Targets -> Nat] /\ reconnects \in Nat /\ reconnectAttempts \in Nat
  BY <1>1 DEF RetryInv, CountersOK
<1>3. timers' \in [Targets -> Nat]
  BY <1>1, <1>2
<1>4. CASE Reconnect(t)
  <2>1. reconnects' = reconnects + 1 /\ reconnectAttempts < 3
    BY <1>4 DEF Reconnect, TryAgain, MAX_RECONNECT_ATTEMPTS
  <2>2. CountersOK'
    BY <1>1, <1>2, <1>3, <2>1 DEF CountersOK
  <2>3. ASSUME NEW u \in Targets, \A other \in Targets \ {u} : timers[other] = 0,
               reconnects + timers[u] <= reconnectAttempts
        PROVE  reconnects' <= reconnectAttempts' /\ Counted'
    <3>1. u = t
      BY <1>1, <2>3
    <3>2. reconnects' + timers'[t] <= reconnectAttempts' /\ reconnects' <= reconnectAttempts'
      BY <1>1, <1>2, <2>1, <2>3, <3>1
    <3>3. \A other \in Targets \ {t} : timers'[other] = 0
      BY <1>2, <2>3, <3>1
    <3> QED
      BY <3>2, <3>3 DEF Counted
  <2>4. ASSUME NEW u \in Targets, NEW v \in Targets, u # v,
               \A other \in Targets \ {u, v} : timers[other] = 0,
               reconnects + timers[u] + timers[v] <= reconnectAttempts
        PROVE  reconnects' <= reconnectAttempts' /\ Counted'
    <3>1. PICK w \in {u, v} : w # t /\ t \in {u, v}
      BY <1>1, <2>4
    <3>2. timers[w] \in Nat /\ reconnects + timers[t] + timers[w] <= reconnectAttempts
      BY <1>2, <2>4, <3>1
    <3>3. \A other \in Targets \ {t, w} : timers'[other] = 0
      BY <1>2, <2>4, <3>1
    <3>4. reconnects' + timers'[t] + timers'[w] <= reconnectAttempts'
      BY <1>1, <1>2, <2>1, <3>1, <3>2
    <3>5. reconnects' <= reconnectAttempts'
      BY <1>1, <1>2, <2>1, <3>2
    <3> QED
      BY <3>1, <3>3, <3>4, <3>5 DEF Counted
  <2>5. Counted
    BY <2>1 DEF RetryInv, MAX_RECONNECT_ATTEMPTS
  <2>6. ~(\A u \in Targets : timers[u] = 0)
    BY <1>1
  <2>7. reconnects' <= reconnectAttempts' /\ Counted'
    BY <2>3, <2>4, <2>5, <2>6 DEF Counted
  <2>8. reconnects' < MAX_RECONNECT_ATTEMPTS
    BY <1>1, <2>1, <2>2, <2>7 DEF CountersOK, MAX_RECONNECT_ATTEMPTS
  <2> QED
    BY <2>2, <2>7, <2>8 DEF RetryInv
<1>5. CASE ReturnToList(t)
  <2>1. reconnects' = reconnects /\ ~(reconnectAttempts' < MAX_RECONNECT_ATTEMPTS)
    BY <1>1, <1>2, <1>5 DEF ReturnToList, MAX_RECONNECT_ATTEMPTS
  <2>2. CountersOK'
    BY <1>1, <1>2, <1>3, <2>1 DEF CountersOK
  <2> QED
    BY <2>1, <2>2 DEF RetryInv
<1> QED
  BY <1>4, <1>5 DEF Timer

LEMMA RetryStart == TabInit => RetryInv
BY DEF TabInit, RetryInv, CountersOK, Counted, MAX_RECONNECT_ATTEMPTS

LEMMA RetryStep == RetryInv /\ [TabNext]_tabVars => RetryInv'
<1> SUFFICES ASSUME RetryInv, [TabNext]_tabVars
             PROVE  RetryInv'
  OBVIOUS
<1>1. ASSUME reconnects' = reconnects, reconnectAttempts' = reconnectAttempts, timers' = timers
      PROVE  RetryInv'
  BY <1>1 DEF RetryInv, CountersOK, Counted
<1>2. CASE \E target \in Targets \union {List} : Open(target)
  BY <1>1, <1>2 DEF Open
<1>3. CASE Render
  BY <1>1, <1>3 DEF Render
<1>4. ASSUME NEW i \in Ids, Opens(i) \/ Drops(i) \/ ServerCloses(i) \/ Fails(i) \/ IsClosed(i)
      PROVE  RetryInv'
  <2>1. CASE Opens(i)
    BY <1>1, <2>1 DEF Opens
  <2>2. ASSUME NEW t, NEW n \in Nat, Lost(Closed(i), t, n)
        PROVE  RetryInv'
    <3>1. /\ reconnects' = reconnects
          /\ reconnectAttempts' = reconnectAttempts + n
          /\ timers' = timers \/ timers' = [timers EXCEPT ![t] = @ + n]
      BY <2>2 DEF Lost
    <3> QED
      BY <3>1, LostKeeps
  <2>3. CASE Drops(i)
    BY <2>2, <2>3 DEF Drops
  <2>4. CASE ServerCloses(i)
    BY <2>2, <2>4 DEF ServerCloses
  <2>5. CASE Fails(i)
    BY <2>2, <2>5 DEF Fails
  <2>6. CASE IsClosed(i)
    BY <2>2, <2>6 DEF IsClosed
  <2> QED
    BY <1>4, <2>1, <2>3, <2>4, <2>5, <2>6
<1>5. CASE \E t \in Targets : Timer(t)
  BY <1>5, TimerKeeps
<1>6. CASE UNCHANGED tabVars
  BY <1>1, <1>6 DEF tabVars
<1> QED
  BY <1>2, <1>3, <1>4, <1>5, <1>6 DEF TabNext

\* Below the limit no reconnection is made or planned that was not counted as an attempt.
THEOREM RetriesInductive == TabSpec => []RetryInv
BY RetryStart, RetryStep, PTL DEF TabSpec

\* A tab makes fewer than MAX_RECONNECT_ATTEMPTS reconnections, whatever its connections and
\* its user do and however many timers are pending (handleClose, handleError,
\* tryReconnection).
THEOREM RetryBoundAlways == TabSpec => []RetryBound
<1>1. RetryInv => RetryBound
  BY DEF RetryInv, RetryBound
<1> QED
  BY <1>1, RetriesInductive, PTL
=============================================================================
