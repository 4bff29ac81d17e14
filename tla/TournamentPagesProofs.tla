----------------------- MODULE TournamentPagesProofs -----------------------
(***************************************************************************)
(* Invariants of TournamentPages for any number of tabs, submitted forms   *)
(* and tournaments.                                                        *)
(***************************************************************************)
EXTENDS TournamentPages, TLAPS

-----------------------------------------------------------------------------
(* The inductive invariants *)

\* A page awaits the answer of its own state and of no other, since nothing can be clicked
\* until it is drawn; a page without a tournament page awaits nothing.
TabOK(tab) ==
    /\ tab.container \in {Blank, tab.currentRound}
    /\ tab.asked \subseteq {tab.currentRound}
    /\ tab.asked # {} => tab.container = Blank
    /\ tab.page # "tournament" => tab.asked = {} /\ tab.container = Blank

PagesOK == \A t \in Tabs : TabOK(tabs[t])

\* Unless two forms were posted together, one at most is posted, and none while a tournament
\* is going on.
FormsOK ==
    ~raced =>
        /\ \A r, s \in Posted : r = s
        /\ Posted # {} => Ongoing = {}
        /\ \A x, y \in Ongoing : x = y

PagesInv == TypeOK /\ PagesOK /\ FormsOK

-----------------------------------------------------------------------------
(* The states and the pages *)

LEMMA StateFacts ==
    /\ Entry \in State /\ Create \in State /\ Round \subseteq State
    /\ Blank \notin State /\ Entry \notin Round /\ Create \notin Round
    /\ Round = 1..Rounds
BY PagesAssumption DEF Entry, Create, Round, State, Blank

LEMMA PageFacts ==
    ASSUME NEW where \in {"other", "loading"}, NEW late \in BOOLEAN
    PROVE  Page(where, late) \in Tab /\ TabOK(Page(where, late))
BY StateFacts DEF Page, Tab, TabOK, None

\* Entering a state leaves a page that waits for that state or shows it.
LEMMA EnterFacts ==
    ASSUME NEW tab \in Tab, tab.page = "tournament", tab.asked = {}, NEW state \in State
    PROVE  Enter(tab, state) \in Tab /\ TabOK(Enter(tab, state))
<1>1. CASE Asks(tab, state)
  <2>1. state \in {Entry} \union Round
    BY <1>1, StateFacts DEF Asks
  <2>2. Enter(tab, state) = [tab EXCEPT !.currentRound = state, !.container = Blank,
                                        !.asked = @ \union {state}]
    BY <1>1 DEF Enter
  <2>3. Enter(tab, state) \in Tab
    <3>1. tab.asked \union {state} \in SUBSET ({Entry} \union Round)
      BY <2>1 DEF Tab
    <3>2. Blank \in State \union {Blank} /\ state \in State \union {Blank}
      OBVIOUS
    <3> QED
      BY <2>2, <3>1, <3>2 DEF Tab
  <2>4. /\ Enter(tab, state).currentRound = state /\ Enter(tab, state).container = Blank
        /\ Enter(tab, state).asked = {state} /\ Enter(tab, state).page = "tournament"
    BY <2>2 DEF Tab
  <2> QED
    BY <2>3, <2>4 DEF TabOK
<1>2. CASE ~Asks(tab, state)
  BY <1>2 DEF Enter, Tab, TabOK
<1> QED
  BY <1>1, <1>2

\* Buttons are drawn by a page that awaits nothing, and lead to states.
LEMMA ButtonFacts ==
    ASSUME NEW tab \in Tab, TabOK(tab), NEW state \in Buttons(tab)
    PROVE  state \in State /\ tab.page = "tournament" /\ tab.asked = {}
<1>1. tab.container # Blank /\ (tab.container = Entry \/ tab.container \in Round)
  BY StateFacts DEF Buttons
<1>2. tab.page = "tournament" /\ tab.asked = {}
  BY <1>1 DEF TabOK
<1>3. CASE tab.container = Entry
  <2> DEFINE next == IF tab.userTournament = None THEN Create ELSE 1
  <2> HIDE DEF next
  <2>1. tab.container \notin Round
    BY <1>3, StateFacts
  <2>2. Buttons(tab) = {next}
    BY <1>3, <2>1 DEF Buttons, next
  <2>3. state \in {Create, 1}
    BY <2>2 DEF next
  <2>4. 1 \in Round
    BY PagesAssumption DEF Round
  <2> QED
    BY <1>2, <2>3, <2>4, StateFacts
<1>4. CASE tab.container \in Round
  <2>1. tab.container # Entry
    BY <1>4, StateFacts
  <2>2. state \in {tab.container - 1, tab.container + 1} \ {Rounds + 1}
    BY <1>4, <2>1 DEF Buttons
  <2>3. tab.container \in 1..Rounds /\ Rounds \in 1..4
    BY <1>4, PagesAssumption DEF Round
  <2>4. state \in 0..Rounds
    BY <2>2, <2>3
  <2> QED
    BY <1>2, <2>3, <2>4 DEF State, Entry, Round
<1> QED
  BY <1>1, <1>2, <1>3, <1>4

-----------------------------------------------------------------------------
(* The tabs: each step replaces the tab of one *)

LEMMA SwitchFacts ==
    ASSUME TypeOK, PagesOK, NEW t \in Tabs, NEW where \in {"other", "loading"}, Switch(t, where)
    PROVE  tabs' \in [Tabs -> Tab] /\ PagesOK'
<1> DEFINE late == tabs[t].late \/ tabs[t].asked \intersect Round # {}
<1>1. tabs' = [tabs EXCEPT ![t] = Page(where, late)] /\ late \in BOOLEAN
  BY DEF TypeOK, Tab, Switch
<1>2. Page(where, late) \in Tab /\ TabOK(Page(where, late))
  BY <1>1, PageFacts
<1> HIDE DEF late
<1> QED
  BY <1>1, <1>2 DEF TypeOK, PagesOK

LEMMA AlertFacts ==
    ASSUME TypeOK, PagesOK, NEW t \in Tabs, Alert(t)
    PROVE  /\ tabs' \in [Tabs -> Tab] /\ PagesOK'
           /\ submissions' \in [Submissions -> {"idle", "checking", "posted", "orphan"}]
           /\ deleting' \in [Tabs -> Ids \union {None}]
           /\ Posted' = Posted
<1>1. Page("other", FALSE) \in Tab /\ TabOK(Page("other", FALSE))
  BY PageFacts
<1>2. tabs' \in [Tabs -> Tab] /\ PagesOK'
  BY <1>1 DEF TypeOK, PagesOK, Alert
<1>3. \A s \in Submissions :
          submissions'[s] = IF s[1] # t THEN submissions[s]
                            ELSE CASE submissions[s] = "checking" -> "idle"
                                   [] submissions[s] = "posted" -> "orphan"
                                   [] OTHER -> submissions[s]
  BY DEF Alert
<1>4. \A s \in Submissions :
          /\ submissions'[s] \in {"idle", "checking", "posted", "orphan"}
          /\ submissions'[s] \in {"posted", "orphan"} <=> submissions[s] \in {"posted", "orphan"}
  BY <1>3 DEF TypeOK
<1>5. submissions' \in [Submissions -> {"idle", "checking", "posted", "orphan"}]
  BY <1>4 DEF Alert
<1>6. deleting' \in [Tabs -> Ids \union {None}]
  BY DEF TypeOK, Alert
<1> QED
  BY <1>2, <1>4, <1>5, <1>6 DEF Posted

\* What a tab shows and asks for concerns neither the forms nor the tournaments.
LEMMA TabStep ==
    ASSUME PagesInv, tabs' \in [Tabs -> Tab], PagesOK',
           UNCHANGED <<tournaments, created, submissions, deleting, raced>>
    PROVE  PagesInv'
BY DEF PagesInv, TypeOK, FormsOK, Posted, Ongoing

LEMMA AlertStep ==
    ASSUME PagesInv, NEW t \in Tabs, Alert(t)
    PROVE  PagesInv'
<1>1. UNCHANGED <<tournaments, created, raced>>
  BY DEF Alert
<1>2. TypeOK'
  BY <1>1, AlertFacts DEF PagesInv, TypeOK
<1>3. FormsOK'
  BY <1>1, AlertFacts DEF PagesInv, FormsOK, Ongoing
<1> QED
  BY <1>2, <1>3, AlertFacts DEF PagesInv

LEMMA TabActions ==
    ASSUME PagesInv, NEW t \in Tabs,
           \/ Visit(t) \/ Leave(t) \/ Answered(t) \/ LateRound(t)
           \/ \E state \in State : ChangeStateToRound(t, state)
    PROVE  PagesInv'
<1> USE DEF PagesInv
<1>1. tabs \in [Tabs -> Tab] /\ tabs[t] \in Tab /\ TabOK(tabs[t])
  BY DEF TypeOK, PagesOK
<1>2. CASE Visit(t) \/ Leave(t)
  BY <1>2, SwitchFacts, TabStep DEF Visit, Leave
<1>3. CASE Load(t)
  <2>1. PICK latest \in IF Ongoing = {} THEN {None} ELSE Ongoing :
           tabs' = [tabs EXCEPT ![t] =
                       Enter([@ EXCEPT !.page = "tournament", !.userTournament = latest], Entry)]
    BY <1>3 DEF Load
  <2> DEFINE tab == [tabs[t] EXCEPT !.page = "tournament", !.userTournament = latest]
  <2>2. latest \in Ids \union {None}
    BY DEF Ongoing
  <2>3. tab \in Tab /\ tab.page = "tournament" /\ tab.asked = {}
    BY <1>1, <1>3, <2>2 DEF Tab, TabOK, Load
  <2>4. Enter(tab, Entry) \in Tab /\ TabOK(Enter(tab, Entry))
    BY <2>3, EnterFacts, StateFacts
  <2>5. tabs' = [tabs EXCEPT ![t] = Enter(tab, Entry)]
    BY <1>1, <2>1
  <2>6. tabs' \in [Tabs -> Tab] /\ PagesOK'
    BY <1>1, <2>4, <2>5 DEF PagesOK
  <2> QED
    BY <1>3, <2>6, TabStep DEF Load
<1>4. ASSUME NEW state \in State, ChangeStateToRound(t, state)
      PROVE  PagesInv'
  <2>1. Enter(tabs[t], state) \in Tab /\ TabOK(Enter(tabs[t], state))
    BY <1>1, <1>4, ButtonFacts, EnterFacts DEF ChangeStateToRound
  <2>2. tabs' \in [Tabs -> Tab] /\ PagesOK'
    BY <1>1, <1>4, <2>1 DEF ChangeStateToRound, PagesOK
  <2> QED
    BY <1>4, <2>2, TabStep DEF ChangeStateToRound
<1>5. ASSUME NEW state \in {Entry} \union Round, state \in tabs[t].asked,
             tabs' = [tabs EXCEPT ![t].asked = @ \ {state}, ![t].container = state],
             UNCHANGED <<tournaments, created, submissions, deleting, raced>>
      PROVE  PagesInv'
  <2>1. tabs[t].currentRound = state /\ tabs[t].page = "tournament" /\ state \in State
    BY <1>1, <1>5, StateFacts DEF TabOK
  <2>2. /\ tabs'[t] = [tabs[t] EXCEPT !.asked = @ \ {state}, !.container = state]
        /\ \A u \in Tabs \ {t} : tabs'[u] = tabs[u]
    BY <1>1, <1>5
  <2>3. tabs'[t] \in Tab /\ TabOK(tabs'[t])
    <3>1. tabs'[t] \in Tab
      <4> PICK tab, asked : tab = tabs[t] /\ asked = tab.asked \ {state}
        OBVIOUS
      <4>1. tab \in Tab /\ state \in State \union {Blank}
        BY <1>1, <2>1
      <4>2. asked \in SUBSET ({Entry} \union Round)
        BY <4>1 DEF Tab
      <4>3. [tab EXCEPT !.asked = asked, !.container = state] \in Tab
        BY ONLY <4>1, <4>2 DEF Tab
      <4> QED
        BY <2>2, <4>3
    <3>2. /\ tabs'[t].currentRound = state /\ tabs'[t].container = state
          /\ tabs'[t].asked = tabs[t].asked \ {state} /\ tabs'[t].page = "tournament"
      BY <1>1, <2>1, <2>2 DEF Tab
    <3> QED
      BY <1>1, <2>1, <3>1, <3>2 DEF TabOK
  <2>4. tabs' \in [Tabs -> Tab] /\ PagesOK'
    BY <1>1, <1>5, <2>2, <2>3 DEF PagesOK
  <2> QED
    BY <1>5, <2>4, TabStep
<1>6. CASE DrawEntry(t)
  BY <1>5, <1>6 DEF DrawEntry
<1>7. ASSUME NEW r \in Round, DrawRound(t, r)
      PROVE  PagesInv'
  BY <1>5, <1>7, AlertStep DEF DrawRound
<1>8. CASE LateRound(t)
  <2>1. CASE tabs' = [tabs EXCEPT ![t].late = FALSE]
    <3>1. [tabs[t] EXCEPT !.late = FALSE] \in Tab /\ TabOK([tabs[t] EXCEPT !.late = FALSE])
      BY <1>1 DEF Tab, TabOK
    <3>2. tabs' \in [Tabs -> Tab] /\ PagesOK'
      BY <1>1, <2>1, <3>1 DEF PagesOK
    <3> QED
      BY <1>8, <3>2, TabStep, AlertStep DEF LateRound
  <2> QED
    BY <1>8, <2>1, AlertStep DEF LateRound
<1> QED
  BY <1>2, <1>3, <1>4, <1>6, <1>7, <1>8 DEF Answered

-----------------------------------------------------------------------------
(* Creating, deleting and finishing *)

LEMMA FormStep ==
    ASSUME PagesInv, NEW s \in Submissions, SaveTournament(s) \/ IsOngoing(s)
    PROVE  PagesInv'
<1> USE DEF PagesInv
<1>1. CASE SaveTournament(s)
  <2>1. TypeOK' /\ PagesOK'
    BY <1>1 DEF TypeOK, PagesOK, SaveTournament
  <2>2. Posted' = Posted /\ Ongoing' = Ongoing /\ raced' = raced
    BY <1>1 DEF TypeOK, SaveTournament, Posted, Ongoing
  <2> QED
    BY <2>1, <2>2 DEF FormsOK
<1>2. CASE IsOngoing(s)
  <2>1. TypeOK' /\ PagesOK'
    BY <1>2 DEF TypeOK, PagesOK, IsOngoing
  <2>2. Ongoing' = Ongoing
    BY <1>2 DEF IsOngoing, Ongoing
  <2>3. CASE Ongoing = {}
    <3>1. Posted' = Posted \union {s} /\ raced' = (raced \/ Posted # {})
      BY <1>2, <2>3 DEF TypeOK, IsOngoing, Posted
    <3> QED
      BY <2>1, <2>2, <2>3, <3>1 DEF FormsOK
  <2>4. CASE Ongoing # {}
    <3>1. Posted' = Posted /\ raced' = raced
      BY <1>2, <2>4 DEF TypeOK, IsOngoing, Posted
    <3> QED
      BY <2>1, <2>2, <3>1 DEF FormsOK
  <2> QED
    BY <2>3, <2>4
<1> QED
  BY <1>1, <1>2

LEMMA StoreStep ==
    ASSUME PagesInv, NEW s \in Submissions, StoreTournament(s)
    PROVE  PagesInv'
<1> USE DEF PagesInv
<1>1. created \in 0..MaxTournaments /\ created < MaxTournaments /\ created' = created + 1
  BY DEF TypeOK, StoreTournament
<1>2. created + 1 \in Ids /\ created' \in 0..MaxTournaments
  BY <1>1, PagesAssumption DEF Ids
<1>3. s[1] \in Tabs
  BY PagesAssumption
<1>4. tabs' \in [Tabs -> Tab] /\ PagesOK'
  BY <1>3, SwitchFacts DEF TypeOK, PagesOK, StoreTournament
<1>5. TypeOK'
  <2>1. tournaments' \in [Ids -> {"none", "ongoing", "over"}]
    BY <1>2 DEF TypeOK, StoreTournament
  <2>2. \A x \in Ids : tournaments'[x] = "none" <=> x > created'
    BY <1>1, <1>2, PagesAssumption DEF TypeOK, StoreTournament, Ids
  <2>3. submissions' \in [Submissions -> {"idle", "checking", "posted", "orphan"}]
    BY DEF TypeOK, StoreTournament
  <2> QED
    BY <1>2, <1>4, <2>1, <2>2, <2>3 DEF TypeOK, StoreTournament
<1>6. FormsOK'
  <2>1. s \in Posted /\ Posted' = Posted \ {s} /\ raced' = raced
    BY DEF TypeOK, StoreTournament, Posted
  <2>2. Ongoing' = Ongoing \union {created + 1}
    BY <1>2 DEF TypeOK, StoreTournament, Ongoing
  <2> QED
    BY <2>1, <2>2 DEF FormsOK
<1> QED
  BY <1>4, <1>5, <1>6

\* A tournament that is over stays over.
LEMMA OverStep ==
    ASSUME PagesInv, NEW x \in Ids, tournaments[x] = "ongoing",
           tournaments' = [tournaments EXCEPT ![x] = "over"], created' = created
    PROVE  /\ tournaments' \in [Ids -> {"none", "ongoing", "over"}]
           /\ \A y \in Ids : tournaments'[y] = "none" <=> y > created'
           /\ Ongoing' \subseteq Ongoing
BY DEF PagesInv, TypeOK, Ongoing

LEMMA EndStep ==
    ASSUME PagesInv,
           \/ \E t \in Tabs : ConfirmDelete(t) \/ Delete(t)
           \/ \E x \in Ids : FinishTournament(x)
    PROVE  PagesInv'
<1> USE DEF PagesInv
<1>1. ASSUME NEW t \in Tabs, ConfirmDelete(t)
      PROVE  PagesInv'
  BY <1>1 DEF ConfirmDelete, TypeOK, Tab, PagesOK, FormsOK, Posted, Ongoing
<1>2. ASSUME NEW t \in Tabs, Delete(t)
      PROVE  PagesInv'
  <2>1. deleting[t] \in Ids /\ deleting' \in [Tabs -> Ids \union {None}]
    BY <1>2 DEF Delete, TypeOK
  <2>2. UNCHANGED <<created, submissions, raced>>
    BY <1>2 DEF Delete
  <2>3. CASE tournaments[deleting[t]] = "ongoing"
    <3>1. tournaments' = [tournaments EXCEPT ![deleting[t]] = "over"] /\ Switch(t, "loading")
      BY <1>2, <2>3 DEF Delete
    <3>2. tabs' \in [Tabs -> Tab] /\ PagesOK'
      BY <3>1, SwitchFacts
    <3>3. TypeOK'
      BY <2>1, <2>2, <2>3, <3>1, <3>2, OverStep DEF TypeOK
    <3>4. FormsOK'
      BY <2>1, <2>2, <2>3, <3>1, OverStep DEF FormsOK, Posted
    <3> QED
      BY <3>2, <3>3, <3>4
  <2>4. CASE tournaments[deleting[t]] # "ongoing"
    BY <1>2, <2>1, <2>4 DEF Delete, TypeOK, PagesOK, FormsOK, Posted, Ongoing
  <2> QED
    BY <2>3, <2>4
<1>3. ASSUME NEW x \in Ids, FinishTournament(x)
      PROVE  PagesInv'
  <2>1. /\ tournaments' \in [Ids -> {"none", "ongoing", "over"}]
        /\ \A y \in Ids : tournaments'[y] = "none" <=> y > created'
        /\ Ongoing' \subseteq Ongoing
        /\ UNCHANGED <<created, tabs, submissions, deleting, raced>>
    BY <1>3, OverStep DEF FinishTournament
  <2> QED
    BY <2>1 DEF TypeOK, PagesOK, FormsOK, Posted
<1> QED
  BY <1>1, <1>2, <1>3

-----------------------------------------------------------------------------
(* The theorems *)

\* The invariant of the pages is inductive, for any tabs, forms and tournaments.
THEOREM PagesInductive == Spec => []PagesInv
<1>1. Init => PagesInv
  <2> SUFFICES ASSUME Init
               PROVE  PagesInv
    OBVIOUS
  <2>1. Page("other", FALSE) \in Tab /\ TabOK(Page("other", FALSE))
    BY PageFacts
  <2>2. tabs \in [Tabs -> Tab] /\ PagesOK
    BY <2>1 DEF Init, PagesOK
  <2>3. TypeOK
    <3>1. created = 0 /\ created \in 0..MaxTournaments
      BY PagesAssumption DEF Init
    <3>2. \A x \in Ids : tournaments[x] = "none" /\ x > 0
      BY PagesAssumption DEF Init, Ids
    <3> QED
      BY <2>2, <3>1, <3>2 DEF Init, TypeOK
  <2>4. Posted = {} /\ Ongoing = {}
    BY DEF Init, Posted, Ongoing
  <2> QED
    BY <2>2, <2>3, <2>4 DEF PagesInv, FormsOK
<1>2. PagesInv /\ [Next]_vars => PagesInv'
  <2> SUFFICES ASSUME PagesInv, [Next]_vars
               PROVE  PagesInv'
    OBVIOUS
  <2>1. CASE UNCHANGED vars
    BY <2>1 DEF vars, PagesInv, TypeOK, PagesOK, FormsOK, Posted, Ongoing
  <2> QED
    BY <2>1, TabActions, FormStep, StoreStep, EndStep DEF Next
<1> QED
  BY <1>1, <1>2, PTL DEF Spec

\* The types, and that tournaments are numbered in the order of their creation.
THEOREM TypeCorrect == Spec => []TypeOK
<1>1. PagesInv => TypeOK
  BY DEF PagesInv
<1> QED
  BY <1>1, PagesInductive, PTL

\* The organizer has two ongoing tournaments only if two forms were posted at the same time
\* (_saveTournament asks isOngoing and posts in two requests), for any number of tabs.
THEOREM OneAtATimeAlways == Spec => []OneAtATime
<1>1. PagesInv => OneAtATime
  BY DEF PagesInv, FormsOK, OneAtATime, OneOngoing
<1> QED
  BY <1>1, PagesInductive, PTL

\* What a page draws, and so the buttons it offers, is what RoundManager's state stands for
\* or nothing, however late the answers come.
THEOREM ShowsItsStateAlways == Spec => []ShowsItsState
<1>1. PagesInv => ShowsItsState
  BY DEF PagesInv, PagesOK, TabOK, ShowsItsState
<1> QED
  BY <1>1, PagesInductive, PTL
=============================================================================
