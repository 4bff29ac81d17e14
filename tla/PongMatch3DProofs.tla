------------------------- MODULE PongMatch3DProofs --------------------------
(***************************************************************************)
(* Each game that is played to its end sends its result once and rightly,  *)
(* and only who leaves in the last second of a game meets anything of it   *)
(* elsewhere, for any number of visits and any score to play to.           *)
(***************************************************************************)
EXTENDS PongMatch3D, SequenceTheorems, TLAPS

-----------------------------------------------------------------------------
(* Types *)

EngineState ==
    [alive: BOOLEAN, isRunning: BOOLEAN, isResetting: BOOLEAN,
     score: [Players -> Nat], ball: Players \union {Field},
     start: BOOLEAN, frame: BOOLEAN, ending: Nat, resetting: Nat]

Goals == [Players -> Nat]

TypeOK ==
    /\ page \in {"other", "match", "leaving"}
    /\ visit \in Nat
    /\ page = "match" => visit \in Visits
    /\ engines \in [Visits -> EngineState]
    /\ button \in BOOLEAN
    /\ results \in [Visits -> Seq(Goals)]
    /\ goals \in [Visits -> Goals]
    /\ alerted \in BOOLEAN /\ hasty \in BOOLEAN

-----------------------------------------------------------------------------
(* The inductive invariant *)

Ended(e) == \E p \in Players : e.score[p] = maxScore

\* While the game runs it has counted every goal but the one the next frame counts, and one
\* frame sleeps at most, exactly while isResetting keeps the others from counting it again.
Playing(e, g, sent) ==
    /\ e.alive /\ e.ending = 0 /\ sent = <<>>
    /\ \A p \in Players : e.score[p] < maxScore
    /\ \A p \in Players : e.ball = p /\ ~e.isResetting => g[p] = e.score[p] + 1
    /\ \A p \in Players : ~(e.ball = p /\ ~e.isResetting) => g[p] = e.score[p]
    /\ e.isResetting => e.resetting = 1
    /\ ~e.isResetting => e.resetting = 0

\* Of an engine e that saw the goals g and sent results: it runs, or it sent what it had to.
Game(e, g, sent) ==
    /\ e.isRunning => Playing(e, g, sent)
    /\ ~e.isRunning => sent = IF Ended(e) THEN <<g>> ELSE <<>>
    /\ e.alive => e.isRunning \/ Ended(e)
    /\ e.ending > 0 => Ended(e)
    /\ e.ball = Field /\ (\A p \in Players : e.score[p] = 0) => \A p \in Players : g[p] = 0

GamesOK == \A v \in Visits : Game(engines[v], goals[v], results[v])

\* The engine that is alive, or about to show the end of its game, is that of the page.
PageOK ==
    /\ \A v \in Visits : engines[v].alive => v = visit /\ page = "match"
    /\ hasty \/ /\ ~alerted
                /\ button => visit \in Visits /\ Ended(engines[visit])
                /\ \A v \in Visits : engines[v].ending > 0 => v = visit /\ page = "match"

MatchInv == TypeOK /\ GamesOK /\ PageOK

-----------------------------------------------------------------------------
(* Engines *)

LEMMA EngineFields ==
    ASSUME NEW e \in EngineState
    PROVE  /\ e.alive \in BOOLEAN /\ e.isRunning \in BOOLEAN /\ e.isResetting \in BOOLEAN
           /\ e.score \in [Players -> Nat] /\ e.ball \in Players \union {Field}
           /\ e.start \in BOOLEAN /\ e.frame \in BOOLEAN
           /\ e.ending \in Nat /\ e.resetting \in Nat
BY DEF EngineState

LEMMA MaxScore == maxScore \in Nat /\ maxScore # 0 /\ Players = {1, 2} /\ Field \notin Players
BY MatchAssumption DEF Players, Field

\* A step of one engine.
Becomes(v, e, g, sent) ==
    /\ engines' = [engines EXCEPT ![v] = e]
    /\ goals' = [goals EXCEPT ![v] = g]
    /\ results' = [results EXCEPT ![v] = sent]

\* What the page may rely on.
Continues(e, f) ==
    /\ f.alive => e.alive
    /\ f.ending > 0 => e.ending > 0 \/ e.alive
    /\ Ended(e) => Ended(f)

LEMMA EngineStep ==
    ASSUME MatchInv, NEW v \in Visits, NEW e \in EngineState, NEW g \in Goals,
           NEW sent \in Seq(Goals), Becomes(v, e, g, sent), Game(e, g, sent)
    PROVE  /\ engines' \in [Visits -> EngineState] /\ goals' \in [Visits -> Goals]
           /\ results' \in [Visits -> Seq(Goals)]
           /\ engines'[v] = e /\ \A w \in Visits : w # v => engines'[w] = engines[w]
           /\ GamesOK'
<1>1. /\ engines \in [Visits -> EngineState] /\ goals \in [Visits -> Goals]
      /\ results \in [Visits -> Seq(Goals)] /\ GamesOK
  BY DEF MatchInv, TypeOK
<1>2. /\ engines' \in [Visits -> EngineState] /\ goals' \in [Visits -> Goals]
      /\ results' \in [Visits -> Seq(Goals)]
      /\ engines'[v] = e /\ goals'[v] = g /\ results'[v] = sent
      /\ \A w \in Visits : w # v => /\ engines'[w] = engines[w] /\ goals'[w] = goals[w]
                                    /\ results'[w] = results[w]
  BY <1>1 DEF Becomes
<1>3. ASSUME NEW w \in Visits
      PROVE  Game(engines'[w], goals'[w], results'[w])
  <2>1. CASE w = v
    BY <2>1, <1>2
  <2>2. CASE w # v
    BY <2>2, <1>1, <1>2 DEF GamesOK
  <2> QED
    BY <2>1, <2>2
<1>4. GamesOK'
  BY <1>3 DEF GamesOK
<1> QED
  BY <1>2, <1>4

\* A frame or a timer of one engine that leaves the page alone.
LEMMA EngineContinues ==
    ASSUME MatchInv, NEW v \in Visits, NEW e \in EngineState, NEW g \in Goals,
           NEW sent \in Seq(Goals), Becomes(v, e, g, sent), Game(e, g, sent),
           Continues(engines[v], e), UNCHANGED <<page, visit, button, alerted, hasty>>
    PROVE  MatchInv'
<1>1. /\ engines' \in [Visits -> EngineState] /\ goals' \in [Visits -> Goals]
      /\ results' \in [Visits -> Seq(Goals)]
      /\ engines'[v] = e /\ \A w \in Visits : w # v => engines'[w] = engines[w]
      /\ GamesOK'
  BY EngineStep
<1>2. TypeOK'
  BY <1>1 DEF MatchInv, TypeOK
<1>3. \A w \in Visits : Continues(engines[w], engines'[w])
  <2>1. \A w \in Visits : w # v => Continues(engines[w], engines'[w])
    BY <1>1 DEF Continues
  <2> QED
    BY <2>1, <1>1
<1>4. PageOK'
  BY <1>3 DEF MatchInv, PageOK, Continues
<1> QED
  BY <1>1, <1>2, <1>4 DEF MatchInv

-----------------------------------------------------------------------------
(* Frames *)

SameGame(e, f) ==
    /\ f.alive = e.alive /\ f.isRunning = e.isRunning /\ f.isResetting = e.isResetting
    /\ f.score = e.score /\ f.ball = e.ball
    /\ f.ending = e.ending /\ f.resetting = e.resetting

LEMMA SameGameFacts ==
    ASSUME NEW e, NEW f, SameGame(e, f)
    PROVE  /\ Continues(e, f)
           /\ \A g, sent : Game(e, g, sent) => Game(f, g, sent)
BY DEF SameGame, Continues, Ended, Game, Playing

\* The ball goes over a line or not.
LEMMA MoveGame ==
    ASSUME NEW e \in EngineState, NEW g \in Goals, NEW sent, NEW ball \in Players \union {Field},
           Game(e, g, sent), e.isRunning, ~e.isResetting, e.ball = Field
    PROVE  LET f == [e EXCEPT !.ball = ball]
               h == IF ball = Field THEN g ELSE [g EXCEPT ![ball] = @ + 1]
           IN f \in EngineState /\ h \in Goals /\ Game(f, h, sent) /\ Continues(e, f)
<1> PICK f, h : /\ f = [e EXCEPT !.ball = ball]
                /\ h = IF ball = Field THEN g ELSE [g EXCEPT ![ball] = @ + 1]
  OBVIOUS
<1>1. /\ f \in EngineState /\ f.ball = ball /\ f.alive = e.alive /\ f.isRunning = e.isRunning
      /\ f.isResetting = e.isResetting /\ f.score = e.score
      /\ f.ending = e.ending /\ f.resetting = e.resetting
  BY DEF EngineState
<1>2. /\ Playing(e, g, sent) /\ \A p \in Players : g[p] = e.score[p]
  BY MaxScore DEF Game, Playing
<1>3. h \in Goals /\ \A p \in Players : h[p] = IF p = ball THEN g[p] + 1 ELSE g[p]
  BY MaxScore DEF Goals
<1>4. Playing(f, h, sent)
  BY <1>1, <1>2, <1>3 DEF Playing
<1>5. Game(f, h, sent)
  BY <1>1, <1>2, <1>3, <1>4, MaxScore DEF Game, Playing
<1>6. Continues(e, f)
  BY <1>1 DEF Continues, Ended
<1> QED
  BY <1>1, <1>3, <1>5, <1>6

\* The goal is counted.
Scored(e) == [e EXCEPT !.score[e.ball] = @ + 1]

LEMMA ScoredFacts ==
    ASSUME NEW e \in EngineState, NEW g \in Goals, NEW sent,
           Game(e, g, sent), e.isRunning, ~e.isResetting, e.ball # Field
    PROVE  /\ Scored(e) \in EngineState
           /\ Scored(e).alive /\ Scored(e).isRunning /\ ~Scored(e).isResetting
           /\ Scored(e).ball = e.ball /\ Scored(e).ending = 0 /\ Scored(e).resetting = 0
           /\ Scored(e).score = g /\ sent = <<>>
           /\ \A p \in Players : g[p] <= maxScore
           /\ \A p \in Players : e.score[p] # maxScore
           /\ \E p \in Players : g[p] # 0
<1> PICK ball, score : ball = e.ball /\ score = [e.score EXCEPT ![ball] = @ + 1]
  OBVIOUS
<1>1. ball \in Players /\ e.score \in [Players -> Nat] /\ Playing(e, g, sent)
  BY EngineFields DEF Game
<1>2. score \in [Players -> Nat]
      /\ \A p \in Players : score[p] = IF p = ball THEN e.score[p] + 1 ELSE e.score[p]
  BY <1>1
<1>3. Scored(e) = [e EXCEPT !.score = score]
  BY DEF Scored
<1>4. \A p \in Players : score[p] = g[p]
  BY <1>1, <1>2 DEF Playing
<1>5. score = g
  BY <1>2, <1>4 DEF Goals
<1>6. /\ Scored(e) \in EngineState /\ Scored(e).score = score
      /\ Scored(e).alive = e.alive /\ Scored(e).isRunning = e.isRunning
      /\ Scored(e).isResetting = e.isResetting
      /\ Scored(e).ball = e.ball /\ Scored(e).ending = e.ending
      /\ Scored(e).resetting = e.resetting
  BY <1>2, <1>3 DEF EngineState
<1>7. \A p \in Players : e.score[p] \in Nat /\ e.score[p] < maxScore
  BY <1>1 DEF Playing
<1>8. /\ \A p \in Players : score[p] <= maxScore
      /\ \A p \in Players : e.score[p] # maxScore
      /\ score[ball] # 0
  BY <1>1, <1>2, <1>7, MaxScore
<1> QED
  BY <1>1, <1>5, <1>6, <1>8 DEF Playing

\* The last goal: the result is sent.
LEMMA EndGame ==
    ASSUME NEW e \in EngineState, NEW g \in Goals, NEW sent \in Seq(Goals),
           Game(e, g, sent), e.isRunning, ~e.isResetting, e.ball # Field,
           IsMatchEnd(Scored(e).score)
    PROVE  LET f == [Scored(e) EXCEPT !.isRunning = FALSE, !.ball = Field, !.ending = @ + 1]
           IN /\ f \in EngineState /\ Append(sent, Scored(e).score) \in Seq(Goals)
              /\ Game(f, g, Append(sent, Scored(e).score)) /\ Continues(e, f)
<1> PICK s, f : /\ s = Scored(e)
                /\ f = [s EXCEPT !.isRunning = FALSE, !.ball = Field, !.ending = @ + 1]
  OBVIOUS
<1>1. /\ s \in EngineState /\ s.alive /\ s.ending = 0 /\ s.score = g /\ sent = <<>>
      /\ \A p \in Players : g[p] <= maxScore
      /\ \A p \in Players : e.score[p] # maxScore
      /\ \E p \in Players : g[p] # 0
  BY ScoredFacts
<1>2. /\ f \in EngineState /\ f.alive = s.alive /\ ~f.isRunning /\ f.score = s.score
      /\ f.ending = s.ending + 1
  <2> PICK ending : ending = s.ending + 1
    OBVIOUS
  <2>1. ending \in Nat /\ Field \in Players \union {Field}
    BY <1>1
  <2>2. f = [s EXCEPT !.isRunning = FALSE, !.ball = Field, !.ending = ending]
    OBVIOUS
  <2>3. /\ f \in EngineState /\ f.alive = s.alive /\ ~f.isRunning /\ f.score = s.score
        /\ f.ending = ending
    BY ONLY <1>1, <2>1, <2>2 DEF EngineState
  <2> QED
    BY <2>3
<1>3. Append(sent, s.score) = <<g>> /\ <<g>> \in Seq(Goals)
  BY <1>1
<1>4. Ended(f)
  <2>1. PICK p \in Players : g[p] >= maxScore
    BY <1>1 DEF IsMatchEnd
  <2>2. g[p] \in Nat /\ maxScore \in Nat /\ g[p] <= maxScore
    BY <1>1, MaxScore DEF Goals
  <2>3. g[p] = maxScore
    BY ONLY <2>1, <2>2
  <2> QED
    BY <2>3, <1>1, <1>2 DEF Ended
<1>5. Game(f, g, <<g>>)
  BY <1>1, <1>2, <1>4 DEF Game
<1>6. Continues(e, f)
  BY <1>4, <1>1 DEF Continues, Game, Playing
<1> QED
  BY <1>2, <1>3, <1>5, <1>6

\* Another goal: its frame sleeps.
LEMMA SleepGame ==
    ASSUME NEW e \in EngineState, NEW g \in Goals, NEW sent \in Seq(Goals),
           Game(e, g, sent), e.isRunning, ~e.isResetting, e.ball # Field,
           ~IsMatchEnd(Scored(e).score)
    PROVE  LET f == Sleep(Scored(e))
           IN f \in EngineState /\ Game(f, g, sent) /\ Continues(e, f)
<1> PICK s, f : s = Scored(e) /\ f = Sleep(s)
  OBVIOUS
<1>1. /\ s \in EngineState /\ s.alive /\ s.isRunning /\ s.ball = e.ball /\ s.ending = 0
      /\ s.resetting = 0 /\ s.score = g /\ sent = <<>>
      /\ \A p \in Players : g[p] <= maxScore
      /\ \A p \in Players : e.score[p] # maxScore
      /\ \E p \in Players : g[p] # 0
  BY ScoredFacts
<1>2. /\ f \in EngineState /\ f.alive = s.alive /\ f.isRunning = s.isRunning /\ f.isResetting
      /\ f.score = s.score /\ f.ball = s.ball /\ f.ending = s.ending
      /\ f.resetting = s.resetting + 1
  <2> PICK resetting : resetting = s.resetting + 1
    OBVIOUS
  <2>1. resetting \in Nat
    BY <1>1
  <2>2. f = [s EXCEPT !.isResetting = TRUE, !.resetting = resetting]
    BY DEF Sleep
  <2>3. /\ f \in EngineState /\ f.alive = s.alive /\ f.isRunning = s.isRunning
        /\ f.isResetting /\ f.score = s.score /\ f.ball = s.ball /\ f.ending = s.ending
        /\ f.resetting = resetting
    BY ONLY <1>1, <2>1, <2>2 DEF EngineState
  <2> QED
    BY <2>3
<1>3. \A p \in Players : f.score[p] < maxScore
  <2> TAKE p \in Players
  <2>1. g[p] \in Nat /\ maxScore \in Nat
    BY MaxScore DEF Goals
  <2>2. ~(g[p] >= maxScore)
    BY <1>1 DEF IsMatchEnd
  <2>3. g[p] < maxScore
    BY ONLY <2>1, <2>2
  <2> QED
    BY <2>3, <1>1, <1>2
<1>4. Playing(f, g, sent)
  BY <1>1, <1>2, <1>3 DEF Playing
<1>5. Game(f, g, sent)
  BY <1>1, <1>2, <1>4 DEF Game
<1>6. Continues(e, f)
  BY <1>1, <1>2, EngineFields DEF Continues, Ended, Game, Playing
<1> QED
  BY <1>2, <1>5, <1>6

LEMMA AnimateStep ==
    ASSUME MatchInv, NEW v \in Visits, NEW e \in EngineState, SameGame(engines[v], e),
           Animate(v, e)
    PROVE  MatchInv'
<1> PICK g, sent, next : /\ g = goals[v] /\ sent = results[v]
                         /\ next = [e EXCEPT !.frame = e.isRunning]
  OBVIOUS
<1>1. /\ engines \in [Visits -> EngineState] /\ goals \in [Visits -> Goals]
      /\ results \in [Visits -> Seq(Goals)] /\ g \in Goals /\ sent \in Seq(Goals)
      /\ Game(engines[v], g, sent)
  BY DEF MatchInv, TypeOK, GamesOK
<1>2. next \in EngineState /\ SameGame(e, next) /\ SameGame(engines[v], next)
  BY EngineFields DEF EngineState, SameGame
<1>3. Game(next, g, sent)
  BY <1>1, <1>2, SameGameFacts
<1>4. \A f : Continues(next, f) => Continues(engines[v], f)
  BY <1>2 DEF SameGame, Continues, Ended
<1>5. UNCHANGED <<page, visit, button, alerted, hasty>>
  BY DEF Animate
<1>6. SUFFICES \E f \in EngineState, h \in Goals, list \in Seq(Goals) :
                   Becomes(v, f, h, list) /\ Game(f, h, list) /\ Continues(next, f)
  <2>1. PICK f \in EngineState, h \in Goals, list \in Seq(Goals) :
                   Becomes(v, f, h, list) /\ Game(f, h, list) /\ Continues(next, f)
    BY <1>6
  <2> QED
    BY <2>1, <1>4, <1>5, EngineContinues
<1>7. /\ UNCHANGED goals => goals' = [goals EXCEPT ![v] = g]
      /\ UNCHANGED results => results' = [results EXCEPT ![v] = sent]
  BY <1>1
<1>8. Continues(next, next)
  BY DEF Continues
<1>9. next.isRunning = e.isRunning /\ next.isResetting = e.isResetting /\ next.ball = e.ball
  BY <1>2 DEF SameGame
<1>10. CASE ~e.isRunning
  <2>1. engines' = [engines EXCEPT ![v] = next] /\ UNCHANGED <<results, goals>>
    BY <1>10 DEF Animate
  <2>2. Becomes(v, next, g, sent)
    BY <2>1, <1>7 DEF Becomes
  <2> QED
    BY <2>2, <1>1, <1>2, <1>3, <1>8
<1>11. CASE e.isRunning /\ e.isResetting
  <2>1. MoveBall(v, next) /\ UNCHANGED results
    BY <1>11 DEF Animate
  <2>2. engines' = [engines EXCEPT ![v] = next] /\ UNCHANGED goals
    BY <2>1, <1>9, <1>11 DEF MoveBall
  <2>3. Becomes(v, next, g, sent)
    BY <2>1, <2>2, <1>7 DEF Becomes
  <2> QED
    BY <2>3, <1>1, <1>2, <1>3, <1>8
<1>12. CASE e.isRunning /\ ~e.isResetting /\ e.ball = Field
  <2>1. MoveBall(v, next) /\ UNCHANGED results
    BY <1>12 DEF Animate
  <2>2. PICK ball \in Players \union {Field} :
            /\ engines' = [engines EXCEPT ![v] = [next EXCEPT !.ball = ball]]
            /\ goals' = IF ball = Field THEN goals ELSE [goals EXCEPT ![v][ball] = @ + 1]
    BY <2>1, <1>9, <1>12 DEF MoveBall
  <2> PICK f, h : /\ f = [next EXCEPT !.ball = ball]
                  /\ h = IF ball = Field THEN g ELSE [g EXCEPT ![ball] = @ + 1]
    OBVIOUS
  <2>3. f \in EngineState /\ h \in Goals /\ Game(f, h, sent) /\ Continues(next, f)
    BY <1>1, <1>2, <1>3, <1>9, <1>12, MoveGame
  <2>4. goals' = [goals EXCEPT ![v] = h]
    <3>1. CASE ball = Field
      BY <3>1, <2>2, <1>1
    <3>2. CASE ball # Field
      BY <3>2, <2>2, <1>1
    <3> QED
      BY <3>1, <3>2
  <2>5. Becomes(v, f, h, sent)
    BY <2>1, <2>2, <2>4, <1>7 DEF Becomes
  <2> QED
    BY <2>3, <2>5, <1>1
<1>13. CASE e.isRunning /\ ~e.isResetting /\ e.ball # Field
  <2>1. Count(v, next) /\ UNCHANGED goals
    BY <1>13 DEF Animate
  <2>2. /\ next.isRunning /\ ~next.isResetting /\ next.ball # Field
    BY <1>9, <1>13
  <2>3. CASE IsMatchEnd(Scored(next).score)
    <3> PICK f, list :
            /\ f = [Scored(next) EXCEPT !.isRunning = FALSE, !.ball = Field, !.ending = @ + 1]
            /\ list = Append(sent, Scored(next).score)
      OBVIOUS
    <3>1. f \in EngineState /\ list \in Seq(Goals) /\ Game(f, g, list) /\ Continues(next, f)
      BY <2>2, <2>3, <1>1, <1>2, <1>3, EndGame
    <3>2. engines' = [engines EXCEPT ![v] = f] /\ results' = [results EXCEPT ![v] = list]
      BY <2>1, <2>3, <1>1 DEF Count, Scored
    <3>3. Becomes(v, f, g, list)
      BY <3>2, <2>1, <1>7 DEF Becomes
    <3> QED
      BY <3>1, <3>3, <1>1
  <2>4. CASE ~IsMatchEnd(Scored(next).score)
    <3> PICK f : f = Sleep(Scored(next))
      OBVIOUS
    <3>1. f \in EngineState /\ Game(f, g, sent) /\ Continues(next, f)
      BY <2>2, <2>4, <1>1, <1>2, <1>3, SleepGame
    <3>2. engines' = [engines EXCEPT ![v] = f] /\ UNCHANGED results
      BY <2>1, <2>4 DEF Count, Scored
    <3>3. Becomes(v, f, g, sent)
      BY <3>2, <2>1, <1>7 DEF Becomes
    <3> QED
      BY <3>1, <3>3, <1>1
  <2> QED
    BY <2>3, <2>4
<1> QED
  BY <1>10, <1>11, <1>12, <1>13

LEMMA FrameStep ==
    ASSUME MatchInv, NEW v \in Visits, FirstFrame(v) \/ Frame(v)
    PROVE  MatchInv'
<1>1. engines[v] \in EngineState
  BY DEF MatchInv, TypeOK
<1>2. CASE FirstFrame(v)
  <2> PICK e : e = [engines[v] EXCEPT !.start = FALSE]
    OBVIOUS
  <2>1. e \in EngineState /\ SameGame(engines[v], e) /\ Animate(v, e)
    BY <1>1, <1>2 DEF EngineState, SameGame, FirstFrame
  <2> QED
    BY <2>1, AnimateStep
<1>3. CASE Frame(v)
  <2> PICK e : e = engines[v]
    OBVIOUS
  <2>1. e \in EngineState /\ SameGame(engines[v], e) /\ Animate(v, e)
    BY <1>1, <1>3 DEF SameGame, Frame
  <2> QED
    BY <2>1, AnimateStep
<1> QED
  BY <1>2, <1>3

LEMMA ServeStep ==
    ASSUME MatchInv, NEW v \in Visits, Serve(v)
    PROVE  MatchInv'
<1> PICK e, g, sent, f : /\ e = engines[v] /\ g = goals[v] /\ sent = results[v] /\ f = Wake(e)
  OBVIOUS
<1>1. /\ engines \in [Visits -> EngineState] /\ goals \in [Visits -> Goals]
      /\ results \in [Visits -> Seq(Goals)]
      /\ e \in EngineState /\ g \in Goals /\ sent \in Seq(Goals) /\ Game(e, g, sent)
      /\ e.resetting > 0 /\ e.resetting \in Nat
  BY EngineFields DEF MatchInv, TypeOK, GamesOK, Serve
<1>2. /\ f \in EngineState /\ f.alive = e.alive /\ f.isRunning = e.isRunning /\ ~f.isResetting
      /\ f.score = e.score /\ f.ending = e.ending
      /\ f.resetting = e.resetting - 1 /\ f.ball = IF e.alive THEN Field ELSE e.ball
  <2> PICK resetting, ball : /\ resetting = e.resetting - 1
                             /\ ball = IF e.alive THEN Field ELSE e.ball
    OBVIOUS
  <2>1. resetting \in Nat
    BY ONLY <1>1, resetting = e.resetting - 1
  <2>2. ball \in Players \union {Field}
    BY <1>1, EngineFields
  <2>3. f = [e EXCEPT !.resetting = resetting, !.isResetting = FALSE, !.ball = ball]
    BY DEF Wake
  <2>4. /\ f \in EngineState /\ f.alive = e.alive /\ f.isRunning = e.isRunning
        /\ ~f.isResetting /\ f.score = e.score /\ f.ending = e.ending
        /\ f.resetting = resetting /\ f.ball = ball
    BY ONLY <1>1, <2>1, <2>2, <2>3 DEF EngineState
  <2> QED
    BY <2>4
<1>3. Game(f, g, sent)
  <2>1. e.isRunning => Playing(f, g, sent)
    <3> SUFFICES ASSUME e.isRunning
                 PROVE  Playing(f, g, sent)
      OBVIOUS
    <3>1. Playing(e, g, sent) /\ e.isResetting /\ e.alive /\ e.resetting = 1
      BY <1>1 DEF Game, Playing
    <3>2. f.resetting = 0
      BY <3>1, <1>2
    <3> QED
      BY <3>1, <3>2, <1>2, MaxScore DEF Playing
  <2>2. Ended(f) = Ended(e)
    BY <1>2 DEF Ended
  <2>3. f.ball = Field /\ (\A p \in Players : f.score[p] = 0) => \A p \in Players : g[p] = 0
    <3>1. CASE e.alive
      <4>1. e.isRunning \/ Ended(e)
        BY <3>1, <1>1 DEF Game
      <4>2. CASE e.isRunning
        BY <4>2, <2>1, <1>1, <1>2, MaxScore DEF Playing
      <4>3. CASE Ended(e)
        BY <4>3, <1>2, MaxScore DEF Ended
      <4> QED
        BY <4>1, <4>2, <4>3
    <3>2. CASE ~e.alive
      BY <3>2, <1>1, <1>2 DEF Game
    <3> QED
      BY <3>1, <3>2
  <2> QED
    BY <2>1, <2>2, <2>3, <1>1, <1>2 DEF Game
<1>4. Continues(e, f)
  BY <1>2 DEF Continues, Ended
<1>5. Becomes(v, f, g, sent)
  BY <1>1 DEF Becomes, Serve
<1>6. UNCHANGED <<page, visit, button, alerted, hasty>>
  BY DEF Serve
<1> QED
  BY <1>1, <1>2, <1>3, <1>4, <1>5, <1>6, EngineContinues

-----------------------------------------------------------------------------
(* The end of a game, and the page *)

\* An engine that stops: a game that was not over is not decided by it.
LEMMA StoppedGame ==
    ASSUME NEW e, NEW f, NEW g, NEW sent, Game(e, g, sent), f.score = e.score,
           f.ball = e.ball, ~f.alive, ~f.isRunning, f.ending = e.ending \/ f.ending = 0,
           e.score \in [Players -> Nat]
    PROVE  Game(f, g, sent)
<1>1. Ended(f) = Ended(e)
  BY DEF Ended
<1>2. sent = IF Ended(e) THEN <<g>> ELSE <<>>
  <2>1. CASE e.isRunning
    <3>1. sent = <<>> /\ \A p \in Players : e.score[p] \in Nat /\ e.score[p] < maxScore
      BY <2>1 DEF Game, Playing
    <3>2. ~Ended(e)
      BY <3>1, MaxScore DEF Ended
    <3> QED
      BY <3>1, <3>2
  <2>2. CASE ~e.isRunning
    BY <2>2 DEF Game
  <2> QED
    BY <2>1, <2>2
<1>3. f.ending > 0 => Ended(f)
  BY <1>1 DEF Game
<1> QED
  BY <1>1, <1>2, <1>3 DEF Game

LEMMA AlertStep ==
    ASSUME MatchInv, NEW v \in Visits, engines[v].ending > 0, page = "other", Alert,
           UNCHANGED <<visit, results, goals, hasty>>
    PROVE  MatchInv'
<1> DEFINE stopped(w) == [engines[w] EXCEPT !.alive = FALSE, !.isRunning = FALSE,
                              !.start = FALSE, !.frame = FALSE, !.ending = 0, !.resetting = 0]
<1>1. /\ engines \in [Visits -> EngineState] /\ GamesOK
      /\ engines' = [w \in Visits |-> stopped(w)]
      /\ alerted' = TRUE /\ page' = "other" /\ button' = FALSE
  BY DEF MatchInv, TypeOK, Alert
<1>2. ASSUME NEW w \in Visits
      PROVE  /\ stopped(w) \in EngineState /\ ~stopped(w).alive /\ ~stopped(w).isRunning
             /\ stopped(w).ending = 0 /\ stopped(w).score = engines[w].score
             /\ stopped(w).ball = engines[w].ball
  BY <1>1 DEF EngineState
<1>3. \A w \in Visits : engines'[w] = stopped(w)
  BY <1>1
<1>4. engines' \in [Visits -> EngineState]
  BY <1>1, <1>2
<1> HIDE DEF stopped
<1>5. TypeOK'
  BY <1>1, <1>4 DEF MatchInv, TypeOK
<1>6. ASSUME NEW w \in Visits
      PROVE  Game(engines'[w], goals[w], results[w])
  <2> PICK e, f, g, sent : e = engines[w] /\ f = engines'[w] /\ g = goals[w] /\ sent = results[w]
    OBVIOUS
  <2>1. /\ Game(e, g, sent) /\ f.score = e.score /\ f.ball = e.ball /\ ~f.alive
        /\ ~f.isRunning /\ f.ending = 0
    BY <1>1, <1>2, <1>3 DEF GamesOK
  <2>2. e.score \in [Players -> Nat]
    BY <1>1, EngineFields
  <2> QED
    BY <2>1, <2>2, StoppedGame
<1>7. GamesOK'
  BY <1>6 DEF GamesOK
<1>8. hasty
  BY DEF MatchInv, PageOK
<1>9. PageOK'
  BY <1>2, <1>3, <1>8 DEF PageOK
<1> QED
  BY <1>5, <1>7, <1>9 DEF MatchInv

LEMMA DisplayEndGameButtonStep ==
    ASSUME MatchInv, NEW v \in Visits, DisplayEndGameButton(v)
    PROVE  MatchInv'
<1>1. engines[v].ending > 0 /\ UNCHANGED <<visit, results, goals, hasty>>
  BY DEF DisplayEndGameButton
<1>2. CASE page = "other"
  BY <1>1, <1>2, AlertStep DEF DisplayEndGameButton
<1>3. CASE page # "other"
  <2> PICK e, g, sent, f : /\ e = engines[v] /\ g = goals[v] /\ sent = results[v]
                           /\ f = Sleep([e EXCEPT !.ending = @ - 1])
    OBVIOUS
  <2>1. /\ engines' = [engines EXCEPT ![v] = f] /\ button' = TRUE
        /\ UNCHANGED <<page, alerted>>
    BY <1>3 DEF DisplayEndGameButton
  <2>2. /\ goals \in [Visits -> Goals] /\ results \in [Visits -> Seq(Goals)]
        /\ e \in EngineState /\ g \in Goals /\ sent \in Seq(Goals) /\ Game(e, g, sent)
        /\ e.ending > 0 /\ e.ending \in Nat /\ e.resetting \in Nat
    BY <1>1, EngineFields DEF MatchInv, TypeOK, GamesOK
  <2>3. /\ f \in EngineState /\ f.alive = e.alive /\ f.isRunning = e.isRunning
        /\ f.score = e.score /\ f.ball = e.ball
    <3> PICK ending, resetting : ending = e.ending - 1 /\ resetting = e.resetting + 1
      OBVIOUS
    <3>1. ending \in Nat /\ resetting \in Nat
      BY ONLY <2>2, ending = e.ending - 1 /\ resetting = e.resetting + 1
    <3> PICK h : h = [e EXCEPT !.ending = ending]
      OBVIOUS
    <3>2. /\ h \in EngineState /\ h.alive = e.alive /\ h.isRunning = e.isRunning
          /\ h.score = e.score /\ h.ball = e.ball /\ h.resetting = e.resetting
      BY ONLY <2>2, <3>1, h = [e EXCEPT !.ending = ending] DEF EngineState
    <3>3. f = [h EXCEPT !.isResetting = TRUE, !.resetting = resetting]
      BY <3>2 DEF Sleep
    <3>4. /\ f \in EngineState /\ f.alive = h.alive /\ f.isRunning = h.isRunning
          /\ f.score = h.score /\ f.ball = h.ball
      BY ONLY <3>1, <3>2, <3>3 DEF EngineState
    <3> QED
      BY <3>2, <3>4
  <2>4. ~e.isRunning /\ Ended(e) /\ Ended(f)
    BY <2>2, <2>3 DEF Game, Playing, Ended
  <2>5. Game(f, g, sent)
    BY <2>2, <2>3, <2>4 DEF Game
  <2>6. Becomes(v, f, g, sent)
    BY <2>1, <2>2, <1>1 DEF Becomes
  <2>7. /\ engines' \in [Visits -> EngineState] /\ goals' \in [Visits -> Goals]
        /\ results' \in [Visits -> Seq(Goals)]
        /\ engines'[v] = f /\ \A w \in Visits : w # v => engines'[w] = engines[w]
        /\ GamesOK'
    BY <2>2, <2>3, <2>5, <2>6, EngineStep
  <2>8. TypeOK'
    BY <2>1, <2>7, <1>1 DEF MatchInv, TypeOK
  <2>9. PageOK'
    <3>1. \A w \in Visits : engines'[w].alive => w = visit /\ page = "match"
      BY <2>3, <2>7 DEF MatchInv, PageOK
    <3>2. ~hasty => /\ ~alerted /\ v = visit /\ page = "match"
                    /\ \A w \in Visits : w # v => ~(engines'[w].ending > 0)
      BY <2>7, <1>1 DEF MatchInv, PageOK
    <3> QED
      BY <3>1, <3>2, <2>1, <2>4, <2>7, <1>1 DEF PageOK
  <2> QED
    BY <2>7, <2>8, <2>9 DEF MatchInv
<1> QED
  BY <1>2, <1>3

\* A match page is there or the html of another page, and no engine of it runs yet.
LEMMA PageStep ==
    ASSUME MatchInv, Open \/ Arrive
    PROVE  MatchInv'
<1>1. UNCHANGED <<engines, results, goals, alerted, hasty>> /\ button' = FALSE /\ page # "match"
  BY DEF Open, Arrive, Show
<1>2. /\ visit' \in Nat /\ page' \in {"other", "match"}
      /\ page' = "match" => visit' \in Visits
  <2>1. CASE Show
    <3>1. /\ visit \in Nat /\ visit < MaxVisits /\ visit' = visit + 1 /\ page' = "match"
          /\ MaxVisits \in Nat
      BY <2>1, MatchAssumption DEF Show, MatchInv, TypeOK
    <3> QED
      BY <3>1 DEF Visits
  <2>2. CASE page' = "other" /\ UNCHANGED visit
    BY <2>2 DEF MatchInv, TypeOK
  <2> QED
    BY <2>1, <2>2 DEF Open, Arrive
<1>3. TypeOK'
  BY <1>1, <1>2 DEF MatchInv, TypeOK
<1>4. GamesOK'
  BY <1>1 DEF MatchInv, GamesOK
<1>5. PageOK'
  BY <1>1 DEF MatchInv, PageOK
<1> QED
  BY <1>3, <1>4, <1>5 DEF MatchInv

LEMMA StartStep ==
    ASSUME MatchInv, Start
    PROVE  MatchInv'
<1> PICK v, g, sent, f :
        /\ v = visit /\ g = goals[v] /\ sent = results[v]
        /\ f = [NoEngine EXCEPT !.alive = TRUE, !.isRunning = TRUE, !.start = TRUE]
  OBVIOUS
<1>1. /\ v \in Visits /\ engines[v] = NoEngine /\ page = "match"
      /\ engines' = [engines EXCEPT ![v] = f]
      /\ UNCHANGED <<page, visit, button, results, goals, alerted, hasty>>
  BY DEF Start, MatchInv, TypeOK
<1>2. /\ goals \in [Visits -> Goals] /\ results \in [Visits -> Seq(Goals)]
      /\ g \in Goals /\ sent \in Seq(Goals) /\ Game(NoEngine, g, sent)
  BY <1>1 DEF MatchInv, TypeOK, GamesOK
<1>3. /\ f \in EngineState /\ f.alive /\ f.isRunning /\ ~f.isResetting /\ f.ball = Field
      /\ f.ending = 0 /\ f.resetting = 0 /\ \A p \in Players : f.score[p] = 0
  BY DEF NoEngine, EngineState
<1>4. /\ ~NoEngine.isRunning /\ NoEngine.ball = Field /\ \A p \in Players : NoEngine.score[p] = 0
  BY DEF NoEngine
<1>5. ~Ended(NoEngine)
  BY <1>4, MaxScore DEF Ended
<1>6. sent = <<>> /\ \A p \in Players : g[p] = 0
  BY <1>2, <1>4, <1>5 DEF Game
<1>7. Game(f, g, sent)
  <2>1. Playing(f, g, sent)
    BY <1>3, <1>6, MaxScore DEF Playing
  <2> QED
    BY <2>1, <1>3, <1>6 DEF Game
<1>8. Becomes(v, f, g, sent)
  BY <1>1, <1>2 DEF Becomes
<1>9. /\ engines' \in [Visits -> EngineState] /\ goals' \in [Visits -> Goals]
      /\ results' \in [Visits -> Seq(Goals)]
      /\ engines'[v] = f /\ \A w \in Visits : w # v => engines'[w] = engines[w]
      /\ GamesOK'
  BY <1>1, <1>2, <1>3, <1>7, <1>8, EngineStep
<1>10. TypeOK'
  BY <1>1, <1>9 DEF MatchInv, TypeOK
<1>11. hasty \/ ~button
  BY <1>1, <1>5 DEF MatchInv, PageOK
<1>12. PageOK'
  BY <1>1, <1>3, <1>9, <1>11 DEF MatchInv, PageOK
<1> QED
  BY <1>9, <1>10, <1>12 DEF MatchInv

LEMMA LeaveStep ==
    ASSUME MatchInv, Leave
    PROVE  MatchInv'
<1> PICK v, e, g, sent, f : /\ v = visit /\ e = engines[v] /\ g = goals[v] /\ sent = results[v]
                            /\ f = Disposed(e)
  OBVIOUS
<1>1. /\ v \in Visits /\ page = "match" /\ page' = "leaving"
      /\ engines' = [engines EXCEPT ![v] = f] /\ hasty' = (hasty \/ e.ending > 0)
      /\ UNCHANGED <<visit, button, results, goals, alerted>>
  BY DEF Leave, MatchInv, TypeOK
<1>2. /\ goals \in [Visits -> Goals] /\ results \in [Visits -> Seq(Goals)]
      /\ e \in EngineState /\ g \in Goals /\ sent \in Seq(Goals) /\ Game(e, g, sent)
  BY <1>1 DEF MatchInv, TypeOK, GamesOK
<1>3. /\ f \in EngineState /\ ~f.alive /\ ~f.isRunning /\ f.score = e.score /\ f.ball = e.ball
      /\ f.ending = e.ending
  BY <1>2 DEF Disposed, EngineState
<1>4. Game(f, g, sent)
  BY <1>2, <1>3, StoppedGame, EngineFields
<1>5. Becomes(v, f, g, sent)
  BY <1>1, <1>2 DEF Becomes
<1>6. /\ engines' \in [Visits -> EngineState] /\ goals' \in [Visits -> Goals]
      /\ results' \in [Visits -> Seq(Goals)]
      /\ engines'[v] = f /\ \A w \in Visits : w # v => engines'[w] = engines[w]
      /\ GamesOK'
  BY <1>1, <1>2, <1>3, <1>4, <1>5, EngineStep
<1>7. hasty' \in BOOLEAN
  BY <1>1 DEF MatchInv, TypeOK
<1>8. TypeOK'
  BY <1>1, <1>6, <1>7 DEF MatchInv, TypeOK
<1>9. \A w \in Visits : ~engines'[w].alive
  BY <1>1, <1>3, <1>6 DEF MatchInv, PageOK
<1>10. ~hasty' => ~alerted /\ (button => Ended(f)) /\ \A w \in Visits : ~(engines'[w].ending > 0)
  BY <1>1, <1>3, <1>6 DEF MatchInv, PageOK, Ended
<1>11. PageOK'
  BY <1>1, <1>6, <1>9, <1>10 DEF PageOK
<1> QED
  BY <1>6, <1>8, <1>11 DEF MatchInv

-----------------------------------------------------------------------------
(* Theorems *)

LEMMA MatchInit == Init => MatchInv
<1> SUFFICES ASSUME Init
             PROVE  MatchInv
  OBVIOUS
<1>1. /\ page = "other" /\ visit = 0 /\ engines = [v \in Visits |-> NoEngine] /\ button = FALSE
      /\ results = [v \in Visits |-> <<>>] /\ alerted = FALSE /\ hasty = FALSE
      /\ goals = [v \in Visits |-> [p \in Players |-> 0]]
  BY DEF Init
<1>2. /\ NoEngine \in EngineState /\ ~NoEngine.alive /\ ~NoEngine.isRunning
      /\ NoEngine.ending = 0 /\ \A p \in Players : NoEngine.score[p] = 0
  BY DEF NoEngine, EngineState
<1>3. TypeOK
  <2>1. [p \in Players |-> 0] \in Goals /\ <<>> \in Seq(Goals)
    BY EmptySeq DEF Goals
  <2> QED
    BY <2>1, <1>1, <1>2 DEF TypeOK
<1>4. ~Ended(NoEngine)
  BY <1>2, MaxScore DEF Ended
<1>5. \A v \in Visits : /\ engines[v] = NoEngine /\ results[v] = <<>>
                        /\ \A p \in Players : goals[v][p] = 0
  BY <1>1
<1>6. GamesOK
  BY <1>2, <1>4, <1>5 DEF GamesOK, Game
<1>7. PageOK
  BY <1>1, <1>2, <1>5 DEF PageOK
<1> QED
  BY <1>3, <1>6, <1>7 DEF MatchInv

LEMMA MatchStep == MatchInv /\ [Next]_vars => MatchInv'
<1> SUFFICES ASSUME MatchInv, [Next]_vars
             PROVE  MatchInv'
  OBVIOUS
<1>1. CASE Open \/ Arrive
  BY <1>1, PageStep
<1>2. CASE Start
  BY <1>2, StartStep
<1>3. CASE Leave
  BY <1>3, LeaveStep
<1>4. ASSUME NEW v \in Visits, Resumes(v)
      PROVE  MatchInv'
  BY <1>4, FrameStep, ServeStep, DisplayEndGameButtonStep DEF Resumes
<1>5. CASE UNCHANGED vars
  BY <1>5 DEF vars, MatchInv, TypeOK, GamesOK, PageOK
<1> QED
  BY <1>1, <1>2, <1>3, <1>4, <1>5 DEF Next

\* A game that runs has counted each goal but the one its next frame counts, and the engine
\* that is alive is that of the page.
THEOREM MatchInductive == Spec => []MatchInv
BY MatchInit, MatchStep, PTL DEF Spec

\* The result of each game that was played to its end is sent once and with the goals there
\* were, whenever the page is left and whatever frames go on while one sleeps.
THEOREM ResultsAlwaysRight == Spec => []ResultsAreRight
<1>1. MatchInv => ResultsAreRight
  <2> SUFFICES ASSUME MatchInv, NEW v \in Visits
               PROVE  results[v] = IF Decided(v) THEN <<goals[v]>> ELSE <<>>
    BY DEF ResultsAreRight
  <2>1. Game(engines[v], goals[v], results[v]) /\ engines[v] \in EngineState
    BY DEF MatchInv, GamesOK, TypeOK
  <2>2. Decided(v) <=> Ended(engines[v])
    BY DEF Decided, Ended
  <2>3. CASE engines[v].isRunning
    <3>1. results[v] = <<>> /\ \A p \in Players : engines[v].score[p] < maxScore
      BY <2>1, <2>3 DEF Game, Playing
    <3>2. \A p \in Players : engines[v].score[p] \in Nat
      BY <2>1, EngineFields
    <3>3. ~Ended(engines[v])
      BY <3>1, <3>2, MaxScore DEF Ended
    <3> QED
      BY <3>1, <3>3, <2>2
  <2>4. CASE ~engines[v].isRunning
    BY <2>1, <2>2, <2>4 DEF Game
  <2> QED
    BY <2>3, <2>4
<1> QED
  BY <1>1, MatchInductive, PTL

\* No alert and no button of a game on another page, unless a page was left in the last second
\* of its game: only then an engine that is disposed of still has something to display.
THEOREM StaysOnItsPageAlways == Spec => []StaysOnItsPage
<1>1. MatchInv => StaysOnItsPage
  BY DEF MatchInv, PageOK, StaysOnItsPage, Decided, Ended
<1> QED
  BY <1>1, MatchInductive, PTL
=============================================================================
