------------------------ MODULE EngineSessionProofs -------------------------
(***************************************************************************)
(* What one referee gets from the scoring engine, for any configuration    *)
(* and any number of points and games.  The invariant adds the default     *)
(* values of a configuration, what a prompt says of the results, and how   *)
(* far the scores of a game without a result can be.                       *)
(***************************************************************************)
EXTENDS EngineSession, TLAPS, SequenceTheorems, FiniteSetTheorems

USE DEF Teams, Scores

\* The rules need at least one point, and a lead of at least one.
RulesAreSet == cfg.pointsToWin >= 1 /\ cfg.winBy >= 1

\* A prompt is about the state it came with: the last result is that of the
\* current game, and the results are those of a match that is over.
PromptsAnswer ==
  /\ prompt.gameOver => /\ state.status = "in_progress"
                        /\ b.games # <<>>
                        /\ LastGame(b).num = b.game
  /\ prompt.matchOver => IsMatchOver(cfg, b.games)

\* Where there is a cap, no team has reached it in a game without a result.
OpenBelowCap ==
  ~Recorded(b.game) /\ cfg.maxPoints > 0 =>
    \A t \in Teams : \/ b.score[t] < cfg.pointsToWin
                     \/ b.score[t] < cfg.maxPoints

OneResultEach ==
  \A i, j \in DOMAIN b.games : b.games[i].num = b.games[j].num => i = j

WinnersLead ==
  \A i \in DOMAIN b.games :
    b.games[i].score[b.games[i].winner]
      > b.games[i].score[Opponent(b.games[i].winner)]

SessionInv ==
  /\ TypeOK /\ RulesAreSet /\ GamesInOrder /\ PromptsAnswer /\ OpenBelowCap
  /\ careful => OneResultEach /\ WinnersLead

-----------------------------------------------------------------------------
(* The engine.                                                             *)

\* A configuration with its defaults is one that can be played to.
LEMMA ParsedRules ==
  ASSUME NEW c \in Config
  PROVE  /\ ParseScoringConfig(c) \in Config
         /\ ParseScoringConfig(c).pointsToWin >= 1
         /\ ParseScoringConfig(c).winBy >= 1
  <1> DEFINE x == DefaultTo(c.pointsToWin, 11)
             y == DefaultTo(c.winBy, 2)
             z == DefaultTo(c.gamesPerSet, 1)
  <1>1. x \in Int /\ y \in Int /\ z \in Int /\ x >= 1 /\ y >= 1
    BY DEF Config, DefaultTo
  <1>2. ParseScoringConfig(c) =
          [c EXCEPT !.pointsToWin = x, !.winBy = y, !.gamesPerSet = z]
    BY DEF ParseScoringConfig
  <1> HIDE DEF x, y, z
  <1> QED
    BY <1>1, <1>2 DEF Config

\* The fields of a state.
LEMMA StateFields ==
  ASSUME TypeOK
  PROVE  /\ cfg \in Config /\ state.status \in Statuses
         /\ b \in Board /\ b.score \in [Teams -> Nat] /\ b.game \in Nat
         /\ b.games \in Seq(GameResult) /\ Len(b.games) \in Nat
         /\ DOMAIN b.games = 1..Len(b.games)
         /\ \A i \in DOMAIN b.games :
              /\ b.games[i] \in GameResult /\ b.games[i].num \in Nat
              /\ b.games[i].winner \in Teams
              /\ b.games[i].score \in [Teams -> Nat]
         /\ b.games # <<>> => Len(b.games) \in DOMAIN b.games
  <1>1. state \in MatchState /\ b = state.board
    BY DEF TypeOK, b
  <1>2. b \in Board /\ state.status \in Statuses
    BY <1>1 DEF MatchState
  <1>3. b.score \in [Teams -> Nat] /\ b.game \in Nat
        /\ b.games \in Seq(GameResult)
    BY <1>2 DEF Board
  <1>4. /\ Len(b.games) \in Nat /\ DOMAIN b.games = 1..Len(b.games)
        /\ b.games # <<>> => Len(b.games) \in DOMAIN b.games
    BY <1>3, EmptySeq, LenProperties
  <1>5. \A i \in DOMAIN b.games : b.games[i] \in GameResult
    BY <1>3, <1>4, ElementOfSeq
  <1> QED
    BY <1>2, <1>3, <1>4, <1>5 DEF TypeOK, GameResult

\* Nobody has won a game: no team has the points and the lead or the cap.
LEMMA GameGoesOn ==
  ASSUME NEW c, NEW score, GameWinner(c, score) = 0
  PROVE  \A t \in Teams : ~IsGameOver(c, score[t], score[Opponent(t)])
  BY DEF GameWinner, Opponent

\* Who has won a game meets its rule.
LEMMA WinnerMeetsRule ==
  ASSUME NEW c, NEW score, GameWinner(c, score) # 0
  PROVE  /\ GameWinner(c, score) \in Teams
         /\ IsGameOver(c, score[GameWinner(c, score)],
                          score[Opponent(GameWinner(c, score))])
  BY DEF GameWinner, Opponent

\* One more result at the end of the list.
LEMMA ResultAppended ==
  ASSUME NEW list \in Seq(GameResult), NEW g \in GameResult
  PROVE  /\ Append(list, g) \in Seq(GameResult)
         /\ DOMAIN Append(list, g) = DOMAIN list \cup {Len(list) + 1}
         /\ \A i \in DOMAIN list : Append(list, g)[i] = list[i]
         /\ Append(list, g)[Len(list) + 1] = g
         /\ Len(Append(list, g)) = Len(list) + 1
         /\ Len(list) + 1 \notin DOMAIN list
  <1>1. DOMAIN list = 1..Len(list) /\ Len(list) \in Nat
    BY LenProperties
  <1>2. /\ Append(list, g) \in Seq(GameResult)
        /\ Len(Append(list, g)) = Len(list) + 1
        /\ \A i \in 1..Len(list) : Append(list, g)[i] = list[i]
        /\ Append(list, g)[Len(list) + 1] = g
    BY AppendProperties
  <1>3. DOMAIN Append(list, g) = 1..Len(list) + 1
    BY <1>2, LenProperties
  <1> QED
    BY <1>1, <1>2, <1>3

-----------------------------------------------------------------------------
(* What the actions change.                                                *)

\* A point: one more for the team, and a result when that wins the game
\* (processPoint, scoring.go).
LEMMA PointChanges ==
  ASSUME TypeOK, NEW t \in Teams, DoPoint(t)
  PROVE  /\ state' \in MatchState /\ cfg' = cfg
         /\ state.status = "in_progress" /\ state'.status = "in_progress"
         /\ b'.game = b.game
         /\ b'.score = [b.score EXCEPT ![t] = @ + 1]
         /\ \/ /\ GameWinner(cfg, b'.score) = 0
               /\ b'.games = b.games
               /\ ~prompt'.gameOver /\ ~prompt'.matchOver
            \/ /\ GameWinner(cfg, b'.score) # 0
               /\ b'.games = Append(b.games,
                               [num |-> b.game, score |-> b'.score,
                                winner |-> GameWinner(cfg, b'.score)])
               /\ prompt'.gameOver
               /\ prompt'.matchOver = IsMatchOver(cfg, b'.games)
         /\ prompt' \in Prompt
         /\ careful' = (careful /\ ~Recorded(b.game))
  <1> DEFINE r == Rallied(cfg, b, t)
             w == GameWinner(cfg, r.score)
             g == [num |-> b.game, score |-> r.score, winner |-> w]
  <1>0. /\ state \in MatchState /\ b = state.board /\ b' = state'.board
        /\ cfg \in Config
    BY DEF TypeOK, b
  <1>1. /\ b \in Board /\ b.score \in [Teams -> Nat]
        /\ b.game \in Nat /\ b.games \in Seq(GameResult)
    BY StateFields
  <1>2. /\ r \in Board
        /\ r.score = [b.score EXCEPT ![t] = @ + 1]
        /\ r.game = b.game /\ r.games = b.games
    <2> DEFINE x == [b.score EXCEPT ![t] = @ + 1]
               y == IF cfg.rally THEN t ELSE b.serving
               z == IF cfg.rally THEN 1 ELSE b.server
    <2>1. x \in [Teams -> Nat] /\ y \in 0..2 /\ z \in 0..2
      BY <1>1 DEF Board
    <2>2. r = [b EXCEPT !.score = x, !.serving = y, !.server = z]
      BY DEF Rallied
    <2> HIDE DEF x, y, z, r
    <2> QED
      BY <1>1, <2>1, <2>2 DEF Board, x
  <1>3. PICK s \in Point(cfg, state, t) :
          state' = s /\ prompt' = PointPrompt(s)
    BY DEF DoPoint
  <1>4. /\ state.status = "in_progress"
        /\ s = [state EXCEPT !.board = RecordGame(cfg, r)]
    BY <1>0, <1>3 DEF Point
  <1> HIDE DEF r
  <1>5. w \in 0..2
    BY DEF GameWinner
  <1>6. RecordGame(cfg, r) =
          IF w = 0 THEN r ELSE [r EXCEPT !.games = Append(b.games, g)]
    BY <1>2 DEF RecordGame
  <1>7. w # 0 => g \in GameResult
    BY <1>1, <1>2, <1>5 DEF GameResult, Board
  <1> HIDE DEF w, g
  <1>8. w # 0 => Append(b.games, g) \in Seq(GameResult)
    BY <1>1, <1>7, ResultAppended
  <1> DEFINE done == RecordGame(cfg, r)
  <1>9. /\ done \in Board
        /\ done.score = r.score /\ done.game = b.game
        /\ done.games = IF w = 0 THEN b.games ELSE Append(b.games, g)
    BY <1>1, <1>2, <1>6, <1>8 DEF Board
  <1> HIDE DEF done
  <1>10. state' = [state EXCEPT !.board = done]
    BY <1>3, <1>4 DEF done
  <1>11. state' \in MatchState /\ b' = done /\ state'.status = state.status
    BY <1>0, <1>9, <1>10 DEF MatchState
  <1>12. /\ prompt'.gameOver = (w # 0)
         /\ prompt'.matchOver = (w # 0 /\ IsMatchOver(cfg, b'.games))
         /\ prompt' \in Prompt
    <2> DEFINE over == IsMatchOver(cfg, b'.games)
               change == IsEndChange(cfg, s.board.score, s.board.game)
    <2>1. s.board = b' /\ s.board.score = r.score
      BY <1>0, <1>3, <1>9, <1>11
    <2>2. prompt' = [gameOver |-> w # 0, matchOver |-> w # 0 /\ over,
                     endChange |-> change]
      BY <1>3, <2>1 DEF PointPrompt, w
    <2>3. over \in BOOLEAN /\ change \in BOOLEAN /\ (w # 0) \in BOOLEAN
      BY DEF IsMatchOver, IsEndChange
    <2> HIDE DEF over, change
    <2>4. prompt' \in Prompt
      BY <2>2, <2>3, Zenon DEF Prompt
    <2> QED
      BY <2>2, <2>4 DEF over
  <1>13. w = GameWinner(cfg, b'.score) /\ b'.score = r.score
    BY <1>9, <1>11 DEF w
  <1>14. cfg' = cfg /\ careful' = (careful /\ ~Recorded(b.game))
    BY DEF DoPoint
  <1>15. CASE w = 0
    BY <1>2, <1>4, <1>9, <1>11, <1>12, <1>13, <1>14, <1>15
  <1>16. CASE w # 0
    <2>1. prompt'.gameOver /\ prompt'.matchOver = IsMatchOver(cfg, b'.games)
      <3>1. (w # 0) = TRUE
        BY <1>16
      <3>2. IsMatchOver(cfg, b'.games) \in BOOLEAN
        BY DEF IsMatchOver
      <3> QED
        BY <1>12, <3>1, <3>2, Zenon
    <2>2. /\ GameWinner(cfg, b'.score) # 0
          /\ b'.games = Append(b.games,
                          [num |-> b.game, score |-> b'.score,
                           winner |-> GameWinner(cfg, b'.score)])
      BY <1>9, <1>11, <1>13, <1>16 DEF g
    <2>3. /\ state' \in MatchState /\ cfg' = cfg
          /\ state.status = "in_progress" /\ state'.status = "in_progress"
          /\ b'.game = b.game
          /\ b'.score = [b.score EXCEPT ![t] = @ + 1]
          /\ prompt' \in Prompt
          /\ careful' = (careful /\ ~Recorded(b.game))
      BY <1>2, <1>4, <1>9, <1>11, <1>12, <1>13, <1>14
    <2> QED
      BY <2>1, <2>2, <2>3, Zenon
  <1> QED
    BY <1>15, <1>16

\* A point removed: the results stay (processPointRemoved, scoring.go).
LEMMA RemovalChanges ==
  ASSUME TypeOK, NEW t \in Teams, DoRemovePoint(t)
  PROVE  /\ state' \in MatchState /\ cfg' = cfg /\ prompt' = NoPrompt
         /\ b'.game = b.game /\ b'.games = b.games
         /\ \A u \in Teams : b'.score[u] \in Nat /\ b'.score[u] <= b.score[u]
         /\ careful' = (careful /\ ~Recorded(b.game))
  <1>0. /\ state \in MatchState /\ b = state.board /\ b' = state'.board
    BY DEF TypeOK, b
  <1>1. b \in Board /\ b.score \in [Teams -> Nat]
    BY StateFields
  <1>2. /\ b.score[t] > 0
        /\ state' = [state EXCEPT !.board.score[t] = @ - 1]
    BY <1>0 DEF DoRemovePoint, RemovePoint
  <1> DEFINE x == [b.score EXCEPT ![t] = @ - 1]
  <1>3. x \in [Teams -> Nat] /\ \A u \in Teams : x[u] <= b.score[u]
    BY <1>1, <1>2
  <1>4. state' = [state EXCEPT !.board = [b EXCEPT !.score = x]]
    BY <1>0, <1>1, <1>2 DEF MatchState, Board
  <1> HIDE DEF x
  <1>5. [b EXCEPT !.score = x] \in Board
    BY <1>1, <1>3 DEF Board
  <1>6. state' \in MatchState /\ b' = [b EXCEPT !.score = x]
    BY <1>0, <1>4, <1>5 DEF MatchState
  <1> QED
    BY <1>1, <1>3, <1>6 DEF DoRemovePoint, Board

\* A game confirmed: the next one starts from zero, and it was the game of the
\* last result (processConfirmGameOver, scoring.go).
LEMMA ConfirmChanges ==
  ASSUME TypeOK, NEW s \in ConfirmGameOver(state)
  PROVE  /\ s \in MatchState
         /\ b.games # <<>> /\ LastGame(b).num = b.game
         /\ s.board.game = b.game + 1 /\ s.board.games = b.games
         /\ s.board.score = [t \in Teams |-> 0]
  <1>0. state \in MatchState /\ b = state.board
    BY DEF TypeOK, b
  <1>1. /\ b \in Board /\ b.game \in Nat
    BY StateFields
  <1>2. /\ b.games # <<>> /\ LastGame(b).num = b.game
        /\ s = [state EXCEPT !.board = NextGame(b)]
    BY <1>0 DEF ConfirmGameOver
  <1>3. LastGame(b).winner \in Teams
    BY <1>2, StateFields DEF LastGame
  <1> DEFINE x == Opponent(LastGame(b).winner)
             z == [t \in Teams |-> 0]
             n == b.game + 1
             y == 1
  <1>4. x \in 0..2 /\ y \in 0..2 /\ z \in [Teams -> Nat] /\ n \in Nat
    BY <1>1, <1>3 DEF Opponent
  <1>5. NextGame(b) = [b EXCEPT !.score = z, !.game = n, !.serving = x,
                                !.server = y]
    BY DEF NextGame
  <1> HIDE DEF x, y, z
  <1>6. /\ NextGame(b) \in Board
        /\ NextGame(b).game = n /\ NextGame(b).games = b.games
        /\ NextGame(b).score = z
    BY <1>1, <1>4, <1>5 DEF Board
  <1>7. s \in MatchState /\ s.board = NextGame(b)
    BY <1>0, <1>2, <1>6 DEF MatchState
  <1> QED
    BY <1>2, <1>6, <1>7 DEF z

\* A side-out changes who serves, and nothing else
\* (processSideOut, scoring.go).
LEMMA SideOutChanges ==
  ASSUME TypeOK, NEW s \in SideOut(state)
  PROVE  /\ s \in MatchState
         /\ s.board.game = b.game /\ s.board.games = b.games
         /\ s.board.score = b.score
  <1>0. state \in MatchState /\ b = state.board
    BY DEF TypeOK, b
  <1>1. b \in Board
    BY StateFields
  <1> DEFINE x == IF b.server = 1 \/ b.serving # 1
                  THEN IF b.server = 1 THEN b.serving ELSE 1
                  ELSE 2
             y == IF b.server = 1 THEN 2 ELSE 1
  <1>2. x \in 0..2 /\ y \in 0..2
    BY <1>1 DEF Board
  <1>3. ServedOut(b) = [b EXCEPT !.serving = x, !.server = y]
    BY <1>1 DEF ServedOut, Board
  <1>4. s = [state EXCEPT !.board = ServedOut(b)]
    BY <1>0 DEF SideOut
  <1> HIDE DEF x, y
  <1>5. /\ ServedOut(b) \in Board /\ ServedOut(b).game = b.game
        /\ ServedOut(b).games = b.games /\ ServedOut(b).score = b.score
    BY <1>1, <1>2, <1>3 DEF Board
  <1> QED
    BY <1>0, <1>4, <1>5 DEF MatchState

\* The other actions change the status at most.
LEMMA StatusChanges ==
  ASSUME TypeOK,
         NEW s \in ConfirmMatchOver(state) \cup Timeout(state)
                     \cup Pause(state) \cup Resume(state) \cup Forfeit(state)
  PROVE  s \in MatchState /\ s.board = b
  BY DEF TypeOK, b, ConfirmMatchOver, Timeout, Pause, Resume, Forfeit,
         Restatus, MatchState, Statuses

-----------------------------------------------------------------------------
(* The invariant.                                                          *)

\* It holds when the match starts.
LEMMA SessionStarts == Init => SessionInv
  <1> SUFFICES ASSUME Init PROVE SessionInv
    OBVIOUS
  <1>1. PICK c \in Configs : cfg = ParseScoringConfig(c)
    BY DEF Init
  <1>2. cfg \in Config /\ RulesAreSet
    BY <1>1, ConfigsAssumption, ParsedRules DEF RulesAreSet
  <1>3. PICK first \in Teams :
          state = [board |-> NewBoard(first), status |-> "in_progress"]
    BY DEF Init
  <1>4. /\ b = NewBoard(first) /\ b.games = <<>> /\ b.game = 1
        /\ \A t \in Teams : b.score[t] = 0
    BY <1>3 DEF b, NewBoard
  <1>5. NewBoard(first) \in Board
    BY DEF NewBoard, Board
  <1>6. TypeOK
    BY <1>2, <1>3, <1>5 DEF Init, TypeOK, MatchState, Statuses, NoPrompt,
                            Prompt
  <1>7. DOMAIN b.games = {}
    BY <1>4
  <1>8. GamesInOrder
    BY <1>4, <1>7 DEF GamesInOrder
  <1>9. PromptsAnswer
    BY DEF Init, NoPrompt, PromptsAnswer
  <1>10. OpenBelowCap
    BY <1>2, <1>4 DEF OpenBelowCap, RulesAreSet, Config
  <1>11. OneResultEach /\ WinnersLead
    BY <1>7 DEF OneResultEach, WinnersLead
  <1> QED
    BY <1>2, <1>6, <1>8, <1>9, <1>10, <1>11 DEF SessionInv

\* A step that leaves the results and the game alone keeps their order.
LEMMA SameResults ==
  ASSUME b'.games = b.games, b'.game = b.game
  PROVE  /\ GamesInOrder => GamesInOrder'
         /\ OneResultEach => OneResultEach'
         /\ WinnersLead => WinnersLead'
         /\ Recorded(b.game)' = Recorded(b.game)
  <1>1. Recorded(b.game)' = Recorded(b.game)
    BY DEF Recorded
  <1>2. \A n : (\E i \in DOMAIN b'.games : b'.games[i].num = n)
                 <=> Recorded(n)
    BY DEF Recorded
  <1>3. GamesInOrder => GamesInOrder'
    BY <1>2 DEF GamesInOrder, Recorded
  <1>4. OneResultEach => OneResultEach'
    BY DEF OneResultEach
  <1>5. WinnersLead => WinnersLead'
    BY DEF WinnersLead
  <1> QED
    BY <1>1, <1>3, <1>4, <1>5

\* A point keeps it: a result is filed under the current game, its winner leads
\* also at the cap, and a careful referee has no result for that game yet.
LEMMA PointKeeps ==
  ASSUME SessionInv, NEW t \in Teams, DoPoint(t)
  PROVE  SessionInv'
  <1> DEFINE w == GameWinner(cfg, b'.score)
             g == [num |-> b.game, score |-> b'.score, winner |-> w]
             last == Len(b.games) + 1
  <1>1. /\ TypeOK /\ RulesAreSet /\ GamesInOrder /\ OpenBelowCap
    BY DEF SessionInv
  <1>2. /\ state' \in MatchState /\ cfg' = cfg /\ prompt' \in Prompt
        /\ state'.status = "in_progress" /\ b'.game = b.game
        /\ b'.score = [b.score EXCEPT ![t] = @ + 1]
        /\ careful' = (careful /\ ~Recorded(b.game))
    BY <1>1, PointChanges
  <1>3. \/ /\ w = 0 /\ b'.games = b.games
           /\ ~prompt'.gameOver /\ ~prompt'.matchOver
        \/ /\ w # 0 /\ b'.games = Append(b.games, g)
           /\ prompt'.gameOver
           /\ prompt'.matchOver = IsMatchOver(cfg, b'.games)
    BY <1>1, PointChanges
  <1>4. /\ cfg \in Config /\ b.score \in [Teams -> Nat] /\ b.game \in Nat
        /\ b.games \in Seq(GameResult) /\ Len(b.games) \in Nat
        /\ \A i \in DOMAIN b.games : b.games[i].num \in Nat
    BY <1>1, StateFields
  <1>5. b'.score \in [Teams -> Nat]
    BY <1>2, <1>4
  <1>6. TypeOK'
    <2>1. careful' \in BOOLEAN
      BY <1>1, <1>2 DEF TypeOK, Recorded
    <2> QED
      BY <1>1, <1>2, <2>1 DEF TypeOK
  <1>7. RulesAreSet'
    BY <1>1, <1>2 DEF RulesAreSet
  <1>8. CASE w = 0
    <2>1. b'.games = b.games /\ ~prompt'.gameOver /\ ~prompt'.matchOver
      BY <1>3, <1>8
    <2>2. GamesInOrder'
      BY <1>1, <1>2, <2>1, SameResults
    <2>3. PromptsAnswer'
      BY <2>1 DEF PromptsAnswer
    <2>4. OpenBelowCap'
      <3> SUFFICES ASSUME cfg.maxPoints > 0, NEW u \in Teams
                   PROVE  \/ b'.score[u] < cfg.pointsToWin
                          \/ b'.score[u] < cfg.maxPoints
        BY <1>2 DEF OpenBelowCap
      <3>1. ~IsGameOver(cfg, b'.score[u], b'.score[Opponent(u)])
        BY <1>8, GameGoesOn
      <3>2. b'.score[u] \in Nat /\ cfg.pointsToWin \in Int
            /\ cfg.maxPoints \in Int
        BY <1>4, <1>5 DEF Config
      <3> QED
        BY <3>1, <3>2 DEF IsGameOver
    <2>5. careful' => OneResultEach' /\ WinnersLead'
      BY <1>2, <2>1, SameResults DEF SessionInv
    <2> QED
      BY <1>6, <1>7, <2>2, <2>3, <2>4, <2>5 DEF SessionInv
  <1>9. CASE w # 0
    <2>1. /\ b'.games = Append(b.games, g)
          /\ prompt'.matchOver = IsMatchOver(cfg, b'.games)
      BY <1>3, <1>9
    <2>2. w \in Teams /\ IsGameOver(cfg, b'.score[w], b'.score[Opponent(w)])
      BY <1>9, WinnerMeetsRule
    <2> HIDE DEF w
    <2>3. g \in GameResult
      BY <1>4, <1>5, <2>2 DEF GameResult
    <2>4. /\ DOMAIN b'.games = DOMAIN b.games \cup {last}
          /\ \A i \in DOMAIN b.games : b'.games[i] = b.games[i]
          /\ b'.games[last] = g /\ Len(b'.games) = last
          /\ last \notin DOMAIN b.games
      BY <1>4, <2>1, <2>3, ResultAppended
    <2>5. DOMAIN b.games = 1..Len(b.games)
      BY <1>4, LenProperties
    <2>6. b'.games[last].num = b.game
      BY <2>4
    <2>7. \A n : Recorded(n) =>
            \E i \in DOMAIN b'.games : b'.games[i].num = n
      BY <2>4 DEF Recorded
    <2>8. GamesInOrder'
      <3>1. ASSUME NEW i \in DOMAIN b'.games
            PROVE  b'.games[i].num \in Nat /\ b'.games[i].num <= b.game
        <4>1. CASE i = last
          BY <1>4, <2>6, <4>1
        <4>2. CASE i # last
          BY <1>1, <1>4, <2>4, <4>2 DEF GamesInOrder
        <4> QED
          BY <4>1, <4>2
      <3>2. ASSUME NEW i \in DOMAIN b'.games, NEW j \in DOMAIN b'.games, i < j
            PROVE  b'.games[i].num <= b'.games[j].num
        <4>1. CASE j = last
          BY <2>6, <3>1, <4>1
        <4>2. CASE j # last
          <5>1. i \in DOMAIN b.games /\ j \in DOMAIN b.games
            BY <1>4, <2>4, <2>5, <3>2, <4>2
          <5> QED
            BY <1>1, <2>4, <3>2, <5>1 DEF GamesInOrder
        <4> QED
          BY <4>1, <4>2
      <3>3. \A n \in 1..(b'.game - 1) : Recorded(n)'
        BY <1>1, <1>2, <2>7 DEF GamesInOrder, Recorded
      <3> QED
        BY <1>2, <3>1, <3>2, <3>3 DEF GamesInOrder
    <2>9. PromptsAnswer'
      <3>1. b'.games # <<>>
        BY <2>1, <2>3, <1>4, AppendProperties
      <3>2. LastGame(b') = g
        BY <2>4 DEF LastGame
      <3>3. LastGame(b)' = LastGame(b')
        BY DEF LastGame
      <3>4. prompt'.matchOver => IsMatchOver(cfg', b'.games)
        BY <1>2, <2>1
      <3> QED
        BY <1>2, <3>1, <3>2, <3>3, <3>4 DEF PromptsAnswer
    <2>10. OpenBelowCap'
      <3>1. Recorded(b.game)'
        BY <1>2, <2>4, <2>6 DEF Recorded
      <3> QED
        BY <3>1 DEF OpenBelowCap
    <2>11. ASSUME careful' PROVE OneResultEach' /\ WinnersLead'
      <3>1. careful /\ ~Recorded(b.game) /\ OneResultEach /\ WinnersLead
        BY <1>2, <2>11 DEF SessionInv
      <3>2. OneResultEach'
        <4>1. \A i \in DOMAIN b.games : b.games[i].num # b.game
          BY <3>1 DEF Recorded
        <4> QED
          BY <2>4, <2>6, <3>1, <4>1 DEF OneResultEach
      <3>3. b'.score[w] > b'.score[Opponent(w)]
        <4>1. Opponent(w) \in Teams /\ Opponent(w) # w
              /\ \A u \in Teams : u = w \/ u = Opponent(w)
          BY <2>2 DEF Opponent
        <4>2. \A u \in Teams : /\ b.score[u] \in Nat /\ b'.score[u] \in Nat
                               /\ b'.score[u] = IF u = t THEN b.score[u] + 1
                                                ELSE b.score[u]
          BY <1>2, <1>4
        <4>3. /\ cfg.pointsToWin \in Int /\ cfg.maxPoints \in Int
              /\ cfg.winBy \in Int /\ cfg.winBy >= 1
          BY <1>1, <1>4 DEF Config, RulesAreSet
        <4>4. CASE b'.score[w] - b'.score[Opponent(w)] >= cfg.winBy
          BY <2>2, <4>1, <4>2, <4>3, <4>4
        <4>5. CASE /\ cfg.maxPoints > 0 /\ b'.score[w] >= cfg.maxPoints
                   /\ b'.score[w] >= cfg.pointsToWin
          <5>1. \A u \in Teams : \/ b.score[u] < cfg.pointsToWin
                                 \/ b.score[u] < cfg.maxPoints
            BY <1>1, <3>1, <4>5 DEF OpenBelowCap
          <5>2. w = t
            BY <2>2, <4>2, <4>3, <4>5, <5>1
          <5>3. b'.score[Opponent(w)] = b.score[Opponent(w)]
            BY <4>1, <4>2, <5>2
          <5> QED
            BY <2>2, <4>1, <4>2, <4>3, <4>5, <5>1, <5>3
        <4> QED
          BY <2>2, <4>4, <4>5 DEF IsGameOver
      <3>4. WinnersLead'
        <4> SUFFICES ASSUME NEW i \in DOMAIN b'.games
                     PROVE  b'.games[i].score[b'.games[i].winner]
                              > b'.games[i].score[
                                  Opponent(b'.games[i].winner)]
          BY DEF WinnersLead
        <4>1. CASE i = last
          BY <2>4, <3>3, <4>1
        <4>2. CASE i # last
          BY <2>4, <3>1, <4>2 DEF WinnersLead
        <4> QED
          BY <4>1, <4>2
      <3> QED
        BY <3>2, <3>4
    <2> QED
      BY <1>6, <1>7, <2>8, <2>9, <2>10, <2>11 DEF SessionInv
  <1> QED
    BY <1>8, <1>9

\* A step without a prompt that leaves the results and the game alone, and
\* lets no score grow, keeps it.
LEMMA QuietKeeps ==
  ASSUME SessionInv, state' \in MatchState, cfg' = cfg, prompt' = NoPrompt,
         b'.game = b.game, b'.games = b.games,
         \A u \in Teams : b'.score[u] \in Nat /\ b'.score[u] <= b.score[u],
         careful' \in BOOLEAN, careful' => careful
  PROVE  SessionInv'
  <1>1. TypeOK'
    BY DEF SessionInv, TypeOK, NoPrompt, Prompt
  <1>2. RulesAreSet'
    BY DEF SessionInv, RulesAreSet
  <1>3. PromptsAnswer'
    BY DEF NoPrompt, PromptsAnswer
  <1>4. GamesInOrder' /\ (careful' => OneResultEach' /\ WinnersLead')
    BY SameResults DEF SessionInv
  <1>5. OpenBelowCap'
    <2>1. Recorded(b.game)' = Recorded(b.game)
      BY SameResults
    <2>2. /\ cfg.pointsToWin \in Int /\ cfg.maxPoints \in Int
          /\ b.score \in [Teams -> Nat]
      BY StateFields DEF SessionInv, Config
    <2> SUFFICES ASSUME ~Recorded(b.game), cfg.maxPoints > 0,
                        NEW u \in Teams
                 PROVE  \/ b'.score[u] < cfg.pointsToWin
                        \/ b'.score[u] < cfg.maxPoints
      BY <2>1 DEF OpenBelowCap
    <2>3. \/ b.score[u] < cfg.pointsToWin
          \/ b.score[u] < cfg.maxPoints
      BY DEF SessionInv, OpenBelowCap
    <2> QED
      BY <2>2, <2>3
  <1> QED
    BY <1>1, <1>2, <1>3, <1>4, <1>5 DEF SessionInv

\* Confirming a game keeps it: the game left behind has a result, and the next
\* one starts below any cap.
LEMMA ConfirmKeeps ==
  ASSUME SessionInv, Quiet(ConfirmGameOver(state))
  PROVE  SessionInv'
  <1>1. /\ state' \in ConfirmGameOver(state) /\ prompt' = NoPrompt
        /\ cfg' = cfg /\ careful' = careful /\ b' = state'.board
    BY DEF Quiet, b
  <1>2. /\ TypeOK /\ GamesInOrder
    BY DEF SessionInv
  <1>3. /\ state' \in MatchState
        /\ b.games # <<>> /\ LastGame(b).num = b.game
        /\ b'.game = b.game + 1 /\ b'.games = b.games
        /\ b'.score = [u \in Teams |-> 0]
    BY <1>1, <1>2, ConfirmChanges
  <1>4. /\ b.game \in Nat /\ Len(b.games) \in DOMAIN b.games
        /\ \A i \in DOMAIN b.games : b.games[i].num \in Nat
    BY <1>2, <1>3, StateFields
  <1>5. TypeOK'
    BY <1>1, <1>2, <1>3 DEF TypeOK, NoPrompt, Prompt
  <1>6. RulesAreSet'
    BY <1>1 DEF SessionInv, RulesAreSet
  <1>7. PromptsAnswer'
    BY <1>1 DEF NoPrompt, PromptsAnswer
  <1>8. GamesInOrder'
    <2>1. Recorded(b.game)
      BY <1>3, <1>4 DEF LastGame, Recorded
    <2>2. \A n : Recorded(n)' <=> Recorded(n)
      BY <1>3 DEF Recorded
    <2>3. \A n \in 1..(b'.game - 1) : Recorded(n)
      <3> SUFFICES ASSUME NEW n \in 1..(b'.game - 1) PROVE Recorded(n)
        OBVIOUS
      <3>1. n = b.game \/ n \in 1..(b.game - 1)
        BY <1>3, <1>4
      <3> QED
        BY <1>2, <2>1, <3>1 DEF GamesInOrder
    <2>4. \A i \in DOMAIN b.games : b.games[i].num <= b.game + 1
      BY <1>2, <1>4 DEF GamesInOrder
    <2> QED
      BY <1>2, <1>3, <2>2, <2>3, <2>4 DEF GamesInOrder
  <1>9. OpenBelowCap'
    <2>1. cfg.pointsToWin \in Int /\ cfg.pointsToWin >= 1
      BY <1>2, StateFields DEF SessionInv, RulesAreSet, Config
    <2> QED
      BY <1>1, <1>3, <2>1 DEF OpenBelowCap
  <1>10. careful' => OneResultEach' /\ WinnersLead'
    BY <1>1, <1>3 DEF SessionInv, OneResultEach, WinnersLead
  <1> QED
    BY <1>5, <1>6, <1>7, <1>8, <1>9, <1>10 DEF SessionInv

\* Every step of the session keeps it.
LEMMA SessionGoesOn == SessionInv /\ [Next]_vars => SessionInv'
  <1> SUFFICES ASSUME SessionInv, [Next]_vars PROVE SessionInv'
    OBVIOUS
  <1>1. TypeOK /\ b' = state'.board
    BY DEF SessionInv, b
  <1>2. \A u \in Teams : b.score[u] \in Nat /\ b.score[u] <= b.score[u]
    BY <1>1, StateFields
  <1>3. ASSUME NEW t \in Teams, DoPoint(t) PROVE SessionInv'
    BY <1>3, PointKeeps
  <1>4. ASSUME NEW t \in Teams, DoRemovePoint(t) PROVE SessionInv'
    <2>1. careful' \in BOOLEAN /\ (careful' => careful)
      BY <1>1, <1>4 DEF TypeOK, DoRemovePoint, Recorded
    <2> QED
      BY <1>1, <1>4, <2>1, RemovalChanges, QuietKeeps
  <1>5. CASE Quiet(ConfirmGameOver(state))
    BY <1>5, ConfirmKeeps
  <1>6. CASE Quiet(SideOut(state))
    <2>1. /\ state' \in SideOut(state) /\ prompt' = NoPrompt
          /\ cfg' = cfg /\ careful' = careful
      BY <1>6 DEF Quiet
    <2>2. careful \in BOOLEAN
      BY <1>1 DEF TypeOK
    <2> QED
      BY <1>1, <1>2, <2>1, <2>2, SideOutChanges, QuietKeeps
  <1>7. CASE \/ Quiet(ConfirmMatchOver(state)) \/ Quiet(Timeout(state))
             \/ Quiet(Pause(state)) \/ Quiet(Resume(state))
             \/ Quiet(Forfeit(state))
    <2>1. /\ state' \in ConfirmMatchOver(state) \cup Timeout(state)
                          \cup Pause(state) \cup Resume(state)
                          \cup Forfeit(state)
          /\ prompt' = NoPrompt /\ cfg' = cfg /\ careful' = careful
      BY <1>7 DEF Quiet
    <2>2. careful \in BOOLEAN
      BY <1>1 DEF TypeOK
    <2> QED
      BY <1>1, <1>2, <2>1, <2>2, StatusChanges, QuietKeeps
  <1>8. CASE UNCHANGED vars
    BY <1>8 DEF vars, b, SessionInv, TypeOK, RulesAreSet, GamesInOrder,
                Recorded, PromptsAnswer, OpenBelowCap, OneResultEach,
                WinnersLead
  <1> QED
    BY <1>3, <1>4, <1>5, <1>6, <1>7, <1>8 DEF Next

\* As many different games are won by a team as it has results that it won.
LEMMA GamesAreResults ==
  ASSUME TypeOK, OneResultEach, NEW t \in Teams
  PROVE  Cardinality(GamesWonBy(t)) = GamesWon(b.games, t)
  <1> DEFINE S == {i \in DOMAIN b.games : b.games[i].winner = t}
             f == [i \in S |-> b.games[i].num]
  <1>1. DOMAIN b.games = 1..Len(b.games) /\ Len(b.games) \in Nat
    BY StateFields
  <1>2. IsFiniteSet(S)
    <2>1. IsFiniteSet(1..Len(b.games))
      BY <1>1, FS_Interval
    <2> QED
      BY <1>1, <2>1, FS_Subset
  <1>3. GamesWonBy(t) = {f[i] : i \in S}
    BY DEF GamesWonBy
  <1>4. f \in Bijection(S, GamesWonBy(t))
    <2>1. f \in [S -> GamesWonBy(t)]
      BY <1>3
    <2>2. \A i, j \in S : f[i] = f[j] => i = j
      BY DEF OneResultEach
    <2>3. \A n \in GamesWonBy(t) : \E i \in S : f[i] = n
      BY <1>3
    <2> HIDE DEF f, S
    <2>4. f \in Injection(S, GamesWonBy(t))
      BY <2>1, <2>2 DEF Injection, IsInjective
    <2>5. f \in Surjection(S, GamesWonBy(t))
      BY <2>1, <2>3 DEF Surjection
    <2> QED
      BY <2>4, <2>5 DEF Bijection
  <1> HIDE DEF f
  <1>5. ExistsBijection(S, GamesWonBy(t))
    BY <1>4 DEF ExistsBijection
  <1>6. Cardinality(GamesWonBy(t)) = Cardinality(S)
    BY <1>2, <1>5, FS_Bijection
  <1> QED
    BY <1>6 DEF GamesWon

-----------------------------------------------------------------------------
(* What a referee can rely on.                                             *)

LEMMA SessionInvariant == Spec => []SessionInv
  BY SessionStarts, SessionGoesOn, PTL DEF Spec

\* The engine never returns a state that is not one, whatever the referee does.
THEOREM SessionTypeCorrect == Spec => []TypeOK
  <1>1. SessionInv => TypeOK
    BY DEF SessionInv
  <1> QED
    BY <1>1, SessionInvariant, PTL

\* The results are in the order of the games, and no game is skipped, whatever
\* prompts the referee dismisses and whatever points he takes back.
THEOREM ResultsStayInOrder == Spec => []GamesInOrder
  <1>1. SessionInv => GamesInOrder
    BY DEF SessionInv
  <1> QED
    BY <1>1, SessionInvariant, PTL

\* A prompt that a game is over can be confirmed at once.
THEOREM PromptsCanBeConfirmed == Spec => []PromptIsConfirmable
  <1>1. SessionInv => PromptIsConfirmable
    <2> SUFFICES ASSUME SessionInv, prompt.gameOver
                 PROVE  \E s \in ConfirmGameOver(state) :
                          s.board.game = b.game + 1
      BY DEF PromptIsConfirmable
    <2>1. /\ TypeOK /\ state.status = "in_progress" /\ state.board = b
          /\ b.games # <<>> /\ LastGame(b).num = b.game
      BY DEF SessionInv, PromptsAnswer, b
    <2>2. PICK s \in ConfirmGameOver(state) : TRUE
      BY <2>1 DEF ConfirmGameOver
    <2> QED
      BY <2>1, <2>2, ConfirmChanges
  <1> QED
    BY <1>1, SessionInvariant, PTL

\* A careful referee gets one result for each game, a winner that leads, and a
\* match that is over only when a team has won the games that it needs.
THEOREM CarefulRefereeIsServed == Spec => []CarefulMatchIsSound
  <1>1. SessionInv => CarefulMatchIsSound
    <2> SUFFICES ASSUME SessionInv, careful PROVE CarefulMatchIsSound
      BY DEF CarefulMatchIsSound
    <2>1. TypeOK /\ OneResultEach /\ WinnersLead
      BY DEF SessionInv
    <2>2. ASSUME prompt.matchOver
          PROVE  \E t \in Teams :
                   Cardinality(GamesWonBy(t)) >= GamesToWin(cfg)
      <3>1. PICK t \in Teams : GamesWon(b.games, t) >= GamesToWin(cfg)
        BY <2>2 DEF SessionInv, PromptsAnswer, IsMatchOver
      <3> QED
        BY <2>1, <3>1, GamesAreResults
    <2> QED
      BY <2>1, <2>2 DEF CarefulMatchIsSound, OneResultEach, WinnersLead
  <1> QED
    BY <1>1, SessionInvariant, PTL
=============================================================================
