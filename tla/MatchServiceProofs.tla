------------------------- MODULE MatchServiceProofs -------------------------
(***************************************************************************)
(* Proofs about the match service, for any number of clients, any set of   *)
(* calls, configurations and corrections, and a log of any length.  First  *)
(* the types, the score, the timers and the games; then what overlapping   *)
(* requests can do to a match: the log explains the board and backs the    *)
(* score; a request that is not stale is an atomic operation; one client   *)
(* alone gets the atomic match; and what the atomic match guarantees.      *)
(***************************************************************************)
EXTENDS MatchService, FiniteSetTheorems, TLAPS

USE DEF Teams, Scores

-----------------------------------------------------------------------------
(* The engine and the row.                                                 *)

\* ParseScoringConfig yields a configuration.
LEMMA ParsedType ==
  ASSUME NEW c \in Config
  PROVE  ParseScoringConfig(c) \in Config
  <1> DEFINE x == DefaultTo(c.pointsToWin, 11)
             y == DefaultTo(c.winBy, 2)
             z == DefaultTo(c.gamesPerSet, 1)
  <1>1. x \in Int /\ y \in Int /\ z \in Int
    BY DEF Config, DefaultTo
  <1>2. ParseScoringConfig(c) =
          [c EXCEPT !.pointsToWin = x, !.winBy = y, !.gamesPerSet = z]
    BY DEF ParseScoringConfig
  <1> HIDE DEF x, y, z
  <1> QED
    BY <1>1, <1>2 DEF Config

\* Changing who serves leaves a well-formed board.
LEMMA ServeType ==
  ASSUME NEW b \in Board, NEW x \in 0..2, NEW y \in 0..2
  PROVE  [b EXCEPT !.serving = x, !.server = y] \in Board
  BY DEF Board

\* The state read from a row is an engine state.
LEMMA EngineStateType ==
  ASSUME NEW r \in Row
  PROVE  EngineState(r) \in MatchState
  <1> DEFINE x == OrFirst(r.board.serving)
             y == OrFirst(r.board.server)
             b == [r.board EXCEPT !.serving = x, !.server = y]
  <1>1. r.board \in Board /\ r.status \in Statuses
    BY DEF Row
  <1>2. x \in 0..2 /\ y \in 0..2
    BY <1>1 DEF Board, OrFirst
  <1>3. EngineState(r) = [status |-> r.status, board |-> b]
    BY DEF EngineState
  <1> HIDE DEF x, y
  <1>4. b \in Board
    BY <1>1, <1>2, ServeType
  <1> HIDE DEF b
  <1> QED
    BY <1>1, <1>3, <1>4 DEF MatchState

\* A rally leaves a well-formed board.
LEMMA RalliedType ==
  ASSUME NEW c \in Config, NEW b \in Board, NEW t \in Teams
  PROVE  Rallied(c, b, t) \in Board
  <1> DEFINE x == [b.score EXCEPT ![t] = @ + 1]
             y == IF c.rally THEN t ELSE b.serving
             z == IF c.rally THEN 1 ELSE b.server
  <1>1. x \in Scores /\ y \in 0..2 /\ z \in 0..2
    BY DEF Board
  <1>2. Rallied(c, b, t) = [b EXCEPT !.score = x, !.serving = y, !.server = z]
    BY DEF Rallied
  <1> HIDE DEF x, y, z
  <1> QED
    BY <1>1, <1>2 DEF Board

\* Recording a won game leaves a well-formed board.
LEMMA RecordGameType ==
  ASSUME NEW c, NEW b \in Board
  PROVE  RecordGame(c, b) \in Board
  <1> DEFINE g == [num |-> b.game, score |-> b.score,
                   winner |-> GameWinner(c, b.score)]
  <1>1. GameWinner(c, b.score) \in 0..2
    BY DEF GameWinner
  <1>2. CASE GameWinner(c, b.score) = 0
    BY <1>2 DEF RecordGame
  <1>3. CASE GameWinner(c, b.score) # 0
    <2>1. g \in GameResult
      BY <1>1, <1>3 DEF GameResult, Board
    <2>2. Append(b.games, g) \in Seq(GameResult)
      BY <2>1 DEF Board
    <2>3. RecordGame(c, b) = [b EXCEPT !.games = Append(b.games, g)]
      BY <1>3 DEF RecordGame
    <2> QED
      BY <2>2, <2>3 DEF Board
  <1> QED
    BY <1>2, <1>3

\* A side-out leaves a well-formed board.
LEMMA ServedOutType ==
  ASSUME NEW b \in Board
  PROVE  ServedOut(b) \in Board
  <1> DEFINE x == IF b.server = 1 \/ b.serving # 1
                  THEN IF b.server = 1 THEN b.serving ELSE 1
                  ELSE 2
             y == IF b.server = 1 THEN 2 ELSE 1
  <1>1. x \in 0..2 /\ y \in 0..2
    BY DEF Board
  <1>2. ServedOut(b) = [b EXCEPT !.serving = x, !.server = y]
    BY DEF ServedOut, Board
  <1> HIDE DEF x, y
  <1> QED
    BY <1>1, <1>2, ServeType

\* Moving to the next game leaves a well-formed board.
LEMMA NextGameType ==
  ASSUME NEW b \in Board, b.games # <<>>
  PROVE  NextGame(b) \in Board
  <1> DEFINE x == Opponent(LastGame(b).winner)
             z == [t \in Teams |-> 0]
             n == b.game + 1
             y == 1
  <1>1. LastGame(b).winner \in Teams
    <2>1. b.games \in Seq(GameResult)
      BY DEF Board
    <2>2. b.games[Len(b.games)] \in GameResult
      BY <2>1
    <2> QED
      BY <2>2 DEF LastGame, GameResult
  <1>2. x \in 0..2 /\ y \in 0..2
    <2>1. CASE LastGame(b).winner = 1
      BY <2>1 DEF Opponent
    <2>2. CASE LastGame(b).winner = 2
      BY <2>2 DEF Opponent
    <2> QED
      BY <1>1, <2>1, <2>2
  <1>4. z \in Scores /\ n \in Nat
    BY DEF Board
  <1>3. NextGame(b) = [b EXCEPT !.score = z, !.game = n, !.serving = x,
                                !.server = y]
    BY DEF NextGame
  <1> HIDE DEF x, y, z, n
  <1> QED
    BY <1>2, <1>3, <1>4 DEF Board

\* Every result of a scoring call is an engine state.
LEMMA EngineResultType ==
  ASSUME NEW r \in Row, NEW call \in EngineCalls,
         NEW s \in EngineResults(r, call)
  PROVE  s \in MatchState
  <1> DEFINE c == ParseScoringConfig(r.cfg)
             e == EngineState(r)
  <1>1. c \in Config /\ e \in MatchState /\ e.board \in Board
    BY ParsedType, EngineStateType DEF Row, MatchState
  <1> HIDE DEF c, e
  <1>2. ASSUME call.op = "point" PROVE s \in MatchState
    <2>1. call.team \in Teams /\ s \in Point(c, e, call.team)
      BY <1>2 DEF EngineResults, EngineCalls, Call, c, e
    <2>2. s = [e EXCEPT !.board = RecordGame(c, Rallied(c, e.board, call.team))]
      BY <2>1 DEF Point
    <2> QED
      BY <1>1, <2>1, <2>2, RalliedType, RecordGameType DEF MatchState
  <1>3. ASSUME call.op = "point_removed" PROVE s \in MatchState
    <2>1. call.team \in Teams /\ s \in RemovePoint(e, call.team)
      BY <1>3 DEF EngineResults, EngineCalls, Call, c, e
    <2> QED
      BY <1>1, <2>1 DEF RemovePoint, MatchState, Board
  <1>4. ASSUME call.op = "side_out" PROVE s \in MatchState
    <2>1. s \in SideOut(e)
      BY <1>4 DEF EngineResults, c, e
    <2> QED
      BY <1>1, <2>1, ServedOutType DEF SideOut, MatchState
  <1>5. ASSUME call.op = "confirm_game_over" PROVE s \in MatchState
    <2>1. s \in ConfirmGameOver(e)
      BY <1>5 DEF EngineResults, c, e
    <2> QED
      BY <1>1, <2>1, NextGameType DEF ConfirmGameOver, MatchState
  <1>6. ASSUME call.op \in {"confirm_match_over", "timeout", "match_paused",
                            "match_resumed", "forfeit_declared"}
        PROVE  s \in MatchState
    <2>1. s \in ConfirmMatchOver(e) \cup Timeout(e) \cup Pause(e)
                  \cup Resume(e) \cup Forfeit(e)
      BY <1>6 DEF EngineResults, c, e
    <2> QED
      BY <1>1, <2>1 DEF ConfirmMatchOver, Timeout, Pause, Resume, Forfeit,
                        Restatus, MatchState, Statuses
  <1> QED
    BY <1>2, <1>3, <1>4, <1>5, <1>6 DEF EngineCalls, Call

\* The fields that the row and the log take from a call.
LEMMA CallFields ==
  ASSUME NEW call \in Calls
  PROVE  call \in EngineCalls /\ call.op \in EventTypes /\ call.team \in 0..2
                              /\ call.winner \in 0..2
  <1>1. call \in EngineCalls
    BY CallsAssumption
  <1>2. call.op \in EventTypes
    BY <1>1 DEF EventTypes
  <1>3. call.team \in 0..2 /\ call.winner \in 0..2
    BY <1>1 DEF EngineCalls, Call
  <1> QED
    BY <1>1, <1>2, <1>3

\* The engine's result applied to a row makes a row.
LEMMA AppliedType ==
  ASSUME NEW r \in Row, NEW s \in MatchState
  PROVE  Applied(r, s) \in Row
  <1> DEFINE g == IF s.board.games = <<>> THEN r.board.games ELSE s.board.games
             b == [s.board EXCEPT !.games = g]
             t == IF s.status \in {"paused", "completed", "forfeited",
                                   "in_progress"}
                  THEN s.status ELSE r.status
  <1>1. s.board \in Board /\ r.board \in Board
        /\ s.status \in Statuses /\ r.status \in Statuses
    BY DEF MatchState, Row
  <1>2. g \in Seq(GameResult)
    BY <1>1 DEF Board
  <1>3. t \in Statuses
    BY <1>1
  <1>4. Applied(r, s) = [r EXCEPT !.board = b, !.status = t]
    BY DEF Applied
  <1> HIDE DEF g
  <1>5. b \in Board
    BY <1>1, <1>2 DEF Board
  <1> HIDE DEF b, t
  <1> QED
    BY <1>3, <1>4, <1>5 DEF Row

\* Appending an event to a log makes a log.
LEMMA LogType ==
  ASSUME log \in Seq(Event), NEW type \in EventTypes, NEW team \in 0..2,
         NEW board \in Board, Log(type, team, board)
  PROVE  log' \in Seq(Event)
  <1> DEFINE e == [type |-> type, team |-> team, snap |-> board]
  <1>1. e \in Event
    BY DEF Event
  <1>2. log' = Append(log, e)
    BY DEF Log
  <1> HIDE DEF e
  <1> QED
    BY <1>1, <1>2

\* applyEngineResult leaves a row and a log.
LEMMA ApplyType ==
  ASSUME AtomicTypeOK, NEW call \in Calls, NEW s \in MatchState,
         ApplyEngineResult(call, s)
  PROVE  AtomicTypeOK'
  <1>1. row' \in Row
    BY AppliedType DEF ApplyEngineResult, AtomicTypeOK
  <1>2. row'.board \in Board
    BY <1>1 DEF Row
  <1>3. log' \in Seq(Event)
    BY <1>2, CallFields, LogType DEF ApplyEngineResult, AtomicTypeOK
  <1> QED
    BY <1>1, <1>3 DEF AtomicTypeOK

\* The winner that a call records, if any, is a team.
LEMMA ResultOfType ==
  ASSUME NEW call \in Calls, NEW r
  PROVE  ResultOf(call, r) \in 0..2
  <1>1. InferredWinner(r) \in 0..2
    <2> DEFINE P(t) == GamesWon(r.board.games, t)
                         > GamesWon(r.board.games, Opponent(t))
    <2>1. CASE HasTeams /\ \E t \in Teams : P(t)
      <3>1. (CHOOSE t \in Teams : P(t)) \in Teams
        BY <2>1
      <3> QED
        BY <2>1, <3>1 DEF InferredWinner
    <2>2. CASE ~(HasTeams /\ \E t \in Teams : P(t))
      BY <2>2 DEF InferredWinner
    <2> QED
      BY <2>1, <2>2
  <1> QED
    BY <1>1, CallFields DEF ResultOf

\* A status change or a result leaves a row.
LEMMA StatusType ==
  ASSUME AtomicTypeOK, NEW to \in Statuses, NEW w \in 0..2,
         row' = [row EXCEPT !.status = to] \/
         row' = [row EXCEPT !.status = "completed", !.winner = w],
         UNCHANGED log
  PROVE  AtomicTypeOK'
  <1>1. "completed" \in Statuses
    BY DEF Statuses
  <1> QED
    BY <1>1 DEF AtomicTypeOK, Row

\* StartMatch leaves a row and a log.
LEMMA StartMatchType ==
  ASSUME AtomicTypeOK, NEW first \in 0..2, StartMatch(first)
  PROVE  AtomicTypeOK'
  <1> DEFINE x == IF first = 0 THEN row.board.serving ELSE first
             b == [row.board EXCEPT !.serving = x]
             to == "in_progress"
  <1>1. row \in Row /\ row.board \in Board
    BY DEF AtomicTypeOK, Row
  <1>2. x \in 0..2 /\ to \in Statuses
    BY <1>1 DEF Board, Statuses
  <1>3. row' = [row EXCEPT !.status = to, !.board = b]
    BY <1>1 DEF StartMatch, Row
  <1> HIDE DEF x, to
  <1>4. b \in Board
    BY <1>1, <1>2 DEF Board
  <1> HIDE DEF b
  <1>5. row' \in Row /\ row'.board = b
    BY <1>1, <1>2, <1>3, <1>4 DEF Row
  <1>6. "match_started" \in EventTypes
    BY DEF EventTypes
  <1>7. log' \in Seq(Event)
    BY <1>4, <1>5, <1>6, LogType DEF StartMatch, AtomicTypeOK
  <1> QED
    BY <1>5, <1>7 DEF AtomicTypeOK

\* The generic event endpoint leaves a well-formed board.
LEMMA RecordedBoardType ==
  ASSUME NEW r, r.board \in Board, NEW e \in Recordable
  PROVE  RecordedBoard(r, e[1], e[2]) \in Board
  <1>1. CASE e \in {<<"point", 1>>, <<"point", 2>>}
    <2> DEFINE t == e[2]
               x == [r.board.score EXCEPT ![t] = @ + 1]
               y == IF r.cfg.rally THEN t ELSE r.board.serving
    <2>1. t \in Teams
      BY <1>1
    <2>2. x \in Scores /\ y \in 0..2
      BY <2>1 DEF Board
    <2>3. RecordedBoard(r, e[1], e[2]) =
            [r.board EXCEPT !.score = x, !.serving = y]
      BY <1>1 DEF RecordedBoard
    <2> HIDE DEF x, y
    <2> QED
      BY <2>2, <2>3 DEF Board
  <1>2. CASE e = <<"side_out", 0>>
    <2> DEFINE x == Swap(r.board.serving)
               y == IF r.board.server = 0 THEN 0 ELSE Swap(r.board.server)
    <2>1. x \in 0..2 /\ y \in 0..2
      BY DEF Swap
    <2>2. RecordedBoard(r, e[1], e[2]) =
            [r.board EXCEPT !.serving = x, !.server = y]
      BY <1>2 DEF RecordedBoard
    <2> HIDE DEF x, y
    <2> QED
      BY <2>1, <2>2, ServeType
  <1>3. CASE e = <<"note", 0>>
    BY <1>3 DEF RecordedBoard
  <1> QED
    BY <1>1, <1>2, <1>3 DEF Recordable

\* The generic event endpoint leaves a row and a log.
LEMMA RecordEventType ==
  ASSUME AtomicTypeOK, NEW e \in Records, RecordEvent(e[1], e[2])
  PROVE  AtomicTypeOK'
  <1> DEFINE b == RecordedBoard(row, e[1], e[2])
  <1>1. row \in Row /\ row.board \in Board /\ e \in Recordable
    BY RecordsAssumption DEF AtomicTypeOK, Row
  <1>2. b \in Board
    BY <1>1, RecordedBoardType
  <1>3. row' = [row EXCEPT !.board = b]
    BY DEF RecordEvent
  <1> HIDE DEF b
  <1>4. row' \in Row
    BY <1>1, <1>2, <1>3 DEF Row
  <1>5. "point" \in EventTypes /\ "side_out" \in EventTypes
    <2> DEFINE p == [op |-> "point", team |-> 1, winner |-> 0]
               q == [op |-> "side_out", team |-> 0, winner |-> 0]
    <2>1. p \in EngineCalls /\ q \in EngineCalls
      BY DEF EngineCalls, Call
    <2>2. p.op = "point" /\ q.op = "side_out"
      OBVIOUS
    <2> HIDE DEF p, q
    <2> QED
      BY <2>1, <2>2 DEF EventTypes
  <1>6. e[1] \in EventTypes /\ e[2] \in 0..2
    BY <1>1, <1>5 DEF EventTypes, Recordable
  <1>7. log' \in Seq(Event)
    BY <1>1, <1>6, LogType DEF RecordEvent, AtomicTypeOK
  <1> QED
    BY <1>4, <1>7 DEF AtomicTypeOK

\* Undo leaves a row and a log.
LEMMA UndoType ==
  ASSUME AtomicTypeOK, Undo
  PROVE  AtomicTypeOK'
  <1> DEFINE b == log[Len(log)].snap
  <1>1. row \in Row /\ row.board \in Board /\ log \in Seq(Event)
    BY DEF AtomicTypeOK, Row
  <1>2. log[Len(log)] \in Event
    BY <1>1 DEF Undo
  <1>3. b \in Board
    BY <1>2 DEF Event
  <1>4. row' = [row EXCEPT !.board = b]
    BY DEF Undo
  <1> HIDE DEF b
  <1>5. row' \in Row
    BY <1>1, <1>3, <1>4 DEF Row
  <1>6. "undo" \in EventTypes
    BY DEF EventTypes
  <1>7. log' \in Seq(Event)
    BY <1>1, <1>6, LogType DEF Undo, AtomicTypeOK
  <1> QED
    BY <1>5, <1>7 DEF AtomicTypeOK

\* A sheet with no live game lists some game, and has a highest one.
LEMMA HighestNumListed ==
  ASSUME NEW o \in Sheet, ListsEveryGame(o), o.live.num = 0
  PROVE  /\ HighestNum(o.completed) \in Nat
         /\ GameNums(o.completed) = 1..HighestNum(o.completed)
  <1>1. Len(o.completed) \in Nat
    BY DEF Sheet
  <1>2. PICK n \in 1..(Len(o.completed) + 1) : 1..n = GameNums(o.completed)
    BY DEF ListsEveryGame
  <1>3. n \in Nat /\ n \in 1..n /\ \A m \in 1..n : m <= n
    BY <1>1, <1>2
  <1>4. \A k \in 1..n : (\A m \in 1..n : m <= k) => k = n
    BY <1>3
  <1>5. HighestNum(o.completed) = n
    BY <1>2, <1>3, <1>4 DEF HighestNum
  <1> QED
    BY <1>2, <1>3, <1>5

\* An override leaves a row and a log.
LEMMA OverrideType ==
  ASSUME AtomicTypeOK, NEW o \in Overrides, OverrideScore(o)
  PROVE  AtomicTypeOK'
  <1> DEFINE p == IF o.live.num = 0 THEN ZeroScore ELSE o.live.score
             n == IF o.live.num = 0 THEN HighestNum(o.completed)
                                    ELSE o.live.num
             g == o.completed
             b == [row.board EXCEPT !.score = p, !.game = n, !.games = g]
  <1>1. row \in Row /\ row.board \in Board
    BY DEF AtomicTypeOK, Row
  <1>2. o \in Sheet /\ ListsEveryGame(o)
    BY OverridesAssumption
  <1>3. p \in Scores /\ g \in Seq(GameResult)
    BY <1>2 DEF Sheet, ZeroScore
  <1>4. n \in Nat
    <2>1. CASE o.live.num = 0
      BY <1>2, <2>1, HighestNumListed
    <2>2. CASE o.live.num # 0
      BY <1>2, <2>2 DEF Sheet
    <2> QED
      BY <2>1, <2>2
  <1>5. OverriddenBoard(row.board, o) = b
    BY DEF OverriddenBoard
  <1> HIDE DEF p, n, g
  <1>6. b \in Board
    BY <1>1, <1>3, <1>4 DEF Board
  <1>7. row' = [row EXCEPT !.board = b]
    BY <1>5 DEF OverrideScore
  <1> HIDE DEF b
  <1>8. row' \in Row /\ row'.board = b
    BY <1>1, <1>6, <1>7 DEF Row
  <1>9. "score_override" \in EventTypes
    BY DEF EventTypes
  <1>10. log' \in Seq(Event)
    BY <1>6, <1>8, <1>9, LogType DEF OverrideScore, AtomicTypeOK
  <1> QED
    BY <1>8, <1>10 DEF AtomicTypeOK

\* Every transaction leaves a row and a log.
LEMMA TransactionType ==
  ASSUME AtomicTypeOK, Transaction
  PROVE  AtomicTypeOK'
  BY StartMatchType, RecordEventType, UndoType, OverrideType DEF Transaction

-----------------------------------------------------------------------------
(* Type correctness.                                                       *)

\* The initial row, log and requests are well typed.
LEMMA InitType == ServiceInit => TypeOK
  <1> SUFFICES ASSUME ServiceInit PROVE TypeOK
    OBVIOUS
  <1>1. NewBoard \in Board
    <2> DEFINE p == ZeroScore
               z == 0
               n == 1
               g == <<>>
    <2>1. p \in Scores /\ z \in 0..2 /\ n \in Nat /\ g \in Seq(GameResult)
      BY DEF ZeroScore
    <2>2. NewBoard = [score |-> p, serving |-> z, server |-> z, game |-> n,
                      games |-> g]
      BY DEF NewBoard
    <2> HIDE DEF p, z, n, g
    <2> QED
      BY <2>1, <2>2 DEF Board
  <1>2. AtomicTypeOK
    BY <1>1, ConfigsAssumption
    DEF ServiceInit, Init, AtomicTypeOK, Row, Statuses
  <1>3. req \in [Scorers -> Request] /\ stale = {}
    BY DEF ServiceInit, Request
  <1> QED
    BY <1>2, <1>3 DEF TypeOK

\* Moving one client to a well-typed request keeps the types of req and stale.
LEMMA WritesType ==
  ASSUME TypeOK, NEW s \in Scorers, NEW r \in Request, Writes(s, r)
  PROVE  req' \in [Scorers -> Request] /\ (stale \subseteq InFlight)'
  <1>1. req \in [Scorers -> Request] /\ req' = [req EXCEPT ![s] = r]
    BY DEF TypeOK, Writes
  <1>2. \A x \in Scorers \ {s} : req'[x] = req[x]
    BY <1>1
  <1> QED
    BY <1>1, <1>2 DEF Writes, InFlight

\* Every step keeps the types.
LEMMA StepType == TypeOK /\ [ServiceNext]_vars => TypeOK'
  <1> SUFFICES ASSUME TypeOK, [ServiceNext]_vars PROVE TypeOK'
    OBVIOUS
  <1>0. Idle \in Request /\ AtomicTypeOK /\ req \in [Scorers -> Request]
        /\ stale \subseteq InFlight /\ row \in Row
    BY DEF Request, TypeOK, AtomicTypeOK
  <1>1. ASSUME NEW s \in Scorers, RunTransaction(s) PROVE TypeOK'
    BY <1>0, <1>1, TransactionType, WritesType DEF RunTransaction, TypeOK
  <1>2. ASSUME NEW s \in Scorers, NEW r \in Request, Reads(s, r) PROVE TypeOK'
    <2>1. AtomicTypeOK'
      BY <1>0, <1>2 DEF Reads, AtomicTypeOK
    <2>2. req' \in [Scorers -> Request]
      BY <1>0, <1>2 DEF Reads
    <2>3. \A x \in InFlight : req'[x] = req[x]
      BY <1>0, <1>2 DEF Reads, InFlight, Idle
    <2>4. (stale \subseteq InFlight)'
      BY <1>0, <1>2, <2>3 DEF Reads, InFlight
    <2> QED
      BY <2>1, <2>2, <2>4 DEF TypeOK
  <1>3. ASSUME NEW s \in Scorers, Read(s) PROVE TypeOK'
    <2>1. ASSUME NEW call \in Calls, ReadScore(s, call) PROVE TypeOK'
      <3>1. PICK st \in EngineResults(row, call) :
              Reads(s, [pc |-> "apply", call |-> call, state |-> st])
        BY <2>1 DEF ReadScore
      <3>2. st \in MatchState
        BY <1>0, CallFields, EngineResultType
      <3>3. [pc |-> "apply", call |-> call, state |-> st] \in Request
        BY <3>2 DEF Request
      <3> QED
        BY <1>2, <3>1, <3>3
    <2>2. ASSUME NEW to \in Statuses, ReadStatus(s, to) PROVE TypeOK'
      BY <1>2, <2>2 DEF ReadStatus, Request
    <2>3. ASSUME NEW w \in Teams, ReadComplete(s, w) PROVE TypeOK'
      BY <1>2, <2>3 DEF ReadComplete, Request
    <2>4. ASSUME NEW c \in Configs, ReadConfig(s, c) PROVE TypeOK'
      BY <1>2, <2>4 DEF ReadConfig, Request
    <2> QED
      BY <1>3, <2>1, <2>2, <2>3, <2>4 DEF Read
  <1>4. ASSUME NEW s \in Scorers, Apply(s) PROVE TypeOK'
    <2> DEFINE w == ResultOf(req[s].call, row')
               r == IF w = 0 THEN Idle ELSE [pc |-> "result", winner |-> w]
    <2>1. req[s].call \in Calls /\ req[s].state \in MatchState
      BY <1>0, <1>4 DEF Apply, Request, Idle
    <2>2. AtomicTypeOK'
      BY <1>0, <1>4, <2>1, ApplyType DEF Apply
    <2>3. w \in 0..2
      BY <2>1, ResultOfType
    <2>4. r \in Request
      BY <2>3 DEF Request
    <2>5. Writes(s, r)
      BY <1>4 DEF Apply
    <2> HIDE DEF r
    <2> QED
      BY <2>2, <2>4, <2>5, WritesType DEF TypeOK
  <1>5. ASSUME NEW s \in Scorers, WriteResult(s) PROVE TypeOK'
    <2>1. req[s].winner \in 0..2
      BY <1>0, <1>5 DEF WriteResult, Request, Idle
    <2>2. AtomicTypeOK'
      BY <1>0, <1>5, <2>1, StatusType
      DEF WriteResult, UpdateMatchResult, Statuses
    <2> QED
      BY <1>0, <1>5, <2>2, WritesType DEF WriteResult, TypeOK
  <1>6. ASSUME NEW s \in Scorers, WriteStatus(s) PROVE TypeOK'
    <2>1. req[s].to \in Statuses
      BY <1>0, <1>6 DEF WriteStatus, Request, Idle
    <2>2. AtomicTypeOK'
      BY <1>0, <1>6, <2>1, StatusType DEF WriteStatus
    <2> QED
      BY <1>0, <1>6, <2>2, WritesType DEF WriteStatus, TypeOK
  <1>7. ASSUME NEW s \in Scorers, WriteComplete(s) PROVE TypeOK'
    <2>1. req[s].winner \in 0..2
      BY <1>0, <1>7 DEF WriteComplete, Request, Idle
    <2>2. AtomicTypeOK'
      BY <1>0, <1>7, <2>1, StatusType
      DEF WriteComplete, UpdateMatchResult, Statuses
    <2> QED
      BY <1>0, <1>7, <2>2, WritesType DEF WriteComplete, TypeOK
  <1>8. ASSUME NEW s \in Scorers, WriteConfig(s) PROVE TypeOK'
    <2>1. req[s].cfg \in Config
      BY <1>0, <1>8, ConfigsAssumption DEF WriteConfig, Request, Idle
    <2>2. AtomicTypeOK'
      BY <1>0, <1>8, <2>1 DEF WriteConfig, AtomicTypeOK, Row
    <2> QED
      BY <1>0, <1>8, <2>2, WritesType DEF WriteConfig, TypeOK
  <1>9. ASSUME NEW s \in Scorers, Lose(s) PROVE TypeOK'
    <2>1. AtomicTypeOK'
      BY <1>0, <1>9 DEF Lose, AtomicTypeOK
    <2>2. req' \in [Scorers -> Request]
      BY <1>0, <1>9 DEF Lose
    <2>3. \A x \in Scorers \ {s} : req'[x] = req[x]
      BY <1>0, <1>9 DEF Lose
    <2>4. (stale \subseteq InFlight)'
      BY <1>0, <1>9, <2>3 DEF Lose, InFlight
    <2> QED
      BY <2>1, <2>2, <2>4 DEF TypeOK
  <1>10. CASE UNCHANGED vars
    BY <1>10 DEF vars, TypeOK, AtomicTypeOK, InFlight
  <1> QED
    BY <1>1, <1>3, <1>4, <1>5, <1>6, <1>7, <1>8, <1>9, <1>10
    DEF ServiceNext, Write

\* The row, the log, the requests in flight and the set of stale clients stay
\* well typed: no interleaving of match.go's operations, and no request lost
\* half way, writes a row the database schema or the engine would not accept.
THEOREM TypeCorrect == ServiceSpec => []TypeOK
  BY InitType, StepType, PTL DEF ServiceSpec

-----------------------------------------------------------------------------
(***************************************************************************)
(* The service never moves the match past a game without a result:         *)
(* GamesInv is inductive, relative to TypeOK, for any number of clients.   *)
(***************************************************************************)

(* The engine keeps HasEveryGameBefore.                                    *)

\* Boards with the same game and games agree on it.
LEMMA SameGames ==
  ASSUME NEW a, NEW b, HasEveryGameBefore(a),
         b.game = a.game, b.games = a.games
  PROVE  HasEveryGameBefore(b)
  BY DEF HasEveryGameBefore

\* Recording a won game keeps the results there were.
LEMMA RecordGameGames ==
  ASSUME NEW c, NEW b \in Board, HasEveryGameBefore(b)
  PROVE  HasEveryGameBefore(RecordGame(c, b))
  <1> DEFINE g == [num |-> b.game, score |-> b.score,
                   winner |-> GameWinner(c, b.score)]
             gs == Append(b.games, g)
             r == [b EXCEPT !.games = gs]
  <1>1. CASE GameWinner(c, b.score) = 0
    BY <1>1 DEF RecordGame
  <1>2. CASE GameWinner(c, b.score) # 0
    <2>1. RecordGame(c, b) = r
      BY <1>2 DEF RecordGame
    <2>2. b.games \in Seq(GameResult)
      BY DEF Board
    <2>3. \A i \in DOMAIN b.games : i \in DOMAIN gs /\ gs[i] = b.games[i]
      BY <2>2
    <2>4. r.game = b.game /\ r.games = gs
      BY DEF Board
    <2> HIDE DEF gs, r
    <2>5. HasEveryGameBefore(r)
      BY <2>3, <2>4 DEF HasEveryGameBefore
    <2> QED
      BY <2>1, <2>5
  <1> QED
    BY <1>1, <1>2

\* Confirming a game moves to the next one when the last result is for it.
LEMMA NextGameGames ==
  ASSUME NEW b \in Board, HasEveryGameBefore(b), b.games # <<>>,
         LastGame(b).num = b.game
  PROVE  HasEveryGameBefore(NextGame(b))
  <1> DEFINE n == NextGame(b)
  <1>1. b.game \in Nat /\ b.games \in Seq(GameResult)
    BY DEF Board
  <1>2. n.game = b.game + 1 /\ n.games = b.games
    BY DEF NextGame, Board
  <1>3. Len(b.games) \in DOMAIN b.games
    BY <1>1
  <1>4. \A k \in 1..b.game : k = b.game \/ k \in 1..(b.game - 1)
    BY <1>1
  <1> HIDE DEF n
  <1>5. n.game - 1 = b.game
    BY <1>1, <1>2
  <1>6. HasEveryGameBefore(n)
    BY <1>2, <1>3, <1>4, <1>5 DEF HasEveryGameBefore, LastGame
  <1> QED
    BY <1>6 DEF n

\* Every result of a scoring call keeps HasEveryGameBefore.
LEMMA EngineGames ==
  ASSUME NEW r \in Row, HasEveryGameBefore(r.board),
         NEW call \in EngineCalls, NEW s \in EngineResults(r, call)
  PROVE  HasEveryGameBefore(s.board)
  <1> DEFINE c == ParseScoringConfig(r.cfg)
             e == EngineState(r)
             b == e.board
  <1>1. c \in Config /\ e \in MatchState /\ b \in Board
    BY ParsedType, EngineStateType DEF Row, MatchState
  <1>2. HasEveryGameBefore(b)
    <2>1. b.game = r.board.game /\ b.games = r.board.games
      BY DEF EngineState, Row, Board
    <2> QED
      BY <2>1, SameGames
  <1> HIDE DEF c, e
  <1>3. CASE call.op = "point"
    <2> DEFINE a == Rallied(c, b, call.team)
    <2>1. call.team \in Teams /\ s \in Point(c, e, call.team)
      BY <1>3 DEF EngineResults, EngineCalls, Call, c, e
    <2>2. s.board = RecordGame(c, a)
      BY <1>1, <2>1 DEF Point, MatchState
    <2>3. a \in Board
      BY <1>1, <2>1, RalliedType
    <2>4. a.game = b.game /\ a.games = b.games
      BY <1>1 DEF Rallied, Board
    <2> HIDE DEF a
    <2> QED
      BY <1>2, <2>2, <2>3, <2>4, SameGames, RecordGameGames
  <1>4. CASE call.op = "point_removed"
    <2>1. s \in RemovePoint(e, call.team)
      BY <1>4 DEF EngineResults, c, e
    <2>2. s.board.game = b.game /\ s.board.games = b.games
      BY <1>1, <2>1 DEF RemovePoint, MatchState, Board
    <2> QED
      BY <1>2, <2>2, SameGames
  <1>5. CASE call.op = "side_out"
    <2>1. s \in SideOut(e)
      BY <1>5 DEF EngineResults, c, e
    <2>2. s.board = ServedOut(b)
      BY <1>1, <2>1 DEF SideOut, MatchState
    <2>3. ServedOut(b).game = b.game /\ ServedOut(b).games = b.games
      BY <1>1 DEF ServedOut, Board
    <2> QED
      BY <1>2, <2>2, <2>3, SameGames
  <1>6. CASE call.op = "confirm_game_over"
    <2>1. s \in ConfirmGameOver(e)
      BY <1>6 DEF EngineResults, c, e
    <2>2. s.board = NextGame(b) /\ b.games # <<>> /\ LastGame(b).num = b.game
      BY <1>1, <2>1 DEF ConfirmGameOver, MatchState
    <2> QED
      BY <1>1, <1>2, <2>2, NextGameGames
  <1>7. CASE call.op \in {"confirm_match_over", "timeout", "match_paused",
                          "match_resumed", "forfeit_declared"}
    <2>1. s \in ConfirmMatchOver(e) \cup Timeout(e) \cup Pause(e)
                  \cup Resume(e) \cup Forfeit(e)
      BY <1>7 DEF EngineResults, c, e
    <2>2. s.board = b
      BY <1>1, <2>1 DEF ConfirmMatchOver, Timeout, Pause, Resume, Forfeit,
                        Restatus, MatchState
    <2> QED
      BY <1>2, <2>2
  <1> QED
    BY <1>3, <1>4, <1>5, <1>6, <1>7 DEF EngineCalls, Call

\* Writing an engine result keeps it, even when the row keeps its set_scores.
LEMMA AppliedGames ==
  ASSUME NEW r \in Row, NEW s \in MatchState, HasEveryGameBefore(s.board)
  PROVE  HasEveryGameBefore(Applied(r, s).board)
  <1> DEFINE a == Applied(r, s).board
             g == IF s.board.games = <<>> THEN r.board.games ELSE s.board.games
  <1> SUFFICES HasEveryGameBefore(a)
    OBVIOUS
  <1>1. s.board \in Board
    BY DEF MatchState
  <1>2. a = [s.board EXCEPT !.games = g]
    BY DEF Applied, Row
  <1>3. a.game = s.board.game /\ a.games = g
    BY <1>1, <1>2 DEF Board
  <1> HIDE DEF a
  <1>4. CASE s.board.games = <<>>
    <2>1. DOMAIN s.board.games = {}
      BY <1>4
    <2>2. ~ \E n \in 1..(s.board.game - 1) : TRUE
      BY <2>1 DEF HasEveryGameBefore
    <2> QED
      BY <1>3, <2>2 DEF HasEveryGameBefore
  <1>5. CASE s.board.games # <<>>
    <2>1. a.game = s.board.game /\ a.games = s.board.games
      BY <1>3, <1>5
    <2> QED
      BY <2>1, SameGames
  <1> QED
    BY <1>4, <1>5

\* A correction lists every game before the one it makes current.
LEMMA OverriddenGames ==
  ASSUME NEW o \in Overrides, NEW b \in Board
  PROVE  HasEveryGameBefore(OverriddenBoard(b, o))
  <1> DEFINE a == OverriddenBoard(b, o)
  <1>1. o \in Sheet /\ ListsEveryGame(o)
    BY OverridesAssumption
  <1>2. Len(o.completed) \in Nat /\ o.live.num \in Nat
    BY <1>1 DEF Sheet
  <1>3. a.games = o.completed
    BY DEF OverriddenBoard, Board
  <1>4. 1..(a.game - 1) \subseteq GameNums(o.completed)
    <2>1. CASE o.live.num = 0
      <3>1. a.game = HighestNum(o.completed)
        BY <2>1 DEF OverriddenBoard, Board
      <3> HIDE DEF a
      <3> QED
        BY <1>1, <2>1, <3>1, HighestNumListed
    <2>2. CASE o.live.num # 0
      <3>1. a.game = o.live.num
        BY <2>2 DEF OverriddenBoard, Board
      <3>2. PICK n \in 1..(Len(o.completed) + 1) :
              1..n = GameNums(o.completed) \cup {o.live.num}
        BY <1>1, <2>2 DEF ListsEveryGame
      <3>3. n \in Nat /\ o.live.num \in 1..n
        BY <1>2, <3>2
      <3>4. \A k \in 1..(o.live.num - 1) : k \in 1..n /\ k # o.live.num
        BY <1>2, <3>3
      <3> HIDE DEF a
      <3> QED
        BY <3>1, <3>2, <3>4
    <2> QED
      BY <2>1, <2>2
  <1> HIDE DEF a
  <1>5. HasEveryGameBefore(a)
    BY <1>3, <1>4 DEF HasEveryGameBefore, GameNums
  <1> QED
    BY <1>5 DEF a

-----------------------------------------------------------------------------
(* The invariant.                                                          *)

\* Logging a board that has its games keeps the log's part of GamesInv.
LEMMA LogGames ==
  ASSUME log \in Seq(Event), NEW type, NEW team, NEW board,
         HasEveryGameBefore(board), Log(type, team, board),
         \A i \in DOMAIN log : HasEveryGameBefore(log[i].snap)
  PROVE  \A i \in DOMAIN log' : HasEveryGameBefore(log'[i].snap)
  <1> DEFINE e == [type |-> type, team |-> team, snap |-> board]
  <1>1. log' = Append(log, e) /\ e.snap = board
    BY DEF Log
  <1> HIDE DEF e
  <1>2. \A i \in DOMAIN log' : \/ i \in DOMAIN log /\ log'[i] = log[i]
                               \/ log'[i] = e
    BY <1>1
  <1> QED
    BY <1>1, <1>2

\* An event's snapshot is read back unchanged.
LEMMA TransactionGames ==
  ASSUME AtomicTypeOK, NoSkippedGame, Transaction,
         \A i \in DOMAIN log : HasEveryGameBefore(log[i].snap)
  PROVE  /\ NoSkippedGame'
         /\ \A i \in DOMAIN log' : HasEveryGameBefore(log'[i].snap)
  <1>1. row \in Row /\ row.board \in Board /\ log \in Seq(Event)
    BY DEF AtomicTypeOK, Row
  <1>2. HasEveryGameBefore(row.board)
    BY DEF NoSkippedGame
  <1>3. ASSUME NEW first \in 0..2, StartMatch(first)
        PROVE  HasEveryGameBefore(row'.board)
    <2>1. row'.board.game = row.board.game /\ row'.board.games = row.board.games
      BY <1>1, <1>3 DEF StartMatch, Row, Board
    <2> QED
      BY <1>2, <2>1, SameGames
  <1>4. ASSUME NEW e \in Records, RecordEvent(e[1], e[2])
        PROVE  HasEveryGameBefore(row'.board)
    <2> DEFINE b == RecordedBoard(row, e[1], e[2])
    <2>1. b.game = row.board.game /\ b.games = row.board.games
      BY <1>1 DEF RecordedBoard, Board
    <2>2. row'.board = b
      BY <1>1, <1>4 DEF RecordEvent, Row
    <2> QED
      BY <1>2, <2>1, <2>2, SameGames
  <1>5. ASSUME Undo PROVE HasEveryGameBefore(row'.board)
    <2>1. Len(log) \in DOMAIN log
      BY <1>1, <1>5 DEF Undo
    <2>2. row'.board = log[Len(log)].snap
      BY <1>1, <1>5 DEF Undo, Row
    <2> QED
      BY <2>1, <2>2
  <1>6. ASSUME NEW o \in Overrides, OverrideScore(o)
        PROVE  HasEveryGameBefore(row'.board)
    <2>1. row'.board = OverriddenBoard(row.board, o)
      BY <1>1, <1>6 DEF OverrideScore, Row
    <2> QED
      BY <1>1, <2>1, OverriddenGames
  <1>7. HasEveryGameBefore(row'.board)
    BY <1>3, <1>4, <1>5, <1>6 DEF Transaction
  <1>8. \E type, team : Log(type, team, row.board)
                        \/ Log(type, team, row'.board)
    BY DEF Transaction, StartMatch, RecordEvent, Undo, OverrideScore
  <1> QED
    BY <1>1, <1>2, <1>7, <1>8, LogGames DEF NoSkippedGame

\* A step that touches neither board nor log, and puts no engine result in a
\* request, keeps the invariant.
LEMMA QuietGames ==
  ASSUME GamesInv, row'.board = row.board, UNCHANGED log,
         \A s \in Scorers : req'[s] = req[s] \/ req'[s].pc # "apply"
  PROVE  GamesInv'
  BY DEF GamesInv, NoSkippedGame

\* A step that ends one request keeps the requests' part of the invariant.
LEMMA OthersGames ==
  ASSUME TypeOK, GamesInv, NEW s \in Scorers, NEW r, r.pc # "apply",
         req' = [req EXCEPT ![s] = r]
  PROVE  \A x \in Scorers : req'[x].pc = "apply" =>
                              HasEveryGameBefore(req'[x].state.board)
  <1>1. \A x \in Scorers : req'[x] = IF x = s THEN r ELSE req[x]
    BY DEF TypeOK
  <1> QED
    BY <1>1 DEF GamesInv

\* The initial row points at game 1, and nothing comes before it.
LEMMA GamesInit == ServiceInit => GamesInv
  <1> SUFFICES ASSUME ServiceInit PROVE GamesInv
    OBVIOUS
  <1>1. row.board = NewBoard
    BY DEF ServiceInit, Init
  <1>2. NewBoard.game = 1 /\ \A n \in 1..(1 - 1) : FALSE
    BY DEF NewBoard
  <1>3. NoSkippedGame
    BY <1>1, <1>2 DEF NoSkippedGame, HasEveryGameBefore
  <1>4. log = <<>> /\ \A s \in Scorers : req[s].pc # "apply"
    BY DEF ServiceInit, Init, Idle
  <1> QED
    BY <1>3, <1>4 DEF GamesInv

\* Every step of the service keeps GamesInv.
LEMMA GamesStep == TypeOK /\ GamesInv /\ [ServiceNext]_vars => GamesInv'
  <1> SUFFICES ASSUME TypeOK, GamesInv, [ServiceNext]_vars PROVE GamesInv'
    OBVIOUS
  <1>0. AtomicTypeOK /\ row \in Row /\ log \in Seq(Event)
        /\ req \in [Scorers -> Request]
    BY DEF TypeOK, AtomicTypeOK
  <1>1. ASSUME NEW s \in Scorers, RunTransaction(s) PROVE GamesInv'
    <2>1. req' = [req EXCEPT ![s] = Idle] /\ Idle.pc # "apply"
      BY <1>1 DEF RunTransaction, Writes, Idle
    <2>2. NoSkippedGame'
          /\ \A i \in DOMAIN log' : HasEveryGameBefore(log'[i].snap)
      BY <1>0, <1>1, TransactionGames DEF RunTransaction, GamesInv
    <2> QED
      BY <2>1, <2>2, OthersGames DEF GamesInv
  <1>2. ASSUME NEW s \in Scorers, NEW call \in Calls, ReadScore(s, call)
        PROVE  GamesInv'
    <2>1. PICK st \in EngineResults(row, call) :
            Reads(s, [pc |-> "apply", call |-> call, state |-> st])
      BY <1>2 DEF ReadScore
    <2>2. HasEveryGameBefore(st.board)
      BY <1>0, CallFields, EngineGames DEF GamesInv, NoSkippedGame
    <2>3. \A x \in Scorers : req'[x] = req[x] \/ req'[x].state = st
      BY <1>0, <2>1 DEF Reads
    <2> QED
      BY <2>1, <2>2, <2>3 DEF Reads, GamesInv, NoSkippedGame
  <1>3. ASSUME NEW s \in Scorers, NEW r, r.pc # "apply", Reads(s, r)
        PROVE  GamesInv'
    <2>1. \A x \in Scorers : req'[x] = req[x] \/ req'[x].pc # "apply"
      BY <1>0, <1>3 DEF Reads
    <2> QED
      BY <1>3, <2>1, QuietGames DEF Reads
  <1>4. ASSUME NEW s \in Scorers, Read(s) PROVE GamesInv'
    <2>1. ASSUME NEW to, ReadStatus(s, to) PROVE GamesInv'
      BY <1>3, <2>1 DEF ReadStatus
    <2>2. ASSUME NEW w, ReadComplete(s, w) PROVE GamesInv'
      BY <1>3, <2>2 DEF ReadComplete
    <2>3. ASSUME NEW c, ReadConfig(s, c) PROVE GamesInv'
      BY <1>3, <2>3 DEF ReadConfig
    <2> QED
      BY <1>2, <1>4, <2>1, <2>2, <2>3 DEF Read
  <1>5. ASSUME NEW s \in Scorers, Apply(s) PROVE GamesInv'
    <2> DEFINE w == ResultOf(req[s].call, row')
               r == IF w = 0 THEN Idle ELSE [pc |-> "result", winner |-> w]
    <2>1. req[s].state \in MatchState
          /\ HasEveryGameBefore(req[s].state.board)
      BY <1>0, <1>5 DEF Apply, Request, Idle, GamesInv
    <2>2. HasEveryGameBefore(row'.board)
      BY <1>0, <1>5, <2>1, AppliedGames DEF Apply, ApplyEngineResult
    <2>3. \A i \in DOMAIN log' : HasEveryGameBefore(log'[i].snap)
      BY <1>0, <1>5, <2>2, LogGames DEF Apply, ApplyEngineResult, GamesInv
    <2>4. req' = [req EXCEPT ![s] = r] /\ r.pc # "apply"
      BY <1>5 DEF Apply, Writes, Idle
    <2> HIDE DEF r
    <2> QED
      BY <2>2, <2>3, <2>4, OthersGames DEF GamesInv, NoSkippedGame
  <1>6. ASSUME NEW s \in Scorers,
               WriteResult(s) \/ WriteStatus(s) \/ WriteComplete(s)
                 \/ WriteConfig(s) \/ Lose(s)
        PROVE  GamesInv'
    <2>1. row'.board = row.board /\ UNCHANGED log
      BY <1>0, <1>6 DEF WriteResult, WriteStatus, WriteComplete, WriteConfig,
                        Lose, UpdateMatchResult, Row
    <2>2. req' = [req EXCEPT ![s] = Idle]
      BY <1>6 DEF WriteResult, WriteStatus, WriteComplete, WriteConfig,
                  Lose, Writes
    <2>3. \A x \in Scorers : req'[x] = req[x] \/ req'[x].pc # "apply"
      BY <1>0, <2>2 DEF Idle
    <2> QED
      BY <2>1, <2>3, QuietGames
  <1>7. CASE UNCHANGED vars
    BY <1>7, QuietGames DEF vars
  <1> QED
    BY <1>1, <1>4, <1>5, <1>6, <1>7 DEF ServiceNext, Write

\* Every board the service holds, in the row, in the log and in a request in
\* flight, has a result for each game before its current one.
THEOREM GamesInvariant == ServiceSpec => []GamesInv
  BY TypeCorrect, GamesInit, GamesStep, PTL DEF ServiceSpec

\* The row never points past a game that has no result in set_scores, however
\* many clients overlap (ConfirmGameOver, Undo and OverrideScore in match.go).
THEOREM NeverSkipsAGame == ServiceSpec => []NoSkippedGame
  <1>1. GamesInv => NoSkippedGame
    BY DEF GamesInv
  <1> QED
    BY <1>1, GamesInvariant, PTL

-----------------------------------------------------------------------------
(* The log.                                                                *)

\* The event that Log appends is the last one, and the others stay.
LEMMA LastLogged ==
  ASSUME log \in Seq(Event), NEW type, NEW team, NEW board,
         Log(type, team, board)
  PROVE  /\ Len(log') = Len(log) + 1 /\ Len(log) \in Nat
         /\ log' # <<>>
         /\ log'[Len(log')] = [type |-> type, team |-> team, snap |-> board]
         /\ \A i \in DOMAIN log : i \in DOMAIN log' /\ log'[i] = log[i]
         /\ DOMAIN log' = DOMAIN log \cup {Len(log')}
         /\ Len(log') \notin DOMAIN log
  <1> DEFINE e == [type |-> type, team |-> team, snap |-> board]
  <1>1. log' = Append(log, e)
    BY DEF Log
  <1> HIDE DEF e
  <1>2. /\ Len(log') = Len(log) + 1 /\ Len(log) \in Nat
        /\ log' # <<>> /\ log'[Len(log')] = e
        /\ \A i \in DOMAIN log : i \in DOMAIN log' /\ log'[i] = log[i]
        /\ DOMAIN log' = DOMAIN log \cup {Len(log')}
        /\ Len(log') \notin DOMAIN log
    BY <1>1
  <1> QED
    BY <1>2 DEF e

\* LogExplainsBoard needs to know where the configuration comes from.
ExplainInv == LogExplainsBoard /\ row.cfg \in Configs

\* A board logged as it is written is explained by its event.
LEMMA LoggedExplains ==
  ASSUME log \in Seq(Event), NEW type, NEW team, type # "undo",
         Log(type, team, row'.board)
  PROVE  LogExplainsBoard'
  <1> DEFINE e == [type |-> type, team |-> team, snap |-> row'.board]
  <1>1. log' # <<>> /\ log'[Len(log')] = e
    BY LastLogged
  <1>2. e.type # "undo" /\ row'.board = e.snap
    OBVIOUS
  <1> HIDE DEF e
  <1> QED
    BY <1>1, <1>2 DEF LogExplainsBoard

\* Every transaction is explained by the event that it logs.
LEMMA TransactionExplains ==
  ASSUME AtomicTypeOK, ExplainInv, Transaction
  PROVE  ExplainInv'
  <1>1. row \in Row /\ log \in Seq(Event)
    BY DEF AtomicTypeOK
  <1>2. ASSUME NEW first \in 0..2, StartMatch(first) PROVE LogExplainsBoard'
    BY <1>1, <1>2, LoggedExplains DEF StartMatch
  <1>3. ASSUME NEW e \in Records, RecordEvent(e[1], e[2])
        PROVE  LogExplainsBoard'
    <2> DEFINE l == log'[Len(log')]
               was == [board |-> l.snap, cfg |-> row.cfg]
    <2>1. log' # <<>> /\ l = [type |-> e[1], team |-> e[2],
                              snap |-> row.board]
      BY <1>1, <1>3, LastLogged DEF RecordEvent
    <2>2. row'.board = RecordedBoard(row, e[1], e[2])
      BY <1>1, <1>3 DEF RecordEvent, Row
    <2>3. RecordedBoard(row, e[1], e[2]) = RecordedBoard(was, e[1], e[2])
      BY <2>1 DEF RecordedBoard
    <2>4. <<l.type, l.team>> \in Records /\ l.type = e[1] /\ l.team = e[2]
      <3>1. e = <<e[1], e[2]>>
        BY RecordsAssumption DEF Recordable
      <3> QED
        BY <2>1, <3>1
    <2>5. row.cfg \in Configs
      BY DEF ExplainInv
    <2> HIDE DEF l
    <2>6. \E c \in Configs :
            row'.board = RecordedBoard([board |-> l.snap, cfg |-> c],
                                       l.type, l.team)
      BY <2>2, <2>3, <2>4, <2>5
    <2> QED
      BY <2>1, <2>4, <2>6 DEF LogExplainsBoard, l
  <1>4. ASSUME Undo PROVE LogExplainsBoard'
    <2>0. Log("undo", 0, row.board) /\ Len(log) \in DOMAIN log
      BY <1>1, <1>4 DEF Undo
    <2> DEFINE e == [type |-> "undo", team |-> 0, snap |-> row.board]
    <2>1. /\ log' # <<>> /\ log'[Len(log')] = e
          /\ Len(log') = Len(log) + 1 /\ log'[Len(log)] = log[Len(log)]
      BY <1>1, <2>0, LastLogged
    <2>2. Len(log') - 1 = Len(log) /\ Len(log') > 1 /\ e.type = "undo"
      BY <1>1, <2>0, <2>1
    <2> HIDE DEF e
    <2>3. row'.board = log[Len(log)].snap
      BY <1>1, <1>4 DEF Undo, Row
    <2> QED
      BY <2>1, <2>2, <2>3 DEF LogExplainsBoard
  <1>5. ASSUME NEW o \in Overrides, OverrideScore(o) PROVE LogExplainsBoard'
    BY <1>1, <1>5, LoggedExplains DEF OverrideScore
  <1>6. row'.cfg = row.cfg
    BY <1>1 DEF Transaction, StartMatch, RecordEvent, Undo, OverrideScore, Row
  <1> QED
    BY <1>2, <1>3, <1>4, <1>5, <1>6 DEF Transaction, ExplainInv

\* Every step of the service is explained, or leaves board and log alone.
LEMMA ExplainStep == TypeOK /\ ExplainInv /\ [ServiceNext]_vars => ExplainInv'
  <1> SUFFICES ASSUME TypeOK, ExplainInv, [ServiceNext]_vars PROVE ExplainInv'
    OBVIOUS
  <1>0. AtomicTypeOK /\ row \in Row /\ log \in Seq(Event)
        /\ req \in [Scorers -> Request]
    BY DEF TypeOK, AtomicTypeOK
  <1>1. ASSUME NEW s \in Scorers, Apply(s) PROVE ExplainInv'
    <2>1. req[s].call \in Calls
      BY <1>0, <1>1 DEF Apply, Request, Idle
    <2>2. req[s].call.op # "undo"
      BY <2>1, CallsAssumption DEF EngineCalls, Call
    <2>3. LogExplainsBoard'
      BY <1>0, <1>1, <2>2, LoggedExplains DEF Apply, ApplyEngineResult
    <2>4. row'.cfg = row.cfg
      BY <1>0, <1>1 DEF Apply, ApplyEngineResult, Applied, Row
    <2> QED
      BY <2>3, <2>4 DEF ExplainInv
  <1>2. ASSUME row'.board = row.board, row'.cfg \in Configs, UNCHANGED log
        PROVE  ExplainInv'
    BY <1>2 DEF ExplainInv, LogExplainsBoard
  <1>3. ASSUME NEW s \in Scorers, WriteConfig(s) PROVE ExplainInv'
    <2>1. req[s].cfg \in Configs
      BY <1>0, <1>3 DEF WriteConfig, Request, Idle
    <2> QED
      BY <1>0, <1>2, <1>3, <2>1 DEF WriteConfig, Row
  <1>4. ASSUME NEW s \in Scorers,
               WriteResult(s) \/ WriteStatus(s) \/ WriteComplete(s)
        PROVE  ExplainInv'
    <2>1. row'.board = row.board /\ row'.cfg = row.cfg /\ UNCHANGED log
      BY <1>0, <1>4 DEF WriteResult, WriteStatus, WriteComplete,
                        UpdateMatchResult, Row
    <2> QED
      BY <1>2, <2>1 DEF ExplainInv
  <1>5. ASSUME UNCHANGED <<row, log>> PROVE ExplainInv'
    BY <1>2, <1>5 DEF ExplainInv
  <1>6. ASSUME NEW s \in Scorers, Read(s) \/ Lose(s) PROVE ExplainInv'
    BY <1>5, <1>6 DEF Read, Reads, ReadScore, ReadStatus, ReadComplete,
                      ReadConfig, Lose
  <1>7. ASSUME NEW s \in Scorers, RunTransaction(s) PROVE ExplainInv'
    BY <1>0, <1>7, TransactionExplains DEF RunTransaction
  <1> QED
    BY <1>1, <1>3, <1>4, <1>5, <1>6, <1>7 DEF ServiceNext, Write, vars

\* However the requests of any number of clients interleave, the board in the
\* row is accounted for by the latest event (match.go: applyEngineResult,
\* RecordEvent, Undo and OverrideScore write both in one transaction).
THEOREM LogAlwaysExplains == ServiceSpec => []LogExplainsBoard
  <1>1. ServiceInit => ExplainInv
    BY DEF ServiceInit, Init, ExplainInv, LogExplainsBoard
  <1>2. ExplainInv => LogExplainsBoard
    BY DEF ExplainInv
  <1> QED
    BY <1>1, <1>2, ExplainStep, TypeCorrect, PTL DEF ServiceSpec

-----------------------------------------------------------------------------
(* Requests that are not stale.                                            *)

\* What a request is about to write says what it will owe: the result of
\* ConfirmMatchOver is completed, that of DeclareForfeit forfeited.
OwesInv ==
  \A s \in Scorers : req[s].pc = "apply" =>
    /\ req[s].call.op = "confirm_match_over"
         => req[s].state.status = "completed"
    /\ req[s].call.op = "forfeit_declared"
         => req[s].state.status = "forfeited"

\* The engine's result of such a call has that status.
LEMMA EngineOwes ==
  ASSUME NEW call, NEW st \in EngineResults(row, call)
  PROVE  /\ call.op = "confirm_match_over" => st.status = "completed"
         /\ call.op = "forfeit_declared" => st.status = "forfeited"
  <1>1. EngineState(row).status = row.status
    BY DEF EngineState
  <1>2. EngineState(row) = [EngineState(row) EXCEPT !.status = row.status]
    BY <1>1 DEF EngineState
  <1> QED
    BY <1>1, <1>2 DEF EngineResults, ConfirmMatchOver, Forfeit, Restatus,
                      EngineState

\* A client that has written is left with nothing, or with a result to write.
LEMMA OneWrites ==
  ASSUME TypeOK, NEW s \in Scorers, NEW r, Writes(s, r)
  PROVE  /\ req'[s] = r
         /\ \A x \in Scorers \ {s} : req'[x] = req[x]
         /\ \A x \in Scorers \ stale' : x = s \/ req'[x].pc = "idle"
  <1>1. req \in [Scorers -> Request]
    BY DEF TypeOK
  <1>2. req'[s] = r /\ \A x \in Scorers \ {s} : req'[x] = req[x]
    BY <1>1 DEF Writes
  <1> QED
    BY <1>2 DEF Writes, InFlight

LEMMA OneReads ==
  ASSUME TypeOK, NEW s \in Scorers, NEW r, Reads(s, r)
  PROVE  /\ req'[s] = r /\ UNCHANGED <<row, log, stale>>
         /\ \A x \in Scorers \ {s} : req'[x] = req[x]
  BY DEF TypeOK, Reads

\* Every step keeps what requests owe.
LEMMA OwesStep == TypeOK /\ OwesInv /\ [ServiceNext]_vars => OwesInv'
  <1> SUFFICES ASSUME TypeOK, OwesInv, [ServiceNext]_vars PROVE OwesInv'
    OBVIOUS
  <1>1. ASSUME NEW s \in Scorers, NEW r, r.pc # "apply", req'[s] = r,
               \A x \in Scorers \ {s} : req'[x] = req[x]
        PROVE  OwesInv'
    BY <1>1 DEF OwesInv
  <1>2. ASSUME NEW s \in Scorers, NEW call \in Calls, ReadScore(s, call)
        PROVE  OwesInv'
    <2>1. PICK st \in EngineResults(row, call) :
            Reads(s, [pc |-> "apply", call |-> call, state |-> st])
      BY <1>2 DEF ReadScore
    <2> DEFINE r == [pc |-> "apply", call |-> call, state |-> st]
    <2>2. req'[s] = r /\ \A x \in Scorers \ {s} : req'[x] = req[x]
      BY <2>1, OneReads
    <2>3. r.call = call /\ r.state = st
      OBVIOUS
    <2> HIDE DEF r
    <2> QED
      BY <2>2, <2>3, EngineOwes DEF OwesInv
  <1>3. ASSUME NEW s \in Scorers, Read(s) PROVE OwesInv'
    <2>1. ASSUME NEW r, r.pc # "apply", Reads(s, r) PROVE OwesInv'
      BY <1>1, <2>1, OneReads
    <2>2. ASSUME NEW to, ReadStatus(s, to) PROVE OwesInv'
      BY <2>1, <2>2 DEF ReadStatus
    <2>3. ASSUME NEW w, ReadComplete(s, w) PROVE OwesInv'
      BY <2>1, <2>3 DEF ReadComplete
    <2>4. ASSUME NEW c, ReadConfig(s, c) PROVE OwesInv'
      BY <2>1, <2>4 DEF ReadConfig
    <2> QED
      BY <1>2, <1>3, <2>2, <2>3, <2>4 DEF Read
  <1>4. ASSUME NEW s \in Scorers, NEW r, r.pc # "apply", Writes(s, r)
        PROVE  OwesInv'
    BY <1>1, <1>4, OneWrites
  <1>5. Idle.pc # "apply"
    BY DEF Idle
  <1>6. ASSUME NEW s \in Scorers, Apply(s) PROVE OwesInv'
    <2> DEFINE w == ResultOf(req[s].call, row')
               r == IF w = 0 THEN Idle ELSE [pc |-> "result", winner |-> w]
    <2>1. Writes(s, r)
      BY <1>6 DEF Apply
    <2>2. r.pc # "apply"
      BY <1>5
    <2> HIDE DEF r
    <2> QED
      BY <1>4, <2>1, <2>2
  <1>7. ASSUME NEW s \in Scorers,
               WriteResult(s) \/ WriteStatus(s) \/ WriteComplete(s)
                 \/ WriteConfig(s) \/ RunTransaction(s)
        PROVE  OwesInv'
    BY <1>4, <1>5, <1>7 DEF WriteResult, WriteStatus, WriteComplete,
                            WriteConfig, RunTransaction
  <1>8. ASSUME NEW s \in Scorers, Lose(s) PROVE OwesInv'
    <2>1. req'[s] = Idle /\ \A x \in Scorers \ {s} : req'[x] = req[x]
      BY <1>8 DEF Lose, TypeOK
    <2> QED
      BY <1>1, <1>5, <2>1
  <1>9. CASE UNCHANGED vars
    BY <1>9 DEF vars, OwesInv
  <1> QED
    BY <1>3, <1>6, <1>7, <1>8, <1>9 DEF ServiceNext, Write

\* A request as the row stands.
UpToDate(r) ==
  /\ r.pc = "apply"    => r.state \in EngineResults(row, r.call)
  /\ r.pc = "result"   => ResultDue
  /\ r.pc = "status"   => r.to \in validMatchTransitions[row.status]
  /\ r.pc = "complete" => row.status \in {"in_progress", "paused"}
  /\ r.pc = "config"   => row.status \in {"scheduled", "warmup"}

LEMMA FreshMeans == FreshInv <=> \A s \in Scorers \ stale : UpToDate(req[s])
  BY DEF FreshInv, UpToDate

\* The winner that a call goes on to record is due once its result is there.
LEMMA OwedIsDue ==
  ASSUME TypeOK, OwesInv, NEW s \in Scorers, Apply(s),
         ResultOf(req[s].call, row') # 0
  PROVE  ResultDue'
  <1> DEFINE call == req[s].call
             st == req[s].state
  <1>1. log \in Seq(Event) /\ row \in Row
    BY DEF TypeOK, AtomicTypeOK
  <1>2. call.op \in {"confirm_match_over", "forfeit_declared"}
    BY DEF ResultOf
  <1>3. Log(call.op, call.team, row'.board) /\ row' = Applied(row, st)
    BY DEF Apply, ApplyEngineResult
  <1>4. log' # <<>> /\ log'[Len(log')] =
          [type |-> call.op, team |-> call.team, snap |-> row'.board]
    BY <1>1, <1>3, LastLogged
  <1>5. log'[Len(log')].type = call.op
    BY <1>4
  <1>6. /\ call.op = "confirm_match_over" => st.status = "completed"
        /\ call.op = "forfeit_declared" => st.status = "forfeited"
    BY DEF OwesInv, Apply
  <1> HIDE DEF call, st
  <1>7. st.status \in {"completed", "forfeited"} => row'.status = st.status
    BY <1>1, <1>3 DEF Applied, Row
  <1> QED
    BY <1>2, <1>4, <1>5, <1>6, <1>7 DEF ResultDue

\* Every step keeps the requests of clients that are not stale up to date.
LEMMA FreshStep ==
  TypeOK /\ OwesInv /\ FreshInv /\ [ServiceNext]_vars => FreshInv'
  <1> SUFFICES ASSUME TypeOK, OwesInv, FreshInv, [ServiceNext]_vars
               PROVE  FreshInv'
    OBVIOUS
  <1>0. \A s \in Scorers \ stale : UpToDate(req[s])
    BY FreshMeans
  <1>1. SUFFICES \A x \in Scorers \ stale' : UpToDate(req[x])'
    BY DEF FreshInv, UpToDate
  <1>2. ASSUME NEW r, r.pc = "idle" PROVE UpToDate(r) /\ UpToDate(r)'
    BY <1>2 DEF UpToDate
  <1>3. ASSUME NEW s \in Scorers, NEW r, Writes(s, r),
               r.pc = "idle" \/ (r.pc = "result" /\ ResultDue')
        PROVE  \A x \in Scorers \ stale' : UpToDate(req[x])'
    <2>1. \A x \in Scorers \ stale' : req'[x] = r \/ req'[x].pc = "idle"
      BY <1>3, OneWrites
    <2> QED
      BY <1>3, <2>1 DEF UpToDate
  <1>4. ASSUME NEW s \in Scorers, Apply(s)
        PROVE  \A x \in Scorers \ stale' : UpToDate(req[x])'
    <2> DEFINE w == ResultOf(req[s].call, row')
               r == IF w = 0 THEN Idle ELSE [pc |-> "result", winner |-> w]
    <2>1. Writes(s, r)
      BY <1>4 DEF Apply
    <2>2. r.pc = "idle" \/ (r.pc = "result" /\ ResultDue')
      BY <1>4, OwedIsDue DEF Idle
    <2> HIDE DEF r
    <2> QED
      BY <1>3, <2>1, <2>2
  <1>5. ASSUME NEW s \in Scorers,
               WriteResult(s) \/ WriteStatus(s) \/ WriteComplete(s)
                 \/ WriteConfig(s) \/ RunTransaction(s)
        PROVE  \A x \in Scorers \ stale' : UpToDate(req[x])'
    <2>1. Writes(s, Idle) /\ Idle.pc = "idle"
      BY <1>5 DEF WriteResult, WriteStatus, WriteComplete, WriteConfig,
                  RunTransaction, Idle
    <2> QED
      BY <1>3, <2>1
  <1>6. ASSUME NEW s \in Scorers, NEW r, Reads(s, r), UpToDate(r)
        PROVE  \A x \in Scorers \ stale' : UpToDate(req[x])'
    <2>1. /\ req'[s] = r /\ UNCHANGED <<row, log, stale>>
          /\ \A x \in Scorers \ {s} : req'[x] = req[x]
      BY <1>6, OneReads
    <2>2. ResultDue' = ResultDue
      BY <2>1 DEF ResultDue
    <2> QED
      BY <1>0, <1>6, <2>1, <2>2 DEF UpToDate
  <1>7. ASSUME NEW s \in Scorers, Read(s)
        PROVE  \A x \in Scorers \ stale' : UpToDate(req[x])'
    <2>1. ASSUME NEW call \in Calls, ReadScore(s, call)
          PROVE  \A x \in Scorers \ stale' : UpToDate(req[x])'
      <3>1. PICK st \in EngineResults(row, call) :
              Reads(s, [pc |-> "apply", call |-> call, state |-> st])
        BY <2>1 DEF ReadScore
      <3>2. UpToDate([pc |-> "apply", call |-> call, state |-> st])
        BY DEF UpToDate
      <3> QED
        BY <1>6, <3>1, <3>2
    <2>2. ASSUME NEW to, ReadStatus(s, to)
          PROVE  \A x \in Scorers \ stale' : UpToDate(req[x])'
      <3>1. UpToDate([pc |-> "status", to |-> to])
        BY <2>2 DEF UpToDate, ReadStatus
      <3> QED
        BY <1>6, <2>2, <3>1 DEF ReadStatus
    <2>3. ASSUME NEW w, ReadComplete(s, w)
          PROVE  \A x \in Scorers \ stale' : UpToDate(req[x])'
      <3>1. UpToDate([pc |-> "complete", winner |-> w])
        BY <2>3 DEF UpToDate, ReadComplete
      <3> QED
        BY <1>6, <2>3, <3>1 DEF ReadComplete
    <2>4. ASSUME NEW c, ReadConfig(s, c)
          PROVE  \A x \in Scorers \ stale' : UpToDate(req[x])'
      <3>1. UpToDate([pc |-> "config", cfg |-> c])
        BY <2>4 DEF UpToDate, ReadConfig
      <3> QED
        BY <1>6, <2>4, <3>1 DEF ReadConfig
    <2> QED
      BY <1>7, <2>1, <2>2, <2>3, <2>4 DEF Read
  <1>8. ASSUME NEW s \in Scorers, Lose(s)
        PROVE  \A x \in Scorers \ stale' : UpToDate(req[x])'
    <2>1. /\ req'[s] = Idle /\ UNCHANGED <<row, log>>
          /\ \A x \in Scorers \ {s} : req'[x] = req[x]
          /\ stale' = stale \ {s}
      BY <1>8 DEF Lose, TypeOK
    <2>2. ResultDue' = ResultDue /\ Idle.pc = "idle"
      BY <2>1 DEF ResultDue, Idle
    <2> QED
      BY <1>0, <2>1, <2>2 DEF UpToDate
  <1>9. CASE UNCHANGED vars
    <2>1. ResultDue' = ResultDue
      BY <1>9 DEF ResultDue, vars
    <2> QED
      BY <1>0, <1>9, <2>1 DEF UpToDate, vars
  <1> QED
    BY <1>4, <1>5, <1>7, <1>8, <1>9 DEF ServiceNext, Write

\* A request whose row nobody has written since it was read carries what the
\* engine and the checks of match.go would give on the row as it is now.
THEOREM FreshStaysFresh == ServiceSpec => []FreshInv
  <1>1. ServiceInit => OwesInv /\ FreshInv
    BY DEF ServiceInit, Idle, OwesInv, FreshInv
  <1> QED
    BY <1>1, OwesStep, FreshStep, TypeCorrect, PTL DEF ServiceSpec

-----------------------------------------------------------------------------
(* Operations that are atomic.                                             *)

Atomically == AtomicNext \/ \E s \in stale : req'[s] # req[s]

\* A step of the service is atomic on the row and the log, or one of a client
\* that was stale.
LEMMA StepIsAtomic ==
  ASSUME TypeOK, FreshInv, [ServiceNext]_vars
  PROVE  [Atomically]_<<row, log>>
  <1>0. req \in [Scorers -> Request]
    BY DEF TypeOK
  <1>1. ASSUME NEW s \in Scorers, RunTransaction(s) PROVE AtomicNext
    BY <1>1 DEF RunTransaction, AtomicNext
  <1>2. ASSUME NEW s \in Scorers, Read(s) \/ Lose(s)
        PROVE  UNCHANGED <<row, log>>
    BY <1>2 DEF Read, Reads, ReadScore, ReadStatus, ReadComplete, ReadConfig,
                Lose
  <1>3. ASSUME NEW s \in Scorers, Write(s) PROVE Atomically
    <2>1. CASE s \in stale
      <3>1. ASSUME NEW r, Writes(s, r), r.pc # req[s].pc
            PROVE  req'[s] # req[s]
        BY <1>0, <3>1 DEF Writes
      <3>2. Idle.pc = "idle"
        BY DEF Idle
      <3>3. ASSUME Apply(s) PROVE req'[s] # req[s]
        <4> DEFINE w == ResultOf(req[s].call, row')
                   r == IF w = 0 THEN Idle
                        ELSE [pc |-> "result", winner |-> w]
        <4>1. Writes(s, r) /\ req[s].pc = "apply"
          BY <3>3 DEF Apply
        <4>2. r.pc \in {"idle", "result"}
          BY <3>2
        <4> HIDE DEF r
        <4> QED
          BY <3>1, <4>1, <4>2
      <3>4. ASSUME WriteResult(s) \/ WriteStatus(s) \/ WriteComplete(s)
                     \/ WriteConfig(s)
            PROVE  req'[s] # req[s]
        BY <3>1, <3>2, <3>4 DEF WriteResult, WriteStatus, WriteComplete,
                                WriteConfig
      <3> QED
        BY <1>3, <2>1, <3>3, <3>4 DEF Write, Atomically
    <2>2. CASE s \notin stale
      <3>1. UpToDate(req[s])
        BY <2>2, FreshMeans
      <3>2. ASSUME Apply(s) PROVE AtomicNext
        <4>1. req[s].call \in Calls
          BY <1>0, <3>2 DEF Apply, Request, Idle
        <4>2. req[s].state \in EngineResults(row, req[s].call)
          BY <3>1, <3>2 DEF Apply, UpToDate
        <4>3. ApplyEngineResult(req[s].call, req[s].state)
          BY <3>2 DEF Apply
        <4> QED
          BY <4>1, <4>2, <4>3 DEF AtomicNext, Score
      <3>3. ASSUME WriteResult(s) PROVE AtomicNext
        <4>1. req[s].winner \in Teams
          BY <1>0, <3>3 DEF WriteResult, Request, Idle
        <4> QED
          BY <3>1, <3>3, <4>1 DEF AtomicNext, RecordResult, WriteResult,
                                  UpToDate
      <3>4. ASSUME WriteStatus(s) PROVE AtomicNext
        <4>1. req[s].to \in Statuses
          BY <1>0, <3>4 DEF WriteStatus, Request, Idle
        <4>2. UpdateStatus(req[s].to)
          BY <3>1, <3>4 DEF UpdateStatus, WriteStatus, UpToDate
        <4> QED
          BY <4>1, <4>2 DEF AtomicNext
      <3>5. ASSUME WriteComplete(s) PROVE AtomicNext
        <4>1. req[s].winner \in Teams
          BY <1>0, <3>5 DEF WriteComplete, Request, Idle
        <4>2. CompleteMatch(req[s].winner)
          BY <3>1, <3>5 DEF CompleteMatch, WriteComplete, UpToDate
        <4> QED
          BY <4>1, <4>2 DEF AtomicNext
      <3>6. ASSUME WriteConfig(s) PROVE AtomicNext
        <4>1. req[s].cfg \in Configs
          BY <1>0, <3>6 DEF WriteConfig, Request, Idle
        <4>2. UpdateScoringConfig(req[s].cfg)
          BY <3>1, <3>6 DEF UpdateScoringConfig, WriteConfig, UpToDate
        <4> QED
          BY <4>1, <4>2 DEF AtomicNext
      <3> QED
        BY <1>3, <3>2, <3>3, <3>4, <3>5, <3>6 DEF Write, Atomically
    <2> QED
      BY <2>1, <2>2
  <1>4. CASE UNCHANGED vars
    BY <1>4 DEF vars
  <1> QED
    BY <1>1, <1>2, <1>3, <1>4 DEF ServiceNext, Atomically

\* With any number of clients, only a request that carries an older row does
\* anything that is not one of the promised operations on the current one: all
\* harm comes from the reads outside the row lock.
THEOREM OnlyStaleRequestsHarm == ServiceSpec => FreshRequestsAreAtomic
  <1>1. TypeOK /\ FreshInv /\ [ServiceNext]_vars => [Atomically]_<<row, log>>
    BY StepIsAtomic
  <1>2. TypeOK /\ FreshInv /\ [ServiceNext]_vars
          => [AtomicNext \/ \E s \in stale : req'[s] # req[s]]_<<row, log>>
    BY <1>1 DEF Atomically
  <1> QED
    BY <1>2, TypeCorrect, FreshStaysFresh, PTL
    DEF ServiceSpec, FreshRequestsAreAtomic

OneClient == \A a, b \in Scorers : a = b

\* One client is never stale.
Alone == OneClient /\ stale = {}

LEMMA AloneStep == Alone /\ [ServiceNext]_vars => Alone'
  <1> SUFFICES ASSUME Alone, [ServiceNext]_vars PROVE Alone'
    OBVIOUS
  <1>0. OneClient /\ OneClient' /\ stale = {}
    BY DEF Alone, OneClient
  <1>1. ASSUME NEW s \in Scorers, NEW r, Writes(s, r) PROVE stale' = {}
    BY <1>0, <1>1 DEF Writes, InFlight, OneClient
  <1>2. ASSUME NEW s \in Scorers, RunTransaction(s) \/ Write(s)
        PROVE  stale' = {}
    BY <1>1, <1>2 DEF RunTransaction, Write, Apply, WriteResult, WriteStatus,
                      WriteComplete, WriteConfig
  <1>3. ASSUME NEW s \in Scorers, Read(s) \/ Lose(s) PROVE stale' = {}
    BY <1>0, <1>3 DEF Read, Reads, ReadScore, ReadStatus, ReadComplete,
                      ReadConfig, Lose
  <1>4. stale' = {}
    BY <1>0, <1>2, <1>3 DEF ServiceNext, vars
  <1> QED
    BY <1>0, <1>4 DEF Alone

\* With one client the service implements the atomic match, although each of
\* its requests may be lost between any two of its statements: for every set
\* of calls, configurations and corrections.
THEOREM OneClientIsAtomic == OneClient /\ ServiceSpec => ImplementsAtomic
  <1>1. OneClient /\ ServiceInit => Init /\ Alone
    BY DEF ServiceInit, Alone
  <1>2. TypeOK /\ FreshInv /\ Alone /\ [ServiceNext]_vars
          => [AtomicNext]_<<row, log>>
    BY StepIsAtomic DEF Atomically, Alone
  <1> QED
    BY <1>1, <1>2, AloneStep, TypeCorrect, FreshStaysFresh, PTL
    DEF ServiceSpec, ImplementsAtomic, AtomicSpec

-----------------------------------------------------------------------------
(* What the atomic match guarantees.                                       *)

USE DEF Teams, Scores

\* The row and the log keep their types.
LEMMA AtomicStepType ==
  ASSUME AtomicTypeOK, [AtomicNext]_<<row, log>>
  PROVE  AtomicTypeOK'
  <1>1. ASSUME NEW call \in Calls, Score(call) PROVE AtomicTypeOK'
    <2>1. PICK st \in EngineResults(row, call) : ApplyEngineResult(call, st)
      BY <1>1 DEF Score
    <2>2. row \in Row /\ call \in EngineCalls
      BY CallFields DEF AtomicTypeOK
    <2>3. st \in MatchState
      BY <2>2, EngineResultType
    <2> QED
      BY <2>1, <2>3, ApplyType
  <1>2. ASSUME NEW w \in Teams, UpdateMatchResult(w) PROVE AtomicTypeOK'
    <2>1. "completed" \in Statuses
      BY DEF Statuses
    <2>2. w \in 0..2
      OBVIOUS
    <2> QED
      BY <1>2, <2>1, <2>2, StatusType DEF UpdateMatchResult
  <1>3. ASSUME NEW to \in Statuses, UpdateStatus(to) PROVE AtomicTypeOK'
    BY <1>3 DEF UpdateStatus, AtomicTypeOK, Row
  <1>4. ASSUME NEW c \in Configs, UpdateScoringConfig(c) PROVE AtomicTypeOK'
    BY <1>4, ConfigsAssumption DEF UpdateScoringConfig, AtomicTypeOK, Row
  <1>5. CASE UNCHANGED <<row, log>>
    BY <1>5 DEF AtomicTypeOK
  <1> QED
    BY <1>1, <1>2, <1>3, <1>4, <1>5, TransactionType
    DEF AtomicNext, RecordResult, CompleteMatch

\* A row as it is created is well typed.
LEMMA FirstRowType == Init => AtomicTypeOK
  <1>1. NewBoard \in Board
    <2> DEFINE p == ZeroScore
               z == 0
               n == 1
               g == <<>>
    <2>1. p \in Scores /\ z \in 0..2 /\ n \in Nat /\ g \in Seq(GameResult)
      BY DEF ZeroScore
    <2>2. NewBoard = [score |-> p, serving |-> z, server |-> z, game |-> n,
                      games |-> g]
      BY DEF NewBoard
    <2> HIDE DEF p, z, n, g
    <2> QED
      BY <2>1, <2>2 DEF Board
  <1> QED
    BY <1>1, ConfigsAssumption DEF Init, AtomicTypeOK, Row, Statuses

\* What a scoring call may do to the status, and to a paused board.
LEMMA ScoredStatus ==
  ASSUME NEW r \in Row, NEW call \in EngineCalls,
         NEW s \in EngineResults(r, call)
  PROVE  /\ r.status \in {"in_progress", "paused"}
         /\ s.status = r.status \/ s.status \in validMatchTransitions[r.status]
         /\ r.status = "paused" =>
               /\ s.board.score = r.board.score /\ s.board.game = r.board.game
               /\ s.board.games = r.board.games
  <1> DEFINE c == ParseScoringConfig(r.cfg)
             e == EngineState(r)
  <1>1. e \in MatchState /\ e.status = r.status /\ e.board \in Board
        /\ r.board \in Board /\ r.status \in Statuses
    BY EngineStateType DEF EngineState, MatchState, Row
  <1>2. /\ e.board.score = r.board.score /\ e.board.game = r.board.game
        /\ e.board.games = r.board.games
    BY <1>1 DEF EngineState, Board
  <1>3. /\ "paused" \in validMatchTransitions["in_progress"]
        /\ "completed" \in validMatchTransitions["in_progress"]
        /\ "forfeited" \in validMatchTransitions["in_progress"]
        /\ "in_progress" \in validMatchTransitions["paused"]
        /\ "forfeited" \in validMatchTransitions["paused"]
    BY DEF validMatchTransitions, Statuses
  <1> HIDE DEF c, e
  <1>4. ASSUME call.op \in {"point", "point_removed", "side_out",
                            "confirm_game_over"}
        PROVE  e.status = "in_progress" /\ s.status = "in_progress"
    <2>1. s \in Point(c, e, call.team) \cup RemovePoint(e, call.team)
                  \cup SideOut(e) \cup ConfirmGameOver(e)
      BY <1>4 DEF EngineResults, c, e
    <2> QED
      BY <1>1, <2>1 DEF Point, RemovePoint, SideOut, ConfirmGameOver,
                        MatchState
  <1>5. ASSUME call.op \in {"confirm_match_over", "timeout", "match_paused",
                            "match_resumed", "forfeit_declared"}
        PROVE  /\ s.board = e.board
               /\ \/ /\ e.status = "in_progress"
                     /\ s.status \in {"completed", "in_progress", "paused",
                                      "forfeited"}
                  \/ /\ e.status = "paused"
                     /\ s.status \in {"in_progress", "forfeited"}
    <2>1. s \in ConfirmMatchOver(e) \cup Timeout(e) \cup Pause(e)
                  \cup Resume(e) \cup Forfeit(e)
      BY <1>5 DEF EngineResults, c, e
    <2> QED
      BY <1>1, <2>1 DEF ConfirmMatchOver, Timeout, Pause, Resume, Forfeit,
                        Restatus, MatchState
  <1>6. CASE call.op \in {"point", "point_removed", "side_out",
                          "confirm_game_over"}
    BY <1>1, <1>4, <1>6
  <1>7. CASE call.op \in {"confirm_match_over", "timeout", "match_paused",
                          "match_resumed", "forfeit_declared"}
    BY <1>1, <1>2, <1>3, <1>5, <1>7
  <1> QED
    BY <1>6, <1>7 DEF EngineCalls, Call

\* The same of the row that is written.
LEMMA ScoreStep ==
  ASSUME AtomicTypeOK, NEW call \in Calls, Score(call)
  PROVE  /\ row.status \in {"in_progress", "paused"}
         /\ \/ row'.status = row.status
            \/ row'.status \in validMatchTransitions[row.status]
         /\ row'.winner = row.winner
         /\ row.status = "paused" => Tally(row'.board) = Tally(row.board)
  <1>1. PICK st \in EngineResults(row, call) : ApplyEngineResult(call, st)
    BY DEF Score
  <1>2. row \in Row /\ call \in EngineCalls
    BY CallFields DEF AtomicTypeOK
  <1>3. st \in MatchState
    BY <1>2, EngineResultType
  <1> DEFINE g == IF st.board.games = <<>> THEN row.board.games
                                           ELSE st.board.games
             b == [st.board EXCEPT !.games = g]
  <1>4. row' = Applied(row, st)
    BY <1>1 DEF ApplyEngineResult
  <1>5. /\ row'.status = st.status \/ row'.status = row.status
        /\ row'.winner = row.winner /\ row'.board = b
    BY <1>2, <1>4 DEF Applied, Row
  <1>6. b.score = st.board.score /\ b.game = st.board.game /\ b.games = g
    BY <1>3 DEF MatchState, Board
  <1>7. /\ row.status \in {"in_progress", "paused"}
        /\ st.status = row.status
           \/ st.status \in validMatchTransitions[row.status]
        /\ row.status = "paused" =>
              /\ st.board.score = row.board.score
              /\ st.board.game = row.board.game
              /\ st.board.games = row.board.games
    BY <1>2, ScoredStatus
  <1> HIDE DEF b
  <1> QED
    BY <1>5, <1>6, <1>7 DEF Tally

\* The atomic match's invariant: types, and a winner only when completed.
WonInv == AtomicTypeOK /\ WinnerMeansCompleted

\* Every atomic operation moves the status along the table.
LEMMA StepFollowsTable ==
  ASSUME AtomicTypeOK, AtomicNext, row'.status # row.status
  PROVE  \/ row'.status \in validMatchTransitions[row.status]
         \/ row.status \in {"paused", "forfeited"} /\ row'.status = "completed"
  <1>0. row \in Row
    BY DEF AtomicTypeOK
  <1>1. /\ "in_progress" \in validMatchTransitions["scheduled"]
        /\ "in_progress" \in validMatchTransitions["warmup"]
        /\ "completed" \in validMatchTransitions["in_progress"]
    BY DEF validMatchTransitions, Statuses
  <1>2. CASE Transaction
    BY <1>0, <1>1, <1>2 DEF Transaction, StartMatch, RecordEvent, Undo,
                            OverrideScore, Row
  <1>3. ASSUME NEW call \in Calls, Score(call)
        PROVE  row'.status \in validMatchTransitions[row.status]
    BY <1>3, ScoreStep
  <1>4. ASSUME NEW w \in Teams, RecordResult(w)
        PROVE  row.status = "forfeited" /\ row'.status = "completed"
    BY <1>0, <1>4 DEF RecordResult, ResultDue, UpdateMatchResult, Row
  <1>5. ASSUME NEW w \in Teams, CompleteMatch(w)
        PROVE  row.status \in {"in_progress", "paused"}
               /\ row'.status = "completed"
    BY <1>0, <1>5 DEF CompleteMatch, UpdateMatchResult, Row
  <1>6. ASSUME NEW to \in Statuses, UpdateStatus(to)
        PROVE  row'.status \in validMatchTransitions[row.status]
    BY <1>0, <1>6 DEF UpdateStatus, Row
  <1>7. ASSUME NEW c \in Configs, UpdateScoringConfig(c) PROVE FALSE
    BY <1>0, <1>7 DEF UpdateScoringConfig, Row
  <1> QED
    BY <1>1, <1>2, <1>3, <1>4, <1>5, <1>6, <1>7 DEF AtomicNext

\* The status of a match moves along validMatchTransitions, but for the two
\* further ways to completed (UpdateStatus, CompleteMatch and the engine's
\* calls, match.go).
THEOREM AtomicLifecycle == AtomicSpec => LifecycleFollowsTable
  <1>1. AtomicTypeOK /\ [AtomicNext]_<<row, log>> => AtomicTypeOK'
    BY AtomicStepType
  <1>2. AtomicTypeOK /\ [AtomicNext]_<<row, log>> =>
          [row'.status # row.status
             => \/ row'.status \in validMatchTransitions[row.status]
                \/ row.status \in {"paused", "forfeited"}
                     /\ row'.status = "completed"]_<<row, log>>
    BY StepFollowsTable
  <1> QED
    BY <1>1, <1>2, FirstRowType, PTL DEF AtomicSpec, LifecycleFollowsTable

\* While a match is paused only a correction changes its score or its games
\* (the engine, RecordEvent and Undo each ask for a match in progress).
THEOREM AtomicPauseFreezes == AtomicSpec => PauseFreezesScore
  <1>1. AtomicTypeOK /\ [AtomicNext]_<<row, log>> => AtomicTypeOK'
    BY AtomicStepType
  <1>2. ASSUME AtomicTypeOK, AtomicNext, row.status = "paused",
               Tally(row'.board) # Tally(row.board)
        PROVE  log'[Len(log')].type = "score_override"
    <2>0. row \in Row /\ log \in Seq(Event)
      BY <1>2 DEF AtomicTypeOK
    <2>1. ASSUME NEW o \in Overrides, OverrideScore(o)
          PROVE  log'[Len(log')].type = "score_override"
      <3> DEFINE e == [type |-> "score_override", team |-> 0,
                       snap |-> row'.board]
      <3>1. log'[Len(log')] = e
        BY <2>0, <2>1, LastLogged DEF OverrideScore
      <3> QED
        BY <3>1
    <2>2. ASSUME NEW call \in Calls, Score(call) PROVE FALSE
      BY <1>2, <2>2, ScoreStep
    <2>3. ASSUME row'.board = row.board PROVE FALSE
      BY <1>2, <2>3
    <2>4. CASE Transaction
      BY <1>2, <2>1, <2>4 DEF Transaction, StartMatch, RecordEvent, Undo
    <2>5. ASSUME NEW w \in Teams, UpdateMatchResult(w) PROVE FALSE
      BY <2>0, <2>3, <2>5 DEF UpdateMatchResult, Row
    <2>6. ASSUME NEW to \in Statuses, UpdateStatus(to) PROVE FALSE
      BY <2>0, <2>3, <2>6 DEF UpdateStatus, Row
    <2>7. ASSUME NEW c \in Configs, UpdateScoringConfig(c) PROVE FALSE
      BY <2>0, <2>3, <2>7 DEF UpdateScoringConfig, Row
    <2> QED
      BY <1>2, <2>2, <2>4, <2>5, <2>6, <2>7
      DEF AtomicNext, RecordResult, CompleteMatch
  <1>3. AtomicTypeOK /\ [AtomicNext]_<<row, log>> =>
          [row.status = "paused" /\ Tally(row'.board) # Tally(row.board)
             => log'[Len(log')].type = "score_override"]_<<row, log>>
    BY <1>2
  <1> QED
    BY <1>1, <1>3, FirstRowType, PTL DEF AtomicSpec, PauseFreezesScore

\* A winner is only ever shown for a completed match, whatever sequence of
\* scoring calls, corrections, forfeits and status changes led there.
THEOREM AtomicWinners == AtomicSpec => []WinnerMeansCompleted
  <1>1. Init => WonInv
    BY FirstRowType DEF Init, WonInv, WinnerMeansCompleted
  <1>2. WonInv /\ [AtomicNext]_<<row, log>> => WonInv'
    <2> SUFFICES ASSUME WonInv, [AtomicNext]_<<row, log>> PROVE WonInv'
      OBVIOUS
    <2>0. AtomicTypeOK /\ AtomicTypeOK' /\ row \in Row
      BY AtomicStepType DEF WonInv, AtomicTypeOK
    <2>1. row.winner # 0 => row.status = "completed"
      BY DEF WonInv, WinnerMeansCompleted
    <2>2. validMatchTransitions["completed"] = {}
      BY DEF validMatchTransitions, Statuses
    <2>3. ASSUME NEW w \in Teams, UpdateMatchResult(w)
          PROVE  row'.status = "completed"
      BY <2>0, <2>3 DEF UpdateMatchResult, Row
    <2>4. ASSUME AtomicNext, row'.winner # row.winner
          PROVE  row'.status = "completed"
      <3>1. ASSUME Transaction PROVE FALSE
        BY <2>0, <2>4, <3>1 DEF Transaction, StartMatch, RecordEvent, Undo,
                                OverrideScore, Row
      <3>2. ASSUME NEW call \in Calls, Score(call) PROVE FALSE
        BY <2>0, <2>4, <3>2, ScoreStep
      <3>3. ASSUME NEW to \in Statuses, UpdateStatus(to) PROVE FALSE
        BY <2>0, <2>4, <3>3 DEF UpdateStatus, Row
      <3>4. ASSUME NEW c \in Configs, UpdateScoringConfig(c) PROVE FALSE
        BY <2>0, <2>4, <3>4 DEF UpdateScoringConfig, Row
      <3> QED
        BY <2>3, <2>4, <3>1, <3>2, <3>3, <3>4
        DEF AtomicNext, RecordResult, CompleteMatch
    <2>5. ASSUME AtomicNext, row.status = "completed"
          PROVE  row'.status = "completed"
      BY <2>0, <2>2, <2>5, StepFollowsTable
    <2>6. CASE AtomicNext
      BY <2>0, <2>1, <2>4, <2>5, <2>6 DEF WonInv, WinnerMeansCompleted
    <2>7. CASE UNCHANGED <<row, log>>
      BY <2>0, <2>1, <2>7 DEF WonInv, WinnerMeansCompleted
    <2> QED
      BY <2>6, <2>7
  <1>3. WonInv => WinnerMeansCompleted
    BY DEF WonInv
  <1> QED
    BY <1>1, <1>2, <1>3, PTL DEF AtomicSpec

\* So one client sees a match that keeps all three promises, whichever of its
\* requests are lost midway.
THEOREM OneClientKeepsPromises ==
  OneClient /\ ServiceSpec
    => []WinnerMeansCompleted /\ LifecycleFollowsTable /\ PauseFreezesScore
  BY OneClientIsAtomic, AtomicWinners, AtomicLifecycle, AtomicPauseFreezes, PTL
  DEF ImplementsAtomic

-----------------------------------------------------------------------------
(* Points.                                                                 *)

Bonus(type, team, t) == IF type = "point" /\ team = t THEN 1 ELSE 0

\* An event adds to a team's points if it is one.
LEMMA PointsGrow ==
  ASSUME log \in Seq(Event), NEW type, NEW team, NEW board, NEW t,
         Log(type, team, board)
  PROVE  /\ PointsLogged(t) \in Nat
         /\ PointsLogged(t)' = PointsLogged(t) + Bonus(type, team, t)
  <1> DEFINE P(l) == {i \in DOMAIN l : l[i].type = "point" /\ l[i].team = t}
             e == [type |-> type, team |-> team, snap |-> board]
             n == Len(log')
  <1>1. /\ log'[n] = e /\ n \notin DOMAIN log
        /\ DOMAIN log' = DOMAIN log \cup {n}
        /\ \A i \in DOMAIN log : log'[i] = log[i]
    BY LastLogged
  <1>2. IsFiniteSet(P(log))
    <2>1. DOMAIN log = 1..Len(log) /\ Len(log) \in Nat
      OBVIOUS
    <2>2. IsFiniteSet(1..Len(log))
      BY <2>1, FS_Interval
    <2> QED
      BY <2>1, <2>2, FS_Subset
  <1>3. n \notin P(log) /\ P(log') = IF e.type = "point" /\ e.team = t
                                   THEN P(log) \cup {n} ELSE P(log)
    BY <1>1
  <1>4. Cardinality(P(log)) \in Nat
    BY <1>2, FS_CardinalityType
  <1>5. Cardinality(P(log) \cup {n}) = Cardinality(P(log)) + 1
    <2> HIDE DEF P, n
    <2> QED
      BY <1>2, <1>3, FS_AddElement
  <1>6. e.type = type /\ e.team = team
    OBVIOUS
  <1>7. /\ PointsLogged(t) = Cardinality(P(log))
        /\ PointsLogged(t)' = Cardinality(P(log'))
    BY DEF PointsLogged
  <1> HIDE DEF P, n, e
  <1> QED
    BY <1>3, <1>4, <1>5, <1>6, <1>7 DEF Bonus

NoCorrection == \A i \in DOMAIN log : log[i].type # "score_override"

\* What keeps ScoreBackedByPoints: every board in the row, in the log and in a
\* request is backed, the latter with the point that it is about to log.
BackedInv ==
  NoCorrection => \A t \in Teams :
    /\ row.board.score[t] <= PointsLogged(t)
    /\ \A i \in DOMAIN log : log[i].snap.score[t] <= PointsLogged(t)
    /\ \A s \in Scorers : req[s].pc = "apply" =>
         req[s].state.board.score[t] <=
           PointsLogged(t) + Bonus(req[s].call.op, req[s].call.team, t)

\* A scoring call adds no more than the point that it logs.
LEMMA EngineBonus ==
  ASSUME NEW r \in Row, NEW call \in EngineCalls,
         NEW s \in EngineResults(r, call), NEW t \in Teams
  PROVE  s.board.score[t] <= r.board.score[t] + Bonus(call.op, call.team, t)
  <1> DEFINE c == ParseScoringConfig(r.cfg)
             e == EngineState(r)
             b == e.board
  <1>1. c \in Config /\ e \in MatchState /\ b \in Board
        /\ b.score = r.board.score /\ b.score[t] \in Nat
    BY ParsedType, EngineStateType DEF Row, MatchState, EngineState, Board
  <1> HIDE DEF c, e
  <1>2. CASE call.op = "point"
    <2> DEFINE a == Rallied(c, b, call.team)
    <2>1. call.team \in Teams /\ s \in Point(c, e, call.team)
      BY <1>2 DEF EngineResults, EngineCalls, Call, c, e
    <2>2. s.board = RecordGame(c, a)
      BY <1>1, <2>1 DEF Point, MatchState
    <2>3. a \in Board
      BY <1>1, <2>1, RalliedType
    <2>4. a.score = [b.score EXCEPT ![call.team] = @ + 1]
      BY <1>1 DEF Rallied, Board
    <2> HIDE DEF a
    <2>5. RecordGame(c, a).score = a.score
      BY <2>3 DEF RecordGame, Board
    <2>6. b.score \in [Teams -> Nat]
      BY <1>1 DEF Board
    <2> QED
      BY <1>1, <1>2, <2>1, <2>2, <2>4, <2>5, <2>6 DEF Bonus
  <1>3. CASE call.op = "point_removed"
    <2>1. call.team \in Teams /\ s \in RemovePoint(e, call.team)
      BY <1>3 DEF EngineResults, EngineCalls, Call, c, e
    <2>2. s.board.score = [b.score EXCEPT ![call.team] = @ - 1]
          /\ b.score \in [Teams -> Nat]
      BY <1>1, <2>1 DEF RemovePoint, MatchState, Board
    <2>3. s.board.score[t] <= b.score[t]
      BY <2>1, <2>2
    <2> QED
      BY <1>1, <1>3, <2>3 DEF Bonus
  <1>4. CASE call.op = "side_out"
    <2>1. s \in SideOut(e)
      BY <1>4 DEF EngineResults, c, e
    <2>2. s.board = ServedOut(b)
      BY <1>1, <2>1 DEF SideOut, MatchState
    <2>3. ServedOut(b).score = b.score
      BY <1>1 DEF ServedOut, Board
    <2> QED
      BY <1>1, <1>4, <2>2, <2>3 DEF Bonus
  <1>5. CASE call.op = "confirm_game_over"
    <2>1. s \in ConfirmGameOver(e)
      BY <1>5 DEF EngineResults, c, e
    <2>2. s.board = NextGame(b)
      BY <1>1, <2>1 DEF ConfirmGameOver, MatchState
    <2>3. NextGame(b).score[t] = 0
      BY <1>1 DEF NextGame, Board
    <2> QED
      BY <1>1, <1>5, <2>2, <2>3 DEF Bonus
  <1>6. CASE call.op \in {"confirm_match_over", "timeout", "match_paused",
                          "match_resumed", "forfeit_declared"}
    <2>1. s \in ConfirmMatchOver(e) \cup Timeout(e) \cup Pause(e)
                  \cup Resume(e) \cup Forfeit(e)
      BY <1>6 DEF EngineResults, c, e
    <2>2. s.board = b
      BY <1>1, <2>1 DEF ConfirmMatchOver, Timeout, Pause, Resume, Forfeit,
                        Restatus, MatchState
    <2> QED
      BY <1>1, <1>6, <2>2 DEF Bonus
  <1> QED
    BY <1>2, <1>3, <1>4, <1>5, <1>6 DEF EngineCalls, Call

\* Scores are numbers.
LEMMA ScoreInts ==
  ASSUME TypeOK, NEW t \in Teams
  PROVE  /\ row.board.score[t] \in Int
         /\ \A i \in DOMAIN log : log[i].snap.score[t] \in Int
         /\ \A s \in Scorers : req[s].pc = "apply" =>
              /\ req[s].call \in Calls /\ req[s].state \in MatchState
              /\ req[s].state.board.score[t] \in Int
  <1>1. row \in Row /\ log \in Seq(Event) /\ req \in [Scorers -> Request]
    BY DEF TypeOK, AtomicTypeOK
  <1>2. \A b \in Board : b.score[t] \in Int
    BY DEF Board
  <1>3. row.board \in Board
    BY <1>1 DEF Row
  <1>4. ASSUME NEW i \in DOMAIN log PROVE log[i].snap \in Board
    <2>1. log[i] \in Event
      BY <1>1
    <2> QED
      BY <2>1 DEF Event
  <1>5. ASSUME NEW s \in Scorers, req[s].pc = "apply"
        PROVE  req[s].call \in Calls /\ req[s].state \in MatchState
               /\ req[s].state.board \in Board
    <2>1. req[s].call \in Calls /\ req[s].state \in MatchState
      BY <1>1, <1>5 DEF Request, Idle
    <2> QED
      BY <2>1 DEF MatchState
  <1> QED
    BY <1>2, <1>3, <1>4, <1>5

\* A team's points count, whatever the log.
LEMMA PointsAreNat ==
  ASSUME log \in Seq(Event), NEW t
  PROVE  PointsLogged(t) \in Nat
  <1> DEFINE p == {i \in DOMAIN log : log[i].type = "point"
                                        /\ log[i].team = t}
  <1>1. DOMAIN log = 1..Len(log) /\ Len(log) \in Nat
    OBVIOUS
  <1>2. IsFiniteSet(1..Len(log))
    BY <1>1, FS_Interval
  <1>3. IsFiniteSet(p)
    BY <1>1, <1>2, FS_Subset
  <1>4. PointsLogged(t) = Cardinality(p)
    BY DEF PointsLogged
  <1> HIDE DEF p
  <1> QED
    BY <1>3, <1>4, FS_CardinalityType

\* A step that logs keeps the boards backed if the row and the snapshot that
\* it writes are, with the point that it logs.
LEMMA LogKeepsBacked ==
  ASSUME TypeOK, BackedInv, NEW type, NEW team, NEW board,
         Log(type, team, board),
         \A s \in Scorers : req'[s] = req[s] \/ req'[s].pc # "apply",
         type # "score_override" /\ NoCorrection =>
           \A t \in Teams :
             /\ board.score[t] \in Int /\ row'.board.score[t] \in Int
             /\ board.score[t] <= PointsLogged(t) + Bonus(type, team, t)
             /\ row'.board.score[t] <= PointsLogged(t) + Bonus(type, team, t)
  PROVE  BackedInv'
  <1> DEFINE n == Len(log')
  <1>1. log \in Seq(Event)
    BY DEF TypeOK, AtomicTypeOK
  <1>2. /\ log'[n].type = type /\ log'[n].snap = board
        /\ DOMAIN log' = DOMAIN log \cup {n}
        /\ \A i \in DOMAIN log : log'[i] = log[i]
    <2> DEFINE e == [type |-> type, team |-> team, snap |-> board]
    <2>1. /\ log'[n] = e /\ DOMAIN log' = DOMAIN log \cup {n}
          /\ \A i \in DOMAIN log : log'[i] = log[i]
      BY <1>1, LastLogged
    <2> QED
      BY <2>1
  <1> HIDE DEF n
  <1> SUFFICES ASSUME NoCorrection', NEW t \in Teams
               PROVE  /\ row'.board.score[t] <= PointsLogged(t)'
                      /\ \A i \in DOMAIN log' :
                           log'[i].snap.score[t] <= PointsLogged(t)'
                      /\ \A s \in Scorers : req'[s].pc = "apply" =>
                           req'[s].state.board.score[t] <=
                             PointsLogged(t)'
                               + Bonus(req'[s].call.op, req'[s].call.team, t)
    BY DEF BackedInv
  <1>3. type # "score_override" /\ NoCorrection
    BY <1>2 DEF NoCorrection
  <1> DEFINE p == PointsLogged(t)
             k == Bonus(type, team, t)
  <1>4. p \in Nat /\ PointsLogged(t)' = p + k /\ k \in {0, 1}
    BY <1>1, PointsGrow DEF Bonus
  <1>5. row'.board.score[t] <= p + k /\ board.score[t] <= p + k
    BY <1>3
  <1>6. /\ \A i \in DOMAIN log : log[i].snap.score[t] \in Int
                                   /\ log[i].snap.score[t] <= p
        /\ \A s \in Scorers : req[s].pc = "apply" =>
             /\ req[s].state.board.score[t] \in Int
             /\ req[s].state.board.score[t] <=
                  p + Bonus(req[s].call.op, req[s].call.team, t)
    BY <1>3, ScoreInts DEF BackedInv
  <1>7. \A op, x : Bonus(op, x, t) \in {0, 1}
    BY DEF Bonus
  <1> HIDE DEF p, k
  <1>8. \A i \in DOMAIN log' : log'[i].snap.score[t] <= p + k
    <2>1. \A i \in DOMAIN log : log[i].snap.score[t] <= p + k
      BY <1>4, <1>6
    <2> QED
      BY <1>2, <1>5, <2>1
  <1>9. ASSUME NEW s \in Scorers, req'[s].pc = "apply"
        PROVE  req'[s].state.board.score[t] <=
                 p + k + Bonus(req'[s].call.op, req'[s].call.team, t)
    <2> DEFINE a == req[s].state.board.score[t]
               m == Bonus(req[s].call.op, req[s].call.team, t)
    <2>1. req'[s] = req[s] /\ req[s].pc = "apply"
      BY <1>9
    <2>2. a \in Int /\ a <= p + m /\ m \in {0, 1}
      BY <1>6, <1>7, <2>1
    <2> HIDE DEF a, m
    <2>3. a <= p + k + m
      BY <1>4, <2>2
    <2> QED
      BY <2>1, <2>3 DEF a, m
  <1> QED
    BY <1>4, <1>5, <1>8, <1>9

\* A step that logs nothing and leaves the board alone keeps them backed if
\* what it reads is.
LEMMA ReadKeepsBacked ==
  ASSUME BackedInv, UNCHANGED log, row'.board = row.board,
         \A s \in Scorers :
           req'[s] = req[s]
             \/ (req'[s].pc = "apply" /\ NoCorrection =>
                   \A t \in Teams :
                     req'[s].state.board.score[t] <=
                       PointsLogged(t)
                         + Bonus(req'[s].call.op, req'[s].call.team, t))
  PROVE  BackedInv'
  <1>1. (NoCorrection' <=> NoCorrection)
        /\ \A t : PointsLogged(t)' = PointsLogged(t)
    BY DEF NoCorrection, PointsLogged
  <1> QED
    BY <1>1 DEF BackedInv

\* Transactions keep the boards backed.
LEMMA TransactionBacked ==
  ASSUME TypeOK, BackedInv, Transaction,
         \A s \in Scorers : req'[s] = req[s] \/ req'[s].pc # "apply"
  PROVE  BackedInv'
  <1>1. row \in Row /\ row.board \in Board /\ log \in Seq(Event)
        /\ row.board.score \in [Teams -> Nat]
    BY DEF TypeOK, AtomicTypeOK, Row, Board
  <1>2. ASSUME NoCorrection, NEW t \in Teams
        PROVE  /\ row.board.score[t] \in Int
               /\ row.board.score[t] <= PointsLogged(t)
               /\ \A type, team :
                    /\ PointsLogged(t) \in Nat
                    /\ Bonus(type, team, t) \in {0, 1}
                    /\ row.board.score[t] <=
                         PointsLogged(t) + Bonus(type, team, t)
    <2>1. row.board.score[t] \in Int /\ row.board.score[t] <= PointsLogged(t)
          /\ PointsLogged(t) \in Nat
      BY <1>1, <1>2, ScoreInts, PointsAreNat DEF BackedInv
    <2>2. \A type, team : Bonus(type, team, t) \in {0, 1}
      BY DEF Bonus
    <2> QED
      BY <2>1, <2>2
  <1>3. ASSUME NEW first \in 0..2, StartMatch(first) PROVE BackedInv'
    <2>1. row'.board.score = row.board.score
          /\ Log("match_started", 0, row'.board)
      BY <1>1, <1>3 DEF StartMatch, Row, Board
    <2> QED
      BY <1>2, <2>1, LogKeepsBacked
  <1>4. ASSUME NEW e \in Records, RecordEvent(e[1], e[2]) PROVE BackedInv'
    <2>1. /\ Log(e[1], e[2], row.board)
          /\ row'.board = RecordedBoard(row, e[1], e[2])
      BY <1>1, <1>4 DEF RecordEvent, Row
    <2>2. ASSUME NoCorrection, NEW t \in Teams
          PROVE  /\ row'.board.score[t] \in Int
                 /\ row'.board.score[t] <=
                      PointsLogged(t) + Bonus(e[1], e[2], t)
      <3>1. e \in Recordable
        BY RecordsAssumption
      <3>2. row'.board.score[t] = row.board.score[t] + Bonus(e[1], e[2], t)
        <4>1. ASSUME e[1] = "point" PROVE e[2] \in Teams
          BY <3>1, <4>1 DEF Recordable
        <4>2. CASE e[1] = "point"
          <5>1. row'.board.score = [row.board.score EXCEPT ![e[2]] = @ + 1]
            BY <1>1, <2>1, <4>2 DEF RecordedBoard, Board
          <5> QED
            BY <1>1, <4>1, <4>2, <5>1 DEF Bonus
        <4>3. CASE e[1] # "point"
          <5>1. row'.board.score = row.board.score
            BY <1>1, <2>1, <3>1, <4>3 DEF RecordedBoard, Board, Recordable
          <5> QED
            BY <1>1, <4>3, <5>1 DEF Bonus
        <4> QED
          BY <4>2, <4>3
      <3>3. Bonus(e[1], e[2], t) \in {0, 1}
        BY DEF Bonus
      <3> QED
        BY <1>2, <2>2, <3>2, <3>3
    <2> QED
      BY <1>2, <2>1, <2>2, LogKeepsBacked
  <1>5. ASSUME Undo PROVE BackedInv'
    <2>1. /\ Log("undo", 0, row.board) /\ Len(log) \in DOMAIN log
          /\ row'.board = log[Len(log)].snap
      BY <1>1, <1>5 DEF Undo, Row
    <2>2. ASSUME NoCorrection, NEW t \in Teams
          PROVE  /\ row'.board.score[t] \in Int
                 /\ row'.board.score[t] <=
                      PointsLogged(t) + Bonus("undo", 0, t)
      <3>1. /\ row'.board.score[t] \in Int
            /\ row'.board.score[t] <= PointsLogged(t)
        BY <2>1, <2>2, ScoreInts DEF BackedInv
      <3> QED
        BY <1>2, <2>2, <3>1
    <2> QED
      BY <1>2, <2>1, <2>2, LogKeepsBacked
  <1>6. ASSUME NEW o \in Overrides, OverrideScore(o) PROVE BackedInv'
    BY <1>6, LogKeepsBacked DEF OverrideScore
  <1> QED
    BY <1>3, <1>4, <1>5, <1>6 DEF Transaction

\* Every step of the service keeps them backed.
LEMMA BackedStep == TypeOK /\ BackedInv /\ [ServiceNext]_vars => BackedInv'
  <1> SUFFICES ASSUME TypeOK, BackedInv, [ServiceNext]_vars PROVE BackedInv'
    OBVIOUS
  <1>0. row \in Row /\ log \in Seq(Event)
    BY DEF TypeOK, AtomicTypeOK
  <1>1. ASSUME NEW s \in Scorers, NEW call \in Calls, ReadScore(s, call)
        PROVE  BackedInv'
    <2>1. PICK st \in EngineResults(row, call) :
            Reads(s, [pc |-> "apply", call |-> call, state |-> st])
      BY <1>1 DEF ReadScore
    <2> DEFINE r == [pc |-> "apply", call |-> call, state |-> st]
    <2>2. req'[s] = r /\ UNCHANGED <<row, log>>
          /\ \A x \in Scorers \ {s} : req'[x] = req[x]
      BY <2>1, OneReads
    <2>3. r.call = call /\ r.state = st
      OBVIOUS
    <2>4. ASSUME NoCorrection, NEW t \in Teams
          PROVE  st.board.score[t] <=
                   PointsLogged(t) + Bonus(call.op, call.team, t)
      <3> DEFINE p == PointsLogged(t)
                 k == Bonus(call.op, call.team, t)
                 a == row.board.score[t]
      <3>1. st.board.score[t] <= a + k /\ call \in EngineCalls
        BY <1>0, CallFields, EngineBonus
      <3>2. st.board.score[t] \in Int
        BY <1>0, <3>1, EngineResultType DEF MatchState, Board
      <3>3. a \in Int /\ a <= p /\ p \in Nat /\ k \in {0, 1}
        BY <1>0, <2>4, ScoreInts, PointsAreNat DEF BackedInv, Bonus
      <3> HIDE DEF p, k, a
      <3>4. st.board.score[t] <= p + k
        BY <3>1, <3>2, <3>3
      <3> QED
        BY <3>4 DEF p, k
    <2> HIDE DEF r
    <2> QED
      BY <2>2, <2>3, <2>4, ReadKeepsBacked
  <1>2. ASSUME NEW s \in Scorers, NEW r, r.pc # "apply", req'[s] = r,
               \A x \in Scorers \ {s} : req'[x] = req[x],
               UNCHANGED log, row'.board = row.board
        PROVE  BackedInv'
    BY <1>2, ReadKeepsBacked
  <1>3. ASSUME NEW s \in Scorers, Read(s) PROVE BackedInv'
    <2>1. ASSUME NEW r, r.pc # "apply", Reads(s, r) PROVE BackedInv'
      BY <1>2, <2>1, OneReads
    <2>2. ASSUME NEW to, ReadStatus(s, to) PROVE BackedInv'
      BY <2>1, <2>2 DEF ReadStatus
    <2>3. ASSUME NEW w, ReadComplete(s, w) PROVE BackedInv'
      BY <2>1, <2>3 DEF ReadComplete
    <2>4. ASSUME NEW c, ReadConfig(s, c) PROVE BackedInv'
      BY <2>1, <2>4 DEF ReadConfig
    <2> QED
      BY <1>1, <1>3, <2>2, <2>3, <2>4 DEF Read
  <1>4. Idle.pc # "apply"
    BY DEF Idle
  <1>5. ASSUME NEW s \in Scorers, Apply(s) PROVE BackedInv'
    <2> DEFINE w == ResultOf(req[s].call, row')
               r == IF w = 0 THEN Idle ELSE [pc |-> "result", winner |-> w]
               call == req[s].call
               st == req[s].state
    <2>1. Writes(s, r) /\ req[s].pc = "apply" /\ r.pc # "apply"
          /\ row' = Applied(row, st) /\ Log(call.op, call.team, row'.board)
      BY <1>4, <1>5 DEF Apply, ApplyEngineResult
    <2> HIDE DEF r
    <2>2. \A x \in Scorers : req'[x] = req[x] \/ req'[x].pc # "apply"
      BY <2>1, OneWrites
    <2>3. st \in MatchState
      BY <2>1, ScoreInts
    <2>4. row'.board.score = st.board.score
      BY <1>0, <2>1, <2>3 DEF Applied, Row, MatchState, Board
    <2>5. ASSUME NoCorrection, NEW t \in Teams
          PROVE  /\ row'.board.score[t] \in Int
                 /\ row'.board.score[t] <=
                      PointsLogged(t) + Bonus(call.op, call.team, t)
      BY <2>1, <2>4, <2>5, ScoreInts DEF BackedInv
    <2> HIDE DEF call, st
    <2> QED
      BY <2>1, <2>2, <2>5, LogKeepsBacked
  <1>6. ASSUME NEW s \in Scorers,
               WriteResult(s) \/ WriteStatus(s) \/ WriteComplete(s)
                 \/ WriteConfig(s)
        PROVE  BackedInv'
    <2>1. Writes(s, Idle) /\ UNCHANGED log /\ row'.board = row.board
      BY <1>0, <1>6 DEF WriteResult, WriteStatus, WriteComplete, WriteConfig,
                        UpdateMatchResult, Row
    <2> QED
      BY <1>2, <1>4, <2>1, OneWrites
  <1>7. ASSUME NEW s \in Scorers, RunTransaction(s) PROVE BackedInv'
    <2>1. \A x \in Scorers : req'[x] = req[x] \/ req'[x].pc # "apply"
      BY <1>4, <1>7, OneWrites DEF RunTransaction
    <2> QED
      BY <1>7, <2>1, TransactionBacked DEF RunTransaction
  <1>8. ASSUME NEW s \in Scorers, Lose(s) PROVE BackedInv'
    <2>1. /\ req'[s] = Idle /\ UNCHANGED <<row, log>>
          /\ \A x \in Scorers \ {s} : req'[x] = req[x]
      BY <1>8 DEF Lose, TypeOK
    <2> QED
      BY <1>2, <1>4, <2>1
  <1>9. CASE UNCHANGED vars
    BY <1>9, ReadKeepsBacked DEF vars
  <1> QED
    BY <1>3, <1>5, <1>6, <1>7, <1>8, <1>9 DEF ServiceNext, Write

\* Lost updates lose points and never make them: however requests overlap, a
\* team has no more points than were logged for it, until an official corrects
\* the score (match.go: applyEngineResult writes a board computed earlier).
THEOREM PointsNeverInvented == ServiceSpec => []ScoreBackedByPoints
  <1>1. ServiceInit => BackedInv
    <2> SUFFICES ASSUME ServiceInit PROVE BackedInv
      OBVIOUS
    <2>1. /\ log = <<>> /\ log \in Seq(Event)
          /\ \A t \in Teams : row.board.score[t] = 0
          /\ \A s \in Scorers : req[s].pc # "apply"
      BY DEF ServiceInit, Init, Idle, NewBoard, ZeroScore
    <2> QED
      BY <2>1, PointsAreNat DEF BackedInv
  <1>2. BackedInv => ScoreBackedByPoints
    BY DEF BackedInv, ScoreBackedByPoints, NoCorrection
  <1> QED
    BY <1>1, <1>2, BackedStep, TypeCorrect, PTL DEF ServiceSpec
=============================================================================
