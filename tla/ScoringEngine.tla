--------------------------- MODULE ScoringEngine ---------------------------
(***************************************************************************)
(* The scoring engine of the API (api/engine): pure functions from a match *)
(* state and a scoring action to a new match state.                        *)
(*                                                                         *)
(* An operation yields the SET of states it may return: one state when the *)
(* engine accepts the action, none when it answers errResult.  A caller    *)
(* writes \E r \in Point(c, s, t) : ..., which is disabled on an error.    *)
(***************************************************************************)
EXTENDS Integers, Sequences, FiniteSets

Teams == 1..2

Opponent(t) == 3 - t

Statuses == {"scheduled", "warmup", "in_progress", "paused",
             "completed", "cancelled", "forfeited"}

Scores == [Teams -> Nat]

GameResult == [num : Nat, score : Scores, winner : Teams]

\* The score part of a match.  serving = 0 and server = 0 stand for the NULL
\* of the serving_team and server_number columns.
Board == [score : Scores, serving : 0..2, server : 0..2, game : Nat,
          games : Seq(GameResult)]

\* engine.MatchState; IsPaused repeats the status and is left out.
MatchState == [board : Board, status : Statuses]

-----------------------------------------------------------------------------
(***************************************************************************)
(* api/engine/config.go.  A configuration is the row's settings as stored; *)
(* the fields the engine never reads (sets_to_win, freeze_at) are left     *)
(* out.                                                                    *)
(***************************************************************************)
Config == [rally : BOOLEAN, pointsToWin : Int, winBy : Int, maxPoints : Int,
           gamesPerSet : Int]

DefaultTo(n, default) == IF n <= 0 THEN default ELSE n

ParseScoringConfig(c) ==
  [c EXCEPT !.pointsToWin = DefaultTo(@, 11),
            !.winBy       = DefaultTo(@, 2),
            !.gamesPerSet = DefaultTo(@, 1)]

GamesToWin(c) == (c.gamesPerSet + 1) \div 2

\* Mutant: at the cap the game is over for whoever has enough points.
IsGameOverAtCap(c, own, other) ==
  /\ own >= c.pointsToWin
  /\ \/ c.maxPoints > 0 /\ (own >= c.maxPoints \/ other >= c.maxPoints)
     \/ own - other >= c.winBy

IsGameOver(c, own, other) ==
  /\ own >= c.pointsToWin
  /\ \/ c.maxPoints > 0 /\ own >= c.maxPoints
     \/ own - other >= c.winBy

\* The deciding game is the last possible one of a best-of-N.
IsEndChange(c, score, game) ==
  LET midpoint == (c.pointsToWin + 1) \div 2
  IN  /\ game = 2 * GamesToWin(c) - 1
      /\ \E t \in Teams : score[t] = midpoint /\ score[Opponent(t)] <= midpoint

-----------------------------------------------------------------------------
(***************************************************************************)
(* api/engine/scoring.go.                                                  *)
(***************************************************************************)

\* Team 1 is asked first, so it wins when both meet the rule.
GameWinner(c, score) ==
  IF IsGameOver(c, score[1], score[2]) THEN 1
  ELSE IF IsGameOver(c, score[2], score[1]) THEN 2
  ELSE 0

GamesWon(games, t) == Cardinality({i \in DOMAIN games : games[i].winner = t})

IsMatchOver(c, games) == \E t \in Teams : GamesWon(games, t) >= GamesToWin(c)

\* Mutant: the result is filed under the next game's number.
RecordGameUnderNext(c, b) ==
  LET w == GameWinner(c, b.score)
  IN  IF w = 0 THEN b
      ELSE [b EXCEPT !.games = Append(@, [num |-> b.game + 1,
                                          score |-> b.score, winner |-> w])]

\* The game just won is appended whether or not the list already ends with it.
RecordGame(c, b) ==
  LET w == GameWinner(c, b.score)
  IN  IF w = 0 THEN b
      ELSE [b EXCEPT !.games = Append(@, [num |-> b.game, score |-> b.score,
                                          winner |-> w])]

\* Mutant: the point goes to the other team.
RalliedForOpponent(c, b, t) == [b EXCEPT !.score[Opponent(t)] = @ + 1]

Rallied(c, b, t) ==
  [b EXCEPT !.score[t] = @ + 1,
            !.serving  = IF c.rally THEN t ELSE @,
            !.server   = IF c.rally THEN 1 ELSE @]

Point(c, s, t) ==
  IF s.status = "in_progress" /\ (c.rally \/ s.board.serving = t)
  THEN {[s EXCEPT !.board = RecordGame(c, Rallied(c, @, t))]}
  ELSE {}

ServedOut(b) ==
  IF b.server = 1
  THEN [b EXCEPT !.server = 2]
  ELSE [b EXCEPT !.server = 1, !.serving = IF @ = 1 THEN 2 ELSE 1]

SideOut(s) ==
  IF s.status = "in_progress" THEN {[s EXCEPT !.board = ServedOut(@)]} ELSE {}

\* Mutant: a score may go below zero.
RemovePointUnchecked(s, t) ==
  IF s.status = "in_progress" THEN {[s EXCEPT !.board.score[t] = @ - 1]} ELSE {}

\* The service passes the current serve as the previous one, so serve stays.
RemovePoint(s, t) ==
  IF s.status = "in_progress" /\ s.board.score[t] > 0
  THEN {[s EXCEPT !.board.score[t] = @ - 1]}
  ELSE {}

\* Mutant: the first result is taken for the last one.
FirstGame(b) == b.games[1]

LastGame(b) == b.games[Len(b.games)]

\* Mutant: the next game is numbered after the results recorded.
NextGameByResults(b) ==
  [b EXCEPT !.score   = [t \in Teams |-> 0],
            !.game    = Len(b.games) + 1,
            !.serving = Opponent(LastGame(b).winner),
            !.server  = 1]

\* The loser of the game just confirmed serves first in the next one.
NextGame(b) ==
  [b EXCEPT !.score   = [t \in Teams |-> 0],
            !.game    = @ + 1,
            !.serving = Opponent(LastGame(b).winner),
            !.server  = 1]

\* Mutant: any recorded game lets the match move on.
ConfirmAnyGame(s) ==
  IF s.status = "in_progress" /\ s.board.games # <<>>
  THEN {[s EXCEPT !.board = NextGame(@)]}
  ELSE {}

ConfirmGameOver(s) ==
  IF /\ s.status = "in_progress"
     /\ s.board.games # <<>>
     /\ LastGame(s.board).num = s.board.game
  THEN {[s EXCEPT !.board = NextGame(@)]}
  ELSE {}

Restatus(s, from, to) ==
  IF s.status \in from THEN {[s EXCEPT !.status = to]} ELSE {}

ConfirmMatchOver(s) == Restatus(s, {"in_progress"}, "completed")
Timeout(s)          == Restatus(s, {"in_progress"}, "in_progress")
Pause(s)            == Restatus(s, {"in_progress"}, "paused")
Resume(s)           == Restatus(s, {"paused"}, "in_progress")
Forfeit(s)          == Restatus(s, {"in_progress", "paused"}, "forfeited")
=============================================================================
