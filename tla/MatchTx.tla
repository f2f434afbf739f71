------------------------------ MODULE MatchTx ------------------------------
(***************************************************************************)
(* One match in the database: its row, its event log, and what each        *)
(* operation of the match service (api/service/match.go) writes to them.   *)
(*                                                                         *)
(* The operations that read and write under one SELECT ... FOR UPDATE      *)
(* transaction are whole actions here.  The operations that read without   *)
(* the lock and write later are actions of AtomicMatch, which runs them in *)
(* one step, and of MatchService, which runs them as the code does.        *)
(***************************************************************************)
EXTENDS ScoringEngine

CONSTANTS
  HasTeams,   \* both team columns are set (a quick match has neither)
  Configs,    \* scoring configurations a client may store
  Overrides,  \* corrected score sheets an official may submit
  Calls,      \* the scoring-console calls that clients make
  Records,    \* what clients post to the generic event endpoint
  MaxEvents   \* bound on the length of the event log

VARIABLES
  row,  \* the row of table matches
  log   \* the rows of table match_events, by sequence_id

-----------------------------------------------------------------------------
Call(ops, teams, winners) == [op : ops, team : teams, winner : winners]

\* team is the request's team, winner the slot of the team whose id it names
\* as the winner; 0 where the request has none.
EngineCalls ==
  Call({"point", "point_removed", "timeout"}, Teams, {0})
    \cup Call({"side_out", "confirm_game_over", "match_paused",
               "match_resumed"}, {0}, {0})
    \cup Call({"confirm_match_over"}, {0}, 0..2)
    \cup Call({"forfeit_declared"}, Teams, 0..2)

\* What the generic event endpoint takes, <<type, team>>; a note stands for
\* every type that scores nothing.
Recordable ==
  {<<"point", 1>>, <<"point", 2>>, <<"side_out", 0>>, <<"note", 0>>}

EventTypes == {"match_started", "undo", "score_override", "note"}
                \cup {c.op : c \in EngineCalls}

\* An event's sequence_id is its index: MAX + 1 is taken under the row lock.
Event == [type : EventTypes, team : 0..2, snap : Board]

Row == [status : Statuses, board : Board, cfg : Config, winner : 0..2]

\* A correction lists completed games and at most one live game (num = 0 when
\* there is none).
Sheet == [completed : Seq(GameResult), live : [num : Nat, score : Scores]]

GameNums(games) == {games[i].num : i \in DOMAIN games}

\* The override modal lists the recorded games and the current one, so a sheet
\* leaves no game out.
ListsEveryGame(o) ==
  \E n \in 1..(Len(o.completed) + 1) :
    1..n = GameNums(o.completed)
             \cup (IF o.live.num = 0 THEN {} ELSE {o.live.num})

ASSUME HasTeamsAssumption  == HasTeams \in BOOLEAN
ASSUME ConfigsAssumption   == Configs \subseteq Config
ASSUME OverridesAssumption ==
  Overrides \subseteq Sheet /\ \A o \in Overrides : ListsEveryGame(o)
ASSUME CallsAssumption     == Calls \subseteq EngineCalls
ASSUME RecordsAssumption   == Records \subseteq Recordable
ASSUME MaxEventsAssumption == MaxEvents \in Nat

ZeroScore == [t \in Teams |-> 0]

NewBoard == [score |-> ZeroScore, serving |-> 0, server |-> 0, game |-> 1,
             games |-> <<>>]

Init ==
  /\ \E c \in Configs :
       row = [status |-> "scheduled", board |-> NewBoard, cfg |-> c,
              winner |-> 0]
  /\ log = <<>>

Log(type, team, board) ==
  /\ Len(log) < MaxEvents
  /\ log' = Append(log, [type |-> type, team |-> team, snap |-> board])

-----------------------------------------------------------------------------
(* The bridge between the row and the engine.                              *)

OrFirst(n) == IF n = 0 THEN 1 ELSE n

EngineState(r) ==
  [status |-> r.status,
   board  |-> [r.board EXCEPT !.serving = OrFirst(@), !.server = OrFirst(@)]]

EngineResults(r, call) ==
  LET c == ParseScoringConfig(r.cfg)
      s == EngineState(r)
  IN  CASE call.op = "point"              -> Point(c, s, call.team)
        [] call.op = "point_removed"      -> RemovePoint(s, call.team)
        [] call.op = "side_out"           -> SideOut(s)
        [] call.op = "confirm_game_over"  -> ConfirmGameOver(s)
        [] call.op = "confirm_match_over" -> ConfirmMatchOver(s)
        [] call.op = "timeout"            -> Timeout(s)
        [] call.op = "match_paused"       -> Pause(s)
        [] call.op = "match_resumed"      -> Resume(s)
        [] call.op = "forfeit_declared"   -> Forfeit(s)

\* The engine's state replaces the row's, except that an empty list of
\* completed games keeps set_scores, and that only the four statuses the
\* engine produces are written.
Applied(r, s) ==
  [r EXCEPT
     !.board  = [s.board EXCEPT !.games = IF @ = <<>> THEN r.board.games
                                                      ELSE @],
     !.status = IF s.status \in {"paused", "completed", "forfeited",
                                 "in_progress"}
                THEN s.status ELSE @]

\* Mutant: the event shows the engine's board, not the one written.
ApplyAndLogEngineBoard(call, s) ==
  /\ row' = Applied(row, s)
  /\ Log(call.op, call.team, s.board)

ApplyEngineResult(call, s) ==
  /\ row' = Applied(row, s)
  /\ Log(call.op, call.team, row'.board)

\* The winner inferred from the recorded games; none on a tie or if the match
\* has no teams.
InferredWinner(r) ==
  IF HasTeams /\ \E t \in Teams :
       GamesWon(r.board.games, t) > GamesWon(r.board.games, Opponent(t))
  THEN CHOOSE t \in Teams :
         GamesWon(r.board.games, t) > GamesWon(r.board.games, Opponent(t))
  ELSE 0

\* The winner the call goes on to record once its engine result r is
\* committed; 0 when it records none.
ResultOf(call, r) ==
  CASE call.op = "confirm_match_over" ->
         IF call.winner # 0 THEN call.winner ELSE InferredWinner(r)
    [] call.op = "forfeit_declared" -> call.winner
    [] OTHER -> 0

\* Mutant: the result leaves the status alone.
UpdateWinnerOnly(w) ==
  /\ row' = [row EXCEPT !.winner = w]
  /\ UNCHANGED log

UpdateMatchResult(w) ==
  /\ row' = [row EXCEPT !.status = "completed", !.winner = w]
  /\ UNCHANGED log

validMatchTransitions ==
  [s \in Statuses |->
     CASE s = "scheduled"   -> {"warmup", "in_progress", "cancelled"}
       [] s = "warmup"      -> {"in_progress", "cancelled"}
       [] s = "in_progress" -> {"paused", "completed", "cancelled",
                                "forfeited"}
       [] s = "paused"      -> {"in_progress", "cancelled", "forfeited"}
       [] OTHER             -> {}]

-----------------------------------------------------------------------------
(* The operations that hold the row lock from their read to their commit.  *)

\* Mutant: a match may be started at any time.
StartAnyMatch(first) ==
  /\ row' = [row EXCEPT !.status = "in_progress",
                        !.board.serving = IF first = 0 THEN @ ELSE first]
  /\ Log("match_started", 0, row'.board)

\* first = 0: the request names no first serving team.
StartMatch(first) ==
  /\ row.status \in {"scheduled", "warmup"}
  /\ row' = [row EXCEPT !.status = "in_progress",
                        !.board.serving = IF first = 0 THEN @ ELSE first]
  /\ Log("match_started", 0, row'.board)

Swap(n) == IF n = 1 THEN 2 ELSE 1

\* The generic event endpoint scores without the engine.
RecordedBoard(r, type, team) ==
  CASE type = "point" ->
         [r.board EXCEPT !.score[team] = @ + 1,
                         !.serving = IF r.cfg.rally THEN team ELSE @]
    [] type = "side_out" ->
         [r.board EXCEPT !.serving = Swap(@),
                         !.server  = IF @ = 0 THEN 0 ELSE Swap(@)]
    [] OTHER -> r.board

RecordEvent(type, team) ==
  /\ row.status = "in_progress"
  /\ Log(type, team, row.board)
  /\ row' = [row EXCEPT !.board = RecordedBoard(row, type, team)]

\* Mutant: undo works on a match that is not being played.
UndoAnytime ==
  /\ log # <<>>
  /\ Log("undo", 0, row.board)
  /\ row' = [row EXCEPT !.board = log[Len(log)].snap]

Undo ==
  /\ row.status = "in_progress"
  /\ log # <<>>
  /\ Log("undo", 0, row.board)
  /\ row' = [row EXCEPT !.board = log[Len(log)].snap]

HighestNum(games) ==
  CHOOSE n \in GameNums(games) : \A m \in GameNums(games) : m <= n

OverriddenBoard(b, o) ==
  IF o.live.num = 0
  THEN [b EXCEPT !.score = ZeroScore, !.game = HighestNum(o.completed),
                 !.games = o.completed]
  ELSE [b EXCEPT !.score = o.live.score, !.game = o.live.num,
                 !.games = o.completed]

\* No status is excluded: an official may correct a finished match.
OverrideScore(o) ==
  /\ row' = [row EXCEPT !.board = OverriddenBoard(@, o)]
  /\ Log("score_override", 0, row'.board)

Transaction ==
  \/ \E first \in 0..2 : StartMatch(first)
  \/ \E e \in Records : RecordEvent(e[1], e[2])
  \/ Undo
  \/ \E o \in Overrides : OverrideScore(o)

-----------------------------------------------------------------------------
\* A completed or cancelled match stays so (match.go: "no transitions allowed
\* from status").
ClosedIsFinal ==
  [][row.status \in {"completed", "cancelled"}
       => row'.status = row.status]_<<row, log>>
=============================================================================
