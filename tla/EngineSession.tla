--------------------------- MODULE EngineSession ---------------------------
(***************************************************************************)
(* One referee driving the scoring engine through a match, with no other   *)
(* client: every action reads the state the previous one returned.  The    *)
(* referee may dismiss a "game over" prompt and go on scoring, and may     *)
(* remove points.                                                          *)
(***************************************************************************)
EXTENDS ScoringEngine

CONSTANTS
  Configs,    \* the configurations a match may be created with
  MaxScore,   \* bound: no team is given more points than this in a game
  MaxResults  \* bound: no more game results than this are recorded

ASSUME ConfigsAssumption == Configs \subseteq Config
ASSUME BoundsAssumption  == MaxScore \in Nat /\ MaxResults \in Nat

VARIABLES
  cfg,        \* the engine's configuration, fixed for the session
  state,      \* engine.MatchState
  prompt,     \* the Detected flags of the latest EngineResult
  careful     \* history: no score was touched once its game was recorded

vars == <<cfg, state, prompt, careful>>

b == state.board

NoPrompt == [gameOver |-> FALSE, matchOver |-> FALSE, endChange |-> FALSE]

Prompt == [gameOver : BOOLEAN, matchOver : BOOLEAN, endChange : BOOLEAN]

Recorded(n) == \E i \in DOMAIN b.games : b.games[i].num = n

\* A row as StartMatch leaves it, read by matchToEngineState: NULL serve is 1.
NewBoard(first) == [score |-> [t \in Teams |-> 0], serving |-> first,
                    server |-> 1, game |-> 1, games |-> <<>>]

Init ==
  /\ cfg \in {ParseScoringConfig(c) : c \in Configs}
  /\ \E first \in Teams :
       state = [board |-> NewBoard(first), status |-> "in_progress"]
  /\ prompt = NoPrompt
  /\ careful = TRUE

\* The flags Point returns beside the state.
PointPrompt(s) ==
  LET won == GameWinner(cfg, s.board.score) # 0
  IN  [gameOver  |-> won,
       matchOver |-> won /\ IsMatchOver(cfg, s.board.games),
       endChange |-> IsEndChange(cfg, s.board.score, s.board.game)]

DoPoint(t) ==
  /\ b.score[t] < MaxScore
  /\ Len(b.games) < MaxResults
  /\ \E s \in Point(cfg, state, t) :
       /\ state' = s
       /\ prompt' = PointPrompt(s)
  /\ careful' = (careful /\ ~Recorded(b.game))
  /\ UNCHANGED cfg

DoRemovePoint(t) ==
  /\ state' \in RemovePoint(state, t)
  /\ prompt' = NoPrompt
  /\ careful' = (careful /\ ~Recorded(b.game))
  /\ UNCHANGED cfg

\* Every other action returns no flag.
Quiet(results) ==
  /\ state' \in results
  /\ prompt' = NoPrompt
  /\ UNCHANGED <<cfg, careful>>

Next ==
  \/ \E t \in Teams : DoPoint(t) \/ DoRemovePoint(t)
  \/ Quiet(ConfirmGameOver(state))
  \/ Quiet(SideOut(state))
  \/ Quiet(ConfirmMatchOver(state))
  \/ Quiet(Timeout(state))
  \/ Quiet(Pause(state))
  \/ Quiet(Resume(state))
  \/ Quiet(Forfeit(state))

Spec == Init /\ [][Next]_vars

-----------------------------------------------------------------------------
TypeOK ==
  /\ cfg \in Config
  /\ state \in MatchState
  /\ prompt \in Prompt
  /\ careful \in BOOLEAN

\* Results are recorded in the order the games are played, none is for a game
\* the match has not reached, and none is missing: whatever the referee
\* dismissed, removed or replayed, each game before the current one has one
\* (Point appends under CurrentGameNum, which only ConfirmGameOver advances).
GamesInOrder ==
  /\ \A i, j \in DOMAIN b.games : i < j => b.games[i].num <= b.games[j].num
  /\ \A i \in DOMAIN b.games : b.games[i].num <= b.game
  /\ \A n \in 1..(b.game - 1) : Recorded(n)

\* A "game over" prompt can be acted on: ConfirmGameOver accepts the state
\* that the prompting Point returned, and moves to the next game.
PromptIsConfirmable ==
  prompt.gameOver =>
    \E s \in ConfirmGameOver(state) : s.board.game = b.game + 1

GamesWonBy(t) ==
  {b.games[i].num : i \in {j \in DOMAIN b.games : b.games[j].winner = t}}

\* A careful referee, who confirms a recorded game before touching its score
\* again, gets what the configuration promises: each game has one result, its
\* winner leads also at the point cap, and a match-over prompt means that a
\* team has won as many different games as it needs.
CarefulMatchIsSound ==
  careful =>
    /\ \A i, j \in DOMAIN b.games : b.games[i].num = b.games[j].num => i = j
    /\ \A i \in DOMAIN b.games :
         LET g == b.games[i]
         IN  g.score[g.winner] > g.score[Opponent(g.winner)]
    /\ prompt.matchOver =>
         \E t \in Teams : Cardinality(GamesWonBy(t)) >= GamesToWin(cfg)

-----------------------------------------------------------------------------
\* Refuted.  config.go: GamesToWin is "how many games a team needs to win a
\* set", so the match-over prompt needs that many different games of one team,
\* also when the referee dismisses a prompt and scores on.
MatchOverNeedsGamesWon ==
  prompt.matchOver =>
    \E t \in Teams : Cardinality(GamesWonBy(t)) >= GamesToWin(cfg)
=============================================================================
