--------------------------- MODULE MCMatchService ---------------------------
EXTENDS MatchService, TLC

\* One point wins a game, two games win the match.
Quick(isRally) == [rally |-> isRally, pointsToWin |-> 1, winBy |-> 1,
                   maxPoints |-> 0, gamesPerSet |-> 3]
MCRally == {Quick(TRUE)}
MCBoth  == {Quick(TRUE), Quick(FALSE)}

Result(n, s1, s2, w) ==
  [num |-> n, score |-> <<s1, s2>>, winner |-> w]

\* Game 1 corrected and game 2 live, or game 1 completed and no live game.
MCOverrides ==
  {[completed |-> <<Result(1, 0, 1, 2)>>,
    live |-> [num |-> 2, score |-> <<1, 0>>]],
   [completed |-> <<Result(1, 1, 0, 1)>>,
    live |-> [num |-> 0, score |-> <<0, 0>>]]}

MCOneOverride == {CHOOSE o \in MCOverrides : o.live.num = 0}

MCAllCalls == EngineCalls

\* One call of each kind: those that differ only by the team are dropped.
MCEachKind ==
  {c \in EngineCalls : c.team # 2 /\ c.winner = 0}
    \cup Call({"confirm_match_over"}, {0}, {1})

\* The calls that move a match from game to game.
MCGameCalls ==
  Call({"point", "point_removed"}, {1}, {0})
    \cup Call({"confirm_game_over"}, {0}, {0})

\* Those and the calls that end, pause and forfeit a match.
MCBusyCalls ==
  MCGameCalls \cup Call({"confirm_match_over"}, {0}, {1})
    \cup Call({"match_paused"}, {0}, {0})

MCRecords == Recordable
MCPoint   == {<<"point", 1>>}
MCNone    == {}

ScorerSymmetry == Permutations(Scorers)
=============================================================================
