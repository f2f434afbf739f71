-------------------------- MODULE MCEngineSession --------------------------
EXTENDS EngineSession

\* Best of three short games: first to 2, win by 2, with and without a cap at
\* 3 (where one point is enough), with rally and with side-out scoring.
MCBestOf3 ==
  [rally : BOOLEAN, pointsToWin : {2}, winBy : {2}, maxPoints : {0, 3},
   gamesPerSet : {3}]
=============================================================================
