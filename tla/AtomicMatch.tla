---------------------------- MODULE AtomicMatch ----------------------------
(***************************************************************************)
(* What the match service promises: every operation on a match takes       *)
(* effect at one point in time, on the row as it is at that point.         *)
(***************************************************************************)
EXTENDS MatchTx

Score(call) == \E s \in EngineResults(row, call) : ApplyEngineResult(call, s)

\* The latest write was the first one of ConfirmMatchOver or DeclareForfeit.
ResultDue ==
  /\ log # <<>>
  /\ \/ log[Len(log)].type = "confirm_match_over" /\ row.status = "completed"
     \/ log[Len(log)].type = "forfeit_declared" /\ row.status = "forfeited"

\* Their second write follows at once.
RecordResult(w) == ResultDue /\ UpdateMatchResult(w)

UpdateStatus(to) ==
  /\ to \in validMatchTransitions[row.status]
  /\ row' = [row EXCEPT !.status = to]
  /\ UNCHANGED log

CompleteMatch(w) ==
  /\ row.status \in {"in_progress", "paused"}
  /\ UpdateMatchResult(w)

UpdateScoringConfig(c) ==
  /\ row.status \in {"scheduled", "warmup"}
  /\ row' = [row EXCEPT !.cfg = c]
  /\ UNCHANGED log

AtomicNext ==
  \/ Transaction
  \/ \E call \in Calls : Score(call)
  \/ \E w \in Teams : RecordResult(w) \/ CompleteMatch(w)
  \/ \E to \in Statuses : UpdateStatus(to)
  \/ \E c \in Configs : UpdateScoringConfig(c)

AtomicSpec == Init /\ [][AtomicNext]_<<row, log>>

-----------------------------------------------------------------------------
AtomicTypeOK == row \in Row /\ log \in Seq(Event)

\* A winner is only ever shown for a completed match, across the engine's
\* calls, the status endpoint, forfeits and corrections.
WinnerMeansCompleted == row.winner # 0 => row.status = "completed"

Tally(b) == <<b.score, b.game, b.games>>

\* While a match is paused its score stands: none of the scoring calls, the
\* generic event endpoint or undo moves it, only an official's correction.
PauseFreezesScore ==
  [][row.status = "paused" /\ Tally(row'.board) # Tally(row.board)
       => log'[Len(log')].type = "score_override"]_<<row, log>>

\* The status moves along validMatchTransitions, but for two more ways to
\* completed: CompleteMatch ends a paused match, and the result of a forfeit
\* replaces its status.  So nothing leads out of completed or cancelled.
LifecycleFollowsTable ==
  [][row'.status # row.status
       => \/ row'.status \in validMatchTransitions[row.status]
          \/ row.status \in {"paused", "forfeited"}
               /\ row'.status = "completed"]_<<row, log>>

Logs(type) == Len(log') = Len(log) + 1 /\ log'[Len(log')].type = type

-----------------------------------------------------------------------------
\* Refuted.  match.go: Undo "reverts the last event by restoring the snapshot
\* from the previous event".
UndoRestoresPreviousEvent ==
  [][Logs("undo") /\ Len(log) > 1
       => row'.board = log[Len(log) - 1].snap]_<<row, log>>
=============================================================================
