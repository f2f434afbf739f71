---------------------------- MODULE MatchService ----------------------------
(***************************************************************************)
(* The match service as it runs: several clients, each with at most one    *)
(* request in flight, on one match.                                        *)
(*                                                                         *)
(* A scoring request reads the row with a plain SELECT and computes the    *)
(* engine's result; applyEngineResult later takes the row lock and writes  *)
(* that result, whatever the row holds by then.  Two of them go on to a    *)
(* second write, UpdateMatchResult, in a statement of its own.  Status,    *)
(* completion and configuration requests read, check and then write.  A    *)
(* request may be lost between any two of its steps: the process stops,    *)
(* the client goes away, or the database refuses the write.                *)
(***************************************************************************)
EXTENDS AtomicMatch

CONSTANT Scorers  \* the clients

VARIABLES
  req,   \* req[s]: how far the request of s has got, and what it carries
  stale  \* history: clients whose row was written by another since they read it

vars == <<row, log, req, stale>>

Idle == [pc |-> "idle"]

Request ==
  {Idle}
    \cup [pc : {"apply"}, call : Calls, state : MatchState]
    \cup [pc : {"result"}, winner : Teams]
    \cup [pc : {"status"}, to : Statuses]
    \cup [pc : {"complete"}, winner : Teams]
    \cup [pc : {"config"}, cfg : Configs]

InFlight == {s \in Scorers : req[s].pc # "idle"}

ServiceInit ==
  /\ Init
  /\ req = [s \in Scorers |-> Idle]
  /\ stale = {}

-----------------------------------------------------------------------------
\* A step of s that reads the row (GetMatch, no lock) and passes its checks.
Reads(s, r) ==
  /\ req[s] = Idle
  /\ req' = [req EXCEPT ![s] = r]
  /\ UNCHANGED <<row, log, stale>>

\* A step of s that writes the row, after which s is at r and the others that
\* are in flight hold an old row.
Writes(s, r) ==
  /\ req' = [req EXCEPT ![s] = r]
  /\ stale' = InFlight \ {s}

ReadScore(s, call) ==
  \E st \in EngineResults(row, call) :
    Reads(s, [pc |-> "apply", call |-> call, state |-> st])

\* Mutant: a result follows even when no winner is known.
ApplyThenResult(s) ==
  /\ req[s].pc = "apply"
  /\ ApplyEngineResult(req[s].call, req[s].state)
  /\ Writes(s, [pc |-> "result", winner |-> ResultOf(req[s].call, row')])

Apply(s) ==
  /\ req[s].pc = "apply"
  /\ ApplyEngineResult(req[s].call, req[s].state)
  /\ LET w == ResultOf(req[s].call, row')
     IN  Writes(s, IF w = 0 THEN Idle ELSE [pc |-> "result", winner |-> w])

WriteResult(s) ==
  /\ req[s].pc = "result"
  /\ UpdateMatchResult(req[s].winner)
  /\ Writes(s, Idle)

\* Mutant: the transition table is not consulted.
ReadAnyStatus(s, to) == Reads(s, [pc |-> "status", to |-> to])

ReadStatus(s, to) ==
  /\ to \in validMatchTransitions[row.status]
  /\ Reads(s, [pc |-> "status", to |-> to])

WriteStatus(s) ==
  /\ req[s].pc = "status"
  /\ row' = [row EXCEPT !.status = req[s].to]
  /\ Writes(s, Idle)
  /\ UNCHANGED log

\* Mutant: any match may be completed.
ReadCompleteAny(s, w) == Reads(s, [pc |-> "complete", winner |-> w])

ReadComplete(s, w) ==
  /\ row.status \in {"in_progress", "paused"}
  /\ Reads(s, [pc |-> "complete", winner |-> w])

WriteComplete(s) ==
  /\ req[s].pc = "complete"
  /\ UpdateMatchResult(req[s].winner)
  /\ Writes(s, Idle)

\* Mutant: the configuration may change at any time.
ReadConfigAny(s, c) == Reads(s, [pc |-> "config", cfg |-> c])

ReadConfig(s, c) ==
  /\ row.status \in {"scheduled", "warmup"}
  /\ Reads(s, [pc |-> "config", cfg |-> c])

WriteConfig(s) ==
  /\ req[s].pc = "config"
  /\ row' = [row EXCEPT !.cfg = req[s].cfg]
  /\ Writes(s, Idle)
  /\ UNCHANGED log

\* A client runs a transaction from start to commit; others are in flight.
RunTransaction(s) ==
  /\ req[s] = Idle
  /\ Transaction
  /\ Writes(s, Idle)

Lose(s) ==
  /\ req[s] # Idle
  /\ req' = [req EXCEPT ![s] = Idle]
  /\ stale' = stale \ {s}
  /\ UNCHANGED <<row, log>>

Read(s) ==
  \/ \E call \in Calls : ReadScore(s, call)
  \/ \E to \in Statuses : ReadStatus(s, to)
  \/ \E w \in Teams : ReadComplete(s, w)
  \/ \E c \in Configs : ReadConfig(s, c)

Write(s) ==
  \/ Apply(s)
  \/ WriteResult(s)
  \/ WriteStatus(s)
  \/ WriteComplete(s)
  \/ WriteConfig(s)

ServiceNext ==
  \E s \in Scorers : RunTransaction(s) \/ Read(s) \/ Write(s) \/ Lose(s)

ServiceSpec == ServiceInit /\ [][ServiceNext]_vars

-----------------------------------------------------------------------------
TypeOK ==
  /\ AtomicTypeOK
  /\ req \in [Scorers -> Request]
  /\ stale \subseteq InFlight

HasEveryGameBefore(b) ==
  \A n \in 1..(b.game - 1) : \E i \in DOMAIN b.games : b.games[i].num = n

\* The row never points past a game that has no result in set_scores, however
\* stale the results that clients write back (ConfirmGameOver, Undo and
\* OverrideScore move current_game; applyEngineResult may keep set_scores).
NoSkippedGame == HasEveryGameBefore(row.board)

\* What keeps NoSkippedGame: every board in the row, in the log and in a
\* request has it.
GamesInv ==
  /\ NoSkippedGame
  /\ \A i \in DOMAIN log : HasEveryGameBefore(log[i].snap)
  /\ \A s \in Scorers : req[s].pc = "apply" =>
                          HasEveryGameBefore(req[s].state.board)

\* The event log accounts for the score: the board in the row is the snapshot
\* of the latest event, or what the generic event endpoint makes of it, or,
\* after an undo, the snapshot of the event undone.  No handler changes the
\* score without an event that shows it, whatever the interleaving.
LogExplainsBoard ==
  IF log = <<>> THEN row.board = NewBoard
  ELSE LET n == Len(log)
           e == log[n]
       IN  \/ e.type # "undo" /\ row.board = e.snap
           \/ /\ <<e.type, e.team>> \in Records
              /\ \E c \in Configs :
                   row.board = RecordedBoard([board |-> e.snap, cfg |-> c],
                                             e.type, e.team)
           \/ e.type = "undo" /\ n > 1 /\ row.board = log[n - 1].snap

PointsLogged(t) ==
  Cardinality({i \in DOMAIN log : log[i].type = "point" /\ log[i].team = t})

\* Until an official corrects the score, a team's score never exceeds the
\* number of points logged for it: lost updates lose points, never make them.
ScoreBackedByPoints ==
  (\A i \in DOMAIN log : log[i].type # "score_override") =>
    \A t \in Teams : row.board.score[t] <= PointsLogged(t)

\* What a request holds while its client is not stale: what it would read and
\* compute from the row now.
FreshInv ==
  \A s \in Scorers \ stale :
    LET r == req[s]
    IN  /\ r.pc = "apply"    => r.state \in EngineResults(row, r.call)
        /\ r.pc = "result"   => ResultDue
        /\ r.pc = "status"   => r.to \in validMatchTransitions[row.status]
        /\ r.pc = "complete" => row.status \in {"in_progress", "paused"}
        /\ r.pc = "config"   => row.status \in {"scheduled", "warmup"}

\* With one client the service keeps its promise, crashes included.
ImplementsAtomic == AtomicSpec

\* With any number of clients, a step of the service is an atomic operation on
\* the current row unless the client that takes it holds an old row: only
\* overlapping requests can break what the atomic match guarantees.
FreshRequestsAreAtomic ==
  [][AtomicNext \/ \E s \in stale : req'[s] # req[s]]_<<row, log>>

-----------------------------------------------------------------------------
(***************************************************************************)
(* Refuted: what comments of match.go say of the service.                  *)
(***************************************************************************)

\* match.go: ScorePoint "awards a point to the given team": each point a
\* scorer is told was recorded adds one to that team's score.
EveryPointCounts ==
  [][\A s \in Scorers :
       (req[s].pc = "apply" /\ req[s].call.op = "point" /\ log' # log
          /\ req'[s] # req[s]) =>
         LET t == req[s].call.team
         IN  row'.board.score[t] = row.board.score[t] + 1]_vars

\* match.go, CR-8 in ConfirmMatchOver: reject tied games "instead of silently
\* committing a completed row with NULL winner_team_id".
ConfirmedMatchHasWinner ==
  (HasTeams /\ InFlight = {} /\ row.status = "completed" /\ log # <<>>
     /\ log[Len(log)].type = "confirm_match_over") => row.winner # 0
=============================================================================
