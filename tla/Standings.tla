------------------------------ MODULE Standings -------------------------------
(* The standings of a division: a recomputation reads the registrations and  *)
(* each team's matches and writes the entries one by one, without a          *)
(* transaction, while matches end and other recomputations run.              *)
EXTENDS Integers, FiniteSetsExt

CONSTANTS Runs,       \* recomputations that may be under way at a time
          TeamIds,
          Games,      \* matches of the division, as <<team 1, team 2>>
          WinPoints, LossPoints, DrawPoints,
          MaxChanges  \* bound: matches that end, teams that come and go

\* A match is between two teams.
ASSUME StandingsAssumption ==
    /\ IsFiniteSet(TeamIds) /\ IsFiniteSet(Games)
    /\ \A g \in Games : g[1] # g[2]
    /\ WinPoints \in Int /\ LossPoints \in Int /\ DrawPoints \in Int
    /\ MaxChanges \in Nat

VARIABLES result,    \* per match: 0 not completed, 1 or 2 the winner's slot,
                     \* 3 completed without a winner
          standing,  \* per team: its registration is approved, checked_in
                     \* or neither (gone)
          table,     \* the entries: a record per team, or NoEntry
          run,       \* each recomputation
          fresh,     \* history: the table was computed from what is there now
          changes    \* bound: what changed so far

standingsvars == <<result, standing, table, run, fresh, changes>>

NoEntry == [games |-> 0, points |-> 0, diff |-> 0, wins |-> 0, rank |-> 0]
NoRun == [step |-> "none", todo |-> {}, stats |-> {}, clean |-> TRUE]

Registered(status) == {t \in TeamIds : standing[t] = status}

\* A completed match counts one point of score for its winner; a draw, one for
\* both.
Played(t) == {g \in Games : result[g] # 0 /\ t \in {g[1], g[2]}}
Slot(g, t) == IF g[1] = t THEN 1 ELSE 2
Won(t) == {g \in Played(t) : result[g] = Slot(g, t)}
Drawn(t) == {g \in Played(t) : result[g] = 3}
Lost(t) == Played(t) \ (Won(t) \cup Drawn(t))

\* Mutant: team 1 of a match without a winner is taken for its loser.
StatsWithoutDraws(t) ==
    LET won == Cardinality(Won(t))
        lost == Cardinality(Played(t)) - won
    IN [team |-> t, games |-> won + lost, wins |-> won, diff |-> won - lost,
        points |-> won * WinPoints + lost * LossPoints]

Stats(t) ==
    LET won == Cardinality(Won(t))
        lost == Cardinality(Lost(t))
        drawn == Cardinality(Drawn(t))
    IN [team |-> t, games |-> won + lost + drawn, wins |-> won,
        diff |-> won - lost,
        points |-> won * WinPoints + lost * LossPoints + drawn * DrawPoints]

\* The order of sort.Slice; equal teams may come out in either order.
Above(a, b) ==
    \/ a.points > b.points
    \/ a.points = b.points /\ a.diff > b.diff
    \/ a.points = b.points /\ a.diff = b.diff /\ a.wins > b.wins

StandingsInit ==
    /\ result = [g \in Games |-> 0]
    /\ standing = [t \in TeamIds |-> "approved"]
    /\ table = [t \in TeamIds |-> NoEntry]
    /\ run = [r \in Runs |-> NoRun]
    /\ fresh = FALSE /\ changes = 0

-----------------------------------------------------------------------------
\* What changes under a recomputation spoils it and the table.
Spoiled == [r \in Runs |-> IF run[r] = NoRun THEN NoRun
                           ELSE [run[r] EXCEPT !.clean = FALSE]]

ListApproved(r) ==
    /\ run[r] = NoRun
    /\ run' = [Spoiled EXCEPT ![r] =
                 [step |-> "list", todo |-> Registered("approved"),
                  stats |-> {},
                  clean |-> \A q \in Runs \ {r} : run[q] = NoRun]]
    /\ UNCHANGED <<result, standing, table, fresh, changes>>

\* With no team the request ends here and writes nothing.
ListCheckedIn(r) ==
    LET teams == run[r].todo \cup Registered("checked_in")
    IN /\ run[r].step = "list"
       /\ run' = [run EXCEPT ![r] = IF teams = {} THEN NoRun
                                    ELSE [@ EXCEPT !.step = "read",
                                                   !.todo = teams]]
       /\ UNCHANGED <<result, standing, table, fresh, changes>>

\* The teams come from a map, in any order.
ListMatches(r, t) ==
    /\ run[r].step = "read" /\ t \in run[r].todo
    /\ run' = [run EXCEPT ![r].todo = @ \ {t},
                          ![r].stats = @ \cup {Stats(t)}]
    /\ UNCHANGED <<result, standing, table, fresh, changes>>

Sorted(stats) ==
    {q \in [1..Cardinality(stats) -> stats] :
        \A i, j \in DOMAIN q : i < j => q[i] # q[j] /\ ~Above(q[j], q[i])}

SortStats(r) ==
    /\ run[r].step = "read" /\ run[r].todo = {}
    /\ \E q \in Sorted(run[r].stats) :
         run' = [run EXCEPT ![r].stats = q, ![r].step = "write",
                            ![r].todo = DOMAIN q]
    /\ UNCHANGED <<result, standing, table, fresh, changes>>

\* The entry of the next rank; the last one ends the request.
UpsertStandingsEntry(r) ==
    LET i == CHOOSE j \in run[r].todo : \A k \in run[r].todo : j <= k
        s == run[r].stats[i]
        left == run[r].todo \ {i}
    IN /\ run[r].step = "write" /\ run[r].todo # {}
       /\ table' = [table EXCEPT ![s.team] =
                      [games |-> s.games, points |-> s.points, diff |-> s.diff,
                       wins |-> s.wins, rank |-> i]]
       /\ run' = [run EXCEPT ![r] = IF left = {} THEN NoRun
                                    ELSE [@ EXCEPT !.todo = left]]
       /\ fresh' = (left = {} /\ run[r].clean)
       /\ UNCHANGED <<result, standing, changes>>

\* The request fails or is cancelled; what is written stays.
RecomputationFails(r) ==
    /\ run[r] # NoRun
    /\ run' = [run EXCEPT ![r] = NoRun]
    /\ UNCHANGED <<result, standing, table, fresh, changes>>

Changes ==
    /\ changes < MaxChanges /\ changes' = changes + 1
    /\ run' = Spoiled /\ fresh' = FALSE /\ UNCHANGED table

\* A match is completed, with a winner or without, and may be completed anew
\* by a correction; a team's registration changes.
MatchEnds(g, w) ==
    /\ result[g] # w
    /\ result' = [result EXCEPT ![g] = w]
    /\ Changes /\ UNCHANGED standing

RegistrationChanges(t, s) ==
    /\ standing[t] # s
    /\ standing' = [standing EXCEPT ![t] = s]
    /\ Changes /\ UNCHANGED result

StandingsNext ==
    \/ \E r \in Runs : \/ ListApproved(r) \/ ListCheckedIn(r)
                       \/ \E t \in TeamIds : ListMatches(r, t)
                       \/ SortStats(r) \/ UpsertStandingsEntry(r)
                       \/ RecomputationFails(r)
    \/ \E g \in Games, w \in 1..3 : MatchEnds(g, w)
    \/ \E t \in TeamIds, s \in {"approved", "checked_in", "gone"} :
         RegistrationChanges(t, s)

StandingsSpec == StandingsInit /\ [][StandingsNext]_standingsvars

-----------------------------------------------------------------------------
\* What a match is worth to one of its teams.
Worth(g, t) ==
    IF result[g] = 0 THEN 0
    ELSE IF result[g] = 3 THEN DrawPoints
    ELSE IF g[result[g]] = t THEN WinPoints ELSE LossPoints

Competing == {t \in TeamIds : standing[t] # "gone"}
Ranks == {table[t].rank : t \in Competing}
Ahead(t, u) == Above(table[t], table[u])

\* After a recomputation with which nothing interfered and until something
\* changes, the teams that are registered have the points of their completed
\* matches and the ranks from one to their number, the better team first.
\* (Entries of teams that have withdrawn keep what they had.)
QuietTableIsExact ==
    fresh =>
        /\ \A t \in Competing :
              LET mine == {g \in Games : t \in {g[1], g[2]}}
              IN /\ table[t].points = 
                       MapThenSumSet(LAMBDA g : Worth(g, t), mine)
                 /\ table[t].games = Cardinality({g \in mine : result[g] # 0})
        /\ Ranks = 1..Cardinality(Competing)
        /\ \A t, u \in Competing : Ahead(t, u) => table[t].rank < table[u].rank
=============================================================================
