--------------------------- MODULE BracketService ---------------------------
(***************************************************************************)
(* A division's bracket (api/service/bracket.go).  An organiser generates  *)
(* it, its matches are played, and AdvanceWinner slots the teams of a      *)
(* completed match into the matches it leads to, in any order and any      *)
(* number of times, under the locks of the rows it writes.  The check that *)
(* the division has no matches comes before the transaction that inserts   *)
(* them.                                                                   *)
(***************************************************************************)
EXTENDS BracketGenerator, FiniteSets

CONSTANTS
  Organisers, \* who generates brackets
  Formats,    \* the bracket formats divisions use
  Sizes,      \* the numbers of registered teams
  MaxPlayed   \* bound: no more matches of a round robin are played

ASSUME FormatsAssumption ==
  Formats \subseteq {"single_elimination", "double_elimination", "round_robin"}
ASSUME SizesAssumption     == Sizes \subseteq Nat \ {0, 1}
ASSUME MaxPlayedAssumption == MaxPlayed \in Nat

VARIABLES
  format,   \* the division's bracket_format
  entries,  \* the number of registered teams
  matches,  \* the division's rows of table matches, by id
  checked   \* the organisers who found the division without matches

vars == <<format, entries, matches, checked>>

Init ==
  /\ format \in Formats
  /\ entries \in Sizes
  /\ matches = <<>>
  /\ checked = {}

Match ==
  [round : Nat, team : [Slots -> 0..entries],
   status : {"scheduled", "completed"}, winner : 0..entries,
   loser : 0..entries, next : 0..Len(matches), slot : 0..2,
   loserNext : 0..Len(matches), loserSlot : 0..2]

Feeders(ms, m, s) == {f \in DOMAIN ms : ms[f].next = m /\ ms[f].slot = s}

-----------------------------------------------------------------------------
Generated ==
  CASE format = "single_elimination" -> GenerateSingleElimination(entries)
    [] format = "double_elimination" -> GenerateDoubleElimination(entries)
    [] format = "round_robin"        -> GenerateRoundRobin(entries)

\* Mutant: a BYE is only noticed in the first slot.
IsByeInFirstSlot(match) ==
  match.round = 1 /\ match.next # 0 /\ match.team[1] = 0

\* A first-round match against a BYE; it has a next match.
IsBye(match) ==
  match.round = 1 /\ match.next # 0 /\ \E s \in Slots : match.team[s] = 0

ByeWinner(match) ==
  match.team[CHOOSE s \in Slots : match.team[s] # 0]

\* The third pass: BYEs are completed, and their teams are placed.
WithByes(ms) ==
  LET Passed(match) ==
        IF IsBye(match)
        THEN [match EXCEPT !.status = "completed", !.winner = ByeWinner(match)]
        ELSE match
      Placed(m, s) ==
        LET byes == {f \in Feeders(ms, m, s) : IsBye(ms[f])}
        IN  IF byes = {} THEN ms[m].team[s]
            ELSE ByeWinner(ms[CHOOSE f \in byes : TRUE])
  IN  [m \in DOMAIN ms |->
         [Passed(ms[m]) EXCEPT !.team = [s \in Slots |-> Placed(m, s)]]]

CheckNoMatches(o) ==
  /\ matches = <<>>
  /\ checked' = checked \cup {o}
  /\ UNCHANGED <<format, entries, matches>>

\* Links are match numbers of the bracket; its rows come after n others.
Linked(ms, n) ==
  LET Link(k) == IF k = 0 THEN 0 ELSE n + k
  IN  [m \in DOMAIN ms |-> [ms[m] EXCEPT !.next = Link(@),
                                         !.loserNext = Link(@)]]

GenerateBracket(o) ==
  /\ o \in checked
  /\ matches' = matches \o Linked(WithByes(Generated), Len(matches))
  /\ checked' = checked \ {o}
  /\ UNCHANGED <<format, entries>>

Elimination == format # "round_robin"

Completed == {m \in DOMAIN matches : matches[m].status = "completed"}

Playable(m) ==
  matches[m].status = "scheduled" /\ \A s \in Slots : matches[m].team[s] # 0

\* The match service completes a match in favour of the team in slot s.
CompleteMatch(m, s) ==
  /\ Playable(m)
  /\ Elimination \/ Cardinality(Completed) < MaxPlayed
  /\ matches' = [matches EXCEPT ![m].status = "completed",
                                ![m].winner = matches[m].team[s],
                                ![m].loser  = matches[m].team[3 - s]]
  /\ UNCHANGED <<format, entries, checked>>

\* Team t, if there is one, takes slot s of match m, if there is one.
Slotted(ms, m, s, t) ==
  IF m = 0 \/ t = 0 THEN ms ELSE [ms EXCEPT ![m].team[s] = t]

\* The matches once the teams of m are slotted.
Advanced(m) ==
  LET match == matches[m]
      winnerPlaced == Slotted(matches, match.next, match.slot, match.winner)
  IN  Slotted(winnerPlaced, match.loserNext, match.loserSlot, match.loser)

\* Mutant: the loser goes on.
AdvanceLoser(m) ==
  /\ matches[m].status = "completed" /\ matches[m].winner # 0
  /\ matches' = Slotted(matches, matches[m].next, matches[m].slot,
                        matches[m].loser)
  /\ UNCHANGED <<format, entries, checked>>

AdvanceWinner(m) ==
  /\ matches[m].status = "completed" /\ matches[m].winner # 0
  /\ matches' = Advanced(m)
  /\ UNCHANGED <<format, entries, checked>>

Next ==
  \/ \E o \in Organisers : CheckNoMatches(o) \/ GenerateBracket(o)
  \/ \E m \in DOMAIN matches :
       AdvanceWinner(m) \/ \E s \in Slots : CompleteMatch(m, s)

Spec == Init /\ [][Next]_vars

-----------------------------------------------------------------------------
TypeOK ==
  /\ format \in Formats
  /\ entries \in Sizes
  /\ matches \in Seq(Match)
  /\ checked \subseteq Organisers

\* A place is earned: each slot of a later round is fed by exactly one match,
\* and a team stands in it only if it won that match (the wiring of
\* GenerateSingleElimination, followed by BYEs and by AdvanceWinner).
PlacesAreEarned ==
  \A m \in DOMAIN matches : \A s \in Slots :
    Elimination /\ matches[m].round > 1 =>
      \E f \in DOMAIN matches :
        /\ Feeders(matches, m, s) = {f}
        /\ matches[m].team[s] \in {0, matches[f].winner}

\* One loss is enough: in single elimination a team that lost a match stands
\* in no match that is still to be played, and has won no later one.
OneLossIsOut ==
  format = "single_elimination" =>
    \A m, k \in DOMAIN matches :
      (matches[m].loser # 0 /\ k # m
         /\ \E s \in Slots : matches[k].team[s] = matches[m].loser)
        => matches[k].round < matches[m].round
             /\ matches[k].winner = matches[m].loser

\* Until every match is completed, one can be played or a team can be
\* advanced: no wiring, BYE or order of the calls leaves a match waiting for
\* a team that never comes.
NeverStuck ==
  matches # <<>> =>
    \/ Completed = DOMAIN matches
    \/ \E m \in DOMAIN matches :
         Playable(m) \/ (matches[m].winner # 0 /\ Advanced(m) # matches)

\* The best Pow2[k] seeds can only meet in the last k rounds, whoever wins.
TopSeedsMeetLate ==
  format = "single_elimination" =>
    \A m \in DOMAIN matches : \A k \in 0..(Rounds(entries) - 1) :
      (\A s \in Slots : matches[m].team[s] \in 1..Pow2[k])
        => matches[m].round > Rounds(entries) - k

\* In a round robin every two teams meet exactly once, and no team plays
\* twice in a round.
EveryPairMeetsOnce ==
  (format = "round_robin" /\ matches # <<>>) =>
    LET Pair(m) == {matches[m].team[s] : s \in Slots}
    IN  /\ \A t, u \in 1..entries : t # u =>
             Cardinality({m \in DOMAIN matches : Pair(m) = {t, u}}) = 1
        /\ \A m, k \in DOMAIN matches :
             m # k /\ matches[m].round = matches[k].round
               => Pair(m) \cap Pair(k) = {}
=============================================================================
