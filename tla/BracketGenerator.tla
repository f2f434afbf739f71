-------------------------- MODULE BracketGenerator --------------------------
(***************************************************************************)
(* The bracket generator (api/bracket/generator.go): pure functions from a *)
(* number of entries to a sequence of wired matches.  An entry is its      *)
(* place in the order of seeds; 0 stands for a BYE, for a team that is not *)
(* known yet, and for a link that is absent.                               *)
(***************************************************************************)
EXTENDS Integers, Sequences, SequencesExt

Slots == 1..2

\* A match before anything is played.
NewMatch(round, teams) ==
  [round |-> round, team |-> teams, status |-> "scheduled", winner |-> 0,
   loser |-> 0, next |-> 0, slot |-> 0, loserNext |-> 0, loserSlot |-> 0]

NoTeams == [s \in Slots |-> 0]

\* Even 0-based positions feed slot 1, odd ones slot 2.
SlotOf(i) == IF i % 2 = 0 THEN 1 ELSE 2

-----------------------------------------------------------------------------
(* Single elimination.                                                     *)

\* 1 << k
Pow2[k \in Nat] == IF k = 0 THEN 1 ELSE 2 * Pow2[k - 1]

\* The number of rounds for n >= 2 entries; the bracket has Pow2[Rounds(n)]
\* places (nextPowerOfTwo).
Rounds(n) == CHOOSE r \in 1..n : Pow2[r - 1] < n /\ n <= Pow2[r]

Size(n) == Pow2[Rounds(n)]

\* Mutant: the seeds are placed from the best to the worst.
SeedsInOrder(rounds) == [p \in 1..Pow2[rounds] |-> p]

\* order[k]: the seeds of a bracket of Pow2[k] places, from top to bottom.
bracketSeedOrder(rounds) ==
  LET order[k \in Nat] ==
        IF k = 0 THEN <<1>>
        ELSE [p \in 1..Pow2[k] |->
                LET seed == order[k - 1][(p + 1) \div 2]
                IN  IF p % 2 = 1 THEN seed ELSE Pow2[k] + 1 - seed]
  IN  order[rounds]

\* The entry at a place of the first round; the places beyond n are BYEs.
Positioned(n, p) ==
  LET seed == bracketSeedOrder(Rounds(n))[p] IN IF seed <= n THEN seed ELSE 0

\* How many matches come before round r, which has Pow2[Rounds(n) - r].
Before(n, r) == Size(n) - Pow2[Rounds(n) + 1 - r]

RoundOf(n, m) == CHOOSE r \in 1..Rounds(n) : Before(n, r) < m
                                              /\ m <= Before(n, r + 1)

\* Mutant: the offset of the next round is one short.
NextNumberShort(n, r, i) == Before(n, r + 1) + i \div 2

NextNumber(n, r, i) == Before(n, r + 1) + i \div 2 + 1

GenerateSingleElimination(n) ==
  [m \in 1..(Size(n) - 1) |->
     LET r == RoundOf(n, m)
         i == m - Before(n, r) - 1
         match == NewMatch(r, IF r > 1 THEN NoTeams
                              ELSE [s \in Slots |-> Positioned(n, 2 * i + s)])
     IN  IF r = Rounds(n) THEN match
         ELSE [match EXCEPT !.next = NextNumber(n, r, i), !.slot = SlotOf(i)]]

-----------------------------------------------------------------------------
(* Double elimination: winners bracket, losers bracket, grand finals.      *)

LoserRounds(n) == IF Rounds(n) = 1 THEN 1 ELSE 2 * (Rounds(n) - 1)

\* The rounds of the losers bracket, one entry for each of its matches.
LosersBracketRounds(n) ==
  LET count[l \in 1..LoserRounds(n)] ==
        IF l = 1 THEN Size(n) \div 4
        ELSE IF l % 2 = 0 THEN count[l - 1]
        ELSE IF count[l - 1] < 2 THEN 1
        ELSE count[l - 1] \div 2
  IN  FlattenSeq([l \in 1..LoserRounds(n) |->
                    [i \in 1..count[l] |-> Rounds(n) + l]])

GenerateDoubleElimination(n) ==
  LET winners == GenerateSingleElimination(n)
      rounds  == LosersBracketRounds(n)
      w       == Len(winners)
      l       == Len(rounds)
      grand   == w + l + 1
      \* The losers of the first round only drop into the losers bracket.
      Winners(m) ==
        LET i == m - 1
            match == IF m # w THEN winners[m]
                     ELSE [winners[m] EXCEPT !.next = grand, !.slot = 1]
        IN  IF match.round = 1 /\ i \div 2 < l
            THEN [match EXCEPT !.loserNext = w + i \div 2 + 1,
                               !.loserSlot = SlotOf(i)]
            ELSE match
      Losers(k) ==
        LET i == k - 1
            nextIdx == i \div 2 + i + 1
            match == NewMatch(rounds[k], NoTeams)
        IN  IF k = l THEN [match EXCEPT !.next = grand, !.slot = 2]
            ELSE IF nextIdx < l
            THEN [match EXCEPT !.next = w + nextIdx + 1, !.slot = SlotOf(i)]
            ELSE match
  IN  [m \in 1..w |-> Winners(m)] \o [k \in 1..l |-> Losers(k)]
        \o <<NewMatch(Rounds(n) + LoserRounds(n) + 1, NoTeams)>>

-----------------------------------------------------------------------------
(* Round robin by the circle method.                                       *)

\* Mutant: the whole circle turns, the first place included.
TurnedWhole(c) == [p \in 1..Len(c) |-> c[IF p = 1 THEN Len(c) ELSE p - 1]]

\* The first place stays, the others move by one.
Turned(c) ==
  [p \in 1..Len(c) |->
     c[IF p = 1 THEN 1 ELSE IF p = 2 THEN Len(c) ELSE p - 1]]

\* An odd number is made even by a BYE.
Participants(n) == n + (n % 2)

\* Who is at which place in each round.
Circle(n) ==
  LET circle[r \in 1..(Participants(n) - 1)] ==
        IF r = 1 THEN [p \in 1..Participants(n) |-> IF p <= n THEN p ELSE 0]
        ELSE Turned(circle[r - 1])
  IN  circle

\* The k-th place meets the k-th from the end.
Opposite(n, r, k) ==
  NewMatch(r, <<Circle(n)[r][k], Circle(n)[r][Participants(n) + 1 - k]>>)

\* The matches of a round, one after the other; who meets the BYE pauses.
RoundRobinRound(n, r) ==
  LET upTo[k \in Nat] ==
        IF k = 0 THEN <<>>
        ELSE IF \E s \in Slots : Opposite(n, r, k).team[s] = 0
        THEN upTo[k - 1]
        ELSE Append(upTo[k - 1], Opposite(n, r, k))
  IN  upTo[Participants(n) \div 2]

GenerateRoundRobin(n) ==
  FlattenSeq([r \in 1..(Participants(n) - 1) |-> RoundRobinRound(n, r)])
=============================================================================
