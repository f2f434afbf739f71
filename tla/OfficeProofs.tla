---------------------------- MODULE OfficeProofs -----------------------------
(* The offices around the matches: a series (MatchSeries), the queues of the *)
(* courts (CourtQueue), the limiter of the external API (RateLimiter), and   *)
(* the registrations (Registration) and the standings (Standings) of a       *)
(* division.  They share no state, and each part below stands alone.         *)
EXTENDS MatchSeries, CourtQueue, RateLimiter, Registration, Standings, TLAPS,
        SequenceTheorems, FiniteSetTheorems, WellFoundedInduction

-----------------------------------------------------------------------------
(* MatchSeries: SeriesIsSound for any number of creators, of planned games   *)
(* and of wins that are needed.  The invariant adds the types, and that      *)
(* nothing is created before the series starts.                              *)

SeriesRow == [status : SeriesStatus, wins : [Sides -> Nat],
              winner : {0} \cup Sides]
ChildRow == [num : Nat, status : ChildStatus]

SeriesTypes ==
    /\ series \in SeriesRow
    /\ children \in Seq(ChildRow)
    /\ creating \in [Creators -> [step : {"none", "count", "insert"},
                                  num : Nat]]

NothingEarly ==
    series.status = "pending" =>
        /\ children = <<>>
        /\ \A c \in Creators : creating[c].step = "none"

SeriesInv == SeriesTypes /\ NothingEarly /\ SeriesIsSound

-----------------------------------------------------------------------------
\* A counted win changes the wins of one team by one, and nothing else
\* (RecordMatchResult, match_series.go).
LEMMA OneWinMore ==
    ASSUME series \in SeriesRow, NEW t \in Sides
    PROVE  /\ Counted(t) \in SeriesRow
           /\ Counted(t).status = series.status
           /\ Counted(t).winner = series.winner
           /\ Counted(t).wins[t] = series.wins[t] + 1
           /\ Counted(t).wins[Opposite(t)] = series.wins[Opposite(t)]
           /\ Opposite(t) \in Sides /\ Opposite(t) # t
           /\ Opposite(Opposite(t)) = t
           /\ \A u \in Sides : u = t \/ u = Opposite(t)
<1>1. Opposite(t) \in Sides /\ Opposite(t) # t
  BY DEF Sides, Opposite
<1>2. /\ \A u \in Sides : u = t \/ u = Opposite(t)
      /\ Opposite(Opposite(t)) = t
  BY DEF Sides, Opposite
<1>3. series.wins \in [Sides -> Nat] /\ series.wins[t] \in Nat
  BY DEF SeriesRow
<1> DEFINE wins == [series.wins EXCEPT ![t] = @ + 1]
<1>4. /\ wins \in [Sides -> Nat] /\ wins[t] = series.wins[t] + 1
      /\ wins[Opposite(t)] = series.wins[Opposite(t)]
  BY <1>1, <1>3
<1>5. Counted(t) = [series EXCEPT !.wins = wins]
  BY DEF Counted, SeriesRow
<1> HIDE DEF wins
<1> QED
  BY <1>1, <1>2, <1>4, <1>5 DEF SeriesRow

\* Cancelling the children that are scheduled keeps their numbers and leaves
\* none of them scheduled (CancelScheduledChildMatches, match_series.sql).
LEMMA CancelledChildren ==
    ASSUME children \in Seq(ChildRow), CancelScheduledChildMatches
    PROVE  /\ children' \in Seq(ChildRow)
           /\ DOMAIN children' = DOMAIN children
           /\ \A i \in DOMAIN children : /\ children'[i].num = children[i].num
                                         /\ children'[i].status # "scheduled"
<1>1. \A i \in DOMAIN children : children[i] \in ChildRow
  OBVIOUS
<1>2. \A i \in DOMAIN children :
         /\ children'[i] \in ChildRow
         /\ children'[i].num = children[i].num
         /\ children'[i].status # "scheduled"
  BY <1>1 DEF CancelScheduledChildMatches, ChildRow, ChildStatus
<1>3. DOMAIN children' = DOMAIN children /\ Len(children) \in Nat
      /\ DOMAIN children = 1..Len(children)
  BY DEF CancelScheduledChildMatches
<1>4. children' = [i \in 1..Len(children) |-> children'[i]]
  BY <1>3 DEF CancelScheduledChildMatches
<1> QED
  BY <1>2, <1>3, <1>4

\* An ended series has its result, and cancelled what was scheduled.
LEMMA EndsClean ==
    ASSUME SeriesInv, CancelScheduledChildMatches,
           series' \in SeriesRow, series'.status \in Ended, ResultStands',
           UNCHANGED <<creating, astray>>
    PROVE  SeriesInv'
<1> USE DEF SeriesInv, SeriesIsSound, SeriesTypes
<1>1. /\ children' \in Seq(ChildRow)
      /\ DOMAIN children' = DOMAIN children
      /\ \A i \in DOMAIN children : /\ children'[i].num = children[i].num
                                    /\ children'[i].status # "scheduled"
  BY CancelledChildren
<1>2. NothingEarly'
  BY DEF NothingEarly, Ended
<1>3. NothingLeftToPlay' /\ NumbersFollow'
  BY <1>1 DEF NothingLeftToPlay, NumbersFollow
<1> QED
  BY <1>1, <1>2, <1>3

-----------------------------------------------------------------------------
LEMMA SeriesStarts == SeriesInit => SeriesInv
<1> SUFFICES ASSUME SeriesInit PROVE SeriesInv
  OBVIOUS
<1> USE SeriesAssumption DEF SeriesInit
<1>1. SeriesTypes
  BY DEF SeriesTypes, SeriesRow, SeriesStatus, Sides, NotCreating
<1>2. NothingEarly
  BY DEF NothingEarly, NotCreating
<1>3. ResultStands
  BY DEF ResultStands
<1>4. NothingLeftToPlay /\ NumbersFollow
  BY DEF NothingLeftToPlay, NumbersFollow, Ended
<1> QED
  BY <1>1, <1>2, <1>3, <1>4 DEF SeriesInv, SeriesIsSound

LEMMA SeriesGoesOn == SeriesInv /\ [SeriesNext]_seriesvars => SeriesInv'
<1> SUFFICES ASSUME SeriesInv, [SeriesNext]_seriesvars PROVE SeriesInv'
  OBVIOUS
<1> USE SeriesAssumption
<1>0. /\ series \in SeriesRow /\ children \in Seq(ChildRow)
      /\ creating \in [Creators -> [step : {"none", "count", "insert"},
                                    num : Nat]]
      /\ NothingEarly /\ ResultStands /\ NothingLeftToPlay /\ NumbersFollow
  BY DEF SeriesInv, SeriesIsSound, SeriesTypes
<1>1. CASE StartSeries
  <2>1. children = <<>> /\ \A c \in Creators : creating[c].step = "none"
    BY <1>1, <1>0 DEF StartSeries, NothingEarly
  <2> DEFINE planned == [n \in 1..PlannedGames |-> Child(n)]
  <2>2. planned \in Seq(ChildRow) /\ Len(planned) = PlannedGames
        /\ DOMAIN planned = 1..PlannedGames
    BY DEF Child, ChildRow, ChildStatus
  <2>3. \A n \in 1..PlannedGames : planned[n].num = n
    BY DEF Child
  <2>4. children' = planned
    <3>1. children' = <<>> \o planned
      BY <1>1, <2>1 DEF StartSeries
    <3> HIDE DEF planned
    <3> QED
      BY <3>1, <2>2
  <2> HIDE DEF planned
  <2>5. /\ series' \in SeriesRow /\ series'.status = "in_progress"
        /\ series'.wins = series.wins /\ series'.winner = series.winner
    BY <1>1, <1>0 DEF StartSeries, SeriesRow, SeriesStatus
  <2>6. SeriesTypes' /\ NothingEarly'
    BY <1>1, <1>0, <2>2, <2>4, <2>5 DEF StartSeries, SeriesTypes, NothingEarly
  <2>7. ResultStands'
    BY <1>1, <1>0, <2>5 DEF StartSeries, ResultStands
  <2>8. NothingLeftToPlay' /\ NumbersFollow'
    BY <2>2, <2>3, <2>4, <2>5 DEF NothingLeftToPlay, NumbersFollow, Ended
  <2> QED
    BY <2>6, <2>7, <2>8 DEF SeriesInv, SeriesIsSound
<1>2. CASE CancelSeries
  <2>1. /\ series' \in SeriesRow /\ series'.status = "cancelled"
        /\ series'.wins = series.wins /\ series'.winner = series.winner
    BY <1>2, <1>0 DEF CancelSeries, SeriesRow, SeriesStatus
  <2>2. ResultStands'
    BY <1>2, <1>0, <2>1 DEF CancelSeries, ResultStands
  <2> QED
    BY <1>2, <2>1, <2>2, EndsClean DEF CancelSeries, Ended
<1>3. ASSUME NEW t \in Sides, RecordMatchResult(t) PROVE SeriesInv'
  <2> DEFINE counted == Counted(t)
  <2>1. /\ counted \in SeriesRow
        /\ counted.status = series.status /\ counted.winner = series.winner
        /\ counted.wins[t] = series.wins[t] + 1
        /\ counted.wins[Opposite(t)] = series.wins[Opposite(t)]
        /\ Opposite(t) \in Sides /\ Opposite(t) # t
        /\ \A u \in Sides : u = t \/ u = Opposite(t)
    BY <1>0, OneWinMore
  <2> HIDE DEF counted
  <2>2. /\ series.status = "in_progress" /\ series.winner = 0
        /\ series.wins[t] < GamesToWin /\ series.wins[Opposite(t)] < GamesToWin
        /\ series.wins[t] \in Nat
    BY <1>3, <1>0, <2>1 DEF RecordMatchResult, ResultStands, SeriesRow
  <2>3. CASE counted.wins[t] >= GamesToWin
    <3>1. /\ series' = [counted EXCEPT !.status = "completed", !.winner = t]
          /\ CancelScheduledChildMatches /\ UNCHANGED <<creating, astray>>
      BY <1>3, <2>3 DEF RecordMatchResult, HasWon, counted
    <3>2. /\ series' \in SeriesRow /\ series'.status = "completed"
          /\ series'.wins = counted.wins /\ series'.winner = t
      BY <2>1, <3>1 DEF SeriesRow, SeriesStatus
    <3>3. ResultStands'
      BY <2>1, <2>2, <2>3, <3>2 DEF ResultStands, Sides
    <3> QED
      BY <3>1, <3>2, <3>3, EndsClean DEF Ended
  <2>4. CASE ~(counted.wins[t] >= GamesToWin)
    <3>1. series' = counted /\ UNCHANGED <<children, creating, astray>>
      BY <1>3, <2>4 DEF RecordMatchResult, HasWon, counted
    <3>2. counted.wins[t] < GamesToWin
      BY <2>1, <2>2, <2>4
    <3>3. ResultStands'
      BY <2>1, <2>2, <3>1, <3>2 DEF ResultStands
    <3>4. SeriesTypes' /\ NothingEarly'
      BY <1>0, <2>1, <2>2, <3>1 DEF SeriesTypes, NothingEarly
    <3>5. NothingLeftToPlay' /\ NumbersFollow'
      BY <1>0, <2>1, <2>2, <3>1 DEF NothingLeftToPlay, NumbersFollow, Ended
    <3> QED
      BY <3>3, <3>4, <3>5 DEF SeriesInv, SeriesIsSound
  <2> QED
    BY <2>3, <2>4
<1>4. ASSUME NEW t \in Sides, ForfeitSeries(t) PROVE SeriesInv'
  <2>1. Opposite(t) \in Sides
    BY DEF Opposite, Sides
  <2>2. /\ series' \in SeriesRow /\ series'.status = "forfeited"
        /\ series'.wins = series.wins /\ series'.winner = Opposite(t)
    BY <1>4, <1>0, <2>1 DEF ForfeitSeries, SeriesRow, SeriesStatus
  <2>3. ResultStands'
    BY <1>4, <1>0, <2>1, <2>2 DEF ForfeitSeries, ResultStands, Sides
  <2> QED
    BY <1>4, <2>2, <2>3, EndsClean DEF ForfeitSeries, Ended
<1>5. ASSUME NEW c \in Creators,
             ReadSeries(c) \/ CountMatches(c) \/ CreationFails(c)
      PROVE  SeriesInv'
  <2>1. /\ UNCHANGED <<series, children, astray>>
        /\ creating' \in [Creators -> [step : {"none", "count", "insert"},
                                       num : Nat]]
    BY <1>5, <1>0 DEF ReadSeries, CountMatches, CreationFails, NotCreating
  <2>2. NothingEarly'
    BY <1>5, <1>0, <2>1
       DEF NothingEarly, ReadSeries, CountMatches, CreationFails, NotCreating
  <2> QED
    BY <1>0, <2>1, <2>2 DEF SeriesInv, SeriesIsSound, SeriesTypes,
       ResultStands, NothingLeftToPlay, NumbersFollow
<1>6. ASSUME NEW c \in Creators, CreateChildMatch(c) PROVE SeriesInv'
  <2> DEFINE new == Child(creating[c].num)
  <2>1. /\ new \in ChildRow /\ new.num = creating[c].num
        /\ creating[c].step = "insert" /\ UNCHANGED series
    BY <1>6, <1>0 DEF CreateChildMatch, Child, ChildRow, ChildStatus
  <2> HIDE DEF new
  <2>2. children' = Append(children, new)
    BY <1>6 DEF CreateChildMatch, new
  <2>3. /\ children' \in Seq(ChildRow) /\ Len(children') = Len(children) + 1
        /\ DOMAIN children' = 1..(Len(children) + 1)
        /\ DOMAIN children = 1..Len(children) /\ Len(children) \in Nat
        /\ \A i \in 1..Len(children) : children'[i] = children[i]
        /\ children'[Len(children) + 1] = new
    BY <1>0, <2>1, <2>2
  <2>4. /\ astray \subseteq astray'
        /\ (series.status \in Ended \/ new.num # Len(children) + 1)
              => Len(children) + 1 \in astray'
    BY <1>6, <2>1, <2>3 DEF CreateChildMatch
  <2>5. SeriesTypes'
    BY <1>6, <1>0, <2>1, <2>3 DEF CreateChildMatch, SeriesTypes, NotCreating
  <2>6. NothingEarly' /\ ResultStands'
    BY <1>0, <2>1 DEF NothingEarly, ResultStands
  <2>7. NothingLeftToPlay'
    BY <1>0, <2>1, <2>3, <2>4 DEF NothingLeftToPlay
  <2>8. NumbersFollow'
    BY <1>0, <2>1, <2>3, <2>4 DEF NumbersFollow
  <2> QED
    BY <2>5, <2>6, <2>7, <2>8 DEF SeriesInv, SeriesIsSound
<1>7. ASSUME NEW i \in DOMAIN children, PlayChild(i) PROVE SeriesInv'
  <2>1. PICK to \in ChildMoves[children[i].status] :
           children' = [children EXCEPT ![i].status = to]
    BY <1>7, Zenon DEF PlayChild
  <2>2. children[i] \in ChildRow
    BY <1>0
  <2>3. children[i].status \in ChildStatus
    BY <2>2 DEF ChildRow
  <2>4. \A s \in ChildStatus :
           ChildMoves[s] \subseteq ChildStatus \ {"scheduled"}
    BY DEF ChildStatus, ChildMoves
  <2>5. to \in ChildStatus \ {"scheduled"}
    BY <2>1, <2>4, <2>3
  <2> DEFINE child == [children[i] EXCEPT !.status = to]
  <2>6. /\ child \in ChildRow /\ child.num = children[i].num
        /\ child.status # "scheduled"
    BY <2>2, <2>5 DEF ChildRow
  <2>7. children' = [children EXCEPT ![i] = child]
    BY <2>1
  <2> HIDE DEF child
  <2>8. /\ children' \in Seq(ChildRow) /\ DOMAIN children' = DOMAIN children
        /\ children'[i] = child
        /\ \A j \in DOMAIN children \ {i} : children'[j] = children[j]
    BY <1>0, <2>6, <2>7
  <2>9. UNCHANGED <<series, creating, astray>>
    BY <1>7 DEF PlayChild
  <2>10. SeriesTypes' /\ ResultStands'
    BY <1>0, <2>8, <2>9 DEF SeriesTypes, ResultStands
  <2>11. NothingEarly'
    BY <1>0, <2>8, <2>9 DEF NothingEarly
  <2>12. NothingLeftToPlay' /\ NumbersFollow'
    BY <1>0, <2>6, <2>8, <2>9 DEF NothingLeftToPlay, NumbersFollow
  <2> QED
    BY <2>10, <2>11, <2>12 DEF SeriesInv, SeriesIsSound
<1>8. CASE UNCHANGED seriesvars
  BY <1>8, <1>0 DEF seriesvars, SeriesInv, SeriesIsSound, SeriesTypes,
     NothingEarly, ResultStands, NothingLeftToPlay, NumbersFollow
<1> QED
  BY <1>1, <1>2, <1>3, <1>4, <1>5, <1>6, <1>7, <1>8 DEF SeriesNext

\* Of any number of overlapping requests: a series ends once, for the team
\* that has the games, with nothing left to play and the children numbered in
\* their order, but for those created on a stale read.
THEOREM SeriesStaysSound == SeriesSpec => []SeriesIsSound
<1>1. SeriesInv => SeriesIsSound
  BY DEF SeriesInv
<1> QED
  BY SeriesStarts, SeriesGoesOn, <1>1, PTL DEF SeriesSpec

-----------------------------------------------------------------------------
(* CourtQueue: LineIsOrdered for any number of requests, courts and matches, *)
(* and lists of any length.  The invariant adds the types, and what a        *)
(* reorder that has cleared the positions still leaves in line.              *)

MatchRow == [status : MatchStatus, court : Courts \cup {None}, pos : Nat]
CourtRequest == [op : {"court"}, row : Matches, court : Courts \cup {None}]
Reorder == [op : {"reorder"}, court : Courts, list : Lists, locked : Nat,
            cleared : SUBSET Matches, step : {"lock", "set"}]

QueueTypes ==
    /\ match \in [Matches -> MatchRow]
    /\ doing \in [Operators -> {Resting} \cup CourtRequest \cup Reorder]

Listed(r) == {r.list[i] : i \in DOMAIN r.list}

\* A reorder has locked its matches in order, and once it has cleared the
\* positions it knows every match in line but those that are carried.
ReordersAreSound ==
    \A o \in Operators : doing[o].op = "reorder" =>
        /\ doing[o].locked <= Len(doing[o].list)
        /\ doing[o].step = "set" =>
             /\ doing[o].locked = Len(doing[o].list)
             /\ InLine(doing[o]) \ carried \subseteq doing[o].cleared

\* After a step, x is in line on a court.
LeftInLine(x, court) ==
    /\ match'[x].court = court /\ match'[x].pos # 0
    /\ match'[x].status \notin Over

QueueInv ==
    QueueTypes /\ ReordersAreSound /\ PositionsDiffer /\ ListIsStable

-----------------------------------------------------------------------------
\* A list is a sequence of different matches.
LEMMA ListsAreSequences ==
    ASSUME MaxList \in Nat, NEW list \in Lists
    PROVE  /\ list \in Seq(Matches) /\ Len(list) \in Nat
           /\ DOMAIN list = 1..Len(list)
           /\ \A i, j \in DOMAIN list : list[i] = list[j] => i = j
<1>1. PICK n \in 1..MaxList :
        /\ list \in [1..n -> Matches]
        /\ \A i, j \in 1..n : list[i] = list[j] => i = j
  BY DEF Lists
<1>2. n \in Nat
  OBVIOUS
<1>3. list \in Seq(Matches)
  BY <1>1, <1>2, IsASeq
<1>4. Len(list) \in Nat /\ DOMAIN list = 1..Len(list)
  BY <1>3, LenProperties
<1> QED
  BY <1>1, <1>3, <1>4

\* A listed match gets its place in the list, which no other match gets
\* (ReorderQueue, court_queue.go).
LEMMA PlacesDiffer ==
    ASSUME MaxList \in Nat, NEW list \in Lists, NEW i \in DOMAIN list
    PROVE  LastPlace(list, list[i]) = i /\ i \in Nat \ {0}
<1>1. /\ DOMAIN list = 1..Len(list) /\ Len(list) \in Nat
      /\ \A j \in DOMAIN list : list[j] = list[i] => j = i
  BY ListsAreSequences
<1> DEFINE P(k) == list[k] = list[i]
                     /\ \A j \in DOMAIN list : list[j] = list[i] => j <= k
<1>2. i \in Nat \ {0} /\ P(i)
  BY <1>1
<1>3. \A k \in DOMAIN list : P(k) => k = i
  BY <1>1
<1>4. LastPlace(list, list[i]) = CHOOSE k \in DOMAIN list : P(k)
  BY DEF LastPlace
<1> HIDE DEF P
<1> QED
  BY <1>2, <1>3, <1>4

\* What is known of a reorder that is under way.
LEMMA ReorderFields ==
    ASSUME MaxList \in Nat, QueueInv, NEW o \in Operators,
           doing[o].op = "reorder"
    PROVE  /\ doing[o] \in Reorder
           /\ doing[o].list \in Lists /\ doing[o].locked \in Nat
           /\ doing[o].court \in Courts /\ doing[o].cleared \subseteq Matches
           /\ DOMAIN doing[o].list = 1..Len(doing[o].list)
           /\ Len(doing[o].list) \in Nat
           /\ Listed(doing[o]) \subseteq Matches
<1>1. doing[o] \in Reorder
  BY DEF QueueInv, QueueTypes, Resting, CourtRequest
<1>2. /\ doing[o].list \in Lists /\ doing[o].locked \in Nat
      /\ doing[o].court \in Courts /\ doing[o].cleared \subseteq Matches
  BY <1>1 DEF Reorder
<1>3. doing[o].list \in Seq(Matches)
      /\ DOMAIN doing[o].list = 1..Len(doing[o].list)
      /\ Len(doing[o].list) \in Nat
  BY <1>2, ListsAreSequences
<1>4. \A i \in DOMAIN doing[o].list : doing[o].list[i] \in Matches
  BY <1>3, LenProperties
<1> QED
  BY <1>1, <1>2, <1>3, <1>4 DEF Listed

\* Once it sets positions, its matches are all on its court and still to be
\* played, because it holds their rows.
LEMMA ListedAreHere ==
    ASSUME MaxList \in Nat, QueueInv, NEW o \in Operators,
           doing[o].op = "reorder", doing[o].step = "set",
           NEW m \in Listed(doing[o])
    PROVE  match[m].court = doing[o].court /\ match[m].status \notin Over
<1>1. doing[o].locked = Len(doing[o].list)
  BY DEF QueueInv, ReordersAreSound
<1>2. DOMAIN doing[o].list = 1..doing[o].locked
  BY <1>1, ReorderFields
<1> QED
  BY <1>2 DEF Listed, QueueInv, ListIsStable

-----------------------------------------------------------------------------
\* A step that leaves the matches alone keeps the invariant if the request
\* that it moves stays sound.
LEMMA RequestMoves ==
    ASSUME MaxList \in Nat, QueueInv, NEW o \in Operators, NEW r,
           GoesOn(o, r), UNCHANGED <<match, carried>>,
           r \in {Resting} \cup CourtRequest \cup Reorder,
           r.op = "reorder" =>
             /\ r.locked <= Len(r.list)
             /\ r.step = "set" => /\ r.locked = Len(r.list)
                                  /\ InLine(r) \ carried \subseteq r.cleared
             /\ \A i \in 1..r.locked : /\ match[r.list[i]].court = r.court
                                       /\ match[r.list[i]].status \notin Over
    PROVE  QueueInv'
<1>1. /\ doing' \in [Operators -> {Resting} \cup CourtRequest \cup Reorder]
      /\ doing'[o] = r /\ \A p \in Operators \ {o} : doing'[p] = doing[p]
  BY DEF GoesOn, QueueInv, QueueTypes
<1>2. QueueTypes' /\ PositionsDiffer'
  BY <1>1 DEF QueueInv, QueueTypes, PositionsDiffer
<1>3. \A x : InLine(x)' = InLine(x)
  BY DEF InLine
<1>4. ReordersAreSound'
  BY <1>1, <1>3 DEF QueueInv, ReordersAreSound, InLine
<1>5. ListIsStable'
  BY <1>1 DEF QueueInv, ListIsStable
<1> QED
  BY <1>2, <1>4, <1>5 DEF QueueInv

LEMMA RequestEnded ==
    ASSUME MaxList \in Nat, QueueInv, NEW o \in Operators, Ends(o),
           UNCHANGED <<match, carried>>
    PROVE  QueueInv'
<1>1. Resting.op # "reorder"
  BY DEF Resting
<1> QED
  BY <1>1, RequestMoves DEF Ends

\* A step that changes a match keeps it if no reorder holds the match, if no
\* match comes back from its end, and if a match that changes court with a
\* position is carried.
LEMMA MatchChanges ==
    ASSUME MaxList \in Nat, QueueInv, QueueTypes', carried \subseteq carried',
           NEW m \in Matches,
           \A p \in Operators :
             doing'[p] = Resting \/ (doing'[p] = doing[p] /\ m \notin Held(p)),
           \A x \in Matches \ {m} : match'[x] = match[x],
           match'[m].pos = match[m].pos,
           match[m].status \in Over => match'[m].status \in Over,
           match'[m].court # match[m].court /\ match[m].pos # 0
             => m \in carried'
    PROVE  QueueInv'
<1>1. Resting.op # "reorder"
  BY DEF Resting
<1>2. ASSUME NEW p \in Operators, doing'[p].op = "reorder"
      PROVE  /\ doing'[p] = doing[p] /\ doing[p].op = "reorder"
             /\ \A i \in 1..doing[p].locked :
                  /\ doing[p].list[i] # m
                  /\ match'[doing[p].list[i]] = match[doing[p].list[i]]
  <2>1. doing'[p] = doing[p] /\ doing[p].op = "reorder" /\ m \notin Held(p)
    BY <1>1, <1>2
  <2>2. 1..doing[p].locked \subseteq DOMAIN doing[p].list
    BY <2>1, ReorderFields DEF QueueInv, ReordersAreSound
  <2>3. \A i \in 1..doing[p].locked : doing[p].list[i] \in Matches
    BY <2>1, <2>2, ReorderFields DEF Listed
  <2>4. \A i \in 1..doing[p].locked : doing[p].list[i] # m
    BY <2>1 DEF Held
  <2> QED
    BY <2>1, <2>3, <2>4
<1>3. ListIsStable'
  <2> SUFFICES ASSUME NEW p \in Operators, doing'[p].op = "reorder",
                      NEW i \in 1..doing'[p].locked
               PROVE  /\ match'[doing'[p].list[i]].court = doing'[p].court
                      /\ match'[doing'[p].list[i]].status \notin Over
    BY DEF ListIsStable
  <2> QED
    BY <1>2 DEF QueueInv, ListIsStable
<1>5. ReordersAreSound'
  <2> SUFFICES ASSUME NEW p \in Operators, doing'[p].op = "reorder"
               PROVE  /\ doing'[p].locked <= Len(doing'[p].list)
                      /\ doing'[p].step = "set" =>
                           /\ doing'[p].locked = Len(doing'[p].list)
                           /\ \A x \in Matches \ carried' :
                                LeftInLine(x, doing'[p].court)
                                  => x \in doing'[p].cleared
    BY DEF ReordersAreSound, InLine, LeftInLine
  <2>1. doing'[p] = doing[p] /\ doing[p].op = "reorder"
    BY <1>2
  <2>2. ASSUME NEW x \in Matches \ carried', LeftInLine(x, doing[p].court)
        PROVE  x \in InLine(doing[p]) \ carried
    BY <2>2 DEF InLine, LeftInLine
  <2> QED
    BY <2>1, <2>2 DEF QueueInv, ReordersAreSound
<1>4. PositionsDiffer'
  BY DEF QueueInv, PositionsDiffer
<1> QED
  BY <1>3, <1>4, <1>5 DEF QueueInv

\* Assignments and removals (UpdateMatchCourt, matches.sql).
LEMMA CourtWritten ==
    ASSUME MaxList \in Nat, QueueInv, NEW o \in Operators, WriteCourt(o)
    PROVE  QueueInv'
<1> DEFINE m == doing[o].row
           court == doing[o].court
<1>1. m \in Matches /\ court \in Courts \cup {None}
  BY DEF QueueInv, QueueTypes, WriteCourt, Resting, CourtRequest, Reorder
<1>2. /\ Free(o, {m}) /\ match' = [match EXCEPT ![m].court = court]
      /\ carried' = IF match[m].pos # 0 /\ court # match[m].court
                    THEN carried \cup {m} ELSE carried
      /\ doing' = [doing EXCEPT ![o] = Resting]
  BY DEF WriteCourt, UpdateMatchCourt, Ends, GoesOn
<1> HIDE DEF m, court
<1>3. /\ match'[m].court = court /\ match'[m].pos = match[m].pos
      /\ match'[m].status = match[m].status
      /\ \A x \in Matches \ {m} : match'[x] = match[x]
  BY <1>1, <1>2 DEF QueueInv, QueueTypes, MatchRow
<1>4. QueueTypes'
  <2>1. match' \in [Matches -> MatchRow]
    BY <1>1, <1>2 DEF QueueInv, QueueTypes, MatchRow
  <2> QED
    BY <1>2, <2>1 DEF QueueInv, QueueTypes
<1>5. doing'[o] = Resting
      /\ \A p \in Operators \ {o} : doing'[p] = doing[p] /\ m \notin Held(p)
  BY <1>2 DEF QueueInv, QueueTypes, Free
<1> QED
  BY <1>1, <1>2, <1>3, <1>4, <1>5, MatchChanges

\* The match service starts and ends matches.
LEMMA MatchMoved ==
    ASSUME MaxList \in Nat, QueueInv, NEW m \in Matches, MatchMoves(m)
    PROVE  QueueInv'
<1> DEFINE next == [scheduled |-> {"in_progress", "completed"},
                    in_progress |-> {"completed"}, completed |-> {}]
<1>1. PICK to \in next[match[m].status] :
        match' = [match EXCEPT ![m].status = to]
  BY DEF MatchMoves
<1>2. match[m].status \in MatchStatus /\ match \in [Matches -> MatchRow]
  BY DEF QueueInv, QueueTypes, MatchRow
<1>3. to \in MatchStatus /\ match[m].status \notin Over
  BY <1>1, <1>2 DEF MatchStatus, Over
<1> HIDE DEF next
<1>4. /\ match'[m].pos = match[m].pos /\ match'[m].court = match[m].court
      /\ \A x \in Matches \ {m} : match'[x] = match[x]
      /\ match' \in [Matches -> MatchRow]
  BY <1>1, <1>2, <1>3 DEF MatchRow
<1>5. /\ UNCHANGED <<doing, carried>> /\ QueueTypes'
      /\ \A p \in Operators : m \notin Held(p)
  BY <1>4 DEF MatchMoves, QueueInv, QueueTypes
<1> QED
  BY <1>3, <1>4, <1>5, MatchChanges

\* The commit of a reorder: what was in line is cleared or listed, the listed
\* matches get different places, and what another reorder has still to write
\* is carried.
LEMMA Reordered ==
    ASSUME MaxList \in Nat, QueueInv, NEW o \in Operators, CommitReorder(o)
    PROVE  QueueInv'
<1> DEFINE r == doing[o]
           listed == Listed(r)
           missed == \E p \in Operators \ {o} :
                       /\ doing[p].op = "reorder" /\ doing[p].step = "set"
                       /\ doing[p].court = r.court
<1>1. /\ r.op = "reorder" /\ r.step = "set"
      /\ match' = [m \in Matches |->
                     IF m \in listed
                     THEN [match[m] EXCEPT !.pos = LastPlace(r.list, m)]
                     ELSE IF m \in r.cleared THEN [match[m] EXCEPT !.pos = 0]
                     ELSE match[m]]
      /\ carried' = (carried \ (listed \cup r.cleared))
                       \cup (IF missed THEN listed ELSE {})
      /\ doing' = [doing EXCEPT ![o] = Resting]
  BY DEF CommitReorder, Ends, GoesOn, Listed
<1>2. /\ r.list \in Lists /\ listed \subseteq Matches /\ r \in Reorder
      /\ \A m \in listed : match[m].court = r.court
                             /\ match[m].status \notin Over
      /\ InLine(r) \ carried \subseteq r.cleared
  BY <1>1, ReorderFields, ListedAreHere DEF QueueInv, ReordersAreSound
<1>3. /\ \A m \in listed : LastPlace(r.list, m) \in Nat \ {0}
      /\ \A m, n \in listed :
           LastPlace(r.list, m) = LastPlace(r.list, n) => m = n
  BY <1>2, PlacesDiffer DEF Listed
<1>4. match \in [Matches -> MatchRow]
  BY DEF QueueInv, QueueTypes
<1>5. /\ match' \in [Matches -> MatchRow]
      /\ \A m \in Matches :
           /\ match'[m].court = match[m].court
           /\ match'[m].status = match[m].status
           /\ m \in listed => match'[m].pos = LastPlace(r.list, m)
           /\ m \notin listed /\ m \in r.cleared => match'[m].pos = 0
           /\ m \notin listed /\ m \notin r.cleared
                => match'[m].pos = match[m].pos
  <2> HIDE DEF listed, missed, r
  <2>1. ASSUME NEW m \in Matches
        PROVE  /\ match'[m] \in MatchRow
               /\ match'[m].court = match[m].court
               /\ match'[m].status = match[m].status
               /\ m \in listed => match'[m].pos = LastPlace(r.list, m)
               /\ m \notin listed /\ m \in r.cleared => match'[m].pos = 0
               /\ m \notin listed /\ m \notin r.cleared
                    => match'[m].pos = match[m].pos
    <3>1. match[m] \in MatchRow
      BY <1>4
    <3>2. CASE m \in listed
      BY <1>1, <1>3, <2>1, <3>1, <3>2 DEF MatchRow
    <3>3. CASE m \notin listed
      BY <1>1, <2>1, <3>1, <3>3 DEF MatchRow
    <3> QED
      BY <3>2, <3>3
  <2>2. match' \in [Matches -> MatchRow]
    BY <1>1, <2>1
  <2> QED
    BY <2>1, <2>2
<1>6. doing'[o] = Resting /\ Resting.op # "reorder"
      /\ \A p \in Operators \ {o} : doing'[p] = doing[p]
  BY <1>1 DEF QueueInv, QueueTypes, Resting
<1>7. QueueTypes'
  BY <1>1, <1>5 DEF QueueInv, QueueTypes
<1>8. ListIsStable'
  <2> SUFFICES ASSUME NEW p \in Operators, doing'[p].op = "reorder",
                      NEW i \in 1..doing'[p].locked
               PROVE  /\ match'[doing'[p].list[i]].court = doing'[p].court
                      /\ match'[doing'[p].list[i]].status \notin Over
    BY DEF ListIsStable
  <2>1. doing'[p] = doing[p] /\ doing[p].op = "reorder"
    BY <1>6
  <2>2. i \in DOMAIN doing[p].list
    BY <2>1, ReorderFields DEF QueueInv, ReordersAreSound
  <2>3. doing[p].list[i] \in Matches
    BY <2>1, <2>2, ReorderFields DEF Listed
  <2> QED
    BY <1>5, <2>1, <2>3 DEF QueueInv, ListIsStable
\* A match in line after the commit, of whatever court, is of the list or was
\* in line before.
<1>9. ASSUME NEW m \in Matches \ carried', m \notin listed,
             match'[m].pos # 0
      PROVE  /\ m \notin carried /\ m \notin r.cleared
             /\ match'[m].pos = match[m].pos
             /\ match[m].status \in Over \/ match[m].court # r.court
  <2>1. m \notin r.cleared /\ match'[m].pos = match[m].pos
    BY <1>5, <1>9
  <2>2. m \notin carried
    BY <1>1, <1>9, <2>1
  <2>3. m \notin InLine(r)
    BY <1>2, <2>1, <2>2
  <2> QED
    BY <1>9, <2>1, <2>2, <2>3 DEF InLine
<1>10. ReordersAreSound'
  <2> SUFFICES ASSUME NEW p \in Operators, doing'[p].op = "reorder"
               PROVE  /\ doing'[p].locked <= Len(doing'[p].list)
                      /\ doing'[p].step = "set" =>
                           /\ doing'[p].locked = Len(doing'[p].list)
                           /\ \A x \in Matches \ carried' :
                                LeftInLine(x, doing'[p].court)
                                  => x \in doing'[p].cleared
    BY DEF ReordersAreSound, InLine, LeftInLine
  <2>1. doing'[p] = doing[p] /\ doing[p].op = "reorder" /\ p # o
    BY <1>6
  <2>2. ASSUME doing[p].step = "set", NEW m \in Matches \ carried',
               LeftInLine(m, doing[p].court)
        PROVE  m \in doing[p].cleared
    <3>1. m \notin listed
      <4>1. ASSUME m \in listed PROVE FALSE
        <5>1. doing[p].court = r.court
          BY <1>2, <1>5, <2>2, <4>1 DEF LeftInLine
        <5>2. missed
          BY <2>1, <2>2, <5>1
        <5> QED
          BY <1>1, <2>2, <4>1, <5>2
      <4> QED
        BY <4>1
    <3>2. m \notin carried /\ match[m].pos # 0
      BY <1>9, <2>2, <3>1 DEF LeftInLine
    <3>3. m \in InLine(doing[p])
      BY <1>5, <2>2, <3>2 DEF InLine, LeftInLine
    <3> QED
      BY <2>1, <2>2, <3>2, <3>3 DEF QueueInv, ReordersAreSound
  <2> HIDE DEF r, listed, missed
  <2> QED
    BY <2>1, <2>2 DEF QueueInv, ReordersAreSound
<1>11. PositionsDiffer'
  <2> SUFFICES ASSUME NEW m \in Matches \ carried',
                      NEW n \in Matches \ carried',
                      match'[m].court # None, match'[m].status \notin Over,
                      match'[n].court # None, match'[n].status \notin Over,
                      m # n, match'[m].court = match'[n].court,
                      match'[m].pos # 0, match'[m].pos = match'[n].pos
               PROVE  FALSE
    BY DEF PositionsDiffer
  <2>1. CASE m \in listed /\ n \in listed
    BY <1>3, <1>5, <2>1
  <2>2. CASE m \in listed /\ n \notin listed
    BY <1>2, <1>5, <1>9, <2>2
  <2>3. CASE m \notin listed /\ n \in listed
    BY <1>2, <1>5, <1>9, <2>3
  <2>4. CASE m \notin listed /\ n \notin listed
    BY <1>5, <1>9, <2>4 DEF QueueInv, PositionsDiffer
  <2> QED
    BY <2>1, <2>2, <2>3, <2>4
<1> QED
  BY <1>7, <1>8, <1>10, <1>11 DEF QueueInv

-----------------------------------------------------------------------------
\* The reads of an assignment or a removal, and the first step of a reorder.
LEMMA RequestBegins ==
    ASSUME MaxList \in Nat, QueueInv, NEW o \in Operators,
           \/ \E m \in Matches : \/ RemoveReads(o, m)
                                 \/ \E c \in Courts : AssignReads(o, m, c)
           \/ \E c \in Courts, list \in Lists : ReorderBegins(o, c, list)
    PROVE  QueueInv'
<1>1. ASSUME NEW m \in Matches, NEW c \in Courts \cup {None},
             Begins(o, [op |-> "court", row |-> m, court |-> c]),
             UNCHANGED <<match, carried>>
      PROVE  QueueInv'
  <2> DEFINE r == [op |-> "court", row |-> m, court |-> c]
  <2>1. r \in CourtRequest /\ r.op # "reorder"
    BY DEF CourtRequest
  <2>2. GoesOn(o, r)
    BY <1>1 DEF Begins, GoesOn
  <2> HIDE DEF r
  <2> QED
    BY <1>1, <2>1, <2>2, RequestMoves
<1>2. ASSUME NEW c \in Courts, NEW list \in Lists, ReorderBegins(o, c, list)
      PROVE  QueueInv'
  <2> DEFINE r == [op |-> "reorder", court |-> c, list |-> list,
                   locked |-> 0, cleared |-> {}, step |-> "lock"]
  <2>1. /\ r \in Reorder /\ r.step # "set" /\ r.locked <= Len(r.list)
        /\ 1..r.locked = {}
    BY ListsAreSequences DEF Reorder
  <2>2. GoesOn(o, r) /\ UNCHANGED <<match, carried>>
    BY <1>2 DEF ReorderBegins, Begins, GoesOn
  <2> HIDE DEF r
  <2> QED
    BY <2>1, <2>2, RequestMoves
<1> QED
  BY <1>1, <1>2 DEF RemoveReads, AssignReads

\* One more match is locked, and has passed its checks.
LEMMA Locked ==
    ASSUME MaxList \in Nat, QueueInv, NEW o \in Operators, LockNext(o)
    PROVE  QueueInv'
<1> DEFINE r == doing[o]
           m == r.list[r.locked + 1]
           next == [r EXCEPT !.locked = @ + 1]
<1>1. /\ r.op = "reorder" /\ r.step = "lock" /\ r.locked < Len(r.list)
      /\ UNCHANGED <<match, carried>>
  BY DEF LockNext
<1>2. CASE Ends(o)
  BY <1>1, <1>2, RequestEnded
<1>3. CASE match[m].court = r.court /\ match[m].status \notin Over
  <2>1. GoesOn(o, next)
    BY <1>3 DEF LockNext
  <2>2. r \in Reorder /\ r.locked \in Nat /\ Len(r.list) \in Nat
    BY <1>1, ReorderFields
  <2>3. /\ next \in Reorder /\ next.step = "lock" /\ next.list = r.list
        /\ next.court = r.court /\ next.locked = r.locked + 1
    BY <1>1, <2>2 DEF Reorder
  <2>4. ASSUME NEW i \in 1..next.locked
        PROVE  /\ match[next.list[i]].court = next.court
               /\ match[next.list[i]].status \notin Over
    <3>1. i \in 1..r.locked \/ i = r.locked + 1
      BY <2>2, <2>3
    <3>2. CASE i \in 1..r.locked
      BY <1>1, <2>3, <3>2 DEF QueueInv, ListIsStable
    <3>3. CASE i = r.locked + 1
      BY <1>3, <2>3, <3>3
    <3> QED
      BY <3>1, <3>2, <3>3
  <2> HIDE DEF next, r
  <2> QED
    BY <1>1, <2>1, <2>2, <2>3, <2>4, RequestMoves
<1> QED
  BY <1>2, <1>3 DEF LockNext

\* The positions in line are cleared, all of them.
LEMMA Cleared ==
    ASSUME MaxList \in Nat, QueueInv, NEW o \in Operators, ClearPositions(o)
    PROVE  QueueInv'
<1> DEFINE r == doing[o]
           line == InLine(r)
           next == [r EXCEPT !.cleared = line, !.step = "set"]
<1>1. /\ r.op = "reorder" /\ r.locked = Len(r.list)
      /\ GoesOn(o, next) /\ UNCHANGED <<match, carried>>
  BY DEF ClearPositions
<1>2. r \in Reorder /\ Len(r.list) \in Nat /\ line \subseteq Matches
  BY <1>1, ReorderFields DEF InLine
<1>3. \A i \in 1..r.locked : /\ match[r.list[i]].court = r.court
                             /\ match[r.list[i]].status \notin Over
  BY <1>1 DEF QueueInv, ListIsStable
<1>4. InLine(r) = line
  OBVIOUS
<1> HIDE DEF line
<1>5. /\ next \in Reorder /\ next.list = r.list /\ next.court = r.court
      /\ next.locked = r.locked /\ next.cleared = line
  BY <1>2 DEF Reorder
<1> HIDE DEF next
<1>6. InLine(next) = line
  BY <1>4, <1>5 DEF InLine
<1> HIDE DEF r
<1> QED
  BY <1>1, <1>2, <1>3, <1>5, <1>6, RequestMoves

LEMMA QueueStarts == QueueInit => QueueInv
<1> SUFFICES ASSUME QueueInit PROVE QueueInv
  OBVIOUS
<1>1. /\ \A m \in Matches : match[m].pos = 0
      /\ \A o \in Operators : doing[o].op # "reorder"
  BY DEF QueueInit, Resting
<1>2. QueueTypes
  BY DEF QueueInit, QueueTypes, MatchRow, MatchStatus
<1> QED
  BY <1>1, <1>2 DEF QueueInv, ReordersAreSound, PositionsDiffer, ListIsStable

LEMMA QueueGoesOn ==
    ASSUME MaxList \in Nat, QueueInv, [QueueNext]_queuevars
    PROVE  QueueInv'
<1>1. ASSUME NEW o \in Operators, RequestEnds(o) PROVE QueueInv'
  BY <1>1, RequestEnded DEF RequestEnds
<1>2. CASE UNCHANGED queuevars
  BY <1>2 DEF queuevars, QueueInv, QueueTypes, ReordersAreSound,
              PositionsDiffer, ListIsStable, InLine
<1> QED
  BY <1>1, <1>2, RequestBegins, CourtWritten, Locked, Cleared, Reordered,
     MatchMoved DEF QueueNext

\* However reorders, assignments, removals and the matches' own progress
\* interleave, no two open matches of a court have one position but for those
\* that are carried, and what a reorder has checked stays as it found it
\* (ReorderQueue, AssignMatch and RemoveFromQueue, court_queue.go).
THEOREM LineStaysOrdered == MaxList \in Nat /\ QueueSpec => []LineIsOrdered
<1> SUFFICES ASSUME MaxList \in Nat
             PROVE  QueueSpec => []LineIsOrdered
  OBVIOUS
<1>1. QueueInv => LineIsOrdered
  BY DEF QueueInv, LineIsOrdered
<1>2. QueueInv /\ [QueueNext]_queuevars => QueueInv'
  BY QueueGoesOn
<1> QED
  BY <1>1, <1>2, QueueStarts, PTL DEF QueueSpec

-----------------------------------------------------------------------------
(* RateLimiter: LimiterKeepsWindow for any number of keys, any rate, burst   *)
(* and interval, and a clock that runs for as long as one likes.             *)

Visitor == [tokens : 0..Burst, lastSeen : 0..MaxTime]

LimiterTypes ==
    /\ now \in 0..MaxTime
    /\ visitors \in [Keys -> Visitor \cup {NoVisitor}]
    /\ served \in [Keys -> [0..MaxTime -> Nat]]

\* Nothing was let through since the visitor was last seen.
QuietSinceSeen ==
    \A k \in Keys : visitors[k] # NoVisitor =>
        /\ visitors[k].lastSeen <= now
        /\ \A t \in visitors[k].lastSeen..now :
               served[k][t] = served[k][visitors[k].lastSeen]

\* The tokens left and what the interval that ends at lastSeen has cost are
\* together no more than the burst.
TokensAreLeft ==
    \A k \in Keys : visitors[k] # NoVisitor =>
        \A a \in 0..visitors[k].lastSeen :
            visitors[k].lastSeen - a < Interval =>
                Between(k, a, visitors[k].lastSeen) + visitors[k].tokens
                  <= Burst

\* A key without a visitor has had nothing for a whole interval.
ForgottenAreQuiet ==
    \A k \in Keys : visitors[k] = NoVisitor =>
        \A a \in 0..now : now - a < Interval => Between(k, a, now) = 0

\* The windows that are over kept to the burst.
PastWindowsKept ==
    \A k \in Keys, a \in 0..now :
        a + Interval - 1 < now => Between(k, a, a + Interval - 1) <= Burst

LimiterInv ==
    /\ LimiterTypes /\ QuietSinceSeen /\ TokensAreLeft
    /\ ForgottenAreQuiet /\ PastWindowsKept

-----------------------------------------------------------------------------
\* What is known of one visitor.
LEMMA VisitorFields ==
    ASSUME LimiterTypes, NEW k \in Keys, visitors[k] # NoVisitor
    PROVE  /\ visitors[k] \in Visitor
           /\ visitors[k].tokens \in 0..Burst
           /\ visitors[k].lastSeen \in 0..MaxTime
BY DEF LimiterTypes, Visitor

\* A key's record of what was let through is a number at every tick.
LEMMA ServedIsNat ==
    ASSUME LimiterTypes, NEW k \in Keys
    PROVE  /\ served[k] \in [0..MaxTime -> Nat]
           /\ \A t \in 0..MaxTime : served[k][t] \in Nat
           /\ \A a \in 0..MaxTime + 1 : ServedBefore(k, a) \in Nat
<1>1. served[k] \in [0..MaxTime -> Nat]
  BY DEF LimiterTypes
<1>2. \A t \in 0..MaxTime : served[k][t] \in Nat
  BY <1>1
<1>3. MaxTime \in Nat
  BY LimiterAssumption
<1>4. \A a \in 0..MaxTime + 1 : a = 0 \/ a - 1 \in 0..MaxTime
  BY <1>3
<1> QED
  BY <1>1, <1>2, <1>4 DEF ServedBefore

\* Within one interval nothing is refilled (allow, ratelimit.go).
LEMMA NoRefillWithinInterval ==
    ASSUME NEW gap \in Nat, gap < Interval
    PROVE  (gap \div Interval) * Rate = 0
<1>1. Interval \in Nat \ {0} /\ Rate \in Nat
  BY LimiterAssumption
<1>2. gap \div Interval = 0
  BY <1>1
<1> QED
  BY <1>1, <1>2

\* No refill takes the tokens below zero or above the burst.
LEMMA RefilledIsInBucket ==
    ASSUME LimiterTypes, QuietSinceSeen,
           NEW k \in Keys, visitors[k] # NoVisitor
    PROVE  /\ Refilled(visitors[k]) \in 0..Burst
           /\ now - visitors[k].lastSeen < Interval =>
                Refilled(visitors[k]) = visitors[k].tokens
<1> DEFINE v == visitors[k]
           gap == now - v.lastSeen
           fill == gap \div Interval
<1>1. /\ Interval \in Nat \ {0} /\ Rate \in Nat \ {0} /\ Burst \in Nat \ {0}
      /\ MaxTime \in Nat
  BY LimiterAssumption
<1>2. v.tokens \in 0..Burst /\ v.lastSeen \in 0..MaxTime
  BY VisitorFields
<1>3. now \in Nat /\ v.lastSeen <= now
  BY <1>1 DEF LimiterTypes, QuietSinceSeen
<1>4. gap \in Nat
  BY <1>1, <1>2, <1>3
<1>5. fill \in Nat
  <2> HIDE DEF gap
  <2> QED
    BY <1>1, <1>4
<1>6. fill * Rate \in Nat
  <2> HIDE DEF fill
  <2> QED
    BY <1>1, <1>5
<1>7. gap < Interval => fill * Rate = 0
  BY <1>4, NoRefillWithinInterval
<1>8. Refilled(v) = IF v.tokens + fill * Rate > Burst THEN Burst
                    ELSE v.tokens + fill * Rate
  BY DEF Refilled, Refill, Capped
<1> DEFINE more == fill * Rate
<1> HIDE DEF more, v
<1> QED
  BY <1>1, <1>2, <1>6, <1>7, <1>8 DEF more, v, gap

\* The window that ends now keeps to the burst too.
LEMMA WindowEndingNow ==
    ASSUME LimiterInv, NEW k \in Keys, NEW a \in 0..now, now - a < Interval
    PROVE  Between(k, a, now) <= Burst
<1>1. /\ Burst \in Nat /\ MaxTime \in Nat /\ Interval \in Nat
      /\ now \in 0..MaxTime
  BY LimiterAssumption DEF LimiterInv, LimiterTypes
<1>2. CASE visitors[k] = NoVisitor
  BY <1>1, <1>2 DEF LimiterInv, ForgottenAreQuiet
<1>3. CASE visitors[k] # NoVisitor
  <2> DEFINE seen == visitors[k].lastSeen
  <2>1. /\ visitors[k].tokens \in 0..Burst
        /\ seen \in 0..MaxTime
        /\ seen <= now
        /\ \A t \in seen..now : served[k][t] = served[k][seen]
    BY <1>3, VisitorFields DEF LimiterInv, QuietSinceSeen
  <2>2. \A t \in 0..MaxTime : served[k][t] \in Nat
    BY ServedIsNat DEF LimiterInv
  <2>3. served[k][now] = served[k][seen]
    BY <1>1, <2>1
  <2>4. CASE a <= seen
    <3>0. a \in 0..seen /\ seen - a < Interval
      BY <1>1, <2>1, <2>4
    <3>1. Between(k, a, seen) + visitors[k].tokens <= Burst
      BY <1>3, <3>0 DEF LimiterInv, TokensAreLeft
    <3>2. ServedBefore(k, a) \in Nat
      BY <1>1, ServedIsNat DEF LimiterInv
    <3> QED
      BY <1>1, <2>1, <2>2, <2>3, <3>1, <3>2 DEF Between
  <2>5. CASE a > seen
    <3>1. a - 1 \in seen..now /\ a # 0
      BY <1>1, <2>1, <2>5
    <3>2. ServedBefore(k, a) = served[k][seen]
      BY <2>1, <3>1 DEF ServedBefore
    <3> QED
      BY <1>1, <2>1, <2>2, <2>3, <3>2 DEF Between
  <2> QED
    BY <1>1, <2>1, <2>4, <2>5
<1> QED
  BY <1>2, <1>3

\* The invariant gives the property.
LEMMA InvKeepsWindow == LimiterInv => LimiterKeepsWindow
<1> SUFFICES ASSUME LimiterInv, NEW k \in Keys, NEW a \in 0..now
             PROVE  LET b == IF a + Interval - 1 > now THEN now
                             ELSE a + Interval - 1
                    IN Between(k, a, b) <= Burst
  BY DEF LimiterKeepsWindow
<1>1. Interval \in Nat \ {0} /\ now \in Nat
  BY LimiterAssumption DEF LimiterInv, LimiterTypes
<1>2. CASE a + Interval - 1 < now
  BY <1>1, <1>2 DEF LimiterInv, PastWindowsKept
<1>3. CASE a + Interval - 1 >= now
  <2>1. Between(k, a, now) <= Burst
    BY <1>1, <1>3, WindowEndingNow
  <2> QED
    BY <1>1, <1>3, <2>1
<1> QED
  BY <1>1, <1>2, <1>3

-----------------------------------------------------------------------------
\* At the start nobody was seen and nothing let through.
LEMMA LimiterStarts == LimiterInit => LimiterInv
<1> SUFFICES ASSUME LimiterInit PROVE LimiterInv
  OBVIOUS
<1>1. MaxTime \in Nat /\ Interval \in Nat \ {0} /\ Burst \in Nat
  BY LimiterAssumption
<1>2. LimiterTypes
  BY <1>1 DEF LimiterInit, LimiterTypes
<1>3. ASSUME NEW k \in Keys
      PROVE  visitors[k] = NoVisitor /\ served[k][0] = 0
  <2>1. 0 \in 0..MaxTime
    BY <1>1
  <2>2. served[k] = [t \in 0..MaxTime |-> 0]
    BY DEF LimiterInit
  <2> QED
    BY <2>1, <2>2 DEF LimiterInit
<1>4. now = 0
  BY DEF LimiterInit
<1>5. QuietSinceSeen /\ TokensAreLeft
  BY <1>3 DEF QuietSinceSeen, TokensAreLeft
<1>6. ForgottenAreQuiet
  BY <1>3, <1>4 DEF ForgottenAreQuiet, Between, ServedBefore
<1>7. PastWindowsKept
  BY <1>1, <1>4 DEF PastWindowsKept
<1> QED
  BY <1>2, <1>5, <1>6, <1>7 DEF LimiterInv

\* The clock: what was let through by the end of the tick before is carried
\* on, and the windows that were ending are over.
LEMMA TickKeeps == LimiterInv /\ Tick => LimiterInv'
<1> SUFFICES ASSUME LimiterInv, Tick PROVE LimiterInv'
  OBVIOUS
<1>1. /\ MaxTime \in Nat /\ Interval \in Nat \ {0} /\ Burst \in Nat
      /\ now \in 0..MaxTime /\ now < MaxTime /\ now' = now + 1
      /\ visitors' = visitors
  BY LimiterAssumption DEF LimiterInv, LimiterTypes, Tick
<1>2. ASSUME NEW k \in Keys
      PROVE  /\ served'[k] \in [0..MaxTime -> Nat]
             /\ served'[k][now + 1] = served[k][now]
             /\ \A t \in 0..now : served'[k][t] = served[k][t]
             /\ \A t \in 0..now : served[k][t] \in Nat
  <2>1. served[k] \in [0..MaxTime -> Nat]
    BY ServedIsNat DEF LimiterInv
  <2>2. served'[k] = [served[k] EXCEPT ![now + 1] = served[k][now]]
    BY <1>1 DEF Tick
  <2> QED
    BY <1>1, <2>1, <2>2
<1>3. \A k \in Keys, a \in 0..now + 1 :
        ServedBefore(k, a)' = IF a = 0 THEN 0 ELSE served[k][a - 1]
  <2> SUFFICES ASSUME NEW k \in Keys, NEW a \in 0..now + 1, a # 0
               PROVE  served'[k][a - 1] = served[k][a - 1]
    BY DEF ServedBefore
  <2> QED
    BY <1>1, <1>2
<1>4. LimiterTypes'
  <2>1. served' \in [Keys -> [0..MaxTime -> Nat]]
    BY <1>2 DEF Tick
  <2>2. visitors' \in [Keys -> Visitor \cup {NoVisitor}]
    BY <1>1 DEF LimiterInv, LimiterTypes
  <2> QED
    BY <1>1, <2>1, <2>2 DEF LimiterTypes
<1>5. ASSUME NEW k \in Keys, visitors[k] # NoVisitor
      PROVE  /\ visitors[k].lastSeen \in 0..now
             /\ visitors[k].tokens \in 0..Burst
             /\ \A t \in visitors[k].lastSeen..now :
                   served[k][t] = served[k][visitors[k].lastSeen]
  BY <1>1, <1>5, VisitorFields DEF LimiterInv, QuietSinceSeen
<1>6. QuietSinceSeen'
  <2> SUFFICES ASSUME NEW k \in Keys, visitors[k] # NoVisitor,
                      NEW t \in visitors[k].lastSeen..now + 1
               PROVE  /\ visitors[k].lastSeen <= now + 1
                      /\ served'[k][t] = served'[k][visitors[k].lastSeen]
    BY <1>1, <1>5 DEF QuietSinceSeen
  <2>1. CASE t = now + 1
    BY <1>1, <1>2, <1>5, <2>1
  <2>2. CASE t # now + 1
    BY <1>1, <1>2, <1>5, <2>2
  <2> QED
    BY <2>1, <2>2
<1>7. TokensAreLeft'
  <2> SUFFICES ASSUME NEW k \in Keys, visitors[k] # NoVisitor,
                      NEW a \in 0..visitors[k].lastSeen,
                      visitors[k].lastSeen - a < Interval
               PROVE  served'[k][visitors[k].lastSeen]
                        - ServedBefore(k, a)' + visitors[k].tokens <= Burst
    BY <1>1 DEF TokensAreLeft, Between
  <2>1. served[k][visitors[k].lastSeen] - ServedBefore(k, a)
          + visitors[k].tokens <= Burst
    BY DEF LimiterInv, TokensAreLeft, Between
  <2> QED
    <3>1. visitors[k].lastSeen \in 0..now /\ a \in 0..now + 1
      BY <1>1, <1>5
    <3>2. ServedBefore(k, a)' = ServedBefore(k, a)
      BY <1>3, <3>1 DEF ServedBefore
    <3> QED
      BY <1>2, <2>1, <3>1, <3>2
<1>8. ForgottenAreQuiet'
  <2> SUFFICES ASSUME NEW k \in Keys, visitors[k] = NoVisitor,
                      NEW a \in 0..now + 1, now + 1 - a < Interval
               PROVE  served'[k][now + 1] - ServedBefore(k, a)' = 0
    BY <1>1 DEF ForgottenAreQuiet, Between
  <2>1. CASE a = now + 1
    BY <1>1, <1>2, <1>3, <2>1
  <2>2. CASE a # now + 1
    <3>1. a \in 0..now /\ now - a < Interval
      BY <1>1, <2>2
    <3>2. served[k][now] - ServedBefore(k, a) = 0
      BY <3>1 DEF LimiterInv, ForgottenAreQuiet, Between
    <3> QED
      BY <1>1, <1>2, <1>3, <3>2 DEF ServedBefore
  <2> QED
    BY <2>1, <2>2
<1>9. PastWindowsKept'
  <2> SUFFICES ASSUME NEW k \in Keys, NEW a \in 0..now + 1,
                      a + Interval - 1 < now + 1
               PROVE  served'[k][a + Interval - 1] - ServedBefore(k, a)'
                        <= Burst
    BY <1>1 DEF PastWindowsKept, Between
  <2>1. a \in 0..now /\ a + Interval - 1 \in 0..now
    BY <1>1
  <2>2. Between(k, a, a + Interval - 1) <= Burst
    <3>1. CASE a + Interval - 1 < now
      BY <2>1, <3>1 DEF LimiterInv, PastWindowsKept
    <3>2. CASE a + Interval - 1 = now
      BY <1>1, <2>1, <3>2, WindowEndingNow
    <3> QED
      BY <1>1, <2>1, <3>1, <3>2
  <2> QED
    BY <1>1, <1>2, <1>3, <2>1, <2>2 DEF Between, ServedBefore
<1> QED
  BY <1>4, <1>6, <1>7, <1>8, <1>9 DEF LimiterInv

\* The ticker forgets only visitors that an interval has passed over
\* (cleanup, ratelimit.go).
LEMMA CleanupKeeps == LimiterInv /\ cleanup => LimiterInv'
<1> SUFFICES ASSUME LimiterInv, cleanup PROVE LimiterInv'
  OBVIOUS
<1>1. /\ MaxTime \in Nat /\ Interval \in Nat \ {0} /\ Burst \in Nat
      /\ Stale \in Nat /\ Stale >= Interval
      /\ now \in 0..MaxTime /\ now' = now /\ served' = served
  BY LimiterAssumption DEF LimiterInv, LimiterTypes, cleanup
<1>2. ASSUME NEW k \in Keys
      PROVE  \/ visitors'[k] = visitors[k]
             \/ /\ visitors[k] # NoVisitor /\ visitors'[k] = NoVisitor
                /\ now - visitors[k].lastSeen > Stale
  BY DEF cleanup
<1>3. LimiterTypes'
  <2>1. visitors' \in [Keys -> Visitor \cup {NoVisitor}]
    BY DEF LimiterInv, LimiterTypes, cleanup
  <2> QED
    BY <1>1, <2>1 DEF LimiterInv, LimiterTypes
<1>4. QuietSinceSeen'
  BY <1>1, <1>2 DEF LimiterInv, QuietSinceSeen
<1>5. TokensAreLeft'
  BY <1>1, <1>2 DEF LimiterInv, TokensAreLeft, Between, ServedBefore
<1>6. ForgottenAreQuiet'
  <2> SUFFICES ASSUME NEW k \in Keys, visitors'[k] = NoVisitor,
                      NEW a \in 0..now, now - a < Interval
               PROVE  Between(k, a, now) = 0
    BY <1>1 DEF ForgottenAreQuiet, Between, ServedBefore
  <2>1. CASE visitors[k] = NoVisitor
    BY <2>1 DEF LimiterInv, ForgottenAreQuiet
  <2>2. CASE visitors[k] # NoVisitor
    <3> DEFINE seen == visitors[k].lastSeen
    <3>1. /\ seen \in 0..MaxTime /\ seen <= now
          /\ \A t \in seen..now : served[k][t] = served[k][seen]
      BY <2>2, VisitorFields DEF LimiterInv, QuietSinceSeen
    <3>2. now - seen > Stale
      BY <1>2, <2>2
    <3>3. a # 0 /\ a - 1 \in seen..now /\ now \in seen..now
      BY <1>1, <3>1, <3>2
    <3>4. served[k][now] \in Nat
      BY <1>1, ServedIsNat DEF LimiterInv
    <3> QED
      BY <3>1, <3>3, <3>4 DEF Between, ServedBefore
  <2> QED
    BY <2>1, <2>2
<1>7. PastWindowsKept'
  BY <1>1 DEF LimiterInv, PastWindowsKept, Between, ServedBefore
<1> QED
  BY <1>3, <1>4, <1>5, <1>6, <1>7 DEF LimiterInv

\* A request: whatever is let through was paid for by a token, and a refill
\* comes only when the interval before it is over (allow, ratelimit.go).
LEMMA AllowKeeps ==
    ASSUME LimiterInv, NEW k \in Keys, allow(k)
    PROVE  LimiterInv'
<1> DEFINE v == visitors[k]
           tokens == IF v = NoVisitor THEN Burst ELSE Refilled(v)
           let == IF tokens = 0 THEN 0 ELSE 1
<1>1. /\ MaxTime \in Nat /\ Interval \in Nat \ {0} /\ Burst \in Nat \ {0}
      /\ now \in 0..MaxTime /\ now' = now
  BY LimiterAssumption DEF LimiterInv, LimiterTypes, allow
<1>2. tokens \in 0..Burst
  BY <1>1, RefilledIsInBucket DEF LimiterInv
<1>3. /\ visitors'[k] = [tokens |-> tokens - let, lastSeen |-> now]
      /\ \A j \in Keys : j # k => visitors'[j] = visitors[j]
      /\ visitors' \in [Keys -> Visitor \cup {NoVisitor}]
  <2>1. visitors' = [visitors EXCEPT ![k] = [tokens |-> tokens - let,
                                            lastSeen |-> now]]
    BY <1>1, <1>2 DEF allow, Seen
  <2>2. tokens - let \in 0..Burst
    <3> HIDE DEF tokens
    <3> QED
      BY <1>1, <1>2
  <2>3. [tokens |-> tokens - let, lastSeen |-> now] \in Visitor
    <3> HIDE DEF tokens, let
    <3> QED
      BY <1>1, <2>2 DEF Visitor
  <2>4. visitors \in [Keys -> Visitor \cup {NoVisitor}]
    BY DEF LimiterInv, LimiterTypes
  <2> HIDE DEF tokens, let
  <2> QED
    BY <2>1, <2>3, <2>4
<1>4. /\ served' \in [Keys -> [0..MaxTime -> Nat]]
      /\ served'[k][now] = served[k][now] + let
      /\ \A t \in 0..MaxTime : t # now => served'[k][t] = served[k][t]
      /\ \A j \in Keys : j # k => served'[j] = served[j]
  <2>1. served \in [Keys -> [0..MaxTime -> Nat]]
    BY DEF LimiterInv, LimiterTypes
  <2>2. CASE tokens = 0
    <3>1. served' = served
      BY <2>2 DEF allow
    <3> QED
      BY <1>1, <2>1, <2>2, <3>1
  <2>3. CASE tokens # 0
    <3>1. served' = [served EXCEPT ![k][now] = @ + 1]
      BY <2>3 DEF allow
    <3> QED
      BY <1>1, <2>1, <2>3, <3>1
  <2> QED
    BY <2>2, <2>3
<1>5. \A t \in 0..MaxTime : served[k][t] \in Nat
  BY ServedIsNat DEF LimiterInv
<1>6. \A a \in 0..now : /\ ServedBefore(k, a)' = ServedBefore(k, a)
                        /\ ServedBefore(k, a) \in Nat
  BY <1>1, <1>4, <1>5 DEF ServedBefore
<1>7. visitors'[k] # NoVisitor
  BY <1>1, <1>3 DEF NoVisitor
<1>8. let \in {0, 1} /\ let <= tokens
  <2> HIDE DEF tokens
  <2> QED
    BY <1>1, <1>2
<1>9. ASSUME NEW a \in 0..now, now - a < Interval
      PROVE  Between(k, a, now) + tokens <= Burst
  <2>1. CASE v = NoVisitor
    <3>1. Between(k, a, now) = 0
      BY <1>9, <2>1 DEF LimiterInv, ForgottenAreQuiet
    <3>2. tokens = Burst
      BY <2>1
    <3> HIDE DEF tokens
    <3> QED
      BY <1>1, <3>1, <3>2
  <2>2. CASE v # NoVisitor
    <3> DEFINE seen == v.lastSeen
    <3>1. /\ seen \in 0..MaxTime /\ seen <= now
          /\ \A t \in seen..now : served[k][t] = served[k][seen]
      BY <2>2, VisitorFields DEF LimiterInv, QuietSinceSeen
    <3>2. served[k][now] = served[k][seen]
      BY <1>1, <3>1
    <3>3. CASE a <= seen
      <4>1. now - seen < Interval
        BY <1>1, <1>9, <3>1, <3>3
      <4>2. tokens = v.tokens
        BY <2>2, <4>1, RefilledIsInBucket DEF LimiterInv
      <4>3. a \in 0..seen /\ seen - a < Interval
        BY <1>1, <1>9, <3>1, <3>3
      <4>4. Between(k, a, seen) + v.tokens <= Burst
        BY <2>2, <4>3 DEF LimiterInv, TokensAreLeft
      <4> HIDE DEF tokens
      <4> QED
        BY <3>2, <4>2, <4>4 DEF Between
    <3>4. CASE a > seen
      <4>1. a # 0 /\ a - 1 \in seen..now
        BY <1>1, <3>1, <3>4
      <4>2. ServedBefore(k, a) = served[k][now]
        BY <3>1, <3>2, <4>1 DEF ServedBefore
      <4> HIDE DEF tokens
      <4> QED
        BY <1>1, <1>2, <1>5, <4>2 DEF Between
    <3> QED
      BY <1>1, <3>1, <3>3, <3>4
  <2> QED
    BY <2>1, <2>2
<1> HIDE DEF tokens, let
<1>10. LimiterTypes'
  BY <1>1, <1>3, <1>4 DEF LimiterTypes
<1>11. QuietSinceSeen'
  <2> SUFFICES ASSUME NEW j \in Keys, visitors'[j] # NoVisitor
               PROVE  /\ visitors'[j].lastSeen <= now
                      /\ \A t \in visitors'[j].lastSeen..now :
                           served'[j][t] = served'[j][visitors'[j].lastSeen]
    BY <1>1 DEF QuietSinceSeen
  <2>1. CASE j = k
    BY <1>1, <1>3, <2>1
  <2>2. CASE j # k
    <3>1. visitors'[j] = visitors[j] /\ served'[j] = served[j]
      BY <1>3, <1>4, <2>2
    <3> QED
      BY <3>1 DEF LimiterInv, QuietSinceSeen
  <2> QED
    BY <2>1, <2>2
<1>12. TokensAreLeft'
  <2> SUFFICES ASSUME NEW j \in Keys, visitors'[j] # NoVisitor,
                      NEW a \in 0..visitors'[j].lastSeen,
                      visitors'[j].lastSeen - a < Interval
               PROVE  served'[j][visitors'[j].lastSeen]
                        - ServedBefore(j, a)' + visitors'[j].tokens <= Burst
    BY DEF TokensAreLeft, Between
  <2>1. CASE j = k
    <3>1. visitors'[j].lastSeen = now /\ visitors'[j].tokens = tokens - let
      BY <1>3, <2>1
    <3>2. a \in 0..now /\ now - a < Interval
      BY <3>1
    <3>3. served[k][now] - ServedBefore(k, a) + tokens <= Burst
      BY <1>9, <3>2 DEF Between
    <3>4. served[k][now] \in Nat /\ ServedBefore(k, a) \in Nat
      BY <1>1, <1>5, <1>6, <3>2
    <3> QED
      <4>1. served'[j][now] = served[k][now] + let
        BY <1>4, <2>1
      <4>2. ServedBefore(j, a)' = ServedBefore(k, a)
        BY <1>6, <2>1, <3>2 DEF ServedBefore
      <4> QED
        BY <1>1, <1>2, <1>8, <3>1, <3>3, <3>4, <4>1, <4>2
  <2>2. CASE j # k
    BY <1>3, <1>4, <2>2
       DEF LimiterInv, TokensAreLeft, Between, ServedBefore
  <2> QED
    BY <2>1, <2>2
<1>13. ForgottenAreQuiet'
  <2> SUFFICES ASSUME NEW j \in Keys, visitors'[j] = NoVisitor,
                      NEW a \in 0..now, now - a < Interval
               PROVE  served'[j][now] - ServedBefore(j, a)' = 0
    BY <1>1 DEF ForgottenAreQuiet, Between
  <2>1. j # k
    BY <1>7
  <2> QED
    BY <1>3, <1>4, <2>1
       DEF LimiterInv, ForgottenAreQuiet, Between, ServedBefore
<1>14. PastWindowsKept'
  <2> SUFFICES ASSUME NEW j \in Keys, NEW a \in 0..now,
                      a + Interval - 1 < now
               PROVE  served'[j][a + Interval - 1] - ServedBefore(j, a)'
                        <= Burst
    BY <1>1 DEF PastWindowsKept, Between
  <2>1. Between(j, a, a + Interval - 1) <= Burst
    BY DEF LimiterInv, PastWindowsKept
  <2>2. a + Interval - 1 \in 0..MaxTime /\ a + Interval - 1 # now
    BY <1>1
  <2>3. CASE j = k
    BY <1>4, <1>6, <2>1, <2>2, <2>3 DEF Between
  <2>4. CASE j # k
    BY <1>4, <2>1, <2>4 DEF Between, ServedBefore
  <2> QED
    BY <2>3, <2>4
<1> QED
  BY <1>10, <1>11, <1>12, <1>13, <1>14 DEF LimiterInv

-----------------------------------------------------------------------------
\* Whatever a client does, and whenever the ticker forgets it, no key is let
\* through more than the burst within one interval.
THEOREM LimiterSafe == LimiterSpec => []LimiterKeepsWindow
<1>1. LimiterInv /\ [LimiterNext]_limitervars => LimiterInv'
  <2> SUFFICES ASSUME LimiterInv, [LimiterNext]_limitervars
               PROVE  LimiterInv'
    OBVIOUS
  <2>1. CASE Tick
    BY <2>1, TickKeeps
  <2>2. CASE cleanup
    BY <2>2, CleanupKeeps
  <2>3. CASE \E k \in Keys : allow(k)
    BY <2>3, AllowKeeps
  <2>4. CASE UNCHANGED limitervars
    BY <2>4 DEF limitervars, LimiterInv, LimiterTypes, QuietSinceSeen,
                TokensAreLeft, ForgottenAreQuiet, PastWindowsKept,
                Between, ServedBefore
  <2> QED
    BY <2>1, <2>2, <2>3, <2>4 DEF LimiterNext
<1> QED
  BY <1>1, LimiterStarts, InvKeepsWindow, PTL DEF LimiterSpec

-----------------------------------------------------------------------------
(* Registration: CarefulDeskIsFair for any number of desks, entrants, places *)
(* and rows.  The invariant follows the one request that a careful desk has  *)
(* under way: what it has read still holds when it writes.                   *)

Row == [who : Entrants, status : Status]
Request == {NoRequest} \cup [op : {"count"}, who : Entrants]
             \cup [op : {"insert"}, who : Entrants, status : Status]
             \cup [op : {"next"}] \cup [op : {"promote"}, row : Nat]
             \cup [op : {"write"}, row : Nat, status : Status]

DeskTypes ==
    /\ division \in [open : BOOLEAN, auto : BOOLEAN, promote : BOOLEAN]
    /\ regs \in Seq(Row)
    /\ asked \in [Desks -> Request]
    /\ \A d \in Desks : asked[d].op \in {"promote", "write"}
                          => asked[d].row \in DOMAIN regs
    /\ careful \in BOOLEAN

\* The unique indexes hold.
OneRowEach ==
    \A i, j \in DOMAIN regs :
        regs[i].who = regs[j].who
        /\ regs[i].status \notin Gone /\ regs[j].status \notin Gone => i = j

Taken == Cardinality(Placed)

\* Nobody holds a place behind a row that waits.
NobodyPasses ==
    division.auto /\ division.promote => \A i \in Waiting, j \in Placed : j < i

\* A promotion under way fills the one free place, with whoever has waited
\* longest.
PromotionIsDue(d) ==
    /\ division.promote
    /\ Waiting # {} => Taken = MaxTeams - 1
    /\ asked[d].op = "promote" =>
         asked[d].row \in Waiting /\ \A j \in Waiting : asked[d].row <= j

\* A registration under way has counted every place that is taken.
CountIsGood(d) ==
    /\ With("checked_in") = {}
    /\ asked[d].op = "insert" =>
         /\ asked[d].status \in {"approved", "waitlisted", "pending"}
         /\ asked[d].status = "approved" => division.auto /\ Taken < MaxTeams
         /\ asked[d].status = "waitlisted" => Taken = MaxTeams

\* A check-in has a row with a place, after registration; a withdrawal from
\* the tournament leaves nobody waiting.
WriteIsGood(d) ==
    /\ asked[d].status \in {"checked_in", "withdrawn_mid_tournament"}
    /\ asked[d].status = "checked_in" =>
         asked[d].row \in With("approved") /\ ~division.open
    /\ asked[d].status = "withdrawn_mid_tournament" => Waiting = {}

\* What holds when no desk but d has a request under way.
FairWith(d) ==
    /\ \A o \in Desks \ {d} : asked[o] = NoRequest
    /\ Taken <= MaxTeams /\ NobodyPasses
    /\ With("checked_in") # {} => ~division.open
    /\ asked[d].op \notin {"next", "promote"} =>
         (division.promote /\ Waiting # {} => Taken = MaxTeams)
    /\ asked[d].op \in {"next", "promote"} => PromotionIsDue(d)
    /\ asked[d].op \in {"count", "insert"} => CountIsGood(d)
    /\ asked[d].op = "write" => WriteIsGood(d)

\* At most one desk has a request under way.
Fair ==
    /\ \A d, o \in Desks :
         asked[d] # NoRequest /\ asked[o] # NoRequest => d = o
    /\ Taken <= MaxTeams /\ NobodyPasses
    /\ With("checked_in") # {} => ~division.open
    /\ (\A d \in Desks : asked[d].op \notin {"next", "promote"}) =>
         (division.promote /\ Waiting # {} => Taken = MaxTeams)
    /\ \A d \in Desks :
         /\ asked[d].op \in {"next", "promote"} => PromotionIsDue(d)
         /\ asked[d].op \in {"count", "insert"} => CountIsGood(d)
         /\ asked[d].op = "write" => WriteIsGood(d)

DeskInv ==
    /\ DeskTypes /\ OneRowEach
    /\ careful /\ MaxTeams > 0 => Fair

-----------------------------------------------------------------------------
\* The rows are numbered from one, and each set of them is finite.
LEMMA RowFields ==
    ASSUME DeskTypes
    PROVE  /\ Len(regs) \in Nat /\ DOMAIN regs = 1..Len(regs)
           /\ \A i \in DOMAIN regs : /\ regs[i] \in Row
                                     /\ regs[i].who \in Entrants
                                     /\ regs[i].status \in Status
           /\ \A S \in SUBSET DOMAIN regs :
                IsFiniteSet(S) /\ Cardinality(S) \in Nat
           /\ Placed \subseteq DOMAIN regs /\ Waiting \subseteq DOMAIN regs
           /\ Taken \in Nat /\ MaxTeams \in Nat
<1>1. /\ Len(regs) \in Nat /\ DOMAIN regs = 1..Len(regs)
      /\ \A i \in DOMAIN regs : regs[i] \in Row
  BY LenProperties, ElementOfSeq DEF DeskTypes
<1>2. ASSUME NEW S \in SUBSET DOMAIN regs
      PROVE  IsFiniteSet(S) /\ Cardinality(S) \in Nat
  <2>1. IsFiniteSet(1..Len(regs))
    BY <1>1, FS_Interval
  <2>2. IsFiniteSet(S)
    BY <1>1, <2>1, FS_Subset
  <2> QED
    BY <2>2, FS_CardinalityType
<1>3. Placed \subseteq DOMAIN regs /\ Waiting \subseteq DOMAIN regs
  BY DEF Placed, Waiting, With
<1>4. Taken \in Nat
  BY <1>2, <1>3 DEF Taken
<1> QED
  BY <1>1, <1>2, <1>3, <1>4, RegistrationAssumption DEF Row

\* The kinds of request.
LEMMA RequestFields ==
    ASSUME DeskTypes, NEW d \in Desks
    PROVE  /\ asked[d] \in Request
           /\ asked[d].op \in {"none", "count", "insert", "next", "promote",
                               "write"}
           /\ asked[d].op = "none" <=> asked[d] = NoRequest
           /\ asked[d].op \in {"count", "insert"} => asked[d].who \in Entrants
           /\ asked[d].op \in {"insert", "write"}
                => asked[d].status \in Status
           /\ asked[d].op \in {"promote", "write"}
                => asked[d].row \in DOMAIN regs
BY DEF DeskTypes, Request, NoRequest

\* One row that leaves or joins a set of them changes its size by one.
LEMMA OneMoreRow ==
    ASSUME DeskTypes, NEW S \in SUBSET DOMAIN regs, NEW i \in DOMAIN regs
    PROVE  /\ Cardinality(S \cup {i}) = IF i \in S THEN Cardinality(S)
                                        ELSE Cardinality(S) + 1
           /\ Cardinality(S \ {i}) = IF i \in S THEN Cardinality(S) - 1
                                     ELSE Cardinality(S)
           /\ Cardinality(S) \in Nat
<1>1. IsFiniteSet(S) /\ Cardinality(S) \in Nat
  BY RowFields
<1>2. i \in S => S \cup {i} = S
  OBVIOUS
<1>3. i \notin S => S \ {i} = S
  OBVIOUS
<1> QED
  BY <1>1, <1>2, <1>3, FS_AddElement, FS_RemoveElement

\* A row gets a status, and the others keep theirs.
LEMMA StatusSet ==
    ASSUME DeskTypes, NEW i \in DOMAIN regs, NEW s \in Status, SetStatus(i, s)
    PROVE  /\ regs' \in Seq(Row) /\ DOMAIN regs' = DOMAIN regs
           /\ \A t : With(t)' = IF t = s THEN With(t) \cup {i}
                                ELSE With(t) \ {i}
           /\ Placed' = IF s \in {"approved", "checked_in"}
                        THEN Placed \cup {i} ELSE Placed \ {i}
           /\ Waiting' = IF s = "waitlisted" THEN Waiting \cup {i}
                         ELSE Waiting \ {i}
           /\ OneRowEach /\ ~Duplicate(i, s) => OneRowEach'
<1>1. /\ regs' = [regs EXCEPT ![i] = [regs[i] EXCEPT !.status = s]]
      /\ regs[i] \in Row /\ regs \in Seq(Row)
  BY RowFields DEF SetStatus, DeskTypes
<1> DEFINE r == [regs[i] EXCEPT !.status = s]
<1>2. r \in Row /\ r.status = s /\ r.who = regs[i].who
  BY <1>1 DEF Row
<1> HIDE DEF r
<1>3. regs' = [regs EXCEPT ![i] = r]
  BY <1>1 DEF r
<1>4. /\ regs' \in Seq(Row) /\ DOMAIN regs' = DOMAIN regs
      /\ regs'[i] = r /\ \A j \in DOMAIN regs : j # i => regs'[j] = regs[j]
  BY <1>1, <1>2, <1>3, ExceptSeq
<1>5. \A t : With(t)' = IF t = s THEN With(t) \cup {i} ELSE With(t) \ {i}
  BY <1>2, <1>4 DEF With
<1>6. /\ Placed' = With("approved")' \cup With("checked_in")'
      /\ Waiting' = With("waitlisted")'
  BY DEF Placed, Waiting
<1>7. /\ Placed' = IF s \in {"approved", "checked_in"}
                   THEN Placed \cup {i} ELSE Placed \ {i}
      /\ Waiting' = IF s = "waitlisted" THEN Waiting \cup {i}
                    ELSE Waiting \ {i}
  BY <1>5, <1>6 DEF Placed, Waiting
<1>8. OneRowEach /\ ~Duplicate(i, s) => OneRowEach'
  BY <1>2, <1>4 DEF OneRowEach, Duplicate, Enrolled
<1> QED
  BY <1>4, <1>5, <1>7, <1>8

\* A row that waits or holds a place may be approved: no other row of its
\* entrant counts (the unique indexes on registrations).
LEMMA NoDuplicate ==
    ASSUME DeskTypes, OneRowEach, NEW i \in Waiting \cup Placed, NEW s
    PROVE  ~Duplicate(i, s)
BY DEF OneRowEach, Duplicate, Enrolled, Waiting, Placed, With, Gone

\* A set of numbers that is not empty has a least one.
LEMMA LeastNumber ==
    ASSUME NEW S \in SUBSET Nat, S # {}
    PROVE  \E i \in S : \A j \in S : i <= j
<1> DEFINE R == {p \in Nat \X Nat : p[1] < p[2]}
<1>1. IsWellFoundedOn(R, Nat)
  BY NatLessThanWellFounded DEF OpToRel
<1>2. \A x, y \in Nat : y < x => <<y, x>> \in R
  OBVIOUS
<1> HIDE DEF R
<1>3. \E x \in S : \A y \in S : ~ (<<y, x>> \in R)
  BY <1>1, WFMin
<1>4. \A x, y \in Nat : ~(y < x) => x <= y
  OBVIOUS
<1> QED
  BY <1>2, <1>3, <1>4

\* Whoever has waited longest.
LEMMA FirstOfWaiting ==
    ASSUME DeskTypes, Waiting # {}
    PROVE  /\ NextWaitlisted \in Waiting
           /\ \A j \in Waiting : NextWaitlisted <= j
<1>1. Waiting \in SUBSET Nat
  BY RowFields
<1>2. \E i \in Waiting : \A j \in Waiting : i <= j
  BY <1>1, LeastNumber
<1> QED
  BY <1>2 DEF NextWaitlisted

\* Rows marked as absent lose their places and stop waiting.
LEMMA BulkChanges ==
    ASSUME DeskTypes, NEW d \in Desks, NEW rows \in SUBSET DOMAIN regs,
           BulkNoShow(d, rows)
    PROVE  /\ regs' \in Seq(Row) /\ DOMAIN regs' = DOMAIN regs
           /\ Placed' \subseteq Placed /\ Placed \subseteq Placed' \cup rows
           /\ Waiting' \subseteq Waiting
           /\ With("checked_in")' \subseteq With("checked_in")
           /\ OneRowEach => OneRowEach'
<1> DEFINE hit == {i \in rows : regs[i].status \notin
                     {"checked_in", "withdrawn_mid_tournament"} \cup Gone}
<1>1. regs' = [i \in DOMAIN regs |->
                 IF i \in hit THEN [regs[i] EXCEPT !.status = "no_show"]
                 ELSE regs[i]]
  BY DEF BulkNoShow
<1>2. ASSUME NEW i \in hit
      PROVE  /\ [regs[i] EXCEPT !.status = "no_show"] \in Row
             /\ [regs[i] EXCEPT !.status = "no_show"].status = "no_show"
             /\ [regs[i] EXCEPT !.status = "no_show"].who = regs[i].who
             /\ regs[i].status \notin Gone
  BY RowFields DEF Row, Status, Gone
<1> HIDE DEF hit
<1>3. /\ DOMAIN regs' = DOMAIN regs
      /\ \A i \in DOMAIN regs :
           /\ regs'[i] \in Row /\ regs'[i].who = regs[i].who
           /\ \/ regs'[i] = regs[i]
              \/ /\ i \in hit /\ regs'[i].status = "no_show"
                 /\ regs[i].status \notin Gone
  BY <1>1, <1>2, RowFields
<1>4. hit \subseteq rows
  BY DEF hit
<1>5. regs' \in Seq(Row)
  <2>1. regs' \in [1..Len(regs) -> Row]
    BY <1>1, <1>3, RowFields
  <2> QED
    BY <2>1, RowFields, IsASeq
<1>6. \A t : t # "no_show" =>
        With(t)' \subseteq With(t) /\ With(t) \subseteq With(t)' \cup rows
  BY <1>3, <1>4 DEF With
<1>7. /\ Placed' = With("approved")' \cup With("checked_in")'
      /\ Waiting' = With("waitlisted")'
  BY DEF Placed, Waiting
<1>8. OneRowEach => OneRowEach'
  BY <1>3 DEF OneRowEach, Gone
<1> QED
  BY <1>3, <1>5, <1>6, <1>7, <1>8 DEF Placed, Waiting

-----------------------------------------------------------------------------
(* Types and the unique indexes.                                             *)

\* Every step keeps them.
LEMMA DeskStep ==
    ASSUME DeskTypes, OneRowEach, [RegistrationNext]_regvars
    PROVE  DeskTypes' /\ OneRowEach'
<1>1. ASSUME division' = division, careful' \in BOOLEAN,
             regs' \in Seq(Row), DOMAIN regs \subseteq DOMAIN regs',
             OneRowEach', NEW d \in Desks, NEW r \in Request,
             asked' = [asked EXCEPT ![d] = r],
             r.op \in {"promote", "write"} => r.row \in DOMAIN regs
      PROVE  DeskTypes' /\ OneRowEach'
  <2>1. asked' \in [Desks -> Request]
    BY <1>1 DEF DeskTypes
  <2>2. \A o \in Desks : asked'[o].op \in {"promote", "write"}
                           => asked'[o].row \in DOMAIN regs'
    BY <1>1 DEF DeskTypes
  <2> QED
    BY <1>1, <2>1, <2>2 DEF DeskTypes
<1>2. ASSUME NEW d \in Desks, NEW r \in Request, NEW kept,
             Begin(d, r, kept)
      PROVE  careful' \in BOOLEAN /\ asked' = [asked EXCEPT ![d] = r]
  BY <1>2 DEF Begin, Alone, DeskTypes
<1>3. NoRequest \in Request /\ [op |-> "next"] \in Request
      /\ NoRequest.op = "none"
  BY DEF Request, NoRequest
<1>4. UNCHANGED regs => OneRowEach'
  BY DEF OneRowEach
<1>5. regs \in Seq(Row) /\ careful \in BOOLEAN
  BY DEF DeskTypes
<1>6. ASSUME NEW d \in Desks, NEW e \in Entrants, ReadDivision(d, e)
      PROVE  DeskTypes' /\ OneRowEach'
  <2> DEFINE r == [op |-> "count", who |-> e]
  <2>1. r \in Request /\ r.op = "count"
    BY DEF Request
  <2>2. Begin(d, r, TRUE) /\ UNCHANGED <<division, regs>>
    BY <1>6 DEF ReadDivision
  <2> HIDE DEF r
  <2> QED
    BY <1>1, <1>2, <1>4, <1>5, <2>1, <2>2
<1>7. ASSUME NEW d \in Desks, CountApproved(d)
      PROVE  DeskTypes' /\ OneRowEach'
  <2> DEFINE r == [op |-> "insert", who |-> asked[d].who,
                   status |-> FirstStatus]
  <2>1. asked[d].who \in Entrants
    BY <1>7, RequestFields DEF CountApproved
  <2>2. r \in Request /\ r.op = "insert"
    BY <2>1 DEF Request, FirstStatus, Status, Gone
  <2>3. /\ asked' = [asked EXCEPT ![d] = r]
        /\ UNCHANGED <<regs, division, careful>>
    BY <1>7 DEF CountApproved, Then
  <2> HIDE DEF r
  <2> QED
    BY <1>1, <1>4, <1>5, <2>2, <2>3
<1>8. ASSUME NEW d \in Desks, CreateRegistration(d)
      PROVE  DeskTypes' /\ OneRowEach'
  <2> DEFINE new == [who |-> asked[d].who, status |-> asked[d].status]
  <2>1. new \in Row
    BY <1>8, RequestFields DEF CreateRegistration, Row
  <2>2. /\ asked' = [asked EXCEPT ![d] = NoRequest]
        /\ UNCHANGED <<division, careful>>
        /\ \/ UNCHANGED regs
           \/ Enrolled(new.who) = {} /\ regs' = Append(regs, new)
    BY <1>8 DEF CreateRegistration, Done, Then
  <2> HIDE DEF new
  <2>3. CASE UNCHANGED regs
    BY <1>1, <1>3, <1>4, <1>5, <2>2, <2>3
  <2>4. CASE Enrolled(new.who) = {} /\ regs' = Append(regs, new)
    <3>1. /\ regs' \in Seq(Row) /\ Len(regs') = Len(regs) + 1
          /\ \A i \in 1..Len(regs) : regs'[i] = regs[i]
          /\ regs'[Len(regs) + 1] = new
      BY <1>5, <2>1, <2>4, AppendProperties
    <3>2. /\ Len(regs) \in Nat /\ DOMAIN regs = 1..Len(regs)
          /\ DOMAIN regs' = 1..Len(regs) + 1
      BY <3>1, RowFields, LenProperties
    <3>3. \A i \in DOMAIN regs :
            regs[i].who # new.who \/ regs[i].status \in Gone
      BY <2>4 DEF Enrolled
    <3>4. OneRowEach'
      BY <3>1, <3>2, <3>3 DEF OneRowEach
    <3>5. DOMAIN regs \subseteq DOMAIN regs'
      BY <3>2
    <3>6. /\ NoRequest \in Request /\ NoRequest.op \notin {"promote", "write"}
          /\ careful' \in BOOLEAN /\ division' = division
      BY <1>3, <1>5, <2>2
    <3> QED
      BY <1>1, <2>2, <3>1, <3>4, <3>5, <3>6
  <2> QED
    BY <2>2, <2>3, <2>4
<1>9. ASSUME NEW d \in Desks, NEW i \in DOMAIN regs, NEW s \in Status,
             UpdateStatus(d, i, s)
      PROVE  DeskTypes' /\ OneRowEach'
  <2>1. PICK r \in {NoRequest, [op |-> "next"]} : Begin(d, r, KeptByHand(i, s))
    BY <1>9 DEF UpdateStatus
  <2>2. r \in Request /\ r.op \notin {"promote", "write"}
    BY <1>3
  <2>3. asked' = [asked EXCEPT ![d] = r] /\ careful' \in BOOLEAN
    BY <1>2, <2>1, <2>2
  <2>4. regs' \in Seq(Row) /\ DOMAIN regs' = DOMAIN regs /\ OneRowEach'
    BY <1>9, StatusSet DEF UpdateStatus
  <2> QED
    BY <1>1, <1>3, <1>9, <2>2, <2>3, <2>4 DEF UpdateStatus
<1>10. ASSUME NEW d \in Desks, NEW i \in DOMAIN regs,
              ReadCheckIn(d, i) \/ ReadWithdraw(d, i)
       PROVE  DeskTypes' /\ OneRowEach'
  <2>1. PICK s \in Status, kept \in BOOLEAN :
          Begin(d, [op |-> "write", row |-> i, status |-> s], kept)
    BY <1>10 DEF ReadCheckIn, ReadWithdraw, Status
  <2> DEFINE r == [op |-> "write", row |-> i, status |-> s]
  <2>2. r \in Request /\ r.row \in DOMAIN regs
    BY RowFields DEF Request
  <2>3. Begin(d, r, kept) /\ UNCHANGED <<division, regs>>
    BY <1>10, <2>1 DEF ReadCheckIn, ReadWithdraw
  <2> HIDE DEF r
  <2> QED
    BY <1>1, <1>2, <1>4, <1>5, <2>2, <2>3
<1>11. ASSUME NEW d \in Desks, GetNextWaitlisted(d)
       PROVE  DeskTypes' /\ OneRowEach'
  <2> DEFINE r == IF Waiting = {} THEN NoRequest
                  ELSE [op |-> "promote", row |-> NextWaitlisted]
  <2>1. /\ asked' = [asked EXCEPT ![d] = r]
        /\ UNCHANGED <<regs, division, careful>>
    BY <1>11 DEF GetNextWaitlisted, Then
  <2>2. Waiting # {} => NextWaitlisted \in Waiting
    BY FirstOfWaiting
  <2>3. /\ r \in Request
        /\ r.op \in {"promote", "write"} => r.row \in DOMAIN regs
    BY <1>3, <2>2, RowFields DEF Request
  <2> HIDE DEF r
  <2> QED
    BY <1>1, <1>4, <1>5, <2>1, <2>3
<1>12. ASSUME NEW d \in Desks, Promote(d) \/ WriteStatus(d)
       PROVE  DeskTypes' /\ OneRowEach'
  <2>1. /\ asked[d].row \in DOMAIN regs
        /\ asked' = [asked EXCEPT ![d] = NoRequest]
        /\ UNCHANGED <<division, careful>>
    BY <1>12, RequestFields DEF Promote, WriteStatus, Done, Then
  <2>2. PICK s \in Status :
          \/ UNCHANGED regs
          \/ ~Duplicate(asked[d].row, s) /\ SetStatus(asked[d].row, s)
    BY <1>12, RequestFields DEF Promote, WriteStatus, Status
  <2>3. /\ regs' \in Seq(Row) /\ DOMAIN regs' = DOMAIN regs
        /\ OneRowEach'
    BY <1>4, <1>5, <2>1, <2>2, StatusSet
  <2> QED
    BY <1>1, <1>3, <1>5, <2>1, <2>3
<1>13. ASSUME NEW d \in Desks, NEW rows \in SUBSET DOMAIN regs,
              BulkNoShow(d, rows)
       PROVE  DeskTypes' /\ OneRowEach'
  <2>1. Begin(d, NoRequest, Placed \cap rows = {} \/ Waiting = {})
    BY <1>13 DEF BulkNoShow
  <2>2. asked' = [asked EXCEPT ![d] = NoRequest] /\ careful' \in BOOLEAN
    BY <1>2, <1>3, <2>1
  <2>3. regs' \in Seq(Row) /\ DOMAIN regs' = DOMAIN regs /\ OneRowEach'
    BY <1>13, BulkChanges
  <2> QED
    BY <1>1, <1>3, <1>13, <2>2, <2>3 DEF BulkNoShow
<1>14. CASE CloseRegistration
  <2>1. division' \in [open : BOOLEAN, auto : BOOLEAN, promote : BOOLEAN]
    BY <1>14 DEF CloseRegistration, DeskTypes
  <2> QED
    BY <1>4, <1>14, <2>1 DEF CloseRegistration, DeskTypes
<1>15. ASSUME NEW d \in Desks, RequestFails(d)
       PROVE  DeskTypes' /\ OneRowEach'
  <2>1. /\ asked' = [asked EXCEPT ![d] = NoRequest]
        /\ careful' \in BOOLEAN /\ UNCHANGED <<division, regs>>
    BY <1>5, <1>15 DEF RequestFails
  <2> QED
    BY <1>1, <1>3, <1>4, <1>5, <2>1
<1>16. CASE UNCHANGED regvars
  BY <1>4, <1>16 DEF regvars, DeskTypes
<1> QED
  BY <1>6, <1>7, <1>8, <1>9, <1>10, <1>11, <1>12, <1>13, <1>14, <1>15, <1>16
     DEF RegistrationNext

-----------------------------------------------------------------------------
(* The places.                                                               *)

\* When the other desks rest, Fair says what holds with the request of d.
LEMMA OneAtATime ==
    ASSUME DeskTypes, Fair, NEW d \in Desks,
           asked[d] # NoRequest \/ Alone(d)
    PROVE  Alone(d) /\ FairWith(d)
<1>1. Alone(d)
  BY DEF Alone, Fair
<1>2. \A o \in Desks \ {d} : asked[o].op = "none"
  BY <1>1 DEF Alone, NoRequest
<1>3. asked[d].op \notin {"next", "promote"} =>
        \A o \in Desks : asked[o].op \notin {"next", "promote"}
  BY <1>2
<1> QED
  BY <1>1, <1>3 DEF Alone, Fair, FairWith

\* The same after a step.
LEMMA OneAtATimeAfter ==
    ASSUME DeskTypes', NEW d \in Desks, FairWith(d)'
    PROVE  Fair'
<1>1. \A o \in Desks \ {d} : asked'[o] = NoRequest
  BY DEF FairWith
<1>2. \A o \in Desks \ {d} : asked'[o].op = "none"
  BY <1>1 DEF NoRequest
<1>3. \A o, p \in Desks :
        asked'[o] # NoRequest /\ asked'[p] # NoRequest => o = p
  BY <1>1
<1>4. (\A o \in Desks : asked'[o].op \notin {"next", "promote"})
        => asked'[d].op \notin {"next", "promote"}
  OBVIOUS
<1>5. ASSUME NEW o \in Desks
      PROVE  /\ asked'[o].op \in {"next", "promote"} => PromotionIsDue(o)'
             /\ asked'[o].op \in {"count", "insert"} => CountIsGood(o)'
             /\ asked'[o].op = "write" => WriteIsGood(o)'
  <2>1. CASE o = d
    BY <2>1 DEF FairWith
  <2>2. CASE o # d
    BY <1>2, <2>2
  <2> QED
    BY <2>1, <2>2
<1> QED
  BY <1>3, <1>4, <1>5 DEF Fair, FairWith

\* A careful step of d starts from a fair desk and changes its request alone.
LEMMA CarefulStep ==
    ASSUME DeskTypes, careful /\ MaxTeams > 0 => Fair, MaxTeams > 0, careful',
           NEW d \in Desks, NEW r \in Request,
           asked' = [asked EXCEPT ![d] = r],
           careful' => careful /\ (asked[d] # NoRequest \/ Alone(d))
    PROVE  /\ FairWith(d) /\ asked'[d] = r
           /\ \A o \in Desks \ {d} : asked'[o] = NoRequest
<1>1. Fair /\ Alone(d) /\ FairWith(d)
  BY OneAtATime
<1>2. asked \in [Desks -> Request]
  BY DEF DeskTypes
<1> QED
  BY <1>1, <1>2 DEF Alone

\* A registration is recorded at the end of the table.
LEMMA RowAdded ==
    ASSUME DeskTypes, NEW new \in Row, regs' = Append(regs, new)
    PROVE  LET n == Len(regs) + 1
           IN  /\ \A t : With(t)' = IF t = new.status THEN With(t) \cup {n}
                                    ELSE With(t)
               /\ \A S \in SUBSET DOMAIN regs :
                    Cardinality(S \cup {n}) = Cardinality(S) + 1
<1> DEFINE n == Len(regs) + 1
<1>1. /\ Len(regs) \in Nat /\ DOMAIN regs = 1..Len(regs) /\ regs \in Seq(Row)
  BY RowFields DEF DeskTypes
<1>2. /\ regs' \in Seq(Row) /\ Len(regs') = n /\ regs'[n] = new
      /\ \A i \in 1..Len(regs) : regs'[i] = regs[i]
  BY <1>1, AppendProperties
<1>3. DOMAIN regs' = DOMAIN regs \cup {n} /\ n \notin DOMAIN regs
  <2>1. DOMAIN regs' = 1..n
    BY <1>2, LenProperties
  <2> QED
    BY <1>1, <2>1
<1>4. \A i \in DOMAIN regs : regs'[i] = regs[i]
  BY <1>1, <1>2
<1> HIDE DEF n
<1>5. \A t : With(t)' = IF t = new.status THEN With(t) \cup {n} ELSE With(t)
  BY <1>2, <1>3, <1>4 DEF With
<1>6. \A S \in SUBSET DOMAIN regs : Cardinality(S \cup {n}) = Cardinality(S) + 1
  BY <1>3, RowFields, FS_AddElement
<1> QED
  BY <1>5, <1>6 DEF n

\* Register: the division, the count and the insert of one request.
LEMMA RegisterIsFair ==
    ASSUME DeskTypes, DeskTypes', careful /\ MaxTeams > 0 => Fair,
           MaxTeams > 0, careful', NEW d \in Desks,
           \/ \E e \in Entrants : ReadDivision(d, e)
           \/ CountApproved(d) \/ CreateRegistration(d)
    PROVE  Fair'
<1>1. Taken \in Nat /\ MaxTeams \in Nat /\ Placed \in SUBSET DOMAIN regs
      /\ Waiting \in SUBSET DOMAIN regs /\ DOMAIN regs = 1..Len(regs)
      /\ Len(regs) \in Nat
  BY RowFields
<1>2. NoRequest \in Request /\ NoRequest.op = "none"
  BY DEF Request, NoRequest
<1>3. ASSUME NEW e \in Entrants, ReadDivision(d, e)
      PROVE  Fair'
  <2> DEFINE r == [op |-> "count", who |-> e]
  <2>1. r \in Request /\ r.op = "count"
    BY DEF Request
  <2>2. /\ division.open /\ asked[d] = NoRequest /\ UNCHANGED <<division, regs>>
        /\ asked' = [asked EXCEPT ![d] = r]
        /\ careful' = (careful /\ Alone(d) /\ TRUE)
    BY <1>3 DEF ReadDivision, Begin
  <2> HIDE DEF r
  <2>3. /\ FairWith(d) /\ asked'[d] = r
        /\ \A o \in Desks \ {d} : asked'[o] = NoRequest
    BY <2>1, <2>2, CarefulStep
  <2>4. CountIsGood(d)'
    BY <1>2, <2>1, <2>2, <2>3 DEF FairWith, CountIsGood, With
  <2>5. FairWith(d)'
    BY <1>2, <2>1, <2>2, <2>3, <2>4
       DEF FairWith, Taken, NobodyPasses, Placed, Waiting, With
  <2> QED
    BY <2>5, OneAtATimeAfter
<1>4. CASE CountApproved(d)
  <2> DEFINE r == [op |-> "insert", who |-> asked[d].who,
                   status |-> FirstStatus]
  <2>1. r \in Request /\ r.op = "insert" /\ r.status = FirstStatus
    BY <1>4, RequestFields
       DEF CountApproved, Request, FirstStatus, Status, Gone
  <2>2. /\ asked[d].op = "count" /\ UNCHANGED <<division, regs, careful>>
        /\ asked' = [asked EXCEPT ![d] = r]
    BY <1>4 DEF CountApproved, Then
  <2> HIDE DEF r
  <2>3. /\ FairWith(d) /\ asked'[d] = r
        /\ \A o \in Desks \ {d} : asked'[o] = NoRequest
    BY <1>2, <2>1, <2>2, CarefulStep
  <2>4. With("checked_in") = {} /\ Taken <= MaxTeams
    BY <2>2, <2>3 DEF FairWith, CountIsGood
  <2>5. Approved = Taken
    BY <2>4 DEF Approved, Taken, Placed
  <2>6. /\ r.status \in {"approved", "waitlisted", "pending"}
        /\ r.status = "approved" => division.auto /\ Taken < MaxTeams
        /\ r.status = "waitlisted" => Taken = MaxTeams
    BY <1>1, <2>1, <2>4, <2>5 DEF FirstStatus, NoRoom
  <2>7. CountIsGood(d)'
    BY <2>2, <2>3, <2>4, <2>6 DEF CountIsGood, Taken, Placed, With
  <2>8. FairWith(d)'
    BY <2>1, <2>2, <2>3, <2>7
       DEF FairWith, Taken, NobodyPasses, Placed, Waiting, With
  <2> QED
    BY <2>8, OneAtATimeAfter
<1>5. CASE CreateRegistration(d)
  <2> DEFINE new == [who |-> asked[d].who, status |-> asked[d].status]
  <2>1. new \in Row /\ new.status = asked[d].status
    BY <1>5, RequestFields DEF CreateRegistration, Row
  <2>2. /\ asked[d].op = "insert" /\ UNCHANGED <<division, careful>>
        /\ asked' = [asked EXCEPT ![d] = NoRequest]
        /\ UNCHANGED regs \/ regs' = Append(regs, new)
    BY <1>5 DEF CreateRegistration, Done, Then
  <2> HIDE DEF new
  <2>3. /\ FairWith(d) /\ asked'[d] = NoRequest
        /\ \A o \in Desks \ {d} : asked'[o] = NoRequest
    BY <1>2, <2>2, CarefulStep
  <2>4. /\ CountIsGood(d) /\ Taken <= MaxTeams /\ NobodyPasses
        /\ division.promote /\ Waiting # {} => Taken = MaxTeams
    BY <2>2, <2>3 DEF FairWith
  <2>5. CASE UNCHANGED regs
    <3>1. FairWith(d)'
      BY <1>2, <2>2, <2>3, <2>5
         DEF FairWith, Taken, NobodyPasses, Placed, Waiting, With
    <3> QED
      BY <3>1, OneAtATimeAfter
  <2>6. CASE regs' = Append(regs, new)
    <3> DEFINE n == Len(regs) + 1
    <3>1. /\ \A t : With(t)' = IF t = new.status THEN With(t) \cup {n}
                               ELSE With(t)
          /\ Cardinality(Placed \cup {n}) = Taken + 1
      BY <1>1, <2>1, <2>6, RowAdded DEF Taken
    <3>2. \A j \in DOMAIN regs : j < n
      BY <1>1
    <3> HIDE DEF n
    <3>3. /\ Placed' = With("approved")' \cup With("checked_in")'
          /\ Waiting' = With("waitlisted")' /\ Taken' = Cardinality(Placed')
      BY DEF Placed, Waiting, Taken
    <3>4. /\ asked[d].status \in {"approved", "waitlisted", "pending"}
          /\ asked[d].status = "approved" => division.auto /\ Taken < MaxTeams
          /\ asked[d].status = "waitlisted" => Taken = MaxTeams
          /\ With("checked_in") = {}
      BY <2>2, <2>4 DEF CountIsGood
    <3>5. /\ Placed' = IF new.status = "approved" THEN Placed \cup {n}
                       ELSE Placed
          /\ Waiting' = IF new.status = "waitlisted" THEN Waiting \cup {n}
                        ELSE Waiting
          /\ With("checked_in")' = {}
      BY <2>1, <3>1, <3>3, <3>4 DEF Placed, Waiting
    <3>6. /\ Taken' <= MaxTeams /\ NobodyPasses'
          /\ division'.promote /\ Waiting' # {} => Taken' = MaxTeams
      <4>1. CASE new.status = "approved"
        <5>1. Taken < MaxTeams /\ Taken' = Taken + 1
          BY <2>1, <3>1, <3>3, <3>4, <3>5, <4>1
        <5>2. division.promote => Waiting = {}
          BY <1>1, <2>4, <5>1
        <5>3. Waiting' = Waiting
          BY <3>5, <4>1
        <5> QED
          BY <1>1, <2>2, <5>1, <5>2, <5>3 DEF NobodyPasses
      <4>2. CASE new.status = "waitlisted"
        <5>1. Taken' = MaxTeams /\ Placed' = Placed
          BY <2>1, <3>3, <3>4, <3>5, <4>2 DEF Taken
        <5>2. NobodyPasses'
          BY <1>1, <2>2, <2>4, <3>2, <3>5, <4>2, <5>1 DEF NobodyPasses
        <5> QED
          BY <1>1, <5>1, <5>2
      <4>3. CASE new.status = "pending"
        BY <2>2, <2>4, <3>3, <3>5, <4>3 DEF NobodyPasses, Taken
      <4> QED
        BY <2>1, <3>4, <4>1, <4>2, <4>3
    <3>7. FairWith(d)'
      BY <1>2, <2>3, <3>5, <3>6 DEF FairWith
    <3> QED
      BY <3>7, OneAtATimeAfter
  <2> QED
    BY <2>2, <2>5, <2>6
<1> QED
  BY <1>3, <1>4, <1>5

\* UpdateStatus: the organiser's write, before the promotion that may follow.
LEMMA UpdateIsFair ==
    ASSUME DeskTypes, DeskTypes', careful /\ MaxTeams > 0 => Fair,
           MaxTeams > 0, careful', NEW d \in Desks,
           NEW i \in DOMAIN regs, NEW s \in Status, UpdateStatus(d, i, s)
    PROVE  Fair'
<1>1. Taken \in Nat /\ MaxTeams \in Nat /\ Placed \in SUBSET DOMAIN regs
      /\ Waiting \in SUBSET DOMAIN regs
  BY RowFields
<1>2. /\ NoRequest \in Request /\ NoRequest.op = "none"
      /\ [op |-> "next"] \in Request
  BY DEF Request, NoRequest
<1>3. PICK r \in {NoRequest, [op |-> "next"]} :
        /\ r = IF s \in Gone /\ division.promote THEN [op |-> "next"]
               ELSE NoRequest
        /\ Begin(d, r, KeptByHand(i, s))
  BY DEF UpdateStatus
<1>4. r.op = IF s \in Gone /\ division.promote THEN "next" ELSE "none"
  BY <1>2, <1>3
<1>5. /\ asked[d] = NoRequest /\ asked' = [asked EXCEPT ![d] = r]
      /\ careful' = (careful /\ Alone(d) /\ KeptByHand(i, s))
      /\ division' = division /\ SetStatus(i, s)
  BY <1>3 DEF UpdateStatus, Begin
<1>6. KeptByHand(i, s)
  BY <1>5
<1>7. /\ FairWith(d) /\ asked'[d] = r
      /\ \A o \in Desks \ {d} : asked'[o] = NoRequest
  BY <1>2, <1>3, <1>5, CarefulStep
<1>8. /\ Taken <= MaxTeams /\ NobodyPasses
      /\ division.promote /\ Waiting # {} => Taken = MaxTeams
      /\ With("checked_in") # {} => ~division.open
  BY <1>2, <1>5, <1>7 DEF FairWith
<1>9. /\ \A t : With(t)' = IF t = s THEN With(t) \cup {i} ELSE With(t) \ {i}
      /\ Placed' = IF s \in {"approved", "checked_in"}
                   THEN Placed \cup {i} ELSE Placed \ {i}
      /\ Waiting' = IF s = "waitlisted" THEN Waiting \cup {i}
                    ELSE Waiting \ {i}
      /\ Taken' = Cardinality(Placed')
  BY <1>5, StatusSet DEF Taken
<1>10. /\ Cardinality(Placed \cup {i}) = IF i \in Placed THEN Taken
                                         ELSE Taken + 1
       /\ Cardinality(Placed \ {i}) = IF i \in Placed THEN Taken - 1
                                      ELSE Taken
  BY <1>1, OneMoreRow DEF Taken
<1>11. CASE s = "approved"
  <2>1. Cardinality(Placed \ {i}) < MaxTeams
    BY <1>6, <1>11 DEF KeptByHand, Gone
  <2>2. /\ Placed' = Placed \cup {i} /\ Waiting' = Waiting \ {i}
        /\ With("checked_in")' \subseteq With("checked_in")
        /\ r.op = "none"
    BY <1>4, <1>9, <1>11 DEF Gone
  <2>3. Taken' <= MaxTeams
    BY <1>1, <1>9, <1>10, <2>1, <2>2
  <2>4. division.promote /\ Waiting # {} =>
          i \in Placed /\ Placed' = Placed /\ Taken' = MaxTeams
    BY <1>1, <1>8, <1>9, <1>10, <2>1, <2>2
  <2>5. NobodyPasses'
    BY <1>5, <1>8, <2>2, <2>4 DEF NobodyPasses
  <2>6. FairWith(d)'
    BY <1>5, <1>7, <1>8, <2>2, <2>3, <2>4, <2>5 DEF FairWith
  <2> QED
    BY <2>6, OneAtATimeAfter
<1>12. CASE s \in Gone
  <2>1. i \in Placed \/ Waiting \ {i} = {}
    BY <1>6, <1>12 DEF KeptByHand, Gone
  <2>2. /\ Placed' = Placed \ {i} /\ Waiting' = Waiting \ {i}
        /\ With("checked_in")' \subseteq With("checked_in")
        /\ r.op = IF division.promote THEN "next" ELSE "none"
    BY <1>4, <1>9, <1>12 DEF Gone
  <2>3. Taken' <= MaxTeams /\ NobodyPasses'
    BY <1>1, <1>5, <1>8, <1>9, <1>10, <2>2 DEF NobodyPasses
  <2>4. division.promote /\ Waiting' # {} => Taken' = MaxTeams - 1
    BY <1>1, <1>8, <1>9, <1>10, <2>1, <2>2
  <2>5. division.promote => PromotionIsDue(d)'
    BY <1>5, <1>7, <2>2, <2>4 DEF PromotionIsDue
  <2>6. FairWith(d)'
    BY <1>5, <1>7, <1>8, <2>2, <2>3, <2>5 DEF FairWith
  <2> QED
    BY <2>6, OneAtATimeAfter
<1>13. CASE s # "approved" /\ s \notin Gone
  <2>1. i \notin Placed /\ s \notin {"waitlisted", "checked_in"}
    BY <1>6, <1>13 DEF KeptByHand
  <2>2. /\ Placed' = Placed /\ Waiting' = Waiting \ {i}
        /\ With("checked_in")' \subseteq With("checked_in")
        /\ r.op = "none" /\ Taken' = Taken
    BY <1>4, <1>9, <1>10, <1>13, <2>1
  <2>3. NobodyPasses'
    BY <1>5, <1>8, <2>2 DEF NobodyPasses
  <2>4. FairWith(d)'
    BY <1>5, <1>7, <1>8, <2>2, <2>3 DEF FairWith
  <2> QED
    BY <2>4, OneAtATimeAfter
<1> QED
  BY <1>11, <1>12, <1>13

\* The promotion that follows a withdrawal gives the place that was given up
\* to whoever has waited longest.
LEMMA PromotionIsFair ==
    ASSUME DeskTypes, DeskTypes', OneRowEach,
           careful /\ MaxTeams > 0 => Fair, MaxTeams > 0, careful',
           NEW d \in Desks, GetNextWaitlisted(d) \/ Promote(d)
    PROVE  Fair'
<1>1. Taken \in Nat /\ MaxTeams \in Nat /\ Placed \in SUBSET DOMAIN regs
      /\ Waiting \in SUBSET DOMAIN regs /\ DOMAIN regs \subseteq Nat
  BY RowFields
<1>2. NoRequest \in Request /\ NoRequest.op = "none"
  BY DEF Request, NoRequest
<1>3. CASE GetNextWaitlisted(d)
  <2> DEFINE r == IF Waiting = {} THEN NoRequest
                  ELSE [op |-> "promote", row |-> NextWaitlisted]
  <2>1. Waiting # {} => /\ NextWaitlisted \in Waiting
                        /\ \A j \in Waiting : NextWaitlisted <= j
    BY FirstOfWaiting
  <2>2. /\ r \in Request
        /\ r.op = IF Waiting = {} THEN "none" ELSE "promote"
        /\ Waiting # {} => r.row = NextWaitlisted
    BY <1>1, <1>2, <2>1 DEF Request
  <2>3. /\ asked[d].op = "next" /\ UNCHANGED <<division, regs, careful>>
        /\ asked' = [asked EXCEPT ![d] = r]
    BY <1>3 DEF GetNextWaitlisted, Then
  <2> HIDE DEF r
  <2>4. /\ FairWith(d) /\ asked'[d] = r
        /\ \A o \in Desks \ {d} : asked'[o] = NoRequest
    BY <1>2, <2>2, <2>3, CarefulStep
  <2>5. PromotionIsDue(d)
    BY <2>3, <2>4 DEF FairWith
  <2>6. Placed' = Placed /\ Waiting' = Waiting /\ Taken' = Taken
        /\ With("checked_in")' = With("checked_in")
    BY <2>3 DEF Placed, Waiting, With, Taken
  <2>7. Waiting # {} => PromotionIsDue(d)'
    BY <2>1, <2>2, <2>3, <2>4, <2>5, <2>6 DEF PromotionIsDue
  <2>8. FairWith(d)'
    BY <2>2, <2>3, <2>4, <2>6, <2>7 DEF FairWith, NobodyPasses
  <2> QED
    BY <2>8, OneAtATimeAfter
<1>4. CASE Promote(d)
  <2> PICK i : i = asked[d].row
    OBVIOUS
  <2>1. /\ asked[d].op = "promote" /\ UNCHANGED <<division, careful>>
        /\ asked' = [asked EXCEPT ![d] = NoRequest]
        /\ ~Duplicate(i, "approved") => SetStatus(i, "approved")
    BY <1>4 DEF Promote, Done, Then
  <2>2. /\ FairWith(d) /\ asked'[d] = NoRequest
        /\ \A o \in Desks \ {d} : asked'[o] = NoRequest
    BY <1>2, <2>1, CarefulStep
  <2>3. /\ division.promote /\ Taken = MaxTeams - 1
        /\ i \in Waiting /\ \A j \in Waiting : i <= j
        /\ NobodyPasses
        /\ With("checked_in") # {} => ~division.open
    BY <2>1, <2>2 DEF FairWith, PromotionIsDue
  <2>4. SetStatus(i, "approved") /\ i \in DOMAIN regs
    BY <1>1, <2>1, <2>3, NoDuplicate
  <2>5. /\ Placed' = Placed \cup {i} /\ Waiting' = Waiting \ {i}
        /\ With("checked_in")' \subseteq With("checked_in")
        /\ Taken' = Cardinality(Placed')
    BY <2>4, StatusSet DEF Taken, Status
  <2>6. i \notin Placed
    BY <2>3 DEF Placed, Waiting, With
  <2>7. Taken' = MaxTeams
    BY <1>1, <2>3, <2>4, <2>5, <2>6, OneMoreRow DEF Taken
  <2>8. \A j \in Waiting' : i < j
    BY <1>1, <2>3, <2>4, <2>5
  <2>9. NobodyPasses'
    BY <2>1, <2>3, <2>5, <2>8 DEF NobodyPasses
  <2>10. FairWith(d)'
    BY <1>1, <1>2, <2>1, <2>2, <2>3, <2>5, <2>7, <2>9 DEF FairWith
  <2> QED
    BY <2>10, OneAtATimeAfter
<1> QED
  BY <1>3, <1>4

\* CheckIn, WithdrawMidTournament: the check of the row and the write.
LEMMA WriteIsFair ==
    ASSUME DeskTypes, DeskTypes', OneRowEach,
           careful /\ MaxTeams > 0 => Fair, MaxTeams > 0, careful',
           NEW d \in Desks,
           \/ \E i \in DOMAIN regs : ReadCheckIn(d, i) \/ ReadWithdraw(d, i)
           \/ WriteStatus(d)
    PROVE  Fair'
<1>1. Taken \in Nat /\ MaxTeams \in Nat /\ Placed \in SUBSET DOMAIN regs
      /\ Waiting \in SUBSET DOMAIN regs /\ DOMAIN regs \subseteq Nat
  BY RowFields
<1>2. NoRequest \in Request /\ NoRequest.op = "none"
  BY DEF Request, NoRequest
<1>3. ASSUME NEW i \in DOMAIN regs, ReadCheckIn(d, i) \/ ReadWithdraw(d, i)
      PROVE  Fair'
  <2>1. PICK s \in Status :
          /\ asked' = [asked EXCEPT
                         ![d] = [op |-> "write", row |-> i, status |-> s]]
          /\ asked[d] = NoRequest /\ UNCHANGED <<division, regs>>
          /\ careful' => careful /\ Alone(d)
          /\ s \in {"checked_in", "withdrawn_mid_tournament"}
          /\ s = "checked_in" => i \in With("approved")
          /\ careful' /\ s = "checked_in" => ~division.open
          /\ careful' /\ s = "withdrawn_mid_tournament" => Waiting = {}
    <3>1. CASE ReadCheckIn(d, i)
      <4>1. /\ asked' = [asked EXCEPT ![d] = [op |-> "write", row |-> i,
                                              status |-> "checked_in"]]
            /\ asked[d] = NoRequest /\ UNCHANGED <<division, regs>>
            /\ careful' => careful /\ Alone(d)
        BY <3>1 DEF ReadCheckIn, Begin
      <4>2. ~division.open
        BY <3>1, Zenon DEF ReadCheckIn, Begin
      <4>3. i \in With("approved")
        BY <3>1 DEF ReadCheckIn, With
      <4>4. "checked_in" \in Status
        BY DEF Status
      <4>5. "checked_in" # "withdrawn_mid_tournament"
        OBVIOUS
      <4> QED
        BY <4>1, <4>2, <4>3, <4>4, <4>5, Zenon
    <3>2. CASE ReadWithdraw(d, i)
      BY <3>2 DEF ReadWithdraw, Begin, Status, With
    <3> QED
      BY <1>3, <3>1, <3>2
  <2> DEFINE r == [op |-> "write", row |-> i, status |-> s]
  <2>2. /\ r \in Request /\ r.op = "write" /\ r.row = i /\ r.status = s
    BY <1>1 DEF Request
  <2>3. asked' = [asked EXCEPT ![d] = r]
    BY <2>1
  <2> HIDE DEF r
  <2>4. /\ FairWith(d) /\ asked'[d] = r
        /\ \A o \in Desks \ {d} : asked'[o] = NoRequest
    BY <2>1, <2>2, <2>3, CarefulStep
  <2>5. /\ Placed' = Placed /\ Waiting' = Waiting /\ Taken' = Taken
        /\ With("checked_in")' = With("checked_in")
        /\ With("approved")' = With("approved") /\ division' = division
    BY <2>1 DEF Placed, Waiting, With, Taken
  <2>6. WriteIsGood(d)'
    BY <2>1, <2>2, <2>4, <2>5 DEF WriteIsGood
  <2>7. FairWith(d)'
    BY <1>2, <2>1, <2>2, <2>4, <2>5, <2>6 DEF FairWith, NobodyPasses
  <2> QED
    BY <2>7, OneAtATimeAfter
<1>4. CASE WriteStatus(d)
  <2> PICK i, s : i = asked[d].row /\ s = asked[d].status
    OBVIOUS
  <2>1. /\ asked[d].op = "write" /\ UNCHANGED <<division, careful>>
        /\ asked' = [asked EXCEPT ![d] = NoRequest]
        /\ IF Duplicate(i, s) THEN UNCHANGED regs ELSE SetStatus(i, s)
    BY <1>4 DEF WriteStatus, Done, Then
  <2>2. /\ FairWith(d) /\ asked'[d] = NoRequest
        /\ \A o \in Desks \ {d} : asked'[o] = NoRequest
    BY <1>2, <2>1, CarefulStep
  <2>3. /\ s \in {"checked_in", "withdrawn_mid_tournament"}
        /\ s = "checked_in" => i \in With("approved") /\ ~division.open
        /\ s = "withdrawn_mid_tournament" => Waiting = {}
    BY <2>1, <2>2 DEF FairWith, WriteIsGood
  <2>4. /\ Taken <= MaxTeams /\ NobodyPasses
        /\ With("checked_in") # {} => ~division.open
        /\ division.promote /\ Waiting # {} => Taken = MaxTeams
    BY <2>1, <2>2 DEF FairWith
  <2>5. i \in DOMAIN regs /\ s \in Status
    BY <2>1, RequestFields
  <2>6. SetStatus(i, s) =>
          /\ \A t : With(t)' = IF t = s THEN With(t) \cup {i}
                               ELSE With(t) \ {i}
          /\ Placed' = IF s \in {"approved", "checked_in"}
                       THEN Placed \cup {i} ELSE Placed \ {i}
          /\ Waiting' = IF s = "waitlisted" THEN Waiting \cup {i}
                        ELSE Waiting \ {i}
    BY <2>5, StatusSet
  <2>7. Taken' = Cardinality(Placed') /\ division' = division
    BY <2>1 DEF Taken
  <2>8. CASE s = "checked_in"
    <3>1. i \in Placed /\ i \notin Waiting
      BY <2>3, <2>8 DEF Placed, Waiting, With
    <3>2. SetStatus(i, s)
      BY <2>1, <3>1, NoDuplicate
    <3>3. Placed' = Placed /\ Waiting' = Waiting /\ Taken' = Taken
      BY <2>6, <2>7, <2>8, <3>1, <3>2 DEF Taken
    <3>4. FairWith(d)'
      BY <1>2, <2>2, <2>3, <2>4, <2>7, <2>8, <3>3 DEF FairWith, NobodyPasses
    <3> QED
      BY <3>4, OneAtATimeAfter
  <2>9. CASE s = "withdrawn_mid_tournament" /\ ~Duplicate(i, s)
    <3>1. /\ Placed' = Placed \ {i} /\ Waiting' = {}
          /\ With("checked_in")' \subseteq With("checked_in")
      BY <2>1, <2>3, <2>6, <2>9
    <3>2. Cardinality(Placed \ {i}) \in {Taken, Taken - 1}
      BY <1>1, <2>5, OneMoreRow DEF Taken
    <3>3. Taken' <= MaxTeams
      BY <1>1, <2>4, <2>7, <3>1, <3>2
    <3>4. FairWith(d)'
      BY <1>2, <2>2, <2>4, <2>7, <3>1, <3>3 DEF FairWith, NobodyPasses
    <3> QED
      BY <3>4, OneAtATimeAfter
  <2>10. CASE s = "withdrawn_mid_tournament" /\ Duplicate(i, s)
    <3>1. /\ Placed' = Placed /\ Waiting' = Waiting /\ Taken' = Taken
          /\ With("checked_in")' = With("checked_in")
      BY <2>1, <2>10 DEF Placed, Waiting, With, Taken
    <3>2. FairWith(d)'
      BY <1>2, <2>2, <2>4, <2>7, <3>1 DEF FairWith, NobodyPasses
    <3> QED
      BY <3>2, OneAtATimeAfter
  <2> QED
    BY <2>3, <2>8, <2>9, <2>10
<1> QED
  BY <1>3, <1>4

\* BulkNoShow, and a request that fails midway.
LEMMA OthersAreFair ==
    ASSUME DeskTypes, DeskTypes', careful /\ MaxTeams > 0 => Fair,
           MaxTeams > 0, careful', NEW d \in Desks,
           \/ \E rows \in SUBSET DOMAIN regs : BulkNoShow(d, rows)
           \/ RequestFails(d)
    PROVE  Fair'
<1>1. Taken \in Nat /\ MaxTeams \in Nat /\ Placed \in SUBSET DOMAIN regs
  BY RowFields
<1>2. NoRequest \in Request /\ NoRequest.op = "none"
  BY DEF Request, NoRequest
<1>3. ASSUME NEW rows \in SUBSET DOMAIN regs, BulkNoShow(d, rows)
      PROVE  Fair'
  <2>1. /\ asked[d] = NoRequest /\ asked' = [asked EXCEPT ![d] = NoRequest]
        /\ careful' => careful /\ Alone(d)
        /\ Placed \cap rows = {} \/ Waiting = {}
        /\ division' = division
    BY <1>3 DEF BulkNoShow, Begin
  <2>2. /\ FairWith(d) /\ asked'[d] = NoRequest
        /\ \A o \in Desks \ {d} : asked'[o] = NoRequest
    BY <1>2, <2>1, CarefulStep
  <2>3. /\ Taken <= MaxTeams /\ NobodyPasses
        /\ With("checked_in") # {} => ~division.open
        /\ division.promote /\ Waiting # {} => Taken = MaxTeams
    BY <1>2, <2>1, <2>2 DEF FairWith
  <2>4. /\ Placed' \subseteq Placed /\ Placed \subseteq Placed' \cup rows
        /\ Waiting' \subseteq Waiting
        /\ With("checked_in")' \subseteq With("checked_in")
    BY <1>3, BulkChanges
  <2>5. Taken' \in Nat /\ Taken' <= Taken
    BY <1>1, <2>4, RowFields, FS_Subset DEF Taken
  <2>6. Waiting' # {} => Taken' = Taken
    <3>1. Waiting' # {} => Placed' = Placed
      BY <2>1, <2>4
    <3> QED
      BY <3>1 DEF Taken
  <2>7. NobodyPasses'
    BY <2>1, <2>3, <2>4 DEF NobodyPasses
  <2>8. Taken' <= MaxTeams
    BY <1>1, <2>3, <2>5
  <2>9. FairWith(d)'
    BY <1>2, <2>1, <2>2, <2>3, <2>4, <2>6, <2>7, <2>8 DEF FairWith
  <2> QED
    BY <2>9, OneAtATimeAfter
<1>4. CASE RequestFails(d)
  <2>1. /\ asked[d] # NoRequest /\ asked' = [asked EXCEPT ![d] = NoRequest]
        /\ careful' => careful
        /\ asked[d].op \notin {"next", "promote"}
        /\ UNCHANGED <<division, regs>>
    BY <1>4 DEF RequestFails
  <2>2. /\ FairWith(d) /\ asked'[d] = NoRequest
        /\ \A o \in Desks \ {d} : asked'[o] = NoRequest
    BY <1>2, <2>1, CarefulStep
  <2>3. /\ Placed' = Placed /\ Waiting' = Waiting /\ Taken' = Taken
        /\ With("checked_in")' = With("checked_in") /\ division' = division
    BY <2>1 DEF Placed, Waiting, With, Taken
  <2>4. FairWith(d)'
    BY <1>2, <2>1, <2>2, <2>3 DEF FairWith, NobodyPasses
  <2> QED
    BY <2>4, OneAtATimeAfter
<1> QED
  BY <1>3, <1>4

\* Every step keeps a careful desk fair.
LEMMA FairStep ==
    ASSUME DeskTypes, DeskTypes', OneRowEach,
           careful /\ MaxTeams > 0 => Fair, MaxTeams > 0, careful',
           [RegistrationNext]_regvars
    PROVE  Fair'
<1>1. CASE CloseRegistration
  <2>1. Fair /\ UNCHANGED <<regs, asked>>
    BY <1>1 DEF CloseRegistration
  <2>2. /\ Placed' = Placed /\ Waiting' = Waiting /\ Taken' = Taken
        /\ \A t : With(t)' = With(t)
    BY <2>1 DEF Placed, Waiting, With, Taken
  <2>3. /\ division'.open = FALSE /\ division'.auto = division.auto
        /\ division'.promote = division.promote
    BY <1>1 DEF CloseRegistration, DeskTypes
  <2>4. NobodyPasses'
    BY <2>1, <2>2, <2>3 DEF Fair, NobodyPasses
  <2>5. ASSUME NEW d \in Desks
        PROVE  /\ PromotionIsDue(d) => PromotionIsDue(d)'
               /\ CountIsGood(d) => CountIsGood(d)'
               /\ WriteIsGood(d) => WriteIsGood(d)'
    BY <2>1, <2>2, <2>3 DEF PromotionIsDue, CountIsGood, WriteIsGood
  <2> QED
    BY <2>1, <2>2, <2>3, <2>4, <2>5 DEF Fair
<1>2. CASE UNCHANGED regvars
  <2>1. Fair /\ UNCHANGED <<division, regs, asked>>
    BY <1>2 DEF regvars
  <2> QED
    BY <2>1 DEF Fair, NobodyPasses, Placed, Waiting, With, Taken,
                PromotionIsDue, CountIsGood, WriteIsGood
<1>3. CASE \E d \in Desks : \/ \E e \in Entrants : ReadDivision(d, e)
                            \/ CountApproved(d) \/ CreateRegistration(d)
  BY <1>3, RegisterIsFair
<1>4. CASE \E d \in Desks, i \in DOMAIN regs :
             \E s \in Status : UpdateStatus(d, i, s)
  BY <1>4, UpdateIsFair
<1>5. CASE \E d \in Desks : GetNextWaitlisted(d) \/ Promote(d)
  BY <1>5, PromotionIsFair
<1>6. CASE \E d \in Desks :
             \/ \E i \in DOMAIN regs : ReadCheckIn(d, i) \/ ReadWithdraw(d, i)
             \/ WriteStatus(d)
  BY <1>6, WriteIsFair
<1>7. CASE \E d \in Desks :
             \/ \E rows \in SUBSET DOMAIN regs : BulkNoShow(d, rows)
             \/ RequestFails(d)
  BY <1>7, OthersAreFair
<1> QED
  BY <1>1, <1>2, <1>3, <1>4, <1>5, <1>6, <1>7 DEF RegistrationNext

-----------------------------------------------------------------------------
\* Whatever the number of desks, entrants and places: a desk that keeps to the
\* rules (CarefulDeskIsFair, Registration.tla) never gives out more places
\* than there are, leaves none free while somebody waits, and lets nobody pass
\* (Register, UpdateStatus, CheckIn and the promotion of registration.go).
THEOREM CarefulDesksAreFair == RegistrationSpec => []CarefulDeskIsFair
<1>1. RegistrationInit => DeskInv
  <2> SUFFICES ASSUME RegistrationInit PROVE DeskInv
    OBVIOUS
  <2>1. /\ regs = <<>> /\ regs \in Seq(Row) /\ DOMAIN regs = {}
        /\ asked = [d \in Desks |-> NoRequest] /\ careful = TRUE
        /\ division \in [open : BOOLEAN, auto : BOOLEAN, promote : BOOLEAN]
    <3>1. regs = <<>> /\ regs \in Seq(Row) /\ Len(regs) = 0
      BY EmptySeq DEF RegistrationInit
    <3>2. DOMAIN regs = 1..0
      BY <3>1, LenProperties
    <3>3. division \in [open : BOOLEAN, auto : BOOLEAN, promote : BOOLEAN]
      BY DEF RegistrationInit
    <3>4. DOMAIN regs = {}
      BY <3>2
    <3> QED
      BY <3>1, <3>3, <3>4 DEF RegistrationInit
  <2>2. /\ NoRequest \in Request
        /\ \A d \in Desks : asked[d] = NoRequest /\ asked[d].op = "none"
    BY <2>1 DEF Request, NoRequest
  <2>3. DeskTypes /\ OneRowEach
    BY <2>1, <2>2 DEF DeskTypes, OneRowEach
  <2>4. /\ Placed = {} /\ Waiting = {} /\ With("checked_in") = {}
        /\ Taken = 0 /\ MaxTeams \in Nat
    BY <2>1, FS_EmptySet, RegistrationAssumption
       DEF Placed, Waiting, With, Taken
  <2>5. MaxTeams > 0 => Fair
    BY <2>2, <2>4 DEF Fair, NobodyPasses
  <2> QED
    BY <2>3, <2>5 DEF DeskInv
<1>2. DeskInv /\ [RegistrationNext]_regvars => DeskInv'
  <2> SUFFICES ASSUME DeskInv, [RegistrationNext]_regvars PROVE DeskInv'
    OBVIOUS
  <2>1. DeskTypes /\ OneRowEach /\ (careful /\ MaxTeams > 0 => Fair)
    BY DEF DeskInv
  <2>2. DeskTypes' /\ OneRowEach'
    BY <2>1, DeskStep
  <2>3. careful' /\ MaxTeams > 0 => Fair'
    BY <2>1, <2>2, FairStep
  <2> QED
    BY <2>2, <2>3 DEF DeskInv
<1>3. DeskInv => CarefulDeskIsFair
  <2> SUFFICES ASSUME DeskInv, careful, MaxTeams > 0
               PROVE  /\ Cardinality(Placed) <= MaxTeams
                      /\ (division.promote /\ Waiting # {}
                          /\ \A d \in Desks : asked[d] = NoRequest)
                            => Cardinality(Placed) = MaxTeams
                      /\ (division.auto /\ division.promote) =>
                            \A i \in Waiting, j \in Placed : j < i
    BY DEF CarefulDeskIsFair
  <2>1. Fair
    BY DEF DeskInv
  <2>2. (\A d \in Desks : asked[d] = NoRequest)
          => \A d \in Desks : asked[d].op = "none"
    BY DEF NoRequest
  <2> QED
    BY <2>1, <2>2 DEF Fair, NobodyPasses, Taken
<1> QED
  BY <1>1, <1>2, <1>3, PTL DEF RegistrationSpec

-----------------------------------------------------------------------------
(* Standings: QuietTableIsExact for any number of recomputations, teams and  *)
(* matches, and any points.  The invariant says what a recomputation with    *)
(* which nothing interfered has read and written so far.                     *)

\* What the matches of S are worth to t, one by one.
Total(t, S) == MapThenSumSet(LAMBDA g : Worth(g, t), S)

\* sum is zero for no match, and each match adds its worth.
AddsUp(t, S, sum) ==
    /\ IsFiniteSet(S) /\ sum \in [SUBSET S -> Int] /\ sum[{}] = 0
    /\ \A s \in SUBSET S : \A x \in s : sum[s] = Worth(x, t) + sum[s \ {x}]

\* Such a sum is what the matches are worth.
LEMMA WorthAddsUp ==
    ASSUME NEW t, NEW S, NEW sum, AddsUp(t, S, sum)
    PROVE  Total(t, S) = sum[S]
<1> USE DEF AddsUp
<1> DEFINE Step(f, s) == IF s = {} THEN 0
                         ELSE LET x == CHOOSE y \in s : TRUE
                              IN  Worth(x, t) + f[s \ {x}]
           Fold(f) == f = [s \in SUBSET S |-> Step(f, s)]
           iter == CHOOSE f : Fold(f)
<1>1. Total(t, S) = iter[S]
  BY DEF Total, MapThenSumSet, MapThenFoldSet
<1>2. Fold(sum)
  OBVIOUS
<1> HIDE DEF Fold
<1>. Fold(iter)
  BY <1>2, Zenon
<1> HIDE DEF iter
<1>3. iter = [s \in SUBSET S |-> Step(iter, s)]
  BY DEF Fold
<1>4. ASSUME NEW s \in SUBSET S, iter[s] # sum[s]
      PROVE  \E r \in SUBSET S : /\ iter[r] # sum[r]
                                 /\ Cardinality(r) < Cardinality(s)
  <2>1. s # {} /\ \E y \in s : TRUE
    BY <1>3, <1>4
  <2>2. PICK x \in s : iter[s] = Worth(x, t) + iter[s \ {x}]
    BY <1>3, <2>1
  <2>3. iter[s \ {x}] # sum[s \ {x}]
    BY <1>4, <2>2
  <2>4. IsFiniteSet(s) /\ Cardinality(s) \in Nat
    BY FS_Subset, FS_CardinalityType
  <2>5. Cardinality(s \ {x}) < Cardinality(s)
    <3>1. Cardinality(s \ {x}) = Cardinality(s) - 1
      BY <2>4, FS_RemoveElement
    <3> QED
      BY <2>4, <3>1
  <2> QED
    BY <2>3, <2>5
<1> DEFINE sizes == {n \in Nat : \E s \in SUBSET S :
                                    iter[s] # sum[s] /\ Cardinality(s) = n}
<1>5. sizes = {}
  <2> SUFFICES ASSUME sizes # {} PROVE FALSE
    OBVIOUS
  <2>1. PICK n \in sizes : \A m \in sizes : n <= m
    BY LeastNumber
  <2>2. PICK s \in SUBSET S : iter[s] # sum[s] /\ Cardinality(s) = n
    BY <2>1
  <2>3. PICK r \in SUBSET S : iter[r] # sum[r]
                              /\ Cardinality(r) < Cardinality(s)
    BY <1>4, <2>2
  <2>4. Cardinality(r) \in Nat
    BY FS_Subset, FS_CardinalityType
  <2>5. Cardinality(r) \in sizes /\ n \in Nat
    BY <2>3, <2>4
  <2> QED
    BY <2>1, <2>2, <2>3, <2>4, <2>5
<1>6. Cardinality(S) \in Nat
  BY FS_CardinalityType
<1> QED
  BY <1>1, <1>5, <1>6

-----------------------------------------------------------------------------
(* What a team is worth.                                                     *)

\* The matches of a team.
Mine(t) == {g \in Games : t \in {g[1], g[2]}}

\* A team's completed matches are won, drawn or lost.
LEMMA MatchesOfTeam ==
    ASSUME result \in [Games -> 0..3], NEW t
    PROVE  /\ \A s \in SUBSET Games :
                IsFiniteSet(s) /\ Cardinality(s) \in Nat
           /\ Won(t) \in SUBSET Games /\ Lost(t) \in SUBSET Games
           /\ Drawn(t) \in SUBSET Games
           /\ Played(t) = {g \in Mine(t) : result[g] # 0}
           /\ \A g \in Mine(t) :
                /\ g \in Won(t) => Worth(g, t) = WinPoints
                                   /\ g \notin Lost(t) /\ g \notin Drawn(t)
                /\ g \in Lost(t) => Worth(g, t) = LossPoints
                                    /\ g \notin Drawn(t)
                /\ g \in Drawn(t) => Worth(g, t) = DrawPoints
                /\ g \notin Won(t) \cup Lost(t) \cup Drawn(t)
                     => Worth(g, t) = 0
<1>1. \A s \in SUBSET Games : IsFiniteSet(s) /\ Cardinality(s) \in Nat
  BY StandingsAssumption, FS_Subset, FS_CardinalityType
<1>2. /\ Won(t) \in SUBSET Games /\ Lost(t) \in SUBSET Games
      /\ Drawn(t) \in SUBSET Games
      /\ Played(t) = {g \in Mine(t) : result[g] # 0}
  BY DEF Won, Lost, Drawn, Played, Mine
<1>3. ASSUME NEW g \in Mine(t)
      PROVE  /\ g \in Won(t) => Worth(g, t) = WinPoints
                                /\ g \notin Lost(t) /\ g \notin Drawn(t)
             /\ g \in Lost(t) => Worth(g, t) = LossPoints
                                 /\ g \notin Drawn(t)
             /\ g \in Drawn(t) => Worth(g, t) = DrawPoints
             /\ g \notin Won(t) \cup Lost(t) \cup Drawn(t)
                  => Worth(g, t) = 0
  <2>1. /\ g \in Games /\ (g[1] = t \/ g[2] = t)
        /\ g[1] # g[2] /\ result[g] \in 0..3
    BY StandingsAssumption DEF Mine
  <2>2. /\ g \in Played(t) <=> result[g] # 0
        /\ g \in Won(t) <=> result[g] # 0 /\ result[g] = Slot(g, t)
        /\ g \in Drawn(t) <=> result[g] = 3
        /\ g \in Lost(t) <=> g \in Played(t) \ (Won(t) \cup Drawn(t))
    BY <2>1 DEF Played, Won, Drawn, Lost, Mine
  <2>3. Slot(g, t) = IF g[1] = t THEN 1 ELSE 2
    BY DEF Slot
  <2>4. Worth(g, t) = IF result[g] = 0 THEN 0
                      ELSE IF result[g] = 3 THEN DrawPoints
                      ELSE IF g[result[g]] = t THEN WinPoints ELSE LossPoints
    BY DEF Worth
  <2>5. result[g] = 0 \/ result[g] = 1 \/ result[g] = 2 \/ result[g] = 3
    BY <2>1
  <2> QED
    BY <2>1, <2>2, <2>3, <2>4, <2>5
<1> QED
  BY <1>1, <1>2, <1>3

\* The products of the points with one match more.
LEMMA OneMatchMore ==
    ASSUME NEW a \in Int, NEW n \in Int
    PROVE  n * a \in Int /\ (n - 1) * a + a = n * a
OBVIOUS

\* The points that the code computes from three counts (RecomputeStandings)
\* are what the matches are worth one by one.
LEMMA PointsAreEarned ==
    ASSUME result \in [Games -> 0..3], NEW t
    PROVE  Stats(t).points = Total(t, Mine(t))
<1> DEFINE W == Won(t)
           L == Lost(t)
           D == Drawn(t)
           sum == [s \in SUBSET Mine(t) |->
                     Cardinality(s \cap W) * WinPoints
                     + Cardinality(s \cap L) * LossPoints
                     + Cardinality(s \cap D) * DrawPoints]
<1>1. Mine(t) \in SUBSET Games /\ W \in SUBSET Games /\ L \in SUBSET Games
      /\ D \in SUBSET Games
  BY MatchesOfTeam DEF Mine
<1>2. \A s \in SUBSET Games : IsFiniteSet(s) /\ Cardinality(s) \in Nat
  BY MatchesOfTeam
<1>3. WinPoints \in Int /\ LossPoints \in Int /\ DrawPoints \in Int
  BY StandingsAssumption
<1>4. Stats(t).points = Cardinality(W) * WinPoints
                        + Cardinality(L) * LossPoints
                        + Cardinality(D) * DrawPoints
  BY DEF Stats
<1>5. ASSUME NEW g \in Mine(t)
      PROVE  /\ g \in W => Worth(g, t) = WinPoints
                           /\ g \notin L /\ g \notin D
             /\ g \in L => Worth(g, t) = LossPoints /\ g \notin D
             /\ g \in D => Worth(g, t) = DrawPoints
             /\ g \notin W \cup L \cup D => Worth(g, t) = 0
  BY MatchesOfTeam
<1>6. W \in SUBSET Mine(t) /\ L \in SUBSET Mine(t) /\ D \in SUBSET Mine(t)
  BY DEF Won, Lost, Drawn, Played, Mine
<1> HIDE DEF W, L, D
<1>7. ASSUME NEW s \in SUBSET Mine(t)
      PROVE  /\ Cardinality(s \cap W) \in Nat /\ Cardinality(s \cap L) \in Nat
             /\ Cardinality(s \cap D) \in Nat /\ sum[s] \in Int
  BY <1>1, <1>2, <1>3, OneMatchMore
<1>8. sum \in [SUBSET Mine(t) -> Int]
  BY <1>7
<1>9. sum[{}] = 0
  <2>1. Cardinality({}) = 0
    BY FS_EmptySet
  <2>2. sum[{}] = 0 * WinPoints + 0 * LossPoints + 0 * DrawPoints
    BY <2>1
  <2> QED
    BY <1>3, <2>2
<1>10. ASSUME NEW s \in SUBSET Mine(t), NEW x \in s
       PROVE  sum[s] = Worth(x, t) + sum[s \ {x}]
  <2>1. ASSUME NEW V \in SUBSET Games
        PROVE  Cardinality((s \ {x}) \cap V) =
                 IF x \in V THEN Cardinality(s \cap V) - 1
                 ELSE Cardinality(s \cap V)
    <3>1. (s \ {x}) \cap V = (s \cap V) \ {x}
      OBVIOUS
    <3>2. IsFiniteSet(s \cap V)
      BY <1>2, <2>1
    <3> QED
      BY <3>1, <3>2, FS_RemoveElement
  <2> DEFINE w == Cardinality(s \cap W)
             l == Cardinality(s \cap L)
             d == Cardinality(s \cap D)
             w1 == Cardinality((s \ {x}) \cap W)
             l1 == Cardinality((s \ {x}) \cap L)
             d1 == Cardinality((s \ {x}) \cap D)
  <2>2. /\ w1 = IF x \in W THEN w - 1 ELSE w
        /\ l1 = IF x \in L THEN l - 1 ELSE l
        /\ d1 = IF x \in D THEN d - 1 ELSE d
    BY <1>1, <2>1
  <2>3. /\ sum[s] = w * WinPoints + l * LossPoints + d * DrawPoints
        /\ sum[s \ {x}] = w1 * WinPoints + l1 * LossPoints + d1 * DrawPoints
    OBVIOUS
  <2>4. w \in Int /\ l \in Int /\ d \in Int
    <3>1. w \in Nat /\ l \in Nat /\ d \in Nat
      BY <1>7, Zenon
    <3> QED
      BY <3>1
  <2> HIDE DEF w, l, d, w1, l1, d1, sum
  <2>5. /\ w * WinPoints \in Int
        /\ (w - 1) * WinPoints + WinPoints = w * WinPoints
        /\ l * LossPoints \in Int
        /\ (l - 1) * LossPoints + LossPoints = l * LossPoints
        /\ d * DrawPoints \in Int
        /\ (d - 1) * DrawPoints + DrawPoints = d * DrawPoints
        /\ (w - 1) * WinPoints \in Int /\ (l - 1) * LossPoints \in Int
        /\ (d - 1) * DrawPoints \in Int
    BY <1>3, <2>4, OneMatchMore
  <2>6. CASE x \in W
    BY <1>3, <1>5, <2>2, <2>3, <2>5, <2>6
  <2>7. CASE x \in L
    BY <1>3, <1>5, <2>2, <2>3, <2>5, <2>7
  <2>8. CASE x \in D
    BY <1>3, <1>5, <2>2, <2>3, <2>5, <2>8
  <2>9. CASE x \notin W \cup L \cup D
    BY <1>3, <1>5, <2>2, <2>3, <2>5, <2>9
  <2> QED
    BY <2>6, <2>7, <2>8, <2>9
<1>11. sum[Mine(t)] = Stats(t).points
  <2>1. Mine(t) \cap W = W /\ Mine(t) \cap L = L /\ Mine(t) \cap D = D
    BY <1>6
  <2> QED
    BY <1>4, <2>1
<1> HIDE DEF sum
<1>12. IsFiniteSet(Mine(t))
  BY <1>1, <1>2
<1>13. AddsUp(t, Mine(t), sum)
  BY <1>8, <1>9, <1>10, <1>12 DEF AddsUp
<1>14. Total(t, Mine(t)) = sum[Mine(t)]
  BY <1>13, WorthAddsUp
<1> QED
  BY <1>11, <1>14

\* The rows of the teams that compete, and what an entry of a row holds.
Rows == {Stats(t) : t \in Competing}
Entry(s, i) == [games |-> s.games, points |-> s.points, diff |-> s.diff,
                wins |-> s.wins, rank |-> i]

\* An entry holds the numbers of its row, and the rank.
LEMMA EntryHolds ==
    ASSUME NEW s, NEW i
    PROVE  /\ Entry(s, i).games = s.games /\ Entry(s, i).points = s.points
           /\ Entry(s, i).diff = s.diff /\ Entry(s, i).wins = s.wins
           /\ Entry(s, i).rank = i
BY DEF Entry

\* The first m entries of the order q are in the table.
Written(q, m) == \A i \in DOMAIN q : i <= m => table[q[i].team] = Entry(q[i], i)

TableIsWritten == \E q \in Sorted(Rows) : Written(q, Cardinality(Rows))

\* What a recomputation with which nothing interfered knows.
CleanRun(s) ==
    /\ s.step \in {"list", "read", "write"}
    /\ s.step = "list" => s.todo = Registered("approved") /\ s.stats = {}
    /\ s.step = "read" => /\ s.todo \in SUBSET Competing
                          /\ s.stats = {Stats(t) : t \in Competing \ s.todo}
    /\ s.step = "write" =>
         /\ s.stats \in Sorted(Rows)
         /\ \E m \in Nat : /\ s.todo = (m + 1)..Cardinality(Rows)
                           /\ Written(s.stats, m)

Shape(s) == s = [step |-> s.step, todo |-> s.todo, stats |-> s.stats,
                 clean |-> s.clean]

StandingsInv ==
    /\ result \in [Games -> 0..3]
    /\ standing \in [TeamIds -> {"approved", "checked_in", "gone"}]
    /\ DOMAIN table = TeamIds
    /\ DOMAIN run = Runs
    /\ fresh \in BOOLEAN
    /\ \A r \in Runs : Shape(run[r]) /\ run[r].clean \in BOOLEAN
    /\ \A r \in Runs : run[r] # NoRun /\ run[r].clean =>
          /\ CleanRun(run[r])
          /\ \A q \in Runs \ {r} : run[q] = NoRun
    /\ fresh => TableIsWritten

\* The rows are as many as the teams, each with the numbers of its team.
LEMMA RowsOfTeams ==
    ASSUME result \in [Games -> 0..3]
    PROVE  /\ IsFiniteSet(Rows)
           /\ Cardinality(Rows) \in Nat
           /\ Cardinality(Rows) = Cardinality(Competing)
           /\ \A t : /\ Stats(t).team = t
                     /\ Stats(t).points \in Int /\ Stats(t).diff \in Int
                     /\ Stats(t).wins \in Int
                     /\ Stats(t).games =
                          Cardinality({g \in Mine(t) : result[g] # 0})
           /\ Rows = {Stats(t) : t \in Competing}
<1>1. IsFiniteSet(Competing)
  BY StandingsAssumption, FS_Subset DEF Competing
<1> DEFINE f == [t \in Competing |-> Stats(t)]
<1>2. \A t : Stats(t).team = t
  BY DEF Stats
<1>3. f \in Bijection(Competing, Rows)
  <2>1. f \in [Competing -> Rows]
    BY DEF Rows
  <2>2. \A t, u \in Competing : f[t] = f[u] => t = u
    BY <1>2
  <2>3. \A s \in Rows : \E t \in Competing : f[t] = s
    BY DEF Rows
  <2> QED
    BY <2>1, <2>2, <2>3 DEF Bijection, Injection, Surjection, IsInjective
<1>4. IsFiniteSet(Rows) /\ Cardinality(Rows) = Cardinality(Competing)
  BY <1>1, <1>3, FS_Bijection DEF ExistsBijection
<1>5. Cardinality(Rows) \in Nat
  BY <1>4, FS_CardinalityType
<1>6. ASSUME NEW t
      PROVE  /\ Stats(t).points \in Int /\ Stats(t).diff \in Int
             /\ Stats(t).wins \in Int
             /\ Stats(t).games = Cardinality({g \in Mine(t) : result[g] # 0})
  <2> DEFINE W == Won(t)
             L == Lost(t)
             D == Drawn(t)
  <2>1. /\ IsFiniteSet(W) /\ IsFiniteSet(L) /\ IsFiniteSet(D)
        /\ IsFiniteSet(W \cup L)
        /\ Cardinality(W) \in Nat /\ Cardinality(L) \in Nat
        /\ Cardinality(D) \in Nat
    BY MatchesOfTeam
  <2>2. /\ Stats(t).games = Cardinality(W) + Cardinality(L) + Cardinality(D)
        /\ Stats(t).wins = Cardinality(W)
        /\ Stats(t).diff = Cardinality(W) - Cardinality(L)
        /\ Stats(t).points = Cardinality(W) * WinPoints
                             + Cardinality(L) * LossPoints
                             + Cardinality(D) * DrawPoints
    BY DEF Stats
  <2>3. /\ W \cap L = {} /\ (W \cup L) \cap D = {}
        /\ W \cup L \cup D = {g \in Mine(t) : result[g] # 0}
    <3>1. W \subseteq Played(t) /\ D \subseteq Played(t)
          /\ L = Played(t) \ (W \cup D)
      BY DEF Won, Drawn, Lost
    <3>2. Played(t) = {g \in Mine(t) : result[g] # 0}
      BY MatchesOfTeam
    <3>3. W \cap D = {}
      BY MatchesOfTeam, <3>1, <3>2
    <3> QED
      BY <3>1, <3>2, <3>3
  <2> HIDE DEF W, L, D
  <2>4. Cardinality(W \cup L \cup D)
          = Cardinality(W) + Cardinality(L) + Cardinality(D)
    <3>1. Cardinality({}) = 0
      BY FS_EmptySet
    <3>2. Cardinality(W \cup L)
            = Cardinality(W) + Cardinality(L) - Cardinality(W \cap L)
      BY <2>1, FS_Union
    <3>3. Cardinality((W \cup L) \cup D)
            = Cardinality(W \cup L) + Cardinality(D)
              - Cardinality((W \cup L) \cap D)
      BY <2>1, FS_Union
    <3>4. Cardinality(W \cap L) = 0 /\ Cardinality((W \cup L) \cap D) = 0
      BY <2>3, <3>1, Zenon
    <3>5. Cardinality(W \cup L) = Cardinality(W) + Cardinality(L)
      BY <2>1, <3>2, <3>4
    <3>6. Cardinality((W \cup L) \cup D)
            = Cardinality(W \cup L) + Cardinality(D)
      <4>1. Cardinality(W \cup L) \in Nat
        BY <2>1, FS_CardinalityType
      <4> QED
        BY <2>1, <3>3, <3>4, <4>1
    <3> QED
      BY <3>5, <3>6
  <2>5. /\ Cardinality(W) * WinPoints \in Int
        /\ Cardinality(L) * LossPoints \in Int
        /\ Cardinality(D) * DrawPoints \in Int
    BY <2>1, StandingsAssumption, OneMatchMore
  <2>6. Stats(t).games = Cardinality({g \in Mine(t) : result[g] # 0})
    BY <2>2, <2>3, <2>4, Zenon
  <2>7. /\ Stats(t).points \in Int /\ Stats(t).diff \in Int
        /\ Stats(t).wins \in Int
    BY <2>1, <2>2, <2>5
  <2> QED
    BY <2>6, <2>7
<1> QED
  BY <1>2, <1>4, <1>5, <1>6 DEF Rows

\* An order of the rows names each team once, each team at a rank.
LEMMA OrderNamesTeams ==
    ASSUME result \in [Games -> 0..3], NEW q \in Sorted(Rows)
    PROVE  /\ DOMAIN q = 1..Cardinality(Rows)
           /\ \A i \in DOMAIN q : /\ q[i] \in Rows
                                  /\ q[i] = Stats(q[i].team)
                                  /\ q[i].team \in Competing
           /\ \A i, j \in DOMAIN q : i # j => q[i].team # q[j].team
           /\ \A i, j \in DOMAIN q : i < j => ~Above(q[j], q[i])
           /\ \A t \in Competing : \E i \in DOMAIN q : q[i] = Stats(t)
<1>1. /\ q \in [1..Cardinality(Rows) -> Rows]
      /\ \A i, j \in DOMAIN q : i < j => q[i] # q[j] /\ ~Above(q[j], q[i])
  BY DEF Sorted
<1> DEFINE N == Cardinality(Rows)
<1>2. N \in Nat /\ IsFiniteSet(Rows)
  BY RowsOfTeams
<1> HIDE DEF N
<1>3. /\ DOMAIN q = 1..N
      /\ \A i, j \in DOMAIN q : i # j => q[i] # q[j]
  BY <1>1, <1>2 DEF N
<1>4. ASSUME NEW i \in DOMAIN q
      PROVE  q[i] \in Rows /\ q[i] = Stats(q[i].team) /\ q[i].team \in Competing
  <2>1. PICK t \in Competing : q[i] = Stats(t)
    BY <1>1 DEF Rows
  <2>2. Stats(t).team = t
    BY RowsOfTeams
  <2> QED
    BY <1>1, <2>1, <2>2
<1>5. q \in Injection(1..N, Rows)
  BY <1>1, <1>3 DEF N, Injection, IsInjective
<1>6. Cardinality(1..N) = N
  BY <1>2, FS_Interval
<1>7. q \in Surjection(1..N, Rows)
  BY <1>2, <1>5, <1>6, FS_Injection DEF N
<1>8. \A t \in Competing : \E i \in DOMAIN q : q[i] = Stats(t)
  BY <1>3, <1>7 DEF Surjection, Rows
<1>9. \A i, j \in DOMAIN q : i # j => q[i].team # q[j].team
  BY <1>3, <1>4
<1> QED
  BY <1>1, <1>3, <1>4, <1>8, <1>9 DEF N

\* A table that holds an order of the rows is exact.
LEMMA WrittenIsExact ==
    ASSUME StandingsInv
    PROVE  QuietTableIsExact
<1> SUFFICES ASSUME fresh PROVE QuietTableIsExact
  BY DEF QuietTableIsExact
<1>1. result \in [Games -> 0..3]
  BY DEF StandingsInv
<1>2. PICK q \in Sorted(Rows) : Written(q, Cardinality(Rows))
  BY DEF StandingsInv, TableIsWritten
<1> DEFINE N == Cardinality(Rows)
<1>3. N \in Nat /\ N = Cardinality(Competing)
  BY <1>1, RowsOfTeams
<1>4. /\ DOMAIN q = 1..N
      /\ \A i \in DOMAIN q : /\ q[i] = Stats(q[i].team)
                             /\ q[i].team \in Competing
      /\ \A i, j \in DOMAIN q : i # j => q[i].team # q[j].team
      /\ \A i, j \in DOMAIN q : i < j => ~Above(q[j], q[i])
      /\ \A t \in Competing : \E i \in DOMAIN q : q[i] = Stats(t)
  BY <1>1, OrderNamesTeams
<1>5. \A i \in 1..N : table[q[i].team] = Entry(q[i], i)
  BY <1>2, <1>3, <1>4 DEF Written
<1> HIDE DEF N
<1>6. ASSUME NEW t \in Competing
      PROVE  \E i \in 1..N : /\ q[i] = Stats(t) /\ q[i].team = t
                             /\ table[t] = Entry(Stats(t), i)
  <2>1. PICK i \in 1..N : q[i] = Stats(t)
    BY <1>4
  <2>2. q[i].team = t
    BY <1>1, <2>1, RowsOfTeams
  <2> QED
    BY <1>5, <2>1, <2>2
<1>7. ASSUME NEW t \in Competing
      PROVE  /\ table[t].points = Total(t, Mine(t))
             /\ table[t].games = Cardinality({g \in Mine(t) : result[g] # 0})
  <2>1. table[t].points = Stats(t).points /\ table[t].games = Stats(t).games
    BY <1>6, EntryHolds
  <2> QED
    BY <1>1, <2>1, PointsAreEarned, RowsOfTeams
<1>8. Ranks = 1..N
  <2>1. ASSUME NEW i \in 1..N PROVE i \in Ranks
    <3>1. q[i].team \in Competing /\ table[q[i].team].rank = i
      BY <1>4, <1>5, EntryHolds
    <3> QED
      BY <3>1 DEF Ranks
  <2>2. ASSUME NEW t \in Competing PROVE table[t].rank \in 1..N
    BY <1>6, EntryHolds
  <2> QED
    BY <2>1, <2>2 DEF Ranks
<1>9. ASSUME NEW t \in Competing, NEW u \in Competing, Ahead(t, u)
      PROVE  table[t].rank < table[u].rank
  <2>1. PICK i \in 1..N : q[i] = Stats(t) /\ table[t] = Entry(Stats(t), i)
    BY <1>6
  <2>2. PICK j \in 1..N : q[j] = Stats(u) /\ table[u] = Entry(Stats(u), j)
    BY <1>6
  <2>3. table[t].rank = i /\ table[u].rank = j /\ Above(q[i], q[j])
    BY <1>9, <2>1, <2>2 DEF Entry, Ahead, Above
  <2>4. i # j
    <3>1. Stats(t).points \in Int /\ Stats(t).diff \in Int
          /\ Stats(t).wins \in Int
      BY <1>1, RowsOfTeams
    <3> SUFFICES ASSUME i = j PROVE FALSE
      OBVIOUS
    <3> QED
      BY <2>1, <2>3, <3>1 DEF Above
  <2>5. ~(j < i)
    BY <1>4, <2>3
  <2> QED
    BY <1>3, <2>3, <2>4, <2>5
<1> QED
  BY <1>3, <1>7, <1>8, <1>9 DEF QuietTableIsExact, Total, Mine

-----------------------------------------------------------------------------
\* What is known of the table and of the orders depends on what a step leaves
\* alone.
LEMMA SameRows ==
    ASSUME UNCHANGED <<result, standing>>
    PROVE  /\ Competing' = Competing /\ Rows' = Rows
           /\ \A t : Stats(t)' = Stats(t)
           /\ \A s : Registered(s)' = Registered(s)
<1>1. Competing' = Competing /\ \A s : Registered(s)' = Registered(s)
  BY DEF Competing, Registered
<1>2. ASSUME NEW t PROVE Stats(t)' = Stats(t)
  <2>1. Played(t)' = Played(t)
    BY DEF Played
  <2>2. Won(t)' = Won(t) /\ Drawn(t)' = Drawn(t)
    BY <2>1 DEF Won, Drawn, Slot
  <2>3. Lost(t)' = Lost(t)
    BY <2>1, <2>2 DEF Lost
  <2> QED
    BY <2>2, <2>3 DEF Stats
<1> QED
  BY <1>1, <1>2 DEF Rows

\* A step of one recomputation that leaves the matches, the registrations and
\* the other recomputations alone, and the table unless it spoils it.
LEMMA OneRunMoves ==
    ASSUME StandingsInv, NEW r \in Runs, run[r] # NoRun,
           UNCHANGED <<result, standing>>,
           NEW s, run' = [run EXCEPT ![r] = s],
           DOMAIN table' = TeamIds, fresh' \in BOOLEAN,
           fresh' => TableIsWritten',
           Shape(s) /\ s.clean \in BOOLEAN,
           run[r].clean => s = NoRun \/ CleanRun(s)',
           ~run[r].clean => s = NoRun \/ ~s.clean
    PROVE  StandingsInv'
<1>1. /\ result' \in [Games -> 0..3]
      /\ standing' \in [TeamIds -> {"approved", "checked_in", "gone"}]
      /\ DOMAIN run = Runs
      /\ \A p \in Runs : Shape(run[p]) /\ run[p].clean \in BOOLEAN
      /\ \A p \in Runs : run[p] # NoRun /\ run[p].clean =>
            /\ CleanRun(run[p])
            /\ \A q \in Runs \ {p} : run[q] = NoRun
  BY DEF StandingsInv
<1>2. /\ DOMAIN run' = Runs /\ run'[r] = s
      /\ \A p \in Runs \ {r} : run'[p] = run[p]
  BY <1>1
<1>3. \A p \in Runs : Shape(run'[p]) /\ run'[p].clean \in BOOLEAN
  BY <1>1, <1>2
<1>4. ASSUME NEW p \in Runs, run'[p] # NoRun, run'[p].clean
      PROVE  /\ CleanRun(run[p])'
             /\ \A q \in Runs \ {p} : run'[q] = NoRun
  <2>1. p = r
    BY <1>1, <1>2, <1>4
  <2>2. s # NoRun /\ s.clean
    BY <1>2, <1>4, <2>1
  <2>3. run[r].clean
    BY <2>2
  <2> QED
    BY <1>1, <1>2, <2>1, <2>2, <2>3 DEF CleanRun, Written
<1> QED
  BY <1>1, <1>2, <1>3, <1>4 DEF StandingsInv

\* A step that leaves the table alone leaves it as fresh as it was.
LEMMA TableStays ==
    ASSUME StandingsInv, UNCHANGED <<result, standing, table, fresh>>
    PROVE  /\ fresh' \in BOOLEAN /\ (fresh' => TableIsWritten')
           /\ DOMAIN table' = TeamIds
<1>1. Rows' = Rows
  BY SameRows
<1>2. TableIsWritten' <=> TableIsWritten
  BY <1>1 DEF TableIsWritten, Sorted, Above, Written, Entry
<1> QED
  BY <1>2 DEF StandingsInv

\* A spoiled recomputation is not a clean one.
LEMMA NoneIsClean ==
    ASSUME StandingsInv
    PROVE  /\ DOMAIN Spoiled = Runs
           /\ \A r \in Runs :
                /\ Shape(Spoiled[r]) /\ Spoiled[r].clean \in BOOLEAN
                /\ Spoiled[r] # NoRun => ~Spoiled[r].clean
                /\ run[r] = NoRun => Spoiled[r] = NoRun
<1>1. ASSUME NEW r \in Runs
      PROVE  /\ Shape(Spoiled[r]) /\ Spoiled[r].clean \in BOOLEAN
             /\ Spoiled[r] # NoRun => ~Spoiled[r].clean
             /\ run[r] = NoRun => Spoiled[r] = NoRun
  <2>1. Shape(run[r])
    BY DEF StandingsInv
  <2>2. CASE run[r] = NoRun
    <3>1. Spoiled[r] = NoRun
      BY <2>2 DEF Spoiled
    <3> QED
      BY <3>1 DEF NoRun, Shape
  <2>3. CASE run[r] # NoRun
    <3>1. Spoiled[r] = [step |-> run[r].step, todo |-> run[r].todo,
                        stats |-> run[r].stats, clean |-> FALSE]
      BY <2>1, <2>3 DEF Spoiled, Shape
    <3> QED
      BY <2>3, <3>1 DEF Shape
  <2> QED
    BY <2>2, <2>3
<1>2. DOMAIN Spoiled = Runs
  BY DEF Spoiled
<1> QED
  BY <1>1, <1>2

\* The first read: the request is clean if no other is under way.
LEMMA ApprovedListed ==
    ASSUME StandingsInv, NEW r \in Runs, ListApproved(r)
    PROVE  StandingsInv'
<1>1. PICK s : s = [step |-> "list", todo |-> Registered("approved"),
                    stats |-> {},
                    clean |-> \A q \in Runs \ {r} : run[q] = NoRun]
  OBVIOUS
<1>2. /\ run' = [Spoiled EXCEPT ![r] = s]
      /\ UNCHANGED <<result, standing, table, fresh>>
  BY <1>1 DEF ListApproved
<1>3. /\ DOMAIN run' = Runs /\ run'[r] = s
      /\ \A p \in Runs \ {r} : run'[p] = Spoiled[p]
  BY <1>2, NoneIsClean
<1>4. s.clean \in BOOLEAN /\ Shape(s)
      /\ (s.clean => \A q \in Runs \ {r} : run[q] = NoRun)
  BY <1>1, Zenon DEF Shape
<1>5. \A p \in Runs : Shape(run'[p]) /\ run'[p].clean \in BOOLEAN
  BY <1>3, <1>4, NoneIsClean
<1>6. ASSUME NEW p \in Runs, run'[p] # NoRun, run'[p].clean
      PROVE  CleanRun(run[p])' /\ \A q \in Runs \ {p} : run'[q] = NoRun
  <2>1. p = r
    BY <1>3, <1>6, NoneIsClean
  <2>2. \A q \in Runs \ {p} : run'[q] = NoRun
    BY <1>3, <1>4, <1>6, <2>1, NoneIsClean
  <2>3. run'[p].step = "list" /\ run'[p].todo = Registered("approved")
        /\ run'[p].stats = {}
    BY <1>1, <1>3, <2>1
  <2>4. Registered("approved")' = Registered("approved")
    BY <1>2, SameRows
  <2> QED
    BY <2>2, <2>3, <2>4 DEF CleanRun
<1> QED
  BY <1>2, <1>3, <1>5, <1>6, TableStays DEF StandingsInv

\* A match ends, a registration changes: no recomputation is clean.
LEMMA DivisionChanges ==
    ASSUME StandingsInv, Changes,
           result' \in [Games -> 0..3],
           standing' \in [TeamIds -> {"approved", "checked_in", "gone"}]
    PROVE  StandingsInv'
<1>1. run' = Spoiled /\ table' = table /\ fresh' = FALSE
  BY DEF Changes
<1>2. /\ DOMAIN run' = Runs
      /\ \A r \in Runs : /\ Shape(run'[r]) /\ run'[r].clean \in BOOLEAN
                         /\ run'[r] # NoRun => ~run'[r].clean
  BY <1>1, NoneIsClean
<1> QED
  BY <1>1, <1>2 DEF StandingsInv

\* The second read: the teams are those that compete.
LEMMA CheckedInListed ==
    ASSUME StandingsInv, NEW r \in Runs, ListCheckedIn(r)
    PROVE  StandingsInv'
<1>1. PICK teams : teams = run[r].todo \cup Registered("checked_in")
  OBVIOUS
<1>2. PICK s : s = IF teams = {} THEN NoRun
                   ELSE [run[r] EXCEPT !.step = "read", !.todo = teams]
  OBVIOUS
<1>3. /\ run[r].step = "list" /\ run' = [run EXCEPT ![r] = s]
      /\ UNCHANGED <<result, standing, table, fresh>>
  BY <1>1, <1>2 DEF ListCheckedIn
<1>4. run[r] # NoRun
  BY <1>3 DEF NoRun
<1>5. Shape(run[r]) /\ run[r].clean \in BOOLEAN
  BY DEF StandingsInv
<1>6. CASE teams = {}
  <2>1. s = NoRun /\ Shape(s) /\ s.clean \in BOOLEAN
    BY <1>2, <1>6 DEF NoRun, Shape
  <2> QED
    BY <1>3, <1>4, <2>1, TableStays, OneRunMoves
<1>7. CASE teams # {}
  <2>1. s = [step |-> "read", todo |-> teams, stats |-> run[r].stats,
             clean |-> run[r].clean]
    BY <1>2, <1>5, <1>7 DEF Shape
  <2>2. Shape(s) /\ s.clean = run[r].clean
    BY <2>1 DEF Shape
  <2>3. ASSUME run[r].clean PROVE CleanRun(s)'
    <3>1. run[r].todo = Registered("approved") /\ run[r].stats = {}
      BY <1>3, <1>4, <2>3 DEF StandingsInv, CleanRun
    <3>2. teams = Competing
      BY <1>1, <3>1 DEF Registered, Competing, StandingsInv
    <3>3. s.todo \in SUBSET Competing
          /\ s.stats = {Stats(t) : t \in Competing \ s.todo}
      BY <2>1, <3>1, <3>2
    <3>4. Competing' = Competing /\ \A t : Stats(t)' = Stats(t)
      BY <1>3, SameRows
    <3> QED
      BY <2>1, <3>3, <3>4 DEF CleanRun
  <2> QED
    BY <1>3, <1>4, <1>5, <2>2, <2>3, TableStays, OneRunMoves
<1> QED
  BY <1>6, <1>7

\* The row of one more team is known.
LEMMA MatchesListed ==
    ASSUME StandingsInv, NEW r \in Runs, NEW t \in TeamIds, ListMatches(r, t)
    PROVE  StandingsInv'
<1>1. PICK s : s = [run[r] EXCEPT !.todo = run[r].todo \ {t},
                                  !.stats = run[r].stats \cup {Stats(t)}]
  OBVIOUS
<1>2. Shape(run[r]) /\ run[r].clean \in BOOLEAN /\ DOMAIN run = Runs
  BY DEF StandingsInv
<1>3. /\ run[r].step = "read" /\ t \in run[r].todo
      /\ run' = [run EXCEPT ![r] = s]
      /\ UNCHANGED <<result, standing, table, fresh>>
  BY <1>1, <1>2 DEF ListMatches
<1>4. run[r] # NoRun
  BY <1>3 DEF NoRun
<1>5. s = [step |-> run[r].step, todo |-> run[r].todo \ {t},
           stats |-> run[r].stats \cup {Stats(t)}, clean |-> run[r].clean]
  BY <1>1, <1>2 DEF Shape
<1>6. Shape(s) /\ s.clean = run[r].clean
  BY <1>5 DEF Shape
<1>7. ASSUME run[r].clean PROVE CleanRun(s)'
  <2>1. /\ run[r].todo \in SUBSET Competing
        /\ run[r].stats = {Stats(u) : u \in Competing \ run[r].todo}
    BY <1>3, <1>4, <1>7 DEF StandingsInv, CleanRun
  <2>2. s.todo \in SUBSET Competing
        /\ s.stats = {Stats(u) : u \in Competing \ s.todo}
    BY <1>3, <1>5, <2>1
  <2>3. Competing' = Competing /\ \A u : Stats(u)' = Stats(u)
    BY <1>3, SameRows
  <2> QED
    BY <1>3, <1>5, <2>2, <2>3 DEF CleanRun
<1> QED
  BY <1>2, <1>3, <1>4, <1>6, <1>7, TableStays, OneRunMoves

\* All rows are known and get their order; none is written.
LEMMA StatsSorted ==
    ASSUME StandingsInv, NEW r \in Runs, SortStats(r)
    PROVE  StandingsInv'
<1>1. /\ run[r].step = "read" /\ run[r].todo = {}
      /\ UNCHANGED <<result, standing, table, fresh>>
  BY DEF SortStats
<1>2. Shape(run[r]) /\ run[r].clean \in BOOLEAN /\ DOMAIN run = Runs
  BY DEF StandingsInv
<1>3. PICK q \in Sorted(run[r].stats) :
         run' = [run EXCEPT ![r].stats = q, ![r].step = "write",
                            ![r].todo = DOMAIN q]
  BY DEF SortStats
<1>4. PICK s : s = [run[r] EXCEPT !.stats = q, !.step = "write",
                                  !.todo = DOMAIN q]
  OBVIOUS
<1>5. run' = [run EXCEPT ![r] = s]
  BY <1>2, <1>3, <1>4
<1>6. run[r] # NoRun
  BY <1>1 DEF NoRun
<1>7. /\ s = [step |-> "write", todo |-> DOMAIN q, stats |-> q,
              clean |-> run[r].clean]
      /\ Shape(s)
  BY <1>2, <1>4 DEF Shape
<1>8. ASSUME run[r].clean PROVE CleanRun(s)'
  <2>1. run[r].stats = Rows
    <3>1. CleanRun(run[r])
      BY <1>6, <1>8 DEF StandingsInv
    <3>2. run[r].stats = {Stats(t) : t \in Competing \ {}}
      BY <1>1, <3>1 DEF CleanRun
    <3> QED
      BY <3>2 DEF Rows
  <2>2. q \in Sorted(Rows) /\ result \in [Games -> 0..3]
    BY <1>3, <2>1 DEF StandingsInv
  <2>3. DOMAIN q = (0 + 1)..Cardinality(Rows)
    BY <2>2, OrderNamesTeams
  <2>4. Rows' = Rows
    BY <1>1, SameRows
  <2>5. q \in Sorted(Rows)'
    BY <2>2, <2>4 DEF Sorted, Above
  <2>6. Written(q, 0)'
    BY <2>3 DEF Written
  <2> QED
    BY <1>7, <2>3, <2>4, <2>5, <2>6 DEF CleanRun
<1> QED
  BY <1>1, <1>2, <1>5, <1>6, <1>7, <1>8, TableStays, OneRunMoves

\* The request fails and leaves what is written.
LEMMA RecomputationStopped ==
    ASSUME StandingsInv, NEW r \in Runs, RecomputationFails(r)
    PROVE  StandingsInv'
<1>1. /\ run[r] # NoRun /\ run' = [run EXCEPT ![r] = NoRun]
      /\ UNCHANGED <<result, standing, table, fresh>>
  BY DEF RecomputationFails
<1>2. Shape(NoRun) /\ NoRun.clean \in BOOLEAN
  BY DEF NoRun, Shape
<1> QED
  BY <1>1, <1>2, TableStays, OneRunMoves

\* The entry that is written is the first that is left, and the table holds
\* those before it and this one.
LEMMA EntryWritten ==
    ASSUME StandingsInv, NEW r \in Runs, UpsertStandingsEntry(r)
    PROVE  StandingsInv'
<1> DEFINE N == Cardinality(Rows)
<1>1. PICK i : i = CHOOSE j \in run[r].todo : \A k \in run[r].todo : j <= k
  OBVIOUS
<1>2. PICK e : e = run[r].stats[i]
  OBVIOUS
<1> DEFINE left == run[r].todo \ {i}
<1>3. PICK s : s = IF left = {} THEN NoRun
                   ELSE [run[r] EXCEPT !.todo = left]
  OBVIOUS
<1>4. /\ run[r].step = "write" /\ run[r].todo # {}
      /\ table' = [table EXCEPT ![e.team] = Entry(e, i)]
      /\ run' = [run EXCEPT ![r] = s]
      /\ fresh' = (left = {} /\ run[r].clean)
      /\ UNCHANGED <<result, standing>>
  BY <1>1, <1>2, <1>3 DEF UpsertStandingsEntry, Entry
<1>5. run[r] # NoRun
  BY <1>4 DEF NoRun
<1>6. /\ Shape(run[r]) /\ run[r].clean \in BOOLEAN /\ DOMAIN table = TeamIds
      /\ result \in [Games -> 0..3]
  BY DEF StandingsInv
<1>7. /\ DOMAIN table' = TeamIds
      /\ fresh' \in BOOLEAN
  BY <1>4, <1>6
<1>8. /\ Shape(s) /\ s.clean \in BOOLEAN
      /\ s # NoRun => /\ s.step = "write" /\ s.todo = left
                      /\ s.stats = run[r].stats /\ s.clean = run[r].clean
  <2>1. CASE left = {}
    BY <1>3, <2>1 DEF NoRun, Shape
  <2>2. CASE left # {}
    <3>1. s = [step |-> run[r].step, todo |-> left,
               stats |-> run[r].stats, clean |-> run[r].clean]
      BY <1>3, <1>6, <2>2 DEF Shape
    <3> QED
      BY <1>4, <1>6, <3>1 DEF Shape
  <2> QED
    BY <2>1, <2>2
<1>9. N \in Nat
  BY <1>6, RowsOfTeams
<1>10. Rows' = Rows
  BY <1>4, SameRows
<1> HIDE DEF N
<1>11. ASSUME run[r].clean
       PROVE  /\ s = NoRun \/ CleanRun(s)'
              /\ fresh' => TableIsWritten'
  <2>1. PICK q \in Sorted(Rows), m \in Nat :
                            /\ run[r].stats = q
                            /\ run[r].todo = (m + 1)..N
                            /\ Written(q, m)
    <3>1. CleanRun(run[r])
      BY <1>5, <1>11 DEF StandingsInv
    <3> QED
      BY <1>4, <3>1 DEF CleanRun, N
  <2>2. i = m + 1 /\ i \in 1..N
    <3>1. m + 1 \in (m + 1)..N /\ \A k \in (m + 1)..N : m + 1 <= k
      BY <1>4, <1>9, <2>1
    <3>2. m + 1 \in run[r].todo /\ \A k \in run[r].todo : m + 1 <= k
      BY <2>1, <3>1, Zenon
    <3>3. i \in run[r].todo /\ \A k \in run[r].todo : i <= k
      BY <1>1, <3>2
    <3>4. i <= m + 1 /\ m + 1 <= i /\ i \in (m + 1)..N
      BY <2>1, <3>2, <3>3, Zenon
    <3> QED
      BY <1>9, <2>1, <3>4
  <2>3. /\ DOMAIN q = 1..N
        /\ \A j \in DOMAIN q : q[j].team \in Competing
        /\ \A j, k \in DOMAIN q : j # k => q[j].team # q[k].team
    BY <1>6, <2>1, OrderNamesTeams DEF N
  <2>4. e = q[i] /\ e.team \in TeamIds
    BY <1>2, <2>1, <2>2, <2>3 DEF Competing
  <2>5. /\ table'[e.team] = Entry(e, i)
        /\ \A t \in TeamIds : t # e.team => table'[t] = table[t]
    BY <1>4, <1>6, <2>4
  <2>6. ASSUME NEW j \in DOMAIN q, j <= m + 1
        PROVE  table'[q[j].team] = Entry(q[j], j)
    <3>1. CASE j = m + 1
      BY <2>2, <2>4, <2>5, <3>1
    <3>2. CASE j # m + 1
      <4>1. j <= m /\ j # i
        BY <2>1, <2>2, <2>3, <2>6, <3>2
      <4>2. q[j].team # e.team /\ q[j].team \in TeamIds
        BY <2>2, <2>3, <2>4, <4>1 DEF Competing
      <4>3. table[q[j].team] = Entry(q[j], j)
        BY <2>1, <2>6, <4>1 DEF Written
      <4> QED
        BY <2>5, <4>2, <4>3
    <3> QED
      BY <3>1, <3>2
  <2>7. Written(q, m + 1)'
    BY <2>6 DEF Written
  <2>8. q \in Sorted(Rows)'
    BY <1>10, <2>1 DEF Sorted, Above
  <2>9. CASE left = {}
    <3>1. s = NoRun
      BY <1>3, <2>9
    <3>2. N = m + 1
      <4>1. N \in run[r].todo
        BY <1>9, <2>1, <2>2
      <4> QED
        BY <1>9, <2>1, <2>2, <2>9, <4>1
    <3> QED
      BY <1>10, <2>7, <2>8, <3>1, <3>2 DEF TableIsWritten, N
  <2>10. CASE left # {}
    <3>1. ~fresh'
      BY <1>4, <2>10
    <3>2. s # NoRun
      <4>1. s.step = "write"
        BY <1>3, <1>4, <1>6, <2>10 DEF Shape
      <4> QED
        BY <4>1 DEF NoRun
    <3>3. s.todo = ((m + 1) + 1)..N
      <4>1. s.todo = left
        BY <1>8, <3>2
      <4>2. s.todo = ((m + 1)..N) \ {m + 1}
        BY <2>1, <2>2, <4>1, Zenon
      <4> QED
        BY <1>9, <2>1, <4>2
    <3>4. m + 1 \in Nat
      BY <2>1
    <3>5. s.step = "write" /\ s.stats = q
      BY <1>8, <2>1, <3>2
    <3>6. \E k \in Nat : s.todo = (k + 1)..Cardinality(Rows)'
                         /\ Written(s.stats, k)'
      BY <1>10, <2>7, <3>3, <3>4, <3>5 DEF N
    <3> QED
      BY <2>8, <3>1, <3>5, <3>6 DEF CleanRun
  <2> QED
    BY <2>9, <2>10
<1>12. ASSUME ~run[r].clean
       PROVE  (s = NoRun \/ ~s.clean) /\ ~fresh'
  BY <1>4, <1>8, <1>12
<1> QED
  BY <1>4, <1>5, <1>6, <1>7, <1>8, <1>11, <1>12, OneRunMoves

-----------------------------------------------------------------------------
\* At first no request is under way.
LEMMA StandingsStarts == StandingsInit => StandingsInv
<1> SUFFICES ASSUME StandingsInit PROVE StandingsInv
  OBVIOUS
<1>1. Shape(NoRun) /\ NoRun.clean \in BOOLEAN
  BY DEF NoRun, Shape
<1>2. \A r \in Runs : run[r] = NoRun
  BY DEF StandingsInit
<1>3. /\ result \in [Games -> 0..3] /\ DOMAIN table = TeamIds
      /\ standing \in [TeamIds -> {"approved", "checked_in", "gone"}]
      /\ DOMAIN run = Runs /\ fresh = FALSE
  BY DEF StandingsInit
<1> QED
  BY <1>1, <1>2, <1>3 DEF StandingsInv

\* Every step keeps the invariant.
LEMMA StandingsStep ==
    StandingsInv /\ [StandingsNext]_standingsvars => StandingsInv'
<1> SUFFICES ASSUME StandingsInv, [StandingsNext]_standingsvars
             PROVE  StandingsInv'
  OBVIOUS
<1>1. ASSUME NEW r \in Runs,
             \/ ListApproved(r) \/ ListCheckedIn(r)
             \/ \E t \in TeamIds : ListMatches(r, t)
             \/ SortStats(r) \/ UpsertStandingsEntry(r)
             \/ RecomputationFails(r)
      PROVE  StandingsInv'
  BY <1>1, ApprovedListed, CheckedInListed, MatchesListed, StatsSorted,
     EntryWritten, RecomputationStopped
<1>2. ASSUME NEW g \in Games, NEW w \in 1..3, MatchEnds(g, w)
      PROVE  StandingsInv'
  <2>1. /\ Changes
        /\ result' \in [Games -> 0..3]
        /\ standing' \in [TeamIds -> {"approved", "checked_in", "gone"}]
    BY <1>2 DEF MatchEnds, StandingsInv
  <2> QED
    BY <2>1, DivisionChanges
<1>3. ASSUME NEW t \in TeamIds, NEW s \in {"approved", "checked_in", "gone"},
             RegistrationChanges(t, s)
      PROVE  StandingsInv'
  <2>1. /\ Changes
        /\ result' \in [Games -> 0..3]
        /\ standing' \in [TeamIds -> {"approved", "checked_in", "gone"}]
    BY <1>3 DEF RegistrationChanges, StandingsInv
  <2> QED
    BY <2>1, DivisionChanges
<1>4. CASE UNCHANGED standingsvars
  <2>1. /\ UNCHANGED <<result, standing, table, fresh>> /\ run' = run
    BY <1>4 DEF standingsvars
  <2>2. \A r \in Runs : CleanRun(run[r]) => CleanRun(run[r])'
    <3>1. /\ Competing' = Competing /\ Rows' = Rows
          /\ \A t : Stats(t)' = Stats(t)
          /\ \A s : Registered(s)' = Registered(s)
      BY <2>1, SameRows
    <3> QED
      BY <2>1, <3>1 DEF CleanRun, Sorted, Above, Written, Entry
  <2> QED
    BY <2>1, <2>2, TableStays DEF StandingsInv
<1> QED
  BY <1>1, <1>2, <1>3, <1>4 DEF StandingsNext

\* A table that was computed while nothing changed, and that nothing changed
\* since, has for every team that competes the points of its completed matches
\* one by one, the number of those matches, and ranks from one to the number
\* of teams, the better team first (RecomputeStandings).
THEOREM QuietTablesAreExact == StandingsSpec => []QuietTableIsExact
<1>1. StandingsInv => QuietTableIsExact
  BY WrittenIsExact
<1> QED
  BY <1>1, StandingsStarts, StandingsStep, PTL DEF StandingsSpec
=============================================================================
