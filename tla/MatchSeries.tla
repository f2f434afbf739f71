----------------------------- MODULE MatchSeries -----------------------------
(* A series of child matches between two teams: every operation locks the    *)
(* series' row for its transaction, but for the creation of one more child.  *)
EXTENDS Naturals, Sequences

CONSTANTS Creators,    \* requests for a child that may be under way at a time
          GamesToWin,
          PlannedGames,  \* children that StartSeries creates
          MaxChildren    \* bound: children of the series

ASSUME SeriesAssumption ==
    /\ GamesToWin \in Nat \ {0}
    /\ PlannedGames \in Nat /\ MaxChildren \in Nat

VARIABLES series,    \* status, wins of the teams, winner (0 for NULL)
          children,  \* match_number and status, in the order of id
          creating,  \* each creator's request
          astray     \* history: children numbered or added on a stale read

seriesvars == <<series, children, creating, astray>>

Sides == {1, 2}
Opposite(t) == 3 - t
SeriesStatus == {"pending", "in_progress", "completed", "cancelled",
                 "forfeited"}
Ended == {"completed", "cancelled", "forfeited"}
\* "scheduled" stands for "warmup" too: the statements here know no difference.
ChildStatus == {"scheduled", "in_progress", "completed", "cancelled"}

NotCreating == [step |-> "none", num |-> 0]

Child(n) == [num |-> n, status |-> "scheduled"]

SeriesInit ==
    /\ series = [status |-> "pending", wins |-> [t \in Sides |-> 0],
                 winner |-> 0]
    /\ children = <<>>
    /\ creating = [c \in Creators |-> NotCreating]
    /\ astray = {}

-----------------------------------------------------------------------------
StartSeries ==
    /\ series.status = "pending"
    /\ series' = [series EXCEPT !.status = "in_progress"]
    /\ children' = children \o [n \in 1..PlannedGames |-> Child(n)]
    /\ UNCHANGED <<creating, astray>>

CancelScheduledChildMatches ==
    children' = [i \in DOMAIN children |->
                   IF children[i].status = "scheduled"
                   THEN [children[i] EXCEPT !.status = "cancelled"]
                   ELSE children[i]]

Counted(t) == [series EXCEPT !.wins[t] = @ + 1]

\* Mutant: one game more than is needed.
HasWonLate(s, t) == s.wins[t] > GamesToWin

HasWon(s, t) == s.wins[t] >= GamesToWin

\* The match that is reported is looked at neither here nor in the handler:
\* the winner alone counts.
RecordMatchResult(t) ==
    /\ series.status = "in_progress"
    /\ IF HasWon(Counted(t), t)
       THEN /\ series' = [Counted(t) EXCEPT !.status = "completed",
                                            !.winner = t]
            /\ CancelScheduledChildMatches
       ELSE series' = Counted(t) /\ UNCHANGED children
    /\ UNCHANGED <<creating, astray>>

ForfeitSeries(t) ==
    /\ series.status \in {"pending", "in_progress"}
    /\ series' = [series EXCEPT !.status = "forfeited", !.winner = Opposite(t)]
    /\ CancelScheduledChildMatches
    /\ UNCHANGED <<creating, astray>>

CancelSeries ==
    /\ series.status \in {"pending", "in_progress"}
    /\ series' = [series EXCEPT !.status = "cancelled"]
    /\ CancelScheduledChildMatches
    /\ UNCHANGED <<creating, astray>>

-----------------------------------------------------------------------------
\* CreateChildMatch: three statements and no lock.
ReadSeries(c) ==
    /\ creating[c] = NotCreating
    /\ series.status = "in_progress"
    /\ creating' = [creating EXCEPT ![c] = [step |-> "count", num |-> 0]]
    /\ UNCHANGED <<series, children, astray>>

CountMatches(c) ==
    /\ creating[c].step = "count"
    /\ creating' = [creating EXCEPT
                      ![c] = [step |-> "insert", num |-> Len(children) + 1]]
    /\ UNCHANGED <<series, children, astray>>

\* Astray is a child added after the series ended or after another child.
CreateChildMatch(c) ==
    /\ creating[c].step = "insert"
    /\ Len(children) < MaxChildren
    /\ children' = Append(children, Child(creating[c].num))
    /\ astray' = IF series.status \in Ended \/ creating[c].num # Len(children')
                 THEN astray \cup {Len(children')} ELSE astray
    /\ creating' = [creating EXCEPT ![c] = NotCreating]
    /\ UNCHANGED series

CreationFails(c) ==
    /\ creating[c] # NotCreating
    /\ creating' = [creating EXCEPT ![c] = NotCreating]
    /\ UNCHANGED <<series, children, astray>>

\* The match service starts, ends and cancels children, and asks no series.
ChildMoves == [scheduled |-> {"in_progress", "cancelled"},
               in_progress |-> {"completed", "cancelled"},
               completed |-> {}, cancelled |-> {}]

PlayChild(i) ==
    /\ \E to \in ChildMoves[children[i].status] :
         children' = [children EXCEPT ![i].status = to]
    /\ UNCHANGED <<series, creating, astray>>

SeriesNext ==
    \/ StartSeries \/ CancelSeries
    \/ \E t \in Sides : RecordMatchResult(t) \/ ForfeitSeries(t)
    \/ \E c \in Creators : \/ ReadSeries(c) \/ CountMatches(c)
                           \/ CreateChildMatch(c) \/ CreationFails(c)
    \/ \E i \in DOMAIN children : PlayChild(i)

SeriesSpec == SeriesInit /\ [][SeriesNext]_seriesvars

-----------------------------------------------------------------------------
\* The wins, the status and the winner are written by different statements and
\* always agree: a series is completed by the first team with the games it
\* needs, and nobody has as many in any other series.
ResultStands ==
    /\ series.status = "completed" =>
          /\ series.winner \in Sides
          /\ series.wins[series.winner] = GamesToWin
          /\ series.wins[Opposite(series.winner)] < GamesToWin
    /\ series.status # "completed" =>
          \A t \in Sides : series.wins[t] < GamesToWin
    /\ series.winner # 0 <=> series.status \in {"completed", "forfeited"}

\* Nothing waits to be played in a series that has ended, and no two children
\* have one number, unless a child was added on what is no longer true.
NothingLeftToPlay ==
    series.status \in Ended =>
        \A i \in DOMAIN children \ astray : children[i].status # "scheduled"

NumbersFollow ==
    \A i \in DOMAIN children \ astray : children[i].num = i

\* However its requests interleave with one another and with the children's
\* own matches, a series ends once, with the team that has the games, and
\* leaves nothing to play, but for children that were created on a stale read.
SeriesIsSound == ResultStands /\ NothingLeftToPlay /\ NumbersFollow
=============================================================================
