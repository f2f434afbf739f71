----------------------------- MODULE CourtQueue ------------------------------
(* The queues of the courts: which match is on which court, and its          *)
(* position.  Reordering is a transaction that locks rows one by one, in the *)
(* order of the request; the other operations check a row without a lock.    *)
EXTENDS Naturals, Sequences

CONSTANTS Operators,  \* requests that may be under way at a time
          Matches, Courts,
          None,       \* court_id NULL
          MaxList     \* bound: matches in one reorder

VARIABLES match,   \* status, court and court_queue_position (0 for NULL)
          doing,   \* each operator's request
          carried  \* history: matches whose position is not of this queue

queuevars == <<match, doing, carried>>

Over == {"completed", "cancelled", "forfeited"}
Active == {"in_progress", "paused"}
\* "scheduled" stands for "warmup", "completed" for every terminal status.
MatchStatus == {"scheduled", "in_progress", "completed"}

Resting == [op |-> "none"]

\* Rows locked by a reorder until it ends: the matches of its list so far and
\* those whose position it has cleared.
Held(o) == IF doing[o].op = "reorder"
           THEN {doing[o].list[i] : i \in 1..doing[o].locked}
                  \cup doing[o].cleared
           ELSE {}
Free(o, rows) == \A p \in Operators \ {o} : rows \cap Held(p) = {}

QueueInit ==
    /\ match = [m \in Matches |->
                  [status |-> "scheduled", court |-> None, pos |-> 0]]
    /\ doing = [o \in Operators |-> Resting]
    /\ carried = {}

Begins(o, request) ==
    /\ doing[o] = Resting
    /\ doing' = [doing EXCEPT ![o] = request]
GoesOn(o, request) == doing' = [doing EXCEPT ![o] = request]
Ends(o) == GoesOn(o, Resting)

-----------------------------------------------------------------------------
\* UpdateMatchCourt leaves the position as it is.
UpdateMatchCourt(o, m, court) ==
    /\ Free(o, {m})
    /\ match' = [match EXCEPT ![m].court = court]
    /\ carried' = IF match[m].pos # 0 /\ court # match[m].court
                  THEN carried \cup {m} ELSE carried
    /\ Ends(o)

AssignReads(o, m, court) ==
    /\ match[m].status \notin Over
    /\ Begins(o, [op |-> "court", row |-> m, court |-> court])
    /\ UNCHANGED <<match, carried>>

RemoveReads(o, m) ==
    /\ match[m].court # None /\ match[m].status \notin Active
    /\ Begins(o, [op |-> "court", row |-> m, court |-> None])
    /\ UNCHANGED <<match, carried>>

WriteCourt(o) ==
    /\ doing[o].op = "court"
    /\ UpdateMatchCourt(o, doing[o].row, doing[o].court)

-----------------------------------------------------------------------------
\* ReorderQueue.
ReorderBegins(o, court, list) ==
    /\ list # <<>>
    /\ Begins(o, [op |-> "reorder", court |-> court, list |-> list,
                  locked |-> 0, cleared |-> {}, step |-> "lock"])
    /\ UNCHANGED <<match, carried>>

\* SELECT ... FOR UPDATE of the next match, and the checks; a match of another
\* court or one that is over ends the transaction.
LockNext(o) ==
    LET r == doing[o]
        m == r.list[r.locked + 1]
    IN /\ r.op = "reorder" /\ r.step = "lock" /\ r.locked < Len(r.list)
       /\ Free(o, {m})
       /\ IF match[m].court = r.court /\ match[m].status \notin Over
          THEN GoesOn(o, [r EXCEPT !.locked = @ + 1])
          ELSE Ends(o)
       /\ UNCHANGED <<match, carried>>

\* Mutant: only the matches of the list lose their position.
InLineOfList(r) == {m \in {r.list[i] : i \in DOMAIN r.list} :
                      match[m].pos # 0}

InLine(r) == {m \in Matches : /\ match[m].court = r.court
                              /\ match[m].pos # 0
                              /\ match[m].status \notin Over}

\* ClearCourtQueuePositions waits for the rows that another reorder holds, and
\* does not see the positions that it is about to write.
ClearPositions(o) ==
    LET r == doing[o]
    IN /\ r.op = "reorder" /\ r.step = "lock" /\ r.locked = Len(r.list)
       /\ Free(o, InLine(r))
       /\ GoesOn(o, [r EXCEPT !.cleared = InLine(r), !.step = "set"])
       /\ UNCHANGED <<match, carried>>

LastPlace(list, m) ==
    CHOOSE i \in DOMAIN list :
        list[i] = m /\ \A j \in DOMAIN list : list[j] = m => j <= i

\* The new positions become visible with the commit.  They are carried when
\* another reorder of the court has cleared the positions before and will
\* add its own.
CommitReorder(o) ==
    LET r == doing[o]
        listed == {r.list[i] : i \in DOMAIN r.list}
        missed == \E p \in Operators \ {o} :
                     /\ doing[p].op = "reorder" /\ doing[p].step = "set"
                     /\ doing[p].court = r.court
    IN /\ r.op = "reorder" /\ r.step = "set"
       /\ match' = [m \in Matches |->
                      IF m \in listed
                      THEN [match[m] EXCEPT !.pos = LastPlace(r.list, m)]
                      ELSE IF m \in r.cleared THEN [match[m] EXCEPT !.pos = 0]
                      ELSE match[m]]
       /\ carried' = (carried \ (listed \cup r.cleared))
                          \cup (IF missed THEN listed ELSE {})
       /\ Ends(o)

\* A request fails or is cancelled.  PostgreSQL ends one of two transactions
\* that wait for each other.
RequestEnds(o) ==
    /\ doing[o] # Resting
    /\ Ends(o)
    /\ UNCHANGED <<match, carried>>

\* The match service starts, ends and cancels matches.
MatchMoves(m) ==
    /\ \A o \in Operators : m \notin Held(o)
    /\ \E to \in [scheduled |-> {"in_progress", "completed"},
                  in_progress |-> {"completed"},
                  completed |-> {}][match[m].status] :
         match' = [match EXCEPT ![m].status = to]
    /\ UNCHANGED <<doing, carried>>

\* The lists a console sends: different matches, in any order.
Lists == UNION {{s \in [1..n -> Matches] :
                   \A i, j \in 1..n : s[i] = s[j] => i = j} :
                n \in 1..MaxList}

QueueNext ==
    \/ \E o \in Operators :
         \/ \E m \in Matches : \/ RemoveReads(o, m)
                               \/ \E c \in Courts : AssignReads(o, m, c)
         \/ \E c \in Courts, list \in Lists : ReorderBegins(o, c, list)
         \/ WriteCourt(o) \/ LockNext(o) \/ ClearPositions(o)
         \/ CommitReorder(o) \/ RequestEnds(o)
    \/ \E m \in Matches : MatchMoves(m)

QueueSpec == QueueInit /\ [][QueueNext]_queuevars

-----------------------------------------------------------------------------
PositionsDiffer ==
    \A m, n \in {k \in Matches \ carried : match[k].court # None
                                            /\ match[k].status \notin Over} :
        (m # n /\ match[m].court = match[n].court /\ match[m].pos # 0)
            => match[m].pos # match[n].pos

\* A reorder writes only rows that it holds: while it is under way nobody else
\* moves a match of its list from the court, or ends it.
ListIsStable ==
    \A o \in Operators :
        LET r == doing[o]
        IN r.op = "reorder" =>
             \A i \in 1..r.locked : /\ match[r.list[i]].court = r.court
                                    /\ match[r.list[i]].status \notin Over

\* No two matches that are still to be played have one position on one court,
\* however reorders, assignments and the matches' own progress interleave, but
\* for a match that was moved here with the position it had elsewhere, and for
\* two reorders of which each clears before the other commits; and a reorder
\* finds its matches as it checked them.
LineIsOrdered == PositionsDiffer /\ ListIsStable
=============================================================================
