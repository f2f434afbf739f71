------------------------------ MODULE QueryCache ------------------------------
(***************************************************************************)
(* The query cache of a page (TanStack Query, as App.tsx configures it and *)
(* as the hooks use it) between the components of one browser and the API. *)
(* A query has one entry: what the page last received, whether it was      *)
(* invalidated, and at most one fetch under way.  A mutation is a request  *)
(* whose answer refetches some queries and replaces the data of others.    *)
(* Data is a revision: the number of changes made to what a query reads.   *)
(***************************************************************************)
EXTENDS Naturals, FiniteSets

CONSTANTS Queries,     \* queries that hooks define
          Mutations,   \* mutations that hooks define
          Affects,     \* mutation: queries whose answer it changes
          Refreshes,   \* mutation: queries that its onSuccess invalidates
          Replaces,    \* mutation: queries whose data its onSuccess replaces
          Gaps,        \* pairs that no onSuccess takes care of
          Polled,      \* queries with a refetchInterval
          MaxCalls,    \* bound on the mutations of a behaviour
          MaxOthers    \* bound on the changes made by others

ASSUME CacheAssumption ==
    /\ Affects \in [Mutations -> SUBSET Queries]
    /\ Refreshes \in [Mutations -> SUBSET Queries]
    /\ Replaces \in [Mutations -> SUBSET Queries]
    /\ \A m \in Mutations : \A q \in Affects[m] :
          <<m, q>> \notin Gaps => q \in Refreshes[m] \cup Replaces[m]
    /\ MaxCalls \in Nat /\ MaxOthers \in Nat

VARIABLES
    rev,        \* query: revision of what it reads, at the server
    cache,      \* query: its entry
    calls,      \* mutations under way
    made,       \* number of mutations so far
    others,     \* number of changes made by others so far
    told,       \* history, query: revision an answer promised to the page
    overtaken   \* history: queries whose fetch an answer could not restart

cachevars == <<rev, cache, calls, made, others, told, overtaken>>

Entry == [on : BOOLEAN,       \* a component on the screen uses it
          has : BOOLEAN,      \* there is data
          seen : Nat,         \* the revision of the data
          invalid : BOOLEAN,  \* to be fetched when a component uses it
          err : BOOLEAN,      \* the last fetch failed
          phase : {"idle", "asked", "read"}, \* the fetch under way
          got : Nat]          \* the revision it read

Absent == [on |-> FALSE, has |-> FALSE, seen |-> 0, invalid |-> FALSE,
           err |-> FALSE, phase |-> "idle", got |-> 0]

Call == [id : Nat, m : Mutations, state : {"sent", "done"},
         at : [DOMAIN cache -> Nat]]

Fresh(on, had) == [Absent EXCEPT !.on = on, !.has = had,
                      !.phase = IF on /\ ~had THEN "asked" ELSE "idle"]

(* The queries of W have entries; those of On are used by the first screen,  *)
(* and those of Had were fetched by an earlier one.                          *)
CacheInit(W, On, Had) ==
    /\ rev = [q \in W |-> 0]
    /\ cache = [q \in W |-> Fresh(q \in On, q \in Had)]
    /\ calls = {} /\ made = 0 /\ others = 0
    /\ told = [q \in W |-> 0]
    /\ overtaken = {}

-----------------------------------------------------------------------------
Asked(e) == [e EXCEPT !.phase = "asked", !.got = 0]

(* query.fetch with cancelRefetch: a fetch under way is given up for a new   *)
(* one, but a first load is not.                                             *)
Restarted(e) == IF e.phase # "idle" /\ ~e.has THEN e ELSE Asked(e)

Used(e, on) == [e EXCEPT !.on = on]

(* Mutant: what was invalidated meanwhile counts as fresh.                   *)
MountedAsLeft(e, stale) ==
    IF e.phase = "idle" /\ (~e.has \/ stale)
    THEN Asked(Used(e, TRUE)) ELSE Used(e, TRUE)

(* A component begins to use the query.  It fetches when there is no data,   *)
(* when it was invalidated, and when the data is older than its staleTime.   *)
Mounted(e, stale) ==
    IF e.phase = "idle" /\ (~e.has \/ e.invalid \/ stale)
    THEN Asked(Used(e, TRUE)) ELSE Used(e, TRUE)

(* A fetch that begins is newer than every answer before it.                 *)
Begins(q, entries) == cache[q].phase # "asked" /\ entries[q].phase = "asked"

(* Components are put on the screen and taken from it.                       *)
Shows(entries) ==
    /\ cache' = entries
    /\ overtaken' = {q \in overtaken : ~Begins(q, entries)}
    /\ UNCHANGED <<rev, calls, made, others, told>>

Mount(q, stale) ==
    /\ ~cache[q].on
    /\ Shows([cache EXCEPT ![q] = Mounted(@, stale)])

Unmount(q) ==
    /\ cache[q].on
    /\ Shows([cache EXCEPT ![q] = Used(@, FALSE)])

(* Mutant: an error stops the timer.                                         *)
RefreshUnlessFailed(q) ==
    /\ cache[q].on /\ cache[q].phase = "idle" /\ ~cache[q].err
    /\ Shows([cache EXCEPT ![q] = Asked(@)])

(* A poll, a reconnection or a refetch by hand.                              *)
Refresh(q) ==
    /\ cache[q].on /\ cache[q].phase = "idle"
    /\ Shows([cache EXCEPT ![q] = Asked(@)])

Read(e, revision) == [e EXCEPT !.phase = "read", !.got = revision]
ServerReads(q) ==
    /\ cache[q].phase = "asked"
    /\ cache' = [cache EXCEPT ![q] = Read(@, rev[q])]
    /\ UNCHANGED <<rev, calls, made, others, told, overtaken>>

Received(e) == [e EXCEPT !.phase = "idle", !.has = TRUE, !.seen = e.got,
                         !.got = 0, !.invalid = FALSE, !.err = FALSE]
Arrives(q) ==
    /\ cache[q].phase = "read"
    /\ cache' = [cache EXCEPT ![q] = Received(@)]
    /\ UNCHANGED <<rev, calls, made, others, told, overtaken>>

(* Mutants: the error takes the place of the data, or of the fetch.          *)
FailedAndEmpty(e) == [Absent EXCEPT !.on = e.on, !.invalid = TRUE, !.err = TRUE]
FailedForGood(e) == [e EXCEPT !.phase = "error", !.err = TRUE]

(* A fetch fails, and so does its retry: the data stays.                     *)
Failed(e) == [e EXCEPT !.phase = "idle", !.got = 0, !.invalid = TRUE,
                       !.err = TRUE]
FetchFails(q) ==
    /\ cache[q].phase # "idle"
    /\ cache' = [cache EXCEPT ![q] = Failed(@)]
    /\ UNCHANGED <<rev, calls, made, others, told, overtaken>>

-----------------------------------------------------------------------------
Send(m) ==
    /\ made < MaxCalls
    /\ made' = made + 1
    /\ calls' = calls \cup {[id |-> made', m |-> m, state |-> "sent",
                             at |-> [q \in DOMAIN cache |-> 0]]}
    /\ UNCHANGED <<rev, cache, others, told, overtaken>>

Becomes(c, d) == calls' = (calls \ {c}) \cup {d}

Commit(c) ==
    /\ c.state = "sent"
    /\ rev' = [q \in DOMAIN rev |-> IF q \in Affects[c.m] THEN rev[q] + 1
                                    ELSE rev[q]]
    /\ Becomes(c, [c EXCEPT !.state = "done", !.at = rev'])
    /\ UNCHANGED <<cache, made, others, told, overtaken>>

(* The request is refused or lost, or its answer is lost after the commit:   *)
(* the page is told of an error, and the cache of nothing.                   *)
CallFails(c) ==
    /\ calls' = calls \ {c}
    /\ UNCHANGED <<rev, cache, made, others, told, overtaken>>

(* invalidateQueries and setQueryData, in this order in the entry: replaced  *)
(* data is valid, but the fetch under way goes on.                           *)
Marked(e) == [e EXCEPT !.invalid = TRUE]

(* Mutant: the screen is not fetched at once.                                *)
OnlyMarked(e) == Marked(e)

Invalidated(e) == IF e.on THEN Restarted(Marked(e)) ELSE Marked(e)
Replaced(e, at) == [e EXCEPT !.has = TRUE, !.seen = at, !.invalid = FALSE,
                             !.err = FALSE]

(* Mutant: a fetch that is under way is not given up for a new one.          *)
SettledLazily(q, c) ==
    LET e == cache[q]
        f == IF q \in Replaces[c.m] THEN Replaced(e, c.at[q]) ELSE e
    IN IF q \in Refreshes[c.m]
       THEN [f EXCEPT !.invalid = TRUE,
                      !.phase = IF f.on /\ @ = "idle" THEN "asked" ELSE @]
       ELSE f

Settled(q, c) ==
    LET e == cache[q]
        f == IF q \in Replaces[c.m] THEN Replaced(e, c.at[q]) ELSE e
    IN IF q \in Refreshes[c.m] THEN Invalidated(f) ELSE f

(* What the answer leaves older than it promised: a fetch that read before   *)
(* the commit and goes on, or data that a newer answer had replaced.         *)
Overtakes(q, c) ==
    \/ /\ q \in Affects[c.m]
       /\ cache[q].phase = "read" /\ cache[q].got < c.at[q]
       /\ \/ q \notin Refreshes[c.m]
          \/ ~cache[q].on
          \/ (~cache[q].has /\ q \notin Replaces[c.m])
    \/ /\ q \in Replaces[c.m] \ Refreshes[c.m] /\ c.at[q] < told[q]

(* onSuccess of the hook, and what the components make of it.                *)
AnswerThen(c, entries) ==
    /\ c.state = "done"
    /\ calls' = calls \ {c}
    /\ cache' = entries
    /\ told' = [q \in DOMAIN told |->
                  IF /\ q \in Affects[c.m] /\ <<c.m, q>> \notin Gaps
                     /\ c.at[q] > told[q]
                  THEN c.at[q] ELSE told[q]]
    /\ overtaken' =
          {q \in overtaken \cup {r \in DOMAIN cache : Overtakes(r, c)} :
              ~Begins(q, entries)}
    /\ UNCHANGED <<rev, made, others>>

Answer(c) == AnswerThen(c, [q \in DOMAIN cache |-> Settled(q, c)])

OthersChange(q) ==
    /\ others < MaxOthers
    /\ others' = others + 1
    /\ rev' = [rev EXCEPT ![q] = @ + 1]
    /\ UNCHANGED <<cache, calls, made, told, overtaken>>

-----------------------------------------------------------------------------
Init == \E On \in SUBSET Queries : CacheInit(Queries, On, Queries \ On)

Next ==
    \/ \E q \in Queries :
         \/ \E stale \in BOOLEAN : Mount(q, stale)
         \/ Unmount(q) \/ Refresh(q) \/ ServerReads(q) \/ Arrives(q)
         \/ FetchFails(q) \/ OthersChange(q)
    \/ \E m \in Mutations : Send(m)
    \/ \E c \in calls : Commit(c) \/ CallFails(c) \/ Answer(c)

Spec == Init /\ [][Next]_cachevars

(* The network answers at last, and the timer of a polled query goes on.     *)
Fairness ==
    /\ \A q \in Queries : WF_cachevars(ServerReads(q))
                           /\ WF_cachevars(Arrives(q) \/ FetchFails(q))
    /\ \A q \in Polled : WF_cachevars(Refresh(q))

FairSpec == Spec /\ Fairness

-----------------------------------------------------------------------------
TypeOK ==
    /\ \A q \in DOMAIN cache : cache[q] \in Entry
    /\ DOMAIN rev = DOMAIN cache /\ DOMAIN told = DOMAIN cache
    /\ \A c \in calls : c \in Call

(* Where a query is on the screen and nothing is being fetched, it shows     *)
(* every change that an answer reported to the page, unless the last fetch   *)
(* failed or the answer came too late to give up an older fetch.             *)
ReadYourWrites ==
    \A q \in DOMAIN cache :
        (cache[q].on /\ cache[q].phase = "idle")
            => \/ cache[q].err \/ q \in overtaken
               \/ cache[q].seen >= told[q]

(* The data of a query that is only ever fetched never goes back in time:    *)
(* each query is a delayed copy of the server.                               *)
Fetched == {q \in Queries : \A m \in Mutations : q \notin Replaces[m]}

Copies == INSTANCE DelayedCopies WITH
    Items <- Fetched,
    truth <- [q \in Fetched |-> rev[q]],
    copy <- [q \in Fetched |-> cache[q].seen]

IsDelayedCopy == Copies!Spec

(* A promise of an answer is kept in the end, under the same exceptions.     *)
PromisesAreKept ==
    \A q \in Queries :
        (cache[q].seen < told[q])
            ~> \/ cache[q].seen >= told[q] \/ ~cache[q].on
               \/ cache[q].err \/ q \in overtaken

(* A polled query that stays on the screen and whose fetches stop failing    *)
(* shows the server's data in the end, whoever changed it.                   *)
PollsCatchUp ==
    \A q \in Polled :
        (<>[](cache[q].on) /\ <>[][~FetchFails(q)]_cachevars)
            => []<>(cache[q].seen = rev[q])
=============================================================================
