--------------------------- MODULE QueryCacheProofs ---------------------------
(***************************************************************************)
(* For every table of hooks that satisfies CacheAssumption and any number  *)
(* of mutations and of changes by others: the types of the cache, that the *)
(* page shows what its answers reported, and that what is only ever        *)
(* fetched is a delayed copy of the server.                                *)
(***************************************************************************)
EXTENDS QueryCache, TLAPS

\* The types, and that no revision of the page is newer than the server's.
Dated ==
  /\ rev \in [Queries -> Nat]
  /\ cache \in [Queries -> Entry]
  /\ told \in [Queries -> Nat]
  /\ overtaken \subseteq Queries
  /\ made \in Nat /\ others \in Nat
  /\ calls \subseteq [id : Nat, m : Mutations, state : {"sent", "done"},
                      at : [Queries -> Nat]]
  /\ \A q \in Queries : /\ cache[q].seen <= rev[q] /\ cache[q].got <= rev[q]
                        /\ told[q] <= rev[q]
  /\ \A c \in calls : \A q \in Queries : c.at[q] <= rev[q]

\* An entry that is behind the revision t that it should show is to be
\* fetched, being fetched, or lost.
Sound(e, t, lost) ==
  /\ e.phase = "idle" => \/ e.err \/ lost \/ e.seen >= t
                         \/ ~e.on /\ (e.invalid \/ ~e.has)
  /\ e.phase = "read" => lost \/ e.got >= t

\* A fetch of what nobody replaces reads nothing older than what is shown.
Forward(q) == (q \in Fetched /\ cache[q].phase = "read")
                 => cache[q].seen <= cache[q].got

\* The inductive invariant.
CacheInv ==
  /\ Dated
  /\ \A q \in Queries : Sound(cache[q], told[q], q \in overtaken)
  /\ \A q \in Queries : Forward(q)

\* The invariant implies the types.
LEMMA DatedTypes == CacheInv => TypeOK
<1> SUFFICES ASSUME CacheInv PROVE TypeOK
  OBVIOUS
<1>1. DOMAIN cache = Queries /\ DOMAIN rev = Queries /\ DOMAIN told = Queries
  BY DEF CacheInv, Dated
<1>2. \A q \in DOMAIN cache : cache[q] \in Entry
  BY <1>1 DEF CacheInv, Dated
<1>3. \A c \in calls : c \in Call
  BY <1>1 DEF CacheInv, Dated, Call
<1> QED
  BY <1>1, <1>2, <1>3 DEF TypeOK

\* What each operation makes of an entry.
LEMMA AskedEntry ==
  ASSUME NEW e \in Entry
  PROVE  /\ Asked(e) \in Entry /\ Asked(e).phase = "asked"
         /\ Asked(e).got = 0 /\ Asked(e).seen = e.seen
BY DEF Entry, Asked

LEMMA UsedEntry ==
  ASSUME NEW e \in Entry, NEW b \in BOOLEAN
  PROVE  /\ Used(e, b) \in Entry /\ Used(e, b).on = b
         /\ Used(e, b).has = e.has /\ Used(e, b).seen = e.seen
         /\ Used(e, b).invalid = e.invalid /\ Used(e, b).err = e.err
         /\ Used(e, b).phase = e.phase /\ Used(e, b).got = e.got
BY DEF Entry, Used

LEMMA ReadEntry ==
  ASSUME NEW e \in Entry, NEW n \in Nat
  PROVE  /\ Read(e, n) \in Entry /\ Read(e, n).phase = "read"
         /\ Read(e, n).got = n /\ Read(e, n).seen = e.seen
BY DEF Entry, Read

LEMMA ReceivedEntry ==
  ASSUME NEW e \in Entry
  PROVE  /\ Received(e) \in Entry /\ Received(e).phase = "idle"
         /\ Received(e).got = 0 /\ Received(e).seen = e.got
BY DEF Entry, Received

LEMMA FailedEntry ==
  ASSUME NEW e \in Entry
  PROVE  /\ Failed(e) \in Entry /\ Failed(e).phase = "idle"
         /\ Failed(e).got = 0 /\ Failed(e).seen = e.seen
         /\ Failed(e).err = TRUE
BY DEF Entry, Failed

LEMMA MarkedEntry ==
  ASSUME NEW e \in Entry
  PROVE  /\ Marked(e) \in Entry /\ Marked(e).on = e.on
         /\ Marked(e).has = e.has /\ Marked(e).seen = e.seen
         /\ Marked(e).invalid = TRUE
         /\ Marked(e).phase = e.phase /\ Marked(e).got = e.got
BY DEF Entry, Marked

LEMMA ReplacedEntry ==
  ASSUME NEW e \in Entry, NEW n \in Nat
  PROVE  /\ Replaced(e, n) \in Entry /\ Replaced(e, n).on = e.on
         /\ Replaced(e, n).has = TRUE /\ Replaced(e, n).seen = n
         /\ Replaced(e, n).phase = e.phase /\ Replaced(e, n).got = e.got
BY DEF Entry, Replaced

-----------------------------------------------------------------------------
\* An entry that changes alone: the invariant is kept when the new entry is
\* sound, no fetch under way is made newer, and what is shown is kept.
LEMMA OneEntry ==
  ASSUME CacheInv, NEW q \in Queries, NEW e \in Entry,
         cache' = [cache EXCEPT ![q] = e],
         UNCHANGED <<rev, calls, made, others, told>>,
         overtaken' \subseteq overtaken,
         \A r \in overtaken \ overtaken' : r = q /\ e.phase = "asked",
         e.seen <= rev[q], e.got <= rev[q],
         Sound(e, told[q], q \in overtaken),
         (q \in Fetched /\ e.phase = "read") => e.seen <= e.got
  PROVE  CacheInv'
<1>1. \A r \in Queries : cache'[r] = IF r = q THEN e ELSE cache[r]
  BY DEF CacheInv, Dated
<1>2. cache' \in [Queries -> Entry]
  BY DEF CacheInv, Dated
<1>3. Dated'
  BY <1>1, <1>2 DEF CacheInv, Dated
<1>4. ASSUME NEW r \in Queries
      PROVE  Sound(cache[r], told[r], r \in overtaken)'
  <2>1. CASE r = q /\ q \in overtaken \ overtaken'
    BY <1>1, <2>1 DEF Sound
  <2>2. CASE r # q
    <3>1. cache'[r] = cache[r] /\ told' = told
      BY <1>1, <2>2
    <3>2. (r \in overtaken) = (r \in overtaken')
      BY <2>2
    <3>3. Sound(cache[r], told[r], r \in overtaken)
      BY DEF CacheInv
    <3> QED
      BY <3>1, <3>2, <3>3 DEF Sound
  <2>3. CASE r = q /\ ~(q \in overtaken \ overtaken')
    <3>1. cache'[r] = e /\ told' = told
      BY <1>1, <2>3
    <3>2. (q \in overtaken) = (q \in overtaken')
      BY <2>3
    <3> QED
      BY <2>3, <3>1, <3>2 DEF Sound
  <2> QED
    BY <2>1, <2>2, <2>3
<1>5. ASSUME NEW r \in Queries
      PROVE  Forward(r)'
  BY <1>1 DEF CacheInv, Forward, Fetched
<1> QED
  BY <1>3, <1>4, <1>5 DEF CacheInv

\* The same where a component comes or goes.
LEMMA ShowsLemma ==
  ASSUME CacheInv, NEW q \in Queries, NEW e \in Entry,
         Shows([cache EXCEPT ![q] = e]),
         e.seen <= rev[q], e.got <= rev[q],
         Sound(e, told[q], q \in overtaken),
         (q \in Fetched /\ e.phase = "read") => e.seen <= e.got
  PROVE  CacheInv'
<1> DEFINE new == [cache EXCEPT ![q] = e]
<1>1. \A r \in Queries : new[r] = IF r = q THEN e ELSE cache[r]
  BY DEF CacheInv, Dated
<1>2. /\ cache' = new
      /\ UNCHANGED <<rev, calls, made, others, told>>
      /\ overtaken' = {r \in overtaken : ~Begins(r, new)}
  BY DEF Shows
<1>3. overtaken' \subseteq overtaken
  BY <1>2
<1>4. \A r \in overtaken \ overtaken' : r = q /\ e.phase = "asked"
  <2> TAKE r \in overtaken \ overtaken'
  <2>1. r \in Queries /\ Begins(r, new)
    BY <1>2 DEF CacheInv, Dated
  <2> QED
    BY <1>1, <2>1 DEF Begins
<1> QED
  BY <1>2, <1>3, <1>4, OneEntry

-----------------------------------------------------------------------------
LEMMA FreshEntry ==
  ASSUME NEW on \in BOOLEAN, NEW had \in BOOLEAN
  PROVE  /\ Fresh(on, had) \in Entry
         /\ Fresh(on, had).seen = 0 /\ Fresh(on, had).got = 0
         /\ Fresh(on, had).phase # "read"
BY DEF Fresh, Absent, Entry

\* The first page finds what an earlier one fetched, or begins to fetch.
LEMMA CacheInitLemma == Init => CacheInv
<1> SUFFICES ASSUME NEW On \in SUBSET Queries,
                    CacheInit(Queries, On, Queries \ On)
             PROVE  CacheInv
  BY DEF Init
<1> DEFINE first(q) == Fresh(q \in On, q \in Queries \ On)
<1>1. ASSUME NEW q \in Queries
      PROVE  /\ first(q) \in Entry
             /\ first(q).seen = 0 /\ first(q).got = 0
             /\ first(q).phase # "read"
  <2>1. (q \in On) \in BOOLEAN /\ (q \in Queries \ On) \in BOOLEAN
    OBVIOUS
  <2> QED
    BY <2>1, FreshEntry
<1>2. cache = [q \in Queries |-> first(q)]
  BY DEF CacheInit
<1> HIDE DEF first
<1>3. \A q \in Queries : cache[q] = first(q)
  BY <1>2
<1>4. /\ rev = [q \in Queries |-> 0] /\ told = [q \in Queries |-> 0]
      /\ calls = {} /\ overtaken = {} /\ made = 0 /\ others = 0
  BY DEF CacheInit
<1>5. cache \in [Queries -> Entry]
  BY <1>1, <1>2
<1>6. \A q \in Queries : /\ cache[q].seen = 0 /\ cache[q].got = 0
                          /\ told[q] = 0 /\ rev[q] = 0
                          /\ cache[q].phase # "read"
  BY <1>1, <1>3, <1>4
<1> QED
  BY <1>4, <1>5, <1>6 DEF CacheInv, Dated, Sound, Forward

LEMMA MountLemma ==
  ASSUME CacheInv, NEW q \in Queries, NEW stale \in BOOLEAN, Mount(q, stale)
  PROVE  CacheInv'
<1> DEFINE e == cache[q]
           u == Used(e, TRUE)
<1>1. e \in Entry /\ Sound(e, told[q], q \in overtaken) /\ Forward(q)
  BY DEF CacheInv, Dated
<1>2. /\ u \in Entry /\ u.on = TRUE /\ u.has = e.has /\ u.seen = e.seen
      /\ u.invalid = e.invalid /\ u.err = e.err /\ u.phase = e.phase
      /\ u.got = e.got
  BY <1>1, UsedEntry
<1>3. e.seen <= rev[q] /\ e.got <= rev[q] /\ rev[q] \in Nat
  BY DEF CacheInv, Dated
<1>4. CASE e.phase = "idle" /\ (~e.has \/ e.invalid \/ stale)
  <2> DEFINE a == Asked(u)
  <2>1. a \in Entry /\ a.phase = "asked" /\ a.got = 0 /\ a.seen = u.seen
    BY <1>2, AskedEntry
  <2>2. Shows([cache EXCEPT ![q] = a])
    BY <1>4 DEF Mount, Mounted
  <2> HIDE DEF a, u
  <2>3. Sound(a, told[q], q \in overtaken)
    BY <2>1 DEF Sound
  <2>4. a.seen <= rev[q] /\ a.got <= rev[q]
    BY <1>2, <1>3, <2>1
  <2>5. (q \in Fetched /\ a.phase = "read") => a.seen <= a.got
    BY <2>1
  <2> QED
    BY <2>1, <2>2, <2>3, <2>4, <2>5, ShowsLemma
<1>5. CASE ~(e.phase = "idle" /\ (~e.has \/ e.invalid \/ stale))
  <2>1. Shows([cache EXCEPT ![q] = u])
    BY <1>5 DEF Mount, Mounted
  <2>2. Sound(u, told[q], q \in overtaken)
    BY <1>1, <1>2, <1>5 DEF Sound
  <2>3. (q \in Fetched /\ u.phase = "read") => u.seen <= u.got
    BY <1>1, <1>2 DEF Forward
  <2> HIDE DEF u
  <2> QED
    BY <1>2, <1>3, <2>1, <2>2, <2>3, ShowsLemma
<1> QED
  BY <1>4, <1>5

LEMMA UnmountLemma ==
  ASSUME CacheInv, NEW q \in Queries, Unmount(q)
  PROVE  CacheInv'
<1> DEFINE e == cache[q]
           u == Used(e, FALSE)
<1>1. e \in Entry /\ Sound(e, told[q], q \in overtaken) /\ Forward(q)
  BY DEF CacheInv, Dated
<1>2. /\ u \in Entry /\ u.on = FALSE /\ u.has = e.has /\ u.seen = e.seen
      /\ u.invalid = e.invalid /\ u.err = e.err /\ u.phase = e.phase
      /\ u.got = e.got
  BY <1>1, UsedEntry
<1>3. e.seen <= rev[q] /\ e.got <= rev[q]
  BY DEF CacheInv, Dated
<1>4. Shows([cache EXCEPT ![q] = u])
  BY DEF Unmount
<1>5. Sound(u, told[q], q \in overtaken)
  BY <1>1, <1>2 DEF Sound
<1>6. (q \in Fetched /\ u.phase = "read") => u.seen <= u.got
  BY <1>1, <1>2 DEF Forward
<1> HIDE DEF u
<1> QED
  BY <1>2, <1>3, <1>4, <1>5, <1>6, ShowsLemma

LEMMA RefreshLemma ==
  ASSUME CacheInv, NEW q \in Queries, Refresh(q)
  PROVE  CacheInv'
<1> DEFINE a == Asked(cache[q])
<1>1. cache[q] \in Entry /\ cache[q].seen <= rev[q] /\ rev[q] \in Nat
  BY DEF CacheInv, Dated
<1>2. a \in Entry /\ a.phase = "asked" /\ a.got = 0 /\ a.seen = cache[q].seen
  BY <1>1, AskedEntry
<1>3. Shows([cache EXCEPT ![q] = a])
  BY DEF Refresh
<1> HIDE DEF a
<1> QED
  BY <1>1, <1>2, <1>3, ShowsLemma DEF Sound

\* What is read is at least as new as any promise.
LEMMA ServerReadsLemma ==
  ASSUME CacheInv, NEW q \in Queries, ServerReads(q)
  PROVE  CacheInv'
<1> DEFINE a == Read(cache[q], rev[q])
<1>1. /\ cache[q] \in Entry /\ cache[q].seen <= rev[q] /\ rev[q] \in Nat
      /\ told[q] \in Nat /\ told[q] <= rev[q]
  BY DEF CacheInv, Dated
<1>2. /\ a \in Entry /\ a.phase = "read" /\ a.got = rev[q]
      /\ a.seen = cache[q].seen
  BY <1>1, ReadEntry
<1>3. /\ cache' = [cache EXCEPT ![q] = a]
      /\ UNCHANGED <<rev, calls, made, others, told, overtaken>>
  BY DEF ServerReads
<1>4. Sound(a, told[q], q \in overtaken)
  BY <1>1, <1>2 DEF Sound
<1>5. a.seen <= rev[q] /\ a.got <= rev[q]
  BY <1>1, <1>2
<1>6. (q \in Fetched /\ a.phase = "read") => a.seen <= a.got
  BY <1>1, <1>2
<1> HIDE DEF a
<1>7. /\ overtaken' \subseteq overtaken
      /\ \A r \in overtaken \ overtaken' : r = q /\ a.phase = "asked"
  BY <1>3
<1> QED
  BY <1>2, <1>3, <1>4, <1>5, <1>6, <1>7, OneEntry

LEMMA ArrivesLemma ==
  ASSUME CacheInv, NEW q \in Queries, Arrives(q)
  PROVE  CacheInv'
<1> DEFINE a == Received(cache[q])
<1>1. /\ cache[q] \in Entry /\ cache[q].got <= rev[q] /\ rev[q] \in Nat
      /\ Sound(cache[q], told[q], q \in overtaken)
      /\ cache[q].phase = "read"
  BY DEF CacheInv, Dated, Arrives
<1>2. a \in Entry /\ a.phase = "idle" /\ a.got = 0 /\ a.seen = cache[q].got
  BY <1>1, ReceivedEntry
<1>3. /\ cache' = [cache EXCEPT ![q] = a]
      /\ UNCHANGED <<rev, calls, made, others, told, overtaken>>
  BY DEF Arrives
<1>4. Sound(a, told[q], q \in overtaken)
  BY <1>1, <1>2 DEF Sound
<1>5. a.seen <= rev[q] /\ a.got <= rev[q]
  BY <1>1, <1>2
<1>6. (q \in Fetched /\ a.phase = "read") => a.seen <= a.got
  BY <1>1, <1>2
<1> HIDE DEF a
<1>7. /\ overtaken' \subseteq overtaken
      /\ \A r \in overtaken \ overtaken' : r = q /\ a.phase = "asked"
  BY <1>3
<1> QED
  BY <1>2, <1>3, <1>4, <1>5, <1>6, <1>7, OneEntry

LEMMA FetchFailsLemma ==
  ASSUME CacheInv, NEW q \in Queries, FetchFails(q)
  PROVE  CacheInv'
<1> DEFINE a == Failed(cache[q])
<1>1. cache[q] \in Entry /\ cache[q].seen <= rev[q] /\ rev[q] \in Nat
  BY DEF CacheInv, Dated
<1>2. /\ a \in Entry /\ a.phase = "idle" /\ a.got = 0
      /\ a.seen = cache[q].seen /\ a.err = TRUE
  BY <1>1, FailedEntry
<1>3. /\ cache' = [cache EXCEPT ![q] = a]
      /\ UNCHANGED <<rev, calls, made, others, told, overtaken>>
  BY DEF FetchFails
<1>4. Sound(a, told[q], q \in overtaken)
  BY <1>1, <1>2 DEF Sound
<1>5. a.seen <= rev[q] /\ a.got <= rev[q]
  BY <1>1, <1>2
<1>6. (q \in Fetched /\ a.phase = "read") => a.seen <= a.got
  BY <1>1, <1>2
<1> HIDE DEF a
<1>7. /\ overtaken' \subseteq overtaken
      /\ \A r \in overtaken \ overtaken' : r = q /\ a.phase = "asked"
  BY <1>3
<1> QED
  BY <1>2, <1>3, <1>4, <1>5, <1>6, <1>7, OneEntry

-----------------------------------------------------------------------------
LEMMA SendLemma ==
  ASSUME CacheInv, NEW m \in Mutations, Send(m)
  PROVE  CacheInv'
<1> DEFINE none == [q \in DOMAIN cache |-> 0]
           d == [id |-> made + 1, m |-> m, state |-> "sent", at |-> none]
<1>1. DOMAIN cache = Queries
  BY DEF CacheInv, Dated
<1>2. none \in [Queries -> Nat] /\ \A q \in Queries : none[q] = 0
  BY <1>1
<1>3. /\ calls' = calls \cup {d} /\ made' = made + 1
      /\ UNCHANGED <<rev, cache, others, told, overtaken>>
  BY DEF Send
<1> HIDE DEF none
<1>4. d \in [id : Nat, m : Mutations, state : {"sent", "done"},
             at : [Queries -> Nat]]
  BY <1>2 DEF CacheInv, Dated
<1>5. d.at = none
  OBVIOUS
<1> HIDE DEF d
<1>6. \A q \in Queries : d.at[q] <= rev[q]
  BY <1>2, <1>5 DEF CacheInv, Dated
<1>7. Dated'
  BY <1>3, <1>4, <1>6 DEF CacheInv, Dated
<1>8. \A q \in Queries : Sound(cache[q], told[q], q \in overtaken)'
  BY <1>3 DEF CacheInv, Sound
<1>9. \A q \in Queries : Forward(q)'
  BY <1>3 DEF CacheInv, Forward, Fetched
<1> QED
  BY <1>7, <1>8, <1>9 DEF CacheInv

\* The revisions grow, and the answer carries those of its commit.
LEMMA CommitLemma ==
  ASSUME CacheInv, NEW c \in calls, Commit(c)
  PROVE  /\ CacheInv'
         /\ \A q \in Queries : rev'[q] \in {rev[q], rev[q] + 1}
<1> DEFINE d == [c EXCEPT !.state = "done", !.at = rev']
<1>1. DOMAIN rev = Queries /\ rev \in [Queries -> Nat]
  BY DEF CacheInv, Dated
<1>2. /\ rev' \in [Queries -> Nat]
      /\ \A q \in Queries : rev'[q] \in {rev[q], rev[q] + 1}
  BY <1>1 DEF Commit
<1>3. /\ calls' = (calls \ {c}) \cup {d}
      /\ UNCHANGED <<cache, made, others, told, overtaken>>
  BY DEF Commit, Becomes
<1>4. c \in [id : Nat, m : Mutations, state : {"sent", "done"},
             at : [Queries -> Nat]]
  BY DEF CacheInv, Dated
<1>5. /\ d \in [id : Nat, m : Mutations, state : {"sent", "done"},
                at : [Queries -> Nat]]
      /\ d.at = rev'
  BY <1>2, <1>4
<1> HIDE DEF d
<1>6. calls' \subseteq [id : Nat, m : Mutations, state : {"sent", "done"},
                        at : [Queries -> Nat]]
  BY <1>3, <1>5 DEF CacheInv, Dated
<1>7. \A q \in Queries : rev[q] \in Nat /\ rev[q] <= rev'[q]
  BY <1>1, <1>2
<1>8. ASSUME NEW q \in Queries
      PROVE  /\ cache[q].seen <= rev'[q] /\ cache[q].got <= rev'[q]
             /\ told[q] <= rev'[q]
  BY <1>2, <1>7 DEF CacheInv, Dated, Entry
<1>9. ASSUME NEW b \in calls', NEW q \in Queries
      PROVE  b.at[q] <= rev'[q]
  <2>1. CASE b = d
    BY <1>2, <1>5, <2>1
  <2>2. CASE b \in calls
    <3>1. b.at[q] \in Nat /\ b.at[q] <= rev[q]
      BY <2>2 DEF CacheInv, Dated
    <3> QED
      BY <1>2, <1>7, <3>1
  <2> QED
    BY <1>3, <2>1, <2>2
<1>10. Dated'
  BY <1>2, <1>3, <1>6, <1>8, <1>9 DEF CacheInv, Dated
<1>11. \A q \in Queries : Sound(cache[q], told[q], q \in overtaken)'
  BY <1>3 DEF CacheInv, Sound
<1>12. \A q \in Queries : Forward(q)'
  BY <1>3 DEF CacheInv, Forward, Fetched
<1> QED
  BY <1>2, <1>10, <1>11, <1>12 DEF CacheInv

LEMMA CallFailsLemma ==
  ASSUME CacheInv, NEW c \in calls, CallFails(c)
  PROVE  CacheInv'
<1>1. Dated'
  BY DEF CacheInv, Dated, CallFails
<1>2. \A q \in Queries : Sound(cache[q], told[q], q \in overtaken)'
  BY DEF CacheInv, Sound, CallFails
<1>3. \A q \in Queries : Forward(q)'
  BY DEF CacheInv, Forward, Fetched, CallFails
<1> QED
  BY <1>1, <1>2, <1>3 DEF CacheInv

LEMMA OthersChangeLemma ==
  ASSUME CacheInv, NEW q \in Queries, OthersChange(q)
  PROVE  /\ CacheInv'
         /\ \A r \in Queries : rev'[r] \in {rev[r], rev[r] + 1}
<1>1. rev \in [Queries -> Nat]
  BY DEF CacheInv, Dated
<1>2. /\ rev' \in [Queries -> Nat]
      /\ \A r \in Queries : rev'[r] \in {rev[r], rev[r] + 1}
      /\ others' = others + 1
      /\ UNCHANGED <<cache, calls, made, told, overtaken>>
  BY <1>1 DEF OthersChange
<1>3. \A r \in Queries : /\ rev[r] \in Nat /\ rev'[r] \in Nat
                         /\ rev[r] <= rev'[r]
  BY <1>1, <1>2
<1>4. ASSUME NEW r \in Queries
      PROVE  /\ cache[r].seen <= rev'[r] /\ cache[r].got <= rev'[r]
             /\ told[r] <= rev'[r]
  BY <1>3 DEF CacheInv, Dated, Entry
<1>5. ASSUME NEW b \in calls, NEW r \in Queries
      PROVE  b.at[r] <= rev'[r]
  BY <1>3 DEF CacheInv, Dated
<1>6. Dated'
  BY <1>2, <1>4, <1>5 DEF CacheInv, Dated
<1>7. \A r \in Queries : Sound(cache[r], told[r], r \in overtaken)'
  BY <1>2 DEF CacheInv, Sound
<1>8. \A r \in Queries : Forward(r)'
  BY <1>2 DEF CacheInv, Forward, Fetched
<1> QED
  BY <1>2, <1>6, <1>7, <1>8 DEF CacheInv

-----------------------------------------------------------------------------
LEMMA InvalidatedEntry ==
  ASSUME NEW e \in Entry
  PROVE  /\ Invalidated(e) \in Entry /\ Invalidated(e).on = e.on
         /\ Invalidated(e).seen = e.seen
         /\ \/ /\ Invalidated(e).phase = "asked"
               /\ Invalidated(e).got \in {0, e.got}
            \/ /\ Invalidated(e).phase = e.phase /\ Invalidated(e).got = e.got
               /\ e.phase = "idle" => ~e.on /\ Invalidated(e).invalid = TRUE
<1> DEFINE m == Marked(e)
           a == Asked(m)
           i == Invalidated(e)
<1>1. /\ m \in Entry /\ m.on = e.on /\ m.has = e.has /\ m.seen = e.seen
      /\ m.invalid = TRUE /\ m.phase = e.phase /\ m.got = e.got
  BY MarkedEntry
<1>2. a \in Entry /\ a.phase = "asked" /\ a.got = 0 /\ a.seen = m.seen
  BY <1>1, AskedEntry
<1>3. a.on = m.on
  BY <1>1 DEF Asked, Entry
<1>4. i = m \/ i = a
  BY DEF Invalidated, Restarted
<1>5. (e.on /\ e.phase = "idle") => i = a
  BY <1>1 DEF Invalidated, Restarted
<1> HIDE DEF m, a, i
<1>6. CASE i = a
  BY <1>1, <1>2, <1>3, <1>6 DEF i
<1>7. CASE i = m /\ i # a
  BY <1>1, <1>5, <1>7 DEF i
<1> QED
  BY <1>4, <1>6, <1>7

\* What the answer makes of an entry.
LEMMA SettledEntry ==
  ASSUME CacheInv, NEW c \in calls, NEW q \in Queries
  PROVE  LET e == cache[q]
             s == Settled(q, c)
         IN /\ s \in Entry
            /\ s.seen = IF q \in Replaces[c.m] THEN c.at[q] ELSE e.seen
            /\ \/ s.phase = "asked" /\ s.got \in {0, e.got}
               \/ /\ s.phase = e.phase /\ s.got = e.got
                  /\ (q \in Refreshes[c.m] /\ e.phase = "idle")
                        => ~s.on /\ s.invalid = TRUE
                  /\ q \notin Refreshes[c.m] \cup Replaces[c.m] => s = e
<1> DEFINE e == cache[q]
           r == Replaced(e, c.at[q])
           f == IF q \in Replaces[c.m] THEN r ELSE e
           s == Settled(q, c)
           i == Invalidated(f)
<1>1. e \in Entry /\ c.at[q] \in Nat
  BY DEF CacheInv, Dated
<1>2. /\ r \in Entry /\ r.on = e.on /\ r.seen = c.at[q]
      /\ r.phase = e.phase /\ r.got = e.got
  BY <1>1, ReplacedEntry
<1>3. /\ f \in Entry /\ f.on = e.on /\ f.phase = e.phase /\ f.got = e.got
      /\ f.seen = IF q \in Replaces[c.m] THEN c.at[q] ELSE e.seen
      /\ q \notin Replaces[c.m] => f = e
  BY <1>1, <1>2
<1>4. /\ i \in Entry /\ i.on = f.on /\ i.seen = f.seen
      /\ \/ i.phase = "asked" /\ i.got \in {0, f.got}
         \/ /\ i.phase = f.phase /\ i.got = f.got
            /\ f.phase = "idle" => ~f.on /\ i.invalid = TRUE
  BY <1>3, InvalidatedEntry
<1>5. s = IF q \in Refreshes[c.m] THEN i ELSE f
  BY DEF Settled
<1> HIDE DEF r, f, i, s
<1>6. /\ s \in Entry
      /\ s.seen = IF q \in Replaces[c.m] THEN c.at[q] ELSE e.seen
      /\ \/ s.phase = "asked" /\ s.got \in {0, e.got}
         \/ /\ s.phase = e.phase /\ s.got = e.got
            /\ (q \in Refreshes[c.m] /\ e.phase = "idle")
                  => ~s.on /\ s.invalid = TRUE
            /\ q \notin Refreshes[c.m] \cup Replaces[c.m] => s = e
  <2>1. CASE q \in Refreshes[c.m]
    BY <1>3, <1>4, <1>5, <2>1
  <2>2. CASE q \notin Refreshes[c.m]
    BY <1>3, <1>5, <2>2
  <2> QED
    BY <2>1, <2>2
<1> QED
  BY <1>6 DEF s

\* A fetch that has read and goes on after an answer is one the answer does
\* not give up.
LEMMA GoesOn ==
  ASSUME CacheInv, NEW c \in calls, NEW q \in Queries,
         cache[q].phase = "read", Settled(q, c).phase = "read"
  PROVE  \/ q \notin Refreshes[c.m]
         \/ ~cache[q].on
         \/ (~cache[q].has /\ q \notin Replaces[c.m])
<1> DEFINE e == cache[q]
           r == Replaced(e, c.at[q])
           f == IF q \in Replaces[c.m] THEN r ELSE e
           m == Marked(f)
           a == Asked(m)
<1> SUFFICES ASSUME q \in Refreshes[c.m], e.on,
                    e.has \/ q \in Replaces[c.m]
             PROVE  FALSE
  OBVIOUS
<1>1. e \in Entry /\ c.at[q] \in Nat
  BY DEF CacheInv, Dated
<1>2. r \in Entry /\ r.on = e.on /\ r.has = TRUE
  BY <1>1, ReplacedEntry
<1>3. f \in Entry /\ f.on = TRUE /\ f.has = TRUE
  BY <1>1, <1>2 DEF Entry
<1>4. m \in Entry /\ m.has = TRUE
  BY <1>3, MarkedEntry
<1>5. a.phase = "asked"
  BY <1>4, AskedEntry
<1>6. Settled(q, c) = Invalidated(f)
  BY DEF Settled
<1>7. Invalidated(f) = Restarted(m)
  BY <1>3 DEF Invalidated
<1>8. Restarted(m) = a
  BY <1>4 DEF Restarted
<1> QED
  BY <1>5, <1>6, <1>7, <1>8

\* An answer tells only what it refetches or replaces; what it cannot make
\* newer than it promises is overtaken.
LEMMA AnswerLemma ==
  ASSUME CacheInv, NEW c \in calls, Answer(c)
  PROVE  /\ CacheInv'
         /\ \A q \in Fetched : cache'[q].seen = cache[q].seen
<1> DEFINE s(q) == Settled(q, c)
           entries == [q \in DOMAIN cache |-> s(q)]
           lost == {q \in Queries : Overtakes(q, c)}
<1>1. DOMAIN cache = Queries /\ DOMAIN told = Queries /\ c.m \in Mutations
  BY DEF CacheInv, Dated
<1>2. /\ cache' = entries /\ calls' = calls \ {c}
      /\ UNCHANGED <<rev, made, others>>
      /\ overtaken' = {q \in overtaken \cup lost : ~Begins(q, entries)}
      /\ told' = [q \in Queries |->
                    IF /\ q \in Affects[c.m] /\ <<c.m, q>> \notin Gaps
                       /\ c.at[q] > told[q]
                    THEN c.at[q] ELSE told[q]]
  BY <1>1 DEF Answer, AnswerThen
<1>3. ASSUME NEW q \in Queries
      PROVE  LET e == cache[q]
             IN /\ s(q) \in Entry
                /\ s(q).seen = IF q \in Replaces[c.m] THEN c.at[q] ELSE e.seen
                /\ \/ s(q).phase = "asked" /\ s(q).got \in {0, e.got}
                   \/ /\ s(q).phase = e.phase /\ s(q).got = e.got
                      /\ (q \in Refreshes[c.m] /\ e.phase = "idle")
                            => ~s(q).on /\ s(q).invalid = TRUE
                      /\ q \notin Refreshes[c.m] \cup Replaces[c.m]
                            => s(q) = e
  BY SettledEntry
<1>4. ASSUME NEW q \in Queries,
             \/ /\ q \in Affects[c.m]
                /\ cache[q].phase = "read" /\ cache[q].got < c.at[q]
                /\ s(q).phase = "read"
             \/ /\ q \in Replaces[c.m] \ Refreshes[c.m]
                /\ c.at[q] < told[q]
      PROVE  Overtakes(q, c)
  BY <1>4, GoesOn DEF Overtakes
<1>5. \A q \in Queries : entries[q] = s(q)
  BY <1>1
<1> HIDE DEF s
<1>6. entries \in [Queries -> Entry]
  BY <1>1, <1>3
<1>7. \A q \in Queries : Begins(q, entries) => s(q).phase = "asked"
  BY <1>5 DEF Begins
<1>8. \A q \in Queries : cache'[q] = s(q)
  BY <1>2, <1>5
<1> HIDE DEF entries
<1>9. ASSUME NEW q \in Queries
      PROVE  /\ rev[q] \in Nat /\ c.at[q] \in Nat /\ c.at[q] <= rev[q]
             /\ told[q] \in Nat /\ told[q] <= rev[q]
             /\ cache[q] \in Entry
             /\ cache[q].seen <= rev[q] /\ cache[q].got <= rev[q]
             /\ Sound(cache[q], told[q], q \in overtaken)
             /\ Forward(q)
  BY DEF CacheInv, Dated
<1>10. Dated'
  <2>1. told' \in [Queries -> Nat] /\ \A q \in Queries : told'[q] <= rev[q]
    BY <1>2, <1>9
  <2>2. cache' \in [Queries -> Entry]
    BY <1>2, <1>6
  <2>3. overtaken' \subseteq Queries
    BY <1>2 DEF CacheInv, Dated
  <2>4. ASSUME NEW q \in Queries
        PROVE  cache'[q].seen <= rev[q] /\ cache'[q].got <= rev[q]
    <3>1. s(q).seen \in {c.at[q], cache[q].seen}
      BY <1>3
    <3>2. s(q).got \in {0, cache[q].got}
      BY <1>3
    <3>3. 0 <= rev[q]
      BY <1>9
    <3> QED
      BY <1>8, <1>9, <3>1, <3>2, <3>3
  <2> QED
    BY <1>2, <2>1, <2>2, <2>3, <2>4 DEF CacheInv, Dated
<1>11. ASSUME NEW q \in Queries
       PROVE  Sound(cache[q], told[q], q \in overtaken)'
  <2> DEFINE e == cache[q]
             t == told'[q]
  <2>1. /\ cache'[q] = s(q) /\ t \in Nat
        /\ \/ t = told[q]
           \/ /\ t = c.at[q] /\ q \in Affects[c.m]
              /\ <<c.m, q>> \notin Gaps /\ c.at[q] > told[q]
    BY <1>2, <1>8, <1>9
  <2>2. s(q).phase # "asked" /\ (q \in overtaken \/ Overtakes(q, c))
           => q \in overtaken'
    BY <1>2, <1>7
  <2>3. CASE s(q).phase = "asked"
    BY <2>1, <2>3 DEF Sound
  <2>4. CASE s(q).phase = "read"
    <3>1. e.phase = "read" /\ s(q).got = e.got
      BY <1>3, <2>4
    <3>2. q \in overtaken \/ e.got >= told[q]
      BY <1>9, <3>1 DEF Sound
    <3>3. q \in overtaken' \/ s(q).got >= t
      BY <1>4, <1>9, <2>1, <2>2, <2>4, <3>1, <3>2 DEF Entry
    <3> QED
      BY <2>1, <2>4, <3>3 DEF Sound
  <2>5. CASE s(q).phase = "idle"
    <3>1. e.phase = "idle" /\ s(q).got = e.got
      BY <1>3, <2>5
    <3>2. CASE q \in Refreshes[c.m]
      BY <1>3, <2>1, <2>5, <3>1, <3>2 DEF Sound
    <3>3. CASE q \in Replaces[c.m] \ Refreshes[c.m]
      <4>1. s(q).seen = c.at[q]
        BY <1>3, <3>3
      <4>2. q \in overtaken' \/ s(q).seen >= t
        BY <1>4, <1>9, <2>1, <2>2, <2>5, <3>3, <4>1
      <4> QED
        BY <2>1, <2>5, <4>2 DEF Sound
    <3>4. CASE q \notin Refreshes[c.m] \cup Replaces[c.m]
      <4>1. s(q) = e
        BY <1>3, <2>5, <3>4
      <4>2. t = told[q]
        BY <1>1, <2>1, <3>4, CacheAssumption
      <4> QED
        BY <1>9, <2>1, <2>2, <2>5, <4>1, <4>2 DEF Sound
    <3> QED
      BY <3>2, <3>3, <3>4
  <2> QED
    BY <1>3, <2>3, <2>4, <2>5 DEF Entry
<1>12. ASSUME NEW q \in Queries
       PROVE  Forward(q)'
  <2>1. q \in Fetched => q \notin Replaces[c.m]
    BY <1>1 DEF Fetched
  <2>2. cache'[q] = s(q) /\ (q \in Fetched => s(q).seen = cache[q].seen)
    BY <1>3, <1>8, <2>1
  <2>3. s(q).phase = "read" => /\ cache[q].phase = "read"
                               /\ s(q).got = cache[q].got
    BY <1>3
  <2> QED
    BY <1>9, <2>2, <2>3 DEF Forward, Fetched
<1>13. \A q \in Fetched : cache'[q].seen = cache[q].seen
  BY <1>1, <1>3, <1>8 DEF Fetched
<1> QED
  BY <1>10, <1>11, <1>12, <1>13 DEF CacheInv

LEMMA StutterLemma ==
  ASSUME CacheInv, UNCHANGED cachevars
  PROVE  CacheInv'
BY DEF CacheInv, Dated, Sound, Forward, Fetched, cachevars

LEMMA NextLemma ==
  ASSUME CacheInv, [Next]_cachevars
  PROVE  CacheInv'
<1>1. ASSUME NEW q \in Queries, NEW stale \in BOOLEAN, Mount(q, stale)
      PROVE  CacheInv'
  BY <1>1, MountLemma
<1>2. ASSUME NEW q \in Queries,
             \/ Unmount(q) \/ Refresh(q) \/ ServerReads(q) \/ Arrives(q)
             \/ FetchFails(q) \/ OthersChange(q)
      PROVE  CacheInv'
  BY <1>2, UnmountLemma, RefreshLemma, ServerReadsLemma, ArrivesLemma,
     FetchFailsLemma, OthersChangeLemma
<1>3. ASSUME NEW m \in Mutations, Send(m)
      PROVE  CacheInv'
  BY <1>3, SendLemma
<1>4. ASSUME NEW c \in calls, Commit(c) \/ CallFails(c) \/ Answer(c)
      PROVE  CacheInv'
  BY <1>4, CommitLemma, CallFailsLemma, AnswerLemma
<1> QED
  BY <1>1, <1>2, <1>3, <1>4, StutterLemma DEF Next

LEMMA CacheInvariant == Spec => []CacheInv
<1>1. Init => CacheInv
  BY CacheInitLemma
<1>2. CacheInv /\ [Next]_cachevars => CacheInv'
  BY NextLemma
<1> QED
  BY <1>1, <1>2, PTL DEF Spec

-----------------------------------------------------------------------------
\* The entries, revisions and calls of a page always have their types.
THEOREM CacheTypes == Spec => []TypeOK
<1>1. CacheInv => TypeOK
  BY DatedTypes
<1> QED
  BY <1>1, CacheInvariant, PTL

\* A page that is not fetching shows whatever its answers reported, except
\* after a failed fetch or an overtaken answer, for every table of hooks.
THEOREM ShowsOwnWrites == Spec => []ReadYourWrites
<1>1. CacheInv => ReadYourWrites
  <2> SUFFICES ASSUME CacheInv, NEW q \in DOMAIN cache,
                      cache[q].on, cache[q].phase = "idle"
               PROVE  \/ cache[q].err \/ q \in overtaken
                      \/ cache[q].seen >= told[q]
    BY DEF ReadYourWrites
  <2>1. q \in Queries
    BY DEF CacheInv, Dated
  <2> QED
    BY <2>1 DEF CacheInv, Sound
<1> QED
  BY <1>1, CacheInvariant, PTL

\* The step of the page as a step of the delayed copies.
LEMMA CopiesStep ==
  ASSUME CacheInv, [Next]_cachevars
  PROVE  [Copies!Next]_(Copies!vars)
<1> DEFINE truth == [q \in Fetched |-> rev[q]]
           copy == [q \in Fetched |-> cache[q].seen]
<1>0. Fetched \subseteq Queries /\ rev \in [Queries -> Nat]
  BY DEF Fetched, CacheInv, Dated
<1>1. ASSUME UNCHANGED rev, \A q \in Fetched : cache'[q].seen = cache[q].seen
      PROVE  UNCHANGED Copies!vars
  BY <1>1 DEF Copies!vars, Fetched
<1>2. ASSUME UNCHANGED cache,
             \A q \in Queries : rev'[q] \in {rev[q], rev[q] + 1}
      PROVE  Copies!Change
  BY <1>0, <1>2 DEF Copies!Change, Fetched
<1>3. ASSUME NEW q \in Queries, Arrives(q)
      PROVE  Copies!Copy
  <2> DEFINE a == Received(cache[q])
  <2>1. cache[q] \in Entry /\ cache[q].phase = "read" /\ Forward(q)
        /\ cache[q].got <= rev[q]
    BY <1>3 DEF Arrives, CacheInv, Dated
  <2>2. a.seen = cache[q].got
    BY <2>1, ReceivedEntry
  <2>3. cache' = [cache EXCEPT ![q] = a] /\ UNCHANGED rev
    BY <1>3 DEF Arrives
  <2> HIDE DEF a
  <2>4. ASSUME NEW r \in Fetched
        PROVE  cache'[r].seen \in cache[r].seen..rev[r]
    <3>1. r \in Queries /\ cache[r] \in Entry /\ cache[r].seen <= rev[r]
          /\ rev[r] \in Nat
      BY <1>0 DEF CacheInv, Dated
    <3>2. cache'[r] = IF r = q THEN a ELSE cache[r]
      BY <2>3, <3>1 DEF CacheInv, Dated
    <3> QED
      BY <2>1, <2>2, <3>1, <3>2 DEF Forward, Entry
  <2> QED
    BY <2>3, <2>4 DEF Copies!Copy, Fetched
<1>4. ASSUME NEW q \in Queries, NEW e \in Entry, e.seen = cache[q].seen,
             cache' = [cache EXCEPT ![q] = e]
      PROVE  \A r \in Fetched : cache'[r].seen = cache[r].seen
  BY <1>0, <1>4 DEF CacheInv, Dated
<1>5. ASSUME NEW q \in Queries, NEW stale \in BOOLEAN, Mount(q, stale)
      PROVE  UNCHANGED Copies!vars
  <2> DEFINE u == Used(cache[q], TRUE)
             m == Mounted(cache[q], stale)
  <2>1. u \in Entry /\ u.seen = cache[q].seen
    BY UsedEntry DEF CacheInv, Dated
  <2>2. Asked(u) \in Entry /\ Asked(u).seen = u.seen
    BY <2>1, AskedEntry
  <2>3. m \in {u, Asked(u)}
    BY DEF Mounted
  <2>4. cache' = [cache EXCEPT ![q] = m] /\ UNCHANGED rev
    BY <1>5 DEF Mount, Shows
  <2> HIDE DEF u, m
  <2>5. m \in Entry /\ m.seen = cache[q].seen
    BY <2>1, <2>2, <2>3
  <2> QED
    BY <1>1, <1>4, <2>4, <2>5
<1>6. ASSUME NEW q \in Queries,
             Unmount(q) \/ Refresh(q) \/ ServerReads(q) \/ FetchFails(q)
      PROVE  UNCHANGED Copies!vars
  <2> DEFINE new == {Used(cache[q], FALSE), Asked(cache[q]),
                     Read(cache[q], rev[q]), Failed(cache[q])}
  <2>1. cache[q] \in Entry /\ rev[q] \in Nat
    BY DEF CacheInv, Dated
  <2>2. \A e \in new : e \in Entry /\ e.seen = cache[q].seen
    <3>1. Used(cache[q], FALSE) \in Entry
          /\ Used(cache[q], FALSE).seen = cache[q].seen
      BY <2>1, UsedEntry
    <3>2. Asked(cache[q]) \in Entry /\ Asked(cache[q]).seen = cache[q].seen
      BY <2>1, AskedEntry
    <3>3. Read(cache[q], rev[q]) \in Entry
          /\ Read(cache[q], rev[q]).seen = cache[q].seen
      BY <2>1, ReadEntry
    <3>4. Failed(cache[q]) \in Entry /\ Failed(cache[q]).seen = cache[q].seen
      BY <2>1, FailedEntry
    <3> QED
      BY <3>1, <3>2, <3>3, <3>4
  <2>3. UNCHANGED rev /\ \E e \in new : cache' = [cache EXCEPT ![q] = e]
    BY <1>6 DEF Unmount, Refresh, ServerReads, FetchFails, Shows
  <2> HIDE DEF new
  <2> QED
    BY <1>1, <1>4, <2>2, <2>3
<1>7. ASSUME NEW q \in Queries, OthersChange(q)
      PROVE  Copies!Change
  BY <1>2, <1>7, OthersChangeLemma DEF OthersChange
<1>8. ASSUME NEW m \in Mutations, Send(m)
      PROVE  UNCHANGED Copies!vars
  BY <1>1, <1>8 DEF Send
<1>9. ASSUME NEW c \in calls, Commit(c)
      PROVE  Copies!Change
  BY <1>2, <1>9, CommitLemma DEF Commit
<1>10. ASSUME NEW c \in calls, CallFails(c) \/ Answer(c)
       PROVE  UNCHANGED Copies!vars
  BY <1>1, <1>10, AnswerLemma DEF CallFails, Answer, AnswerThen
<1>11. ASSUME UNCHANGED cachevars
       PROVE  UNCHANGED Copies!vars
  BY <1>1, <1>11 DEF cachevars
<1> QED
  BY <1>3, <1>5, <1>6, <1>7, <1>8, <1>9, <1>10, <1>11
     DEF Next, Copies!Next

\* What no mutation replaces is only ever moved forward, and never beyond
\* the server: the cache of a page refines the delayed copies.
THEOREM RefinesDelayedCopies == Spec => IsDelayedCopy
<1>1. Init => Copies!Init
  <2> SUFFICES ASSUME Init PROVE Copies!Init
    OBVIOUS
  <2>1. PICK On \in SUBSET Queries : CacheInit(Queries, On, Queries \ On)
    BY DEF Init
  <2> DEFINE first(q) == Fresh(q \in On, q \in Queries \ On)
  <2>2. \A q \in Queries : rev[q] = 0 /\ cache[q] = first(q)
    BY <2>1 DEF CacheInit
  <2>3. ASSUME NEW q \in Queries
        PROVE  first(q).seen = 0
    <3>1. (q \in On) \in BOOLEAN /\ (q \in Queries \ On) \in BOOLEAN
      OBVIOUS
    <3> QED
      BY <3>1, FreshEntry
  <2> HIDE DEF first
  <2> QED
    BY <2>2, <2>3 DEF Copies!Init, Fetched
<1>2. CacheInv /\ [Next]_cachevars => [Copies!Next]_(Copies!vars)
  BY CopiesStep
<1> QED
  BY <1>1, <1>2, CacheInvariant, PTL DEF Spec, IsDelayedCopy, Copies!Spec
=============================================================================
