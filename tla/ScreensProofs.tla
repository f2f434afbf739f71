---------------------------- MODULE ScreensProofs ----------------------------
(***************************************************************************)
(* Proofs about the screens, for any number of requests and of openings:   *)
(* that a screen shows what its answers reported, that one opening of a    *)
(* form is saved once, and that answers and refetches leave the user's     *)
(* forms alone; from what CatalogueFacts says of the tables.               *)
(***************************************************************************)
EXTENDS Screens, CatalogueFacts, TLAPS

-----------------------------------------------------------------------------
(* Entries.                                                                *)

\* What each operation makes of an entry.
LEMMA AskedEntry ==
  ASSUME NEW e \in Data!Entry
  PROVE  Data!Asked(e) \in Data!Entry /\ Data!Asked(e).phase = "asked"
BY DEF Data!Entry, Data!Asked

\* Being used or not changes nothing else.
LEMMA UsedEntry ==
  ASSUME NEW e \in Data!Entry, NEW b \in BOOLEAN
  PROVE  LET f == Data!Used(e, b)
         IN /\ f \in Data!Entry /\ f.on = b /\ f.has = e.has
            /\ f.seen = e.seen /\ f.invalid = e.invalid /\ f.err = e.err
            /\ f.phase = e.phase /\ f.got = e.got
BY DEF Data!Entry, Data!Used

\* The server has read the revision of the moment.
LEMMA ReadEntry ==
  ASSUME NEW e \in Data!Entry, NEW n \in Nat
  PROVE  /\ Data!Read(e, n) \in Data!Entry /\ Data!Read(e, n).phase = "read"
         /\ Data!Read(e, n).got = n /\ Data!Read(e, n).has = e.has
         /\ Data!Read(e, n).err = e.err
BY DEF Data!Entry, Data!Read

\* What arrives is what was read, and clears the error.
LEMMA ReceivedEntry ==
  ASSUME NEW e \in Data!Entry
  PROVE  LET f == Data!Received(e)
         IN /\ f \in Data!Entry /\ f.phase = "idle" /\ f.seen = e.got
            /\ f.has = TRUE /\ f.err = FALSE
BY DEF Data!Entry, Data!Received

\* An error keeps the data.
LEMMA FailedEntry ==
  ASSUME NEW e \in Data!Entry
  PROVE  LET f == Data!Failed(e)
         IN /\ f \in Data!Entry /\ f.phase = "idle" /\ f.err = TRUE
            /\ f.has = e.has /\ f.seen = e.seen
BY DEF Data!Entry, Data!Failed

\* An entry that is marked is out of date, and otherwise the same.
LEMMA MarkedEntry ==
  ASSUME NEW e \in Data!Entry
  PROVE  LET f == Data!Marked(e)
         IN /\ f \in Data!Entry /\ f.on = e.on /\ f.has = e.has
            /\ f.seen = e.seen /\ f.invalid = TRUE /\ f.err = e.err
            /\ f.phase = e.phase /\ f.got = e.got
BY DEF Data!Entry, Data!Marked

\* Replaced data is there, and the fetch under way goes on.
LEMMA ReplacedEntry ==
  ASSUME NEW e \in Data!Entry, NEW n \in Nat
  PROVE  LET f == Data!Replaced(e, n)
         IN /\ f \in Data!Entry /\ f.on = e.on /\ f.has = TRUE
            /\ f.seen = n /\ f.err = FALSE
            /\ f.phase = e.phase /\ f.got = e.got
BY DEF Data!Entry, Data!Replaced

\* A fetch that begins keeps what the screen shows.
LEMMA AskedKeeps ==
  ASSUME NEW e \in Data!Entry
  PROVE  /\ Data!Asked(e).on = e.on /\ Data!Asked(e).has = e.has
         /\ Data!Asked(e).seen = e.seen /\ Data!Asked(e).err = e.err
BY DEF Data!Entry, Data!Asked

\* What is invalidated is fetched anew where it is used and has data; a first
\* load goes on, and what is not used is marked.
LEMMA InvalidatedEntry ==
  ASSUME NEW e \in Data!Entry
  PROVE  LET i == Data!Invalidated(e)
         IN /\ i \in Data!Entry /\ i.on = e.on /\ i.has = e.has
            /\ i.seen = e.seen /\ i.err = e.err
            /\ \/ i.phase = "asked"
               \/ /\ i.phase = e.phase /\ i.got = e.got
                  /\ e.phase = "idle" => ~e.on /\ i.invalid = TRUE
            /\ (e.on /\ e.has) => i.phase = "asked"
<1> DEFINE m == Data!Marked(e)
           a == Data!Asked(m)
           i == Data!Invalidated(e)
<1>1. /\ m \in Data!Entry /\ m.on = e.on /\ m.has = e.has
      /\ m.seen = e.seen /\ m.invalid = TRUE /\ m.err = e.err
      /\ m.phase = e.phase /\ m.got = e.got
  BY MarkedEntry
<1>2. /\ a \in Data!Entry /\ a.phase = "asked"
      /\ a.on = m.on /\ a.has = m.has /\ a.seen = m.seen /\ a.err = m.err
  BY <1>1, AskedEntry, AskedKeeps
<1>3. i = m \/ i = a
  BY DEF Data!Invalidated, Data!Restarted
<1>4. (e.on /\ (e.phase = "idle" \/ e.has)) => i = a
  BY <1>1 DEF Data!Invalidated, Data!Restarted
<1> HIDE DEF m, a, i
<1>5. CASE i = a
  BY <1>1, <1>2, <1>5 DEF i
<1>6. CASE i = m /\ i # a
  BY <1>1, <1>4, <1>6 DEF i
<1> QED
  BY <1>3, <1>5, <1>6

\* An entry that is behind the revision t that it should show is to be
\* fetched, being fetched, or lost.
Sound(e, t, lost) ==
  /\ e.phase = "idle" => \/ e.err \/ lost \/ e.seen >= t
                         \/ ~e.on /\ (e.invalid \/ ~e.has)
  /\ e.phase = "read" => lost \/ e.got >= t

\* An entry that is sound whenever another one is.
AsSound(e, f) ==
  /\ f \in Data!Entry
  /\ \/ f.phase = "asked"
     \/ \A t \in Nat, lost \in BOOLEAN : Sound(e, t, lost) => Sound(f, t, lost)

\* A component that leaves an entry, comes to use it, or never saw it.
LEMMA LeftAsSound ==
  ASSUME NEW e \in Data!Entry
  PROVE  AsSound(e, [e EXCEPT !.on = FALSE])
<1> DEFINE f == Data!Used(e, FALSE)
<1>1. f = [e EXCEPT !.on = FALSE]
  BY DEF Data!Used
<1>2. /\ f \in Data!Entry /\ f.on = FALSE /\ f.has = e.has
      /\ f.seen = e.seen /\ f.invalid = e.invalid /\ f.err = e.err
      /\ f.phase = e.phase /\ f.got = e.got
  BY UsedEntry
<1> HIDE DEF f
<1> QED
  BY <1>1, <1>2 DEF AsSound, Sound

\* Coming to use an entry fetches it when it is missing or out of date.
LEMMA MountedAsSound ==
  ASSUME NEW e \in Data!Entry
  PROVE  AsSound(e, Data!Mounted(e, FALSE))
<1> DEFINE u == Data!Used(e, TRUE)
           f == Data!Mounted(e, FALSE)
<1>1. /\ u \in Data!Entry /\ u.on = TRUE /\ u.has = e.has
      /\ u.seen = e.seen /\ u.invalid = e.invalid /\ u.err = e.err
      /\ u.phase = e.phase /\ u.got = e.got
  BY UsedEntry
<1>2. CASE e.phase = "idle" /\ (~e.has \/ e.invalid)
  <2>1. f = Data!Asked(u)
    BY <1>2 DEF Data!Mounted
  <2> HIDE DEF u, f
  <2>2. f \in Data!Entry /\ f.phase = "asked"
    BY <1>1, <2>1, AskedEntry
  <2> QED
    BY <2>2 DEF AsSound, f
<1>3. CASE ~(e.phase = "idle" /\ (~e.has \/ e.invalid))
  <2>1. f = u
    BY <1>3 DEF Data!Mounted
  <2> HIDE DEF u, f
  <2>2. AsSound(e, f)
    BY <1>1, <1>3, <2>1 DEF AsSound, Sound
  <2> QED
    BY <2>2 DEF f
<1> QED
  BY <1>2, <1>3

\* A fetch under way is sound.
LEMMA AskedAsSound ==
  ASSUME NEW e \in Data!Entry
  PROVE  AsSound(e, Data!Asked(e))
BY AskedEntry DEF AsSound

\* An entry that stays as it is stays sound.
LEMMA SameAsSound ==
  ASSUME NEW e \in Data!Entry
  PROVE  AsSound(e, e)
BY DEF AsSound

\* The entries of a page that was loaded anew are sound.
LEMMA AbsentAsSound ==
  ASSUME NEW e
  PROVE  AsSound(e, Data!Absent)
BY DEF AsSound, Sound, Data!Absent, Data!Entry

-----------------------------------------------------------------------------
(* The data of a page.                                                     *)

SentBy(s) == {ActsOf(s)[a].sends : a \in DOMAIN ActsOf(s)}

\* The types of the data; what is watched is shown on some screen, what is
\* sent belongs to an act, and no promise is newer than the server's data.
DataTypes ==
  /\ home \in AllScreens
  /\ DOMAIN cache \subseteq OnPages
  /\ rev \in [DOMAIN cache -> Nat]
  /\ cache \in [DOMAIN cache -> Data!Entry]
  /\ told \in [DOMAIN cache -> Nat]
  /\ made \in Nat
  /\ calls \subseteq [id : Nat, m : SentBy(home), state : {"sent", "done"},
                      at : [DOMAIN cache -> Nat]]
  /\ \A q \in DOMAIN cache : told[q] <= rev[q]
  /\ \A c \in calls : \A q \in DOMAIN cache : c.at[q] <= rev[q]

SoundCache == \A q \in DOMAIN cache : Sound(cache[q], told[q], q \in overtaken)

DataInv == DataTypes /\ SoundCache

\* Nothing happens to the data.
LEMMA DataStays ==
  ASSUME DataInv, UNCHANGED <<cachevars, home>>
  PROVE  DataInv'
BY DEF DataInv, DataTypes, SoundCache, Sound, cachevars

\* Components come and go, and fetches begin.
LEMMA ShowsStep ==
  ASSUME DataInv, NEW entries \in [DOMAIN cache -> Data!Entry],
         \A q \in DOMAIN cache : AsSound(cache[q], entries[q]),
         Data!Shows(entries), UNCHANGED home
  PROVE  DataInv'
<1>1. /\ cache' = entries /\ DOMAIN cache' = DOMAIN cache
      /\ UNCHANGED <<rev, calls, made, told>>
      /\ overtaken' = {q \in overtaken : ~Data!Begins(q, entries)}
  BY DEF Data!Shows
<1>2. DataTypes'
  BY <1>1 DEF DataInv, DataTypes
<1>3. ASSUME NEW q \in DOMAIN cache
      PROVE  Sound(entries[q], told[q], q \in overtaken')
  <2>1. /\ AsSound(cache[q], entries[q]) /\ told[q] \in Nat
        /\ Sound(cache[q], told[q], q \in overtaken)
    BY DEF DataInv, DataTypes, SoundCache
  <2>2. CASE entries[q].phase = "asked"
    BY <2>2 DEF Sound
  <2>3. CASE entries[q].phase # "asked"
    <3>1. (q \in overtaken') = (q \in overtaken)
      BY <1>1, <2>3 DEF Data!Begins
    <3>2. (q \in overtaken) \in BOOLEAN
      OBVIOUS
    <3>3. Sound(entries[q], told[q], q \in overtaken)
      BY <2>1, <2>3, <3>2 DEF AsSound
    <3> QED
      BY <3>1, <3>3
  <2> QED
    BY <2>2, <2>3
<1> QED
  BY <1>1, <1>2, <1>3 DEF DataInv, SoundCache

\* A fetch goes on or ends.
LEMMA FetchStep ==
  ASSUME DataInv, NEW q \in DOMAIN cache, NEW e \in Data!Entry,
         cache' = [cache EXCEPT ![q] = e], Sound(e, told[q], q \in overtaken),
         UNCHANGED <<rev, calls, made, told, overtaken, home>>
  PROVE  DataInv'
<1>1. /\ DOMAIN cache' = DOMAIN cache
      /\ \A r \in DOMAIN cache : cache'[r] = IF r = q THEN e ELSE cache[r]
      /\ cache' \in [DOMAIN cache -> Data!Entry]
  BY DEF DataInv, DataTypes
<1>2. DataTypes'
  BY <1>1 DEF DataInv, DataTypes
<1>3. \A r \in DOMAIN cache : Sound(cache'[r], told[r], r \in overtaken)
  BY <1>1 DEF DataInv, SoundCache
<1> QED
  BY <1>1, <1>2, <1>3 DEF DataInv, SoundCache

\* The answer of a fetch arrives.
LEMMA ArrivesStep ==
  ASSUME DataInv, NEW q \in DOMAIN cache, Data!Arrives(q), UNCHANGED home
  PROVE  DataInv'
<1> DEFINE f == Data!Received(cache[q])
<1>1. /\ cache[q] \in Data!Entry
      /\ Sound(cache[q], told[q], q \in overtaken)
      /\ cache[q].phase = "read"
  BY DEF DataInv, DataTypes, SoundCache, Data!Arrives
<1>2. f \in Data!Entry /\ f.phase = "idle" /\ f.seen = cache[q].got
  BY <1>1, ReceivedEntry
<1>3. /\ cache' = [cache EXCEPT ![q] = f]
      /\ UNCHANGED <<rev, calls, made, told, overtaken>>
  BY DEF Data!Arrives
<1> HIDE DEF f
<1>4. Sound(f, told[q], q \in overtaken)
  BY <1>1, <1>2 DEF Sound
<1> QED
  BY <1>2, <1>3, <1>4, FetchStep

\* A fetch fails, and the screen shows the error.
LEMMA FetchFailsStep ==
  ASSUME DataInv, NEW q \in DOMAIN cache, Data!FetchFails(q), UNCHANGED home
  PROVE  DataInv'
<1> DEFINE f == Data!Failed(cache[q])
<1>1. cache[q] \in Data!Entry
  BY DEF DataInv, DataTypes
<1>2. f \in Data!Entry /\ f.phase = "idle" /\ f.err = TRUE
  BY <1>1, FailedEntry
<1>3. /\ cache' = [cache EXCEPT ![q] = f]
      /\ UNCHANGED <<rev, calls, made, told, overtaken>>
  BY DEF Data!FetchFails
<1> HIDE DEF f
<1>4. Sound(f, told[q], q \in overtaken)
  BY <1>2 DEF Sound
<1> QED
  BY <1>2, <1>3, <1>4, FetchStep

\* The server reads for a fetch, and no promise is newer than that.
LEMMA ServerReadsStep ==
  ASSUME DataInv, NEW q \in DOMAIN cache, Data!ServerReads(q), UNCHANGED home
  PROVE  DataInv'
<1> DEFINE f == Data!Read(cache[q], rev[q])
<1>1. cache[q] \in Data!Entry /\ rev[q] \in Nat /\ told[q] <= rev[q]
      /\ told[q] \in Nat
  BY DEF DataInv, DataTypes
<1>2. f \in Data!Entry /\ f.phase = "read" /\ f.got = rev[q]
  BY <1>1, ReadEntry
<1>3. /\ cache' = [cache EXCEPT ![q] = f]
      /\ UNCHANGED <<rev, calls, made, told, overtaken>>
  BY DEF Data!ServerReads
<1> HIDE DEF f
<1>4. Sound(f, told[q], q \in overtaken)
  BY <1>1, <1>2 DEF Sound
<1> QED
  BY <1>2, <1>3, <1>4, FetchStep

\* A poll fetches what is on the screen.
LEMMA RefreshStep ==
  ASSUME DataInv, NEW q \in DOMAIN cache, Data!Refresh(q), UNCHANGED home
  PROVE  DataInv'
<1> DEFINE f == Data!Asked(cache[q])
           entries == [cache EXCEPT ![q] = f]
<1>1. \A r \in DOMAIN cache : cache[r] \in Data!Entry
  BY DEF DataInv, DataTypes
<1>2. f \in Data!Entry /\ AsSound(cache[q], f)
  BY <1>1, AskedEntry, AskedAsSound
<1>3. Data!Shows(entries)
  BY DEF Data!Refresh
<1> HIDE DEF f
<1>4. entries \in [DOMAIN cache -> Data!Entry]
  BY <1>1, <1>2 DEF DataInv, DataTypes
<1>5. ASSUME NEW r \in DOMAIN cache
      PROVE  AsSound(cache[r], entries[r])
  <2>1. AsSound(cache[r], cache[r])
    BY <1>1, SameAsSound
  <2>2. entries[r] = IF r = q THEN f ELSE cache[r]
    BY DEF DataInv, DataTypes
  <2> QED
    BY <1>2, <2>1, <2>2
<1> HIDE DEF entries
<1> QED
  BY <1>3, <1>4, <1>5, ShowsStep

\* A request is sent.
LEMMA SendStep ==
  ASSUME DataInv, NEW m \in SentBy(home), Data!Send(m), UNCHANGED home
  PROVE  DataInv'
<1> DEFINE none == [q \in DOMAIN cache |-> 0]
           d == [id |-> made + 1, m |-> m, state |-> "sent", at |-> none]
<1>1. none \in [DOMAIN cache -> Nat] /\ \A q \in DOMAIN cache : none[q] = 0
  OBVIOUS
<1>2. /\ calls' = calls \cup {d} /\ made' = made + 1
      /\ UNCHANGED <<rev, cache, told, overtaken>>
  BY DEF Data!Send
<1> HIDE DEF none
<1>3. /\ d \in [id : Nat, m : SentBy(home), state : {"sent", "done"},
                at : [DOMAIN cache -> Nat]]
      /\ d.at = none
  BY <1>1 DEF DataInv, DataTypes
<1> HIDE DEF d
<1>4. \A q \in DOMAIN cache : d.at[q] <= rev[q]
  BY <1>1, <1>3 DEF DataInv, DataTypes
<1>5. DataTypes'
  BY <1>2, <1>3, <1>4 DEF DataInv, DataTypes
<1>6. SoundCache'
  BY <1>2 DEF DataInv, SoundCache, Sound
<1> QED
  BY <1>5, <1>6 DEF DataInv

\* The revisions grow, and the answer carries those of its commit.
LEMMA CommitStep ==
  ASSUME DataInv, NEW c \in calls, Data!Commit(c), UNCHANGED home
  PROVE  DataInv'
<1> DEFINE d == [c EXCEPT !.state = "done", !.at = rev']
<1>1. rev \in [DOMAIN cache -> Nat]
  BY DEF DataInv, DataTypes
<1>2. /\ rev' \in [DOMAIN cache -> Nat]
      /\ \A q \in DOMAIN cache : rev[q] <= rev'[q]
  BY <1>1 DEF Data!Commit
<1>3. /\ calls' = (calls \ {c}) \cup {d}
      /\ UNCHANGED <<cache, made, told, overtaken>>
  BY DEF Data!Commit, Data!Becomes
<1>4. c \in [id : Nat, m : SentBy(home), state : {"sent", "done"},
             at : [DOMAIN cache -> Nat]]
  BY DEF DataInv, DataTypes
<1>5. /\ d \in [id : Nat, m : SentBy(home), state : {"sent", "done"},
                at : [DOMAIN cache -> Nat]]
      /\ d.at = rev'
  BY <1>2, <1>4
<1> HIDE DEF d
<1>6. calls' \subseteq [id : Nat, m : SentBy(home), state : {"sent", "done"},
                        at : [DOMAIN cache -> Nat]]
  BY <1>3, <1>5 DEF DataInv, DataTypes
<1>7. \A q \in DOMAIN cache : told[q] <= rev'[q]
  BY <1>1, <1>2 DEF DataInv, DataTypes
<1>8. ASSUME NEW b \in calls', NEW q \in DOMAIN cache
      PROVE  b.at[q] <= rev'[q]
  <2>1. CASE b = d
    BY <1>2, <1>5, <2>1
  <2>2. CASE b \in calls
    <3>1. b.at[q] \in Nat /\ b.at[q] <= rev[q]
      BY <2>2 DEF DataInv, DataTypes
    <3> QED
      BY <1>1, <1>2, <3>1
  <2> QED
    BY <1>3, <2>1, <2>2
<1>9. DataTypes'
  BY <1>2, <1>3, <1>6, <1>7, <1>8 DEF DataInv, DataTypes
<1>10. SoundCache'
  BY <1>3 DEF DataInv, SoundCache, Sound
<1> QED
  BY <1>9, <1>10 DEF DataInv

\* A request fails, and promises nothing.
LEMMA CallFailsStep ==
  ASSUME DataInv, NEW c \in calls, Data!CallFails(c), UNCHANGED home
  PROVE  DataInv'
<1>1. DataTypes'
  BY DEF DataInv, DataTypes, Data!CallFails
<1>2. SoundCache'
  BY DEF DataInv, SoundCache, Sound, Data!CallFails
<1> QED
  BY <1>1, <1>2 DEF DataInv

\* What the answer makes of an entry.
LEMMA SettledEntry ==
  ASSUME DataInv, NEW c \in calls, NEW q \in DOMAIN cache
  PROVE  LET e == cache[q]
             s == Data!Settled(q, c)
         IN /\ s \in Data!Entry
            /\ s.seen = IF q \in ReplacesOf[c.m] THEN c.at[q] ELSE e.seen
            /\ e.has => s.has
            /\ s.err => e.err
            /\ \/ s.phase = "asked" /\ q \in RefreshesOf[c.m]
               \/ /\ s.phase = e.phase /\ s.got = e.got
                  /\ (q \in RefreshesOf[c.m] /\ e.phase = "idle")
                        => ~s.on /\ s.invalid = TRUE
                  /\ q \notin RefreshesOf[c.m] \cup ReplacesOf[c.m] => s = e
            /\ s.phase = "read" =>
                  \/ q \notin RefreshesOf[c.m] \/ ~e.on
                  \/ (~e.has /\ q \notin ReplacesOf[c.m])
<1> DEFINE e == cache[q]
           r == Data!Replaced(e, c.at[q])
           f == IF q \in ReplacesOf[c.m] THEN r ELSE e
           s == Data!Settled(q, c)
           i == Data!Invalidated(f)
<1>1. e \in Data!Entry /\ c.at[q] \in Nat
  BY DEF DataInv, DataTypes
<1>2. /\ r \in Data!Entry /\ r.on = e.on /\ r.has = TRUE
      /\ r.seen = c.at[q] /\ r.err = FALSE
      /\ r.phase = e.phase /\ r.got = e.got
  BY <1>1, ReplacedEntry
<1>3. /\ f \in Data!Entry /\ f.on = e.on /\ f.phase = e.phase /\ f.got = e.got
      /\ f.seen = IF q \in ReplacesOf[c.m] THEN c.at[q] ELSE e.seen
      /\ (e.has => f.has) /\ (f.err => e.err)
      /\ q \notin ReplacesOf[c.m] => f = e
      /\ q \in ReplacesOf[c.m] => f.has
  BY <1>1, <1>2
<1>4. /\ i \in Data!Entry /\ i.on = f.on /\ i.has = f.has
      /\ i.seen = f.seen /\ i.err = f.err
      /\ \/ i.phase = "asked"
         \/ /\ i.phase = f.phase /\ i.got = f.got
            /\ f.phase = "idle" => ~f.on /\ i.invalid = TRUE
      /\ (f.on /\ f.has) => i.phase = "asked"
  BY <1>3, InvalidatedEntry
<1>5. s = IF q \in RefreshesOf[c.m] THEN i ELSE f
  BY DEF Data!Settled
<1> HIDE DEF r, f, i, s
<1>6. /\ s \in Data!Entry
      /\ s.seen = IF q \in ReplacesOf[c.m] THEN c.at[q] ELSE e.seen
      /\ (e.has => s.has) /\ (s.err => e.err)
      /\ \/ s.phase = "asked" /\ q \in RefreshesOf[c.m]
         \/ /\ s.phase = e.phase /\ s.got = e.got
            /\ (q \in RefreshesOf[c.m] /\ e.phase = "idle")
                  => ~s.on /\ s.invalid = TRUE
            /\ q \notin RefreshesOf[c.m] \cup ReplacesOf[c.m] => s = e
      /\ s.phase = "read" =>
            \/ q \notin RefreshesOf[c.m] \/ ~e.on
            \/ (~e.has /\ q \notin ReplacesOf[c.m])
  <2>1. CASE q \in RefreshesOf[c.m]
    BY <1>3, <1>4, <1>5, <2>1
  <2>2. CASE q \notin RefreshesOf[c.m]
    BY <1>3, <1>5, <2>2
  <2> QED
    BY <2>1, <2>2
<1> QED
  BY <1>6 DEF s

\* What is settled is as new as what the answer promises, or overtaken.
LEMMA SettledSound ==
  ASSUME DataInv, NEW c \in calls, NEW q \in DOMAIN cache,
         NEW t \in Nat,
         t = IF /\ q \in AffectsOf[c.m] /\ <<c.m, q>> \notin KnownGaps
                /\ c.at[q] > told[q]
             THEN c.at[q] ELSE told[q]
  PROVE  Sound(Data!Settled(q, c), t,
               q \in overtaken \/ Data!Overtakes(q, c))
<1> DEFINE e == cache[q]
           s == Data!Settled(q, c)
           lost == q \in overtaken \/ Data!Overtakes(q, c)
<1>1. /\ e \in Data!Entry /\ told[q] \in Nat /\ c.at[q] \in Nat
      /\ Sound(e, told[q], q \in overtaken)
  BY DEF DataInv, DataTypes, SoundCache
<1>2. /\ s \in Data!Entry
      /\ s.seen = IF q \in ReplacesOf[c.m] THEN c.at[q] ELSE e.seen
      /\ \/ s.phase = "asked" /\ q \in RefreshesOf[c.m]
         \/ /\ s.phase = e.phase /\ s.got = e.got
            /\ (q \in RefreshesOf[c.m] /\ e.phase = "idle")
                  => ~s.on /\ s.invalid = TRUE
            /\ q \notin RefreshesOf[c.m] \cup ReplacesOf[c.m] => s = e
      /\ s.phase = "read" =>
            \/ q \notin RefreshesOf[c.m] \/ ~e.on
            \/ (~e.has /\ q \notin ReplacesOf[c.m])
  BY SettledEntry
<1>3. PICK a \in DOMAIN ActsOf(home) : c.m = ActsOf(home)[a].sends
  BY DEF DataInv, DataTypes, SentBy
<1>4. q \in AffectsOf[c.m] /\ <<c.m, q>> \notin KnownGaps
         => q \in RefreshesOf[c.m] \cup ReplacesOf[c.m]
  <2>1. q \in OnPages /\ home \in AllScreens
    BY DEF DataInv, DataTypes
  <2> QED
    BY <1>3, <2>1, CatalogueAssumption DEF KeysCover
<1>5. s.phase = "read" /\ q \in AffectsOf[c.m] /\ e.got < c.at[q] => lost
  BY <1>2 DEF Data!Overtakes, Data!Entry
<1>6. q \in ReplacesOf[c.m] \ RefreshesOf[c.m] /\ c.at[q] < told[q] => lost
  BY DEF Data!Overtakes
<1> HIDE DEF s, lost
<1>7. CASE s.phase = "read"
  <2>1. e.phase = "read" /\ s.got = e.got /\ e.got \in Nat
    BY <1>1, <1>2, <1>7 DEF Data!Entry
  <2>2. lost \/ e.got >= told[q]
    BY <1>1, <2>1 DEF Sound, lost
  <2>3. lost \/ s.got >= t
    BY <1>1, <1>5, <1>7, <2>1, <2>2
  <2> QED
    BY <1>7, <2>3 DEF Sound, s, lost
<1>8. CASE s.phase = "idle"
  <2>1. e.phase = "idle" /\ e.seen \in Nat
    BY <1>1, <1>2, <1>8 DEF Data!Entry
  <2>2. CASE q \in RefreshesOf[c.m]
    <3>1. ~s.on /\ s.invalid = TRUE
      BY <1>2, <1>8, <2>1, <2>2
    <3> QED
      BY <1>8, <3>1 DEF Sound, s, lost
  <2>3. CASE q \in ReplacesOf[c.m] \ RefreshesOf[c.m]
    <3>1. lost \/ s.seen >= t
      BY <1>1, <1>2, <1>6, <2>3
    <3> QED
      BY <1>8, <3>1 DEF Sound, s, lost
  <2>4. CASE q \notin RefreshesOf[c.m] \cup ReplacesOf[c.m]
    <3>1. s = e
      BY <1>2, <1>8, <2>4
    <3>2. t = told[q]
      BY <1>4, <2>4
    <3>3. \/ e.err \/ lost \/ e.seen >= told[q]
          \/ ~e.on /\ (e.invalid \/ ~e.has)
      BY <1>1, <2>1 DEF Sound, lost
    <3> QED
      BY <1>8, <3>1, <3>2, <3>3 DEF Sound, s, lost
  <2> QED
    BY <2>2, <2>3, <2>4
<1>9. CASE s.phase = "asked"
  BY <1>9 DEF Sound, s
<1> QED
  BY <1>2, <1>7, <1>8, <1>9 DEF Data!Entry

\* An answer, with the entries that its screen makes of what is settled.
LEMMA AnswerStep ==
  ASSUME DataInv, NEW c \in calls,
         NEW entries \in [DOMAIN cache -> Data!Entry],
         \A q \in DOMAIN cache : AsSound(Data!Settled(q, c), entries[q]),
         Data!AnswerThen(c, entries), UNCHANGED home
  PROVE  DataInv'
<1>1. /\ calls' = calls \ {c} /\ cache' = entries
      /\ DOMAIN cache' = DOMAIN cache
      /\ told' = [q \in DOMAIN cache |->
                    IF /\ q \in AffectsOf[c.m] /\ <<c.m, q>> \notin KnownGaps
                       /\ c.at[q] > told[q]
                    THEN c.at[q] ELSE told[q]]
      /\ overtaken' =
           {q \in overtaken \cup {r \in DOMAIN cache : Data!Overtakes(r, c)} :
              ~Data!Begins(q, entries)}
      /\ UNCHANGED <<rev, made>>
  BY DEF Data!AnswerThen, DataInv, DataTypes
<1>2. ASSUME NEW q \in DOMAIN cache
      PROVE  /\ told'[q] \in Nat /\ told'[q] <= rev[q]
             /\ told'[q] = IF /\ q \in AffectsOf[c.m]
                              /\ <<c.m, q>> \notin KnownGaps
                              /\ c.at[q] > told[q]
                           THEN c.at[q] ELSE told[q]
  BY <1>1 DEF DataInv, DataTypes
<1>3. DataTypes'
  <2>1. told' \in [DOMAIN cache -> Nat]
    BY <1>1, <1>2
  <2> QED
    BY <1>1, <1>2, <2>1 DEF DataInv, DataTypes
<1>4. ASSUME NEW q \in DOMAIN cache
      PROVE  Sound(entries[q], told'[q], q \in overtaken')
  <2> DEFINE lost == q \in overtaken \/ Data!Overtakes(q, c)
             s == Data!Settled(q, c)
  <2>1. Sound(s, told'[q], lost)
    BY <1>2, SettledSound
  <2>2. CASE entries[q].phase = "asked"
    BY <2>2 DEF Sound
  <2>3. CASE entries[q].phase # "asked"
    <3>1. lost => q \in overtaken'
      BY <1>1, <2>3 DEF Data!Begins
    <3>2. lost \in BOOLEAN
      BY DEF Data!Overtakes
    <3> HIDE DEF lost
    <3>3. Sound(entries[q], told'[q], lost)
      BY <1>2, <2>1, <2>3, <3>2 DEF AsSound
    <3> QED
      BY <3>1, <3>3 DEF Sound
  <2> QED
    BY <2>2, <2>3
<1> QED
  BY <1>1, <1>3, <1>4 DEF DataInv, SoundCache

\* Soundness goes from entry to entry.
LEMMA AsSoundChain ==
  ASSUME NEW d, NEW e, NEW f, AsSound(d, e), AsSound(e, f)
  PROVE  AsSound(d, f)
BY DEF AsSound, Sound

\* The screen that a form leads to.
LEMMA LandedEntries ==
  ASSUME NEW D, NEW entries \in [D -> Data!Entry], NEW s
  PROVE  /\ Landed(s, entries) \in [D -> Data!Entry]
         /\ \A q \in D : AsSound(entries[q], Landed(s, entries)[q])
<1>1. ASSUME NEW q \in D
      PROVE  AsSound(entries[q], Landed(s, entries)[q])
  <2>1. Landed(s, entries)[q] =
          IF q \notin Reads(s) THEN [entries[q] EXCEPT !.on = FALSE]
          ELSE IF entries[q].on THEN entries[q]
          ELSE Data!Mounted(entries[q], FALSE)
    BY DEF Landed
  <2> QED
    BY <2>1, LeftAsSound, SameAsSound, MountedAsSound
<1>2. \A q \in D : Landed(s, entries)[q] \in Data!Entry
  BY <1>1 DEF AsSound
<1> QED
  BY <1>1, <1>2 DEF Landed

\* The first entries are fetched or had by an earlier screen.
LEMMA FreshEntry ==
  ASSUME NEW on \in BOOLEAN, NEW had \in BOOLEAN
  PROVE  LET e == Data!Fresh(on, had)
         IN /\ e \in Data!Entry /\ Sound(e, 0, FALSE)
            /\ e.has = had /\ e.err = FALSE /\ e.on = on
            /\ e.phase = IF on /\ ~had THEN "asked" ELSE "idle"
<1>1. PICK e : e = Data!Fresh(on, had)
  OBVIOUS
<1>2. e = [on |-> on, has |-> had, seen |-> 0, invalid |-> FALSE,
           err |-> FALSE, phase |-> IF on /\ ~had THEN "asked" ELSE "idle",
           got |-> 0]
  BY <1>1 DEF Data!Fresh, Data!Absent
<1>3. e \in Data!Entry
  BY <1>2 DEF Data!Entry
<1>4. /\ e.has = had /\ e.err = FALSE /\ e.on = on /\ e.seen = 0
      /\ e.phase = IF on /\ ~had THEN "asked" ELSE "idle"
  BY <1>2, Zenon
<1>5. Sound(e, 0, FALSE)
  BY <1>4 DEF Sound
<1> QED
  BY <1>1, <1>3, <1>4, <1>5

\* What a screen reads is read on some page.
LEMMA ReadsOnPages ==
  ASSUME NEW s
  PROVE  Reads(s) \subseteq OnPages
<1>1. CASE s \notin DOMAIN Screenful
  BY <1>1 DEF Reads
<1>2. CASE s \in DOMAIN Screenful
  <2>1. Screenful[s].within \in AllScreens \cup {""}
    BY <1>2, CatalogueAssumption DEF PagesLinked, AllScreens
  <2> QED
    BY <1>2, <2>1 DEF Reads, OnPages, AllScreens
<1> QED
  BY <1>1, <1>2

\* What a behaviour watches is read on some page.
LEMMA WatchedOnPages ==
  ASSUME NEW s \in AllScreens, NEW W \in WatchesOf(s)
  PROVE  W \subseteq OnPages
<1>1. Near(s) \subseteq OnPages
  BY ReadsOnPages DEF Near
<1>2. OnScreens \subseteq OnPages
  BY ReadsOnPages DEF OnScreens
<1>3. W \subseteq Near(s) \/ W \subseteq OnScreens
  BY DEF WatchesOf
<1> QED
  BY <1>1, <1>2, <1>3

\* The first screen is sound.
LEMMA DataInit == Init => DataInv
<1> SUFFICES ASSUME Init PROVE DataInv
  OBVIOUS
<1>0. PICK s \in Watched :
         /\ \E W \in WatchesOf(s) :
               Data!CacheInit(W, W \cap Reads(s), W \ Reads(s))
         /\ home = s
  BY DEF Init
<1>1. PICK W \in WatchesOf(s) :
         Data!CacheInit(W, W \cap Reads(s), W \ Reads(s))
  BY <1>0
<1>2. home = s /\ s \in AllScreens
  BY <1>0, ScreensAssumption DEF AllScreens
<1> DEFINE first(q) == Data!Fresh(q \in W \cap Reads(s), q \in W \ Reads(s))
<1>3. ASSUME NEW q \in W
      PROVE  first(q) \in Data!Entry /\ Sound(first(q), 0, FALSE)
  <2>1. (q \in W \cap Reads(s)) \in BOOLEAN /\ (q \in W \ Reads(s)) \in BOOLEAN
    OBVIOUS
  <2> QED
    BY <2>1, FreshEntry
<1>4. /\ cache = [q \in W |-> first(q)]
      /\ rev = [q \in W |-> 0] /\ told = [q \in W |-> 0]
      /\ calls = {} /\ made = 0 /\ overtaken = {}
  BY <1>1 DEF Data!CacheInit
<1> HIDE DEF first
<1>5. DOMAIN cache = W /\ \A q \in W : cache[q] = first(q)
  BY <1>4
<1>6. W \subseteq OnPages
  BY <1>2, WatchedOnPages
<1>7. DataTypes
  <2>1. cache \in [DOMAIN cache -> Data!Entry]
    BY <1>3, <1>4, <1>5
  <2>2. /\ rev \in [DOMAIN cache -> Nat] /\ told \in [DOMAIN cache -> Nat]
        /\ \A q \in DOMAIN cache : told[q] <= rev[q]
    BY <1>4, <1>5
  <2> QED
    BY <1>2, <1>4, <1>5, <1>6, <2>1, <2>2 DEF DataTypes
<1>8. SoundCache
  BY <1>3, <1>4, <1>5 DEF SoundCache, Sound
<1> QED
  BY <1>7, <1>8 DEF DataInv

\* Where the user goes.
LEMMA GoElsewhereData ==
  ASSUME DataInv, NEW Q, GoElsewhere(Q)
  PROVE  DataInv'
<1> DEFINE new(q) == IF q \in Q THEN Data!Mounted(cache[q], FALSE)
                     ELSE [cache[q] EXCEPT !.on = FALSE]
           entries == [q \in DOMAIN cache |-> new(q)]
<1>1. ASSUME NEW q \in DOMAIN cache
      PROVE  AsSound(cache[q], new(q))
  <2>1. cache[q] \in Data!Entry
    BY DEF DataInv, DataTypes
  <2> QED
    BY <2>1, LeftAsSound, MountedAsSound
<1>2. Data!Shows(entries) /\ UNCHANGED home
  BY DEF GoElsewhere
<1> HIDE DEF new
<1>3. entries \in [DOMAIN cache -> Data!Entry]
  BY <1>1 DEF AsSound
<1>4. \A q \in DOMAIN cache : AsSound(cache[q], entries[q])
  BY <1>1
<1> HIDE DEF entries
<1> QED
  BY <1>2, <1>3, <1>4, ShowsStep

\* An answer on any screen: the entries it leads to, and those it settles.
LEMMA AnswerData ==
  ASSUME DataInv, NEW c \in calls, Answer(c)
  PROVE  DataInv'
<1> DEFINE settled == [q \in DOMAIN cache |-> Data!Settled(q, c)]
           nothing == [q \in DOMAIN cache |-> Data!Absent]
           to == Acts[job[c.id].act].to
<1>1. /\ settled \in [DOMAIN cache -> Data!Entry]
      /\ \A q \in DOMAIN cache : settled[q] = Data!Settled(q, c)
  BY SettledEntry
<1>2. /\ nothing \in [DOMAIN cache -> Data!Entry]
      /\ \A q \in DOMAIN cache : AsSound(settled[q], nothing[q])
  BY AbsentAsSound DEF AsSound
<1>3. UNCHANGED home
  BY DEF Answer
<1>4. \/ Data!AnswerThen(c, Landed(to, settled))
      \/ Data!AnswerThen(c, Landed(to, nothing))
      \/ Data!AnswerThen(c, settled)
  BY DEF Answer
<1> HIDE DEF settled, nothing, to
<1>5. CASE Data!AnswerThen(c, Landed(to, settled))
  <2>1. /\ Landed(to, settled) \in [DOMAIN cache -> Data!Entry]
        /\ \A q \in DOMAIN cache :
              AsSound(Data!Settled(q, c), Landed(to, settled)[q])
    BY <1>1, LandedEntries
  <2> QED
    BY <1>3, <1>5, <2>1, AnswerStep
<1>6. CASE Data!AnswerThen(c, Landed(to, nothing))
  <2>1. /\ Landed(to, nothing) \in [DOMAIN cache -> Data!Entry]
        /\ \A q \in DOMAIN cache : AsSound(nothing[q], Landed(to, nothing)[q])
    BY <1>2, LandedEntries
  <2>2. \A q \in DOMAIN cache :
           AsSound(Data!Settled(q, c), Landed(to, nothing)[q])
    BY <1>1, <1>2, <2>1, AsSoundChain
  <2> QED
    BY <1>3, <1>6, <2>1, <2>2, AnswerStep
<1>7. CASE Data!AnswerThen(c, settled)
  <2>1. \A q \in DOMAIN cache : AsSound(Data!Settled(q, c), settled[q])
    BY <1>1, SameAsSound
  <2> QED
    BY <1>1, <1>3, <1>7, <2>1, AnswerStep
<1> QED
  BY <1>4, <1>5, <1>6, <1>7

\* Every step keeps the data sound.
LEMMA DataNext ==
  ASSUME DataInv, [Next]_vars
  PROVE  DataInv'
<1>1. ASSUME NEW a \in DOMAIN Acts, Open(a)
      PROVE  DataInv'
  BY <1>1, DataStays DEF Open
<1>2. ASSUME NEW a \in DOMAIN Acts, Submit(a)
      PROVE  DataInv'
  <2>1. Acts[a].sends \in SentBy(home)
    BY DEF SentBy, ActsOf, Acts, Here
  <2>2. Data!Send(Acts[a].sends) /\ UNCHANGED home
    BY <1>2 DEF Submit, Sends
  <2> QED
    BY <2>1, <2>2, SendStep
<1>3. ASSUME NEW l \in DOMAIN slot, Edit(l) \/ Cancel(l)
      PROVE  DataInv'
  BY <1>3, DataStays DEF Edit, Cancel
<1>4. ASSUME NEW Q, GoElsewhere(Q)
      PROVE  DataInv'
  BY <1>4, GoElsewhereData
<1>5. ASSUME NEW q \in DOMAIN cache, Fetching(q) \/ Background(q)
      PROVE  DataInv'
  BY <1>5, ArrivesStep, FetchFailsStep, ServerReadsStep, RefreshStep
     DEF Fetching, Background, uivars
<1>6. ASSUME NEW c \in calls, Commit(c) \/ CallFails(c) \/ Answer(c)
      PROVE  DataInv'
  BY <1>6, CommitStep, CallFailsStep, AnswerData DEF Commit, CallFails
<1>7. ASSUME UNCHANGED vars
      PROVE  DataInv'
  BY <1>7, DataStays DEF vars, uivars
<1> QED
  BY <1>1, <1>2, <1>3, <1>4, <1>5, <1>6, <1>7 DEF Next

\* The data is sound in every behaviour.
LEMMA DataInvariant == Spec => []DataInv
<1>1. DataInv /\ [Next]_vars => DataInv'
  BY DataNext
<1> QED
  BY <1>1, DataInit, PTL DEF Spec

\* A screen that fetches nothing shows what the user did there, and so does
\* the screen that a form leads to, for any number of requests.
THEOREM ShowsOwnWork == Spec => []ScreensShowOwnWork
<1>1. DataInv => ScreensShowOwnWork
  BY DEF DataInv, SoundCache, Sound, ScreensShowOwnWork, Data!ReadYourWrites
<1> QED
  BY <1>1, DataInvariant, PTL

-----------------------------------------------------------------------------
(* The slots: the forms of a screen.                                       *)

SlotRec(s) == [n : Nat, act : DOMAIN ActsOf(s) \cup {""}, since : Nat,
               dirty : BOOLEAN, old : BOOLEAN]

\* The types of the forms; only the screen at home has any.
SlotTypes ==
  /\ home \in AllScreens
  /\ opens \in Nat \ {0} /\ made \in Nat
  /\ slot \in [DOMAIN slot -> SlotRec(home)]
  /\ DOMAIN slot = IF AtHome THEN SlotsOf(home) ELSE {}
  /\ \A l \in DOMAIN slot : slot[l].n <= opens /\ slot[l].since <= made

\* A form that is shut keeps its mounting, and what was typed at most.
LEMMA ShutSlot ==
  ASSUME NEW x \in SlotRec(home)
  PROVE  /\ Shut(x) \in SlotRec(home) /\ Shut(x).n = 0
         /\ Shut(x).since = x.since
         /\ Shut(x).dirty => x.dirty
         /\ Shut(x).old => x.old
<1>1. CASE x.act # "" /\ Acts[x.act].seed = "kept"
  <2>1. PICK y : y = [x EXCEPT !.n = 0]
    OBVIOUS
  <2>2. y = Shut(x)
    BY <1>1, <2>1 DEF Shut
  <2>3. /\ y \in SlotRec(home) /\ y.n = 0 /\ y.since = x.since
        /\ y.dirty = x.dirty /\ y.old = x.old
    BY <2>1 DEF SlotRec
  <2> QED
    BY <2>2, <2>3
<1>2. CASE ~(x.act # "" /\ Acts[x.act].seed = "kept")
  <2>1. PICK y : y = [Closed EXCEPT !.since = x.since]
    OBVIOUS
  <2>2. y = Shut(x)
    BY <1>2, <2>1 DEF Shut
  <2>3. /\ y \in SlotRec(home) /\ y.n = 0 /\ y.since = x.since
        /\ y.dirty = FALSE /\ y.old = FALSE
    BY <2>1 DEF SlotRec, Closed
  <2> QED
    BY <2>2, <2>3
<1> QED
  BY <1>1, <1>2

\* What new entries make of a form: it stays open unless the screen around
\* it goes, it is not mounted earlier, and nothing is typed into it.
LEMMA DraftSlot ==
  ASSUME SlotTypes, NEW l \in DOMAIN slot, NEW entries
  PROVE  LET x == slot[l]
             y == Drafts(entries)[l]
         IN /\ y \in SlotRec(home)
            /\ x.since <= y.since /\ y.since \in {x.since, made}
            /\ Parent(entries) => y.n = x.n
            /\ ~Parent(entries) =>
                  /\ y.n = IF PageSlot(home, l) THEN 1 ELSE 0
                  /\ y.dirty = FALSE
            /\ y.dirty => x.dirty
            /\ y.old => x.old
            /\ Parent(entries) /\ y.since # x.since
                  => ~Content(entries) /\ OwnState(l)
            /\ x.dirty /\ ~y.dirty =>
                  \/ ~Parent(entries) \/ Follows(l, entries)
                  \/ x.n # 0 /\ ~Content(entries) /\ OwnState(l)
            /\ y.dirty /\ y.n # 0 /\ OwnState(l) => Content(entries)
            /\ Parent(entries) => y.act = x.act
            /\ ~Parent(entries) => y.act = ""
<1> DEFINE x == slot[l]
<1>1. PICK y : y = Drafts(entries)[l]
  OBVIOUS
<1> DEFINE Goal ==
      /\ y \in SlotRec(home)
      /\ x.since <= y.since /\ y.since \in {x.since, made}
      /\ Parent(entries) => y.n = x.n
      /\ ~Parent(entries) =>
            /\ y.n = IF PageSlot(home, l) THEN 1 ELSE 0
            /\ y.dirty = FALSE
      /\ y.dirty => x.dirty
      /\ y.old => x.old
      /\ Parent(entries) /\ y.since # x.since
            => ~Content(entries) /\ OwnState(l)
      /\ x.dirty /\ ~y.dirty =>
            \/ ~Parent(entries) \/ Follows(l, entries)
            \/ x.n # 0 /\ ~Content(entries) /\ OwnState(l)
      /\ y.dirty /\ y.n # 0 /\ OwnState(l) => Content(entries)
      /\ Parent(entries) => y.act = x.act
      /\ ~Parent(entries) => y.act = ""
<1>2. x \in SlotRec(home) /\ made \in Nat /\ x.since <= made
  BY DEF SlotTypes
<1>3. x.since \in Nat /\ x.n \in Nat /\ x.dirty \in BOOLEAN /\ x.old \in BOOLEAN
      /\ x.act \in DOMAIN ActsOf(home) \cup {""}
  BY <1>2 DEF SlotRec
<1>4. y = IF x.n = 0 /\ Parent(entries) THEN x
          ELSE IF ~Parent(entries)
          THEN [Closed EXCEPT !.since = made,
                              !.n = IF PageSlot(home, l) THEN 1 ELSE 0]
          ELSE IF Follows(l, entries) THEN [x EXCEPT !.dirty = FALSE]
          ELSE IF ~Content(entries) /\ OwnState(l)
          THEN [x EXCEPT !.dirty = FALSE, !.since = made]
          ELSE x
  BY <1>1 DEF Drafts
<1> HIDE DEF x
<1>0. x.since <= x.since
  <2>1. x.since \in Nat
    BY <1>3
  <2> QED
    BY <2>1
<1>5. ASSUME ~Parent(entries) PROVE Goal
  <2>0. PICK n \in Nat : n = IF PageSlot(home, l) THEN 1 ELSE 0
    OBVIOUS
  <2>2. y = [Closed EXCEPT !.since = made, !.n = n]
    BY <1>4, <1>5, <2>0
  <2>1. /\ y \in SlotRec(home) /\ y.since = made /\ y.act = ""
        /\ y.n = n /\ y.dirty = FALSE /\ y.old = FALSE
    BY <1>2, <2>2 DEF Closed, SlotRec
  <2> QED
    BY <1>2, <1>3, <1>5, <2>0, <2>1
<1>6. ASSUME Parent(entries), y = x PROVE Goal
  <2>1. y.dirty /\ y.n # 0 /\ OwnState(l) => Content(entries)
    <3> SUFFICES ASSUME y.dirty, y.n # 0, OwnState(l), ~Content(entries)
                 PROVE  FALSE
      OBVIOUS
    <3>1. CASE Follows(l, entries)
      <4>1. x = [x EXCEPT !.dirty = FALSE]
        BY <1>4, <1>6, <3>1
      <4> QED
        BY <1>2, <1>6, <4>1 DEF SlotRec
    <3>2. CASE ~Follows(l, entries)
      <4>1. x = [x EXCEPT !.dirty = FALSE, !.since = made]
        BY <1>4, <1>6, <3>2
      <4> QED
        BY <1>2, <1>6, <4>1 DEF SlotRec
    <3> QED
      BY <3>1, <3>2
  <2> QED
    BY <1>0, <1>2, <1>3, <1>6, <2>1
<1>7. ASSUME Parent(entries), y = [x EXCEPT !.dirty = FALSE],
             Follows(l, entries)
      PROVE  Goal
  <2>1. /\ y \in SlotRec(home) /\ y.since = x.since /\ y.act = x.act
        /\ y.n = x.n /\ y.dirty = FALSE /\ y.old = x.old
    BY <1>2, <1>7 DEF SlotRec
  <2> QED
    BY <1>0, <1>2, <1>3, <1>7, <2>1
<1>8. ASSUME Parent(entries), ~Content(entries), OwnState(l), x.n # 0,
             y = [x EXCEPT !.dirty = FALSE, !.since = made]
      PROVE  Goal
  <2>1. /\ y \in SlotRec(home) /\ y.since = made /\ y.act = x.act
        /\ y.n = x.n /\ y.dirty = FALSE /\ y.old = x.old
    BY <1>2, <1>8 DEF SlotRec
  <2> QED
    BY <1>0, <1>2, <1>3, <1>8, <2>1
<1>9. Goal
  <2> HIDE DEF Goal
  <2> QED
    BY <1>4, <1>5, <1>6, <1>7, <1>8
<1> QED
  BY <1>1, <1>9 DEF x

\* Drafts of new entries are forms of the same screen.
LEMMA DraftsTypes ==
  ASSUME SlotTypes, NEW entries
  PROVE  Drafts(entries) \in [DOMAIN slot -> SlotRec(home)]
<1>1. \A l \in DOMAIN slot : Drafts(entries)[l] \in SlotRec(home)
  BY DraftSlot
<1> QED
  BY <1>1 DEF Drafts

\* What follows an answer closes or empties the form that was sent, at most.
LEMMA FollowSlot ==
  ASSUME SlotTypes, AtHome, NEW c, job[c.id].act \in DOMAIN Acts,
         NEW drafts \in [DOMAIN slot -> SlotRec(home)]
  PROVE  /\ Follow(c, drafts) \in [DOMAIN slot -> SlotRec(home)]
         /\ \A k \in DOMAIN slot :
              LET x == drafts[k]
                  y == Follow(c, drafts)[k]
              IN /\ y.since = x.since
                 /\ y.n = x.n \/ y.n = 0
                 /\ y.n # x.n => /\ Runs(c) /\ Done(c) = "close"
                                 /\ k = Acts[job[c.id].act].slot
                 /\ y.dirty => x.dirty
                 /\ y.old => x.old
                 /\ y.n # 0 => y.act = x.act
<1> DEFINE l == Acts[job[c.id].act].slot
<1>1. PICK f : f = Follow(c, drafts)
  OBVIOUS
<1>2. l \in DOMAIN slot
  BY DEF SlotTypes, SlotsOf, Acts, Here
<1>3. \/ f = drafts
      \/ /\ Runs(c) /\ Done(c) = "close"
         /\ f = [drafts EXCEPT ![l] = Shut(@)]
      \/ f = [drafts EXCEPT ![l].dirty = FALSE]
  BY <1>1 DEF Follow, Done
<1>4. drafts[l] \in SlotRec(home)
  BY <1>2
<1>5. CASE f = drafts
  BY <1>1, <1>5
<1>6. CASE /\ Runs(c) /\ Done(c) = "close"
           /\ f = [drafts EXCEPT ![l] = Shut(@)]
  <2>1. PICK y : y = Shut(drafts[l])
    OBVIOUS
  <2>2. /\ y \in SlotRec(home) /\ y.n = 0 /\ y.since = drafts[l].since
        /\ y.dirty => drafts[l].dirty
        /\ y.old => drafts[l].old
    BY <1>4, <2>1, ShutSlot
  <2>3. f = [drafts EXCEPT ![l] = y]
    BY <1>6, <2>1
  <2>4. /\ f \in [DOMAIN slot -> SlotRec(home)]
        /\ \A k \in DOMAIN slot : f[k] = IF k = l THEN y ELSE drafts[k]
    BY <2>2, <2>3
  <2> QED
    BY <1>1, <1>6, <2>2, <2>4
<1>7. CASE f = [drafts EXCEPT ![l].dirty = FALSE]
  <2>1. PICK y : y = [drafts[l] EXCEPT !.dirty = FALSE]
    OBVIOUS
  <2>2. /\ y \in SlotRec(home) /\ y.n = drafts[l].n /\ y.act = drafts[l].act
        /\ y.since = drafts[l].since /\ y.dirty = FALSE
        /\ y.old = drafts[l].old
    BY <1>4, <2>1 DEF SlotRec
  <2>3. f = [drafts EXCEPT ![l] = y]
    BY <1>7, <2>1
  <2>4. /\ f \in [DOMAIN slot -> SlotRec(home)]
        /\ \A k \in DOMAIN slot : f[k] = IF k = l THEN y ELSE drafts[k]
    BY <2>2, <2>3
  <2> QED
    BY <1>1, <2>2, <2>4
<1> QED
  BY <1>3, <1>5, <1>6, <1>7

\* A page that is left shows another screen.
LEMMA LeavesHome ==
  ASSUME home \in AllScreens, NEW c, job[c.id].act \in DOMAIN Acts, Leaves(c)
  PROVE  Acts[job[c.id].act].to # home
BY CatalogueAssumption DEF PagesLinked, Leaves, Done, Acts, Here, ActsOf

\* What an answer does to the screen and its forms.
LEMMA AnswerSlots ==
  ASSUME SlotTypes, NEW c \in calls, job[c.id].act \in DOMAIN Acts, Answer(c)
  PROVE  \/ /\ Leaves(c) /\ screen' # home /\ slot' = NoSlots
            /\ screen' = Acts[job[c.id].act].to
         \/ /\ ~Leaves(c) /\ screen' = screen /\ ~AtHome /\ slot' = slot
            /\ cache' = [q \in DOMAIN cache |-> Data!Settled(q, c)]
         \/ /\ ~Leaves(c) /\ screen' = screen /\ AtHome
            /\ slot' = Follow(c, Drafts(cache'))
            /\ cache' = [q \in DOMAIN cache |-> Data!Settled(q, c)]
<1>1. home \in AllScreens
  BY DEF SlotTypes
<1>2. CASE Leaves(c)
  BY <1>1, <1>2, LeavesHome DEF Answer
<1>3. CASE ~Leaves(c)
  <2>1. cache' = [q \in DOMAIN cache |-> Data!Settled(q, c)]
    BY <1>3 DEF Answer, Data!AnswerThen
  <2> QED
    BY <1>3, <2>1 DEF Answer
<1> QED
  BY <1>2, <1>3

\* What an opened dialog holds.
LEMMA OpenSlot ==
  ASSUME SlotTypes, NEW a \in DOMAIN Acts, Open(a)
  PROVE  \E y \in SlotRec(home) :
           /\ slot' = [slot EXCEPT ![Acts[a].slot] = y]
           /\ y.n = opens + 1 /\ y.act = a /\ y.dirty = FALSE
           /\ y.since = IF Acts[a].hook = "child" THEN made
                        ELSE slot[Acts[a].slot].since
           /\ y.old => Acts[a].seed = "kept"
<1> DEFINE was == slot[Acts[a].slot]
<1>1. PICK y : y = [n |-> opens + 1, act |-> a, dirty |-> FALSE,
                    since |-> IF Acts[a].hook = "child" THEN made
                              ELSE was.since,
                    old |-> Acts[a].seed = "kept" /\ was.dirty]
  OBVIOUS
<1>2. AtHome /\ opens' = opens + 1
  BY DEF Open, Reach, Content
<1>3. Acts[a].slot \in DOMAIN slot
  BY <1>2 DEF SlotTypes, SlotsOf, Acts, Here
<1>4. was.since \in Nat /\ made \in Nat /\ opens \in Nat
  BY <1>3 DEF SlotTypes, SlotRec
<1>5. slot' = [slot EXCEPT ![Acts[a].slot] = y]
  BY <1>1, <1>2 DEF Open
<1>6. a \in DOMAIN ActsOf(home) \cup {""}
  BY DEF Acts, Here, ActsOf
<1>7. (Acts[a].seed = "kept" /\ was.dirty) \in BOOLEAN
  OBVIOUS
<1> HIDE DEF was
<1>8. /\ y.n = opens + 1 /\ y.act = a /\ y.dirty = FALSE
      /\ y.since = IF Acts[a].hook = "child" THEN made ELSE was.since
      /\ y.old = (Acts[a].seed = "kept" /\ was.dirty)
  BY <1>1, Zenon
<1>9. y \in SlotRec(home)
  <2>1. (IF Acts[a].hook = "child" THEN made ELSE was.since) \in Nat
    BY <1>4
  <2>2. opens + 1 \in Nat
    BY <1>4
  <2> QED
    BY <1>1, <1>6, <1>7, <2>1, <2>2, Zenon DEF SlotRec
<1> QED
  BY <1>5, <1>8, <1>9 DEF was

\* One form changes.
LEMMA OneSlotTypes ==
  ASSUME SlotTypes, NEW l \in DOMAIN slot, NEW y \in SlotRec(home),
         slot' = [slot EXCEPT ![l] = y],
         opens' \in Nat, made' \in Nat, opens <= opens', made <= made',
         UNCHANGED <<home, screen>>,
         y.n <= opens', y.since <= made'
  PROVE  SlotTypes'
<1>1. /\ DOMAIN slot' = DOMAIN slot
      /\ slot' \in [DOMAIN slot -> SlotRec(home)]
      /\ \A k \in DOMAIN slot : slot'[k] = IF k = l THEN y ELSE slot[k]
  BY DEF SlotTypes
<1>2. AtHome' = AtHome
  BY DEF AtHome
<1>3. opens' \in Nat \ {0}
  BY DEF SlotTypes
<1>4. ASSUME NEW k \in DOMAIN slot
      PROVE  slot'[k].n <= opens' /\ slot'[k].since <= made'
  <2>1. CASE k = l
    BY <1>1, <2>1
  <2>2. CASE k # l
    <3>1. /\ slot[k].n \in Nat /\ slot[k].since \in Nat
          /\ slot[k].n <= opens /\ slot[k].since <= made
          /\ opens \in Nat /\ made \in Nat
      BY DEF SlotTypes, SlotRec
    <3> QED
      BY <1>1, <2>2, <3>1
  <2> QED
    BY <2>1, <2>2
<1>5. /\ slot' \in [DOMAIN slot' -> SlotRec(home')]
      /\ DOMAIN slot' = IF AtHome' THEN SlotsOf(home') ELSE {}
      /\ home' \in AllScreens
  BY <1>1, <1>2 DEF SlotTypes
<1> QED
  BY <1>1, <1>3, <1>4, <1>5 DEF SlotTypes

\* No form changes.
LEMMA SameSlotTypes ==
  ASSUME SlotTypes, made' \in Nat, made <= made',
         UNCHANGED <<home, screen, slot, opens>>
  PROVE  SlotTypes'
<1>1. \A k \in DOMAIN slot : slot[k].since <= made'
  <2> TAKE k \in DOMAIN slot
  <2>1. slot[k].since \in Nat /\ slot[k].since <= made /\ made \in Nat
    BY DEF SlotTypes, SlotRec
  <2> QED
    BY <2>1
<1> QED
  BY <1>1 DEF SlotTypes, AtHome

\* Forms that follow entries and answers.
LEMMA DraftedTypes ==
  ASSUME SlotTypes, NEW drafts \in [DOMAIN slot -> SlotRec(home)],
         \A l \in DOMAIN slot : /\ drafts[l].n <= opens
                                /\ drafts[l].since <= made,
         slot' = drafts, UNCHANGED <<home, screen, opens, made>>
  PROVE  SlotTypes'
<1>1. DOMAIN slot' = DOMAIN slot
  OBVIOUS
<1> QED
  BY <1>1 DEF SlotTypes, AtHome

\* New entries open and mount nothing that was not there.
LEMMA DraftBounds ==
  ASSUME SlotTypes, NEW entries, NEW l \in DOMAIN slot
  PROVE  /\ Drafts(entries)[l].n <= opens
         /\ Drafts(entries)[l].since <= made
<1>1. /\ slot[l].n \in Nat /\ slot[l].n <= opens /\ opens \in Nat \ {0}
      /\ slot[l].since \in Nat /\ slot[l].since <= made /\ made \in Nat
  BY DEF SlotTypes, SlotRec
<1>2. PICK y : y = Drafts(entries)[l]
  OBVIOUS
<1>3. /\ y.since \in {slot[l].since, made}
      /\ y.n \in {slot[l].n, 0, 1}
  BY <1>2, DraftSlot
<1> QED
  BY <1>1, <1>2, <1>3

\* The screen is left, and its forms are gone.
LEMMA LeftTypes ==
  ASSUME SlotTypes, screen' # home, slot' = NoSlots,
         UNCHANGED <<home, opens, made>>
  PROVE  SlotTypes'
<1>1. DOMAIN slot' = {} /\ slot' \in [{} -> SlotRec(home)]
  BY DEF NoSlots
<1>2. ~AtHome'
  BY DEF AtHome
<1> QED
  BY <1>1, <1>2 DEF SlotTypes

-----------------------------------------------------------------------------
(* The requests of the forms.                                              *)

\* Every request under way has a job, sent from one mounting of a form.
JobOf(c) ==
  /\ c.id \in 1..made
  /\ job[c.id].act \in DOMAIN Acts
  /\ c.m = Acts[job[c.id].act].sends
  /\ job[c.id].n \in 0..opens
  /\ job[c.id].since \in Nat /\ job[c.id].since < c.id

Guarded(c) == Acts[job[c.id].act].guard = TRUE

\* What an opening has committed awaits its answer, a form that waits for its
\* requests has one of them under way, and the others are listed.
JobInv ==
  /\ DOMAIN job = {c.id : c \in calls}
  /\ \A c \in calls : JobOf(c)
  /\ \A b, c \in calls : b.id = c.id => b = c
  /\ \A o \in spent : \E c \in calls : c.state = "done" /\ Opening(c) = o
  /\ \A b, c \in calls : Opening(b) = Opening(c) /\ Guarded(c) => b = c
  /\ \A a \in twice : <<home, a>> \in Unguarded

\* No request is sent, saved or answered.
LEMMA JobsStay ==
  ASSUME JobInv, UNCHANGED <<calls, job, spent, twice, home>>,
         made' = made, opens \in Nat, opens' \in Nat, opens <= opens'
  PROVE  JobInv'
<1>1. Acts' = Acts
  BY DEF Acts, Here
<1>2. ASSUME NEW c \in calls
      PROVE  /\ JobOf(c)' /\ Opening(c)' = Opening(c)
             /\ Guarded(c)' = Guarded(c)
  BY <1>1, <1>2 DEF JobInv, JobOf, Opening, Guarded
<1> QED
  BY <1>2 DEF JobInv

\* A request that is sent is the newest, and no other has its opening.
LEMMA SubmitJobs ==
  ASSUME DataInv, SlotTypes, JobInv, NEW a \in DOMAIN Acts, AtHome, Submit(a)
  PROVE  JobInv'
<1> DEFINE l == Acts[a].slot
           r == [act |-> a, n |-> slot[l].n, since |-> slot[l].since]
<1>1. PICK d : d = [id |-> made + 1, m |-> Acts[a].sends, state |-> "sent",
                    at |-> [q \in DOMAIN cache |-> 0]]
  OBVIOUS
<1>2. /\ calls' = calls \cup {d} /\ made' = made + 1
      /\ UNCHANGED <<home, opens, spent, twice>>
      /\ d.id = made + 1 /\ d.m = Acts[a].sends
      /\ made \in Nat /\ opens \in Nat
  BY <1>1 DEF Submit, Sends, Data!Send, DataInv, DataTypes, SlotTypes
<1>3. Acts' = Acts
  BY <1>2 DEF Acts, Here
<1>4. l \in DOMAIN slot
  BY DEF SlotTypes, SlotsOf, Acts, Here
<1>5. /\ slot[l].n \in 0..opens /\ slot[l].since \in Nat
      /\ slot[l].since < made + 1
  <2>1. /\ slot[l].n \in Nat /\ slot[l].n <= opens
        /\ slot[l].since \in Nat /\ slot[l].since <= made
    BY <1>4 DEF SlotTypes, SlotRec
  <2> QED
    BY <1>2, <2>1
<1>6. ASSUME NEW c \in calls
      PROVE  c.id \in 1..made /\ c.id # made + 1 /\ c.id \in DOMAIN job
  BY <1>2 DEF JobInv, JobOf
<1>7. job' = [i \in DOMAIN job \cup {made + 1} |->
                IF i \in DOMAIN job THEN job[i] ELSE r]
  BY <1>2 DEF Submit, Sends
<1> HIDE DEF r
<1>8. /\ DOMAIN job' = {made + 1} \cup DOMAIN job
      /\ job'[made + 1] = r
      /\ \A i \in DOMAIN job : i # made + 1 => job'[i] = job[i]
  <2>1. made + 1 \notin DOMAIN job
    BY <1>6 DEF JobInv
  <2> QED
    BY <1>7, <2>1
<1>9. r.act = a /\ r.n = slot[l].n /\ r.since = slot[l].since
  BY DEF r
<1> HIDE DEF l
<1>10. DOMAIN job' = {c.id : c \in calls'}
  BY <1>2, <1>8 DEF JobInv
<1>11. ASSUME NEW c \in calls
       PROVE  /\ JobOf(c)' /\ Opening(c)' = Opening(c)
              /\ Guarded(c)' = Guarded(c)
  <2>1. JobOf(c) /\ job'[c.id] = job[c.id]
    BY <1>6, <1>8 DEF JobInv
  <2> QED
    BY <1>2, <1>3, <1>6, <2>1 DEF JobOf, Opening, Guarded
<1>12. JobOf(d)'
  BY <1>2, <1>3, <1>5, <1>8, <1>9 DEF JobOf
<1>13. ASSUME NEW b \in calls', NEW c \in calls', b.id = c.id
       PROVE  b = c
  BY <1>2, <1>6, <1>13 DEF JobInv
<1>14. Opening(d)' = <<a, slot[l].n, slot[l].since>>
  BY <1>2, <1>8, <1>9 DEF Opening
<1>15. ASSUME NEW b \in calls, Opening(b) = <<a, slot[l].n, slot[l].since>>,
              Acts[a].guard = TRUE
       PROVE  FALSE
  <2>1. job[b.id].act = a /\ job[b.id].since = slot[l].since
    BY <1>15 DEF Opening
  <2>2. b.id > slot[l].since
    BY <1>6, <2>1 DEF JobInv, JobOf
  <2>3. Busy(a)
    BY <2>1, <2>2 DEF Busy, Shares, SameHook, l
  <2> QED
    BY <1>15, <2>3 DEF Submit
<1>16. ASSUME NEW b \in calls', NEW c \in calls',
              Opening(b)' = Opening(c)', Guarded(c)'
       PROVE  b = c
  <2>1. CASE b \in calls /\ c \in calls
    BY <1>11, <1>16, <2>1 DEF JobInv
  <2>2. CASE b = d /\ c \in calls
    <3>1. Opening(c) = <<a, slot[l].n, slot[l].since>> /\ Guarded(c)
      BY <1>11, <1>14, <1>16, <2>2
    <3>2. Acts[a].guard = TRUE
      BY <3>1 DEF Opening, Guarded
    <3> QED
      BY <1>15, <2>2, <3>1, <3>2
  <2>3. CASE b \in calls /\ c = d
    <3>1. Opening(b) = <<a, slot[l].n, slot[l].since>>
      BY <1>11, <1>14, <1>16, <2>3
    <3>2. Acts[a].guard = TRUE
      BY <1>2, <1>3, <1>8, <1>9, <1>16, <2>3 DEF Guarded
    <3> QED
      BY <1>15, <2>3, <3>1, <3>2
  <2> QED
    BY <1>2, <2>1, <2>2, <2>3
<1>17. ASSUME NEW o \in spent'
       PROVE  \E c \in calls' : c.state = "done" /\ Opening(c)' = o
  BY <1>2, <1>11 DEF JobInv
<1>18. \A e \in twice' : <<home', e>> \in Unguarded
  BY <1>2 DEF JobInv
<1>19. \A c \in calls' : JobOf(c)'
  BY <1>2, <1>11, <1>12
<1> QED
  BY <1>10, <1>13, <1>16, <1>17, <1>18, <1>19 DEF JobInv

\* The server saves a request: the first of its opening, if its form waits.
LEMMA CommitJobs ==
  ASSUME DataInv, JobInv, NEW c \in calls, Commit(c), UNCHANGED opens
  PROVE  JobInv'
<1>1. c \in [id : Nat, m : SentBy(home), state : {"sent", "done"},
             at : [DOMAIN cache -> Nat]]
  BY DEF DataInv, DataTypes
<1>2. PICK d : d = [c EXCEPT !.state = "done", !.at = rev']
  OBVIOUS
<1>3. /\ calls' = (calls \ {c}) \cup {d} /\ c.state = "sent"
      /\ UNCHANGED <<home, job, made>>
  BY <1>2 DEF Commit, Data!Commit, Data!Becomes
<1>4. d.id = c.id /\ d.m = c.m /\ d.state = "done"
  BY <1>1, <1>2
<1>5. Acts' = Acts
  BY <1>3 DEF Acts, Here
<1>6. ASSUME NEW b \in calls
      PROVE  /\ JobOf(b) /\ JobOf(b)' /\ Opening(b)' = Opening(b)
             /\ Guarded(b)' = Guarded(b)
  BY <1>3, <1>5 DEF JobInv, JobOf, Opening, Guarded
<1>7. /\ JobOf(d)' /\ Opening(d)' = Opening(c)
      /\ Guarded(d)' = Guarded(c)
  BY <1>3, <1>4, <1>5, <1>6 DEF JobOf, Opening, Guarded
<1>8. DOMAIN job' = {b.id : b \in calls'}
  BY <1>3, <1>4 DEF JobInv
<1>9. ASSUME NEW a \in calls', NEW b \in calls', a.id = b.id
      PROVE  a = b
  BY <1>3, <1>4, <1>9 DEF JobInv
<1>10. ASSUME NEW o \in spent'
       PROVE  \E b \in calls' : b.state = "done" /\ Opening(b)' = o
  <2>1. CASE o = Opening(c)
    BY <1>3, <1>4, <1>7, <2>1
  <2>2. CASE o \in spent
    BY <1>3, <1>6, <2>2 DEF JobInv
  <2> QED
    BY <2>1, <2>2 DEF Commit
<1>11. ASSUME NEW a \in calls', NEW b \in calls',
              Opening(a)' = Opening(b)', Guarded(b)'
       PROVE  a = b
  <2>1. PICK a0 \in calls : /\ Opening(a0) = Opening(a)'
                            /\ IF a0 = c THEN a = d ELSE a = a0
    BY <1>3, <1>6, <1>7
  <2>2. PICK b0 \in calls : /\ Opening(b0) = Opening(b)' /\ Guarded(b0)
                            /\ IF b0 = c THEN b = d ELSE b = b0
    BY <1>3, <1>6, <1>7, <1>11
  <2>3. a0 = b0
    BY <1>11, <2>1, <2>2 DEF JobInv
  <2> QED
    BY <2>1, <2>2, <2>3
<1>12. ASSUME NEW e \in twice'
       PROVE  <<home', e>> \in Unguarded
  <2>1. CASE e \in twice
    BY <1>3, <2>1 DEF JobInv
  <2>2. CASE e = job[c.id].act /\ Opening(c) \in spent
    <3>1. PICK b \in calls : b.state = "done" /\ Opening(b) = Opening(c)
      BY <2>2 DEF JobInv
    <3>2. b # c
      BY <1>3, <3>1
    <3>3. ~Guarded(c)
      BY <3>1, <3>2 DEF JobInv
    <3>4. Acts[e].guard # TRUE /\ e \in DOMAIN Acts
      BY <1>6, <2>2, <3>3 DEF Guarded, JobOf
    <3>5. <<home, e>> \in Unguarded
      BY <3>4, CatalogueAssumption
         DEF FormsCareful, Acts, Here, ActsOf, DataInv, DataTypes
    <3> QED
      BY <1>3, <3>5
  <2> QED
    BY <2>1, <2>2 DEF Commit
<1>13. \A b \in calls' : JobOf(b)'
  BY <1>3, <1>6, <1>7
<1> QED
  BY <1>8, <1>9, <1>10, <1>11, <1>12, <1>13 DEF JobInv

\* A request ends, answered or not, and its opening may send another.
LEMMA CallEnds ==
  ASSUME JobInv, NEW c \in calls, calls' = calls \ {c},
         job' = WithoutJob(c), spent' = spent \ {Opening(c)},
         UNCHANGED <<twice, home, made, opens>>
  PROVE  JobInv'
<1>1. Acts' = Acts
  BY DEF Acts, Here
<1>2. ASSUME NEW b \in calls'
      PROVE  b \in calls /\ b.id # c.id /\ b.id \in DOMAIN job
  BY DEF JobInv
<1>3. /\ DOMAIN job' = DOMAIN job \ {c.id}
      /\ \A i \in DOMAIN job : i # c.id => job'[i] = job[i]
  BY DEF WithoutJob
<1>4. DOMAIN job' = {b.id : b \in calls'}
  BY <1>2, <1>3 DEF JobInv
<1>5. ASSUME NEW b \in calls'
      PROVE  /\ JobOf(b)' /\ Opening(b)' = Opening(b)
             /\ Guarded(b)' = Guarded(b)
  BY <1>1, <1>2, <1>3 DEF JobInv, JobOf, Opening, Guarded
<1>6. ASSUME NEW o \in spent'
      PROVE  \E b \in calls' : b.state = "done" /\ Opening(b)' = o
  <2>1. PICK b \in calls : b.state = "done" /\ Opening(b) = o
    BY DEF JobInv
  <2>2. b \in calls'
    BY <2>1
  <2> QED
    BY <1>5, <2>1, <2>2
<1> QED
  BY <1>4, <1>5, <1>6 DEF JobInv

-----------------------------------------------------------------------------
(* The invariant of a page.                                                *)

PageInv == DataInv /\ SlotTypes /\ JobInv

\* The first screen has its forms, and no requests.
LEMMA PageInit == Init => PageInv
<1> SUFFICES ASSUME Init PROVE PageInv
  OBVIOUS
<1>1. DataInv
  BY DataInit
<1>2. PICK s \in Watched :
         /\ home = s /\ screen = s
         /\ slot = [l \in SlotsOf(s) |-> IF PageSlot(s, l)
                      THEN [Closed EXCEPT !.n = 1] ELSE Closed]
         /\ opens = 1
  BY DEF Init
<1>3. /\ calls = {} /\ made = 0 /\ DOMAIN job = {} /\ spent = {} /\ twice = {}
  BY DEF Init, Data!CacheInit
<1>4. /\ Closed \in SlotRec(s) /\ Closed.n = 0 /\ Closed.since = 0
      /\ [Closed EXCEPT !.n = 1] \in SlotRec(s)
      /\ [Closed EXCEPT !.n = 1].n = 1 /\ [Closed EXCEPT !.n = 1].since = 0
  BY DEF Closed, SlotRec
<1>5. AtHome
  BY <1>2 DEF AtHome
<1>6. SlotTypes
  <2>1. /\ DOMAIN slot = SlotsOf(home)
        /\ \A l \in DOMAIN slot : slot[l] \in {Closed, [Closed EXCEPT !.n = 1]}
    BY <1>2
  <2>2. \A l \in DOMAIN slot : slot[l].n <= opens /\ slot[l].since <= made
    BY <1>2, <1>3, <1>4, <2>1
  <2>3. slot \in [DOMAIN slot -> SlotRec(home)]
    BY <1>2, <1>4, <2>1
  <2>4. home \in AllScreens
    BY <1>1 DEF DataInv, DataTypes
  <2>5. opens \in Nat \ {0} /\ made \in Nat
    BY <1>2, <1>3
  <2> QED
    BY <1>5, <2>1, <2>2, <2>3, <2>4, <2>5 DEF SlotTypes
<1>7. JobInv
  BY <1>3 DEF JobInv
<1> QED
  BY <1>1, <1>6, <1>7 DEF PageInv

\* A dialog is opened.
LEMMA OpenPage ==
  ASSUME PageInv, NEW a \in DOMAIN Acts, Open(a)
  PROVE  SlotTypes' /\ JobInv'
<1>1. PICK y \in SlotRec(home) :
         /\ slot' = [slot EXCEPT ![Acts[a].slot] = y]
         /\ y.n = opens + 1
         /\ y.since = IF Acts[a].hook = "child" THEN made
                      ELSE slot[Acts[a].slot].since
  BY OpenSlot DEF PageInv
<1>2. AtHome /\ opens' = opens + 1 /\ opens \in Nat /\ made \in Nat
  BY DEF Open, Reach, Content, PageInv, SlotTypes
<1>3. Acts[a].slot \in DOMAIN slot
  BY <1>2 DEF PageInv, SlotTypes, SlotsOf, Acts, Here
<1>4. UNCHANGED <<cachevars, home, screen, job, spent, twice>>
  BY DEF Open
<1>5. UNCHANGED <<made, calls>>
  BY <1>4 DEF cachevars
<1>6. /\ y.n <= opens' /\ y.since <= made' /\ made <= made'
      /\ opens <= opens' /\ opens' \in Nat /\ made' \in Nat
  <2>1. slot[Acts[a].slot].since <= made
    BY <1>3 DEF PageInv, SlotTypes
  <2>2. y.since <= made /\ y.n = opens'
    BY <1>1, <1>2, <2>1
  <2> QED
    BY <1>2, <1>5, <2>2
<1>7. SlotTypes'
  BY <1>1, <1>2, <1>3, <1>4, <1>5, <1>6, OneSlotTypes DEF PageInv
<1>8. JobInv'
  BY <1>2, <1>4, <1>5, <1>6, JobsStay DEF PageInv
<1> QED
  BY <1>7, <1>8

\* A form is filled or shut.
LEMMA EditPage ==
  ASSUME PageInv, NEW l \in DOMAIN slot, Edit(l) \/ Cancel(l)
  PROVE  SlotTypes' /\ JobInv'
<1>1. PICK y : /\ slot' = [slot EXCEPT ![l] = y]
               /\ \/ y = [slot[l] EXCEPT !.dirty = TRUE]
                  \/ y = Shut(slot[l])
  BY DEF Edit, Cancel
<1>2. /\ slot[l] \in SlotRec(home) /\ slot[l].n <= opens
      /\ slot[l].since <= made /\ opens \in Nat /\ made \in Nat
  BY DEF PageInv, SlotTypes
<1>3. y \in SlotRec(home) /\ y.n <= opens /\ y.since <= made
  <2>1. CASE y = [slot[l] EXCEPT !.dirty = TRUE]
    BY <1>2, <2>1 DEF SlotRec
  <2>2. CASE y = Shut(slot[l])
    BY <1>2, <2>2, ShutSlot
  <2> QED
    BY <1>1, <2>1, <2>2
<1>4. UNCHANGED <<cachevars, home, screen, opens, job, spent, twice>>
  BY DEF Edit, Cancel
<1>5. UNCHANGED <<made, calls>> /\ made <= made /\ opens <= opens
  BY <1>2, <1>4 DEF cachevars
<1>6. SlotTypes'
  BY <1>1, <1>2, <1>3, <1>4, <1>5, OneSlotTypes DEF PageInv
<1>7. JobInv'
  BY <1>2, <1>4, <1>5, JobsStay DEF PageInv
<1> QED
  BY <1>6, <1>7

\* A form is sent.
LEMMA SubmitPage ==
  ASSUME PageInv, NEW a \in DOMAIN Acts, AtHome, Submit(a)
  PROVE  SlotTypes' /\ JobInv'
<1>1. JobInv'
  BY SubmitJobs DEF PageInv
<1>2. Acts[a].slot \in DOMAIN slot
  BY DEF PageInv, SlotTypes, SlotsOf, Acts, Here
<1>3. made' = made + 1 /\ UNCHANGED <<home, screen, opens>>
  BY DEF Submit, Sends, Data!Send
<1>4. /\ slot[Acts[a].slot] \in SlotRec(home) /\ slot[Acts[a].slot].n <= opens
      /\ slot[Acts[a].slot].since <= made /\ opens \in Nat /\ made \in Nat
      /\ slot[Acts[a].slot].since \in Nat
  BY <1>2 DEF PageInv, SlotTypes, SlotRec
<1>5. PICK y : y = Shut(slot[Acts[a].slot])
  OBVIOUS
<1>6. y \in SlotRec(home) /\ y.n <= opens /\ y.since <= made + 1
  <2>1. y \in SlotRec(home) /\ y.n = 0 /\ y.since = slot[Acts[a].slot].since
    BY <1>4, <1>5, ShutSlot
  <2> QED
    BY <1>4, <2>1
<1>7. slot' = slot \/ slot' = [slot EXCEPT ![Acts[a].slot] = y]
  BY <1>5 DEF Submit, Sends
<1>8. made' \in Nat /\ made <= made' /\ opens <= opens
  BY <1>3, <1>4
<1>9. SlotTypes'
  <2>1. CASE slot' = slot
    BY <1>3, <1>8, <2>1, SameSlotTypes DEF PageInv
  <2>2. CASE slot' = [slot EXCEPT ![Acts[a].slot] = y]
    BY <1>2, <1>3, <1>4, <1>6, <1>8, <2>2, OneSlotTypes DEF PageInv
  <2> QED
    BY <1>7, <2>1, <2>2
<1> QED
  BY <1>1, <1>9

\* The user goes elsewhere.
LEMMA GoElsewherePage ==
  ASSUME PageInv, NEW Q, GoElsewhere(Q)
  PROVE  SlotTypes' /\ JobInv'
<1>1. /\ screen' = "elsewhere" /\ slot' = NoSlots
      /\ UNCHANGED <<home, opens, made, calls, job, spent, twice>>
  BY DEF GoElsewhere, Data!Shows
<1>2. screen' # home
  BY <1>1, CatalogueAssumption DEF PagesLinked, PageInv, SlotTypes
<1>3. opens \in Nat /\ opens <= opens
  BY DEF PageInv, SlotTypes
<1> QED
  BY <1>1, <1>2, <1>3, LeftTypes, JobsStay DEF PageInv

\* The forms follow what a fetch brings.
LEMMA RenderedTypes ==
  ASSUME SlotTypes, Rendered, UNCHANGED <<home, screen, opens, made>>
  PROVE  SlotTypes'
<1>1. CASE AtHome
  BY <1>1, DraftsTypes, DraftBounds, DraftedTypes DEF Rendered
<1>2. CASE ~AtHome
  <2>1. made \in Nat /\ made <= made
    BY DEF SlotTypes
  <2> QED
    BY <1>2, <2>1, SameSlotTypes DEF Rendered
<1> QED
  BY <1>1, <1>2

\* A fetch begins, goes on or ends.
LEMMA FetchPage ==
  ASSUME PageInv, NEW q, Fetching(q) \/ Background(q)
  PROVE  SlotTypes' /\ JobInv'
<1>1. UNCHANGED <<home, screen, opens, made, calls, job, spent, twice>>
  BY DEF Fetching, Background, Data!Arrives, Data!FetchFails,
         Data!ServerReads, Data!Refresh, Data!Shows, uivars
<1>2. /\ made \in Nat /\ made <= made /\ opens \in Nat /\ opens <= opens
  BY DEF PageInv, SlotTypes
<1>3. Rendered \/ slot' = slot
  BY DEF Fetching, Background, uivars
<1> QED
  BY <1>1, <1>2, <1>3, RenderedTypes, SameSlotTypes, JobsStay DEF PageInv

\* An answer arrives on the screen, or elsewhere.
LEMMA AnswerPage ==
  ASSUME PageInv, NEW c \in calls, Answer(c)
  PROVE  SlotTypes' /\ JobInv'
<1>1. /\ calls' = calls \ {c} /\ job' = WithoutJob(c)
      /\ spent' = spent \ {Opening(c)}
      /\ UNCHANGED <<twice, home, made, opens>>
  BY DEF Answer, Data!AnswerThen
<1>2. job[c.id].act \in DOMAIN Acts
  BY DEF PageInv, JobInv, JobOf
<1>3. JobInv'
  BY <1>1, CallEnds DEF PageInv
<1>4. SlotTypes
  BY DEF PageInv
<1>5. CASE screen' # home /\ slot' = NoSlots
  BY <1>1, <1>3, <1>4, <1>5, LeftTypes
<1>6. CASE screen' = screen /\ slot' = slot
  <2>1. made \in Nat /\ made <= made
    BY <1>4 DEF SlotTypes
  <2> QED
    BY <1>1, <1>3, <1>4, <1>6, <2>1, SameSlotTypes
<1>7. CASE screen' = screen /\ AtHome /\ slot' = Follow(c, Drafts(cache'))
  <2>1. PICK drafts : drafts = Drafts(cache')
    OBVIOUS
  <2>2. /\ drafts \in [DOMAIN slot -> SlotRec(home)]
        /\ \A l \in DOMAIN slot : drafts[l].n <= opens
                                  /\ drafts[l].since <= made
    BY <1>4, <2>1, DraftsTypes, DraftBounds
  <2>3. PICK f : f = Follow(c, drafts)
    OBVIOUS
  <2>4. /\ f \in [DOMAIN slot -> SlotRec(home)]
        /\ \A l \in DOMAIN slot : /\ f[l].since = drafts[l].since
                                  /\ f[l].n = drafts[l].n \/ f[l].n = 0
    BY <1>2, <1>4, <1>7, <2>2, <2>3, FollowSlot
  <2>5. \A l \in DOMAIN slot : f[l].n <= opens /\ f[l].since <= made
    BY <1>4, <2>2, <2>4 DEF SlotTypes
  <2>6. slot' = f
    BY <1>7, <2>1, <2>3
  <2> QED
    BY <1>1, <1>3, <1>4, <1>7, <2>4, <2>5, <2>6, DraftedTypes
<1> QED
  BY <1>2, <1>4, <1>5, <1>6, <1>7, AnswerSlots

\* Every step keeps the invariant of a page.
LEMMA PageNext ==
  ASSUME PageInv, [Next]_vars
  PROVE  PageInv'
<1>1. DataInv'
  BY DataNext DEF PageInv
<1>2. /\ made \in Nat /\ made <= made /\ opens \in Nat /\ opens <= opens
  BY DEF PageInv, SlotTypes
<1>3. ASSUME NEW a \in DOMAIN Acts, AtHome, Open(a) \/ Submit(a)
      PROVE  SlotTypes' /\ JobInv'
  BY <1>3, OpenPage, SubmitPage
<1>4. ASSUME NEW l \in DOMAIN slot, Edit(l) \/ Cancel(l)
      PROVE  SlotTypes' /\ JobInv'
  BY <1>4, EditPage
<1>5. ASSUME NEW Q, GoElsewhere(Q)
      PROVE  SlotTypes' /\ JobInv'
  BY <1>5, GoElsewherePage
<1>6. ASSUME NEW q \in DOMAIN cache, Fetching(q) \/ Background(q)
      PROVE  SlotTypes' /\ JobInv'
  BY <1>6, FetchPage
<1>7. ASSUME NEW c \in calls, Commit(c)
      PROVE  SlotTypes' /\ JobInv'
  <2>1. UNCHANGED <<home, screen, slot, opens, made>>
    BY <1>7 DEF Commit, Data!Commit
  <2> QED
    BY <1>2, <1>7, <2>1, SameSlotTypes, CommitJobs DEF PageInv
<1>8. ASSUME NEW c \in calls, CallFails(c)
      PROVE  SlotTypes' /\ JobInv'
  <2>1. /\ UNCHANGED <<home, screen, slot, opens, made, twice>>
        /\ calls' = calls \ {c} /\ job' = WithoutJob(c)
        /\ spent' = spent \ {Opening(c)}
    BY <1>8 DEF CallFails, Data!CallFails
  <2> QED
    BY <1>2, <2>1, SameSlotTypes, CallEnds DEF PageInv
<1>9. ASSUME NEW c \in calls, Answer(c)
      PROVE  SlotTypes' /\ JobInv'
  BY <1>9, AnswerPage
<1>10. ASSUME UNCHANGED vars
       PROVE  SlotTypes' /\ JobInv'
  <2>1. UNCHANGED <<home, screen, slot, opens, made, calls, job, spent, twice>>
    BY <1>10 DEF vars, uivars, cachevars
  <2> QED
    BY <1>2, <2>1, SameSlotTypes, JobsStay DEF PageInv
<1>11. SlotTypes' /\ JobInv'
  BY <1>3, <1>4, <1>5, <1>6, <1>7, <1>8, <1>9, <1>10 DEF Next
<1> QED
  BY <1>1, <1>11 DEF PageInv

\* The invariant of a page holds in every behaviour.
LEMMA PageInvariant == Spec => []PageInv
<1>1. PageInv /\ [Next]_vars => PageInv'
  BY PageNext
<1> QED
  BY <1>1, PageInit, PTL DEF Spec

\* However slow the network and however often the user tries, a form that
\* waits for its requests saves one opening at most once, unless an error was
\* shown in between.
THEOREM SavesOnce == Spec => []SavedOnce
<1>1. PageInv => SavedOnce
  BY DEF PageInv, JobInv, SavedOnce
<1> QED
  BY <1>1, PageInvariant, PTL

-----------------------------------------------------------------------------
(* What is left in a dialog from an earlier opening.                       *)

\* What a step makes of one form: the ways in which a slot may change.
LEMMA SubmitSlot ==
  ASSUME SlotTypes, NEW a \in DOMAIN Acts, AtHome, Submit(a)
  PROVE  /\ DOMAIN slot' = DOMAIN slot
         /\ \A l \in DOMAIN slot :
               \/ slot'[l] = slot[l]
               \/ l = Acts[a].slot /\ slot'[l] = Shut(slot[l])
<1>1. slot' = slot \/ slot' = [slot EXCEPT ![Acts[a].slot] = Shut(@)]
  BY DEF Submit, Sends
<1>2. CASE slot' = slot
  BY <1>2
<1>3. CASE slot' = [slot EXCEPT ![Acts[a].slot] = Shut(@)]
  <2>1. PICK y : y = Shut(slot[Acts[a].slot])
    OBVIOUS
  <2>2. slot' = [slot EXCEPT ![Acts[a].slot] = y]
    BY <1>3, <2>1
  <2>3. DOMAIN slot' = DOMAIN slot
    BY <2>2
  <2>4. \A l \in DOMAIN slot : slot'[l] = IF l = Acts[a].slot THEN y
                                          ELSE slot[l]
    BY <2>2 DEF SlotTypes
  <2> QED
    BY <2>1, <2>3, <2>4
<1> QED
  BY <1>1, <1>2, <1>3

\* A form that is filled stays open; one that is shut is closed.
LEMMA EditSlot ==
  ASSUME SlotTypes, NEW l \in DOMAIN slot, Edit(l) \/ Cancel(l)
  PROVE  \E y \in SlotRec(home) :
           /\ slot' = [slot EXCEPT ![l] = y]
           /\ y.since = slot[l].since
           /\ y.old => slot[l].old
           /\ \/ Edit(l) /\ y.n = slot[l].n /\ y.act = slot[l].act
              \/ Cancel(l) /\ y.n = 0 /\ (y.dirty => slot[l].dirty)
<1>1. slot[l] \in SlotRec(home)
  BY DEF SlotTypes
<1>2. CASE Edit(l)
  <2>1. PICK y : y = [slot[l] EXCEPT !.dirty = TRUE]
    OBVIOUS
  <2>2. /\ y \in SlotRec(home) /\ y.since = slot[l].since
        /\ y.old = slot[l].old /\ y.n = slot[l].n /\ y.act = slot[l].act
    BY <1>1, <2>1 DEF SlotRec
  <2>3. slot' = [slot EXCEPT ![l] = y]
    BY <1>2, <2>1 DEF Edit
  <2> QED
    BY <1>2, <2>2, <2>3
<1>3. CASE Cancel(l)
  <2>1. PICK y : y = Shut(slot[l])
    OBVIOUS
  <2>2. /\ y \in SlotRec(home) /\ y.n = 0 /\ y.since = slot[l].since
        /\ y.dirty => slot[l].dirty
        /\ y.old => slot[l].old
    BY <1>1, <2>1, ShutSlot
  <2>3. slot' = [slot EXCEPT ![l] = y]
    BY <1>3, <2>1 DEF Cancel
  <2> QED
    BY <1>3, <2>2, <2>3
<1> QED
  BY <1>2, <1>3

\* Only a dialog whose page keeps the draft can open with one.
CleanInv == home \notin Leftovers => \A l \in DOMAIN slot : slot[l].old = FALSE

\* One form changes, and takes over what was typed only on Leftovers.
LEMMA CleanOne ==
  ASSUME SlotTypes, CleanInv, NEW l, NEW y \in SlotRec(home),
         slot' = [slot EXCEPT ![l] = y], UNCHANGED home,
         y.old => slot[l].old \/ home \in Leftovers, l \in DOMAIN slot
  PROVE  CleanInv'
<1>1. /\ DOMAIN slot' = DOMAIN slot
      /\ \A k \in DOMAIN slot : slot'[k] = IF k = l THEN y ELSE slot[k]
  BY DEF SlotTypes
<1>2. y.old \in BOOLEAN
  BY DEF SlotRec
<1> QED
  BY <1>1, <1>2 DEF CleanInv

\* All the forms may change, and none takes over what was typed.
LEMMA CleanAll ==
  ASSUME CleanInv, UNCHANGED home,
         NEW drafts \in [DOMAIN slot -> SlotRec(home)],
         \A l \in DOMAIN slot : drafts[l].old => slot[l].old, slot' = drafts
  PROVE  CleanInv'
<1>1. \A l \in DOMAIN slot : drafts[l].old \in BOOLEAN
  BY DEF SlotRec
<1> QED
  BY <1>1 DEF CleanInv

\* Only a dialog of Leftovers opens with a draft.
LEMMA CleanOpen ==
  ASSUME SlotTypes, CleanInv, NEW a \in DOMAIN Acts, Open(a)
  PROVE  CleanInv'
<1>1. PICK y \in SlotRec(home) :
         /\ slot' = [slot EXCEPT ![Acts[a].slot] = y]
         /\ y.old => Acts[a].seed = "kept"
  BY OpenSlot
<1>2. Acts[a].seed = "kept" => home \in Leftovers
  BY CatalogueAssumption DEF FormsCareful, SlotTypes, Acts, Here, ActsOf
<1>3. Acts[a].slot \in DOMAIN slot /\ UNCHANGED home
  BY DEF Open, Reach, Content, SlotTypes, SlotsOf, Acts, Here
<1> QED
  BY <1>1, <1>2, <1>3, CleanOne

\* A form that is sent takes over nothing.
LEMMA CleanSubmit ==
  ASSUME SlotTypes, CleanInv, NEW a \in DOMAIN Acts, AtHome, Submit(a)
  PROVE  CleanInv'
<1>1. /\ DOMAIN slot' = DOMAIN slot
      /\ \A l \in DOMAIN slot :
            slot'[l] = slot[l] \/ slot'[l] = Shut(slot[l])
  BY SubmitSlot
<1>2. UNCHANGED home
  BY DEF Submit, Sends
<1>3. ASSUME NEW l \in DOMAIN slot, home \notin Leftovers
      PROVE  slot'[l].old = FALSE
  <2>1. slot[l] \in SlotRec(home) /\ slot[l].old = FALSE
    BY <1>3 DEF SlotTypes, CleanInv
  <2>2. PICK y : y = Shut(slot[l])
    OBVIOUS
  <2>3. y.old = FALSE
    <3>1. y \in SlotRec(home) /\ (y.old => slot[l].old)
      BY <2>1, <2>2, ShutSlot
    <3>2. y.old \in BOOLEAN
      BY <3>1 DEF SlotRec
    <3> QED
      BY <2>1, <3>1, <3>2
  <2> QED
    BY <1>1, <2>1, <2>2, <2>3
<1> QED
  BY <1>1, <1>2, <1>3 DEF CleanInv

\* What an answer makes of the forms takes over nothing.
LEMMA CleanAnswer ==
  ASSUME SlotTypes, CleanInv, NEW c \in calls,
         job[c.id].act \in DOMAIN Acts, Answer(c)
  PROVE  CleanInv'
<1>1. UNCHANGED home
  BY DEF Answer
<1>2. CASE slot' = NoSlots
  BY <1>1, <1>2 DEF CleanInv, NoSlots
<1>3. CASE slot' = slot
  BY <1>1, <1>3 DEF CleanInv
<1>4. CASE AtHome /\ slot' = Follow(c, Drafts(cache'))
  <2>1. PICK drafts : drafts = Drafts(cache')
    OBVIOUS
  <2>2. /\ drafts \in [DOMAIN slot -> SlotRec(home)]
        /\ \A l \in DOMAIN slot : drafts[l].old => slot[l].old
    BY <2>1, DraftsTypes, DraftSlot
  <2>3. PICK f : f = Follow(c, drafts)
    OBVIOUS
  <2>4. /\ f \in [DOMAIN slot -> SlotRec(home)]
        /\ \A l \in DOMAIN slot : f[l].old => drafts[l].old
    BY <1>4, <2>2, <2>3, FollowSlot
  <2>5. slot' = f
    BY <1>4, <2>1, <2>3
  <2> QED
    BY <1>1, <2>2, <2>4, <2>5, CleanAll
<1> QED
  BY <1>2, <1>3, <1>4, AnswerSlots

\* Every step keeps the dialogs clean.
LEMMA CleanNext ==
  ASSUME PageInv, CleanInv, [Next]_vars
  PROVE  CleanInv'
<1>1. SlotTypes
  BY DEF PageInv
<1>2. ASSUME NEW a \in DOMAIN Acts, AtHome, Open(a) \/ Submit(a)
      PROVE  CleanInv'
  BY <1>1, <1>2, CleanOpen, CleanSubmit
<1>3. ASSUME NEW l \in DOMAIN slot, Edit(l) \/ Cancel(l)
      PROVE  CleanInv'
  <2>1. UNCHANGED home
    BY <1>3 DEF Edit, Cancel
  <2> QED
    BY <1>1, <1>3, <2>1, EditSlot, CleanOne
<1>4. ASSUME NEW Q, GoElsewhere(Q)
      PROVE  CleanInv'
  BY <1>4 DEF GoElsewhere, CleanInv, NoSlots
<1>5. ASSUME NEW q \in DOMAIN cache, Fetching(q) \/ Background(q)
      PROVE  CleanInv'
  <2>1. UNCHANGED home
    BY <1>5 DEF Fetching, Background, uivars
  <2>2. slot' = slot \/ slot' = Drafts(cache')
    BY <1>5 DEF Fetching, Background, Rendered, uivars
  <2>3. CASE slot' = slot
    BY <2>1, <2>3 DEF CleanInv
  <2>4. CASE slot' = Drafts(cache')
    <3>1. PICK drafts : drafts = Drafts(cache')
      OBVIOUS
    <3>2. /\ drafts \in [DOMAIN slot -> SlotRec(home)]
          /\ \A l \in DOMAIN slot : drafts[l].old => slot[l].old
      BY <1>1, <3>1, DraftsTypes, DraftSlot
    <3> QED
      BY <2>1, <2>4, <3>1, <3>2, CleanAll
  <2> QED
    BY <2>2, <2>3, <2>4
<1>6. ASSUME NEW c \in calls, Commit(c) \/ CallFails(c)
      PROVE  CleanInv'
  BY <1>6 DEF Commit, CallFails, CleanInv
<1>7. ASSUME NEW c \in calls, Answer(c)
      PROVE  CleanInv'
  <2>1. job[c.id].act \in DOMAIN Acts
    BY DEF PageInv, JobInv, JobOf
  <2> QED
    BY <1>1, <1>7, <2>1, CleanAnswer
<1>8. CASE UNCHANGED vars
  BY <1>8 DEF CleanInv, vars, uivars
<1> QED
  BY <1>2, <1>3, <1>4, <1>5, <1>6, <1>7, <1>8 DEF Next

\* On a page that keeps no drafts of closed dialogs, a dialog opens without
\* what was typed into an earlier opening of it.
THEOREM OpensClean == Spec => []FormsOpenClean
<1>1. Init => CleanInv
  <2> SUFFICES ASSUME Init PROVE \A l \in DOMAIN slot : slot[l].old = FALSE
    BY DEF CleanInv
  <2>1. PICK s \in Watched :
          slot = [l \in SlotsOf(s) |-> IF PageSlot(s, l)
                     THEN [Closed EXCEPT !.n = 1] ELSE Closed]
    BY DEF Init
  <2>2. Closed.old = FALSE /\ [Closed EXCEPT !.n = 1].old = FALSE
    BY DEF Closed
  <2> QED
    BY <2>1, <2>2
<1>2. PageInv /\ CleanInv /\ [Next]_vars => CleanInv'
  BY CleanNext
<1>3. CleanInv => FormsOpenClean
  BY DEF CleanInv, FormsOpenClean
<1> QED
  BY <1>1, <1>2, <1>3, PageInvariant, PTL DEF Spec

\* Wherever the user has gone, the answer to a request takes nobody to another
\* page, but for the forms that run on after await.
THEOREM AnswersStayAway == Spec => AnswersLeaveOthersAlone
<1> DEFINE Alone ==
      (~AtHome /\ screen' # screen)
         => \E c \in calls : /\ calls' = calls \ {c}
                             /\ <<home, job[c.id].act>> \in Wandering
<1>1. ASSUME PageInv, [Next]_vars, ~AtHome, screen' # screen
      PROVE  \E c \in calls : /\ calls' = calls \ {c}
                              /\ <<home, job[c.id].act>> \in Wandering
  <2>1. PICK c \in calls : Answer(c)
    BY <1>1 DEF Next, vars, uivars, Open, Submit, Sends, Edit, Cancel,
       GoElsewhere, Fetching, Background, Commit, CallFails
  <2>2. calls' = calls \ {c} /\ job[c.id].act \in DOMAIN Acts
    BY <1>1, <2>1 DEF Answer, Data!AnswerThen, PageInv, JobInv, JobOf
  <2>3. Leaves(c)
    BY <1>1, <2>1 DEF Answer
  <2>4. /\ Acts[job[c.id].act].how = "await"
        /\ Acts[job[c.id].act].done \in {"leave", "reload"}
    BY <1>1, <2>3 DEF Leaves, Runs, Done
  <2>5. <<home, job[c.id].act>> \in Wandering
    BY <1>1, <2>2, <2>4, CatalogueAssumption
       DEF PagesLinked, PageInv, SlotTypes, Acts, Here, ActsOf
  <2> QED
    BY <2>2, <2>5
<1>2. PageInv /\ [Next]_vars => [Alone]_vars
  BY <1>1 DEF Alone
<1> QED
  BY <1>2, PageInvariant, PTL DEF Spec, AnswersLeaveOthersAlone

-----------------------------------------------------------------------------
(* Whose dialog an answer closes.                                          *)

\* Around a screen that is hidden no dialog is open.
HiddenForms ==
  ~Parent(cache) => \A l \in DOMAIN slot :
    slot[l].n = IF PageSlot(home, l) THEN 1 ELSE 0

\* What an answer may close is the opening that sent the request, or a form
\* that was mounted after it.
Closer(a) == Acts[a].done = "close" /\ <<home, a>> \notin Intrusive

OwnForms ==
  \A c \in calls : Closer(job[c.id].act) =>
    LET x == slot[Acts[job[c.id].act].slot]
    IN x.n = 0 \/ x.n = job[c.id].n \/ c.id <= x.since

CloseInv == AtHome => HiddenForms /\ OwnForms

\* What closes a dialog is a callback of forms that are mounted with it.
LEMMA CloserSlot ==
  ASSUME SlotTypes, NEW a \in DOMAIN Acts, Acts[a].done = "close"
  PROVE  /\ AtHome => Acts[a].slot \in DOMAIN slot
         /\ ~PageSlot(home, Acts[a].slot)
         /\ Closer(a) => Acts[a].how # "await"
         /\ Closer(a) => \A b \in DOMAIN Acts :
               Acts[b].slot = Acts[a].slot => Acts[b].hook = "child"
<1>1. home \in AllScreens /\ Acts = ActsOf(home)
  BY DEF SlotTypes, Acts, Here, ActsOf
<1>2. AtHome => Acts[a].slot \in DOMAIN slot
  BY DEF SlotTypes, SlotsOf, Acts, Here
<1>3. \A b \in DOMAIN Acts : Acts[a].slot = Acts[b].slot
        => /\ Acts[b].home # "page"
           /\ \/ <<home, a>> \in Intrusive
              \/ Acts[a].how # "await" /\ Acts[b].hook = "child"
  BY <1>1, CatalogueAssumption DEF DialogsOwned
<1>4. ~PageSlot(home, Acts[a].slot)
  BY <1>1, <1>3 DEF PageSlot, ActsOf
<1> QED
  BY <1>2, <1>3, <1>4 DEF Closer

\* A screen whose entries have more data and fewer errors stays.
LEMMA ParentKept ==
  ASSUME NEW e, NEW f, DOMAIN f = DOMAIN e, Parent(e),
         \A q \in DOMAIN e : (e[q].has => f[q].has) /\ (f[q].err => e[q].err)
  PROVE  Parent(f)
BY DEF Parent, Shown

\* Fetches that begin or go on change neither data nor errors.
LEMMA BackgroundKeeps ==
  ASSUME DataInv, NEW q \in DOMAIN cache, Background(q)
  PROVE  /\ DOMAIN cache' = DOMAIN cache
         /\ \A r \in DOMAIN cache : /\ cache'[r].has = cache[r].has
                                    /\ cache'[r].err = cache[r].err
<1>1. cache[q] \in Data!Entry /\ rev[q] \in Nat
  BY DEF DataInv, DataTypes
<1>2. PICK e : /\ cache' = [cache EXCEPT ![q] = e]
               /\ e.has = cache[q].has /\ e.err = cache[q].err
  <2>1. CASE Data!ServerReads(q)
    <3>1. PICK e : e = Data!Read(cache[q], rev[q])
      OBVIOUS
    <3>2. cache' = [cache EXCEPT ![q] = e]
      BY <2>1, <3>1 DEF Data!ServerReads
    <3> QED
      BY <1>1, <3>1, <3>2, ReadEntry
  <2>2. CASE Data!Refresh(q)
    <3>1. PICK e : e = Data!Asked(cache[q])
      OBVIOUS
    <3>2. cache' = [cache EXCEPT ![q] = e]
      BY <2>2, <3>1 DEF Data!Refresh, Data!Shows
    <3> QED
      BY <1>1, <3>1, <3>2, AskedKeeps
  <2> QED
    BY <2>1, <2>2 DEF Background
<1> QED
  BY <1>2 DEF DataInv, DataTypes

\* The openings of the requests under way stay the same, and a dialog keeps
\* its opening unless it closes.
LEMMA OwnStays ==
  ASSUME SlotTypes, SlotTypes', JobInv, OwnForms, AtHome, AtHome',
         UNCHANGED home,
         \A d \in calls' : \E c \in calls : d.id = c.id
                                            /\ job'[d.id] = job[c.id],
         \A l \in DOMAIN slot :
            \/ PageSlot(home, l) \/ slot'[l].n = 0
            \/ slot'[l].n = slot[l].n /\ slot[l].since <= slot'[l].since
  PROVE  OwnForms'
<1>1. Acts' = Acts
  BY DEF Acts, Here
<1> SUFFICES ASSUME NEW d \in calls', Closer(job[d.id].act)'
             PROVE  LET x == slot'[Acts[job'[d.id].act].slot]
                    IN x.n = 0 \/ x.n = job'[d.id].n \/ d.id <= x.since
  BY <1>1 DEF OwnForms
<1>2. PICK c \in calls : d.id = c.id /\ job'[d.id] = job[c.id]
  OBVIOUS
<1> DEFINE a == job[c.id].act
           l == Acts[a].slot
<1>3. a \in DOMAIN Acts /\ c.id \in Nat
  BY DEF JobInv, JobOf, SlotTypes
<1>4. Closer(a)
  BY <1>1, <1>2 DEF Closer
<1>5. l \in DOMAIN slot /\ ~PageSlot(home, l)
  BY <1>3, <1>4, CloserSlot DEF Closer
<1>6. slot[l].n = 0 \/ slot[l].n = job[c.id].n \/ c.id <= slot[l].since
  BY <1>4 DEF OwnForms
<1> HIDE DEF l
<1>7. slot'[l].n = 0 \/ slot'[l].n = job[c.id].n \/ c.id <= slot'[l].since
  <2>1. slot[l].since \in Nat
    BY <1>5 DEF SlotTypes, SlotRec
  <2>2. slot'[l].since \in Nat
    <3>1. l \in DOMAIN slot'
      BY <1>5 DEF SlotTypes, SlotsOf
    <3>2. slot'[l] \in SlotRec(home)
      BY <3>1 DEF SlotTypes, SlotRec
    <3> QED
      BY <3>2 DEF SlotRec
  <2> QED
    BY <1>3, <1>5, <1>6, <2>1, <2>2
<1> QED
  BY <1>2, <1>7 DEF l

\* The user's own steps, on a screen that is shown.
LEMMA UserClose ==
  ASSUME SlotTypes, SlotTypes', JobInv, AtHome, CloseInv,
         \/ \E a \in DOMAIN Acts : Open(a) \/ Submit(a)
         \/ \E l \in DOMAIN slot : Edit(l) \/ Cancel(l)
  PROVE  CloseInv'
<1>0. UNCHANGED <<home, screen, cache>> /\ Parent(cache)
  BY DEF Open, Edit, Cancel, Submit, Sends, Reach, Content, cachevars,
     Data!Send
<1>1. HiddenForms' /\ AtHome'
  BY <1>0 DEF HiddenForms, Parent, Here, AtHome
<1>2. OwnForms
  BY DEF CloseInv
<1>3. Acts' = Acts
  BY <1>0 DEF Acts, Here
<1>4. ASSUME NEW a \in DOMAIN Acts, Open(a)
      PROVE  OwnForms'
  <2>1. PICK y \in SlotRec(home) :
           /\ slot' = [slot EXCEPT ![Acts[a].slot] = y]
           /\ y.since = IF Acts[a].hook = "child" THEN made
                        ELSE slot[Acts[a].slot].since
    BY <1>4, OpenSlot
  <2>2. UNCHANGED <<calls, job>>
    BY <1>4 DEF Open, cachevars
  <2>3. ASSUME NEW c \in calls, Closer(job[c.id].act)
        PROVE  LET x == slot'[Acts[job[c.id].act].slot]
               IN x.n = 0 \/ x.n = job[c.id].n \/ c.id <= x.since
    <3> DEFINE l == Acts[job[c.id].act].slot
    <3>1. job[c.id].act \in DOMAIN Acts /\ c.id <= made
      BY DEF JobInv, JobOf, SlotTypes
    <3>2. l \in DOMAIN slot
      BY <2>3, <3>1, CloserSlot DEF Closer
    <3>3. CASE Acts[a].slot = l
      <4>1. Acts[a].hook = "child"
        BY <2>3, <3>1, <3>3, CloserSlot DEF Closer
      <4>2. slot'[l] = y
        BY <2>1, <3>2, <3>3 DEF SlotTypes
      <4> QED
        BY <2>1, <3>1, <4>1, <4>2
    <3>4. CASE Acts[a].slot # l
      <4>1. slot'[l] = slot[l]
        BY <2>1, <3>2, <3>4 DEF SlotTypes
      <4> QED
        BY <1>2, <2>3, <4>1 DEF OwnForms
    <3> QED
      BY <3>3, <3>4
  <2> QED
    BY <1>0, <1>3, <2>2, <2>3 DEF OwnForms, Closer
<1>5. ASSUME NEW l \in DOMAIN slot, Edit(l) \/ Cancel(l)
      PROVE  OwnForms'
  <2>1. PICK y \in SlotRec(home) :
           /\ slot' = [slot EXCEPT ![l] = y]
           /\ y.since = slot[l].since /\ (y.n = slot[l].n \/ y.n = 0)
    BY <1>5, EditSlot
  <2>2. UNCHANGED <<calls, job>>
    BY <1>5 DEF Edit, Cancel, cachevars
  <2>3. ASSUME NEW k \in DOMAIN slot
        PROVE  \/ slot'[k].n = 0
               \/ slot'[k].n = slot[k].n /\ slot[k].since <= slot'[k].since
    <3>1. slot[k].since \in Nat
      BY DEF SlotTypes, SlotRec
    <3>2. slot'[k] = IF k = l THEN y ELSE slot[k]
      BY <2>1 DEF SlotTypes
    <3>3. slot[k].since <= slot[k].since
      BY <3>1
    <3> QED
      BY <2>1, <3>2, <3>3
  <2> QED
    BY <1>0, <1>1, <1>2, <2>2, <2>3, OwnStays
<1>6. ASSUME NEW a \in DOMAIN Acts, Submit(a)
      PROVE  OwnForms'
  <2>1. PICK d : d = [id |-> made + 1, m |-> Acts[a].sends, state |-> "sent",
                      at |-> [q \in DOMAIN cache |-> 0]]
    OBVIOUS
  <2>2. calls' = calls \cup {d} /\ d.id = made + 1 /\ made' = made + 1
    BY <1>6, <2>1 DEF Submit, Sends, Data!Send
  <2>3. ASSUME NEW c \in calls
        PROVE  c.id # made + 1 /\ job'[c.id] = job[c.id]
    <3>1. c.id \in DOMAIN job /\ c.id \in 1..made /\ made \in Nat
      BY DEF JobInv, JobOf, SlotTypes
    <3> QED
      BY <1>6, <3>1 DEF Submit, Sends
  <2>4. job'[d.id].act = a /\ job'[d.id].n = slot[Acts[a].slot].n
    <3>1. made + 1 \notin DOMAIN job
      BY <2>3 DEF JobInv
    <3> QED
      BY <1>6, <2>2, <3>1 DEF Submit, Sends
  <2>5. /\ DOMAIN slot' = DOMAIN slot
        /\ \A l \in DOMAIN slot :
              slot'[l] = slot[l] \/ slot'[l].n = 0
    <3>1. \A l \in DOMAIN slot : Shut(slot[l]).n = 0
      BY ShutSlot DEF SlotTypes
    <3> QED
      BY <1>6, <3>1, SubmitSlot
  <2>6. ASSUME NEW c \in calls', Closer(job'[c.id].act)
        PROVE  LET x == slot'[Acts[job'[c.id].act].slot]
               IN x.n = 0 \/ x.n = job'[c.id].n \/ c.id <= x.since
    <3>1. CASE c \in calls
      <4>1. job'[c.id] = job[c.id] /\ job[c.id].act \in DOMAIN Acts
        BY <2>3, <3>1 DEF JobInv, JobOf
      <4>2. Acts[job[c.id].act].slot \in DOMAIN slot
        BY <2>6, <4>1, CloserSlot DEF Closer
      <4> QED
        BY <1>2, <2>5, <2>6, <3>1, <4>1, <4>2 DEF OwnForms
    <3>2. CASE c = d
      <4>1. Acts[a].slot \in DOMAIN slot
        BY DEF SlotTypes, SlotsOf, Acts, Here
      <4> QED
        BY <2>4, <2>5, <3>2, <4>1
    <3> QED
      BY <2>2, <3>1, <3>2
  <2> QED
    BY <1>0, <1>3, <2>6 DEF OwnForms, Closer
<1> QED
  BY <1>1, <1>4, <1>5, <1>6 DEF CloseInv

\* New entries close no dialog but those around which the screen goes.
LEMMA DraftClose ==
  ASSUME SlotTypes, SlotTypes', JobInv, AtHome, CloseInv,
         slot' = Drafts(cache'), UNCHANGED <<home, screen, calls, job>>
  PROVE  CloseInv'
<1>1. AtHome' /\ OwnForms
  BY DEF AtHome, CloseInv
<1>2. DOMAIN slot' = DOMAIN slot
  BY DEF Drafts
<1>3. HiddenForms'
  <2>1. Parent(cache)' = Parent(cache')
    BY DEF Parent, Here
  <2> QED
    BY <1>2, <2>1, DraftSlot DEF HiddenForms
<1>4. \A l \in DOMAIN slot :
        \/ PageSlot(home, l) \/ slot'[l].n = 0
        \/ slot'[l].n = slot[l].n /\ slot[l].since <= slot'[l].since
  BY DraftSlot
<1>5. OwnForms'
  BY <1>1, <1>4, OwnStays
<1> QED
  BY <1>3, <1>5 DEF CloseInv

\* Steps that leave the forms and what is rendered alone.
LEMMA StillClose ==
  ASSUME SlotTypes, SlotTypes', JobInv, CloseInv,
         UNCHANGED <<home, screen, slot>>, DOMAIN cache' = DOMAIN cache,
         \A q \in DOMAIN cache : /\ cache[q].has => cache'[q].has
                                 /\ cache'[q].err => cache[q].err,
         \A d \in calls' : \E c \in calls : d.id = c.id
                                            /\ job'[d.id] = job[c.id]
  PROVE  CloseInv'
<1>1. ASSUME AtHome PROVE HiddenForms' /\ OwnForms'
  <2>1. AtHome' /\ OwnForms /\ HiddenForms
    BY <1>1 DEF AtHome, CloseInv
  <2>2. Parent(cache)' = Parent(cache')
    BY DEF Parent, Here
  <2>3. HiddenForms'
    BY <2>1, <2>2, ParentKept DEF HiddenForms
  <2>4. \A l \in DOMAIN slot : slot[l].since <= slot'[l].since
    <3>1. \A l \in DOMAIN slot : slot[l].since \in Nat
      BY DEF SlotTypes, SlotRec
    <3> QED
      BY <3>1
  <2> QED
    BY <1>1, <2>1, <2>3, <2>4, OwnStays
<1> QED
  BY <1>1 DEF CloseInv, AtHome

\* What an answer makes of the forms closes its own dialog, at most.
LEMMA AnswerClose ==
  ASSUME SlotTypes, SlotTypes', JobInv, AtHome, CloseInv, NEW c \in calls,
         slot' = Follow(c, Drafts(cache')), UNCHANGED <<home, screen>>,
         calls' = calls \ {c}, job' = WithoutJob(c)
  PROVE  CloseInv'
<1>1. AtHome' /\ OwnForms /\ job[c.id].act \in DOMAIN Acts
  BY DEF AtHome, CloseInv, JobInv, JobOf
<1>2. PICK drafts : drafts = Drafts(cache')
  OBVIOUS
<1>3. drafts \in [DOMAIN slot -> SlotRec(home)]
  BY <1>2, DraftsTypes
<1>4. PICK f : f = Follow(c, drafts)
  OBVIOUS
<1>5. /\ f \in [DOMAIN slot -> SlotRec(home)]
      /\ \A l \in DOMAIN slot :
            /\ f[l].since = drafts[l].since
            /\ f[l].n = drafts[l].n
               \/ /\ f[l].n = 0
                  /\ Acts[job[c.id].act].done = "close"
                  /\ l = Acts[job[c.id].act].slot
  BY <1>1, <1>3, <1>4, FollowSlot DEF Done
<1>6. slot' = f
  BY <1>2, <1>4
<1>7. HiddenForms'
  <2>1. Parent(cache)' = Parent(cache')
    BY DEF Parent, Here
  <2>2. ASSUME NEW l \in DOMAIN slot, ~Parent(cache')
        PROVE  f[l].n = IF PageSlot(home, l) THEN 1 ELSE 0
    <3>1. drafts[l].n = IF PageSlot(home, l) THEN 1 ELSE 0
      BY <1>2, <2>2, DraftSlot
    <3>2. f[l].n = drafts[l].n \/ (f[l].n = 0 /\ ~PageSlot(home, l))
      BY <1>1, <1>5, CloserSlot
    <3> QED
      BY <3>1, <3>2
  <2> QED
    BY <1>5, <1>6, <2>1, <2>2 DEF HiddenForms
<1>8. \A l \in DOMAIN slot :
        \/ PageSlot(home, l) \/ f[l].n = 0
        \/ f[l].n = slot[l].n /\ slot[l].since <= f[l].since
  <2> TAKE l \in DOMAIN slot
  <2>1. /\ slot[l].since <= drafts[l].since
        /\ drafts[l].n = slot[l].n \/ PageSlot(home, l) \/ drafts[l].n = 0
    BY <1>2, DraftSlot
  <2> QED
    BY <1>5, <2>1
<1>9. \A d \in calls' : \E b \in calls : d.id = b.id /\ job'[d.id] = job[b.id]
  BY DEF WithoutJob, JobInv
<1>10. OwnForms'
  BY <1>1, <1>6, <1>8, <1>9, OwnStays
<1> QED
  BY <1>7, <1>10 DEF CloseInv

\* At first every form is the page's own, and nothing was sent.
LEMMA CloseInit == Init => CloseInv
<1> SUFFICES ASSUME Init PROVE HiddenForms /\ OwnForms
  BY DEF CloseInv
<1>1. PICK s \in Watched :
         /\ home = s
         /\ slot = [l \in SlotsOf(s) |-> IF PageSlot(s, l)
                      THEN [Closed EXCEPT !.n = 1] ELSE Closed]
  BY DEF Init
<1>2. calls = {}
  BY DEF Init, Data!CacheInit
<1>3. Closed.n = 0 /\ [Closed EXCEPT !.n = 1].n = 1
  BY DEF Closed
<1> QED
  BY <1>1, <1>2, <1>3 DEF HiddenForms, OwnForms

\* Every step keeps the dialogs with those who opened them.
LEMMA CloseNext ==
  ASSUME PageInv, PageInv', CloseInv, [Next]_vars
  PROVE  CloseInv'
<1>1. SlotTypes /\ SlotTypes' /\ JobInv /\ DataInv
  BY DEF PageInv
<1>2. ASSUME NEW a \in DOMAIN Acts, AtHome, Open(a) \/ Submit(a)
      PROVE  CloseInv'
  BY <1>1, <1>2, UserClose
<1>3. ASSUME NEW l \in DOMAIN slot, Edit(l) \/ Cancel(l)
      PROVE  CloseInv'
  <2>1. AtHome
    BY <1>3 DEF Edit, Cancel, Reach, Content
  <2> QED
    BY <1>1, <1>3, <2>1, UserClose
<1>4. ASSUME screen' # home, UNCHANGED home
      PROVE  CloseInv'
  BY <1>4 DEF CloseInv, AtHome
<1>5. ASSUME NEW Q, GoElsewhere(Q)
      PROVE  CloseInv'
  <2>1. screen' # home /\ UNCHANGED home
    BY <1>1, <1>5, CatalogueAssumption DEF PagesLinked, SlotTypes, GoElsewhere
  <2> QED
    BY <1>4, <2>1
<1>6. ASSUME NEW q \in DOMAIN cache, Fetching(q)
      PROVE  CloseInv'
  <2>1. Rendered /\ UNCHANGED <<home, screen, calls, job>>
    BY <1>6 DEF Fetching, Data!Arrives, Data!FetchFails
  <2>2. CASE AtHome
    BY <1>1, <2>1, <2>2, DraftClose DEF Rendered
  <2>3. CASE ~AtHome
    BY <2>1, <2>3 DEF CloseInv, AtHome
  <2> QED
    BY <2>2, <2>3
<1>7. ASSUME NEW q \in DOMAIN cache, Background(q)
      PROVE  CloseInv'
  <2>1. UNCHANGED <<home, screen, slot, calls, job>>
    BY <1>7 DEF Background, uivars, Data!ServerReads, Data!Refresh, Data!Shows
  <2> QED
    BY <1>1, <1>7, <2>1, BackgroundKeeps, StillClose
<1>8. ASSUME NEW c \in calls, Commit(c)
      PROVE  CloseInv'
  <2>1. PICK d : d = [c EXCEPT !.state = "done", !.at = rev']
    OBVIOUS
  <2>2. /\ calls' = (calls \ {c}) \cup {d}
        /\ UNCHANGED <<home, screen, slot, cache, job>>
    BY <1>8, <2>1 DEF Commit, Data!Commit, Data!Becomes
  <2>3. d.id = c.id
    BY <1>1, <2>1 DEF DataInv, DataTypes
  <2> QED
    BY <1>1, <2>2, <2>3, StillClose
<1>9. ASSUME NEW c \in calls, CallFails(c)
      PROVE  CloseInv'
  <2>1. /\ calls' = calls \ {c} /\ job' = WithoutJob(c)
        /\ UNCHANGED <<home, screen, slot, cache>>
    BY <1>9 DEF CallFails, Data!CallFails
  <2>2. \A d \in calls' : \E b \in calls : d.id = b.id /\ job'[d.id] = job[b.id]
    BY <1>1, <2>1 DEF WithoutJob, JobInv
  <2> QED
    BY <1>1, <2>1, <2>2, StillClose
<1>10. ASSUME NEW c \in calls, Answer(c)
       PROVE  CloseInv'
  <2>1. /\ calls' = calls \ {c} /\ job' = WithoutJob(c) /\ UNCHANGED home
        /\ job[c.id].act \in DOMAIN Acts
    BY <1>1, <1>10 DEF Answer, Data!AnswerThen, JobInv, JobOf
  <2>2. \/ screen' # home
        \/ screen' = screen /\ ~AtHome
        \/ screen' = screen /\ AtHome /\ slot' = Follow(c, Drafts(cache'))
    BY <1>1, <1>10, <2>1, AnswerSlots
  <2>3. CASE screen' = screen /\ ~AtHome
    BY <2>1, <2>3 DEF CloseInv, AtHome
  <2>4. CASE screen' = screen /\ AtHome /\ slot' = Follow(c, Drafts(cache'))
    BY <1>1, <2>1, <2>4, AnswerClose
  <2> QED
    BY <1>4, <2>1, <2>2, <2>3, <2>4
<1>11. CASE UNCHANGED vars
  BY <1>11 DEF vars, uivars, cachevars, CloseInv, AtHome, HiddenForms, OwnForms,
     Parent, Here, PageSlot, Closer, Acts
<1> QED
  BY <1>2, <1>3, <1>5, <1>6, <1>7, <1>8, <1>9, <1>10, <1>11 DEF Next

\* A step that ends a request and stays on the screen: its answer, or its
\* failure.
LEMMA EndsByAnswer ==
  ASSUME PageInv, [Next]_vars, NEW c \in calls, calls' = calls \ {c},
         screen' = screen
  PROVE  slot' = slot \/ Answer(c)
<1>1. ASSUME NEW a \in DOMAIN Acts, Submit(a)
      PROVE  FALSE
  BY <1>1 DEF Submit, Sends, Data!Send
<1>2. calls' # calls
  OBVIOUS
<1>3. ASSUME NEW b \in calls, Answer(b)
      PROVE  Answer(c)
  <2>1. calls' = calls \ {b}
    BY <1>3 DEF Answer, Data!AnswerThen
  <2>2. b = c
    BY <2>1
  <2> QED
    BY <1>3, <2>2
<1>4. ASSUME \/ \E a \in DOMAIN Acts : Open(a)
             \/ \E l \in DOMAIN slot : Edit(l) \/ Cancel(l)
             \/ \E Q : GoElsewhere(Q)
             \/ \E q \in DOMAIN cache : Fetching(q) \/ Background(q)
             \/ UNCHANGED vars
      PROVE  UNCHANGED calls
  BY <1>4 DEF Open, Edit, Cancel, GoElsewhere, Fetching, Background, vars,
     cachevars, Data!Shows, Data!Arrives, Data!FetchFails, Data!ServerReads,
     Data!Refresh
<1>5. ASSUME NEW b \in calls, Commit(b) \/ CallFails(b)
      PROVE  slot' = slot
  BY <1>5 DEF Commit, CallFails
<1> QED
  BY <1>1, <1>2, <1>3, <1>4, <1>5 DEF Next

\* An answer that keeps the screen closes the opening that sent the request,
\* or nothing.
LEMMA ClosesOwn ==
  ASSUME PageInv, CloseInv, NEW c \in calls, Answer(c), screen' = screen,
         <<home, job[c.id].act>> \notin Intrusive, NEW l \in DOMAIN slot,
         slot[l].n \notin {0, job[c.id].n}
  PROVE  slot'[l].n = slot[l].n
<1>1. /\ SlotTypes /\ JobInv /\ DataInv /\ job[c.id].act \in DOMAIN Acts
      /\ c.id \in Nat
  BY DEF PageInv, JobInv, JobOf, SlotTypes
<1>2. AtHome
  BY <1>1 DEF SlotTypes
<1>3. \/ slot' = slot
      \/ /\ slot' = Follow(c, Drafts(cache'))
         /\ cache' = [q \in DOMAIN cache |-> Data!Settled(q, c)]
  BY <1>1, <1>2, AnswerSlots DEF AtHome
<1>4. CASE /\ slot' = Follow(c, Drafts(cache'))
           /\ cache' = [q \in DOMAIN cache |-> Data!Settled(q, c)]
  <2>1. PICK drafts : drafts = Drafts(cache')
    OBVIOUS
  <2>2. drafts \in [DOMAIN slot -> SlotRec(home)]
    BY <1>1, <2>1, DraftsTypes
  <2>3. PICK f : f = Follow(c, drafts)
    OBVIOUS
  <2>4. /\ f[l].n = drafts[l].n
           \/ /\ Runs(c) /\ Acts[job[c.id].act].done = "close"
              /\ l = Acts[job[c.id].act].slot
    BY <1>1, <1>2, <2>2, <2>3, FollowSlot DEF Done
  <2>5. Parent(cache) => Parent(cache')
    <3>1. \A q \in DOMAIN cache : /\ cache[q].has => cache'[q].has
                                  /\ cache'[q].err => cache[q].err
      BY <1>1, <1>4, SettledEntry
    <3> QED
      BY <1>4, <3>1, ParentKept
  <2>6. drafts[l].n = slot[l].n
    <3>1. CASE Parent(cache')
      BY <1>1, <2>1, <3>1, DraftSlot
    <3>2. CASE ~Parent(cache')
      <4>1. slot[l].n = IF PageSlot(home, l) THEN 1 ELSE 0
        BY <1>2, <2>5, <3>2 DEF CloseInv, HiddenForms
      <4>2. drafts[l].n = IF PageSlot(home, l) THEN 1 ELSE 0
        BY <1>1, <2>1, <3>2, DraftSlot
      <4> QED
        BY <4>1, <4>2
    <3> QED
      BY <3>1, <3>2
  <2>7. ~(/\ Runs(c) /\ Acts[job[c.id].act].done = "close"
          /\ l = Acts[job[c.id].act].slot)
    <3> SUFFICES ASSUME Runs(c), Acts[job[c.id].act].done = "close",
                        l = Acts[job[c.id].act].slot
                 PROVE  FALSE
      OBVIOUS
    <3>1. Closer(job[c.id].act)
      BY DEF Closer
    <3>2. c.id <= slot[l].since
      BY <1>2, <3>1 DEF CloseInv, OwnForms
    <3>3. c.id > slot[l].since
      BY <1>1, <3>1, CloserSlot DEF Runs
    <3>4. slot[l].since \in Nat
      BY <1>1 DEF SlotTypes, SlotRec
    <3> QED
      BY <1>1, <3>2, <3>3, <3>4
  <2> QED
    BY <1>4, <2>1, <2>3, <2>4, <2>6, <2>7
<1> QED
  BY <1>3, <1>4

\* However late it is, the answer to a request neither closes nor replaces a
\* dialog that was opened since, but for those of Intrusive.
THEOREM AnswersCloseOwn == Spec => AnswersCloseTheirOwn
<1> DEFINE Own ==
      \A c \in calls :
         (/\ calls' = calls \ {c} /\ screen' = screen
          /\ <<home, job[c.id].act>> \notin Intrusive)
            => \A l \in DOMAIN slot :
                 slot[l].n \notin {0, job[c.id].n} => slot'[l].n = slot[l].n
<1>1. PageInv /\ PageInv' /\ CloseInv /\ [Next]_vars => CloseInv'
  BY CloseNext
<1>2. PageInv /\ CloseInv /\ [Next]_vars => [Own]_vars
  BY EndsByAnswer, ClosesOwn
<1> QED
  BY <1>1, <1>2, CloseInit, PageInvariant, PTL DEF Spec, AnswersCloseTheirOwn

-----------------------------------------------------------------------------
(* What a refetch leaves of the drafts.                                    *)

\* Something was typed or sent: the screen around the forms is there, with
\* the data that it needs, and what could hide it is not fetched again.
Begun == made > 0 \/ \E l \in DOMAIN slot : slot[l].dirty

Steady ==
  /\ Parent(cache)
  /\ \A q \in Required(home) \cap DOMAIN cache : cache[q].has

Unfetched ==
  \A q \in Unmounting(home) \cap DOMAIN cache :
    cache[q].has => cache[q].phase = "idle"

\* The only form of a page has one request under way, and its answer follows.
OneCall ==
  /\ \A l \in DOMAIN slot : slot[l].since = 0
  /\ \A b, c \in calls : b = c
  /\ DOMAIN newest = DOMAIN Acts
  /\ \A c \in calls : \A a \in DOMAIN Acts : newest[a] <= c.id

\* What was typed is on the screen.
Typed ==
  \A l \in DOMAIN slot : slot[l].dirty =>
    /\ l \notin {"button", "confirm"}
    /\ slot[l].n # 0 /\ OwnState(l) => Content(cache)

WriteInv == (Begun => Steady) /\ Unfetched /\ (OneForm(home) => OneCall)

Careful == AtHome /\ home \notin Fragile

DraftInv == Careful => Typed /\ (Writable(home) => WriteInv)

\* What the tables say of a page that is not fragile.
LEMMA SafeHome ==
  ASSUME SlotTypes, home \notin Fragile, Writable(home)
  PROVE  /\ Unmounting(home) \subseteq Required(home)
         /\ Unmounting(home) \cap PolledQueries = {}
         /\ \A a \in DOMAIN Acts :
               \/ Unmounting(home) \cap RefreshesOf[Acts[a].sends] = {}
               \/ /\ Acts[a].done = "leave"
                  /\ Acts[a].how = "await" \/ OneForm(home)
         /\ \A a \in DOMAIN Acts : Acts[a].seed # "sync"
<1>1. home \in AllScreens /\ Acts = ActsOf(home)
  BY DEF SlotTypes, Acts, Here, ActsOf
<1> QED
  BY <1>1, CatalogueAssumption DEF DraftsSafe, FormsCareful

\* A draft makes a page one with something to type into.
LEMMA TypedWritable ==
  ASSUME SlotTypes, Typed, AtHome, NEW l \in DOMAIN slot, slot[l].dirty
  PROVE  Writable(home)
BY DEF SlotTypes, Typed, SlotsOf, Writable, ActsOf

\* A screen whose entries have more data, and errors only where they do not
\* matter to the drafts, stays as it is.
LEMMA ErrorsElsewhere ==
  ASSUME SlotTypes, NEW f, DOMAIN f = DOMAIN cache, Parent(cache),
         \A q \in DOMAIN cache :
            /\ cache[q].has => f[q].has
            /\ f[q].err => cache[q].err \/ q \notin Unmounting(home)
  PROVE  /\ Parent(f)
         /\ \A l \in DOMAIN slot : Content(cache) /\ OwnState(l) => Content(f)
<1>1. Parent(f)
  BY DEF Parent, Shown, Unmounting, Here
<1>2. ASSUME NEW l \in DOMAIN slot, Content(cache), OwnState(l)
      PROVE  Content(f)
  <2>1. slot[l].act \in DOMAIN ActsOf(home)
    BY <1>2 DEF OwnState, SlotTypes, SlotRec
  <2>2. Here.fails \subseteq Unmounting(home)
    BY <1>2, <2>1 DEF OwnState, Unmounting, Acts, Here, ActsOf
  <2> QED
    BY <1>1, <1>2, <2>2 DEF Content, Shown
<1> QED
  BY <1>1, <1>2

\* A form that is shown needs what its screens need.
LEMMA ContentSteady ==
  ASSUME Content(cache)
  PROVE  Steady
BY DEF Content, Steady, Parent, Shown, Required, Here

\* Drafts of new entries, and what is left of them.
LEMMA TypedDrafts ==
  ASSUME SlotTypes, AtHome, Typed, UNCHANGED <<home, screen>>,
         DOMAIN slot' = DOMAIN slot,
         \A l \in DOMAIN slot :
            LET x == Drafts(cache')[l]
                y == slot'[l]
            IN /\ y.dirty => x.dirty
               /\ y.n # 0 => y.act = x.act /\ x.n # 0
  PROVE  Typed'
<1> SUFFICES ASSUME NEW l \in DOMAIN slot, slot'[l].dirty
             PROVE  /\ l \notin {"button", "confirm"}
                    /\ slot'[l].n # 0 /\ OwnState(l)' => Content(cache)'
  BY DEF Typed
<1>1. PICK x : x = Drafts(cache')[l]
  OBVIOUS
<1>2. /\ x.dirty
      /\ slot'[l].n # 0 => slot'[l].act = x.act /\ x.n # 0
  BY <1>1
<1>3. /\ slot[l].dirty
      /\ Parent(cache')
      /\ OwnState(l) /\ x.n # 0 => Content(cache')
      /\ x.act = slot[l].act
  <2>1. /\ x.dirty => slot[l].dirty
        /\ ~Parent(cache') => x.dirty = FALSE
        /\ x.dirty /\ x.n # 0 /\ OwnState(l) => Content(cache')
        /\ Parent(cache') => x.act = slot[l].act
    BY <1>1, DraftSlot
  <2>2. Parent(cache')
    BY <1>2, <2>1
  <2> QED
    BY <1>2, <2>1, <2>2
<1>4. Content(cache)' = Content(cache')
  BY DEF Content, AtHome, Here, Parent
<1>5. slot'[l].n # 0 /\ OwnState(l)' => OwnState(l) /\ x.n # 0
  BY <1>2, <1>3 DEF OwnState, Acts, Here
<1> QED
  BY <1>3, <1>4, <1>5 DEF Typed

\* At first nothing is typed, and what has data is not fetched.
LEMMA DraftInit == Init => DraftInv
<1> SUFFICES ASSUME Init PROVE Typed /\ WriteInv
  BY DEF DraftInv
<1>1. PICK s \in Watched :
         /\ \E W \in WatchesOf(s) :
               Data!CacheInit(W, W \cap Reads(s), W \ Reads(s))
         /\ home = s
         /\ slot = [l \in SlotsOf(s) |-> IF PageSlot(s, l)
                      THEN [Closed EXCEPT !.n = 1] ELSE Closed]
         /\ newest = [a \in DOMAIN Screenful[s].acts |-> 0]
  BY DEF Init
<1>2. PICK W \in WatchesOf(s) :
         Data!CacheInit(W, W \cap Reads(s), W \ Reads(s))
  BY <1>1
<1>3. /\ cache = [q \in W |-> Data!Fresh(q \in W \cap Reads(s),
                                         q \in W \ Reads(s))]
      /\ calls = {} /\ made = 0
  BY <1>2 DEF Data!CacheInit
<1>4. \A l \in DOMAIN slot : slot[l].dirty = FALSE /\ slot[l].since = 0
  <2>1. /\ Closed.dirty = FALSE /\ [Closed EXCEPT !.n = 1].dirty = FALSE
        /\ Closed.since = 0 /\ [Closed EXCEPT !.n = 1].since = 0
    BY DEF Closed
  <2> QED
    BY <1>1, <2>1
<1>5. \A q \in DOMAIN cache : cache[q].has => cache[q].phase = "idle"
  <2> TAKE q \in DOMAIN cache
  <2>1. (q \in W \cap Reads(s)) \in BOOLEAN /\ (q \in W \ Reads(s)) \in BOOLEAN
    OBVIOUS
  <2>2. PICK e : e = Data!Fresh(q \in W \cap Reads(s), q \in W \ Reads(s))
    OBVIOUS
  <2>3. /\ e.has = (q \in W \ Reads(s))
        /\ e.phase = IF q \in W \cap Reads(s) /\ ~(q \in W \ Reads(s))
                     THEN "asked" ELSE "idle"
    BY <2>1, <2>2, FreshEntry
  <2>4. cache[q] = e
    BY <1>3, <2>2
  <2> QED
    BY <2>3, <2>4
<1>6. ~Begun
  BY <1>3, <1>4 DEF Begun
<1>7. OneCall
  BY <1>1, <1>3, <1>4 DEF OneCall, Acts, Here
<1> QED
  BY <1>4, <1>5, <1>6, <1>7 DEF Typed, WriteInv, Unfetched

\* A step of the user puts nothing on a screen that is not there.
LEMMA UserTyped ==
  ASSUME SlotTypes, Typed, UNCHANGED <<home, screen, cache>>,
         NEW l \in DOMAIN slot, NEW y \in SlotRec(home),
         slot' = [slot EXCEPT ![l] = y],
         y.dirty => /\ l \notin {"button", "confirm"}
                    /\ y.n = 0 \/ Content(cache)
  PROVE  Typed'
<1>1. /\ DOMAIN slot' = DOMAIN slot
      /\ \A k \in DOMAIN slot : slot'[k] = IF k = l THEN y ELSE slot[k]
  BY DEF SlotTypes
<1>2. Content(cache)' = Content(cache)
  BY DEF Content, AtHome, Here, Parent
<1>3. ASSUME NEW k \in DOMAIN slot, k # l
      PROVE  OwnState(k)' = OwnState(k)
  BY <1>1, <1>3 DEF OwnState, Acts, Here
<1> QED
  BY <1>1, <1>2, <1>3 DEF Typed

\* The only form of a page is not sent while its request is under way.
LEMMA UserOneCall ==
  ASSUME SlotTypes, JobInv, OneCall, OneForm(home), AtHome,
         \/ \E a \in DOMAIN Acts : Open(a) \/ Submit(a)
         \/ \E l \in DOMAIN slot : Edit(l) \/ Cancel(l)
  PROVE  OneCall'
<1>1. /\ \A l \in DOMAIN slot : slot[l].since = 0
      /\ \A b, c \in calls : b = c
      /\ DOMAIN newest = DOMAIN Acts
      /\ \A c \in calls : \A a \in DOMAIN Acts : newest[a] <= c.id
  BY DEF OneCall
<1>2. \A a, b \in DOMAIN Acts :
        a = b /\ Acts[a].home = "page" /\ Acts[a].guard = TRUE
  BY DEF OneForm, ActsOf, Acts, Here
<1>3. ASSUME NEW a \in DOMAIN Acts, Open(a)
      PROVE  FALSE
  BY <1>2, <1>3 DEF Open
<1>4. ASSUME NEW l \in DOMAIN slot, Edit(l) \/ Cancel(l)
      PROVE  OneCall'
  <2>1. PICK y \in SlotRec(home) :
           slot' = [slot EXCEPT ![l] = y] /\ y.since = slot[l].since
    BY <1>4, EditSlot
  <2>2. UNCHANGED <<home, calls, newest>>
    BY <1>4 DEF Edit, Cancel, cachevars
  <2>3. /\ DOMAIN slot' = DOMAIN slot
        /\ \A k \in DOMAIN slot : slot'[k] = IF k = l THEN y ELSE slot[k]
    BY <2>1 DEF SlotTypes
  <2> QED
    BY <1>1, <2>1, <2>2, <2>3 DEF OneCall, Acts, Here
<1>5. ASSUME NEW a \in DOMAIN Acts, Submit(a)
      PROVE  OneCall'
  <2>1. calls = {}
    <3> SUFFICES ASSUME NEW c \in calls PROVE FALSE
      OBVIOUS
    <3>1. job[c.id].act \in DOMAIN Acts /\ c.id \in 1..made /\ made \in Nat
      BY DEF JobInv, JobOf, SlotTypes
    <3>2. job[c.id].act = a
      BY <1>2, <3>1
    <3>3. Acts[a].slot \in DOMAIN slot
      BY DEF SlotTypes, SlotsOf, Acts, Here
    <3>4. c.id > slot[Acts[a].slot].since
      BY <1>1, <3>1, <3>3
    <3>5. Busy(a)
      BY <3>2, <3>4 DEF Busy, Shares, SameHook
    <3> QED
      BY <1>2, <1>5, <3>5 DEF Submit
  <2>2. PICK d : d = [id |-> made + 1, m |-> Acts[a].sends, state |-> "sent",
                      at |-> [q \in DOMAIN cache |-> 0]]
    OBVIOUS
  <2>3. /\ calls' = {d} /\ d.id = made + 1 /\ made \in Nat
        /\ newest' = [newest EXCEPT ![a] = made + 1] /\ UNCHANGED home
    BY <1>5, <2>1, <2>2 DEF Submit, Sends, Data!Send, SlotTypes
  <2>4. DOMAIN newest' = DOMAIN Acts /\ newest'[a] = made + 1
    BY <1>1, <2>3
  <2>5. \A b \in DOMAIN Acts : newest'[b] <= d.id
    <3>1. \A b \in DOMAIN Acts : b = a
      BY <1>2
    <3> QED
      BY <2>3, <2>4, <3>1
  <2>6. /\ DOMAIN slot' = DOMAIN slot
        /\ \A l \in DOMAIN slot : slot'[l].since = 0
    <3>1. \A l \in DOMAIN slot : Shut(slot[l]).since = slot[l].since
      BY ShutSlot DEF SlotTypes
    <3> QED
      BY <1>1, <1>5, <3>1, SubmitSlot
  <2> QED
    BY <2>3, <2>4, <2>5, <2>6 DEF OneCall, Acts, Here
<1> QED
  BY <1>3, <1>4, <1>5

\* The user acts on a screen that is shown.
LEMMA UserDraft ==
  ASSUME SlotTypes, JobInv, Typed, Writable(home) => WriteInv, AtHome,
         \/ \E a \in DOMAIN Acts : Open(a) \/ Submit(a)
         \/ \E l \in DOMAIN slot : Edit(l) \/ Cancel(l)
  PROVE  Typed' /\ (Writable(home) => WriteInv')
<1>0. UNCHANGED <<home, screen, cache>> /\ Content(cache)
  BY DEF Open, Edit, Cancel, Submit, Sends, Reach, cachevars, Data!Send
<1>1. Steady'
  BY <1>0, ContentSteady DEF Steady, Parent, Here
<1>2. Writable(home) => Unfetched'
  BY <1>0 DEF WriteInv, Unfetched
<1>3. Writable(home) => (OneForm(home) => OneCall)'
  BY <1>0, UserOneCall DEF WriteInv
<1>4. ASSUME NEW a \in DOMAIN Acts, Open(a)
      PROVE  Typed'
  <2>1. PICK y \in SlotRec(home) :
           slot' = [slot EXCEPT ![Acts[a].slot] = y] /\ y.dirty = FALSE
    BY <1>4, OpenSlot
  <2>2. Acts[a].slot \in DOMAIN slot
    BY DEF SlotTypes, SlotsOf, Acts, Here
  <2> QED
    BY <1>0, <2>1, <2>2, UserTyped
<1>5. ASSUME NEW l \in DOMAIN slot, Edit(l) \/ Cancel(l)
      PROVE  Typed'
  <2>1. PICK y \in SlotRec(home) :
           /\ slot' = [slot EXCEPT ![l] = y]
           /\ Edit(l) \/ (y.n = 0 /\ (y.dirty => slot[l].dirty))
    BY <1>5, EditSlot
  <2>2. y.dirty => l \notin {"button", "confirm"}
    BY <2>1 DEF Edit, Typed
  <2> QED
    BY <1>0, <2>1, <2>2, UserTyped
<1>6. ASSUME NEW a \in DOMAIN Acts, Submit(a)
      PROVE  Typed'
  <2>1. CASE slot' = slot
    BY <1>0, <2>1 DEF Typed, OwnState, Acts, Here, Content, AtHome, Parent
  <2>2. CASE slot' = [slot EXCEPT ![Acts[a].slot] = Shut(@)]
    <3>1. Acts[a].slot \in DOMAIN slot
      BY DEF SlotTypes, SlotsOf, Acts, Here
    <3>2. PICK y : y = Shut(slot[Acts[a].slot])
      OBVIOUS
    <3>3. /\ y \in SlotRec(home) /\ y.n = 0
          /\ y.dirty => slot[Acts[a].slot].dirty
      BY <3>1, <3>2, ShutSlot DEF SlotTypes
    <3>4. slot' = [slot EXCEPT ![Acts[a].slot] = y]
      BY <2>2, <3>2
    <3>5. y.dirty => Acts[a].slot \notin {"button", "confirm"}
      BY <3>1, <3>3 DEF Typed
    <3> QED
      BY <1>0, <3>1, <3>3, <3>4, <3>5, UserTyped
  <2> QED
    BY <1>6, <2>1, <2>2 DEF Submit, Sends
<1>7. Typed'
  BY <1>4, <1>5, <1>6
<1> QED
  BY <1>1, <1>2, <1>3, <1>7 DEF WriteInv

\* While something is typed or sent, what a fetch brings hides no form of its
\* page, nor does its failure.
LEMMA FetchKeeps ==
  ASSUME DataInv, SlotTypes, WriteInv, Begun, home \notin Fragile,
         Writable(home), NEW q \in DOMAIN cache,
         Data!Arrives(q) \/ Data!FetchFails(q)
  PROVE  /\ DOMAIN cache' = DOMAIN cache
         /\ \A r \in DOMAIN cache :
               /\ cache[r].has => cache'[r].has
               /\ cache'[r].err => cache[r].err \/ r \notin Unmounting(home)
<1>1. cache[q] \in Data!Entry
  BY DEF DataInv, DataTypes
<1>2. CASE Data!Arrives(q)
  <2>1. PICK e : e = Data!Received(cache[q])
    OBVIOUS
  <2>2. cache' = [cache EXCEPT ![q] = e]
    BY <1>2, <2>1 DEF Data!Arrives
  <2>3. e.has = TRUE /\ e.err = FALSE
    BY <1>1, <2>1, ReceivedEntry
  <2> QED
    BY <2>2, <2>3 DEF DataInv, DataTypes
<1>3. CASE Data!FetchFails(q)
  <2>1. PICK e : e = Data!Failed(cache[q])
    OBVIOUS
  <2>2. cache' = [cache EXCEPT ![q] = e] /\ cache[q].phase # "idle"
    BY <1>3, <2>1 DEF Data!FetchFails
  <2>3. e.has = cache[q].has
    BY <1>1, <2>1, FailedEntry
  <2>4. q \notin Unmounting(home)
    <3>1. Steady /\ Unfetched
      BY DEF WriteInv
    <3> QED
      BY <2>2, <3>1, SafeHome DEF Steady, Unfetched
  <2> QED
    BY <2>2, <2>3, <2>4 DEF DataInv, DataTypes
<1> QED
  BY <1>2, <1>3

\* A form that is not the dialog of its page is mounted anew only when the
\* screen around it goes.
LEMMA SameMounting ==
  ASSUME SlotTypes, OneForm(home), NEW entries, Parent(entries) \/ made = 0,
         NEW l \in DOMAIN slot, slot[l].since = 0
  PROVE  Drafts(entries)[l].since = 0
<1>1. PICK y : y = Drafts(entries)[l]
  OBVIOUS
<1>2. /\ y.since \in {slot[l].since, made}
      /\ Parent(entries) /\ y.since # slot[l].since => OwnState(l)
  BY <1>1, DraftSlot
<1>3. ~OwnState(l)
  <2>1. slot[l].act \in DOMAIN ActsOf(home) \cup {""}
    BY DEF SlotTypes, SlotRec
  <2> QED
    BY <2>1 DEF OneForm, OwnState, Acts, Here, ActsOf
<1> QED
  BY <1>1, <1>2, <1>3

\* A fetch that ends hides no form with a draft.
LEMMA FetchDraft ==
  ASSUME DataInv, SlotTypes, Typed, Writable(home) => WriteInv, AtHome,
         home \notin Fragile, NEW q \in DOMAIN cache, Fetching(q)
  PROVE  Typed' /\ (Writable(home) => WriteInv')
<1>1. /\ slot' = Drafts(cache')
      /\ UNCHANGED <<home, screen, calls, made, newest>>
      /\ Data!Arrives(q) \/ Data!FetchFails(q)
  BY DEF Fetching, Rendered, Data!Arrives, Data!FetchFails
<1>2. DOMAIN slot' = DOMAIN slot
  BY <1>1 DEF Drafts
<1>3. Typed'
  <2>1. ASSUME NEW l \in DOMAIN slot
        PROVE  LET x == Drafts(cache')[l]
                   y == slot'[l]
               IN /\ y.dirty => x.dirty
                  /\ y.n # 0 => y.act = x.act /\ x.n # 0
    BY <1>1
  <2> QED
    BY <1>1, <1>2, <2>1, TypedDrafts
<1>4. ASSUME Writable(home)
      PROVE  WriteInv'
  <2>1. WriteInv
    BY <1>4
  <2>2. Begun' => Begun
    <3>1. \A l \in DOMAIN slot : Drafts(cache')[l].dirty => slot[l].dirty
      BY DraftSlot
    <3> QED
      BY <1>1, <1>2, <3>1 DEF Begun
  <2>3. Begun => Steady'
    <3> SUFFICES ASSUME Begun PROVE Steady'
      OBVIOUS
    <3>1. /\ DOMAIN cache' = DOMAIN cache
          /\ \A r \in DOMAIN cache :
                /\ cache[r].has => cache'[r].has
                /\ cache'[r].err => cache[r].err \/ r \notin Unmounting(home)
      BY <1>1, <1>4, <2>1, FetchKeeps
    <3>2. Steady
      BY <2>1 DEF WriteInv
    <3>3. Parent(cache')
      BY <3>1, <3>2, ErrorsElsewhere DEF Steady
    <3>4. Parent(cache)' = Parent(cache')
      BY <1>1 DEF Parent, Here
    <3> QED
      BY <1>1, <3>1, <3>2, <3>3, <3>4 DEF Steady
  <2>4. Unfetched'
    <3>1. PICK e : cache' = [cache EXCEPT ![q] = e] /\ e.phase = "idle"
      <4>1. cache[q] \in Data!Entry
        BY DEF DataInv, DataTypes
      <4> QED
        BY <1>1, <4>1, ReceivedEntry, FailedEntry
           DEF Data!Arrives, Data!FetchFails
    <3>2. /\ DOMAIN cache' = DOMAIN cache
          /\ \A r \in DOMAIN cache : cache'[r] = IF r = q THEN e ELSE cache[r]
      BY <3>1 DEF DataInv, DataTypes
    <3> QED
      BY <1>1, <2>1, <3>1, <3>2 DEF WriteInv, Unfetched
  <2>5. ASSUME OneForm(home)
        PROVE  OneCall'
    <3>1. OneCall
      BY <2>1, <2>5 DEF WriteInv
    <3>2. Parent(cache') \/ made = 0
      <4>1. made \in Nat
        BY DEF SlotTypes
      <4>2. Parent(cache)' = Parent(cache')
        BY <1>1 DEF Parent, Here
      <4> QED
        BY <2>3, <4>1, <4>2 DEF Begun, Steady
    <3>3. \A l \in DOMAIN slot' : slot'[l].since = 0
      BY <1>1, <1>2, <2>5, <3>1, <3>2, SameMounting DEF OneCall
    <3> QED
      BY <1>1, <3>1, <3>3 DEF OneCall, Acts, Here
  <2> QED
    BY <1>1, <2>2, <2>3, <2>4, <2>5 DEF WriteInv
<1> QED
  BY <1>3, <1>4

\* A fetch that begins or goes on is not of what could hide a form, once it
\* is there.
LEMMA BackgroundDraft ==
  ASSUME DataInv, SlotTypes, Typed, Writable(home) => WriteInv, AtHome,
         home \notin Fragile, NEW q \in DOMAIN cache, Background(q)
  PROVE  Typed' /\ (Writable(home) => WriteInv')
<1>1. /\ UNCHANGED <<home, screen, slot, calls, made, newest>>
      /\ DOMAIN cache' = DOMAIN cache
      /\ \A r \in DOMAIN cache : /\ cache'[r].has = cache[r].has
                                 /\ cache'[r].err = cache[r].err
  BY BackgroundKeeps DEF Background, uivars, Data!ServerReads, Data!Refresh,
     Data!Shows
<1>2. Parent(cache)' = Parent(cache) /\ Content(cache)' = Content(cache)
  BY <1>1 DEF Parent, Content, Shown, AtHome, Here
<1>3. Typed'
  BY <1>1, <1>2 DEF Typed, OwnState, Acts, Here
<1>4. ASSUME Writable(home)
      PROVE  WriteInv'
  <2>1. WriteInv
    BY <1>4
  <2>2. Begun' => Begun
    BY <1>1 DEF Begun
  <2>3. Steady => Steady'
    BY <1>1, <1>2 DEF Steady
  <2>4. Unfetched'
    <3>1. ASSUME NEW r \in Unmounting(home) \cap DOMAIN cache, cache'[r].has
          PROVE  cache'[r].phase = "idle"
      <4>1. cache[r].phase = "idle"
        BY <1>1, <2>1, <3>1 DEF WriteInv, Unfetched
      <4>2. r # q
        <5>1. CASE Data!ServerReads(q)
          BY <4>1, <5>1 DEF Data!ServerReads
        <5>2. CASE q \in PolledQueries
          BY <1>4, <3>1, <5>2, SafeHome
        <5> QED
          BY <5>1, <5>2 DEF Background
      <4>3. PICK e : cache' = [cache EXCEPT ![q] = e]
        BY DEF Background, Data!ServerReads, Data!Refresh, Data!Shows
      <4> QED
        BY <4>1, <4>2, <4>3 DEF DataInv, DataTypes
    <3> QED
      BY <1>1, <3>1 DEF Unfetched
  <2>5. OneCall => OneCall'
    BY <1>1 DEF OneCall, Acts, Here
  <2> QED
    BY <1>1, <2>1, <2>2, <2>3, <2>4, <2>5 DEF WriteInv
<1> QED
  BY <1>3, <1>4

\* What the server does with a request, and the news of its failure.
LEMMA CallDraft ==
  ASSUME DataInv, SlotTypes, Typed, Writable(home) => WriteInv,
         NEW c \in calls, Commit(c) \/ CallFails(c)
  PROVE  Typed' /\ (Writable(home) => WriteInv')
<1>1. UNCHANGED <<home, screen, slot, cache, made, newest>>
  BY DEF Commit, CallFails, Data!Commit, Data!CallFails
<1>2. Typed'
  BY <1>1 DEF Typed, OwnState, Acts, Here, Content, AtHome, Parent
<1>3. OneCall => OneCall'
  <2> SUFFICES ASSUME OneCall PROVE OneCall'
    OBVIOUS
  <2>1. CASE CallFails(c)
    BY <1>1, <2>1 DEF OneCall, CallFails, Data!CallFails, Acts, Here
  <2>2. CASE Commit(c)
    <3>1. PICK d : d = [c EXCEPT !.state = "done", !.at = rev']
      OBVIOUS
    <3>2. calls' = (calls \ {c}) \cup {d}
      BY <2>2, <3>1 DEF Commit, Data!Commit, Data!Becomes
    <3>3. d.id = c.id
      BY <3>1 DEF DataInv, DataTypes
    <3>4. calls' = {d}
      BY <3>2 DEF OneCall
    <3> QED
      BY <1>1, <3>3, <3>4 DEF OneCall, Acts, Here
  <2> QED
    BY <2>1, <2>2
<1> QED
  BY <1>1, <1>2, <1>3 DEF WriteInv, Begun, Steady, Unfetched, Parent, Here

\* An answer that keeps the page refetches nothing that could hide a form.
LEMMA AnswerSpares ==
  ASSUME PageInv, WriteInv, AtHome, home \notin Fragile, Writable(home),
         NEW c \in calls, ~Leaves(c)
  PROVE  Unmounting(home) \cap RefreshesOf[c.m] = {}
<1> DEFINE a == job[c.id].act
<1>1. /\ SlotTypes /\ a \in DOMAIN Acts /\ c.m = Acts[a].sends
      /\ c.id \in 1..made /\ made \in Nat
  BY DEF PageInv, JobInv, JobOf, SlotTypes
<1>2. SUFFICES ASSUME Acts[a].done = "leave",
                      Acts[a].how = "await" \/ OneForm(home)
               PROVE  FALSE
  BY <1>1, SafeHome
<1>3. Runs(c)
  <2>1. CASE Acts[a].how = "await"
    BY <2>1 DEF Runs
  <2>2. CASE OneForm(home)
    <3>1. OneCall
      BY <2>2 DEF WriteInv
    <3>2. Acts[a].slot \in DOMAIN slot
      BY <1>1 DEF SlotTypes, SlotsOf, Acts, Here
    <3>3. c.id > slot[Acts[a].slot].since
      BY <1>1, <3>1, <3>2 DEF OneCall
    <3>4. \A b \in DOMAIN Acts : newest[b] <= c.id
      BY <3>1 DEF OneCall
    <3> QED
      BY <3>3, <3>4 DEF Runs
  <2> QED
    BY <1>2, <2>1, <2>2
<1> QED
  BY <1>2, <1>3 DEF Leaves, Done

\* An answer that keeps the page leaves what was typed on the screen.
LEMMA AnswerDraft ==
  ASSUME PageInv, Typed, Writable(home) => WriteInv, AtHome,
         home \notin Fragile, NEW c \in calls, ~Leaves(c),
         slot' = Follow(c, Drafts(cache')), UNCHANGED <<home, screen>>,
         cache' = [q \in DOMAIN cache |-> Data!Settled(q, c)],
         calls' = calls \ {c}, UNCHANGED <<made, newest>>
  PROVE  Typed' /\ (Writable(home) => WriteInv')
<1>1. /\ SlotTypes /\ DataInv /\ job[c.id].act \in DOMAIN Acts
      /\ c.id \in 1..made /\ made \in Nat
  BY DEF PageInv, JobInv, JobOf, SlotTypes
<1>2. PICK drafts : drafts = Drafts(cache')
  OBVIOUS
<1>3. drafts \in [DOMAIN slot -> SlotRec(home)]
  BY <1>1, <1>2, DraftsTypes
<1>4. PICK f : f = Follow(c, drafts)
  OBVIOUS
<1>5. /\ f \in [DOMAIN slot -> SlotRec(home)]
      /\ \A l \in DOMAIN slot :
            /\ f[l].since = drafts[l].since
            /\ f[l].n = drafts[l].n \/ f[l].n = 0
            /\ f[l].dirty => drafts[l].dirty
            /\ f[l].n # 0 => f[l].act = drafts[l].act
  BY <1>1, <1>3, <1>4, FollowSlot
<1>6. slot' = f
  BY <1>2, <1>4
<1>7. Typed'
  <2>1. ASSUME NEW l \in DOMAIN slot
        PROVE  LET x == Drafts(cache')[l]
                   y == slot'[l]
               IN /\ y.dirty => x.dirty
                  /\ y.n # 0 => y.act = x.act /\ x.n # 0
    BY <1>2, <1>5, <1>6
  <2> QED
    BY <1>1, <1>5, <1>6, <2>1, TypedDrafts
<1>8. ASSUME Writable(home)
      PROVE  WriteInv'
  <2>1. WriteInv /\ Steady
    <3>1. Begun
      BY <1>1 DEF Begun
    <3> QED
      BY <1>8, <3>1 DEF WriteInv
  <2>2. ASSUME NEW q \in DOMAIN cache
        PROVE  LET s == cache'[q]
               IN /\ cache[q].has => s.has
                  /\ s.err => cache[q].err
                  /\ \/ s.phase = "asked" /\ q \in RefreshesOf[c.m]
                     \/ s.phase = cache[q].phase
    <3>1. cache'[q] = Data!Settled(q, c)
      OBVIOUS
    <3> QED
      BY <1>1, <3>1, SettledEntry
  <2>3. DOMAIN cache' = DOMAIN cache
    OBVIOUS
  <2>4. Parent(cache')
    BY <2>1, <2>2, <2>3, ParentKept DEF Steady
  <2>5. Steady'
    <3>1. Parent(cache)' = Parent(cache')
      BY DEF Parent, Here
    <3> QED
      BY <2>1, <2>2, <2>3, <2>4, <3>1 DEF Steady
  <2>6. Unfetched'
    <3>1. Unmounting(home) \cap RefreshesOf[c.m] = {}
      BY <1>8, <2>1, AnswerSpares
    <3>2. Unmounting(home) \subseteq Required(home)
      BY <1>1, <1>8, SafeHome
    <3>3. ASSUME NEW q \in Unmounting(home) \cap DOMAIN cache
          PROVE  cache'[q].phase = "idle"
      <4>1. cache[q].phase = "idle"
        BY <2>1, <3>2 DEF Steady, WriteInv, Unfetched
      <4> QED
        BY <2>2, <3>1, <4>1
    <3> QED
      BY <2>3, <3>3 DEF Unfetched
  <2>7. ASSUME OneForm(home)
        PROVE  OneCall'
    <3>1. OneCall
      BY <2>1, <2>7 DEF WriteInv
    <3>2. \A l \in DOMAIN slot : drafts[l].since = 0
      BY <1>1, <1>2, <2>4, <2>7, <3>1, SameMounting DEF OneCall
    <3>3. /\ DOMAIN slot' = DOMAIN slot
          /\ \A l \in DOMAIN slot : slot'[l].since = 0
      BY <1>5, <1>6, <3>2
    <3> QED
      BY <3>1, <3>3 DEF OneCall, Acts, Here
  <2> QED
    BY <2>5, <2>6, <2>7 DEF WriteInv
<1> QED
  BY <1>7, <1>8

\* Every step keeps the drafts safe.
LEMMA DraftNext ==
  ASSUME PageInv, DraftInv, [Next]_vars
  PROVE  DraftInv'
<1>1. SlotTypes /\ JobInv /\ DataInv
  BY DEF PageInv
<1>2. UNCHANGED home
  BY DEF Next, Open, Submit, Sends, Edit, Cancel, GoElsewhere, Fetching,
     Background, Commit, CallFails, Answer, vars, uivars
<1>3. ASSUME Careful'
      PROVE  AtHome
  <2>1. screen' = home
    BY <1>2, <1>3 DEF Careful, AtHome
  <2>2. ASSUME NEW Q, GoElsewhere(Q)
        PROVE  FALSE
    BY <1>1, <2>1, <2>2, CatalogueAssumption
       DEF PagesLinked, SlotTypes, GoElsewhere
  <2>3. ASSUME NEW c \in calls, Answer(c)
        PROVE  screen' = screen
    <3>1. job[c.id].act \in DOMAIN Acts
      BY <1>1 DEF JobInv, JobOf
    <3> QED
      BY <1>1, <2>1, <2>3, <3>1, AnswerSlots
  <2>4. screen' = screen
    BY <2>2, <2>3 DEF Next, Open, Submit, Sends, Edit, Cancel, Fetching,
       Background, Commit, CallFails, vars, uivars
  <2> QED
    BY <2>1, <2>4 DEF AtHome
<1>4. SUFFICES ASSUME Careful', AtHome, home \notin Fragile,
                      Typed, Writable(home) => WriteInv
               PROVE  Typed' /\ (Writable(home) => WriteInv')
  BY <1>2, <1>3 DEF DraftInv, Careful
<1>5. ASSUME NEW a \in DOMAIN Acts, Open(a) \/ Submit(a)
      PROVE  Typed' /\ (Writable(home) => WriteInv')
  BY <1>1, <1>4, <1>5, UserDraft
<1>6. ASSUME NEW l \in DOMAIN slot, Edit(l) \/ Cancel(l)
      PROVE  Typed' /\ (Writable(home) => WriteInv')
  BY <1>1, <1>4, <1>6, UserDraft
<1>7. ASSUME NEW Q, GoElsewhere(Q)
      PROVE  FALSE
  BY <1>1, <1>2, <1>4, <1>7, CatalogueAssumption
     DEF PagesLinked, SlotTypes, GoElsewhere, Careful, AtHome
<1>8. ASSUME NEW q \in DOMAIN cache, Fetching(q) \/ Background(q)
      PROVE  Typed' /\ (Writable(home) => WriteInv')
  BY <1>1, <1>4, <1>8, FetchDraft, BackgroundDraft
<1>9. ASSUME NEW c \in calls, Commit(c) \/ CallFails(c)
      PROVE  Typed' /\ (Writable(home) => WriteInv')
  BY <1>1, <1>4, <1>9, CallDraft
<1>10. ASSUME NEW c \in calls, Answer(c)
       PROVE  Typed' /\ (Writable(home) => WriteInv')
  <2>1. /\ job[c.id].act \in DOMAIN Acts /\ calls' = calls \ {c}
        /\ UNCHANGED <<made, newest>> /\ screen' = home
    BY <1>1, <1>2, <1>4, <1>10
       DEF JobInv, JobOf, Answer, Data!AnswerThen, Careful, AtHome
  <2>2. /\ ~Leaves(c) /\ screen' = screen
        /\ slot' = Follow(c, Drafts(cache'))
        /\ cache' = [q \in DOMAIN cache |-> Data!Settled(q, c)]
    BY <1>1, <1>4, <1>10, <2>1, AnswerSlots
  <2> QED
    BY <1>2, <1>4, <2>1, <2>2, AnswerDraft
<1>11. CASE UNCHANGED vars
  BY <1>4, <1>11 DEF vars, uivars, cachevars, Typed, WriteInv, Begun, Steady,
     Unfetched, OneCall, OwnState, Content, Parent, AtHome, Here, Acts
<1> QED
  BY <1>5, <1>6, <1>7, <1>8, <1>9, <1>10, <1>11 DEF Next

\* A fetch that ends leaves what was typed.
LEMMA FetchSpares ==
  ASSUME PageInv, DraftInv, home \notin Fragile, NEW q \in DOMAIN cache,
         Fetching(q), NEW l \in DOMAIN slot, slot[l].dirty
  PROVE  slot'[l].dirty
<1>1. SlotTypes /\ DataInv
  BY DEF PageInv
<1>2. AtHome
  BY <1>1 DEF SlotTypes
<1>3. Typed /\ (Writable(home) => WriteInv)
  BY <1>2 DEF DraftInv, Careful
<1>4. Writable(home)
  BY <1>1, <1>2, <1>3, TypedWritable
<1>5. WriteInv /\ Begun /\ Steady
  BY <1>3, <1>4 DEF WriteInv, Begun
<1>6. /\ slot' = Drafts(cache')
      /\ Data!Arrives(q) \/ Data!FetchFails(q)
  BY <1>2 DEF Fetching, Rendered
<1>7. /\ DOMAIN cache' = DOMAIN cache
      /\ \A r \in DOMAIN cache :
            /\ cache[r].has => cache'[r].has
            /\ cache'[r].err => cache[r].err \/ r \notin Unmounting(home)
  BY <1>1, <1>4, <1>5, <1>6, FetchKeeps
<1>8. /\ Parent(cache')
      /\ Content(cache) /\ OwnState(l) => Content(cache')
  BY <1>1, <1>5, <1>7, ErrorsElsewhere DEF Steady
<1>9. ~Follows(l, cache')
  BY <1>1, <1>4, SafeHome DEF Follows
<1>10. slot[l].n # 0 /\ OwnState(l) => Content(cache)
  BY <1>3 DEF Typed
<1>11. PICK y : y = Drafts(cache')[l]
  OBVIOUS
<1>12. ~y.dirty =>
         \/ ~Parent(cache') \/ Follows(l, cache')
         \/ slot[l].n # 0 /\ ~Content(cache') /\ OwnState(l)
  BY <1>1, <1>11, DraftSlot
<1> QED
  BY <1>6, <1>8, <1>9, <1>10, <1>11, <1>12

\* On a page that is not Fragile a refetch, failed or not, loses no draft:
\* the queries whose error would hide the form are not fetched while the user
\* types into it or waits for its answer.
THEOREM KeepsDrafts == Spec => DraftsSurviveRefetch
<1> DEFINE Survive ==
      (home \notin Fragile /\ screen' = screen /\ calls' = calls)
         => \A l \in DOMAIN slot :
              (slot[l].dirty /\ cache' # cache) => slot'[l].dirty
<1>1. ASSUME PageInv, DraftInv, [Next]_vars, home \notin Fragile,
             screen' = screen, calls' = calls, NEW l \in DOMAIN slot,
             slot[l].dirty, cache' # cache
      PROVE  slot'[l].dirty
  <2>1. ASSUME NEW a \in DOMAIN Acts, Open(a) \/ Submit(a)
        PROVE  cache' = cache
    BY <2>1 DEF Open, Submit, Sends, Data!Send, cachevars
  <2>2. ASSUME NEW k \in DOMAIN slot, Edit(k) \/ Cancel(k)
        PROVE  cache' = cache
    BY <2>2 DEF Edit, Cancel, cachevars
  <2>3. ASSUME NEW Q, GoElsewhere(Q)
        PROVE  FALSE
    BY <1>1, <2>3, CatalogueAssumption
       DEF PagesLinked, PageInv, SlotTypes, GoElsewhere, AtHome
  <2>4. ASSUME NEW q \in DOMAIN cache, Fetching(q)
        PROVE  slot'[l].dirty
    BY <1>1, <2>4, FetchSpares
  <2>5. ASSUME NEW q \in DOMAIN cache, Background(q)
        PROVE  slot' = slot
    BY <2>5 DEF Background, uivars
  <2>6. ASSUME NEW c \in calls, Commit(c) \/ CallFails(c)
        PROVE  slot' = slot
    BY <2>6 DEF Commit, CallFails
  <2>7. ASSUME NEW c \in calls, Answer(c)
        PROVE  FALSE
    BY <1>1, <2>7 DEF Answer, Data!AnswerThen
  <2>8. UNCHANGED vars => slot' = slot
    BY DEF vars, uivars
  <2> QED
    BY <1>1, <2>1, <2>2, <2>3, <2>4, <2>5, <2>6, <2>7, <2>8 DEF Next
<1>2. PageInv /\ DraftInv /\ [Next]_vars => [Survive]_vars
  BY <1>1 DEF Survive
<1>3. PageInv /\ DraftInv /\ [Next]_vars => DraftInv'
  BY DraftNext
<1> QED
  BY <1>2, <1>3, DraftInit, PageInvariant, PTL DEF Spec, DraftsSurviveRefetch

-----------------------------------------------------------------------------
(* The types.                                                              *)

\* Every step keeps the types: jobs and requests go together, forms were
\* opened and mounted in this behaviour, and what has been spent is an opening.
THEOREM ScreensTypes == Spec => []TypeOK
<1>1. PageInv => TypeOK
  <2> SUFFICES ASSUME PageInv PROVE TypeOK
    OBVIOUS
  <2>1. DataTypes /\ SlotTypes /\ JobInv
    BY DEF PageInv, DataInv
  <2>2. \A i \in DOMAIN job : job[i].act \in DOMAIN Acts
    BY <2>1 DEF JobInv, JobOf
  <2>3. spent \subseteq (DOMAIN Acts) \X (0..opens) \X (0..made)
    <3> SUFFICES ASSUME NEW o \in spent
                 PROVE  o \in (DOMAIN Acts) \X (0..opens) \X (0..made)
      OBVIOUS
    <3>1. PICK c \in calls : Opening(c) = o
      BY <2>1 DEF JobInv
    <3>2. /\ job[c.id].act \in DOMAIN Acts /\ job[c.id].n \in 0..opens
          /\ job[c.id].since \in Nat /\ job[c.id].since < c.id
          /\ c.id \in 1..made /\ made \in Nat
      BY <2>1 DEF JobInv, JobOf, SlotTypes
    <3>3. job[c.id].since \in 0..made
      BY <3>2
    <3> QED
      BY <3>1, <3>2, <3>3 DEF Opening
  <2>4. Data!TypeOK
    <3>1. \A a \in DOMAIN ActsOf(home) : ActsOf(home)[a].sends \in MutationNames
      BY <2>1, CatalogueAssumption DEF KeysCover, SlotTypes
    <3>2. SentBy(home) \subseteq MutationNames
      BY <3>1 DEF SentBy
    <3> QED
      BY <2>1, <3>2 DEF DataTypes, Data!TypeOK, Data!Call
  <2> QED
    BY <2>1, <2>2, <2>3, <2>4 DEF TypeOK, JobInv, SlotTypes
<1> QED
  BY <1>1, PageInvariant, PTL
=============================================================================
