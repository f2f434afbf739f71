--------------------------- MODULE LiveFeedProofs ---------------------------
(***************************************************************************)
(* For any consoles, screens, buffer size and number of writes: the types  *)
(* of the live feed, and that a screen misses an update only in the ways   *)
(* that NewestIsComing lists.                                              *)
(***************************************************************************)
EXTENDS LiveFeed, TLAPS

\* Nothing is shown, sent, answered or still to be published but versions
\* that have been written.
Written ==
  /\ row \in Versions
  /\ req \in [Consoles -> [pc : {"done", "publish", "published", "reply"},
                           v : 0..row]]
  /\ conn \in [Screens -> {"down", "open", "live"}]
  /\ chan \in [Screens -> Seq(0..row)]
  /\ \A s \in Screens : Len(chan[s]) <= BufferSize
  /\ fetch \in [Screens -> [pc : {"done", "asked", "answered"}, v : 0..row]]
  /\ cache \in [Screens -> 0..row]
  /\ behind \subseteq Screens

Current(s) == cache[s] = row \/ row \in Coming(s)

\* The inductive invariant: a screen with an open connection, subscribed or
\* not yet, is current unless it is behind.
FeedInv ==
  /\ Written
  /\ \A s \in Screens \ behind : conn[s] # "down" => Current(s)

\* The written versions are versions.
LEMMA WrittenTypes == Written => TypeOK
<1> SUFFICES ASSUME Written PROVE TypeOK
  OBVIOUS
<1>1. row \in Nat /\ 0..row \subseteq Versions
  BY BoundsAssumption DEF Written, Versions
<1>2. \A s \in Screens : chan[s] \in Seq(Versions)
  <2> TAKE s \in Screens
  <2>1. chan[s] \in Seq(0..row)
    BY DEF Written
  <2> QED
    BY <1>1, <2>1
<1> QED
  BY <1>1, <1>2 DEF Written, TypeOK

\* What showing an older or newer version does: no other screen is touched,
\* and a screen that is then not behind was not behind before, unless it now
\* shows the row; and it showed something else than the row.
LEMMA ShowLemma ==
  ASSUME Written, NEW s \in Screens, NEW v \in 0..row, Show(s, v)
  PROVE  /\ cache' \in [Screens -> 0..row]
         /\ behind' \subseteq Screens
         /\ \A t \in Screens \ behind' :
              \/ t \notin behind /\ cache'[t] = cache[t] /\ t # s
              \/ t = s /\ cache'[s] = row
              \/ t = s /\ s \notin behind /\ v # row /\ cache[s] # row
<1>1. cache' = [cache EXCEPT ![s] = v] /\ cache \in [Screens -> 0..row]
  BY DEF Show, Written
<1>2. behind' \subseteq Screens
  BY DEF Show, Written
<1>3. ASSUME NEW t \in Screens \ behind', t # s
      PROVE  t \notin behind /\ cache'[t] = cache[t]
  BY <1>1, <1>3 DEF Show
<1>4. ASSUME s \notin behind', v # row
      PROVE  s \notin behind /\ cache[s] # row
  <2>1. row \in Nat
    BY DEF Written, Versions
  <2>2. ~(v < cache[s]) /\ s \notin behind
    BY <1>4 DEF Show
  <2> QED
    BY <1>1, <1>4, <2>1, <2>2
<1>5. v = row => cache'[s] = row
  BY <1>1
<1> QED
  BY <1>1, <1>2, <1>3, <1>4, <1>5

\* The first connection finds every page showing the first row.
LEMMA FeedInit == Init => FeedInv
<1> SUFFICES ASSUME Init PROVE FeedInv
  OBVIOUS
<1>1. row = 0 /\ row \in Versions /\ 0 \in 0..row
  BY BoundsAssumption DEF Init, Versions
<1>2. \A s \in Screens : chan[s] = <<>>
  BY DEF Init
<1>3. /\ chan \in [Screens -> Seq(0..row)]
      /\ \A s \in Screens : Len(chan[s]) <= BufferSize
  BY <1>2, BoundsAssumption DEF Init
<1> QED
  BY <1>1, <1>3 DEF Init, FeedInv, Written, Current, Done, Step

\* A write makes a version that no screen has seen yet.
LEMMA Grown ==
  ASSUME Written, row' = row + 1, row < MaxVersion
  PROVE  /\ row' \in Versions /\ row' \in 0..row' /\ 0..row \subseteq 0..row'
         /\ \A s \in Screens : chan[s] \in Seq(0..row')
<1>1. /\ row \in Nat /\ row' \in Versions
      /\ row' \in 0..row' /\ 0..row \subseteq 0..row'
  BY BoundsAssumption DEF Written, Versions
<1>2. ASSUME NEW s \in Screens PROVE chan[s] \in Seq(0..row')
  <2>1. chan[s] \in Seq(0..row)
    BY DEF Written
  <2> QED
    BY <1>1, <2>1
<1> QED
  BY <1>1, <1>2

LEMMA FeedCommit ==
  ASSUME FeedInv, NEW c \in Consoles, Commit(c)
  PROVE  FeedInv'
<1>1. /\ row' \in Versions /\ row' \in 0..row' /\ 0..row \subseteq 0..row'
      /\ \A s \in Screens : chan[s] \in Seq(0..row')
  BY Grown DEF Commit, FeedInv
<1>2. req' = [req EXCEPT ![c] = [pc |-> "publish", v |-> row']]
  BY DEF Commit, Step
<1>3. Written'
  BY <1>1, <1>2 DEF FeedInv, Written, Commit
<1>4. ASSUME NEW s \in Screens PROVE Current(s)'
  <2>1. req'[c].pc = "publish" /\ req'[c].v = row'
    BY <1>2 DEF FeedInv, Written
  <2> QED
    BY <2>1 DEF Current, Coming
<1> QED
  BY <1>3, <1>4 DEF FeedInv

LEMMA FeedCommitUnpublished ==
  ASSUME FeedInv, NEW c \in Consoles, CommitUnpublished(c)
  PROVE  FeedInv'
<1>1. /\ row' \in Versions /\ row' \in 0..row' /\ 0..row \subseteq 0..row'
      /\ \A s \in Screens : chan[s] \in Seq(0..row')
  BY Grown DEF CommitUnpublished, FeedInv
<1>2. /\ req' = [req EXCEPT ![c] = [pc |-> "reply", v |-> row']]
      /\ behind' = Screens
  BY DEF CommitUnpublished, Step
<1>3. Written'
  BY <1>1, <1>2 DEF FeedInv, Written, CommitUnpublished
<1> QED
  BY <1>2, <1>3 DEF FeedInv

\* Where a row that is still coming to a screen may be.
LEMMA ComingMeans ==
  ASSUME NEW s \in Screens
  PROVE  row \in Coming(s) <=>
           \/ \E i \in DOMAIN chan[s] : chan[s][i] = row
           \/ \E c \in Consoles : req[c].pc = "publish" /\ req[c].v = row
           \/ fetch[s].pc = "asked"
           \/ fetch[s].pc = "answered" /\ fetch[s].v = row
BY DEF Coming

\* The messages of a screen, when one more is queued or the first is taken.
LEMMA Queued ==
  ASSUME NEW S, NEW q \in Seq(S), NEW v \in S
  PROVE  /\ Append(q, v) \in Seq(S) /\ Len(Append(q, v)) = Len(q) + 1
         /\ \E i \in DOMAIN Append(q, v) : Append(q, v)[i] = v
<1>1. Append(q, v) \in Seq(S) /\ Len(Append(q, v)) = Len(q) + 1
  OBVIOUS
<1>2. Append(q, v)[Len(q) + 1] = v /\ Len(q) + 1 \in DOMAIN Append(q, v)
  OBVIOUS
<1> QED
  BY <1>1, <1>2

LEMMA Taken ==
  ASSUME NEW S, NEW q \in Seq(S), q # <<>>
  PROVE  /\ Head(q) \in S /\ Tail(q) \in Seq(S) /\ Len(Tail(q)) = Len(q) - 1
         /\ \A i \in DOMAIN q : q[i] # Head(q) =>
              \E j \in DOMAIN Tail(q) : Tail(q)[j] = q[i]
<1>1. Head(q) \in S /\ Tail(q) \in Seq(S) /\ Len(Tail(q)) = Len(q) - 1
  OBVIOUS
<1>2. ASSUME NEW i \in DOMAIN q, q[i] # Head(q)
      PROVE  \E j \in DOMAIN Tail(q) : Tail(q)[j] = q[i]
  <2>1. i \in 2..Len(q)
    BY <1>2
  <2>2. i - 1 \in DOMAIN Tail(q) /\ Tail(q)[i - 1] = q[i]
    BY <1>1, <2>1
  <2> QED
    BY <2>2
<1> QED
  BY <1>1, <1>2

\* Whoever is reached finds the published row among its messages; everybody
\* else falls behind.
LEMMA FeedPublish ==
  ASSUME FeedInv, NEW c \in Consoles, Publish(c)
  PROVE  FeedInv'
<1> DEFINE Reached == {s \in Screens : /\ conn[s] = "live"
                                       /\ Len(chan[s]) < BufferSize}
<1>1. Written /\ req[c].v \in 0..row /\ UNCHANGED <<row, conn, fetch, cache>>
  BY DEF FeedInv, Written, Publish
<1>2. req' = [req EXCEPT ![c].pc = "published"] /\ req[c].pc = "publish"
  BY DEF Publish
<1>3. chan' = [s \in Screens |-> IF s \in Reached
                                 THEN Append(chan[s], req[c].v)
                                 ELSE chan[s]]
  BY DEF Publish
<1>4. behind' = behind \cup (Screens \ Reached)
  BY DEF Publish
<1>5. req' \in [Consoles -> [pc : {"done", "publish", "published", "reply"},
                            v : 0..row]]
  BY <1>1, <1>2 DEF Written
<1>6. ASSUME NEW s \in Screens
      PROVE  /\ chan'[s] \in Seq(0..row) /\ Len(chan'[s]) <= BufferSize
             /\ s \in Reached =>
                  \E i \in DOMAIN chan'[s] : chan'[s][i] = req[c].v
             /\ \A i \in DOMAIN chan[s] :
                  \E j \in DOMAIN chan'[s] : chan'[s][j] = chan[s][i]
  <2>1. /\ chan[s] \in Seq(0..row)
        /\ Len(chan[s]) <= BufferSize /\ Len(chan[s]) \in Nat
    BY <1>1 DEF Written
  <2>2. CASE s \in Reached
    <3>1. chan'[s] = Append(chan[s], req[c].v) /\ Len(chan[s]) < BufferSize
      BY <1>3, <2>2
    <3>2. \A i \in DOMAIN chan[s] :
            i \in DOMAIN chan'[s] /\ chan'[s][i] = chan[s][i]
      BY <1>1, <2>1, <3>1
    <3> QED
      BY <1>1, <2>1, <3>1, <3>2, Queued, BoundsAssumption
  <2>3. CASE s \notin Reached
    BY <1>3, <2>1, <2>3
  <2> QED
    BY <2>2, <2>3
<1>7. Written'
  BY <1>1, <1>3, <1>4, <1>5, <1>6 DEF Written
<1>8. ASSUME NEW s \in Screens \ behind', conn'[s] # "down" PROVE Current(s)'
  <2>1. s \in Reached /\ Current(s)
    BY <1>1, <1>4, <1>8 DEF FeedInv
  <2>2. CASE cache[s] = row
    BY <1>1, <2>2 DEF Current
  <2>3. CASE row \in Coming(s)
    <3>1. ASSUME NEW d \in Consoles, d # c,
                 req[d].pc = "publish", req[d].v = row
          PROVE  req'[d].pc = "publish" /\ req'[d].v = row
      BY <1>1, <1>2, <3>1 DEF Written
    <3>2. (row \in Coming(s))'
      BY <1>1, <1>6, <2>1, <2>3, <3>1, ComingMeans DEF Coming
    <3> QED
      BY <3>2 DEF Current
  <2> QED
    BY <2>1, <2>2, <2>3 DEF Current
<1> QED
  BY <1>7, <1>8 DEF FeedInv

\* Only a request that has not published yet carries a row to the screens.
LEMMA StillDue ==
  ASSUME Written, NEW c \in Consoles, NEW step, req[c].pc # "publish",
         req' = [req EXCEPT ![c] = step]
  PROVE  \A d \in Consoles : req[d].pc = "publish" =>
           req'[d].pc = "publish" /\ req'[d].v = req[d].v
BY DEF Written

LEMMA FeedLosePublication ==
  ASSUME FeedInv, NEW c \in Consoles, LosePublication(c)
  PROVE  FeedInv'
<1>1. req' \in [Consoles -> [pc : {"done", "publish", "published", "reply"},
                            v : 0..row]]
  BY DEF LosePublication, FeedInv, Written
<1>2. behind' = Screens /\ UNCHANGED <<row, conn, chan, fetch, cache>>
  BY DEF LosePublication
<1> QED
  BY <1>1, <1>2 DEF FeedInv, Written

\* A screen stays current while its cache and what is on its way to it stay.
LEMMA StaysCurrent ==
  ASSUME NEW s \in Screens, Current(s), row' = row, cache'[s] = cache[s],
         chan'[s] = chan[s], fetch'[s] = fetch[s],
         \A d \in Consoles : req[d].pc = "publish" =>
           req'[d].pc = "publish" /\ req'[d].v = req[d].v
  PROVE  Current(s)'
BY DEF Current, Coming

LEMMA FeedFail ==
  ASSUME FeedInv, NEW c \in Consoles, Fail(c)
  PROVE  FeedInv'
<1>1. req' = [req EXCEPT ![c] = [pc |-> "done", v |-> 0]] /\ Written
  BY DEF Fail, Done, Step, FeedInv
<1>2. 0 \in 0..row /\ UNCHANGED <<row, conn, chan, fetch, cache>>
  BY <1>1 DEF Fail, Written, Versions
<1>3. Written'
  BY <1>1, <1>2 DEF Written, Fail
<1>4. CASE req[c].pc = "publish"
  BY <1>3, <1>4 DEF Fail, FeedInv
<1>5. CASE req[c].pc # "publish"
  <2>1. behind' = behind
    BY <1>5 DEF Fail
  <2> QED
    BY <1>1, <1>2, <1>3, <1>5, <2>1, StillDue, StaysCurrent DEF FeedInv
<1> QED
  BY <1>4, <1>5

\* Whatever a screen shows, it stays current if what is still on its way to
\* it contains everything but the shown version.
LEMMA ShownCurrent ==
  ASSUME Written, NEW s \in Screens, NEW v \in 0..row, Show(s, v),
         row' = row, s \notin behind', s \notin behind => Current(s),
         (row \in Coming(s) /\ v # row) => (row \in Coming(s))'
  PROVE  Current(s)'
<1>1. \/ cache'[s] = row
      \/ s \notin behind /\ v # row /\ cache[s] # row
  BY ShowLemma
<1> QED
  BY <1>1 DEF Current

LEMMA FeedReply ==
  ASSUME FeedInv, NEW c \in Consoles, Reply(c)
  PROVE  FeedInv'
<1>1. /\ req' = [req EXCEPT ![c] = [pc |-> "done", v |-> 0]]
      /\ Written /\ req[c].pc # "publish" /\ req[c].v \in 0..row
  BY DEF Reply, Done, Step, FeedInv, Written
<1>2. 0 \in 0..row /\ UNCHANGED <<row, conn, chan, fetch>>
  BY <1>1 DEF Reply, Written, Versions
<1>3. \A d \in Consoles : req[d].pc = "publish" =>
        req'[d].pc = "publish" /\ req'[d].v = req[d].v
  BY <1>1, StillDue
<1>4. CASE c \in Screens
  <2>1. Show(c, req[c].v)
    BY <1>4 DEF Reply
  <2>2. /\ cache' \in [Screens -> 0..row] /\ behind' \subseteq Screens
        /\ \A t \in Screens \ behind' :
             t # c => t \notin behind /\ cache'[t] = cache[t]
    BY <1>1, <1>4, <2>1, ShowLemma
  <2>3. Written'
    BY <1>1, <1>2, <2>2 DEF Written
  <2>4. ASSUME NEW s \in Screens \ behind', conn'[s] # "down" PROVE Current(s)'
    <3>1. CASE s = c
      <4>1. row \in Coming(s) => (row \in Coming(s))'
        BY <1>2, <1>3 DEF Coming
      <4> QED
        BY <1>1, <1>2, <2>1, <2>4, <3>1, <4>1, ShownCurrent DEF FeedInv
    <3>2. CASE s # c
      BY <1>2, <1>3, <2>2, <2>4, <3>2, StaysCurrent DEF FeedInv
    <3> QED
      BY <3>1, <3>2
  <2> QED
    BY <2>3, <2>4 DEF FeedInv
<1>5. CASE c \notin Screens
  <2>1. UNCHANGED <<cache, behind>>
    BY <1>5 DEF Reply
  <2> QED
    BY <1>1, <1>2, <1>3, <2>1, StaysCurrent DEF FeedInv, Written
<1> QED
  BY <1>4, <1>5

-----------------------------------------------------------------------------
LEMMA FeedConnect ==
  ASSUME FeedInv, NEW s \in Screens, Connect(s)
  PROVE  FeedInv'
<1>1. /\ fetch' = [fetch EXCEPT ![s] = [pc |-> "asked", v |-> 0]]
      /\ conn' = [conn EXCEPT ![s] = "open"] /\ Written
  BY DEF Connect, Step, FeedInv
<1>2. 0 \in 0..row /\ UNCHANGED <<row, req, chan, cache, behind>>
  BY <1>1 DEF Connect, Written, Versions
<1>3. Written'
  BY <1>1, <1>2 DEF Written
<1>4. ASSUME NEW t \in Screens \ behind', conn'[t] # "down" PROVE Current(t)'
  <2>1. CASE t = s
    BY <1>1, <1>2, <2>1 DEF Current, Coming, Written
  <2>2. CASE t # s
    <3>1. conn[t] # "down" /\ fetch'[t] = fetch[t]
      BY <1>1, <1>4, <2>2 DEF Written
    <3> QED
      BY <1>2, <1>4, <3>1, StaysCurrent DEF FeedInv
  <2> QED
    BY <2>1, <2>2
<1> QED
  BY <1>3, <1>4 DEF FeedInv

LEMMA FeedSubscribe ==
  ASSUME FeedInv, NEW s \in Screens, Subscribe(s)
  PROVE  FeedInv'
<1>1. /\ conn[s] = "open" /\ conn' = [conn EXCEPT ![s] = "live"]
      /\ UNCHANGED <<row, req, chan, fetch, cache, behind>>
  BY DEF Subscribe
<1>2. Written'
  BY <1>1 DEF FeedInv, Written
<1>3. \A t \in Screens : conn'[t] # "down" => conn[t] # "down"
  BY <1>1 DEF FeedInv, Written
<1> QED
  BY <1>1, <1>2, <1>3, StaysCurrent DEF FeedInv

LEMMA FeedDisconnect ==
  ASSUME FeedInv, NEW s \in Screens, Disconnect(s)
  PROVE  FeedInv'
<1>1. /\ conn' = [conn EXCEPT ![s] = "down"]
      /\ chan' = [chan EXCEPT ![s] = <<>>]
      /\ UNCHANGED <<row, req, fetch, cache, behind>> /\ Written
  BY DEF Disconnect, FeedInv
<1>2. <<>> \in Seq(0..row) /\ Len(<<>>) <= BufferSize
  BY BoundsAssumption
<1>3. Written'
  BY <1>1, <1>2 DEF Written
<1>4. \A t \in Screens :
        conn'[t] # "down" => conn[t] # "down" /\ chan'[t] = chan[t]
  BY <1>1 DEF Written
<1> QED
  BY <1>1, <1>3, <1>4, StaysCurrent DEF FeedInv

\* The first message of a screen is shown; a newer one is still behind it.
LEMMA FeedDeliver ==
  ASSUME FeedInv, NEW s \in Screens, Deliver(s)
  PROVE  FeedInv'
<1>1. /\ chan[s] # <<>> /\ Show(s, Head(chan[s]))
      /\ chan' = [chan EXCEPT ![s] = Tail(chan[s])]
      /\ UNCHANGED <<row, req, conn, fetch>> /\ Written
  BY DEF Deliver, FeedInv
<1>2. /\ chan[s] \in Seq(0..row)
      /\ Len(chan[s]) \in Nat /\ Len(chan[s]) <= BufferSize
  BY <1>1 DEF Written
<1>3. /\ Head(chan[s]) \in 0..row /\ Tail(chan[s]) \in Seq(0..row)
      /\ Len(Tail(chan[s])) = Len(chan[s]) - 1
      /\ \A i \in DOMAIN chan[s] : chan[s][i] # Head(chan[s]) =>
           \E j \in DOMAIN Tail(chan[s]) : Tail(chan[s])[j] = chan[s][i]
  BY <1>1, <1>2, Taken
<1>4. /\ cache' \in [Screens -> 0..row] /\ behind' \subseteq Screens
      /\ \A t \in Screens \ behind' :
           t # s => t \notin behind /\ cache'[t] = cache[t]
  BY <1>1, <1>3, ShowLemma
<1>5. Len(Tail(chan[s])) <= BufferSize
  BY <1>2, <1>3, BoundsAssumption
<1>6. /\ chan' \in [Screens -> Seq(0..row)] /\ chan'[s] = Tail(chan[s])
      /\ \A t \in Screens : Len(chan'[t]) <= BufferSize
  BY <1>1, <1>3, <1>5 DEF Written
<1>7. Written'
  BY <1>1, <1>4, <1>6 DEF Written
<1>8. ASSUME NEW t \in Screens \ behind', conn'[t] # "down" PROVE Current(t)'
  <2>1. CASE t = s
    <3>1. row \in Coming(s) /\ Head(chan[s]) # row => (row \in Coming(s))'
      BY <1>1, <1>3, <1>6 DEF Coming
    <3> QED
      BY <1>1, <1>3, <1>8, <2>1, <3>1, ShownCurrent DEF FeedInv
  <2>2. CASE t # s
    <3>1. chan'[t] = chan[t]
      BY <1>1, <2>2 DEF Written
    <3> QED
      BY <1>1, <1>4, <1>8, <2>2, <3>1, StaysCurrent DEF FeedInv
  <2> QED
    BY <2>1, <2>2
<1> QED
  BY <1>7, <1>8 DEF FeedInv

LEMMA FeedAnswerFetch ==
  ASSUME FeedInv, NEW s \in Screens, AnswerFetch(s)
  PROVE  FeedInv'
<1>1. /\ fetch' = [fetch EXCEPT ![s] = [pc |-> "answered", v |-> row]]
      /\ behind' = behind \ {s} /\ Written
      /\ UNCHANGED <<row, req, conn, chan, cache>>
  BY DEF AnswerFetch, Step, FeedInv
<1>2. row \in 0..row
  BY <1>1 DEF Written, Versions
<1>3. Written'
  BY <1>1, <1>2 DEF Written
<1>4. ASSUME NEW t \in Screens \ behind', conn'[t] # "down" PROVE Current(t)'
  <2>1. CASE t = s
    BY <1>1, <2>1 DEF Current, Coming, Written
  <2>2. CASE t # s
    <3>1. t \notin behind /\ conn[t] # "down" /\ fetch'[t] = fetch[t]
      BY <1>1, <1>4, <2>2 DEF Written
    <3> QED
      BY <1>1, <3>1, StaysCurrent DEF FeedInv
  <2> QED
    BY <2>1, <2>2
<1> QED
  BY <1>3, <1>4 DEF FeedInv

LEMMA FeedShowFetched ==
  ASSUME FeedInv, NEW s \in Screens, ShowFetched(s)
  PROVE  FeedInv'
<1>1. /\ fetch[s].pc = "answered" /\ Show(s, fetch[s].v)
      /\ fetch' = [fetch EXCEPT ![s] = [pc |-> "done", v |-> 0]]
      /\ UNCHANGED <<row, req, conn, chan>> /\ Written
  BY DEF ShowFetched, Done, Step, FeedInv
<1>2. fetch[s].v \in 0..row /\ 0 \in 0..row
  BY <1>1 DEF Written, Versions
<1>3. /\ cache' \in [Screens -> 0..row] /\ behind' \subseteq Screens
      /\ \A t \in Screens \ behind' :
           t # s => t \notin behind /\ cache'[t] = cache[t]
  BY <1>1, <1>2, ShowLemma
<1>4. Written'
  BY <1>1, <1>2, <1>3 DEF Written
<1>5. ASSUME NEW t \in Screens \ behind', conn'[t] # "down" PROVE Current(t)'
  <2>1. CASE t = s
    <3>1. row \in Coming(s) /\ fetch[s].v # row => (row \in Coming(s))'
      BY <1>1 DEF Coming
    <3> QED
      BY <1>1, <1>2, <1>5, <2>1, <3>1, ShownCurrent DEF FeedInv
  <2>2. CASE t # s
    <3>1. fetch'[t] = fetch[t]
      BY <1>1, <2>2 DEF Written
    <3> QED
      BY <1>1, <1>3, <1>5, <2>2, <3>1, StaysCurrent DEF FeedInv
  <2> QED
    BY <2>1, <2>2
<1> QED
  BY <1>4, <1>5 DEF FeedInv

LEMMA FeedFailFetch ==
  ASSUME FeedInv, NEW s \in Screens, FailFetch(s)
  PROVE  FeedInv'
<1>1. /\ fetch' = [fetch EXCEPT ![s] = [pc |-> "done", v |-> 0]]
      /\ behind' = behind \cup {s} /\ Written
      /\ UNCHANGED <<row, req, conn, chan, cache>>
  BY DEF FailFetch, Done, Step, FeedInv
<1>2. 0 \in 0..row
  BY <1>1 DEF Written, Versions
<1>3. Written'
  BY <1>1, <1>2 DEF Written
<1>4. \A t \in Screens \ behind' : t \notin behind /\ fetch'[t] = fetch[t]
  BY <1>1 DEF Written
<1> QED
  BY <1>1, <1>3, <1>4, StaysCurrent DEF FeedInv

-----------------------------------------------------------------------------
\* Every step, and stuttering, preserves the invariant.
LEMMA FeedStep == FeedInv /\ [Next]_vars => FeedInv'
<1> SUFFICES ASSUME FeedInv, [Next]_vars PROVE FeedInv'
  OBVIOUS
<1>1. ASSUME NEW c \in Consoles,
             \/ Commit(c) \/ CommitUnpublished(c) \/ Publish(c)
             \/ LosePublication(c) \/ Fail(c) \/ Reply(c)
      PROVE  FeedInv'
  BY <1>1, FeedCommit, FeedCommitUnpublished, FeedPublish,
     FeedLosePublication, FeedFail, FeedReply
<1>2. ASSUME NEW s \in Screens,
             \/ Connect(s) \/ Subscribe(s) \/ Disconnect(s) \/ Deliver(s)
             \/ AnswerFetch(s) \/ ShowFetched(s) \/ FailFetch(s)
      PROVE  FeedInv'
  BY <1>2, FeedConnect, FeedSubscribe, FeedDisconnect, FeedDeliver,
     FeedAnswerFetch, FeedShowFetched, FeedFailFetch
<1>3. ASSUME UNCHANGED vars PROVE FeedInv'
  BY <1>3 DEF vars, FeedInv, Written, Current, Coming
<1> QED
  BY <1>1, <1>2, <1>3 DEF Next

LEMMA FeedInvariant == Spec => []FeedInv
<1>1. Init => FeedInv
  BY FeedInit
<1>2. FeedInv /\ [Next]_vars => FeedInv'
  BY FeedStep
<1> QED
  BY <1>1, <1>2, PTL DEF Spec

\* The row, the requests, the buffers and the pages keep their types, and no
\* buffer exceeds its size.
THEOREM FeedTypes == Spec => []TypeOK
<1>1. FeedInv => TypeOK
  BY WrittenTypes DEF FeedInv
<1> QED
  BY <1>1, FeedInvariant, PTL

\* However many consoles write and screens connect, a subscribed screen shows
\* the newest row, is about to be sent it, or has lost an update in one of the
\* listed ways since it was last refetched.
THEOREM FeedLosesNothingElse == Spec => []NewestIsComing
<1>1. FeedInv => NewestIsComing
  BY DEF FeedInv, Written, Current, NewestIsComing
<1> QED
  BY <1>1, FeedInvariant, PTL
=============================================================================
