------------------------------ MODULE LiveFeed ------------------------------
(***************************************************************************)
(* How a write of a match reaches the screens: after the commit, and       *)
(* outside the row lock, the handler publishes the row it wrote to Redis   *)
(* (api/pubsub), the WebSocket handler of each subscriber relays it        *)
(* (api/ws), and the page puts it in its cache, where the replies to its   *)
(* own calls and the refetch of a new connection go as well                *)
(* (web/src/features/scoring).  A row is represented by its version, the   *)
(* number of the write that made it.                                       *)
(***************************************************************************)
EXTENDS Integers, Sequences

CONSTANTS
  Consoles,   \* the clients that score
  Screens,    \* the clients that show the match
  BufferSize, \* how many messages wait for one subscriber (64 in the code)
  MaxVersion  \* bound on the number of writes

ASSUME BoundsAssumption == BufferSize \in Nat /\ MaxVersion \in Nat

VARIABLES
  row,    \* the version in the database
  req,    \* req[c]: what the request of console c has left to do
  conn,   \* conn[s]: the WebSocket of screen s
  chan,   \* chan[s]: the messages on their way to s
  fetch,  \* fetch[s]: the refetch of s
  cache,  \* cache[s]: the version that s shows
  behind  \* history: screens that may show an old row until they refetch

vars == <<row, req, conn, chan, fetch, cache, behind>>

Versions == 0..MaxVersion

Step(pc, v) == [pc |-> pc, v |-> v]

Done == Step("done", 0)

Init ==
  /\ row = 0
  /\ req = [c \in Consoles |-> Done]
  /\ conn = [s \in Screens |-> "down"]
  /\ chan = [s \in Screens |-> <<>>]
  /\ fetch = [s \in Screens |-> Done]
  /\ cache = [s \in Screens |-> 0]
  /\ behind = {}

-----------------------------------------------------------------------------
(* The requests of the consoles.                                           *)

\* The scoring calls, starts, undos, corrections and status changes.
Commit(c) ==
  /\ req[c] = Done
  /\ row < MaxVersion
  /\ row' = row + 1
  /\ req' = [req EXCEPT ![c] = Step("publish", row')]
  /\ UNCHANGED <<conn, chan, fetch, cache, behind>>

\* UpdateMatchResult and the configuration are not published.  The second
\* write of ConfirmMatchOver and DeclareForfeit follows their publication.
CommitUnpublished(c) ==
  /\ req[c].pc \in {"done", "published"}
  /\ row < MaxVersion
  /\ row' = row + 1
  /\ req' = [req EXCEPT ![c] = Step("reply", row')]
  /\ behind' = Screens
  /\ UNCHANGED <<conn, chan, fetch, cache>>

\* Mutant: a message is queued whatever the length of the queue.
PublishUnbounded(c) ==
  LET Live == {s \in Screens : conn[s] = "live"}
  IN  /\ req[c].pc = "publish"
      /\ chan' = [s \in Screens |-> IF s \in Live
                                    THEN Append(chan[s], req[c].v)
                                    ELSE chan[s]]
      /\ behind' = behind \cup (Screens \ Live)
      /\ req' = [req EXCEPT ![c].pc = "published"]
      /\ UNCHANGED <<row, conn, fetch, cache>>

\* A subscriber with a full buffer misses the message, as does one who is
\* not subscribed.
Publish(c) ==
  LET Reached == {s \in Screens : conn[s] = "live" /\ Len(chan[s]) < BufferSize}
  IN  /\ req[c].pc = "publish"
      /\ chan' = [s \in Screens |-> IF s \in Reached
                                    THEN Append(chan[s], req[c].v)
                                    ELSE chan[s]]
      /\ behind' = behind \cup (Screens \ Reached)
      /\ req' = [req EXCEPT ![c].pc = "published"]
      /\ UNCHANGED <<row, conn, fetch, cache>>

\* Redis is not reached; the error is dropped and the request goes on.
LosePublication(c) ==
  /\ req[c].pc = "publish"
  /\ behind' = Screens
  /\ req' = [req EXCEPT ![c].pc = "published"]
  /\ UNCHANGED <<row, conn, chan, fetch, cache>>

\* The request is cancelled or the process stops; a committed row is then
\* not published, and its console does not hear of it.
Fail(c) ==
  /\ req[c] # Done
  /\ req' = [req EXCEPT ![c] = Done]
  /\ behind' = IF req[c].pc = "publish" THEN Screens ELSE behind
  /\ UNCHANGED <<row, conn, chan, fetch, cache>>

-----------------------------------------------------------------------------
(* The pages.                                                              *)

\* setQueryData and a refetch replace whatever the cache holds.
Show(s, v) ==
  /\ cache' = [cache EXCEPT ![s] = v]
  /\ behind' = IF v = row THEN behind \ {s}
               ELSE IF v < cache[s] THEN behind \cup {s}
               ELSE behind

Reply(c) ==
  /\ req[c].pc \in {"published", "reply"}
  /\ req' = [req EXCEPT ![c] = Done]
  /\ IF c \in Screens THEN Show(c, req[c].v) ELSE UNCHANGED <<cache, behind>>
  /\ UNCHANGED <<row, conn, chan, fetch>>

\* Mutant: a new connection does not refetch.
ConnectOnly(s) ==
  /\ conn[s] = "down"
  /\ conn' = [conn EXCEPT ![s] = "open"]
  /\ UNCHANGED <<row, req, chan, fetch, cache, behind>>

\* The connection is upgraded before the handler subscribes; onopen refetches,
\* cancelling an earlier refetch.
Connect(s) ==
  /\ conn[s] = "down"
  /\ conn' = [conn EXCEPT ![s] = "open"]
  /\ fetch' = [fetch EXCEPT ![s] = Step("asked", 0)]
  /\ UNCHANGED <<row, req, chan, cache, behind>>

Subscribe(s) ==
  /\ conn[s] = "open"
  /\ conn' = [conn EXCEPT ![s] = "live"]
  /\ UNCHANGED <<row, req, chan, fetch, cache, behind>>

Disconnect(s) ==
  /\ conn[s] # "down"
  /\ conn' = [conn EXCEPT ![s] = "down"]
  /\ chan' = [chan EXCEPT ![s] = <<>>]
  /\ UNCHANGED <<row, req, fetch, cache, behind>>

\* Mutant: a message is taken for a malformed one.
DeliverNothing(s) ==
  /\ chan[s] # <<>>
  /\ chan' = [chan EXCEPT ![s] = Tail(@)]
  /\ UNCHANGED <<row, req, conn, fetch, cache, behind>>

Deliver(s) ==
  /\ chan[s] # <<>>
  /\ Show(s, Head(chan[s]))
  /\ chan' = [chan EXCEPT ![s] = Tail(@)]
  /\ UNCHANGED <<row, req, conn, fetch>>

AnswerFetch(s) ==
  /\ fetch[s].pc = "asked"
  /\ fetch' = [fetch EXCEPT ![s] = Step("answered", row)]
  /\ behind' = behind \ {s}
  /\ UNCHANGED <<row, req, conn, chan, cache>>

ShowFetched(s) ==
  /\ fetch[s].pc = "answered"
  /\ Show(s, fetch[s].v)
  /\ fetch' = [fetch EXCEPT ![s] = Done]
  /\ UNCHANGED <<row, req, conn, chan>>

\* The refetch is given up after its retry.
FailFetch(s) ==
  /\ fetch[s] # Done
  /\ fetch' = [fetch EXCEPT ![s] = Done]
  /\ behind' = behind \cup {s}
  /\ UNCHANGED <<row, req, conn, chan, cache>>

Next ==
  \/ \E c \in Consoles :
       \/ Commit(c) \/ CommitUnpublished(c) \/ Publish(c)
       \/ LosePublication(c) \/ Fail(c) \/ Reply(c)
  \/ \E s \in Screens :
       \/ Connect(s) \/ Subscribe(s) \/ Disconnect(s) \/ Deliver(s)
       \/ AnswerFetch(s) \/ ShowFetched(s) \/ FailFetch(s)

\* Handlers run on, the relay loop drains its channel, requests are answered.
Fairness ==
  /\ \A c \in Consoles : WF_vars(Publish(c)) /\ WF_vars(Reply(c))
  /\ \A s \in Screens : /\ WF_vars(Deliver(s)) /\ WF_vars(AnswerFetch(s))
                        /\ WF_vars(ShowFetched(s))

Spec == Init /\ [][Next]_vars /\ Fairness

-----------------------------------------------------------------------------
TypeOK ==
  /\ row \in Versions
  /\ req \in [Consoles -> [pc : {"done", "publish", "published", "reply"},
                      v : Versions]]
  /\ conn \in [Screens -> {"down", "open", "live"}]
  /\ chan \in [Screens -> Seq(Versions)]
  /\ \A s \in Screens : Len(chan[s]) <= BufferSize
  /\ fetch \in [Screens -> [pc : {"done", "asked", "answered"}, v : Versions]]
  /\ cache \in [Screens -> Versions]
  /\ behind \subseteq Screens

\* What is still to be shown on a subscribed screen without a new write.
Coming(s) ==
  {chan[s][i] : i \in DOMAIN chan[s]}
    \cup {req[c].v : c \in {d \in Consoles : req[d].pc = "publish"}}
    \cup (IF fetch[s].pc = "asked" THEN {row} ELSE {})
    \cup (IF fetch[s].pc = "answered" THEN {fetch[s].v} ELSE {})

\* A subscribed screen shows the newest row or is about to be sent it, unless
\* one of these has happened since its last refetch: a write that is not
\* published, a publication that was lost, that the screen was not subscribed
\* to or had no room for, a refetch that failed, or an older row shown over a
\* newer one.  Nothing else loses an update.
NewestIsComing ==
  \A s \in Screens \ behind :
    conn[s] = "live" => cache[s] = row \/ row \in Coming(s)

\* A screen that stays connected and to which none of these happens any more
\* ends up showing the row, once the writes stop.
ConnectedScreenConverges ==
  \A s \in Screens :
    <>[](conn[s] = "live" /\ s \notin behind) => <>[](cache[s] = row)
=============================================================================
