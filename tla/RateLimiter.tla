------------------------------ MODULE RateLimiter -----------------------------
(* The token bucket in front of the external API: one visitor per key, a     *)
(* refill counted in whole intervals since the visitor was last seen, and a  *)
(* ticker that forgets visitors.                                             *)
EXTENDS Integers

CONSTANTS Keys,
          Rate, Burst,  \* tokens added per interval, and at most
          Interval,     \* in ticks of the clock
          Stale,        \* age at which the ticker forgets a visitor
          MaxTime       \* bound: the clock

ASSUME LimiterAssumption ==
    /\ Rate \in Nat \ {0} /\ Burst \in Nat \ {0}
    /\ Interval \in Nat \ {0} /\ Stale \in Nat /\ MaxTime \in Nat
    /\ Stale >= Interval

VARIABLES now,
          visitors,  \* per key: tokens and lastSeen, or NoVisitor
          served     \* history: the requests let through by the end of a tick

limitervars == <<now, visitors, served>>

NoVisitor == [tokens |-> 0, lastSeen |-> MaxTime + 1]

LimiterInit ==
    /\ now = 0
    /\ visitors = [k \in Keys |-> NoVisitor]
    /\ served = [k \in Keys |-> [t \in 0..MaxTime |-> 0]]

-----------------------------------------------------------------------------
Capped(n) == IF n > Burst THEN Burst ELSE n

\* Mutant: an interval that has only begun counts as a whole one.
RefillBegun(v) == ((now - v.lastSeen + Interval - 1) \div Interval) * Rate

Refill(v) == ((now - v.lastSeen) \div Interval) * Rate

Refilled(v) == Capped(v.tokens + Refill(v))

Seen(k, tokens) ==
    visitors' = [visitors EXCEPT ![k] = [tokens |-> tokens, lastSeen |-> now]]

\* allow, all of it under the mutex; a new visitor pays for its first request.
allow(k) ==
    LET v == visitors[k]
        tokens == IF v = NoVisitor THEN Burst ELSE Refilled(v)
    IN /\ IF tokens = 0
          THEN Seen(k, 0) /\ UNCHANGED served
          ELSE /\ Seen(k, tokens - 1)
               /\ served' = [served EXCEPT ![k][now] = @ + 1]
       /\ UNCHANGED now

\* The ticker's period is not tied to the visitors' clocks: it comes any time.
cleanup ==
    /\ visitors' = [k \in Keys |->
                      IF visitors[k] # NoVisitor
                           /\ now - visitors[k].lastSeen > Stale
                      THEN NoVisitor ELSE visitors[k]]
    /\ UNCHANGED <<now, served>>

Tick ==
    /\ now < MaxTime /\ now' = now + 1
    /\ served' = [k \in Keys |-> [served[k] EXCEPT ![now'] = served[k][now]]]
    /\ UNCHANGED visitors

LimiterNext == Tick \/ cleanup \/ \E k \in Keys : allow(k)

LimiterSpec == LimiterInit /\ [][LimiterNext]_limitervars

-----------------------------------------------------------------------------
ServedBefore(k, a) == IF a = 0 THEN 0 ELSE served[k][a - 1]
Between(k, a, b) == served[k][b] - ServedBefore(k, a)

\* Whatever a client does, and whenever the ticker forgets it, no key is let
\* through more than the burst within one interval.
LimiterKeepsWindow ==
    \A k \in Keys, a \in 0..now :
        LET b == IF a + Interval - 1 > now THEN now ELSE a + Interval - 1
        IN Between(k, a, b) <= Burst
=============================================================================
