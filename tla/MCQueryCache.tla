----------------------------- MODULE MCQueryCache -----------------------------
(* A list that is refetched, and a row that is replaced and polled.  The     *)
(* conditions of CatalogueFacts are evaluated before the run.                *)
EXTENDS QueryCache, CatalogueFacts, TLC
MCAffects == [save |-> {"list", "row"}]
MCRefreshes == [save |-> {"list"}]
MCReplaces == [save |-> {"row"}]

-----------------------------------------------------------------------------
(* The query behind the Source tab's "last update", as its hook defines it   *)
(* (MCSourceTab.cfg).                                                        *)
PolledHere == Queries \cap PolledQueries
MCNothing == [m \in {} |-> {}]

(* "Last-update timestamp polls every 5s so operators can see that data is   *)
(* still flowing" (SourceTab.tsx:18): while the tab stays open, its data is  *)
(* fetched again and again.                                                  *)
TimestampPolls ==
    \A q \in Queries : <>[](cache[q].on) => []<>(cache[q].phase # "idle")
=============================================================================
