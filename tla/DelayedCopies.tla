---------------------------- MODULE DelayedCopies ----------------------------
(***************************************************************************)
(* What a page promises of the data it shows: each item is a copy of what  *)
(* the server had at some time, and later copies are never older.          *)
(***************************************************************************)
EXTENDS Naturals

CONSTANTS Items

VARIABLES truth,  \* item: revision at the server
          copy    \* item: revision on the screen

vars == <<truth, copy>>

Init == truth = [i \in Items |-> 0] /\ copy = [i \in Items |-> 0]

Change ==
    /\ DOMAIN truth' = Items
    /\ \A i \in Items : truth'[i] \in {truth[i], truth[i] + 1}
    /\ UNCHANGED copy

Copy ==
    /\ DOMAIN copy' = Items
    /\ \A i \in Items : copy'[i] \in copy[i]..truth[i]
    /\ UNCHANGED truth

Next == Change \/ Copy

Spec == Init /\ [][Next]_vars
=============================================================================
