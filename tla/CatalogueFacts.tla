----------------------------- MODULE CatalogueFacts ----------------------------
(***************************************************************************)
(* What the proofs about the screens use of the tables of hooks and of     *)
(* screens: conditions on constants, which TLC evaluates over all of them. *)
(***************************************************************************)
EXTENDS Catalogue

AllScreens == DOMAIN Screenful
ActsOf(s) == Screenful[s].acts
OnPages == UNION {Screenful[s].reads : s \in AllScreens}

(* Every act sends a mutation of a hook, and what that changes on any screen *)
(* its onSuccess refetches or replaces, but for KnownGaps.                   *)
KeysCover ==
    \A s \in AllScreens : \A a \in DOMAIN ActsOf(s) :
        LET m == ActsOf(s)[a].sends
        IN /\ m \in MutationNames
           /\ \A q \in AffectsOf[m] \cap OnPages :
                 <<m, q>> \notin KnownGaps
                    => q \in RefreshesOf[m] \cup ReplacesOf[m]

(* A component is part of a screen, and a page that is left is left for      *)
(* another.                                                                  *)
PagesLinked ==
    /\ "elsewhere" \notin AllScreens
    /\ \A s \in AllScreens :
          /\ Screenful[s].within \in AllScreens \cup {""}
          /\ \A a \in DOMAIN ActsOf(s) :
                /\ ActsOf(s)[a].done \in {"leave", "reload"}
                      => ActsOf(s)[a].to # s
                /\ ActsOf(s)[a].how = "await"
                      /\ ActsOf(s)[a].done \in {"leave", "reload"}
                      => <<s, a>> \in Wandering

(* Requests wait for those under way, and drafts are seeded when mounted.    *)
FormsCareful ==
    \A s \in AllScreens : \A a \in DOMAIN ActsOf(s) :
        /\ a # ""
        /\ ActsOf(s)[a].guard = TRUE \/ <<s, a>> \in Unguarded
        /\ ActsOf(s)[a].seed = "kept" => s \in Leftovers
        /\ ActsOf(s)[a].seed = "sync" => s \in Fragile

(* The forms of the page itself have slots of their own.  What closes a      *)
(* dialog is a callback of a form that is mounted with it.                   *)
DialogsOwned ==
    \A s \in AllScreens : \A a, b \in DOMAIN ActsOf(s) :
        ActsOf(s)[a].slot = ActsOf(s)[b].slot
          => /\ ActsOf(s)[a].home = "page" => ActsOf(s)[b].home = "page"
             /\ ActsOf(s)[a].done = "close"
                  => /\ ActsOf(s)[b].home # "page"
                     /\ \/ <<s, a>> \in Intrusive
                        \/ /\ ActsOf(s)[a].how # "await"
                           /\ ActsOf(s)[b].hook = "child"

(* The queries whose error takes the forms off the screen: those of the      *)
(* component that it is part of, and of its own if a dialog keeps the draft. *)
Unmounting(s) ==
    (IF Screenful[s].within = "" THEN {}
     ELSE Screenful[Screenful[s].within].fails)
    \cup (IF \E a \in DOMAIN ActsOf(s) : ActsOf(s)[a].home = "child"
          THEN Screenful[s].fails ELSE {})
Required(s) ==
    Screenful[s].needs \cup (IF Screenful[s].within = "" THEN {}
                             ELSE Screenful[Screenful[s].within].needs)
Writable(s) == \E a \in DOMAIN ActsOf(s) :
    ActsOf(s)[a].slot \notin {"button", "confirm"}

(* A page whose only form waits for its only request.                        *)
OneForm(s) ==
    \A a, b \in DOMAIN ActsOf(s) :
        a = b /\ ActsOf(s)[a].home = "page" /\ ActsOf(s)[a].guard = TRUE

(* Screens with something to type into, but for Fragile: a query whose error *)
(* takes the form away is needed to show it in the first place, and nobody   *)
(* fetches it again while the form is there.                                 *)
DraftsSafe ==
    \A s \in AllScreens \ Fragile :
        Writable(s) =>
            /\ Unmounting(s) \subseteq Required(s) \ PolledQueries
            /\ \A a \in DOMAIN ActsOf(s) :
                  \/ Unmounting(s) \cap RefreshesOf[ActsOf(s)[a].sends] = {}
                  \/ /\ ActsOf(s)[a].done = "leave"
                     /\ ActsOf(s)[a].how = "await" \/ OneForm(s)

ASSUME CatalogueAssumption ==
    /\ KeysCover /\ PagesLinked /\ FormsCareful /\ DialogsOwned /\ DraftsSafe
=============================================================================
