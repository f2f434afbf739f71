------------------------------- MODULE ScreenKit -------------------------------
(***************************************************************************)
(* The vocabulary in which the hooks and the screens of the web client are *)
(* written down: a table of queries and mutations, and for every component *)
(* what it reads, when it shows its content, and what its forms and        *)
(* buttons do before, during and after a request.                          *)
(***************************************************************************)
EXTENDS TLC, Sequences

(* useQuery: its key, the tables whose rows the answer shows, a poll.        *)
Query(key, reads) == [query |-> TRUE, key |-> key, reads |-> reads,
                      poll |-> FALSE]

(* useMutation: the tables the request writes, and what onSuccess does:      *)
(* prefixes of keys to invalidate, keys whose data to replace.               *)
Mutation(writes, invalidates) ==
    [query |-> FALSE, writes |-> writes, invalidates |-> invalidates,
     sets |-> {}]
Setting(writes, sets, invalidates) ==
    [query |-> FALSE, writes |-> writes, invalidates |-> invalidates,
     sets |-> sets]

(* What the user can do on a screen.                                         *)
(*   slot    the dialog or panel it belongs to: one is open at a time        *)
(*   home    the component that holds the draft: the dialog's own child,     *)
(*           the parent that outlives it, or the page itself                 *)
(*   hook    the component that holds the mutation: child or parent          *)
(*   seed    where the draft comes from: blank, the row as cached, the row   *)
(*           whenever it is refetched, or whatever was typed before          *)
(*   how     await: what follows mutateAsync; call: callbacks of mutate      *)
(*   done    after success: the dialog closes, the page is left, or left     *)
(*           and loaded anew, the draft is blanked, or nothing changes       *)
(*   to      the screen that is opened when the page is left                 *)
(*   guard   no second request while one is under way                        *)
(*   early   the dialog closes when the request is sent                      *)
(*   over    it may be opened over a draft that is open in the same slot     *)
Act == [slot |-> "dialog", home |-> "child", hook |-> "parent",
        seed |-> "blank", how |-> "await", done |-> "close", to |-> "",
        guard |-> TRUE, early |-> FALSE, over |-> FALSE,
        sends |-> ""]

(* A dialog whose form is a component of its own, mounted while it is open.  *)
Child(mutation) == [Act EXCEPT !.hook = "child", !.sends = mutation]
EditChild(mutation) == [Child(mutation) EXCEPT !.seed = "row"]
(* A dialog or panel whose draft is state of the page.                       *)
Panel(mutation) == [Act EXCEPT !.home = "parent", !.sends = mutation]
EditPanel(mutation) == [Panel(mutation) EXCEPT !.seed = "row"]
(* A page that is a form.                                                    *)
PageForm(mutation, next) ==
    [Act EXCEPT !.slot = "page", !.home = "page", !.sends = mutation,
                !.done = IF next = "" THEN "stay" ELSE "leave",
                !.to = next]
(* A button, with or without a question before it.                           *)
Button(mutation) ==
    [Act EXCEPT !.slot = "button", !.home = "page", !.done = "stay",
                !.sends = mutation]
Confirm(mutation) == [Act EXCEPT !.slot = "confirm", !.home = "parent",
                                 !.sends = mutation]

With(act, fields) == fields @@ act

(* A form in the page itself: unlike a dialog it covers nothing.             *)
Inline(act) == With(act, [slot |-> "panel"])
(* One that is shared by new and old rows: an edit may begin over a draft.   *)
Composer(act) == With(Inline(act), [over |-> act.seed = "row"])
Modal == {"dialog", "create", "edit", "confirm", "archive"}

(* A component: the queries it and its parents on the screen use, those      *)
(* whose data it waits for, those whose error replaces the content even when *)
(* there is data, and what the user can do.                                  *)
Screen(reads, needs, fails, acts) ==
    [reads |-> reads, needs |-> needs, fails |-> fails, acts |-> acts,
     within |-> "", stays |-> FALSE]
(* A component that another one shows only with its own content.             *)
Within(parent, part) == [part EXCEPT !.within = parent]
(* One around the pages, which stays when the user goes from page to page.   *)
Layout(frame) == [frame EXCEPT !.stays = TRUE]
NoActs == [a \in {} |-> Act]
=============================================================================
