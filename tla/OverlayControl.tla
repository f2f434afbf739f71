---------------------------- MODULE OverlayControl ----------------------------
(***************************************************************************)
(* The control panel of a court's overlay: one row of                      *)
(* court_overlay_configs and the pages on which operators edit it.  A page *)
(* shows one tab at a time; a tab keeps a draft, waits a moment after each *)
(* edit, and then sends its whole column.  Requests may overtake each      *)
(* other, replies and pushes replace the page's cached row, and the tab    *)
(* takes its draft from that row again under a rule of its own.            *)
(***************************************************************************)
EXTENDS Naturals, FiniteSets, Sequences

CONSTANTS Pages,         \* control panels that are open, one per operator
          ElementKeys,   \* elements of the overlay
          OverrideKeys,  \* fields of the live data that may be overridden
          Vals,          \* values of an item; 0 is its default
          None,          \* no draft, nothing pending, nothing typed
          MaxEdits       \* bound on the edits of a behaviour

ASSUME PanelAssumption ==
    /\ 0 \in Vals /\ Vals \subseteq Nat /\ None \notin Vals
    /\ MaxEdits \in Nat

-----------------------------------------------------------------------------
(* The row, column by column.  A theme and the colours that go with it are   *)
(* written by one request.                                                   *)
KeysOf == [elements |-> ElementKeys, overrides |-> OverrideKeys,
           look |-> {"theme", "color"}, source |-> {"profile"},
           token |-> {"token"}]
Columns == DOMAIN KeysOf
Column == UNION {[KeysOf[c] -> Vals] : c \in Columns}

ASSUME NoneAssumption == None \notin Column

DefaultRow == [ver |-> 0, col |-> [c \in Columns |-> [k \in KeysOf[c] |-> 0]]]

(* The tabs that keep a draft, and the column each of them edits.            *)
ColumnOf == [elements |-> "elements", theme |-> "look",
             overrides |-> "overrides", other |-> "source"]
Tabs == DOMAIN ColumnOf

VARIABLES
    row,      \* the row; ver stands for updated_at
    page,     \* page: cached row, tab, its draft and what waits to be sent
    sent,     \* requests not yet run
    replies,  \* answers on their way
    pushes,   \* page: config_update messages on their way
    edits,    \* number of edits so far
    typed,    \* history, page: what was last typed into the tab, by item
    dropped,  \* history, page: items for which an edit sent an older value
    excused,  \* history, page: items lost to a failure, another page, a race
    newest,   \* history, page and column: the newest edit that was written
    behind    \* history: pages that saw a failure, or an old row after a new

panelvars == <<row, page, sent, replies, pushes>>
history == <<typed, dropped, excused, newest, behind>>
vars == <<panelvars, edits, history>>

Nothing == [k \in {} |-> 0]
Untyped(t) == [k \in KeysOf[ColumnOf[t]] |-> None]

Init ==
    /\ row = DefaultRow
    /\ page = [p \in Pages |-> [cache |-> DefaultRow, tab |-> "other",
                                draft |-> Nothing, pending |-> None]]
    /\ sent = {} /\ replies = {} /\ pushes = [p \in Pages |-> <<>>]
    /\ edits = 0
    /\ typed = [p \in Pages |-> Untyped("other")]
    /\ dropped = [p \in Pages |-> {}] /\ excused = [p \in Pages |-> {}]
    /\ newest = [p \in Pages |-> [c \in Columns |-> 0]]
    /\ behind = {}

-----------------------------------------------------------------------------
(* The callbacks of a tab that is gone are not called, and the one that      *)
(* takes its place waits for none of its requests.                           *)
Orphaned(rs, p) ==
    {IF r.page = p THEN [r EXCEPT !.kind = "save"] ELSE r : r \in rs}

(* Opening a tab unmounts the one before, which clears its timer: what       *)
(* waited there is gone.  The new tab takes its draft from the cached row.   *)
OpenTab(p, t) ==
    /\ t # page[p].tab
    /\ page' = [page EXCEPT
          ![p].tab = t, ![p].pending = None,
          ![p].draft = IF t = "other" THEN Nothing
                       ELSE page[p].cache.col[ColumnOf[t]]]
    /\ sent' = Orphaned(sent, p) /\ replies' = Orphaned(replies, p)
    /\ typed' = [typed EXCEPT ![p] = Untyped(t)]
    /\ dropped' = [dropped EXCEPT ![p] = {}]
    /\ excused' = [excused EXCEPT ![p] = {}]
    /\ UNCHANGED <<row, pushes, edits, newest, behind>>

(* An edit is counted, and remembered as typed.  An item whose typed value   *)
(* is not the one that the edit is going to send is dropped by the edit.     *)
Typing(p, items, value) ==
    LET now == [k \in DOMAIN typed[p] |->
                  IF k \in items THEN value[k] ELSE typed[p][k]]
    IN /\ edits < MaxEdits /\ edits' = edits + 1
       /\ typed' = [typed EXCEPT ![p] = now]
       /\ dropped' = [dropped EXCEPT ![p] =
             (@ \ items) \cup
             {k \in DOMAIN now : now[k] # None /\ now[k] # value[k]}]
       /\ excused' = [excused EXCEPT ![p] = @ \ items]
       /\ UNCHANGED <<newest, behind>>

Send(p, c, value, kind) ==
    sent' = sent \cup {[page |-> p, col |-> c, val |-> value,
                        n |-> edits', kind |-> kind]}

InFlight(p, kind) == \E r \in sent \cup replies : r.page = p /\ r.kind = kind

(* patch of the elements tab and setOverride of the overrides tab: the next  *)
(* draft is the draft with one item changed, and waits to be sent whole.     *)
EditItem(p, k, v) ==
    /\ page[p].tab \in {"elements", "overrides"}
    /\ k \in DOMAIN page[p].draft
    /\ LET next == [page[p].draft EXCEPT ![k] = v]
       IN /\ page' = [page EXCEPT ![p].draft = next, ![p].pending = next]
          /\ Typing(p, {k}, next)
    /\ UNCHANGED <<row, sent, replies, pushes>>

(* setOverride of the theme tab: the colours typed, and the theme of the     *)
(* cached row.                                                               *)
EditColor(p, v) ==
    /\ page[p].tab = "theme"
    /\ LET next == [theme |-> page[p].cache.col.look.theme, color |-> v]
       IN /\ page' = [page EXCEPT ![p].draft.color = v, ![p].pending = next]
          /\ Typing(p, {"color"}, next)
    /\ UNCHANGED <<row, sent, replies, pushes>>

(* selectTheme sends at once, with the colours on the screen; resetOverrides *)
(* sends at once, with no colours and the theme of the cached row.           *)
PickTheme(p, t) ==
    /\ page[p].tab = "theme"
    /\ LET next == [theme |-> t, color |-> page[p].draft.color]
       IN /\ Typing(p, {"theme"}, next)
          /\ Send(p, "look", next, "save")
    /\ page' = [page EXCEPT ![p].pending = None]
    /\ UNCHANGED <<row, replies, pushes>>

ResetColors(p) ==
    /\ page[p].tab = "theme" /\ page[p].draft.color # 0
    /\ LET next == [theme |-> page[p].cache.col.look.theme, color |-> 0]
       IN /\ Typing(p, {"color"}, next)
          /\ Send(p, "look", next, "save")
    /\ page' = [page EXCEPT ![p].draft.color = 0, ![p].pending = None]
    /\ UNCHANGED <<row, replies, pushes>>

(* handleClearAll: forget what waits and send the empty column.              *)
ClearOverrides(p) ==
    /\ page[p].tab = "overrides"
    /\ \E k \in DOMAIN page[p].draft : page[p].draft[k] # 0
    /\ ~InFlight(p, "clear")
    /\ LET next == DefaultRow.col.overrides
       IN /\ Typing(p, OverrideKeys, next)
          /\ Send(p, "overrides", next, "clear")
    /\ page' = [page EXCEPT ![p].pending = None]
    /\ UNCHANGED <<row, replies, pushes>>

(* Mutant: the timer forgets what waits when a request is still running.     *)
FlushIfIdle(p) ==
    /\ page[p].pending # None
    /\ IF InFlight(p, "save") THEN sent' = sent
       ELSE sent' = sent \cup {[page |-> p, col |-> ColumnOf[page[p].tab],
                                val |-> page[p].pending, n |-> edits,
                                kind |-> "save"]}
    /\ page' = [page EXCEPT ![p].pending = None]
    /\ UNCHANGED <<row, replies, pushes, edits, history>>

(* The timer of the tab fires.  Only the overrides tab forgets what it sent; *)
(* the others keep it but write it before they read it again.                *)
Flush(p) ==
    /\ page[p].pending # None
    /\ sent' = sent \cup {[page |-> p, col |-> ColumnOf[page[p].tab],
                           val |-> page[p].pending, n |-> edits,
                           kind |-> "save"]}
    /\ page' = [page EXCEPT ![p].pending = None]
    /\ UNCHANGED <<row, replies, pushes, edits, history>>

(* The source and URL tabs keep no draft and wait for each answer.           *)
BindSource(p, v) ==
    /\ page[p].tab = "other" /\ ~InFlight(p, "bind")
    /\ v # page[p].cache.col.source.profile
    /\ Typing(p, {}, [k \in {"profile"} |-> v])
    /\ Send(p, "source", [k \in {"profile"} |-> v], "bind")
    /\ UNCHANGED <<row, page, replies, pushes>>

SetToken(p, v) ==
    /\ page[p].tab = "other" /\ ~InFlight(p, "token")
    /\ page[p].cache.col.token.token + v > 0
    /\ Typing(p, {}, [k \in {"profile"} |-> v])
    /\ Send(p, "token", [k \in {"token"} |-> v], "token")
    /\ UNCHANGED <<row, page, replies, pushes>>

-----------------------------------------------------------------------------
(* The service writes one column and pushes the row it got back, except for  *)
(* a token.  Another page's items in that column are overwritten, and those  *)
(* of the same page if an older request runs after a newer one.              *)
Older(r) == r.n < newest[r.page][r.col]

Overwritten(p, r) ==
    IF ColumnOf[page[p].tab] # r.col THEN {}
    ELSE {k \in DOMAIN typed[p] : typed[p][k] \notin {None, r.val[k]}}

Commit(r) ==
    /\ row' = [ver |-> row.ver + 1, col |-> [row.col EXCEPT ![r.col] = r.val]]
    /\ sent' = sent \ {r}
    /\ replies' = replies \cup {[page |-> r.page, kind |-> r.kind,
                                 col |-> r.col, n |-> r.n, row |-> row']}
    /\ pushes' = IF r.col = "token" THEN pushes
                 ELSE [p \in Pages |-> Append(pushes[p], row')]
    /\ excused' = [p \in Pages |-> IF r.page # p \/ Older(r)
                     THEN excused[p] \cup Overwritten(p, r) ELSE excused[p]]
    /\ newest' = [newest EXCEPT ![r.page][r.col] = IF Older(r) THEN @ ELSE r.n]
    /\ UNCHANGED <<page, edits, typed, dropped, behind>>

(* A request is refused or lost: the page says so and keeps its draft.       *)
Fail(r) ==
    /\ sent' = sent \ {r}
    /\ excused' = [excused EXCEPT ![r.page] = @ \cup
          {k \in DOMAIN typed[r.page] : ColumnOf[page[r.page].tab] = r.col}]
    /\ behind' = behind \cup {r.page}
    /\ UNCHANGED <<row, page, replies, pushes, edits, typed, dropped, newest>>

(* Mutant: the elements tab takes its draft only when it is opened.          *)
SyncedUnlessElements(pg, new) ==
    CASE pg.tab = "theme" ->
           [theme |-> new.col.look.theme,
            color |-> IF new.col.look.color # pg.cache.col.look.color
                      THEN new.col.look.color ELSE pg.draft.color]
      [] pg.tab = "overrides" ->
           IF new # pg.cache /\ pg.pending = None THEN new.col.overrides
           ELSE pg.draft
      [] OTHER -> pg.draft

(* The cached row is replaced.  The elements tab takes its draft again when  *)
(* the elements changed, the theme tab when the colours changed, and the     *)
(* overrides tab whenever the row is another and nothing waits to be sent.   *)
Synced(pg, new) ==
    LET old == pg.cache.col
        now == new.col
    IN CASE pg.tab = "elements" ->
              IF now.elements # old.elements THEN now.elements ELSE pg.draft
         [] pg.tab = "theme" ->
              [theme |-> now.look.theme,
               color |-> IF now.look.color # old.look.color
                         THEN now.look.color ELSE pg.draft.color]
         [] pg.tab = "overrides" ->
              IF new # pg.cache /\ pg.pending = None THEN now.overrides
              ELSE pg.draft
         [] OTHER -> pg.draft

Shown(p, new) ==
    /\ page' = [page EXCEPT ![p].cache = new,
                            ![p].draft = Synced(page[p], new)]
    /\ behind' = IF new.ver < page[p].cache.ver THEN behind \cup {p}
                 ELSE behind

(* onSuccess of a request; a clear empties the draft as well.                *)
Reply(s) ==
    /\ replies' = replies \ {s}
    /\ IF s.kind = "clear" /\ page[s.page].tab = "overrides"
       THEN /\ page' = [page EXCEPT
                  ![s.page].cache = s.row,
                  ![s.page].draft = DefaultRow.col.overrides]
            /\ behind' = IF s.row.ver < page[s.page].cache.ver
                            \/ page[s.page].pending # None
                            \/ s.row.ver < row.ver
                         THEN behind \cup {s.page} ELSE behind
       ELSE Shown(s.page, s.row)
    /\ UNCHANGED <<row, sent, pushes, edits, typed, dropped, excused,
                   newest>>

(* config_update on the overlay channel, which the preview listens to.       *)
Push(p) ==
    /\ pushes[p] # <<>>
    /\ Shown(p, Head(pushes[p]))
    /\ pushes' = [pushes EXCEPT ![p] = Tail(@)]
    /\ UNCHANGED <<row, sent, replies, edits, typed, dropped, excused,
                   newest>>

Next ==
    \/ \E p \in Pages :
         \/ \E t \in Tabs : OpenTab(p, t)
         \/ \E k \in ElementKeys \cup OverrideKeys, v \in Vals :
              EditItem(p, k, v)
         \/ \E v \in Vals : EditColor(p, v) \/ PickTheme(p, v)
                              \/ BindSource(p, v) \/ SetToken(p, v)
         \/ ResetColors(p) \/ ClearOverrides(p) \/ Flush(p) \/ Push(p)
    \/ \E r \in sent : Commit(r) \/ Fail(r)
    \/ \E s \in replies : Reply(s)

Spec == Init /\ [][Next]_vars

-----------------------------------------------------------------------------
Carries(p, r, k, v) ==
    r.page = p /\ r.col = ColumnOf[page[p].tab] /\ r.val[k] = v

(* What an operator typed into the tab that is open is in the row, waiting,  *)
(* or being sent, unless a request failed, somebody else wrote the column,   *)
(* an older request ran later, or an edit after it sent an older value.      *)
EditsAreAccountedFor ==
    \A p \in Pages : \A k \in DOMAIN typed[p] :
        \/ typed[p][k] = None
        \/ k \in dropped[p] \cup excused[p]
        \/ row.col[ColumnOf[page[p].tab]][k] = typed[p][k]
        \/ page[p].pending # None /\ page[p].pending[k] = typed[p][k]
        \/ \E r \in sent : Carries(p, r, k, typed[p][k])

(* When nothing is on its way the tab shows the row, unless a request of the *)
(* page failed or rows reached it in the wrong order.                        *)
QuietPanelIsTrue ==
    \A p \in Pages :
        \/ page[p].pending # None \/ pushes[p] # <<>>
        \/ \E r \in sent \cup replies : r.page = p
        \/ p \in behind \/ page[p].tab = "other"
        \/ page[p].draft = row.col[ColumnOf[page[p].tab]]

(* The comment on the draft of the overrides tab says that edits in flight   *)
(* are not clobbered: no later edit of the tab goes out without an override  *)
(* that the operator set before it.                                          *)
NoEditDropped ==
    \A p \in Pages : page[p].tab = "overrides" =>
        \A k \in dropped[p] : typed[p][k] = 0

TypeOK ==
    /\ \A p \in Pages : page[p].tab \in Tabs
                          /\ page[p].pending \in {None} \cup Column
                          /\ page[p].cache.ver <= row.ver
    /\ \A c \in Columns : row.col[c] \in [KeysOf[c] -> Vals]
    /\ \A r \in sent : r.val \in [KeysOf[r.col] -> Vals]
    /\ \A p \in Pages : page[p].tab # "other" =>
          page[p].draft \in [KeysOf[ColumnOf[page[p].tab]] -> Vals]
=============================================================================
