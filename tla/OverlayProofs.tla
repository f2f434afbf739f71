---------------------------- MODULE OverlayProofs ----------------------------
(* EditsAreAccountedFor and QuietPanelIsTrue for any number of control       *)
(* panels, of elements, of overrides and of edits.  The first invariant      *)
(* follows the newest edit of the tab that is open: it waits, it is being    *)
(* sent, or it is in the row.  The second follows what the tab shows: it is  *)
(* of the cached row, or what makes it so is still to come.                  *)
EXTENDS OverlayControl, TLAPS, SequenceTheorems

Cols == {f \in [Columns -> Column] :
           \A c \in Columns : f[c] \in [KeysOf[c] -> Vals]}
RowType == [ver : Nat, col : Cols]
Kinds == {"save", "clear", "bind", "token"}
SentType == [page : Pages, col : Columns, val : Column, n : Nat, kind : Kinds]
ReplyType == [page : Pages, kind : Kinds, col : Columns, n : Nat,
              row : RowType]
PageType == [cache : RowType, tab : Tabs, draft : {Nothing} \cup Column,
             pending : {None} \cup Column]

\* The column that the open tab of p edits.
Col(p) == ColumnOf[page[p].tab]

DraftsFit ==
    \A p \in Pages :
        /\ page[p].tab # "other" => page[p].draft \in [KeysOf[Col(p)] -> Vals]
        /\ page[p].pending # None
             => page[p].pending \in [KeysOf[Col(p)] -> Vals]

HistoryTypes ==
    /\ DOMAIN typed = Pages /\ DOMAIN dropped = Pages /\ DOMAIN excused = Pages
    /\ \A p \in Pages : DOMAIN typed[p] = KeysOf[Col(p)]
    /\ newest \in [Pages -> [Columns -> Nat]]

PanelTypes ==
    /\ row \in RowType /\ page \in [Pages -> PageType] /\ edits \in Nat
    /\ sent \subseteq SentType
    /\ \A r \in sent : r.val \in [KeysOf[r.col] -> Vals] /\ r.n <= edits
    /\ replies \subseteq ReplyType /\ pushes \in [Pages -> Seq(RowType)]
    /\ DraftsFit /\ HistoryTypes

-----------------------------------------------------------------------------
(* The columns and the tabs.                                                 *)

\* The columns and their items.
LEMMA ColumnNames ==
    /\ Columns = {"elements", "overrides", "look", "source", "token"}
    /\ KeysOf["elements"] = ElementKeys /\ KeysOf["overrides"] = OverrideKeys
    /\ KeysOf["look"] = {"theme", "color"} /\ KeysOf["source"] = {"profile"}
    /\ KeysOf["token"] = {"token"}
BY DEF Columns, KeysOf

\* Each tab edits a column.
LEMMA TabNames ==
    /\ Tabs = {"elements", "theme", "overrides", "other"}
    /\ ColumnOf["elements"] = "elements" /\ ColumnOf["theme"] = "look"
    /\ ColumnOf["overrides"] = "overrides" /\ ColumnOf["other"] = "source"
    /\ \A t \in Tabs : ColumnOf[t] \in Columns
BY ColumnNames DEF Tabs, ColumnOf

\* A value of any column is a column's value, and never None.
LEMMA ColumnValues ==
    /\ \A c \in Columns : \A f \in [KeysOf[c] -> Vals] : f \in Column
    /\ None \notin Column
BY NoneAssumption DEF Column

\* The default row is a row.
LEMMA DefaultTyped == DefaultRow \in RowType
<1>1. ASSUME NEW c \in Columns
      PROVE  [k \in KeysOf[c] |-> 0] \in [KeysOf[c] -> Vals]
  BY PanelAssumption
<1> DEFINE cols == [c \in Columns |-> [k \in KeysOf[c] |-> 0]]
<1>2. cols \in Cols
  BY <1>1, ColumnValues DEF Cols
<1> HIDE DEF cols
<1>3. DefaultRow = [ver |-> 0, col |-> cols]
  BY DEF DefaultRow, cols
<1> QED
  BY <1>2, <1>3 DEF RowType

\* What is known of a page.
LEMMA PageFields ==
    ASSUME PanelTypes, NEW p \in Pages
    PROVE  /\ page[p] \in PageType /\ page[p].tab \in Tabs
           /\ page[p].cache \in RowType /\ Col(p) \in Columns
           /\ page[p].draft \in {Nothing} \cup Column
           /\ page[p].pending \in {None} \cup Column
           /\ page[p].tab # "other"
                => page[p].draft \in [KeysOf[Col(p)] -> Vals]
           /\ page[p].pending # None
                => page[p].pending \in [KeysOf[Col(p)] -> Vals]
           /\ DOMAIN typed[p] = KeysOf[Col(p)]
<1>1. page[p] \in PageType
  BY DEF PanelTypes
<1> QED
  BY <1>1, TabNames DEF PageType, Col, PanelTypes, DraftsFit, HistoryTypes

\* Orphaned requests and replies are as they were, but for their kind.
LEMMA OrphanedSent ==
    ASSUME NEW rs \in SUBSET SentType, NEW p
    PROVE  /\ Orphaned(rs, p) \subseteq SentType
           /\ \A x \in Orphaned(rs, p) : \E r \in rs :
                /\ x.page = r.page /\ x.col = r.col /\ x.val = r.val
                /\ x.n = r.n
           /\ \A r \in SentType :
                r.page # p => (r \in Orphaned(rs, p) <=> r \in rs)
<1>1. ASSUME NEW r \in rs
      PROVE  LET x == [r EXCEPT !.kind = "save"]
             IN  /\ x \in SentType /\ x.page = r.page /\ x.col = r.col
                 /\ x.val = r.val /\ x.n = r.n
  BY DEF SentType, Kinds
<1> QED
  BY <1>1 DEF Orphaned

\* Orphaned replies are replies.
LEMMA OrphanedReplies ==
    ASSUME NEW rs \in SUBSET ReplyType, NEW p
    PROVE  Orphaned(rs, p) \subseteq ReplyType
<1>1. ASSUME NEW r \in rs PROVE [r EXCEPT !.kind = "save"] \in ReplyType
  BY DEF ReplyType, Kinds
<1> QED
  BY <1>1 DEF Orphaned

-----------------------------------------------------------------------------
(* Types, action by action.                                                  *)

\* A page that keeps its tab moves to a state that fits it.
LEMMA PageMoves ==
    ASSUME PanelTypes, NEW p \in Pages, NEW pg \in PageType,
           page' = [page EXCEPT ![p] = pg], pg.tab = page[p].tab,
           pg.tab # "other" => pg.draft \in [KeysOf[Col(p)] -> Vals],
           pg.pending # None => pg.pending \in [KeysOf[Col(p)] -> Vals]
    PROVE  /\ page' \in [Pages -> PageType] /\ DraftsFit' /\ page'[p] = pg
           /\ \A q \in Pages \ {p} : page'[q] = page[q]
           /\ \A q \in Pages : page'[q].tab = page[q].tab
<1>1. /\ page' \in [Pages -> PageType] /\ page'[p] = pg
      /\ \A q \in Pages \ {p} : page'[q] = page[q]
  BY DEF PanelTypes
<1>2. \A q \in Pages : page'[q].tab = page[q].tab
  BY <1>1
<1>3. DraftsFit'
  BY <1>1, <1>2 DEF PanelTypes, DraftsFit, Col
<1> QED
  BY <1>1, <1>2, <1>3

\* What an edit does to the history of its page.
LEMMA Typed ==
    ASSUME PanelTypes, NEW p \in Pages, NEW items, NEW value,
           Typing(p, items, value)
    PROVE  /\ edits' = edits + 1 /\ UNCHANGED <<newest, behind>>
           /\ DOMAIN typed' = Pages /\ DOMAIN dropped' = Pages
           /\ DOMAIN excused' = Pages
           /\ \A q \in Pages \ {p} : /\ typed'[q] = typed[q]
                                     /\ dropped'[q] = dropped[q]
                                     /\ excused'[q] = excused[q]
           /\ DOMAIN typed'[p] = DOMAIN typed[p]
           /\ \A k \in DOMAIN typed[p] :
                typed'[p][k] = IF k \in items THEN value[k] ELSE typed[p][k]
           /\ \A k \in DOMAIN typed'[p] :
                typed'[p][k] # None /\ k \notin dropped'[p]
                  => value[k] = typed'[p][k]
<1> DEFINE now == [k \in DOMAIN typed[p] |->
                     IF k \in items THEN value[k] ELSE typed[p][k]]
           d == (dropped[p] \ items) \cup
                {k \in DOMAIN now : now[k] # None /\ now[k] # value[k]}
<1>1. /\ edits' = edits + 1 /\ UNCHANGED <<newest, behind>>
      /\ typed' = [typed EXCEPT ![p] = now]
      /\ dropped' = [dropped EXCEPT ![p] = d]
      /\ excused' = [excused EXCEPT ![p] = @ \ items]
  BY DEF Typing
<1>2. DOMAIN typed = Pages /\ DOMAIN dropped = Pages /\ DOMAIN excused = Pages
  BY DEF PanelTypes, HistoryTypes
<1>3. /\ DOMAIN now = DOMAIN typed[p]
      /\ \A k \in DOMAIN typed[p] :
           now[k] = IF k \in items THEN value[k] ELSE typed[p][k]
      /\ \A k \in DOMAIN now : now[k] # None /\ k \notin d => value[k] = now[k]
  OBVIOUS
<1> HIDE DEF now, d
<1>4. /\ typed'[p] = now /\ dropped'[p] = d
      /\ \A q \in Pages \ {p} : /\ typed'[q] = typed[q]
                                /\ dropped'[q] = dropped[q]
                                /\ excused'[q] = excused[q]
      /\ DOMAIN typed' = Pages /\ DOMAIN dropped' = Pages
      /\ DOMAIN excused' = Pages
  BY <1>1, <1>2
<1> QED
  BY <1>1, <1>3, <1>4

\* The history of an edit fits if no tab changes.
LEMMA TypedFits ==
    ASSUME PanelTypes, NEW p \in Pages, NEW items, NEW value,
           Typing(p, items, value),
           \A q \in Pages : page'[q].tab = page[q].tab
    PROVE  HistoryTypes' /\ edits' \in Nat /\ edits' = edits + 1
<1>1. /\ edits' = edits + 1 /\ newest' = newest
      /\ DOMAIN typed' = Pages /\ DOMAIN dropped' = Pages
      /\ DOMAIN excused' = Pages
      /\ \A q \in Pages : DOMAIN typed'[q] = DOMAIN typed[q]
  BY Typed
<1>2. \A q \in Pages : DOMAIN typed'[q] = KeysOf[ColumnOf[page'[q].tab]]
  BY <1>1, PageFields DEF Col
<1>3. HistoryTypes'
  BY <1>1, <1>2 DEF PanelTypes, HistoryTypes, Col
<1> QED
  BY <1>1, <1>3 DEF PanelTypes

\* A request that is sent by an edit, or by the timer.
LEMMA SentFits ==
    ASSUME PanelTypes, NEW p \in Pages, NEW c \in Columns,
           NEW value \in [KeysOf[c] -> Vals], NEW kind \in Kinds, NEW n \in Nat,
           edits <= n, edits' = n,
           sent' = sent \cup {[page |-> p, col |-> c, val |-> value,
                               n |-> n, kind |-> kind]}
    PROVE  /\ sent' \subseteq SentType
           /\ \A r \in sent' : r.val \in [KeysOf[r.col] -> Vals]
                                 /\ r.n <= edits'
<1> DEFINE x == [page |-> p, col |-> c, val |-> value, n |-> n, kind |-> kind]
<1>1. x \in SentType /\ x.val \in [KeysOf[x.col] -> Vals] /\ x.n = n
  BY ColumnValues DEF SentType
<1>2. \A r \in sent : r.n \in Nat /\ edits \in Nat /\ r.n <= edits
  BY DEF PanelTypes, SentType
<1> HIDE DEF x
<1>3. \A r \in sent : r.n <= n
  BY <1>2
<1> QED
  BY <1>1, <1>3 DEF PanelTypes, x

\* Edits that wait for the timer (patch of the elements tab, setOverride of
\* the theme and overrides tabs).
LEMMA EditTypes ==
    ASSUME PanelTypes, NEW p \in Pages, NEW v \in Vals,
           (\E k \in ElementKeys \cup OverrideKeys : EditItem(p, k, v))
             \/ EditColor(p, v)
    PROVE  /\ PanelTypes' /\ UNCHANGED <<row, sent, replies, pushes, newest>>
           /\ edits' = edits + 1
           /\ \A q \in Pages \ {p} : page'[q] = page[q]
           /\ page'[p].tab = page[p].tab /\ page[p].tab # "other"
           /\ page'[p].pending # None
           /\ \E items : Typing(p, items, page'[p].pending)
<1>1. ASSUME NEW next \in [KeysOf[Col(p)] -> Vals],
             NEW draft \in [KeysOf[Col(p)] -> Vals], NEW items,
             page[p].tab # "other",
             page' = [page EXCEPT ![p].draft = draft, ![p].pending = next],
             Typing(p, items, next), UNCHANGED <<row, sent, replies, pushes>>
      PROVE  /\ PanelTypes' /\ edits' = edits + 1
             /\ UNCHANGED newest
             /\ \A q \in Pages \ {p} : page'[q] = page[q]
             /\ page'[p].tab = page[p].tab
             /\ page'[p].pending = next /\ next # None
  <2> DEFINE pg == [page[p] EXCEPT !.draft = draft, !.pending = next]
  <2>1. next \in Column /\ draft \in Column /\ next # None
    BY PageFields, ColumnValues
  <2>2. /\ pg \in PageType /\ pg.tab = page[p].tab /\ pg.draft = draft
        /\ pg.pending = next
    BY <2>1, PageFields DEF PageType
  <2>3. page' = [page EXCEPT ![p] = pg]
    BY <1>1 DEF PanelTypes
  <2> HIDE DEF pg
  <2>4. /\ page' \in [Pages -> PageType] /\ DraftsFit' /\ page'[p] = pg
        /\ \A q \in Pages \ {p} : page'[q] = page[q]
        /\ \A q \in Pages : page'[q].tab = page[q].tab
    BY <2>2, <2>3, PageMoves
  <2>5. HistoryTypes' /\ edits' \in Nat /\ edits' = edits + 1
        /\ UNCHANGED newest
    BY <1>1, <2>4, Typed, TypedFits
  <2>6. \A r \in sent : r.n <= edits'
    BY <2>5 DEF PanelTypes, SentType
  <2> QED
    BY <1>1, <2>1, <2>2, <2>4, <2>5, <2>6 DEF PanelTypes
<1>2. ASSUME NEW k \in ElementKeys \cup OverrideKeys, EditItem(p, k, v)
      PROVE  \E next \in [KeysOf[Col(p)] -> Vals] :
               /\ page' = [page EXCEPT ![p].draft = next, ![p].pending = next]
               /\ Typing(p, {k}, next)
  <2>1. page[p].draft \in [KeysOf[Col(p)] -> Vals]
    BY <1>2, PageFields DEF EditItem
  <2> QED
    BY <1>2, <2>1 DEF EditItem
<1>3. ASSUME EditColor(p, v)
      PROVE  \E next, draft \in [KeysOf[Col(p)] -> Vals] :
               /\ page' = [page EXCEPT ![p].draft = draft, ![p].pending = next]
               /\ Typing(p, {"color"}, next)
  <2> DEFINE next == [theme |-> page[p].cache.col.look.theme, color |-> v]
             draft == [page[p].draft EXCEPT !.color = v]
  <2>1. KeysOf[Col(p)] = {"theme", "color"}
    BY <1>3, ColumnNames, TabNames DEF EditColor, Col
  <2>2. page[p].draft \in [{"theme", "color"} -> Vals]
    BY <1>3, <2>1, PageFields DEF EditColor
  <2>3. page[p].cache.col.look.theme \in Vals
    <3>1. page[p].cache.col["look"] \in [{"theme", "color"} -> Vals]
      BY PageFields, ColumnNames DEF RowType, Cols
    <3> QED
      BY <3>1
  <2>4. next \in [KeysOf[Col(p)] -> Vals] /\ draft \in [KeysOf[Col(p)] -> Vals]
    BY <2>1, <2>2, <2>3
  <2>5. /\ page' = [page EXCEPT ![p].draft = draft, ![p].pending = next]
        /\ Typing(p, {"color"}, next)
    BY <1>3, <2>2 DEF EditColor
  <2> QED
    BY <2>4, <2>5
<1>4. page[p].tab # "other" /\ UNCHANGED <<row, sent, replies, pushes>>
  BY DEF EditItem, EditColor
<1> QED
  BY <1>1, <1>2, <1>3, <1>4

\* Edits that are sent at once (selectTheme, resetOverrides, handleClearAll).
LEMMA EditSends ==
    ASSUME PanelTypes, NEW p \in Pages,
           (\E t \in Vals : PickTheme(p, t)) \/ ResetColors(p)
             \/ ClearOverrides(p)
    PROVE  /\ PanelTypes' /\ UNCHANGED <<row, replies, pushes, newest>>
           /\ edits' = edits + 1
           /\ \A q \in Pages \ {p} : page'[q] = page[q]
           /\ page'[p].tab = page[p].tab /\ page[p].tab # "other"
           /\ page'[p].pending = None
           /\ \E items, next, kind :
                /\ Typing(p, items, next)
                /\ sent' = sent \cup {[page |-> p, col |-> Col(p),
                                       val |-> next, n |-> edits',
                                       kind |-> kind]}
<1>1. ASSUME NEW next \in [KeysOf[Col(p)] -> Vals],
             NEW draft \in [KeysOf[Col(p)] -> Vals], NEW items,
             NEW kind \in Kinds, page[p].tab # "other",
             page' = [page EXCEPT ![p] = [page[p] EXCEPT !.draft = draft,
                                                         !.pending = None]],
             Typing(p, items, next), Send(p, Col(p), next, kind),
             UNCHANGED <<row, replies, pushes>>
      PROVE  /\ PanelTypes' /\ edits' = edits + 1 /\ UNCHANGED newest
             /\ \A q \in Pages \ {p} : page'[q] = page[q]
             /\ page'[p].tab = page[p].tab
             /\ page'[p].pending = None
             /\ sent' = sent \cup {[page |-> p, col |-> Col(p), val |-> next,
                                    n |-> edits', kind |-> kind]}
  <2> DEFINE pg == [page[p] EXCEPT !.draft = draft, !.pending = None]
  <2>1. draft \in Column
    BY PageFields, ColumnValues
  <2>2. /\ pg \in PageType /\ pg.tab = page[p].tab /\ pg.draft = draft
        /\ pg.pending = None
    BY <2>1, PageFields DEF PageType
  <2>3. page' = [page EXCEPT ![p] = pg]
    BY <1>1
  <2> HIDE DEF pg
  <2>4. /\ page' \in [Pages -> PageType] /\ DraftsFit' /\ page'[p] = pg
        /\ \A q \in Pages \ {p} : page'[q] = page[q]
        /\ \A q \in Pages : page'[q].tab = page[q].tab
    BY <2>2, <2>3, PageMoves
  <2>5. HistoryTypes' /\ edits' \in Nat /\ edits' = edits + 1
        /\ UNCHANGED newest /\ edits <= edits'
    BY <1>1, <2>4, Typed, TypedFits DEF PanelTypes
  <2>6. sent' = sent \cup {[page |-> p, col |-> Col(p), val |-> next,
                            n |-> edits', kind |-> kind]}
    BY <1>1 DEF Send
  <2>7. /\ sent' \subseteq SentType
        /\ \A r \in sent' : r.val \in [KeysOf[r.col] -> Vals]
                              /\ r.n <= edits'
    BY <2>5, <2>6, PageFields, SentFits
  <2> QED
    BY <1>1, <2>2, <2>4, <2>5, <2>6, <2>7 DEF PanelTypes
<1> DEFINE Moved(next, draft, items, kind) ==
             /\ page' = [page EXCEPT ![p] = [page[p] EXCEPT !.draft = draft,
                                                            !.pending = None]]
             /\ Typing(p, items, next) /\ Send(p, Col(p), next, kind)
<1>2. ASSUME page[p].tab # "other"
      PROVE  [page EXCEPT ![p].pending = None] =
               [page EXCEPT ![p] = [page[p] EXCEPT !.draft = page[p].draft,
                                                   !.pending = None]]
  <2>1. page[p] \in PageType /\ page \in [Pages -> PageType]
    BY PageFields DEF PanelTypes
  <2>2. [page[p] EXCEPT !.pending = None] =
          [page[p] EXCEPT !.draft = page[p].draft, !.pending = None]
    BY <2>1 DEF PageType
  <2> QED
    BY <2>1, <2>2
<1>3. ASSUME page[p].tab = "theme"
      PROVE  /\ Col(p) = "look" /\ KeysOf[Col(p)] = {"theme", "color"}
             /\ page[p].draft \in [{"theme", "color"} -> Vals]
             /\ page[p].cache.col.look.theme \in Vals
  <2>1. Col(p) = "look" /\ KeysOf[Col(p)] = {"theme", "color"}
    BY <1>3, ColumnNames, TabNames DEF Col
  <2>2. page[p].draft \in [{"theme", "color"} -> Vals]
    BY <1>3, <2>1, PageFields
  <2>3. page[p].cache.col["look"] \in [{"theme", "color"} -> Vals]
    BY PageFields, ColumnNames DEF RowType, Cols
  <2> QED
    BY <2>1, <2>2, <2>3
<1>4. ASSUME NEW t \in Vals, PickTheme(p, t)
      PROVE  \E next, draft \in [KeysOf[Col(p)] -> Vals] : \E items :
               Moved(next, draft, items, "save")
  <2> DEFINE next == [theme |-> t, color |-> page[p].draft.color]
  <2>1. page[p].tab = "theme" /\ Typing(p, {"theme"}, next)
        /\ Send(p, "look", next, "save")
        /\ page' = [page EXCEPT ![p].pending = None]
    BY <1>4 DEF PickTheme
  <2>2. next \in [KeysOf[Col(p)] -> Vals] /\ Col(p) = "look"
        /\ page[p].draft \in [KeysOf[Col(p)] -> Vals]
    BY <1>3, <2>1
  <2> HIDE DEF next
  <2>3. Moved(next, page[p].draft, {"theme"}, "save")
    BY <1>2, <2>1, <2>2
  <2> QED
    BY <2>2, <2>3
<1>5. ASSUME ResetColors(p)
      PROVE  \E next, draft \in [KeysOf[Col(p)] -> Vals] : \E items :
               Moved(next, draft, items, "save")
  <2> DEFINE next == [theme |-> page[p].cache.col.look.theme, color |-> 0]
             draft == [page[p].draft EXCEPT !.color = 0]
  <2>1. page[p].tab = "theme" /\ Typing(p, {"color"}, next)
        /\ Send(p, "look", next, "save")
        /\ page' = [page EXCEPT ![p].draft.color = 0, ![p].pending = None]
    BY <1>5 DEF ResetColors
  <2>2. next \in [KeysOf[Col(p)] -> Vals] /\ Col(p) = "look"
        /\ draft \in [KeysOf[Col(p)] -> Vals]
    <3>1. KeysOf[Col(p)] = {"theme", "color"} /\ Col(p) = "look" /\ 0 \in Vals
      BY <1>3, <2>1, PanelAssumption
    <3>2. next \in [{"theme", "color"} -> Vals]
      BY <1>3, <2>1, <3>1
    <3>3. draft \in [{"theme", "color"} -> Vals]
      BY <1>3, <2>1, <3>1
    <3> QED
      BY <3>1, <3>2, <3>3
  <2>3. page' = [page EXCEPT ![p] = [page[p] EXCEPT !.draft = draft,
                                                    !.pending = None]]
    BY <2>1, PageFields DEF PanelTypes, PageType
  <2> HIDE DEF next, draft
  <2>4. Moved(next, draft, {"color"}, "save")
    BY <2>1, <2>2, <2>3
  <2> QED
    BY <2>2, <2>4
<1>6. ASSUME ClearOverrides(p)
      PROVE  \E next, draft \in [KeysOf[Col(p)] -> Vals] : \E items :
               Moved(next, draft, items, "clear")
  <2> DEFINE next == DefaultRow.col.overrides
  <2>1. page[p].tab = "overrides" /\ Typing(p, OverrideKeys, next)
        /\ Send(p, "overrides", next, "clear")
        /\ page' = [page EXCEPT ![p].pending = None]
    BY <1>6 DEF ClearOverrides
  <2>2. Col(p) = "overrides" /\ page[p].tab # "other"
    BY <2>1, TabNames DEF Col
  <2>3. DefaultRow.col["overrides"] \in [KeysOf["overrides"] -> Vals]
    BY DefaultTyped, ColumnNames DEF RowType, Cols
  <2>4. /\ next \in [KeysOf[Col(p)] -> Vals]
        /\ page[p].draft \in [KeysOf[Col(p)] -> Vals]
    BY <2>2, <2>3, PageFields
  <2> HIDE DEF next
  <2>5. Moved(next, page[p].draft, OverrideKeys, "clear")
    BY <1>2, <2>1, <2>2
  <2> QED
    BY <2>4, <2>5
<1>7. /\ page[p].tab # "other" /\ UNCHANGED <<row, replies, pushes>>
  BY DEF PickTheme, ResetColors, ClearOverrides
<1> HIDE DEF Moved
<1>8. "save" \in Kinds /\ "clear" \in Kinds
  BY DEF Kinds
<1>9. PICK kind \in Kinds, next \in [KeysOf[Col(p)] -> Vals],
           draft \in [KeysOf[Col(p)] -> Vals] :
        \E items : Moved(next, draft, items, kind)
  BY <1>4, <1>5, <1>6, <1>8
<1>10. PICK items : Moved(next, draft, items, kind)
  BY <1>9
<1>11. Typing(p, items, next)
  BY <1>10 DEF Moved
<1>12. /\ PanelTypes' /\ edits' = edits + 1 /\ UNCHANGED newest
       /\ \A q \in Pages \ {p} : page'[q] = page[q]
       /\ page'[p].tab = page[p].tab
       /\ page'[p].pending = None
       /\ sent' = sent \cup {[page |-> p, col |-> Col(p), val |-> next,
                              n |-> edits', kind |-> kind]}
  BY <1>1, <1>7, <1>10 DEF Moved
<1> QED
  BY <1>7, <1>11, <1>12

\* Edits without a draft (the source and URL tabs).
LEMMA BindTypes ==
    ASSUME PanelTypes, NEW p \in Pages, NEW v \in Vals,
           BindSource(p, v) \/ SetToken(p, v)
    PROVE  /\ PanelTypes' /\ UNCHANGED <<row, page, replies, pushes, newest>>
           /\ edits' = edits + 1 /\ page[p].tab = "other"
           /\ \A r \in sent' : r \in sent \/ r.page = p
           /\ sent \subseteq sent'
           /\ \E value : Typing(p, {}, value)
<1> DEFINE value == [k \in {"profile"} |-> v]
<1>1. \E c \in {"source", "token"} : \E val \in [KeysOf[c] -> Vals] :
        \E kind \in Kinds :
          /\ Typing(p, {}, value) /\ Send(p, c, val, kind)
          /\ UNCHANGED <<row, page, replies, pushes>> /\ page[p].tab = "other"
  <2>1. value \in [KeysOf["source"] -> Vals]
        /\ [k \in {"token"} |-> v] \in [KeysOf["token"] -> Vals]
        /\ "bind" \in Kinds /\ "token" \in Kinds
    BY ColumnNames DEF Kinds
  <2> HIDE DEF value
  <2>2. CASE BindSource(p, v)
    <3>1. /\ Typing(p, {}, value) /\ Send(p, "source", value, "bind")
          /\ UNCHANGED <<row, page, replies, pushes>> /\ page[p].tab = "other"
      BY <2>2 DEF BindSource, value
    <3> QED
      BY <2>1, <3>1
  <2>3. CASE SetToken(p, v)
    <3>1. /\ Typing(p, {}, value)
          /\ Send(p, "token", [k \in {"token"} |-> v], "token")
          /\ UNCHANGED <<row, page, replies, pushes>> /\ page[p].tab = "other"
      BY <2>3 DEF SetToken, value
    <3> QED
      BY <2>1, <3>1
  <2> QED
    BY <2>2, <2>3
<1> HIDE DEF value
<1>2. PICK c \in {"source", "token"} : \E val \in [KeysOf[c] -> Vals] :
        \E kind \in Kinds :
          /\ Typing(p, {}, value) /\ Send(p, c, val, kind)
          /\ UNCHANGED <<row, page, replies, pushes>> /\ page[p].tab = "other"
  BY <1>1
<1>3. PICK val \in [KeysOf[c] -> Vals], kind \in Kinds :
        /\ Typing(p, {}, value) /\ Send(p, c, val, kind)
        /\ UNCHANGED <<row, page, replies, pushes>> /\ page[p].tab = "other"
  BY <1>2
<1>4. c \in Columns
  BY ColumnNames
<1>5. HistoryTypes' /\ edits' \in Nat /\ edits' = edits + 1
      /\ UNCHANGED newest /\ edits <= edits'
  BY <1>3, Typed, TypedFits DEF PanelTypes
<1> DEFINE x == [page |-> p, col |-> c, val |-> val, n |-> edits',
                 kind |-> kind]
<1>6. sent' = sent \cup {x} /\ x.page = p
  BY <1>3 DEF Send
<1>7. /\ sent' \subseteq SentType
      /\ \A r \in sent' : r.val \in [KeysOf[r.col] -> Vals] /\ r.n <= edits'
  BY <1>4, <1>5, <1>6, SentFits
<1> HIDE DEF x
<1>8. DraftsFit'
  BY <1>3 DEF PanelTypes, DraftsFit, Col
<1>9. PanelTypes'
  BY <1>3, <1>5, <1>7, <1>8 DEF PanelTypes
<1> QED
  BY <1>3, <1>5, <1>6, <1>9

\* The timer fires.
LEMMA FlushTypes ==
    ASSUME PanelTypes, NEW p \in Pages, Flush(p)
    PROVE  /\ PanelTypes' /\ UNCHANGED <<row, edits, history>>
           /\ \A q \in Pages \ {p} : page'[q] = page[q]
           /\ page'[p].tab = page[p].tab /\ page[p].pending # None
           /\ page'[p].pending = None
           /\ \E kind : sent' = sent \cup {[page |-> p, col |-> Col(p),
                                            val |-> page[p].pending,
                                            n |-> edits, kind |-> kind]}
<1> DEFINE pg == [page[p] EXCEPT !.pending = None]
<1>1. /\ pg \in PageType /\ pg.tab = page[p].tab /\ pg.pending = None
      /\ pg.draft = page[p].draft
  BY PageFields DEF PageType
<1>2. page' = [page EXCEPT ![p] = pg]
  BY DEF Flush
<1> HIDE DEF pg
<1>3. /\ page' \in [Pages -> PageType] /\ DraftsFit' /\ page'[p] = pg
      /\ \A q \in Pages \ {p} : page'[q] = page[q]
      /\ \A q \in Pages : page'[q].tab = page[q].tab
  BY <1>1, <1>2, PageFields, PageMoves
<1>4. /\ sent' = sent \cup {[page |-> p, col |-> Col(p),
                             val |-> page[p].pending, n |-> edits,
                             kind |-> "save"]}
      /\ page[p].pending # None /\ UNCHANGED <<row, edits, history>>
      /\ UNCHANGED <<replies, pushes>>
  BY DEF Flush, Col
<1>5. /\ sent' \subseteq SentType
      /\ \A r \in sent' : r.val \in [KeysOf[r.col] -> Vals] /\ r.n <= edits'
  <2>1. "save" \in Kinds /\ edits \in Nat /\ edits <= edits /\ edits' = edits
    BY <1>4 DEF Kinds, PanelTypes
  <2> QED
    BY <1>4, <2>1, PageFields, SentFits
<1>6. HistoryTypes'
  <2>1. \A q \in Pages : DOMAIN typed'[q] = KeysOf[ColumnOf[page'[q].tab]]
    BY <1>3, <1>4, PageFields DEF history, Col
  <2> QED
    BY <1>4, <2>1 DEF PanelTypes, HistoryTypes, history, Col
<1>7. PanelTypes'
  BY <1>3, <1>4, <1>5, <1>6 DEF PanelTypes
<1> QED
  BY <1>1, <1>3, <1>4, <1>7

\* A tab is opened and takes its draft from the cached row.
LEMMA OpenTypes ==
    ASSUME PanelTypes, NEW p \in Pages, NEW t \in Tabs, OpenTab(p, t)
    PROVE  /\ PanelTypes' /\ UNCHANGED <<row, edits, newest>>
           /\ \A q \in Pages \ {p} :
                /\ page'[q] = page[q] /\ typed'[q] = typed[q]
                /\ dropped'[q] = dropped[q] /\ excused'[q] = excused[q]
           /\ page'[p].pending = None
           /\ \A k \in DOMAIN typed'[p] : typed'[p][k] = None
           /\ sent' = Orphaned(sent, p)
<1> DEFINE draft == IF t = "other" THEN Nothing
                    ELSE page[p].cache.col[ColumnOf[t]]
           pg == [page[p] EXCEPT !.tab = t, !.pending = None, !.draft = draft]
<1>1. /\ t # "other" => draft \in [KeysOf[ColumnOf[t]] -> Vals]
      /\ draft \in {Nothing} \cup Column
  BY PageFields, TabNames, ColumnValues DEF RowType, Cols
<1>2. page' = [page EXCEPT ![p] = pg]
  BY DEF OpenTab, PanelTypes
<1> HIDE DEF draft
<1>3. /\ pg \in PageType /\ pg.tab = t /\ pg.pending = None
      /\ pg.draft = draft
  BY <1>1, PageFields DEF PageType
<1> HIDE DEF pg
<1>4. /\ page' \in [Pages -> PageType] /\ page'[p] = pg
      /\ \A q \in Pages \ {p} : page'[q] = page[q]
  BY <1>2, <1>3 DEF PanelTypes
<1>5. DraftsFit'
  <2>1. ASSUME NEW q \in Pages
        PROVE  /\ page'[q].tab # "other"
                    => page'[q].draft
                         \in [KeysOf[ColumnOf[page'[q].tab]] -> Vals]
               /\ page'[q].pending # None
                    => page'[q].pending
                         \in [KeysOf[ColumnOf[page'[q].tab]] -> Vals]
    BY <1>1, <1>3, <1>4, PageFields DEF Col
  <2> QED
    BY <2>1 DEF DraftsFit, Col
<1>6. /\ typed' = [typed EXCEPT ![p] = Untyped(t)]
      /\ dropped' = [dropped EXCEPT ![p] = {}]
      /\ excused' = [excused EXCEPT ![p] = {}]
      /\ sent' = Orphaned(sent, p) /\ replies' = Orphaned(replies, p)
      /\ UNCHANGED <<row, pushes, edits, newest>>
  BY DEF OpenTab
<1>7. /\ typed'[p] = Untyped(t) /\ DOMAIN typed' = Pages
      /\ DOMAIN dropped' = Pages /\ DOMAIN excused' = Pages
      /\ \A q \in Pages \ {p} :
           /\ typed'[q] = typed[q] /\ dropped'[q] = dropped[q]
           /\ excused'[q] = excused[q]
  BY <1>6 DEF PanelTypes, HistoryTypes
<1>8. /\ DOMAIN Untyped(t) = KeysOf[ColumnOf[t]]
      /\ \A k \in DOMAIN Untyped(t) : Untyped(t)[k] = None
  BY DEF Untyped
<1>9. HistoryTypes'
  <2>1. \A q \in Pages : DOMAIN typed'[q] = KeysOf[ColumnOf[page'[q].tab]]
    BY <1>3, <1>4, <1>7, <1>8, PageFields DEF Col
  <2> QED
    BY <1>6, <1>7, <2>1 DEF PanelTypes, HistoryTypes, Col
<1>10. /\ sent' \subseteq SentType /\ replies' \subseteq ReplyType
       /\ \A r \in sent' : r.val \in [KeysOf[r.col] -> Vals] /\ r.n <= edits'
  <2>1. /\ sent' \subseteq SentType
        /\ \A x \in sent' : \E r \in sent :
             x.col = r.col /\ x.val = r.val /\ x.n = r.n
    BY <1>6, OrphanedSent DEF PanelTypes
  <2>2. replies' \subseteq ReplyType
    BY <1>6, OrphanedReplies DEF PanelTypes
  <2> QED
    BY <1>6, <2>1, <2>2 DEF PanelTypes
<1> QED
  BY <1>3, <1>4, <1>5, <1>6, <1>7, <1>8, <1>9, <1>10 DEF PanelTypes

\* The service writes one column of the row.
LEMMA CommitTypes ==
    ASSUME PanelTypes, NEW r \in sent, Commit(r)
    PROVE  /\ PanelTypes' /\ UNCHANGED <<page, edits, typed, dropped>>
           /\ row'.col[r.col] = r.val
           /\ \A c \in Columns \ {r.col} : row'.col[c] = row.col[c]
<1>1. /\ r.page \in Pages /\ r.col \in Columns /\ r.n \in Nat
      /\ r.kind \in Kinds /\ r.val \in [KeysOf[r.col] -> Vals]
      /\ r.val \in Column
  BY DEF PanelTypes, SentType
<1> DEFINE cols == [row.col EXCEPT ![r.col] = r.val]
<1>2. row.ver \in Nat /\ row.col \in Cols
  BY DEF PanelTypes, RowType
<1>3. /\ cols \in Cols /\ cols[r.col] = r.val
      /\ \A c \in Columns \ {r.col} : cols[c] = row.col[c]
  BY <1>1, <1>2 DEF Cols
<1>4. row' = [ver |-> row.ver + 1, col |-> cols]
  BY DEF Commit
<1> HIDE DEF cols
<1>5. row' \in RowType /\ row'.col = cols
  BY <1>2, <1>3, <1>4 DEF RowType
<1> DEFINE reply == [page |-> r.page, kind |-> r.kind, col |-> r.col,
                     n |-> r.n, row |-> row']
<1>6. replies' = replies \cup {reply} /\ reply \in ReplyType
  BY <1>1, <1>5 DEF Commit, ReplyType
<1> HIDE DEF reply
<1>7. pushes' \in [Pages -> Seq(RowType)]
  <2>1. \A p \in Pages : Append(pushes[p], row') \in Seq(RowType)
    BY <1>5 DEF PanelTypes
  <2> QED
    BY <2>1 DEF Commit, PanelTypes
<1>8. /\ sent' \subseteq sent /\ UNCHANGED <<page, edits, typed, dropped>>
      /\ DOMAIN excused' = Pages
  BY DEF Commit
<1>9. newest' \in [Pages -> [Columns -> Nat]]
  BY <1>1 DEF Commit, PanelTypes, HistoryTypes
<1>10. HistoryTypes' /\ DraftsFit'
  BY <1>8, <1>9 DEF PanelTypes, HistoryTypes, DraftsFit, Col
<1>11. PanelTypes'
  BY <1>5, <1>6, <1>7, <1>8, <1>10 DEF PanelTypes
<1> QED
  BY <1>3, <1>5, <1>8, <1>11

\* A request is refused or lost.
LEMMA FailTypes ==
    ASSUME PanelTypes, NEW r \in sent, Fail(r)
    PROVE  PanelTypes'
<1>1. /\ sent' \subseteq sent /\ DOMAIN excused' = Pages
      /\ UNCHANGED <<row, page, replies, pushes, edits, typed, dropped, newest>>
  BY DEF Fail, PanelTypes, HistoryTypes
<1>2. HistoryTypes' /\ DraftsFit'
  BY <1>1 DEF PanelTypes, HistoryTypes, DraftsFit, Col
<1> QED
  BY <1>1, <1>2 DEF PanelTypes

\* The draft that a tab takes from another row fits it.
LEMMA SyncedFits ==
    ASSUME PanelTypes, NEW p \in Pages, NEW new \in RowType
    PROVE  /\ Synced(page[p], new) \in {Nothing} \cup Column
           /\ page[p].tab # "other"
                => Synced(page[p], new) \in [KeysOf[Col(p)] -> Vals]
<1> DEFINE pg == page[p]
           d == Synced(pg, new)
<1>1. \A c \in Columns : new.col[c] \in [KeysOf[c] -> Vals]
  BY DEF RowType, Cols
<1>2. ASSUME d \in [KeysOf[Col(p)] -> Vals]
      PROVE  d \in {Nothing} \cup Column
  BY <1>2, PageFields, ColumnValues
<1>3. CASE pg.tab = "elements"
  <2>1. new.col["elements"] \in [KeysOf[Col(p)] -> Vals]
    BY <1>1, <1>3, ColumnNames, TabNames DEF Col
  <2>2. d \in [KeysOf[Col(p)] -> Vals]
    BY <1>3, <2>1, PageFields DEF Synced
  <2> QED
    BY <1>2, <2>2
<1>4. CASE pg.tab = "theme"
  <2>1. KeysOf[Col(p)] = {"theme", "color"}
    BY <1>4, ColumnNames, TabNames DEF Col
  <2>2. new.col["look"] \in [{"theme", "color"} -> Vals]
    BY <1>1, ColumnNames
  <2>3. pg.draft \in [{"theme", "color"} -> Vals]
    BY <1>4, <2>1, PageFields
  <2> DEFINE color == IF new.col.look.color # pg.cache.col.look.color
                      THEN new.col.look.color ELSE pg.draft.color
  <2>4. color \in Vals /\ new.col.look.theme \in Vals
    BY <2>2, <2>3
  <2>5. d = [theme |-> new.col.look.theme, color |-> color]
    BY <1>4 DEF Synced
  <2> HIDE DEF color
  <2>6. d \in [KeysOf[Col(p)] -> Vals]
    BY <2>1, <2>4, <2>5
  <2> QED
    BY <1>2, <2>6
<1>5. CASE pg.tab = "overrides"
  <2>1. new.col["overrides"] \in [KeysOf[Col(p)] -> Vals]
    BY <1>1, <1>5, ColumnNames, TabNames DEF Col
  <2>2. d \in [KeysOf[Col(p)] -> Vals]
    BY <1>5, <2>1, PageFields DEF Synced
  <2> QED
    BY <1>2, <2>2
<1>6. CASE pg.tab = "other"
  BY <1>6, PageFields DEF Synced
<1> QED
  BY <1>3, <1>4, <1>5, <1>6, PageFields, TabNames

\* A reply or a push replaces the cached row and may replace the draft.
LEMMA ShowTypes ==
    ASSUME PanelTypes,
           (\E s \in replies : Reply(s)) \/ (\E p \in Pages : Push(p))
    PROVE  /\ PanelTypes'
           /\ UNCHANGED <<row, sent, edits, typed, dropped, excused, newest>>
           /\ \A q \in Pages : /\ page'[q].tab = page[q].tab
                               /\ page'[q].pending = page[q].pending
<1>1. ASSUME NEW p \in Pages, NEW new \in RowType,
             NEW draft \in {Nothing} \cup Column,
             page[p].tab # "other" => draft \in [KeysOf[Col(p)] -> Vals],
             page' = [page EXCEPT ![p] = [page[p] EXCEPT !.cache = new,
                                                         !.draft = draft]],
             UNCHANGED <<row, sent, edits, typed, dropped, excused, newest>>,
             replies' \subseteq ReplyType, pushes' \in [Pages -> Seq(RowType)]
      PROVE  /\ PanelTypes'
             /\ \A q \in Pages : /\ page'[q].tab = page[q].tab
                                 /\ page'[q].pending = page[q].pending
  <2> DEFINE pg == [page[p] EXCEPT !.cache = new, !.draft = draft]
  <2>1. /\ pg \in PageType /\ pg.tab = page[p].tab /\ pg.draft = draft
        /\ pg.pending = page[p].pending
    BY PageFields DEF PageType
  <2>2. page' = [page EXCEPT ![p] = pg]
    BY <1>1
  <2> HIDE DEF pg
  <2>3. /\ pg.tab # "other" => pg.draft \in [KeysOf[Col(p)] -> Vals]
        /\ pg.pending # None => pg.pending \in [KeysOf[Col(p)] -> Vals]
    BY <1>1, <2>1, PageFields
  <2>4. /\ page' \in [Pages -> PageType] /\ DraftsFit' /\ page'[p] = pg
        /\ \A q \in Pages \ {p} : page'[q] = page[q]
        /\ \A q \in Pages : page'[q].tab = page[q].tab
    BY <2>1, <2>2, <2>3, PageMoves
  <2>5. \A q \in Pages : DOMAIN typed'[q] = KeysOf[ColumnOf[page'[q].tab]]
    BY <1>1, <2>4, PageFields DEF Col
  <2>6. HistoryTypes'
    BY <1>1, <2>5 DEF PanelTypes, HistoryTypes, Col
  <2>7. PanelTypes'
    BY <1>1, <2>4, <2>6 DEF PanelTypes
  <2> QED
    BY <2>1, <2>4, <2>7
<1>2. ASSUME NEW p \in Pages, NEW new \in RowType, Shown(p, new)
      PROVE  \E draft \in {Nothing} \cup Column :
               /\ page[p].tab # "other" => draft \in [KeysOf[Col(p)] -> Vals]
               /\ page' = [page EXCEPT ![p] = [page[p] EXCEPT !.cache = new,
                                                              !.draft = draft]]
  <2> DEFINE draft == Synced(page[p], new)
  <2>1. page' = [page EXCEPT ![p].cache = new, ![p].draft = draft]
    BY <1>2 DEF Shown
  <2>2. /\ draft \in {Nothing} \cup Column
        /\ page[p].tab # "other" => draft \in [KeysOf[Col(p)] -> Vals]
    BY SyncedFits
  <2> HIDE DEF draft
  <2>3. page' = [page EXCEPT ![p] = [page[p] EXCEPT !.cache = new,
                                                    !.draft = draft]]
    BY <2>1 DEF PanelTypes
  <2> QED
    BY <2>2, <2>3
<1>3. ASSUME NEW s \in replies, Reply(s)
      PROVE  \E draft \in {Nothing} \cup Column :
               /\ page[s.page].tab # "other"
                    => draft \in [KeysOf[Col(s.page)] -> Vals]
               /\ page' = [page EXCEPT ![s.page] =
                             [page[s.page] EXCEPT !.cache = s.row,
                                                  !.draft = draft]]
  <2>1. s.page \in Pages /\ s.row \in RowType
    BY DEF PanelTypes, ReplyType
  <2>2. CASE s.kind = "clear" /\ page[s.page].tab = "overrides"
    <3> DEFINE draft == DefaultRow.col.overrides
    <3>1. DefaultRow.col["overrides"] \in [KeysOf["overrides"] -> Vals]
      BY DefaultTyped, ColumnNames DEF RowType, Cols
    <3>2. /\ draft \in {Nothing} \cup Column
          /\ draft \in [KeysOf[Col(s.page)] -> Vals]
      BY <2>2, <3>1, ColumnNames, ColumnValues, TabNames DEF Col
    <3>3. page' = [page EXCEPT ![s.page].cache = s.row,
                               ![s.page].draft = draft]
      BY <1>3, <2>2 DEF Reply
    <3> HIDE DEF draft
    <3>4. page' = [page EXCEPT ![s.page] =
                     [page[s.page] EXCEPT !.cache = s.row, !.draft = draft]]
      BY <2>1, <3>3 DEF PanelTypes
    <3> QED
      BY <3>2, <3>4
  <2>3. CASE ~(s.kind = "clear" /\ page[s.page].tab = "overrides")
    <3>1. Shown(s.page, s.row)
      BY <1>3, <2>3 DEF Reply
    <3> QED
      BY <1>2, <2>1, <3>1
  <2> QED
    BY <2>2, <2>3
<1>4. CASE \E s \in replies : Reply(s)
  <2>1. PICK s \in replies : Reply(s)
    BY <1>4
  <2>2. /\ UNCHANGED <<row, sent, edits, typed, dropped, excused, newest>>
        /\ replies' \subseteq ReplyType /\ pushes' \in [Pages -> Seq(RowType)]
        /\ s.page \in Pages /\ s.row \in RowType
    BY <2>1 DEF Reply, PanelTypes, ReplyType
  <2> QED
    BY <1>1, <1>3, <2>1, <2>2
<1>5. CASE \E p \in Pages : Push(p)
  <2>1. PICK p \in Pages : Push(p)
    BY <1>5
  <2>2. pushes[p] \in Seq(RowType) /\ pushes[p] # <<>>
    BY <2>1 DEF Push, PanelTypes
  <2>3. Head(pushes[p]) \in RowType /\ Tail(pushes[p]) \in Seq(RowType)
    BY <2>2
  <2>4. /\ UNCHANGED <<row, sent, edits, typed, dropped, excused, newest>>
        /\ replies' \subseteq ReplyType /\ pushes' \in [Pages -> Seq(RowType)]
        /\ Shown(p, Head(pushes[p]))
    BY <2>1, <2>3 DEF Push, PanelTypes
  <2>5. PICK draft \in {Nothing} \cup Column :
          /\ page[p].tab # "other" => draft \in [KeysOf[Col(p)] -> Vals]
          /\ page' = [page EXCEPT ![p] =
                        [page[p] EXCEPT !.cache = Head(pushes[p]),
                                        !.draft = draft]]
    BY <1>2, <2>3, <2>4
  <2> QED
    BY <1>1, <2>3, <2>4, <2>5
<1> QED
  BY <1>4, <1>5

-----------------------------------------------------------------------------
(* Where the newest edit of a tab is.                                        *)

\* Items that were typed and not given up.
Live(p) == {k \in DOMAIN typed[p] : /\ typed[p][k] # None
                                    /\ k \notin dropped[p] \cup excused[p]}

Mine(p) == {r \in sent : r.page = p /\ r.col = Col(p)}

Holds(f, p) == \A k \in Live(p) : f[k] = typed[p][k]

BeingSent(p) ==
    \E r \in Mine(p) :
        Holds(r.val, p) /\ \A x \in Mine(p) : x = r \/ x.n < r.n

Written(p) ==
    /\ Holds(row.col[Col(p)], p)
    /\ \A x \in Mine(p) : x.n < newest[p][Col(p)]

PageInv(p) ==
    /\ page[p].tab = "other" => /\ page[p].pending = None
                                /\ \A k \in DOMAIN typed[p] : typed[p][k] = None
    /\ page[p].pending # None => /\ Holds(page[p].pending, p)
                                 /\ \A x \in Mine(p) : x.n < edits
    /\ page[p].pending = None => \/ Live(p) = {}
                                 \/ BeingSent(p)
                                 \/ Written(p)

PanelInv == PanelTypes /\ \A p \in Pages : PageInv(p)

\* A page that a step leaves alone.
LEMMA OthersStay ==
    ASSUME PanelTypes, NEW p \in Pages, PageInv(p),
           page'[p].tab = page[p].tab, page'[p].pending = page[p].pending,
           typed'[p] = typed[p], dropped'[p] = dropped[p],
           excused'[p] = excused[p], newest'[p] = newest[p],
           UNCHANGED row, edits' \in Nat, edits <= edits',
           \A x \in SentType : x.page = p => (x \in sent' <=> x \in sent),
           sent' \subseteq SentType
    PROVE  PageInv(p)'
<1>1. Col(p)' = Col(p) /\ Live(p)' = Live(p)
  BY DEF Col, Live
<1>2. Mine(p)' = Mine(p)
  BY <1>1 DEF Mine, PanelTypes
<1>3. \A x \in Mine(p) : x.n \in Nat
  BY DEF Mine, PanelTypes, SentType
<1>4. page'[p].pending # None => \A x \in Mine(p) : x.n < edits'
  BY <1>3 DEF PageInv, PanelTypes
<1>5. \A f : (\A k \in Live(p) : f[k] = typed'[p][k]) <=> Holds(f, p)
  BY DEF Holds
<1> QED
  BY <1>1, <1>2, <1>4, <1>5 DEF PageInv, Holds, BeingSent, Written

\* After an edit, what is live is what the edit holds.
LEMMA EditHolds ==
    ASSUME PanelTypes, NEW p \in Pages, NEW items, NEW value,
           Typing(p, items, value)
    PROVE  \A k \in Live(p)' : value[k] = typed'[p][k]
BY Typed DEF Live

\* The pages of the others during an edit, which may send a request of p.
LEMMA OthersDuringEdit ==
    ASSUME PanelTypes, PanelTypes', NEW p \in Pages, NEW items, NEW value,
           Typing(p, items, value), UNCHANGED row,
           \A q \in Pages \ {p} : page'[q] = page[q],
           sent \subseteq sent', \A x \in sent' : x \in sent \/ x.page = p,
           NEW q \in Pages \ {p}, PageInv(q)
    PROVE  PageInv(q)'
<1>1. /\ typed'[q] = typed[q] /\ dropped'[q] = dropped[q]
      /\ excused'[q] = excused[q] /\ newest' = newest
      /\ edits' = edits + 1
  BY Typed
<1>2. edits \in Nat /\ edits' \in Nat /\ sent' \subseteq SentType
  BY DEF PanelTypes
<1>3. edits <= edits'
  BY <1>1, <1>2
<1>4. \A x \in SentType : x.page = q => (x \in sent' <=> x \in sent)
  OBVIOUS
<1> QED
  BY <1>1, <1>2, <1>3, <1>4, OthersStay

\* An edit that waits becomes what is pending, newer than any request.
LEMMA EditKeeps ==
    ASSUME PanelInv, NEW p \in Pages, NEW v \in Vals,
           (\E k \in ElementKeys \cup OverrideKeys : EditItem(p, k, v))
             \/ EditColor(p, v)
    PROVE  PanelInv'
<1>1. /\ PanelTypes /\ PanelTypes'
      /\ UNCHANGED <<row, sent, replies, pushes, newest>>
      /\ edits' = edits + 1
      /\ \A q \in Pages \ {p} : page'[q] = page[q]
      /\ page'[p].tab = page[p].tab /\ page[p].tab # "other"
      /\ page'[p].pending # None
      /\ \E items : Typing(p, items, page'[p].pending)
  BY EditTypes DEF PanelInv
<1>2. PICK items : Typing(p, items, page'[p].pending)
  BY <1>1
<1>3. \A q \in Pages \ {p} : PageInv(q)'
  BY <1>1, <1>2, OthersDuringEdit DEF PanelInv
<1>4. Holds(page[p].pending, p)'
  BY <1>1, <1>2, EditHolds DEF Holds
<1>5. \A x \in Mine(p)' : x.n < edits'
  <2>1. \A x \in sent : x.n \in Nat /\ x.n <= edits /\ edits \in Nat
    BY <1>1 DEF PanelTypes, SentType
  <2> QED
    BY <1>1, <2>1 DEF Mine
<1>6. PageInv(p)'
  BY <1>1, <1>4, <1>5 DEF PageInv
<1> QED
  BY <1>1, <1>3, <1>6 DEF PanelInv

\* An edit that is sent at once is the newest request of its page.
LEMMA EditSendsKeeps ==
    ASSUME PanelInv, NEW p \in Pages,
           (\E t \in Vals : PickTheme(p, t)) \/ ResetColors(p)
             \/ ClearOverrides(p)
    PROVE  PanelInv'
<1>1. /\ PanelTypes /\ PanelTypes'
      /\ UNCHANGED <<row, replies, pushes, newest>>
      /\ edits' = edits + 1
      /\ \A q \in Pages \ {p} : page'[q] = page[q]
      /\ page'[p].tab = page[p].tab /\ page[p].tab # "other"
      /\ page'[p].pending = None
  BY EditSends DEF PanelInv
<1>2. PICK items, next, kind :
        /\ Typing(p, items, next)
        /\ sent' = sent \cup {[page |-> p, col |-> Col(p), val |-> next,
                               n |-> edits', kind |-> kind]}
  BY <1>1, EditSends
<1>3. PICK r : /\ sent' = sent \cup {r} /\ r.page = p /\ r.col = Col(p)
               /\ r.val = next /\ r.n = edits'
  <2> DEFINE x == [page |-> p, col |-> Col(p), val |-> next,
                   n |-> edits', kind |-> kind]
  <2>1. /\ sent' = sent \cup {x} /\ x.page = p /\ x.col = Col(p)
        /\ x.val = next /\ x.n = edits'
    BY <1>2
  <2> HIDE DEF x
  <2> QED
    BY <2>1
<1>4. \A q \in Pages \ {p} : PageInv(q)'
  BY <1>1, <1>2, <1>3, OthersDuringEdit DEF PanelInv
<1>5. Col(p)' = Col(p)
  BY <1>1 DEF Col
<1>6. r \in Mine(p)'
  BY <1>3, <1>5 DEF Mine
<1>7. \A k \in Live(p)' : r.val[k] = typed'[p][k]
  BY <1>1, <1>2, <1>3, EditHolds
<1>8. \A x \in Mine(p)' : x = r \/ x.n < r.n
  <2>1. \A x \in sent : x.n \in Nat /\ x.n <= edits /\ edits \in Nat
    BY <1>1 DEF PanelTypes, SentType
  <2>2. \A x \in sent : x.n < edits'
    BY <1>1, <2>1
  <2> QED
    BY <1>3, <2>2 DEF Mine
<1>9. BeingSent(p)'
  BY <1>6, <1>7, <1>8 DEF BeingSent, Holds
<1>10. PageInv(p)'
  BY <1>1, <1>9 DEF PageInv
<1> QED
  BY <1>1, <1>4, <1>10 DEF PanelInv

\* The tabs without a draft type nothing.
LEMMA BindKeeps ==
    ASSUME PanelInv, NEW p \in Pages, NEW v \in Vals,
           BindSource(p, v) \/ SetToken(p, v)
    PROVE  PanelInv'
<1>1. /\ PanelTypes /\ PanelTypes'
      /\ UNCHANGED <<row, page, replies, pushes, newest>>
      /\ edits' = edits + 1 /\ page[p].tab = "other"
      /\ \A r \in sent' : r \in sent \/ r.page = p
      /\ sent \subseteq sent'
  BY BindTypes DEF PanelInv
<1>2. PICK value : Typing(p, {}, value)
  BY <1>1, BindTypes
<1>3. \A q \in Pages \ {p} : PageInv(q)'
  BY <1>1, <1>2, OthersDuringEdit DEF PanelInv
<1>4. \A k \in DOMAIN typed'[p] : typed'[p][k] = None
  BY <1>1, <1>2, Typed DEF PanelInv, PageInv
<1>5. Live(p)' = {} /\ page'[p].pending = None
  BY <1>1, <1>4 DEF Live, PanelInv, PageInv
<1>6. PageInv(p)'
  BY <1>1, <1>4, <1>5 DEF PageInv
<1> QED
  BY <1>1, <1>3, <1>6 DEF PanelInv

\* The timer turns what is pending into the newest request of its page.
LEMMA FlushKeeps ==
    ASSUME PanelInv, NEW p \in Pages, Flush(p)
    PROVE  PanelInv'
<1>1. /\ PanelTypes /\ PanelTypes' /\ UNCHANGED <<row, edits, history>>
      /\ \A q \in Pages \ {p} : page'[q] = page[q]
      /\ page'[p].tab = page[p].tab /\ page[p].pending # None
      /\ page'[p].pending = None
  BY FlushTypes DEF PanelInv
<1>2. PICK kind : sent' = sent \cup {[page |-> p, col |-> Col(p),
                                      val |-> page[p].pending,
                                      n |-> edits, kind |-> kind]}
  BY <1>1, FlushTypes
<1> DEFINE r == [page |-> p, col |-> Col(p), val |-> page[p].pending,
                 n |-> edits, kind |-> kind]
<1>3. /\ sent' = sent \cup {r} /\ r.page = p /\ r.col = Col(p)
      /\ r.val = page[p].pending /\ r.n = edits
  BY <1>2
<1> HIDE DEF r
<1>4. UNCHANGED <<typed, dropped, excused, newest, edits, row>>
  BY <1>1 DEF history
<1>5. ASSUME NEW q \in Pages \ {p} PROVE PageInv(q)'
  <2>1. \A x \in SentType : x.page = q => (x \in sent' <=> x \in sent)
    BY <1>3
  <2>2. edits' \in Nat /\ edits <= edits' /\ sent' \subseteq SentType
        /\ page'[q] = page[q]
    BY <1>1, <1>4 DEF PanelTypes
  <2> QED
    BY <1>1, <1>4, <2>1, <2>2, OthersStay DEF PanelInv
<1>6. Col(p)' = Col(p) /\ Live(p)' = Live(p)
  BY <1>1, <1>4 DEF Col, Live
<1>7. Holds(page[p].pending, p) /\ \A x \in Mine(p) : x.n < edits
  BY <1>1 DEF PanelInv, PageInv
<1>8. r \in Mine(p)' /\ \A x \in Mine(p)' : x = r \/ x.n < r.n
  BY <1>3, <1>6, <1>7 DEF Mine
<1>9. \A k \in Live(p)' : r.val[k] = typed'[p][k]
  BY <1>3, <1>4, <1>6, <1>7 DEF Holds
<1>10. BeingSent(p)'
  BY <1>8, <1>9 DEF BeingSent, Holds
<1>11. PageInv(p)'
  BY <1>1, <1>10 DEF PanelInv, PageInv
<1> QED
  BY <1>1, <1>5, <1>11 DEF PanelInv

\* A tab that was just opened holds nothing that was typed.
LEMMA OpenKeeps ==
    ASSUME PanelInv, NEW p \in Pages, NEW t \in Tabs, OpenTab(p, t)
    PROVE  PanelInv'
<1>1. /\ PanelTypes /\ PanelTypes' /\ UNCHANGED <<row, edits, newest>>
      /\ \A q \in Pages \ {p} :
           /\ page'[q] = page[q] /\ typed'[q] = typed[q]
           /\ dropped'[q] = dropped[q] /\ excused'[q] = excused[q]
      /\ page'[p].pending = None
      /\ \A k \in DOMAIN typed'[p] : typed'[p][k] = None
      /\ sent' = Orphaned(sent, p)
  BY OpenTypes DEF PanelInv
<1>2. ASSUME NEW q \in Pages \ {p} PROVE PageInv(q)'
  <2>1. \A x \in SentType : x.page = q => (x \in sent' <=> x \in sent)
    BY <1>1, OrphanedSent DEF PanelTypes
  <2>2. edits' \in Nat /\ edits <= edits' /\ sent' \subseteq SentType
    BY <1>1 DEF PanelTypes
  <2> QED
    BY <1>1, <2>1, <2>2, OthersStay DEF PanelInv
<1>3. Live(p)' = {}
  BY <1>1 DEF Live
<1>4. PageInv(p)'
  BY <1>1, <1>3 DEF PageInv
<1> QED
  BY <1>1, <1>2, <1>4 DEF PanelInv

\* A request that fails excuses what its page typed into the open tab.
LEMMA FailKeeps ==
    ASSUME PanelInv, NEW r \in sent, Fail(r)
    PROVE  PanelInv'
<1>1. PanelTypes /\ PanelTypes' /\ r \in SentType
  BY FailTypes DEF PanelInv, PanelTypes
<1>2. /\ sent' = sent \ {r}
      /\ excused' = [excused EXCEPT ![r.page] = @ \cup
            {k \in DOMAIN typed[r.page] : ColumnOf[page[r.page].tab] = r.col}]
      /\ UNCHANGED <<row, page, edits, typed, dropped, newest>>
  BY DEF Fail
<1>3. r.page \in Pages /\ DOMAIN excused = Pages
  BY <1>1 DEF PanelTypes, SentType, HistoryTypes
<1>4. ASSUME NEW q \in Pages, ~(q = r.page /\ r.col = Col(q))
      PROVE  PageInv(q)'
  <2>1. excused'[q] = excused[q]
    BY <1>2, <1>3, <1>4 DEF Col
  <2>2. Col(q)' = Col(q) /\ Live(q)' = Live(q) /\ Mine(q)' = Mine(q)
    BY <1>2, <1>4, <2>1 DEF Col, Live, Mine
  <2>3. PageInv(q)
    BY DEF PanelInv
  <2> QED
    BY <1>2, <2>2, <2>3 DEF PageInv, Holds, BeingSent, Written
<1>5. ASSUME NEW q \in Pages, q = r.page, r.col = Col(q)
      PROVE  PageInv(q)'
  <2>1. DOMAIN typed[q] \subseteq excused'[q]
    BY <1>2, <1>3, <1>5 DEF Col
  <2>2. Live(q)' = {} /\ Col(q)' = Col(q) /\ Mine(q)' \subseteq Mine(q)
    BY <1>2, <2>1 DEF Live, Col, Mine
  <2>3. PageInv(q)
    BY DEF PanelInv
  <2> QED
    BY <1>2, <2>2, <2>3 DEF PageInv, Holds
<1> QED
  BY <1>1, <1>4, <1>5 DEF PanelInv

\* A row that is shown changes nothing of where the newest edit is.
LEMMA ShowKeeps ==
    ASSUME PanelInv,
           (\E s \in replies : Reply(s)) \/ (\E p \in Pages : Push(p))
    PROVE  PanelInv'
<1>1. /\ PanelTypes /\ PanelTypes'
      /\ UNCHANGED <<row, sent, edits, typed, dropped, excused, newest>>
      /\ \A q \in Pages : /\ page'[q].tab = page[q].tab
                          /\ page'[q].pending = page[q].pending
  BY ShowTypes DEF PanelInv
<1>2. ASSUME NEW q \in Pages PROVE PageInv(q)'
  <2>1. edits' \in Nat /\ edits <= edits' /\ sent' \subseteq SentType
    BY <1>1 DEF PanelTypes
  <2> QED
    BY <1>1, <2>1, OthersStay DEF PanelInv
<1> QED
  BY <1>1, <1>2 DEF PanelInv

\* The newest edit that was written does not grow older.
LEMMA NewestGrows ==
    ASSUME PanelTypes, NEW r \in sent, Commit(r), NEW q \in Pages
    PROVE  /\ newest[q][Col(q)] \in Nat /\ newest'[q][Col(q)] \in Nat
           /\ newest[q][Col(q)] <= newest'[q][Col(q)]
           /\ r.page = q /\ r.col = Col(q) => r.n <= newest'[q][Col(q)]
<1>1. newest \in [Pages -> [Columns -> Nat]] /\ Col(q) \in Columns
  BY PageFields DEF PanelTypes, HistoryTypes
<1>2. r.page \in Pages /\ r.col \in Columns /\ r.n \in Nat
  BY DEF PanelTypes, SentType
<1> DEFINE old == newest[r.page][r.col]
           new == IF r.n < old THEN old ELSE r.n
<1>3. newest' = [newest EXCEPT ![r.page][r.col] = new]
  BY <1>1, <1>2 DEF Commit, Older
<1>4. old \in Nat /\ new \in Nat /\ old <= new /\ r.n <= new
  BY <1>1, <1>2
<1> HIDE DEF new
<1>5. CASE r.page = q /\ r.col = Col(q)
  BY <1>1, <1>2, <1>3, <1>4, <1>5
<1>6. CASE ~(r.page = q /\ r.col = Col(q))
  <2>1. newest'[q][Col(q)] = newest[q][Col(q)]
    BY <1>1, <1>2, <1>3, <1>6
  <2> QED
    BY <1>1, <1>6, <2>1
<1> QED
  BY <1>5, <1>6

\* A request of another page, or an older one, excuses what it overwrites.
LEMMA WhatIsOverwritten ==
    ASSUME PanelTypes, NEW r \in sent, Commit(r), NEW q \in Pages
    PROVE  /\ Live(q)' \subseteq Live(q)
           /\ r.col = Col(q) /\ (r.page # q \/ Older(r))
                => \A k \in Live(q)' : r.val[k] = typed[q][k]
<1>1. /\ typed' = typed /\ dropped' = dropped
      /\ excused' = [p \in Pages |-> IF r.page # p \/ Older(r)
                       THEN excused[p] \cup Overwritten(p, r) ELSE excused[p]]
  BY DEF Commit
<1>2. Live(q)' \subseteq Live(q)
  BY <1>1 DEF Live
<1>3. ASSUME r.col = Col(q), r.page # q \/ Older(r), NEW k \in Live(q)'
      PROVE  r.val[k] = typed[q][k]
  <2>1. /\ k \in DOMAIN typed[q] /\ typed[q][k] # None
        /\ k \notin Overwritten(q, r)
    BY <1>1, <1>3 DEF Live
  <2>2. Overwritten(q, r) =
          {i \in DOMAIN typed[q] : typed[q][i] \notin {None, r.val[i]}}
    BY <1>3 DEF Overwritten, Col
  <2> QED
    BY <2>1, <2>2
<1> QED
  BY <1>2, <1>3

\* A request that is run either was the newest of its page, and is now in the
\* row, or leaves the newest edit of each page where it was.
LEMMA CommitKeeps ==
    ASSUME PanelInv, NEW r \in sent, Commit(r)
    PROVE  PanelInv'
<1>1. /\ PanelTypes /\ PanelTypes'
      /\ UNCHANGED <<page, edits, typed, dropped>>
      /\ row'.col[r.col] = r.val
      /\ \A c \in Columns \ {r.col} : row'.col[c] = row.col[c]
  BY CommitTypes DEF PanelInv
<1>2. ASSUME NEW q \in Pages PROVE PageInv(q)'
  <2>1. sent' = sent \ {r}
    BY DEF Commit
  <2>2. /\ Col(q)' = Col(q) /\ Mine(q)' = Mine(q) \ {r}
        /\ Live(q)' \subseteq Live(q)
    BY <1>1, <2>1, WhatIsOverwritten DEF Col, Mine
  <2>3. \A x \in Mine(q) : x.n \in Nat
    BY <1>1 DEF Mine, PanelTypes, SentType
  <2>4. PageInv(q) /\ page' = page /\ typed' = typed /\ edits' = edits
    BY <1>1 DEF PanelInv
  <2>5. CASE page[q].pending # None
    BY <2>2, <2>4, <2>5 DEF PageInv, Holds
  <2>6. CASE page[q].pending = None /\ Live(q) = {}
    BY <2>2, <2>4, <2>6 DEF PageInv
  <2>7. CASE page[q].pending = None /\ BeingSent(q)
    <3>1. PICK x \in Mine(q) : /\ Holds(x.val, q)
                               /\ \A y \in Mine(q) : y = x \/ y.n < x.n
      BY <2>7 DEF BeingSent
    <3>2. \A k \in Live(q)' : x.val[k] = typed'[q][k]
      BY <2>2, <2>4, <3>1 DEF Holds
    <3>3. CASE x = r
      <4>1. r.page = q /\ r.col = Col(q)
        BY <3>3 DEF Mine
      <4>2. /\ r.n <= newest'[q][Col(q)] /\ newest'[q][Col(q)] \in Nat
            /\ \A y \in Mine(q)' : y.n < r.n /\ y.n \in Nat
        BY <1>1, <2>2, <2>3, <3>1, <3>3, <4>1, NewestGrows
      <4>3. r.n \in Nat
        BY <2>3, <3>3
      <4>4. \A y \in Mine(q)' : y.n < newest'[q][Col(q)]
        BY <4>2, <4>3
      <4>5. \A k \in Live(q)' : row'.col[Col(q)][k] = typed'[q][k]
        BY <1>1, <3>2, <3>3, <4>1
      <4>6. Written(q)'
        BY <2>2, <4>4, <4>5 DEF Written, Holds
      <4> QED
        BY <2>4, <2>7, <4>6 DEF PageInv
    <3>4. CASE x # r
      <4>1. BeingSent(q)'
        BY <2>2, <3>1, <3>2, <3>4 DEF BeingSent, Holds
      <4> QED
        BY <2>4, <2>7, <4>1 DEF PageInv
    <3> QED
      BY <3>3, <3>4
  <2>8. CASE page[q].pending = None /\ Written(q)
    <3>1. \A y \in Mine(q) : y.n < newest[q][Col(q)]
      BY <2>8 DEF Written
    <3>2. \A y \in Mine(q)' : y.n < newest'[q][Col(q)]
      BY <1>1, <2>2, <2>3, <3>1, NewestGrows
    <3>3. \A k \in Live(q)' : row'.col[Col(q)][k] = typed'[q][k]
      <4>1. CASE r.col = Col(q)
        <5>1. r.page # q \/ Older(r)
          BY <3>1, <4>1 DEF Mine, Older
        <5> QED
          BY <1>1, <2>4, <4>1, <5>1, WhatIsOverwritten
      <4>2. CASE r.col # Col(q)
        <5>1. row'.col[Col(q)] = row.col[Col(q)]
          BY <1>1, <4>2, PageFields
        <5> QED
          BY <2>2, <2>4, <2>8, <5>1 DEF Written, Holds
      <4> QED
        BY <4>1, <4>2
    <3>4. Written(q)'
      BY <2>2, <3>2, <3>3 DEF Written, Holds
    <3> QED
      BY <2>4, <2>8, <3>4 DEF PageInv
  <2> QED
    BY <2>4, <2>5, <2>6, <2>7, <2>8 DEF PageInv
<1> QED
  BY <1>1, <1>2 DEF PanelInv

-----------------------------------------------------------------------------
\* The panels are opened on the default row, on a tab without a draft.
LEMMA InitPanel == Init => PanelInv
<1> SUFFICES ASSUME Init PROVE PanelInv
  OBVIOUS
<1>1. \A p \in Pages : /\ page[p] = [cache |-> DefaultRow, tab |-> "other",
                                     draft |-> Nothing, pending |-> None]
                       /\ typed[p] = Untyped("other")
  BY DEF Init
<1>2. /\ DOMAIN Untyped("other") = KeysOf[ColumnOf["other"]]
      /\ \A k \in DOMAIN Untyped("other") : Untyped("other")[k] = None
  BY DEF Untyped
<1>3. row \in RowType /\ page \in [Pages -> PageType]
  BY DefaultTyped, TabNames DEF Init, PageType
<1>4. DraftsFit /\ HistoryTypes
  BY <1>1, <1>2 DEF DraftsFit, HistoryTypes, Init, Col
<1>5. pushes \in [Pages -> Seq(RowType)]
  BY DEF Init
<1>6. PanelTypes
  BY <1>3, <1>4, <1>5 DEF PanelTypes, Init
<1>7. \A p \in Pages : PageInv(p)
  BY <1>1, <1>2 DEF PageInv, Live
<1> QED
  BY <1>6, <1>7 DEF PanelInv

\* Every step keeps the invariant.
LEMMA PanelStep == PanelInv /\ [Next]_vars => PanelInv'
<1> SUFFICES ASSUME PanelInv, [Next]_vars PROVE PanelInv'
  OBVIOUS
<1>1. ASSUME NEW p \in Pages, NEW t \in Tabs, OpenTab(p, t) PROVE PanelInv'
  BY <1>1, OpenKeeps
<1>2. ASSUME NEW p \in Pages, NEW k \in ElementKeys \cup OverrideKeys,
             NEW v \in Vals, EditItem(p, k, v)
      PROVE  PanelInv'
  BY <1>2, EditKeeps
<1>3. ASSUME NEW p \in Pages, NEW v \in Vals,
             EditColor(p, v) \/ PickTheme(p, v) \/ BindSource(p, v)
               \/ SetToken(p, v)
      PROVE  PanelInv'
  BY <1>3, EditKeeps, EditSendsKeeps, BindKeeps
<1>4. ASSUME NEW p \in Pages,
             ResetColors(p) \/ ClearOverrides(p) \/ Flush(p) \/ Push(p)
      PROVE  PanelInv'
  BY <1>4, EditSendsKeeps, FlushKeeps, ShowKeeps
<1>5. ASSUME NEW r \in sent, Commit(r) \/ Fail(r) PROVE PanelInv'
  BY <1>5, CommitKeeps, FailKeeps
<1>6. ASSUME NEW s \in replies, Reply(s) PROVE PanelInv'
  BY <1>6, ShowKeeps
<1>7. CASE UNCHANGED vars
  <2>1. UNCHANGED <<row, page, sent, replies, pushes, edits, typed, dropped,
                    excused, newest>>
    BY <1>7 DEF vars, panelvars, history
  <2>2. DraftsFit' /\ HistoryTypes'
    BY <2>1 DEF PanelInv, PanelTypes, DraftsFit, HistoryTypes, Col
  <2>3. PanelTypes'
    BY <2>1, <2>2 DEF PanelInv, PanelTypes
  <2>4. edits' \in Nat /\ edits <= edits' /\ sent' \subseteq SentType
    BY <2>1 DEF PanelInv, PanelTypes
  <2>5. \A q \in Pages : PageInv(q)'
    BY <2>1, <2>4, OthersStay DEF PanelInv
  <2> QED
    BY <2>3, <2>5 DEF PanelInv
<1> QED
  BY <1>1, <1>2, <1>3, <1>4, <1>5, <1>6, <1>7 DEF Next

\* The newest edit of a tab carries what is live in it.
LEMMA LiveIsAccountedFor == PanelInv => EditsAreAccountedFor
<1> SUFFICES ASSUME PanelInv, NEW p \in Pages, NEW k \in Live(p)
             PROVE  \/ row.col[ColumnOf[page[p].tab]][k] = typed[p][k]
                    \/ page[p].pending # None
                         /\ page[p].pending[k] = typed[p][k]
                    \/ \E r \in sent : Carries(p, r, k, typed[p][k])
  BY DEF EditsAreAccountedFor, Live
<1>1. PageInv(p)
  BY DEF PanelInv
<1>2. CASE page[p].pending # None
  BY <1>1, <1>2 DEF PageInv, Holds
<1>3. CASE page[p].pending = None /\ BeingSent(p)
  BY <1>3 DEF BeingSent, Holds, Mine, Carries, Col
<1>4. CASE page[p].pending = None /\ Written(p)
  BY <1>4 DEF Written, Holds, Col
<1> QED
  BY <1>1, <1>2, <1>3, <1>4 DEF PageInv

\* What an operator typed into the open tab is in the row, waiting or being
\* sent, unless a request failed, another page or an older request wrote the
\* column, or an edit after it sent an older value: for any number of open
\* panels, elements, overrides and edits (the tabs under
\* features/overlay/controls and the setters of service/overlay.go).
THEOREM EditsStayAccountedFor == Spec => []EditsAreAccountedFor
<1>1. Init => PanelInv
  BY InitPanel
<1>2. PanelInv /\ [Next]_vars => PanelInv'
  BY PanelStep
<1>3. PanelInv => EditsAreAccountedFor
  BY LiveIsAccountedFor
<1> QED
  BY <1>1, <1>2, <1>3, PTL DEF Spec

-----------------------------------------------------------------------------
(* What a tab shows, and what is still on its way to it.                     *)

\* A value of the column that would leave the draft of p as it is: of the
\* theme tab, only the colours are the operator's.
Matches(p, f) == IF page[p].tab = "theme"
                 THEN f["color"] = page[p].draft["color"]
                 ELSE f = page[p].draft

CachedCol(p) == page[p].cache.col[Col(p)]

Clearing(p) == \E r \in sent \cup replies : r.page = p /\ r.kind = "clear"

\* The draft is that of the cached row, or what makes it so is yet to come: the
\* timer, a request of the tab or a clear, or the push of a row.
Follows(p) ==
    /\ page[p].tab = "theme"
         => page[p].draft["theme"] = page[p].cache.col["look"]["theme"]
    /\ page[p].pending # None =>
         \/ Matches(p, page[p].pending)
         \/ page[p].tab # "overrides" /\ Matches(p, CachedCol(p))
    /\ page[p].pending = None =>
         \/ Matches(p, CachedCol(p))
         \/ \E r \in sent : /\ r.page = p /\ r.col = Col(p)
                            /\ Matches(p, r.val)
         \/ \E i \in DOMAIN pushes[p] : Matches(p, pushes[p][i].col[Col(p)])
         \/ page[p].tab = "overrides" /\ Clearing(p)

PanelsFollow ==
    \A p \in Pages \ behind : page[p].tab # "other" => Follows(p)

\* A clear sends the empty column, and its answer holds it.
ClearsAreEmpty ==
    /\ \A r \in sent : r.kind = "clear" =>
         r.col = "overrides" /\ r.val = DefaultRow.col["overrides"]
    /\ \A s \in replies : s.kind = "clear" =>
         s.row.col["overrides"] = DefaultRow.col["overrides"]

\* A row that a page has or will have: no newer than the row, and the same but
\* for the token if it is of version v or later.
Dated(v, x) ==
    /\ x.ver <= row.ver
    /\ x.ver >= v => \A c \in Columns \ {"token"} : x.col[c] = row.col[c]

\* v is the version of the last write that was pushed: every page has seen it,
\* or its last push is of that version or a later one.
PushedSince(v) ==
    /\ \A p \in Pages :
         /\ Dated(v, page[p].cache)
         /\ \A i \in DOMAIN pushes[p] : Dated(v, pushes[p][i])
    /\ \A s \in replies : Dated(v, s.row)
    /\ \A p \in Pages \ behind :
         IF pushes[p] = <<>> THEN page[p].cache.ver >= v
         ELSE pushes[p][Len(pushes[p])].ver >= v

RowsReachPages == \E v \in 0..row.ver : PushedSince(v)

QuietInv == PanelsFollow /\ ClearsAreEmpty /\ RowsReachPages

\* A page whose state does not change, and that loses nothing that is on its
\* way, still follows.
LEMMA StillFollows ==
    ASSUME NEW q \in Pages, Follows(q), page'[q] = page[q],
           \A r \in sent : r.page = q /\ r.col = Col(q) =>
             \/ r \in sent'
             \/ \E i \in DOMAIN pushes'[q] : pushes'[q][i].col[Col(q)] = r.val,
           \A i \in DOMAIN pushes[q] : \E j \in DOMAIN pushes'[q] :
             pushes'[q][j] = pushes[q][i],
           Clearing(q) => Clearing(q)'
    PROVE  Follows(q)'
<1>1. Col(q)' = Col(q) /\ CachedCol(q)' = CachedCol(q)
  BY DEF Col, CachedCol
<1>2. \A f : Matches(q, f)' <=> Matches(q, f)
  BY DEF Matches
<1>3. page'[q].tab = "theme"
        => page'[q].draft["theme"] = page'[q].cache.col["look"]["theme"]
  BY DEF Follows
<1>4. page'[q].pending # None =>
        \/ Matches(q, page[q].pending)
        \/ page'[q].tab # "overrides" /\ Matches(q, CachedCol(q))
  BY DEF Follows
<1>5. ASSUME page[q].pending = None
      PROVE  \/ Matches(q, CachedCol(q))
             \/ \E r \in sent' : /\ r.page = q /\ r.col = Col(q)
                                 /\ Matches(q, r.val)
             \/ \E i \in DOMAIN pushes'[q] :
                  Matches(q, pushes'[q][i].col[Col(q)])
             \/ page[q].tab = "overrides" /\ Clearing(q)'
  <2>1. CASE \E r \in sent : /\ r.page = q /\ r.col = Col(q)
                             /\ Matches(q, r.val)
    BY <2>1
  <2>2. CASE \E i \in DOMAIN pushes[q] : Matches(q, pushes[q][i].col[Col(q)])
    BY <2>2
  <2>3. CASE \/ Matches(q, CachedCol(q))
             \/ page[q].tab = "overrides" /\ Clearing(q)
    BY <2>3
  <2> QED
    BY <1>5, <2>1, <2>2, <2>3 DEF Follows
<1>6. page'[q].pending = None =>
        \/ Matches(q, CachedCol(q))'
        \/ \E r \in sent' : /\ r.page = q /\ r.col = Col(q)'
                            /\ Matches(q, r.val)'
        \/ \E i \in DOMAIN pushes'[q] :
             Matches(q, pushes[q][i].col[Col(q)])'
        \/ page'[q].tab = "overrides" /\ Clearing(q)'
  <2>1. Matches(q, CachedCol(q)) => Matches(q, CachedCol(q))'
    BY <1>1 DEF Matches
  <2>2. \A r \in sent' : Matches(q, r.val) => Matches(q, r.val)'
    BY DEF Matches
  <2>3. \A i \in DOMAIN pushes'[q] :
          Matches(q, pushes'[q][i].col[Col(q)])
            => Matches(q, pushes[q][i].col[Col(q)])'
    BY <1>1 DEF Matches
  <2> QED
    BY <1>1, <1>5, <2>1, <2>2, <2>3
<1>7. page'[q].pending # None =>
        \/ Matches(q, page[q].pending)'
        \/ page'[q].tab # "overrides" /\ Matches(q, CachedCol(q))'
  <2>1. Matches(q, page[q].pending) => Matches(q, page[q].pending)'
    BY DEF Matches
  <2>2. Matches(q, CachedCol(q)) => Matches(q, CachedCol(q))'
    BY <1>1 DEF Matches
  <2> QED
    BY <1>4, <2>1, <2>2
<1> QED
  BY <1>3, <1>6, <1>7 DEF Follows

\* The pages that a step leaves alone still follow.
LEMMA OthersFollow ==
    ASSUME PanelsFollow, NEW p, behind \subseteq behind',
           \A q \in Pages \ {p} :
             page'[q] = page[q] /\ pushes'[q] = pushes[q],
           \A r \in sent : r.page # p => r \in sent',
           \A s \in replies : s.page # p => s \in replies',
           p \in Pages \ behind' /\ page'[p].tab # "other" => Follows(p)'
    PROVE  PanelsFollow'
<1> SUFFICES ASSUME NEW q \in Pages, q \notin behind',
                    page'[q].tab # "other"
             PROVE  Follows(q)'
  BY DEF PanelsFollow
<1>1. CASE q = p
  BY <1>1
<1>2. CASE q # p
  <2>1. Follows(q)
    BY <1>2 DEF PanelsFollow
  <2>2. Clearing(q) => Clearing(q)'
    BY <1>2 DEF Clearing
  <2> QED
    BY <1>2, <2>1, <2>2, StillFollows
<1> QED
  BY <1>1, <1>2

\* A step that changes no cached row and adds no reply and no push leaves the
\* pages as well informed as they were.
LEMMA RowsStay ==
    ASSUME RowsReachPages, row' = row, pushes' = pushes,
           behind \subseteq behind',
           \A q \in Pages : page'[q].cache = page[q].cache,
           \A s \in replies' : \E x \in replies : s.row = x.row
    PROVE  RowsReachPages'
<1>1. PICK v \in 0..row.ver : PushedSince(v)
  BY DEF RowsReachPages
<1>2. \A x : Dated(v, x)' <=> Dated(v, x)
  BY DEF Dated
<1>3. \A q \in Pages :
        /\ Dated(v, page'[q].cache)
        /\ \A i \in DOMAIN pushes'[q] : Dated(v, pushes'[q][i])
  BY <1>1 DEF PushedSince
<1>4. \A s \in replies' : Dated(v, s.row)
  BY <1>1 DEF PushedSince
<1>5. \A q \in Pages \ behind' :
        IF pushes'[q] = <<>> THEN page'[q].cache.ver >= v
        ELSE pushes'[q][Len(pushes'[q])].ver >= v
  BY <1>1 DEF PushedSince
<1>6. PushedSince(v)'
  BY <1>3, <1>4, <1>5 DEF PushedSince, Dated
<1> QED
  BY <1>6 DEF RowsReachPages

-----------------------------------------------------------------------------
(* Editing.                                                                  *)

\* A tab that is opened shows the cached row (the effects of the tabs under
\* features/overlay/controls).
LEMMA OpenFollows ==
    ASSUME PanelTypes, QuietInv, NEW p \in Pages, NEW t \in Tabs,
           OpenTab(p, t)
    PROVE  QuietInv'
<1>1. page \in [Pages -> PageType] /\ page[p] \in PageType
  BY DEF PanelTypes
<1> DEFINE draft == IF t = "other" THEN Nothing
                    ELSE page[p].cache.col[ColumnOf[t]]
           pg == [page[p] EXCEPT !.tab = t, !.pending = None, !.draft = draft]
<1>2. /\ page' = [page EXCEPT ![p].tab = t, ![p].pending = None,
                              ![p].draft = draft]
      /\ sent' = Orphaned(sent, p) /\ replies' = Orphaned(replies, p)
      /\ UNCHANGED <<row, pushes, edits, newest, behind>>
  BY DEF OpenTab
<1>3. /\ pg.tab = t /\ pg.pending = None /\ pg.draft = draft
      /\ pg.cache = page[p].cache
  BY <1>1 DEF PageType
<1>4. page'[p] = pg /\ \A q \in Pages \ {p} : page'[q] = page[q]
  BY <1>1, <1>2
<1> HIDE DEF pg
<1>5. /\ sent \subseteq SentType /\ replies \subseteq ReplyType
  BY DEF PanelTypes
<1>6. /\ \A r \in sent : r.page # p => r \in sent'
      /\ \A x \in sent' : x.kind = "clear" => x \in sent
  BY <1>2, <1>5 DEF Orphaned, SentType, Kinds
<1>7. /\ \A s \in replies : s.page # p => s \in replies'
      /\ \A x \in replies' : x.kind = "clear" => x \in replies
      /\ \A x \in replies' : \E s \in replies : x.row = s.row
  <2>1. ASSUME NEW s \in replies
        PROVE  LET x == [s EXCEPT !.kind = "save"]
               IN  x.kind = "save" /\ x.row = s.row
    BY <1>5 DEF ReplyType
  <2> QED
    BY <1>2, <2>1 DEF Orphaned
<1>8. page'[p].tab # "other" => Follows(p)'
  <2> SUFFICES ASSUME t # "other" PROVE Follows(p)'
    BY <1>3, <1>4
  <2>1. draft = page[p].cache.col[ColumnOf[t]]
    OBVIOUS
  <2>2. CachedCol(p)' = draft
    BY <1>3, <1>4, <2>1 DEF CachedCol, Col
  <2>3. Matches(p, CachedCol(p))'
    BY <1>3, <1>4, <2>2 DEF Matches
  <2>4. page'[p].tab = "theme"
          => page'[p].draft["theme"] = page'[p].cache.col["look"]["theme"]
    BY <1>3, <1>4, <2>1, TabNames
  <2> QED
    BY <1>3, <1>4, <2>3, <2>4 DEF Follows
<1>9. PanelsFollow'
  BY <1>2, <1>4, <1>6, <1>7, <1>8, OthersFollow DEF QuietInv
<1>10. ClearsAreEmpty'
  BY <1>6, <1>7 DEF QuietInv, ClearsAreEmpty
<1>11. \A q \in Pages : page'[q].cache = page[q].cache
  BY <1>3, <1>4
<1>12. RowsReachPages'
  BY <1>2, <1>7, <1>11, RowsStay DEF QuietInv
<1> QED
  BY <1>9, <1>10, <1>12 DEF QuietInv

\* A step of p that keeps its tab and its cached row and at most sends a
\* request of its own keeps the invariant, if p follows after it.
LEMMA EditingFollows ==
    ASSUME PanelTypes, QuietInv, NEW p \in Pages,
           \A q \in Pages \ {p} : page'[q] = page[q],
           page'[p].cache = page[p].cache,
           sent \subseteq sent',
           \A r \in sent' \ sent : r.kind = "clear" =>
             r.col = "overrides" /\ r.val = DefaultRow.col["overrides"],
           UNCHANGED <<row, replies, pushes, behind>>,
           p \notin behind /\ page'[p].tab # "other" => Follows(p)'
    PROVE  QuietInv'
<1>1. PanelsFollow'
  BY OthersFollow DEF QuietInv
<1>2. ClearsAreEmpty'
  BY DEF QuietInv, ClearsAreEmpty
<1>3. RowsReachPages'
  BY RowsStay DEF QuietInv
<1> QED
  BY <1>1, <1>2, <1>3 DEF QuietInv

\* A request that is sent is one more of those that were.
LEMMA SendAdds ==
    ASSUME NEW p, NEW c, NEW value, NEW kind, Send(p, c, value, kind)
    PROVE  \E r : /\ sent' = sent \cup {r} /\ r.page = p /\ r.col = c
                  /\ r.val = value /\ r.kind = kind
<1>1. PICK n : sent' = sent \cup {[page |-> p, col |-> c, val |-> value,
                                   n |-> n, kind |-> kind]}
  BY DEF Send
<1> WITNESS [page |-> p, col |-> c, val |-> value, n |-> n, kind |-> kind]
<1> QED
  BY <1>1

\* What is typed into a tab waits in it, just as the draft shows it.
LEMMA TypingFollows ==
    ASSUME PanelTypes, QuietInv, NEW p \in Pages,
           \/ \E k \in ElementKeys \cup OverrideKeys, v \in Vals :
                EditItem(p, k, v)
           \/ \E v \in Vals : EditColor(p, v)
    PROVE  QuietInv'
<1>1. page \in [Pages -> PageType] /\ page[p] \in PageType
  BY DEF PanelTypes
<1>2. UNCHANGED <<row, sent, replies, pushes, behind>>
  BY DEF EditItem, EditColor, Typing
<1>3. CASE \E k \in ElementKeys \cup OverrideKeys, v \in Vals :
             EditItem(p, k, v)
  <2>1. PICK k \in ElementKeys \cup OverrideKeys, v \in Vals :
          EditItem(p, k, v)
    BY <1>3
  <2> DEFINE next == [page[p].draft EXCEPT ![k] = v]
             pg == [page[p] EXCEPT !.draft = next, !.pending = next]
  <2>2. /\ page[p].tab \in {"elements", "overrides"}
        /\ k \in DOMAIN page[p].draft
        /\ page' = [page EXCEPT ![p].draft = next, ![p].pending = next]
    BY <2>1 DEF EditItem
  <2>3. next \in Column
    <3>1. page[p].draft \in [KeysOf[Col(p)] -> Vals]
      BY <2>2, PageFields
    <3>2. next \in [KeysOf[Col(p)] -> Vals]
      BY <3>1
    <3> HIDE DEF next
    <3> QED
      BY <3>2, PageFields, ColumnValues
  <2> HIDE DEF next
  <2>4. /\ pg.tab = page[p].tab /\ pg.draft = next /\ pg.pending = next
        /\ pg.cache = page[p].cache
    BY <1>1 DEF PageType
  <2>5. page'[p] = pg /\ \A q \in Pages \ {p} : page'[q] = page[q]
    BY <1>1, <2>2
  <2>6. next # None
    BY <2>3, NoneAssumption
  <2> HIDE DEF pg
  <2>7. Matches(p, page[p].pending)'
    BY <2>2, <2>4, <2>5 DEF Matches
  <2>8. Follows(p)'
    BY <2>2, <2>4, <2>5, <2>6, <2>7 DEF Follows
  <2> QED
    BY <1>2, <2>4, <2>5, <2>8, EditingFollows
<1>4. CASE \E v \in Vals : EditColor(p, v)
  <2>1. PICK v \in Vals : EditColor(p, v)
    BY <1>4
  <2> DEFINE next == [theme |-> page[p].cache.col.look.theme, color |-> v]
             draft == [page[p].draft EXCEPT !.color = v]
             pg == [page[p] EXCEPT !.draft = draft, !.pending = next]
  <2>2. /\ page[p].tab = "theme"
        /\ page' = [page EXCEPT ![p].draft.color = v, ![p].pending = next]
    BY <2>1 DEF EditColor
  <2>3. /\ page[p].draft \in [{"theme", "color"} -> Vals]
        /\ page[p].cache.col["look"] \in [{"theme", "color"} -> Vals]
    <3>1. Col(p) = "look" /\ KeysOf[Col(p)] = {"theme", "color"}
      BY <2>2, ColumnNames, TabNames DEF Col
    <3>2. page[p].cache \in RowType
      BY PageFields
    <3> QED
      BY <2>2, <3>1, <3>2, PageFields, ColumnNames DEF RowType, Cols
  <2>4. /\ draft["color"] = v /\ draft["theme"] = page[p].draft["theme"]
        /\ next["color"] = v
    BY <2>3
  <2>5. next # None
    <3>1. next \in [KeysOf["look"] -> Vals]
      BY <2>3, ColumnNames
    <3> HIDE DEF next
    <3> QED
      BY <3>1, ColumnValues, ColumnNames
  <2>6. /\ pg.tab = page[p].tab /\ pg.draft = draft /\ pg.pending = next
        /\ pg.cache = page[p].cache
    BY <1>1 DEF PageType
  <2>7. page'[p] = pg /\ \A q \in Pages \ {p} : page'[q] = page[q]
    BY <1>1, <2>2
  <2> HIDE DEF pg, next, draft
  <2>8. Matches(p, page[p].pending)'
    BY <2>2, <2>4, <2>6, <2>7 DEF Matches
  <2>9. page[p].draft["theme"] = page[p].cache.col["look"]["theme"]
          \/ p \in behind
    BY <2>2 DEF QuietInv, PanelsFollow, Follows
  <2>10. p \notin behind => Follows(p)'
    BY <2>2, <2>4, <2>5, <2>6, <2>7, <2>8, <2>9 DEF Follows
  <2> QED
    BY <1>2, <2>6, <2>7, <2>10, EditingFollows
<1> QED
  BY <1>3, <1>4

\* What is sent at once is what the draft shows, or empties it.
LEMMA SendingFollows ==
    ASSUME PanelTypes, QuietInv, NEW p \in Pages,
           \/ \E t \in Vals : PickTheme(p, t)
           \/ ResetColors(p) \/ ClearOverrides(p) \/ Flush(p)
    PROVE  QuietInv'
<1>1. page \in [Pages -> PageType] /\ page[p] \in PageType
  BY DEF PanelTypes
<1>2. UNCHANGED <<row, replies, pushes, behind>>
  BY DEF PickTheme, ResetColors, ClearOverrides, Flush, Typing, history
<1>3. ASSUME page[p].tab = "theme"
      PROVE  /\ Col(p) = "look" /\ KeysOf[Col(p)] = {"theme", "color"}
             /\ page[p].draft \in [{"theme", "color"} -> Vals]
             /\ p \notin behind => page[p].draft["theme"]
                                     = page[p].cache.col["look"]["theme"]
  <2>1. Col(p) = "look" /\ KeysOf[Col(p)] = {"theme", "color"}
    BY <1>3, ColumnNames, TabNames DEF Col
  <2> QED
    BY <1>3, <2>1, PageFields DEF QuietInv, PanelsFollow, Follows
<1>4. CASE \E t \in Vals : PickTheme(p, t)
  <2>1. PICK t \in Vals : PickTheme(p, t)
    BY <1>4
  <2> DEFINE next == [theme |-> t, color |-> page[p].draft.color]
             pg == [page[p] EXCEPT !.pending = None]
  <2>2. /\ page[p].tab = "theme"
        /\ page' = [page EXCEPT ![p].pending = None]
        /\ \E r : /\ sent' = sent \cup {r} /\ r.page = p /\ r.col = "look"
                  /\ r.val = next /\ r.kind = "save"
    BY <2>1, SendAdds DEF PickTheme
  <2>3. /\ pg.tab = page[p].tab /\ pg.draft = page[p].draft
        /\ pg.pending = None /\ pg.cache = page[p].cache
    BY <1>1 DEF PageType
  <2>4. page'[p] = pg /\ \A q \in Pages \ {p} : page'[q] = page[q]
    BY <1>1, <2>2
  <2> HIDE DEF pg
  <2>8. PICK r : /\ sent' = sent \cup {r} /\ r.page = p /\ r.col = "look"
                 /\ r.val = next /\ r.kind = "save"
    BY <2>2
  <2>5. Matches(p, r.val)'
    BY <2>2, <2>3, <2>4, <2>8 DEF Matches
  <2>6. /\ r \in sent' /\ r.page = p /\ r.col = Col(p)' /\ r.kind = "save"
        /\ \A x \in sent' \ sent : x = r
    BY <1>3, <2>2, <2>3, <2>4, <2>8 DEF Col
  <2>7. p \notin behind => Follows(p)'
    BY <1>3, <2>2, <2>3, <2>4, <2>5, <2>6 DEF Follows
  <2> QED
    BY <1>2, <2>3, <2>4, <2>6, <2>7, <2>8, EditingFollows
<1>5. CASE ResetColors(p)
  <2> DEFINE next == [theme |-> page[p].cache.col.look.theme, color |-> 0]
             draft == [page[p].draft EXCEPT !.color = 0]
             pg == [page[p] EXCEPT !.draft = draft, !.pending = None]
  <2>1. /\ page[p].tab = "theme"
        /\ page' = [page EXCEPT ![p].draft.color = 0, ![p].pending = None]
        /\ \E r : /\ sent' = sent \cup {r} /\ r.page = p /\ r.col = "look"
                  /\ r.val = next /\ r.kind = "save"
    BY <1>5, SendAdds DEF ResetColors
  <2>2. draft["color"] = 0 /\ draft["theme"] = page[p].draft["theme"]
    BY <1>3, <2>1
  <2>3. /\ pg.tab = page[p].tab /\ pg.draft = draft
        /\ pg.pending = None /\ pg.cache = page[p].cache
    BY <1>1 DEF PageType
  <2>4. page'[p] = pg /\ \A q \in Pages \ {p} : page'[q] = page[q]
    BY <1>1, <2>1
  <2> HIDE DEF pg, draft
  <2>8. PICK r : /\ sent' = sent \cup {r} /\ r.page = p /\ r.col = "look"
                 /\ r.val = next /\ r.kind = "save"
    BY <2>1
  <2>5. Matches(p, r.val)'
    BY <2>1, <2>2, <2>3, <2>4, <2>8 DEF Matches
  <2>6. /\ r \in sent' /\ r.page = p /\ r.col = Col(p)' /\ r.kind = "save"
        /\ \A x \in sent' \ sent : x = r
    BY <1>3, <2>1, <2>3, <2>4, <2>8 DEF Col
  <2>7. p \notin behind => Follows(p)'
    BY <1>3, <2>1, <2>2, <2>3, <2>4, <2>5, <2>6 DEF Follows
  <2> QED
    BY <1>2, <2>3, <2>4, <2>6, <2>7, <2>8, EditingFollows
<1>6. CASE ClearOverrides(p)
  <2> DEFINE pg == [page[p] EXCEPT !.pending = None]
  <2>1. /\ page[p].tab = "overrides"
        /\ page' = [page EXCEPT ![p].pending = None]
        /\ \E r : /\ sent' = sent \cup {r} /\ r.page = p
                  /\ r.col = "overrides" /\ r.kind = "clear"
                  /\ r.val = DefaultRow.col["overrides"]
    BY <1>6, SendAdds DEF ClearOverrides
  <2>2. /\ pg.tab = page[p].tab /\ pg.pending = None
        /\ pg.cache = page[p].cache
    BY <1>1 DEF PageType
  <2>3. page'[p] = pg /\ \A q \in Pages \ {p} : page'[q] = page[q]
    BY <1>1, <2>1
  <2> HIDE DEF pg
  <2>4. PICK r : /\ sent' = sent \cup {r} /\ r.page = p
                 /\ r.col = "overrides" /\ r.kind = "clear"
                 /\ r.val = DefaultRow.col["overrides"]
    BY <2>1
  <2>5. Clearing(p)'
    BY <2>4 DEF Clearing
  <2>6. Follows(p)'
    BY <2>1, <2>2, <2>3, <2>5 DEF Follows
  <2> QED
    BY <1>2, <2>1, <2>2, <2>3, <2>4, <2>6, EditingFollows
<1>7. CASE Flush(p)
  <2> DEFINE pg == [page[p] EXCEPT !.pending = None]
  <2>1. /\ page[p].pending # None
        /\ sent' = sent \cup {[page |-> p, col |-> ColumnOf[page[p].tab],
                               val |-> page[p].pending, n |-> edits,
                               kind |-> "save"]}
        /\ page' = [page EXCEPT ![p].pending = None]
    BY <1>7 DEF Flush
  <2>2. /\ pg.tab = page[p].tab /\ pg.draft = page[p].draft
        /\ pg.pending = None /\ pg.cache = page[p].cache
    BY <1>1 DEF PageType
  <2>3. page'[p] = pg /\ \A q \in Pages \ {p} : page'[q] = page[q]
    BY <1>1, <2>1
  <2> HIDE DEF pg
  <2>4. PICK r \in sent' :
          /\ r.page = p /\ r.col = Col(p) /\ r.kind = "save"
          /\ r.val = page[p].pending /\ \A x \in sent' \ sent : x = r
    <3> DEFINE r == [page |-> p, col |-> ColumnOf[page[p].tab],
                     val |-> page[p].pending, n |-> edits, kind |-> "save"]
    <3>1. /\ r.page = p /\ r.col = Col(p) /\ r.kind = "save"
          /\ r.val = page[p].pending
      BY DEF Col
    <3>2. sent' = sent \cup {r}
      BY <2>1
    <3> HIDE DEF r
    <3> QED
      BY <3>1, <3>2
  <2>5. /\ Col(p)' = Col(p) /\ CachedCol(p)' = CachedCol(p)
        /\ \A f : Matches(p, f)' <=> Matches(p, f)
    BY <2>2, <2>3 DEF Col, CachedCol, Matches
  <2>6. ASSUME p \notin behind, page'[p].tab # "other" PROVE Follows(p)'
    <3>1. Follows(p)
      BY <2>2, <2>3, <2>6 DEF QuietInv, PanelsFollow
    <3>2. page'[p].tab = "theme"
            => page'[p].draft["theme"] = page'[p].cache.col["look"]["theme"]
      BY <2>2, <2>3, <3>1 DEF Follows
    <3>3. Matches(p, r.val) \/ Matches(p, CachedCol(p))
      BY <2>1, <2>4, <3>1 DEF Follows
    <3>4. Matches(p, CachedCol(p)) => Matches(p, CachedCol(p))'
      BY <2>2, <2>3, <2>5 DEF Matches
    <3>5. Matches(p, r.val) => Matches(p, r.val)'
      BY <2>2, <2>3 DEF Matches
    <3>6. \/ Matches(p, CachedCol(p))'
          \/ \E x \in sent' : /\ x.page = p /\ x.col = Col(p)'
                              /\ Matches(p, x.val)'
      BY <2>4, <2>5, <3>3, <3>4, <3>5
    <3> QED
      BY <2>2, <2>3, <3>2, <3>6 DEF Follows
  <2> QED
    BY <1>2, <2>1, <2>2, <2>3, <2>4, <2>6, EditingFollows
<1> QED
  BY <1>4, <1>5, <1>6, <1>7

\* The source and URL tabs keep no draft.
LEMMA BindingFollows ==
    ASSUME PanelTypes, QuietInv, NEW p \in Pages,
           \E v \in Vals : BindSource(p, v) \/ SetToken(p, v)
    PROVE  QuietInv'
<1>1. /\ page[p].tab = "other"
      /\ UNCHANGED <<row, page, replies, pushes, behind>>
      /\ sent \subseteq sent'
      /\ \A r \in sent' \ sent : r.kind \in {"bind", "token"}
  BY DEF BindSource, SetToken, Typing, Send
<1> QED
  BY <1>1, EditingFollows

\* A page whose request fails is behind.
LEMMA FailFollows ==
    ASSUME PanelTypes, QuietInv, NEW r \in sent, Fail(r)
    PROVE  QuietInv'
<1>1. /\ sent' = sent \ {r} /\ behind' = behind \cup {r.page}
      /\ UNCHANGED <<row, page, replies, pushes>>
  BY DEF Fail
<1>2. \A x \in sent : x.page # r.page => x \in sent'
  BY <1>1
<1>3. PanelsFollow'
  BY <1>1, <1>2, OthersFollow DEF QuietInv
<1>4. ClearsAreEmpty'
  BY <1>1 DEF QuietInv, ClearsAreEmpty
<1>5. RowsReachPages'
  BY <1>1, RowsStay DEF QuietInv
<1> QED
  BY <1>3, <1>4, <1>5 DEF QuietInv

-----------------------------------------------------------------------------
(* Replies and pushes.                                                       *)

\* A page that is shown a row takes its draft from it, or keeps what is the
\* operator's; in that case the row brings nothing new, or something waits
\* in the overrides tab.
LEMMA ShownDraft ==
    ASSUME PanelTypes, NEW p \in Pages, page[p].tab # "other",
           NEW new \in RowType, Shown(p, new),
           NEW f, f = new.col[Col(p)]
    PROVE  /\ page'[p].cache = new /\ page'[p].tab = page[p].tab
           /\ page'[p].pending = page[p].pending
           /\ \A q \in Pages \ {p} : page'[q] = page[q]
           /\ page[p].tab = "theme"
                => page'[p].draft["theme"] = new.col["look"]["theme"]
           /\ \/ /\ Matches(p, f)'
                 /\ page[p].pending = None \/ page[p].tab # "overrides"
              \/ /\ \A g : Matches(p, g)' <=> Matches(p, g)
                 /\ \/ page[p].pending # None /\ page[p].tab = "overrides"
                    \/ Matches(p, CachedCol(p)) => Matches(p, f)'
<1> DEFINE d == Synced(page[p], new)
           pg == [page[p] EXCEPT !.cache = new, !.draft = d]
<1>1. page \in [Pages -> PageType] /\ page[p] \in PageType
  BY DEF PanelTypes
<1>2. page' = [page EXCEPT ![p].cache = new, ![p].draft = d]
  BY DEF Shown
<1> HIDE DEF d
<1>3. /\ pg.tab = page[p].tab /\ pg.pending = page[p].pending
      /\ pg.cache = new /\ pg.draft = d
  BY <1>1 DEF PageType
<1>4. page'[p] = pg /\ \A q \in Pages \ {p} : page'[q] = page[q]
  BY <1>1, <1>2
<1> HIDE DEF pg
<1>5. \A g : Matches(p, g)' <=> IF page[p].tab = "theme"
                                THEN g["color"] = d["color"] ELSE g = d
  BY <1>3, <1>4 DEF Matches
<1>6. CASE page[p].tab = "elements"
  <2>1. /\ f = new.col["elements"]
        /\ CachedCol(p) = page[p].cache.col["elements"]
    BY <1>6, TabNames DEF Col, CachedCol
  <2>2. d = IF new.col["elements"] # page[p].cache.col["elements"]
            THEN new.col["elements"] ELSE page[p].draft
    BY <1>6 DEF d, Synced
  <2>3. CASE new.col["elements"] # page[p].cache.col["elements"]
    <3>1. Matches(p, f)'
      BY <1>5, <1>6, <2>1, <2>2, <2>3
    <3> QED
      BY <1>3, <1>4, <1>6, <3>1
  <2>4. CASE new.col["elements"] = page[p].cache.col["elements"]
    <3>1. \A g : Matches(p, g)' <=> Matches(p, g)
      BY <1>5, <1>6, <2>2, <2>4 DEF Matches
    <3>2. Matches(p, CachedCol(p)) => Matches(p, f)'
      BY <1>5, <1>6, <2>1, <2>2, <2>4 DEF Matches
    <3> QED
      BY <1>3, <1>4, <1>6, <3>1, <3>2
  <2> QED
    BY <2>3, <2>4
<1>7. CASE page[p].tab = "theme"
  <2>1. /\ f = new.col["look"]
        /\ CachedCol(p) = page[p].cache.col["look"]
    BY <1>7, TabNames DEF Col, CachedCol
  <2>2. d = [theme |-> new.col.look.theme,
             color |-> IF new.col.look.color # page[p].cache.col.look.color
                       THEN new.col.look.color ELSE page[p].draft.color]
    BY <1>7 DEF d, Synced
  <2>3. d["theme"] = new.col["look"]["theme"]
    BY <2>2
  <2>4. CASE new.col["look"]["color"] # page[p].cache.col["look"]["color"]
    <3>1. d["color"] = new.col["look"]["color"]
      BY <2>2, <2>4
    <3>2. Matches(p, f)'
      BY <1>5, <1>7, <2>1, <3>1
    <3> QED
      BY <1>3, <1>4, <1>7, <2>3, <3>2
  <2>5. CASE new.col["look"]["color"] = page[p].cache.col["look"]["color"]
    <3>1. d["color"] = page[p].draft["color"]
      BY <2>2, <2>5
    <3>2. \A g : Matches(p, g)' <=> Matches(p, g)
      BY <1>5, <1>7, <3>1 DEF Matches
    <3>3. Matches(p, CachedCol(p)) => Matches(p, f)'
      BY <1>5, <1>7, <2>1, <2>5, <3>1 DEF Matches
    <3> QED
      BY <1>3, <1>4, <1>7, <2>3, <3>2, <3>3
  <2> QED
    BY <2>4, <2>5
<1>8. CASE page[p].tab = "overrides"
  <2>1. /\ f = new.col["overrides"]
        /\ CachedCol(p) = page[p].cache.col["overrides"]
    BY <1>8, TabNames DEF Col, CachedCol
  <2>2. d = IF new # page[p].cache /\ page[p].pending = None
            THEN new.col["overrides"] ELSE page[p].draft
    BY <1>8 DEF d, Synced
  <2>3. CASE new # page[p].cache /\ page[p].pending = None
    <3>1. Matches(p, f)'
      BY <1>5, <1>8, <2>1, <2>2, <2>3
    <3> QED
      BY <1>3, <1>4, <1>8, <2>3, <3>1
  <2>4. CASE ~(new # page[p].cache /\ page[p].pending = None)
    <3>1. \A g : Matches(p, g)' <=> Matches(p, g)
      BY <1>5, <1>8, <2>2, <2>4 DEF Matches
    <3>2. new = page[p].cache =>
            (Matches(p, CachedCol(p)) => Matches(p, f)')
      BY <2>1, <3>1
    <3> QED
      BY <1>3, <1>4, <1>8, <2>4, <3>1, <3>2
  <2> QED
    BY <2>3, <2>4
<1> QED
  BY <1>6, <1>7, <1>8, PageFields, TabNames

\* A page that follows and is shown a row still follows.
LEMMA ShownFollows ==
    ASSUME PanelTypes, NEW p \in Pages, page[p].tab # "other", Follows(p),
           NEW new \in RowType, Shown(p, new), sent' = sent,
           \A i \in DOMAIN pushes[p] :
             \/ pushes[p][i] = new
             \/ \E j \in DOMAIN pushes'[p] : pushes'[p][j] = pushes[p][i],
           page[p].tab = "overrides" /\ Clearing(p) => Clearing(p)'
    PROVE  Follows(p)'
<1>1. PICK f : f = new.col[Col(p)]
  OBVIOUS
<1>2. /\ page'[p].cache = new /\ page'[p].tab = page[p].tab
      /\ page'[p].pending = page[p].pending
      /\ page[p].tab = "theme"
           => page'[p].draft["theme"] = new.col["look"]["theme"]
  BY <1>1, ShownDraft
<1>3. \/ /\ Matches(p, f)'
         /\ page[p].pending = None \/ page[p].tab # "overrides"
      \/ /\ \A g : Matches(p, g)' <=> Matches(p, g)
         /\ \/ page[p].pending # None /\ page[p].tab = "overrides"
            \/ Matches(p, CachedCol(p)) => Matches(p, f)'
  BY <1>1, ShownDraft
<1>4. Col(p)' = Col(p) /\ CachedCol(p)' = f
  BY <1>1, <1>2 DEF Col, CachedCol
<1>5. Matches(p, f)' => Matches(p, CachedCol(p))'
  BY <1>4 DEF Matches
<1>6. CASE Matches(p, f)' /\ (page[p].pending = None
                                \/ page[p].tab # "overrides")
  BY <1>2, <1>5, <1>6 DEF Follows
<1>7. CASE /\ \A g : Matches(p, g)' <=> Matches(p, g)
           /\ page[p].pending # None /\ page[p].tab = "overrides"
  <2>1. Matches(p, page[p].pending)
    BY <1>7 DEF Follows
  <2>2. PICK g : g = page[p].pending
    OBVIOUS
  <2>3. Matches(p, g)'
    BY <1>7, <2>1, <2>2
  <2>4. Matches(p, page[p].pending)'
    BY <1>2, <2>2, <2>3 DEF Matches
  <2> QED
    BY <1>2, <1>7, <2>4 DEF Follows
<1>8. CASE /\ \A g : Matches(p, g)' <=> Matches(p, g)
           /\ Matches(p, CachedCol(p)) => Matches(p, f)'
           /\ page[p].pending = None \/ page[p].tab # "overrides"
  <2>1. CASE page[p].pending # None
    <3>1. PICK g : g = page[p].pending
      OBVIOUS
    <3>2. Matches(p, g) \/ Matches(p, CachedCol(p))
      BY <2>1, <3>1 DEF Follows
    <3>3. Matches(p, g)' => Matches(p, page[p].pending)'
      BY <1>2, <3>1 DEF Matches
    <3>4. Matches(p, page[p].pending)' \/ Matches(p, CachedCol(p))'
      BY <1>5, <1>8, <3>2, <3>3
    <3> QED
      BY <1>2, <1>8, <2>1, <3>4 DEF Follows
  <2>2. CASE page[p].pending = None
    <3>1. CASE Matches(p, CachedCol(p))
      BY <1>2, <1>5, <1>8, <2>2, <3>1 DEF Follows
    <3>2. CASE \E r \in sent : /\ r.page = p /\ r.col = Col(p)
                               /\ Matches(p, r.val)
      <4>1. PICK r \in sent : /\ r.page = p /\ r.col = Col(p)
                              /\ Matches(p, r.val)
        BY <3>2
      <4>2. r \in sent' /\ r.col = Col(p)' /\ Matches(p, r.val)'
        BY <1>4, <1>8, <4>1
      <4> QED
        BY <1>2, <2>2, <4>1, <4>2 DEF Follows
    <3>3. CASE \E i \in DOMAIN pushes[p] :
                 Matches(p, pushes[p][i].col[Col(p)])
      <4>1. PICK i \in DOMAIN pushes[p] :
              Matches(p, pushes[p][i].col[Col(p)])
        BY <3>3
      <4>2. PICK g : g = pushes[p][i].col[Col(p)]
        OBVIOUS
      <4>3. Matches(p, g)'
        BY <1>8, <4>1, <4>2
      <4>4. CASE pushes[p][i] = new
        BY <1>1, <1>2, <1>5, <2>2, <4>2, <4>3, <4>4 DEF Follows
      <4>5. CASE \E j \in DOMAIN pushes'[p] : pushes'[p][j] = pushes[p][i]
        <5>1. PICK j \in DOMAIN pushes'[p] : pushes'[p][j] = pushes[p][i]
          BY <4>5
        <5>2. Matches(p, pushes[p][j].col[Col(p)])'
          BY <1>4, <4>2, <4>3, <5>1 DEF Matches
        <5> QED
          BY <1>2, <2>2, <5>2 DEF Follows
      <4> QED
        BY <4>4, <4>5
    <3>4. CASE page[p].tab = "overrides" /\ Clearing(p)
      BY <1>2, <2>2, <3>4 DEF Follows
    <3> QED
      BY <2>2, <3>1, <3>2, <3>3, <3>4 DEF Follows
  <2> QED
    BY <2>1, <2>2
<1> QED
  BY <1>3, <1>6, <1>7, <1>8

\* The last of several pushes is still the last when the first is shown.
LEMMA TailOfPushes ==
    ASSUME NEW S, NEW s \in Seq(S), s # <<>>
    PROVE  /\ Tail(s) \in Seq(S) /\ Head(s) \in S /\ Head(s) = s[1]
           /\ Len(s) \in DOMAIN s /\ 1 \in DOMAIN s /\ DOMAIN s = 1..Len(s)
           /\ \A i \in DOMAIN Tail(s) : /\ i + 1 \in DOMAIN s
                                        /\ Tail(s)[i] = s[i + 1]
           /\ \A i \in DOMAIN s : i = 1 \/ i - 1 \in DOMAIN Tail(s)
           /\ Tail(s) = <<>> => Head(s) = s[Len(s)]
           /\ Tail(s) # <<>> => Tail(s)[Len(Tail(s))] = s[Len(s)]
<1>1. /\ Head(s) \in S /\ Tail(s) \in Seq(S) /\ Len(Tail(s)) = Len(s) - 1
      /\ \A i \in 1..Len(Tail(s)) : Tail(s)[i] = s[i + 1]
  BY HeadTailProperties
<1>2. /\ DOMAIN s = 1..Len(s) /\ Len(s) \in Nat
      /\ DOMAIN Tail(s) = 1..Len(Tail(s)) /\ Len(Tail(s)) \in Nat
      /\ Len(s) # 0
  BY <1>1, LenProperties, EmptySeq
<1>3. Tail(s) = <<>> => Len(s) = 1
  <2>1. Tail(s) = <<>> => Len(Tail(s)) = 0
    BY <1>1, EmptySeq
  <2> QED
    BY <1>1, <1>2, <2>1
<1>4. Tail(s) # <<>> => Len(Tail(s)) # 0
  BY <1>1, EmptySeq
<1>5. Head(s) = s[1]
  OBVIOUS
<1> QED
  BY <1>1, <1>2, <1>3, <1>4, <1>5

\* What a page is shown is no older than what every page has seen, unless the
\* page is behind.
LEMMA RowsShown ==
    ASSUME RowsReachPages, NEW p \in Pages, NEW new,
           \A v : PushedSince(v) => Dated(v, new),
           row' = row, page'[p].cache = new,
           \A q \in Pages \ {p} :
             page'[q] = page[q] /\ pushes'[q] = pushes[q],
           replies' \subseteq replies, behind \subseteq behind',
           p \notin behind' => new.ver >= page[p].cache.ver,
           new.ver \in Nat, page[p].cache.ver \in Nat, row.ver \in Nat,
           pushes[p] \in Seq(RowType),
           \/ pushes'[p] = pushes[p]
           \/ /\ pushes[p] # <<>> /\ new = Head(pushes[p])
              /\ pushes'[p] = Tail(pushes[p])
    PROVE  RowsReachPages'
<1>1. PICK v \in 0..row.ver : PushedSince(v)
  BY DEF RowsReachPages
<1>2. \A x : Dated(v, x)' <=> Dated(v, x)
  BY DEF Dated
<1>3. Dated(v, new)
  BY <1>1
<1>4. ASSUME NEW q \in Pages
      PROVE  /\ Dated(v, page'[q].cache)
             /\ \A i \in DOMAIN pushes'[q] : Dated(v, pushes'[q][i])
  <2>1. CASE q # p
    BY <1>1, <2>1 DEF PushedSince
  <2>2. CASE q = p
    <3>1. CASE pushes'[p] = pushes[p]
      BY <1>1, <1>3, <2>2, <3>1 DEF PushedSince
    <3>2. CASE pushes[p] # <<>> /\ pushes'[p] = Tail(pushes[p])
      <4>1. \A i \in DOMAIN pushes'[p] :
              \E j \in DOMAIN pushes[p] : pushes'[p][i] = pushes[p][j]
        BY <3>2, TailOfPushes
      <4> QED
        BY <1>1, <1>3, <2>2, <4>1 DEF PushedSince
    <3> QED
      BY <3>1, <3>2
  <2> QED
    BY <2>1, <2>2
<1>5. \A s \in replies' : Dated(v, s.row)
  BY <1>1 DEF PushedSince
<1>6. ASSUME NEW q \in Pages, q \notin behind'
      PROVE  IF pushes'[q] = <<>> THEN page'[q].cache.ver >= v
             ELSE pushes'[q][Len(pushes'[q])].ver >= v
  <2>1. IF pushes[q] = <<>> THEN page[q].cache.ver >= v
        ELSE pushes[q][Len(pushes[q])].ver >= v
    BY <1>1, <1>6 DEF PushedSince
  <2>2. CASE q # p
    BY <2>1, <2>2
  <2>3. CASE q = p /\ pushes'[p] = pushes[p]
    BY <1>6, <2>1, <2>3
  <2>4. CASE /\ q = p /\ pushes[p] # <<>> /\ new = Head(pushes[p])
             /\ pushes'[p] = Tail(pushes[p])
    <3>1. pushes'[p] = <<>> => new = pushes[p][Len(pushes[p])]
      BY <2>4, TailOfPushes
    <3>2. pushes'[p] # <<>>
            => pushes'[p][Len(pushes'[p])] = pushes[p][Len(pushes[p])]
      BY <2>4, TailOfPushes
    <3> QED
      BY <2>1, <2>4, <3>1, <3>2
  <2> QED
    BY <2>2, <2>3, <2>4
<1>7. PushedSince(v)'
  BY <1>4, <1>5, <1>6 DEF PushedSince, Dated
<1> QED
  BY <1>7 DEF RowsReachPages

\* A page that is shown a row has it, and is behind if it is an older one.
LEMMA ShownCache ==
    ASSUME PanelTypes, NEW p \in Pages, NEW new, Shown(p, new)
    PROVE  /\ page'[p].cache = new /\ page'[p].tab = page[p].tab
           /\ \A q \in Pages \ {p} : page'[q] = page[q]
           /\ behind \subseteq behind'
           /\ p \notin behind' => ~(new.ver < page[p].cache.ver)
<1> DEFINE d == Synced(page[p], new)
           pg == [page[p] EXCEPT !.cache = new, !.draft = d]
<1>1. page \in [Pages -> PageType] /\ page[p] \in PageType
  BY DEF PanelTypes
<1>2. /\ page' = [page EXCEPT ![p].cache = new, ![p].draft = d]
      /\ behind' = IF new.ver < page[p].cache.ver THEN behind \cup {p}
                   ELSE behind
  BY DEF Shown
<1> HIDE DEF d
<1>3. pg.tab = page[p].tab /\ pg.cache = new
  BY <1>1 DEF PageType
<1>4. page'[p] = pg /\ \A q \in Pages \ {p} : page'[q] = page[q]
  BY <1>1, <1>2
<1> QED
  BY <1>2, <1>3, <1>4

\* A page that is shown one of the rows on their way to it keeps the invariant,
\* if it follows afterwards.
LEMMA ShowingFollows ==
    ASSUME PanelTypes, QuietInv, NEW p \in Pages, NEW new \in RowType,
           \A v : PushedSince(v) => Dated(v, new),
           row' = row, sent' = sent, page'[p].cache = new,
           \A q \in Pages \ {p} :
             page'[q] = page[q] /\ pushes'[q] = pushes[q],
           replies' \subseteq replies,
           \A x \in replies : x.page # p => x \in replies',
           behind \subseteq behind',
           p \notin behind' => ~(new.ver < page[p].cache.ver),
           \/ pushes'[p] = pushes[p]
           \/ /\ pushes[p] # <<>> /\ new = Head(pushes[p])
              /\ pushes'[p] = Tail(pushes[p]),
           p \notin behind' /\ page'[p].tab # "other" => Follows(p)'
    PROVE  QuietInv'
<1>1. /\ new.ver \in Nat /\ page[p].cache.ver \in Nat /\ row.ver \in Nat
      /\ pushes[p] \in Seq(RowType)
  <2>1. page[p].cache \in RowType /\ row \in RowType
    BY PageFields DEF PanelTypes
  <2> QED
    BY <2>1 DEF PanelTypes, RowType
<1>2. PanelsFollow'
  BY OthersFollow DEF QuietInv
<1>3. ClearsAreEmpty'
  BY DEF QuietInv, ClearsAreEmpty
<1>4. p \notin behind' => new.ver >= page[p].cache.ver
  BY <1>1
<1>5. RowsReachPages'
  BY <1>1, <1>4, RowsShown DEF QuietInv
<1> QED
  BY <1>2, <1>3, <1>5 DEF QuietInv

\* An answer keeps the invariant: a clear's empties the draft, another's shows
\* the row that it brings (onSuccess in the hooks of the control panel).
LEMMA ReplyFollows ==
    ASSUME PanelTypes, QuietInv, NEW s \in replies, Reply(s)
    PROVE  QuietInv'
<1> DEFINE p == s.page
<1>1. /\ page \in [Pages -> PageType] /\ p \in Pages
      /\ page[p] \in PageType /\ s.row \in RowType
  BY DEF PanelTypes, ReplyType
<1>2. replies' = replies \ {s} /\ UNCHANGED <<row, sent, pushes>>
  BY DEF Reply
<1>3. \A v : PushedSince(v) => Dated(v, s.row)
  BY DEF PushedSince
<1>4. CASE s.kind = "clear" /\ page[p].tab = "overrides"
  <2> DEFINE empty == DefaultRow.col.overrides
             pg == [page[p] EXCEPT !.cache = s.row, !.draft = empty]
  <2>1. /\ page' = [page EXCEPT ![p].cache = s.row, ![p].draft = empty]
        /\ p \notin behind' => /\ page[p].pending = None
                               /\ ~(s.row.ver < page[p].cache.ver)
        /\ behind \subseteq behind'
    BY <1>4 DEF Reply
  <2>2. s.row.col["overrides"] = empty
    BY <1>4 DEF QuietInv, ClearsAreEmpty
  <2> HIDE DEF empty
  <2>3. /\ pg.tab = page[p].tab /\ pg.pending = page[p].pending
        /\ pg.cache = s.row /\ pg.draft = empty
    BY <1>1 DEF PageType
  <2>4. page'[p] = pg /\ \A q \in Pages \ {p} : page'[q] = page[q]
    BY <1>1, <2>1
  <2> HIDE DEF pg
  <2>5. CachedCol(p)' = empty
    BY <1>4, <2>2, <2>3, <2>4, TabNames DEF CachedCol, Col
  <2>6. Matches(p, CachedCol(p))'
    BY <1>4, <2>3, <2>4, <2>5 DEF Matches
  <2>7. p \notin behind' => Follows(p)'
    BY <1>4, <2>1, <2>3, <2>4, <2>6 DEF Follows
  <2> HIDE DEF p
  <2> QED
    BY <1>1, <1>2, <1>3, <2>1, <2>3, <2>4, <2>7, ShowingFollows DEF p
<1>5. CASE ~(s.kind = "clear" /\ page[p].tab = "overrides")
  <2>1. Shown(p, s.row)
    BY <1>5 DEF Reply
  <2>2. /\ page'[p].cache = s.row /\ page'[p].tab = page[p].tab
        /\ \A q \in Pages \ {p} : page'[q] = page[q]
        /\ behind \subseteq behind'
        /\ p \notin behind' => ~(s.row.ver < page[p].cache.ver)
    BY <1>1, <2>1, ShownCache
  <2>3. page[p].tab = "overrides" /\ Clearing(p) => Clearing(p)'
    BY <1>2, <1>5 DEF Clearing
  <2>4. ASSUME p \notin behind', page'[p].tab # "other" PROVE Follows(p)'
    <3>1. Follows(p)
      BY <1>1, <2>2, <2>4 DEF QuietInv, PanelsFollow
    <3> QED
      BY <1>1, <1>2, <2>1, <2>2, <2>3, <2>4, <3>1, ShownFollows
  <2> QED
    BY <1>1, <1>2, <1>3, <2>2, <2>4, ShowingFollows
<1> QED
  BY <1>4, <1>5

\* A push keeps the invariant (config_update, listened to by the preview).
LEMMA PushFollows ==
    ASSUME PanelTypes, QuietInv, NEW p \in Pages, Push(p)
    PROVE  QuietInv'
<1>1. pushes \in [Pages -> Seq(RowType)] /\ pushes[p] \in Seq(RowType)
  BY DEF PanelTypes
<1>2. /\ pushes[p] # <<>> /\ Shown(p, Head(pushes[p]))
      /\ pushes' = [pushes EXCEPT ![p] = Tail(pushes[p])]
      /\ UNCHANGED <<row, sent, replies>>
  BY DEF Push
<1>3. PICK new : new = Head(pushes[p])
  OBVIOUS
<1>4. /\ new \in RowType /\ new = pushes[p][1] /\ 1 \in DOMAIN pushes[p]
      /\ \A i \in DOMAIN pushes[p] : i = 1 \/ i - 1 \in DOMAIN Tail(pushes[p])
      /\ \A i \in DOMAIN Tail(pushes[p]) :
           Tail(pushes[p])[i] = pushes[p][i + 1]
      /\ DOMAIN pushes[p] = 1..Len(pushes[p]) /\ Len(pushes[p]) \in Nat
  BY <1>1, <1>2, <1>3, TailOfPushes, LenProperties
<1>5. \A v : PushedSince(v) => Dated(v, new)
  BY <1>4 DEF PushedSince
<1>6. /\ page'[p].cache = new /\ page'[p].tab = page[p].tab
      /\ \A q \in Pages \ {p} : page'[q] = page[q]
      /\ behind \subseteq behind'
      /\ p \notin behind' => ~(new.ver < page[p].cache.ver)
  BY <1>2, <1>3, ShownCache
<1>7. /\ pushes'[p] = Tail(pushes[p])
      /\ \A q \in Pages \ {p} : pushes'[q] = pushes[q]
  BY <1>1, <1>2
<1>8. \A i \in DOMAIN pushes[p] :
        \/ pushes[p][i] = new
        \/ \E j \in DOMAIN pushes'[p] : pushes'[p][j] = pushes[p][i]
  <2> SUFFICES ASSUME NEW i \in DOMAIN pushes[p], i # 1
               PROVE  \E j \in DOMAIN pushes'[p] :
                        pushes'[p][j] = pushes[p][i]
    BY <1>4
  <2>1. i - 1 \in DOMAIN Tail(pushes[p]) /\ (i - 1) + 1 = i
    BY <1>4
  <2> QED
    BY <1>4, <1>7, <2>1
<1>9. ASSUME p \notin behind', page'[p].tab # "other" PROVE Follows(p)'
  <2>1. Follows(p)
    BY <1>6, <1>9 DEF QuietInv, PanelsFollow
  <2>2. Clearing(p) => Clearing(p)'
    BY <1>2 DEF Clearing
  <2> QED
    BY <1>2, <1>3, <1>4, <1>6, <1>8, <1>9, <2>1, <2>2, ShownFollows
<1> QED
  BY <1>2, <1>3, <1>4, <1>5, <1>6, <1>7, <1>9, ShowingFollows

-----------------------------------------------------------------------------
(* The service, and the theorem.                                             *)

\* What a request that runs changes.
LEMMA CommitChanges ==
    ASSUME PanelTypes, NEW r \in sent, Commit(r)
    PROVE  /\ row'.ver = row.ver + 1 /\ row.ver \in Nat /\ row' \in RowType
           /\ row'.col[r.col] = r.val
           /\ \A c \in Columns \ {r.col} : row'.col[c] = row.col[c]
           /\ sent' = sent \ {r} /\ UNCHANGED <<page, behind>>
           /\ \E s \in replies' : /\ s.page = r.page /\ s.kind = r.kind
                                  /\ s.row = row'
                                  /\ replies' = replies \cup {s}
           /\ r.col = "token" => pushes' = pushes
           /\ r.col # "token" => \A p \in Pages :
                /\ DOMAIN pushes'[p] = DOMAIN pushes[p]
                                         \cup {Len(pushes[p]) + 1}
                /\ \A i \in DOMAIN pushes[p] : pushes'[p][i] = pushes[p][i]
                /\ pushes'[p][Len(pushes[p]) + 1] = row'
                /\ pushes'[p] # <<>> /\ Len(pushes'[p]) = Len(pushes[p]) + 1
<1>1. /\ r \in SentType /\ r.col \in Columns /\ row \in RowType
      /\ r.val \in [KeysOf[r.col] -> Vals]
      /\ pushes \in [Pages -> Seq(RowType)]
  BY DEF PanelTypes, SentType
<1>2. row.ver \in Nat /\ row.col \in Cols /\ row.col \in [Columns -> Column]
  BY <1>1 DEF RowType, Cols
<1> DEFINE cols == [row.col EXCEPT ![r.col] = r.val]
<1>3. /\ cols \in Cols /\ cols[r.col] = r.val
      /\ \A c \in Columns \ {r.col} : cols[c] = row.col[c]
  BY <1>1, <1>2, ColumnValues DEF Cols
<1>4. row' = [ver |-> row.ver + 1, col |-> cols]
  BY DEF Commit
<1> HIDE DEF cols
<1>5. /\ row' \in RowType /\ row'.ver = row.ver + 1 /\ row'.col = cols
  BY <1>2, <1>3, <1>4 DEF RowType
<1>6. PICK new : new = row'
  OBVIOUS
<1> DEFINE s == [page |-> r.page, kind |-> r.kind, col |-> r.col, n |-> r.n,
                 row |-> new]
<1>7. /\ sent' = sent \ {r} /\ UNCHANGED <<page, behind>>
      /\ replies' = replies \cup {s}
      /\ r.col = "token" => pushes' = pushes
      /\ r.col # "token" => pushes' = [p \in Pages |-> Append(pushes[p], new)]
  BY <1>6 DEF Commit
<1>8. s.page = r.page /\ s.kind = r.kind /\ s.row = row'
  BY <1>6
<1> HIDE DEF s
<1>9. ASSUME r.col # "token", NEW p \in Pages
      PROVE  /\ DOMAIN pushes'[p] = DOMAIN pushes[p] \cup {Len(pushes[p]) + 1}
             /\ \A i \in DOMAIN pushes[p] : pushes'[p][i] = pushes[p][i]
             /\ pushes'[p][Len(pushes[p]) + 1] = row'
             /\ pushes'[p] # <<>> /\ Len(pushes'[p]) = Len(pushes[p]) + 1
  <2>1. pushes'[p] = Append(pushes[p], new)
    BY <1>7, <1>9
  <2>2. pushes[p] \in Seq(RowType) /\ new \in RowType
    BY <1>1, <1>5, <1>6
  <2>3. /\ Append(pushes[p], new) \in Seq(RowType)
        /\ Append(pushes[p], new) # <<>>
        /\ Len(Append(pushes[p], new)) = Len(pushes[p]) + 1
        /\ \A i \in 1..Len(pushes[p]) :
             Append(pushes[p], new)[i] = pushes[p][i]
        /\ Append(pushes[p], new)[Len(pushes[p]) + 1] = new
    BY <2>2, AppendProperties
  <2>4. /\ DOMAIN pushes[p] = 1..Len(pushes[p]) /\ Len(pushes[p]) \in Nat
        /\ DOMAIN Append(pushes[p], new) = 1..Len(pushes[p]) + 1
    BY <2>2, <2>3, LenProperties
  <2> QED
    BY <1>6, <2>1, <2>3, <2>4
<1> QED
  BY <1>2, <1>3, <1>5, <1>7, <1>8, <1>9

\* A request that runs keeps the invariant: a tab whose draft it carried now
\* waits for the push of the row (the setters of service/overlay.go).
LEMMA CommitFollows ==
    ASSUME PanelTypes, QuietInv, NEW r \in sent, Commit(r)
    PROVE  QuietInv'
<1>1. /\ row'.ver = row.ver + 1 /\ row.ver \in Nat
      /\ row'.col[r.col] = r.val
      /\ \A c \in Columns \ {r.col} : row'.col[c] = row.col[c]
      /\ sent' = sent \ {r} /\ UNCHANGED <<page, behind>>
      /\ r.col = "token" => pushes' = pushes
  BY CommitChanges
<1>2. r.col # "token" => \A p \in Pages :
        /\ DOMAIN pushes'[p] = DOMAIN pushes[p] \cup {Len(pushes[p]) + 1}
        /\ \A i \in DOMAIN pushes[p] : pushes'[p][i] = pushes[p][i]
        /\ pushes'[p][Len(pushes[p]) + 1] = row'
        /\ pushes'[p] # <<>> /\ Len(pushes'[p]) = Len(pushes[p]) + 1
  BY CommitChanges
<1>3. PICK s \in replies' : /\ s.page = r.page /\ s.kind = r.kind
                            /\ s.row = row' /\ replies' = replies \cup {s}
  BY CommitChanges
<1>4. PanelsFollow'
  <2> SUFFICES ASSUME NEW q \in Pages, q \notin behind,
                      page[q].tab # "other"
               PROVE  Follows(q)'
    BY <1>1 DEF PanelsFollow
  <2>1. Follows(q)
    BY DEF QuietInv, PanelsFollow
  <2>2. Col(q) # "token"
    BY PageFields, TabNames DEF Col
  <2>3. ASSUME NEW x \in sent, x.page = q, x.col = Col(q)
        PROVE  \/ x \in sent'
               \/ \E i \in DOMAIN pushes'[q] :
                    pushes'[q][i].col[Col(q)] = x.val
    <3>1. CASE x # r
      BY <1>1, <3>1
    <3>2. CASE x = r
      <4>1. /\ Len(pushes[q]) + 1 \in DOMAIN pushes'[q]
            /\ pushes'[q][Len(pushes[q]) + 1].col[Col(q)] = x.val
        BY <1>1, <1>2, <2>2, <2>3, <3>2
      <4> QED
        BY <4>1
    <3> QED
      BY <3>1, <3>2
  <2>4. \A i \in DOMAIN pushes[q] : \E j \in DOMAIN pushes'[q] :
          pushes'[q][j] = pushes[q][i]
    BY <1>1, <1>2
  <2>5. Clearing(q) => Clearing(q)'
    BY <1>1, <1>3 DEF Clearing
  <2> QED
    BY <1>1, <2>1, <2>3, <2>4, <2>5, StillFollows
<1>5. ClearsAreEmpty'
  BY <1>1, <1>3 DEF QuietInv, ClearsAreEmpty
<1>6. PICK v \in 0..row.ver : PushedSince(v)
  BY DEF QuietInv, RowsReachPages
<1>7. CASE r.col = "token"
  <2>1. \A x : Dated(v, x) /\ x.ver \in Nat => Dated(v, x)'
    BY <1>1, <1>7 DEF Dated
  <2>3. /\ \A p \in Pages : page[p].cache.ver \in Nat
        /\ \A p \in Pages : \A i \in DOMAIN pushes[p] :
             pushes[p][i].ver \in Nat
        /\ \A x \in replies : x.row.ver \in Nat
    <3>1. /\ \A p \in Pages : page[p].cache \in RowType
          /\ \A x \in replies : x.row \in RowType
          /\ \A p \in Pages : pushes[p] \in Seq(RowType)
      BY PageFields DEF PanelTypes, ReplyType
    <3>2. \A p \in Pages : \A i \in DOMAIN pushes[p] :
            pushes[p][i] \in RowType
      BY <3>1, ElementOfSeq, LenProperties
    <3> QED
      BY <3>1, <3>2 DEF RowType
  <2>4. /\ \A p \in Pages :
             /\ Dated(v, page[p].cache)'
             /\ \A i \in DOMAIN pushes'[p] : Dated(v, pushes[p][i])'
        /\ \A x \in replies' : Dated(v, x.row)'
    <3>1. \A p \in Pages : Dated(v, page[p].cache)'
      BY <1>1, <1>6, <2>1, <2>3 DEF PushedSince, Dated
    <3>2. \A p \in Pages : \A i \in DOMAIN pushes'[p] :
            Dated(v, pushes[p][i])'
      BY <1>1, <1>6, <1>7, <2>1, <2>3 DEF PushedSince, Dated
    <3>3. \A x \in replies : Dated(v, x.row)'
      BY <1>6, <2>1, <2>3 DEF PushedSince
    <3>4. Dated(v, s.row)'
      BY <1>1, <1>3 DEF Dated
    <3> QED
      BY <1>3, <3>1, <3>2, <3>3, <3>4
  <2>5. \A p \in Pages \ behind' :
          IF pushes'[p] = <<>> THEN page'[p].cache.ver >= v
          ELSE pushes'[p][Len(pushes'[p])].ver >= v
    BY <1>1, <1>6, <1>7 DEF PushedSince
  <2>6. PushedSince(v)'
    BY <1>1, <2>4, <2>5 DEF PushedSince
  <2>7. v \in 0..row'.ver
    BY <1>1
  <2>8. RowsReachPages'
    BY <2>6, <2>7 DEF RowsReachPages
  <2> QED
    BY <1>4, <1>5, <2>8 DEF QuietInv
<1>8. CASE r.col # "token"
  <2>1. PICK w \in Nat : w = row.ver + 1
    BY <1>1
  <2>2. \A x : x.ver \in Nat /\ x.ver <= row.ver => Dated(w, x)'
    BY <1>1, <2>1 DEF Dated
  <2>3. Dated(w, s.row)'
    BY <1>1, <1>3, <2>1 DEF Dated
  <2>4. /\ \A p \in Pages : page[p].cache.ver \in Nat
        /\ \A p \in Pages : \A i \in DOMAIN pushes[p] :
             pushes[p][i].ver \in Nat
        /\ \A x \in replies : x.row.ver \in Nat
    <3>1. /\ \A p \in Pages : page[p].cache \in RowType
          /\ \A x \in replies : x.row \in RowType
          /\ \A p \in Pages : pushes[p] \in Seq(RowType)
      BY PageFields DEF PanelTypes, ReplyType
    <3>2. \A p \in Pages : \A i \in DOMAIN pushes[p] :
            pushes[p][i] \in RowType
      BY <3>1, ElementOfSeq, LenProperties
    <3> QED
      BY <3>1, <3>2 DEF RowType
  <2>5. \A p \in Pages : Dated(w, page[p].cache)'
    BY <1>1, <1>6, <2>2, <2>4 DEF PushedSince, Dated
  <2>6. ASSUME NEW p \in Pages, NEW i \in DOMAIN pushes'[p]
        PROVE  Dated(w, pushes[p][i])'
    <3>1. CASE i \in DOMAIN pushes[p]
      BY <1>2, <1>6, <1>8, <2>2, <2>4, <3>1 DEF PushedSince, Dated
    <3>2. CASE i = Len(pushes[p]) + 1
      BY <1>1, <1>2, <1>8, <2>1, <3>2 DEF Dated
    <3> QED
      BY <1>2, <1>8, <2>6, <3>1, <3>2
  <2>7. \A x \in replies' : Dated(w, x.row)'
    <3>1. \A x \in replies : Dated(w, x.row)'
      BY <1>6, <2>2, <2>4 DEF PushedSince, Dated
    <3> QED
      BY <1>3, <2>3, <3>1
  <2>8. \A p \in Pages : /\ pushes'[p] # <<>>
                         /\ pushes'[p][Len(pushes'[p])].ver >= w
    BY <1>1, <1>2, <1>8, <2>1
  <2>9. PushedSince(w)'
    BY <1>1, <2>5, <2>6, <2>7, <2>8 DEF PushedSince
  <2>10. w \in 0..row'.ver
    BY <1>1, <2>1
  <2>11. RowsReachPages'
    BY <2>9, <2>10 DEF RowsReachPages
  <2> QED
    BY <1>4, <1>5, <2>11 DEF QuietInv
<1> QED
  BY <1>7, <1>8

\* The panels are opened on the default row.
LEMMA QuietStarts == Init => QuietInv
<1> SUFFICES ASSUME Init PROVE QuietInv
  OBVIOUS
<1>1. /\ row = DefaultRow /\ sent = {} /\ replies = {} /\ behind = {}
      /\ \A p \in Pages : /\ page[p].tab = "other"
                          /\ page[p].cache = DefaultRow
                          /\ pushes[p] = <<>>
  BY DEF Init
<1>2. DefaultRow.ver = 0
  BY DEF DefaultRow
<1>3. PushedSince(0)
  BY <1>1, <1>2 DEF PushedSince, Dated
<1>4. RowsReachPages
  BY <1>1, <1>2, <1>3 DEF RowsReachPages
<1> QED
  BY <1>1, <1>4 DEF QuietInv, PanelsFollow, ClearsAreEmpty

\* Every step of the panels keeps it.
LEMMA QuietStep == PanelTypes /\ QuietInv /\ [Next]_vars => QuietInv'
<1> SUFFICES ASSUME PanelTypes, QuietInv, [Next]_vars PROVE QuietInv'
  OBVIOUS
<1>1. ASSUME NEW p \in Pages, NEW t \in Tabs, OpenTab(p, t) PROVE QuietInv'
  BY <1>1, OpenFollows
<1>2. ASSUME NEW p \in Pages, NEW k \in ElementKeys \cup OverrideKeys,
             NEW v \in Vals, EditItem(p, k, v)
      PROVE  QuietInv'
  BY <1>2, TypingFollows
<1>3. ASSUME NEW p \in Pages, NEW v \in Vals,
             EditColor(p, v) \/ PickTheme(p, v) \/ BindSource(p, v)
               \/ SetToken(p, v)
      PROVE  QuietInv'
  BY <1>3, TypingFollows, SendingFollows, BindingFollows
<1>4. ASSUME NEW p \in Pages,
             ResetColors(p) \/ ClearOverrides(p) \/ Flush(p) \/ Push(p)
      PROVE  QuietInv'
  BY <1>4, SendingFollows, PushFollows
<1>5. ASSUME NEW r \in sent, Commit(r) \/ Fail(r) PROVE QuietInv'
  BY <1>5, CommitFollows, FailFollows
<1>6. ASSUME NEW s \in replies, Reply(s) PROVE QuietInv'
  BY <1>6, ReplyFollows
<1>7. CASE UNCHANGED vars
  <2>1. UNCHANGED <<row, page, sent, replies, pushes, behind>>
    BY <1>7 DEF vars, panelvars, history
  <2>2. PanelsFollow'
    BY <2>1 DEF QuietInv, PanelsFollow, Follows, Matches, CachedCol, Clearing,
                Col
  <2>3. ClearsAreEmpty'
    BY <2>1 DEF QuietInv, ClearsAreEmpty
  <2>4. RowsReachPages'
    BY <2>1, RowsStay DEF QuietInv
  <2> QED
    BY <2>2, <2>3, <2>4 DEF QuietInv
<1> QED
  BY <1>1, <1>2, <1>3, <1>4, <1>5, <1>6, <1>7 DEF Next

\* A tab for which nothing is on its way shows the cached row, and the cached
\* row is the row but for the token.
LEMMA QuietIsTrue == PanelTypes /\ QuietInv => QuietPanelIsTrue
<1> SUFFICES ASSUME PanelTypes, QuietInv, NEW p \in Pages,
                    page[p].pending = None, pushes[p] = <<>>,
                    ~\E r \in sent \cup replies : r.page = p,
                    p \notin behind, page[p].tab # "other"
             PROVE  page[p].draft = row.col[Col(p)]
  BY DEF QuietPanelIsTrue, Col
<1>1. Follows(p)
  BY DEF QuietInv, PanelsFollow
<1>2. Matches(p, CachedCol(p))
  BY <1>1 DEF Follows, Clearing
<1>3. PICK v \in 0..row.ver : PushedSince(v)
  BY DEF QuietInv, RowsReachPages
<1>4. Col(p) \in Columns \ {"token"}
  BY PageFields, TabNames DEF Col
<1>5. CachedCol(p) = row.col[Col(p)]
  BY <1>3, <1>4 DEF PushedSince, Dated, CachedCol
<1>6. CASE page[p].tab # "theme"
  BY <1>2, <1>5, <1>6 DEF Matches
<1>7. CASE page[p].tab = "theme"
  <2>1. Col(p) = "look" /\ KeysOf[Col(p)] = {"theme", "color"}
    BY <1>7, ColumnNames, TabNames DEF Col
  <2>2. /\ page[p].draft \in [{"theme", "color"} -> Vals]
        /\ CachedCol(p) \in [{"theme", "color"} -> Vals]
    <3>1. page[p].cache \in RowType
      BY PageFields
    <3> QED
      BY <1>7, <2>1, <3>1, PageFields, ColumnNames
         DEF CachedCol, RowType, Cols
  <2>3. CachedCol(p)["color"] = page[p].draft["color"]
    BY <1>2, <1>7 DEF Matches
  <2>4. CachedCol(p)["theme"] = page[p].draft["theme"]
    BY <1>1, <1>7, <2>1 DEF Follows, CachedCol
  <2>5. page[p].draft = CachedCol(p)
    BY <2>2, <2>3, <2>4
  <2> QED
    BY <1>5, <2>5
<1> QED
  BY <1>6, <1>7

\* When nothing is on its way the tab shows the row, unless a request of the
\* page failed or rows reached it in the wrong order: for any number of open
\* panels, elements, overrides and edits (useOverlay and the tabs under
\* features/overlay/controls).
THEOREM QuietPanelsAreTrue == Spec => []QuietPanelIsTrue
<1>1. Init => PanelInv /\ QuietInv
  BY InitPanel, QuietStarts
<1>2. PanelInv /\ QuietInv /\ [Next]_vars => PanelInv' /\ QuietInv'
  BY PanelStep, QuietStep DEF PanelInv
<1>3. PanelInv /\ QuietInv => QuietPanelIsTrue
  BY QuietIsTrue DEF PanelInv
<1> QED
  BY <1>1, <1>2, <1>3, PTL DEF Spec
===============================================================================
