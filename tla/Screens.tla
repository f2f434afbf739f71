-------------------------------- MODULE Screens --------------------------------
(***************************************************************************)
(* The screens of the web client, one at a time.  A behaviour takes place  *)
(* on one screen (and on the one that a form leads to) and watches one of  *)
(* its queries in the cache of QueryCache, while the user opens, fills,    *)
(* sends and closes the forms of the screen, goes elsewhere, and answers   *)
(* and refetches arrive.  The catalogue says what each screen does.        *)
(***************************************************************************)
EXTENDS Naturals, FiniteSets, Sequences, Catalogue

CONSTANTS Watched,    \* screens to be checked
          MaxCalls,   \* bound on the requests of a behaviour
          MaxOpens    \* bound on the dialogs opened

ASSUME ScreensAssumption ==
    Watched \subseteq DOMAIN Screenful /\ MaxCalls \in Nat /\ MaxOpens \in Nat

VARIABLES rev, cache, calls, made, others, told, overtaken, \* of QueryCache
    home,     \* the screen that the behaviour is about
    screen,   \* the screen that is shown: home, a landing, or "elsewhere"
    slot,     \* slot: the opening, its act and its draft
    opens,    \* number of openings so far
    job,      \* request under way: its act, its opening and its mounting
    newest,   \* act: the latest request of its mutation
    spent,    \* history: openings that have committed a request
    twice     \* history: acts that committed twice from one opening

uivars == <<home, screen, slot, opens, job, newest, spent, twice>>
cachevars == <<rev, cache, calls, made, others, told, overtaken>>
vars == <<cachevars, uivars>>

Data == INSTANCE QueryCache WITH
    Queries <- QueryNames, Mutations <- MutationNames, Affects <- AffectsOf,
    Refreshes <- RefreshesOf, Replaces <- ReplacesOf, Gaps <- KnownGaps,
    Polled <- PolledQueries,
    MaxOthers <- 0

-----------------------------------------------------------------------------
Here == Screenful[home]
Acts == Here.acts
AtHome == screen = home
SlotsOf(s) == {Screenful[s].acts[a].slot : a \in DOMAIN Screenful[s].acts}
Landings(s) ==
    {Screenful[s].acts[a].to : a \in DOMAIN Screenful[s].acts} \ {""}

(* The queries in use: those of the component and of the one it is part of.  *)
Reads(s) ==
    IF s \notin DOMAIN Screenful THEN {}
    ELSE Screenful[s].reads \cup (IF Screenful[s].within = "" THEN {}
                                  ELSE Screenful[Screenful[s].within].reads)

(* The queries whose loading or failure hides the screen.                    *)
Gates(s) ==
    LET g(c) == Screenful[c].needs \cup Screenful[c].fails
    IN g(s) \cup (IF Screenful[s].within = "" THEN {}
                   ELSE g(Screenful[s].within))

Closed == [n |-> 0, act |-> "", since |-> 0, dirty |-> FALSE, old |-> FALSE]
PageSlot(s, l) == \E a \in DOMAIN Screenful[s].acts :
    Screenful[s].acts[a].slot = l /\ Screenful[s].acts[a].home = "page"

(* One query of the screen or of a landing is watched, of those that an act  *)
(* changes or that decide what is rendered; or else all those that the acts  *)
(* change and that only other screens show.  The rest have their data.       *)
Near(s) == Reads(s) \cup UNION {Reads(t) : t \in Landings(s)}
Changed(s) == UNION {AffectsOf[Screenful[s].acts[a].sends] :
                        a \in DOMAIN Screenful[s].acts}
OnScreens == UNION {Reads(s) : s \in DOMAIN Screenful}
WatchesOf(s) ==
    LET near == {{q} : q \in Near(s) \cap (Changed(s) \cup Gates(s))}
        far == (Changed(s) \cap OnScreens) \ Near(s)
    IN IF far # {} THEN near \cup {far}
       ELSE IF near # {} THEN near ELSE {{}}

Init ==
    \E s \in Watched :
        /\ \E W \in WatchesOf(s) :
              Data!CacheInit(W, W \cap Reads(s), W \ Reads(s))
        /\ home = s /\ screen = s
        /\ slot = [l \in SlotsOf(s) |-> IF PageSlot(s, l)
                     THEN [Closed EXCEPT !.n = 1] ELSE Closed]
        /\ newest = [a \in DOMAIN Screenful[s].acts |-> 0]
    /\ opens = 1 /\ job = <<>> /\ spent = {} /\ twice = {}

(* What a component renders first: a skeleton, an error, or its content.     *)
Shown(comp, entries) ==
    /\ \A q \in DOMAIN entries \cap comp.needs : entries[q].has
    /\ \A q \in DOMAIN entries \cap comp.fails : ~entries[q].err
Parent(entries) ==
    Here.within # "" => Shown(Screenful[Here.within], entries)
Content(entries) == AtHome /\ Shown(Here, entries) /\ Parent(entries)

(* One useMutation of the page may serve several acts.  The forms of a slot   *)
(* wait for each other's requests; what is mounted anew knows only the       *)
(* requests sent since.                                                      *)
SameHook(a, b) ==
    a = b \/ ({Acts[a].hook, Acts[b].hook} = {"parent"}
                 /\ Acts[a].sends = Acts[b].sends)
Shares(a, b) ==
    SameHook(a, b) \/ (Acts[a].slot = Acts[b].slot /\ Acts[a].slot # "button")
Busy(a) == \E c \in calls : /\ Shares(a, job[c.id].act)
                            /\ c.id > slot[Acts[a].slot].since

-----------------------------------------------------------------------------
(* What the user does.  A dialog covers the rest of the screen.              *)
Free(l) == \A k \in DOMAIN slot \ {l} : slot[k].n # 0 => k \notin Modal
Reach(l) == Content(cache) /\ Free(l)

Open(a) ==
    LET act == Acts[a]
        was == slot[act.slot]
    IN /\ act.home # "page" /\ Reach(act.slot)
       /\ was.n = 0 \/ act.over
       /\ opens < MaxOpens /\ opens' = opens + 1
       /\ slot' = [slot EXCEPT ![act.slot] =
             [n |-> opens', act |-> a, dirty |-> FALSE,
              since |-> IF act.hook = "child" THEN made ELSE was.since,
              old |-> act.seed = "kept" /\ was.dirty]]
       /\ UNCHANGED <<cachevars, home, screen, job, newest, spent, twice>>

Edit(l) ==
    /\ slot[l].n # 0 /\ ~slot[l].dirty /\ Reach(l)
    /\ l \notin {"button", "confirm"}
    /\ slot' = [slot EXCEPT ![l].dirty = TRUE]
    /\ UNCHANGED <<cachevars, home, screen, opens, job, newest, spent, twice>>

(* A closed dialog forgets its draft, unless the page holds it and opens the *)
(* dialog with whatever was typed before.                                    *)
Shut(s) == IF s.act # "" /\ Acts[s.act].seed = "kept"
           THEN [s EXCEPT !.n = 0] ELSE [Closed EXCEPT !.since = s.since]

Cancel(l) ==
    LET a == slot[l].act
    IN /\ slot[l].n # 0 /\ a # "" /\ Reach(l)
       /\ slot' = [slot EXCEPT ![l] = Shut(@)]
       /\ UNCHANGED <<cachevars, home, screen, opens, job, newest, spent,
                      twice>>

Sends(a) ==
    LET act == Acts[a]
        l == act.slot
    IN /\ slot[l].n # 0 /\ (act.home = "page" \/ slot[l].act = a)
       /\ Reach(l)
       /\ Data!Send(act.sends)
       /\ job' = [i \in DOMAIN job \cup {made'} |->
                    IF i \in DOMAIN job THEN job[i]
                    ELSE [act |-> a, n |-> slot[l].n, since |-> slot[l].since]]
       /\ newest' = [newest EXCEPT ![a] = made']
       /\ slot' = IF act.early THEN [slot EXCEPT ![l] = Shut(@)] ELSE slot
       /\ UNCHANGED <<home, screen, opens, spent, twice>>

Submit(a) == Sends(a) /\ (Acts[a].guard => ~Busy(a))

(* A form leads to another screen: its queries are unused, the next's used.   *)
Landed(s, entries) ==
    [q \in DOMAIN entries |->
       IF q \notin Reads(s) THEN [entries[q] EXCEPT !.on = FALSE]
       ELSE IF entries[q].on THEN entries[q]
       ELSE Data!Mounted(entries[q], FALSE)]

NoSlots == [l \in {} |-> Closed]

(* The user goes to another page: to one that shows a query of those in the  *)
(* cache, or to one that shows none.                                         *)
GoElsewhere(Q) ==
    /\ AtHome /\ made # 0 /\ ~Here.stays
    /\ screen' = "elsewhere" /\ slot' = NoSlots
    /\ Data!Shows([q \in DOMAIN cache |->
          IF q \in Q THEN Data!Mounted(cache[q], FALSE)
          ELSE [cache[q] EXCEPT !.on = FALSE]])
    /\ UNCHANGED <<home, opens, job, newest, spent, twice>>

-----------------------------------------------------------------------------
(* What becomes of the drafts when entries change.  A form that follows its  *)
(* row takes the new row; what is not rendered any more is unmounted, and    *)
(* state of its own is gone.                                                 *)
Follows(l, entries) ==
    /\ \E a \in DOMAIN Acts : Acts[a].slot = l /\ Acts[a].seed = "sync"
    /\ \E q \in DOMAIN entries : entries[q].seen # cache[q].seen

OwnState(l) == slot[l].act # "" /\ Acts[slot[l].act].home = "child"

Drafts(entries) ==
    [l \in DOMAIN slot |->
       IF slot[l].n = 0 /\ Parent(entries) THEN slot[l]
       ELSE IF ~Parent(entries)
       THEN [Closed EXCEPT !.since = made,
                           !.n = IF PageSlot(home, l) THEN 1 ELSE 0]
       ELSE IF Follows(l, entries) THEN [slot[l] EXCEPT !.dirty = FALSE]
       ELSE IF ~Content(entries) /\ OwnState(l)
       THEN [slot[l] EXCEPT !.dirty = FALSE, !.since = made]
       ELSE slot[l]]

Rendered == slot' = IF AtHome THEN Drafts(cache') ELSE slot

Fetching(q) ==
    /\ Data!Arrives(q) \/ Data!FetchFails(q)
    /\ Rendered
    /\ UNCHANGED <<home, screen, opens, job, newest, spent, twice>>

Background(q) ==
    /\ Data!ServerReads(q) \/ (q \in PolledQueries /\ Data!Refresh(q))
    /\ UNCHANGED uivars

(* What the server does with a request.  The user is told of an error, and   *)
(* may try again.  A form that an error took from the screen and that was    *)
(* put on anew is another opening.                                           *)
Opening(c) == <<job[c.id].act, job[c.id].n, job[c.id].since>>

WithoutJob(c) == [i \in DOMAIN job \ {c.id} |-> job[i]]

Commit(c) ==
    /\ Data!Commit(c)
    /\ spent' = spent \cup {Opening(c)}
    /\ twice' = IF Opening(c) \in spent THEN twice \cup {job[c.id].act}
                ELSE twice
    /\ UNCHANGED <<home, screen, slot, opens, job, newest>>

CallFails(c) ==
    /\ Data!CallFails(c)
    /\ job' = WithoutJob(c)
    /\ spent' = spent \ {Opening(c)}
    /\ UNCHANGED <<home, screen, slot, opens, newest, twice>>

(* What follows a request's success in the component that sent it.  After    *)
(* await it always runs, even when the component is gone; a callback given   *)
(* to mutate runs while the component is there and has sent nothing since.   *)
Runs(c) ==
    LET a == job[c.id].act
    IN \/ Acts[a].how = "await"
       \/ /\ AtHome
          /\ \A b \in DOMAIN Acts : SameHook(a, b) => newest[b] <= c.id
          /\ c.id > slot[Acts[a].slot].since

Follow(c, drafts) ==
    LET act == Acts[job[c.id].act]
        l == act.slot
    IN IF ~Runs(c) \/ ~AtHome THEN drafts
       ELSE CASE act.done = "close" -> [drafts EXCEPT ![l] = Shut(@)]
              [] act.done = "blank" -> [drafts EXCEPT ![l].dirty = FALSE]
              [] act.done = "stay" /\ slot[l].n = job[c.id].n ->
                   [drafts EXCEPT ![l].dirty = FALSE]
              [] OTHER -> drafts

Done(c) == Acts[job[c.id].act].done
Leaves(c) == Runs(c) /\ Done(c) \in {"leave", "reload"}

Answer(c) ==
    LET entries == [q \in DOMAIN cache |-> Data!Settled(q, c)]
        to == Acts[job[c.id].act].to
    IN /\ IF Leaves(c)
          THEN /\ Data!AnswerThen(c, Landed(to,
                     IF Done(c) = "leave" THEN entries
                     ELSE [q \in DOMAIN cache |-> Data!Absent]))
               /\ screen' = to /\ slot' = NoSlots
          ELSE /\ Data!AnswerThen(c, entries)
               /\ screen' = screen
               /\ slot' = IF AtHome THEN Follow(c, Drafts(entries)) ELSE slot
       /\ job' = WithoutJob(c)
       /\ spent' = spent \ {Opening(c)}
       /\ UNCHANGED <<home, opens, newest, twice>>

Next ==
    \/ \E a \in DOMAIN Acts : AtHome /\ (Open(a) \/ Submit(a))
    \/ \E l \in DOMAIN slot : Edit(l) \/ Cancel(l)
    \/ GoElsewhere({}) \/ \E q \in DOMAIN cache : GoElsewhere({q})
    \/ \E q \in DOMAIN cache : Fetching(q) \/ Background(q)
    \/ \E c \in calls : Commit(c) \/ CallFails(c) \/ Answer(c)

Spec == Init /\ [][Next]_vars

-----------------------------------------------------------------------------
TypeOK ==
    /\ DOMAIN job = {c.id : c \in calls}
    /\ \A i \in DOMAIN job : job[i].act \in DOMAIN Acts
    /\ \A l \in DOMAIN slot : slot[l].n <= opens /\ slot[l].since <= made
    /\ spent \subseteq (DOMAIN Acts) \X (0..opens) \X (0..made)
    /\ Data!TypeOK

(* A screen on which nothing is being fetched shows what the user did there, *)
(* and so does the screen that a form leads to, but for KnownGaps, a fetch   *)
(* that failed and an answer that could not give up an older fetch.          *)
ScreensShowOwnWork == Data!ReadYourWrites

(* The answer to a request from one opening of a form neither closes nor     *)
(* replaces a later one, but for the dialogs of Intrusive.                   *)
AnswersCloseTheirOwn ==
    [][\A c \in calls :
         (/\ calls' = calls \ {c} /\ screen' = screen
          /\ <<home, job[c.id].act>> \notin Intrusive)
            => \A l \in DOMAIN slot :
                 slot[l].n \notin {0, job[c.id].n}
                   => slot'[l].n = slot[l].n]_vars

(* An answer takes nobody away from another page, but for the forms of       *)
(* Wandering, which run on after await wherever the user is.                 *)
AnswersLeaveOthersAlone ==
    [][(~AtHome /\ screen' # screen)
         => \E c \in calls : /\ calls' = calls \ {c}
                             /\ <<home, job[c.id].act>> \in Wandering]_vars

(* A draft is lost only when the user closes it, sends it or leaves; a       *)
(* refetch of the screen's data, failed or not, keeps it, but for the        *)
(* screens of Fragile.                                                       *)
DraftsSurviveRefetch ==
    [][(home \notin Fragile /\ screen' = screen /\ calls' = calls)
         => \A l \in DOMAIN slot :
              (slot[l].dirty /\ cache' # cache) => slot'[l].dirty]_vars

(* No form commits the same opening twice unless the user was told of an     *)
(* error in between; but for the acts of Unguarded.                          *)
SavedOnce == \A a \in twice : <<home, a>> \in Unguarded

(* A form does not open with what was typed into an earlier opening of it,   *)
(* but for those of Leftovers.                                               *)
FormsOpenClean ==
    home \notin Leftovers => \A l \in DOMAIN slot : ~slot[l].old
=============================================================================
