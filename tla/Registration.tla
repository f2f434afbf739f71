---------------------------- MODULE Registration ----------------------------
(* The registrations of one division.  Each request runs its statements one  *)
(* by one, without a transaction, and other requests come in between.        *)
EXTENDS Naturals, Sequences, FiniteSets

CONSTANTS Desks,     \* requests that may be under way at a time
          Entrants,  \* teams or players
          MaxTeams,  \* division.max_teams
          MaxRows    \* bound: rows of the table

\* No limit, and a limit that is not positive, are 0.
ASSUME RegistrationAssumption == MaxTeams \in Nat /\ MaxRows \in Nat

VARIABLES division,  \* open for registration, auto_approve, auto_promote
          regs,      \* the rows, in the order of registered_at
          asked,     \* each desk's request
          careful    \* history: the desks have kept to the rules below

regvars == <<division, regs, asked, careful>>

\* "withdrawn" stands for "rejected" too: the statements know no difference.
Gone == {"withdrawn"}
Status == Gone \cup {"pending", "approved", "waitlisted", "checked_in",
                     "no_show", "withdrawn_mid_tournament"}
NoRequest == [op |-> "none"]

With(s) == {i \in DOMAIN regs : regs[i].status = s}
Approved == Cardinality(With("approved"))
Placed == With("approved") \cup With("checked_in")
Waiting == With("waitlisted")

\* The unique indexes: one row per entrant that is not withdrawn or rejected.
Enrolled(e) ==
    {i \in DOMAIN regs : regs[i].who = e /\ regs[i].status \notin Gone}
Duplicate(i, s) == s \notin Gone /\ Enrolled(regs[i].who) \ {i} # {}

RegistrationInit ==
    /\ division \in [open : {TRUE}, auto : BOOLEAN, promote : BOOLEAN]
    /\ regs = <<>>
    /\ asked = [d \in Desks |-> NoRequest]
    /\ careful = TRUE

\* The history: one request at a time, all of it, and what Kept says of it.
Alone(d) == \A o \in Desks \ {d} : asked[o] = NoRequest
Begin(d, request, kept) ==
    /\ asked[d] = NoRequest
    /\ asked' = [asked EXCEPT ![d] = request]
    /\ careful' = (careful /\ Alone(d) /\ kept)

Then(d, request) ==
    /\ asked' = [asked EXCEPT ![d] = request]
    /\ UNCHANGED <<division, careful>>
Done(d) == Then(d, NoRequest)

-----------------------------------------------------------------------------
\* Register reads the division, counts, and inserts.
ReadDivision(d, e) ==
    /\ division.open
    /\ Begin(d, [op |-> "count", who |-> e], TRUE)
    /\ UNCHANGED <<division, regs>>

\* Mutant: one more than there are places.
NoRoomTooLate == Approved > MaxTeams

NoRoom == MaxTeams > 0 /\ Approved >= MaxTeams

FirstStatus ==
    IF NoRoom THEN "waitlisted"
    ELSE IF division.auto THEN "approved" ELSE "pending"

CountApproved(d) ==
    /\ asked[d].op = "count"
    /\ Then(d, [op |-> "insert", who |-> asked[d].who, status |-> FirstStatus])
    /\ UNCHANGED regs

CreateRegistration(d) ==
    /\ asked[d].op = "insert"
    /\ LET new == [who |-> asked[d].who, status |-> asked[d].status]
       IN IF Enrolled(new.who) # {} THEN UNCHANGED regs
          ELSE Len(regs) < MaxRows /\ regs' = Append(regs, new)
    /\ Done(d)

-----------------------------------------------------------------------------
SetStatus(i, s) == regs' = [regs EXCEPT ![i].status = s]

\* A careful organiser approves when there is a place, takes back places that
\* are taken, and neither empties a place nor fills the waitlist otherwise.
KeptByHand(i, s) ==
    LET others == Waiting \ {i}
    IN CASE s = "approved" -> Cardinality(Placed \ {i}) < MaxTeams
         [] s \in Gone -> i \in Placed \/ others = {}
         [] OTHER -> i \notin Placed /\ s \notin {"waitlisted", "checked_in"}

\* UpdateStatus writes any status; a withdrawal or a rejection goes on to
\* promote whoever has waited longest.
UpdateStatus(d, i, s) ==
    /\ ~Duplicate(i, s)
    /\ SetStatus(i, s)
    /\ Begin(d, IF s \in Gone /\ division.promote THEN [op |-> "next"]
                ELSE NoRequest, KeptByHand(i, s))
    /\ UNCHANGED division

\* Mutant: the newest row of the waitlist is taken.
LastWaiting == CHOOSE i \in Waiting : \A j \in Waiting : j <= i

NextWaitlisted == CHOOSE i \in Waiting : \A j \in Waiting : i <= j

GetNextWaitlisted(d) ==
    /\ asked[d].op = "next"
    /\ Then(d, IF Waiting = {} THEN NoRequest
               ELSE [op |-> "promote", row |-> NextWaitlisted])
    /\ UNCHANGED regs

\* By id, whatever has become of the row; an error is dropped.
Promote(d) ==
    /\ asked[d].op = "promote"
    /\ IF Duplicate(asked[d].row, "approved") THEN UNCHANGED regs
       ELSE SetStatus(asked[d].row, "approved")
    /\ Done(d)

\* CheckIn and WithdrawMidTournament check a row they do not lock.
\* A careful desk checks in when registration is over, and lets nobody go by
\* this way, which promotes nobody, while others wait.
ReadCheckIn(d, i) ==
    /\ regs[i].status = "approved"
    /\ Begin(d, [op |-> "write", row |-> i, status |-> "checked_in"],
             ~division.open)
    /\ UNCHANGED <<division, regs>>

ReadWithdraw(d, i) ==
    /\ regs[i].status \in {"approved", "checked_in"}
    /\ Begin(d, [op |-> "write", row |-> i,
                 status |-> "withdrawn_mid_tournament"], Waiting = {})
    /\ UNCHANGED <<division, regs>>

WriteStatus(d) ==
    /\ asked[d].op = "write"
    /\ IF Duplicate(asked[d].row, asked[d].status) THEN UNCHANGED regs
       ELSE SetStatus(asked[d].row, asked[d].status)
    /\ Done(d)

\* One statement, which passes over the rows it must not touch.
BulkNoShow(d, rows) ==
    /\ LET hit == {i \in rows : regs[i].status \notin
                     {"checked_in", "withdrawn_mid_tournament"} \cup Gone}
       IN regs' = [i \in DOMAIN regs |->
                     IF i \in hit THEN [regs[i] EXCEPT !.status = "no_show"]
                     ELSE regs[i]]
    /\ Begin(d, NoRequest, Placed \cap rows = {} \/ Waiting = {})
    /\ UNCHANGED division

\* The division goes on to registration_closed.
CloseRegistration ==
    /\ division.open
    /\ division' = [division EXCEPT !.open = FALSE]
    /\ UNCHANGED <<regs, asked, careful>>

\* The request is cancelled, or a statement fails, midway.
RequestFails(d) ==
    /\ asked[d] # NoRequest
    /\ asked' = [asked EXCEPT ![d] = NoRequest]
    /\ careful' = (careful /\ asked[d].op \notin {"next", "promote"})
    /\ UNCHANGED <<division, regs>>

RegistrationNext ==
    \/ \E d \in Desks :
         \/ \E e \in Entrants : ReadDivision(d, e)
         \/ CountApproved(d) \/ CreateRegistration(d)
         \/ \E i \in DOMAIN regs :
              \/ \E s \in Status : UpdateStatus(d, i, s)
              \/ ReadCheckIn(d, i) \/ ReadWithdraw(d, i)
         \/ GetNextWaitlisted(d) \/ Promote(d) \/ WriteStatus(d)
         \/ \E rows \in SUBSET DOMAIN regs : rows # {} /\ BulkNoShow(d, rows)
         \/ RequestFails(d)
    \/ CloseRegistration

RegistrationSpec == RegistrationInit /\ [][RegistrationNext]_regvars

-----------------------------------------------------------------------------
RegistrationTypes ==
    /\ \A i \in DOMAIN regs : regs[i] \in [who : Entrants, status : Status]
    /\ careful \in BOOLEAN

\* A desk that keeps to the rules never gives out more places than there are,
\* leaves no place free while somebody waits, and lets nobody pass a row that
\* waits longer: the count before the insert, the promotion after a withdrawal
\* and the check-in agree on who holds a place.  The rules name what the code
\* does not see to itself.
CarefulDeskIsFair ==
    (careful /\ MaxTeams > 0) =>
        /\ Cardinality(Placed) <= MaxTeams
        /\ (division.promote /\ Waiting # {}
            /\ \A d \in Desks : asked[d] = NoRequest)
              => Cardinality(Placed) = MaxTeams
        /\ (division.auto /\ division.promote) =>
              \A i \in Waiting, j \in Placed : j < i
=============================================================================
