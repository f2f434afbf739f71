--------------------------- MODULE TournamentScreens ---------------------------
(* The components of tournaments, their divisions, courts and staff.         *)
EXTENDS ScreenKit

TournamentList ==
    Screen({"ListTournaments"}, {"ListTournaments"}, {"ListTournaments"},
           NoActs)

(* A tournament's page: the tabs are unmounted while it loads or failed.     *)
TournamentDetail ==
    Screen({"GetTournament", "ListDivisions", "Auth"},
           {"GetTournament"}, {"GetTournament"}, NoActs)

(* The dialog of the clone is always mounted: its name is seeded once, and   *)
(* the next opening shows what was typed into the one before.                *)
CloneDialog ==
    With(Panel("CloneTournament"),
         [seed |-> "kept", done |-> "leave", to |-> "TournamentDetail"])

(* Cancelling and archiving are asked first; the question is gone at once.   *)
StatusConfirm == With(Confirm("UpdateTournamentStatus"), [early |-> TRUE])

TournamentOverview ==
    Within("TournamentDetail",
        Screen({"ListDivisions"}, {}, {},
               [status |-> Button("UpdateTournamentStatus"),
                cancel |-> StatusConfirm,
                archive |-> With(StatusConfirm, [slot |-> "archive"]),
                clone |-> CloneDialog]))

(* The fields take the row's values when the tab is mounted, and only then.  *)
TournamentSettings ==
    Within("TournamentDetail",
        Screen({}, {}, {},
               [save |-> PageForm("UpdateTournament", ""),
                delete |-> With(Confirm("DeleteTournament"),
                                [done |-> "leave", to |-> "TournamentList"])]))

AnnouncementFeed ==
    Within("TournamentDetail",
        Screen({"ListTournamentAnnouncements"}, {}, {},
               [create |-> Composer(Panel("CreateTournamentAnnouncement")),
                edit |-> Composer(EditPanel("UpdateAnnouncement")),
                delete |-> Confirm("DeleteAnnouncement")]))

(* The dialog of a new court keeps what was typed until a court is made; a   *)
(* court can be given and taken away in its row.                             *)
TournamentCourts ==
    Within("TournamentDetail",
        Screen({"CourtsForTournament", "VenueCourts"}, {"CourtsForTournament"},
               {},
               [create |-> With(Panel("CreateTempTournamentCourt"),
                                [how |-> "call", seed |-> "kept"]),
                assign |-> With(Button("AssignCourtToTournament"),
                                [how |-> "call"]),
                unassign |-> With(Button("UnassignCourtFromTournament"),
                                  [how |-> "call", guard |-> FALSE])]))

RegistrationTable ==
    Within("TournamentDetail",
        Screen({"ListRegistrations"}, {}, {}, NoActs))

TournamentStaff ==
    Within("TournamentDetail",
        Screen({"TournamentStaff"}, {"TournamentStaff"}, {"TournamentStaff"},
               [regenerate |-> With(Confirm("RegenerateStaffPassword"),
                                    [how |-> "call", early |-> TRUE,
                                     done |-> "stay"])]))

-----------------------------------------------------------------------------
(* The form has state of its own, seeded with the row; after the answer it   *)
(* calls the onSuccess that it was given, which closes the parent's dialog.  *)
DivisionForm(division) ==
    IF division = "" THEN Child("CreateDivision")
    ELSE EditChild("UpdateDivision")

DivisionList ==
    Within("TournamentDetail",
        Screen({"ListDivisions"}, {}, {}, [create |-> DivisionForm("")]))

DivisionDetail ==
    Screen({"GetTournament", "GetDivision"}, {"GetDivision"}, {"GetDivision"},
           NoActs)

DivisionOverview ==
    Within("DivisionDetail",
        Screen({"ListRegistrations", "Auth"}, {}, {},
               [status |-> Button("UpdateDivisionStatus"),
                edit |-> DivisionForm("division"),
                delete |-> With(Confirm("DeleteDivision"),
                                [done |-> "leave",
                                 to |-> "TournamentDetail"])]))

(* The form below the table, with its searches for a player and a team.      *)
AddRegistrationForm == Inline(Child("CreateRegistration"))

DivisionRegistrations ==
    Within("DivisionDetail",
        Screen({"ListRegistrations", "PlayerSearch", "TeamSearch"}, {}, {},
               [add |-> AddRegistrationForm,
                noShow |-> Confirm("BulkNoShow")]))

(* The place of a match on a court is chosen in its card, which is disabled  *)
(* until the answer.                                                         *)
MatchCard == Button("AssignMatchToCourt")

DivisionBracket ==
    Within("DivisionDetail",
        Screen({"ListBracketMatches", "CourtsForTournament"},
               {"ListBracketMatches"}, {},
               [generate |-> Button("GenerateBracket"), assign |-> MatchCard]))

TournamentScreens == [
    TournamentList |-> TournamentList, TournamentDetail |-> TournamentDetail,
    TournamentOverview |-> TournamentOverview,
    TournamentSettings |-> TournamentSettings,
    AnnouncementFeed |-> AnnouncementFeed,
    TournamentCourts |-> TournamentCourts,
    RegistrationTable |-> RegistrationTable,
    TournamentStaff |-> TournamentStaff,
    DivisionList |-> DivisionList, DivisionDetail |-> DivisionDetail,
    DivisionOverview |-> DivisionOverview,
    DivisionRegistrations |-> DivisionRegistrations,
    DivisionBracket |-> DivisionBracket]
=============================================================================
