---------------------------- MODULE RegistryScreens ----------------------------
(* The registry: players, teams, organizations, venues and courts.           *)
EXTENDS ScreenKit

(* What is typed stays until the answer closes the dialog: opened again      *)
(* after it was closed by hand, the dialog shows it.                         *)
AddDialog(mutation) ==
    With(Panel(mutation), [how |-> "call", seed |-> "kept"])
RemoveDialog(mutation) == With(Confirm(mutation), [how |-> "call"])
CallButton(mutation) == With(Button(mutation), [how |-> "call"])

(* The fields are filled once, when the profile first arrives.               *)
PlayerForm ==
    Screen({"MyProfile"}, {"MyProfile"}, {"MyProfile"},
           [save |-> With(PageForm("UpdateProfile", "PlayerDashboard"),
                          [how |-> "call"])])

(* The answer closes and empties the dialog whatever became of it since.     *)
PlayerList ==
    Screen({"PlayerSearch", "Auth"}, {"PlayerSearch"}, {"PlayerSearch"},
           [create |-> With(Panel("CreatePlayer"), [seed |-> "kept"])])

PlayerDetail == Screen({"Player"}, {"Player"}, {"Player"}, NoActs)

(* Mutants: a form that awaits the answer, and one that can be sent twice.   *)
RowFormAwaits(mutation, page) == PageForm(mutation, page)
RowFormUnguarded(mutation, page) ==
    With(PageForm(mutation, page), [how |-> "call", guard |-> FALSE])

(* Forms of teams, organizations and venues: fields seeded when mounted, the *)
(* new or old row's page after the answer.                                   *)
RowForm(mutation, page) == With(PageForm(mutation, page), [how |-> "call"])

TeamForm(team) ==
    Screen({}, {}, {},
           [save |-> RowForm(IF team = "" THEN "CreateTeam" ELSE "UpdateTeam",
                             "TeamDetail")])
TeamEditPage == Screen({"Team"}, {"Team"}, {"Team"}, NoActs)

TeamDetail ==
    Screen({"Team"}, {"Team"}, {"Team"},
           [delete |-> With(RemoveDialog("DeleteTeam"),
                            [done |-> "leave", to |-> "TeamList"])])

RosterPanel ==
    Within("TeamDetail",
        Screen({"TeamRoster", "PlayerSearch"}, {}, {},
               [add |-> AddDialog("AddPlayerToRoster"),
                remove |-> RemoveDialog("RemovePlayerFromRoster")]))

TeamList == Screen({"TeamSearch"}, {"TeamSearch"}, {"TeamSearch"}, NoActs)

-----------------------------------------------------------------------------
OrgForm(org) ==
    Screen({}, {}, {},
           [save |-> RowForm(IF org = "" THEN "CreateOrg" ELSE "UpdateOrg",
                             "OrgDetail")])
OrgEditPage ==
    Screen({"Org", "MyOrgRole", "Auth"}, {"Org", "MyOrgRole"}, {"Org"}, NoActs)

(* One dialog blocks or unblocks, as the cached status has it.               *)
OrgDetail ==
    LET Block(mutation) == With(RemoveDialog(mutation), [slot |-> "edit"])
    IN Screen({"Org", "Auth", "OrgBlockStatus", "MyOrgRole"}, {"Org"}, {"Org"},
              [delete |-> With(RemoveDialog("DeleteOrg"),
                               [done |-> "leave", to |-> "OrgList"]),
               block |-> Block("BlockOrg"),
               unblock |-> Block("UnblockOrg")])

(* Roles are chosen in the table, and nothing is disabled meanwhile.         *)
MembersPanel ==
    Within("OrgDetail",
        Screen({"OrgMembers", "PlayerSearch"}, {}, {},
               [add |-> AddDialog("AddMember"),
                remove |-> RemoveDialog("RemoveMember"),
                role |-> With(CallButton("UpdateMemberRole"),
                              [guard |-> FALSE])]))

OrgTeamsPanel ==
    Within("OrgDetail",
        Screen({"TeamsByOrg"}, {"TeamsByOrg"}, {"TeamsByOrg"}, NoActs))

OrgList == Screen({"OrgSearch"}, {"OrgSearch"}, {"OrgSearch"}, NoActs)

-----------------------------------------------------------------------------
VenueForm(venue) ==
    Screen({}, {}, {},
           [save |-> RowForm(IF venue = "" THEN "CreateVenue"
                             ELSE "UpdateVenue", "VenueDetail")])
VenueEditPage ==
    Screen({"Venue", "CanManageVenue"}, {"Venue", "CanManageVenue"}, {"Venue"},
           NoActs)

VenueDetail ==
    Screen({"Venue", "Auth", "CanManageVenue"}, {"Venue"}, {"Venue"},
           [submit |-> CallButton("SubmitForReview"),
            status |-> CallButton("UpdateVenueStatus")])

(* Mutant: the mutation of the panel is used.                                *)
DeleteCourtFromPanel == With(Confirm("DeleteVenueCourt"), [how |-> "call"])

(* The question of a court's removal holds the mutation itself.              *)
DeleteCourtDialog == With(Child("DeleteVenueCourt"),
                          [slot |-> "confirm", how |-> "call"])

CourtListPanel ==
    Within("VenueDetail",
        Screen({"VenueCourts"}, {}, {},
               [add |-> AddDialog("CreateVenueCourt"),
                delete |-> DeleteCourtDialog]))

VenueManagersPanel ==
    Within("VenueDetail",
        Screen({"VenueManagers", "PlayerSearch", "Auth"}, {"VenueManagers"}, {},
               [add |-> Inline(AddDialog("AddVenueManager")),
                remove |-> CallButton("RemoveVenueManager"),
                role |-> With(CallButton("UpdateVenueManagerRole"),
                              [guard |-> FALSE])]))

VenueList == Screen({"VenueSearch"}, {"VenueSearch"}, {"VenueSearch"}, NoActs)

-----------------------------------------------------------------------------
CourtEditForm == With(EditChild("UpdateCourt"), [how |-> "call"])

CourtDetail ==
    Screen({"Court", "CourtMatches", "Auth"}, {"Court"}, {"Court"},
           [edit |-> CourtEditForm])

PublicCourtDetail ==
    Screen({"Court", "CourtMatches"}, {"Court"}, {"Court"}, NoActs)

CourtList ==
    Screen({"FloatingCourts"}, {"FloatingCourts"}, {"FloatingCourts"}, NoActs)

RegistryScreens == [
    PlayerForm |-> PlayerForm, PlayerList |-> PlayerList,
    PlayerDetail |-> PlayerDetail, TeamCreate |-> TeamForm(""),
    TeamEditPage |-> TeamEditPage,
    TeamEdit |-> Within("TeamEditPage", TeamForm("team")),
    TeamDetail |-> TeamDetail, RosterPanel |-> RosterPanel,
    TeamList |-> TeamList,
    OrgCreate |-> OrgForm(""), OrgEditPage |-> OrgEditPage,
    OrgEdit |-> Within("OrgEditPage", OrgForm("org")),
    OrgDetail |-> OrgDetail, MembersPanel |-> MembersPanel,
    OrgTeamsPanel |-> OrgTeamsPanel, OrgList |-> OrgList,
    VenueCreate |-> VenueForm(""), VenueEditPage |-> VenueEditPage,
    VenueEdit |-> Within("VenueEditPage", VenueForm("venue")),
    VenueDetail |-> VenueDetail, CourtListPanel |-> CourtListPanel,
    VenueManagersPanel |-> VenueManagersPanel, VenueList |-> VenueList,
    CourtDetail |-> CourtDetail, PublicCourtDetail |-> PublicCourtDetail,
    CourtList |-> CourtList]
=============================================================================
