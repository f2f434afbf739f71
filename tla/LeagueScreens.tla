----------------------------- MODULE LeagueScreens -----------------------------
(* The components of leagues and their seasons.                              *)
EXTENDS ScreenKit

(* A league's page: what it waits for hides every tab, and so does its error. *)
LeagueDetail ==
    Screen({"GetLeague", "ListSeasons", "ListDivisionTemplates",
            "ListLeagueRegistrations"},
           {"GetLeague"}, {"GetLeague"}, NoActs)

LeagueOverview ==
    Within("LeagueDetail",
        Screen({"ListSeasons", "ListLeagueRegistrations"}, {}, {},
               [status |-> Button("UpdateLeagueStatus"),
                delete |-> With(Confirm("DeleteLeague"),
                                [done |-> "leave", to |-> "LeagueList"])]))

(* The form is mounted with the dialog; its answer closes the dialog of the   *)
(* list, whichever opening that is then.                                     *)
SeasonForm(season) == IF season = "" THEN Child("CreateSeason")
                      ELSE EditChild("UpdateSeason")

SeasonList ==
    Within("LeagueDetail",
        Screen({"ListSeasons"}, {}, {}, [create |-> SeasonForm("")]))

DivisionTemplateForm(template) ==
    IF template = ""
    THEN With(Child("CreateDivisionTemplate"), [slot |-> "create"])
    ELSE With(EditChild("UpdateDivisionTemplate"), [slot |-> "edit"])

DivisionTemplateList ==
    Within("LeagueDetail",
        Screen({"ListDivisionTemplates"}, {}, {},
               [create |-> DivisionTemplateForm(""),
                edit |-> DivisionTemplateForm("template"),
                delete |-> Confirm("DeleteDivisionTemplate")]))

(* One slot remembers the row whose buttons are disabled: a click on another *)
(* row frees the first while its request is under way.                       *)
LeagueRegistrations ==
    Within("LeagueDetail",
        Screen({"ListLeagueRegistrations"}, {"ListLeagueRegistrations"},
               {"ListLeagueRegistrations"},
               [status |-> With(Button("UpdateLeagueRegistrationStatus"),
                                [guard |-> FALSE])]))

(* One composer for new and old announcements: resetForm closes it after     *)
(* either answer, and an edit may begin over a draft.                        *)
LeagueAnnouncementFeed ==
    Within("LeagueDetail",
        Screen({"ListLeagueAnnouncements"}, {}, {},
               [create |-> Composer(Panel("CreateLeagueAnnouncement")),
                edit |-> Composer(EditPanel("UpdateAnnouncement")),
                delete |-> Confirm("DeleteAnnouncement")]))

LeagueCreate ==
    Screen({}, {}, {}, [create |-> PageForm("CreateLeague", "LeagueDetail")])

LeagueList == Screen({"ListLeagues"}, {"ListLeagues"}, {"ListLeagues"}, NoActs)

SeasonDetail ==
    Screen({"GetSeason", "ListTournamentsBySeason", "ListSeasonConfirmations"},
           {"GetSeason"}, {"GetSeason"},
           [edit |-> SeasonForm("season"),
            status |-> Button("UpdateSeasonStatus")])

StandingsView ==
    Within("SeasonDetail",
        Screen({"ListStandingsBySeason"}, {"ListStandingsBySeason"},
               {"ListStandingsBySeason"},
               [recompute |-> Button("RecomputeStandings")]))

LeagueScreens == [
    LeagueDetail |-> LeagueDetail, LeagueOverview |-> LeagueOverview,
    SeasonList |-> SeasonList, DivisionTemplateList |-> DivisionTemplateList,
    LeagueRegistrations |-> LeagueRegistrations,
    LeagueAnnouncementFeed |-> LeagueAnnouncementFeed,
    LeagueCreate |-> LeagueCreate, LeagueList |-> LeagueList,
    SeasonDetail |-> SeasonDetail, StandingsView |-> StandingsView]
=============================================================================
