----------------------------- MODULE PublicScreens -----------------------------
(* The pages that anybody may see, and those where one finds one's own       *)
(* matches and events.                                                       *)
EXTENDS ScreenKit

(* A page, or part of one, that waits for a query and shows its error.       *)
Display(queries) == Screen(queries, queries, queries, NoActs)

EventsTournaments == Display({"PublicTournaments"})
EventsLeagues == Display({"PublicLeagues"})
TournamentDirectory == Display({"PublicTournaments"})
LeagueDirectory == Display({"PublicLeagues"})
VenueDirectory == Display({"PublicVenues"})
LivePage == Display({"LiveMatches"})
TournamentCards == Display({"PublicTournaments"})
LeagueCards == Display({"PublicLeagues"})
VenueCards == Display({"PublicVenues"})
PublicHero == Screen({"Auth"}, {"Auth"}, {}, NoActs)

(* The tabs of a public page wait for queries of their own.                  *)
PublicTournamentDetail ==
    Screen({"PublicTournamentBySlug", "PublicTournamentDivisions",
            "PublicTournamentMatches", "PublicTournamentCourts", "Auth"},
           {"PublicTournamentBySlug"}, {"PublicTournamentBySlug"}, NoActs)
Tab(page, query) == Within(page, Screen({query}, {query}, {}, NoActs))
PublicDivisionsTab == Tab("PublicTournamentDetail", "PublicTournamentDivisions")
PublicScheduleTab == Tab("PublicTournamentDetail", "PublicTournamentMatches")
PublicCourtsTab == Tab("PublicTournamentDetail", "PublicTournamentCourts")

PublicLeagueDetail ==
    Screen({"PublicLeagueBySlug", "PublicLeagueSeasons",
            "PublicLeagueTournaments"},
           {"PublicLeagueBySlug"}, {"PublicLeagueBySlug"}, NoActs)
PublicSeasonsTab == Tab("PublicLeagueDetail", "PublicLeagueSeasons")
PublicTournamentsTab == Tab("PublicLeagueDetail", "PublicLeagueTournaments")

PublicVenueDetail ==
    Screen({"PublicVenueBySlug", "PublicVenueCourts"},
           {"PublicVenueBySlug"}, {"PublicVenueBySlug"}, NoActs)
PublicVenueCourtsTab == Tab("PublicVenueDetail", "PublicVenueCourts")

-----------------------------------------------------------------------------
PlayerDashboard == Screen({"Auth", "Dashboard"}, {"Dashboard"}, {"Dashboard"},
                          NoActs)

VenuesSection == Display({"MyVenues"})
TournamentsSection == Display({"MyTournaments"})
LeaguesSection == Display({"MyLeagues"})
OrgsSection == Display({"MyOrgs"})

(* Mutants: the fields follow the match, or are filled when the page is.     *)
ScoreOverrideFollows ==
    With(EditPanel("OverrideScore"),
         [home |-> "child", how |-> "call", seed |-> "sync"])

ScoreOverrideFilledOnce ==
    With(EditPanel("OverrideScore"),
         [home |-> "child", how |-> "call", seed |-> "kept"])

(* The admin's override of a score is refilled from the match whenever it is *)
(* opened, and only then; the mutation stays with the page.                  *)
ScoreOverrideModal ==
    With(EditPanel("OverrideScore"), [home |-> "child", how |-> "call"])

MatchDetail ==
    Screen({"Match", "MatchEvents", "Auth"}, {"Match"}, {"Match"},
           [override |-> ScoreOverrideModal])

MatchScoreboardPage == Display({"Match"})
MatchSeriesDetail == Display({"MatchSeries"})

QuickMatchCreate ==
    Screen({}, {}, {},
           [create |-> With(PageForm("CreateQuickMatch", "MatchDetail"),
                            [how |-> "call"])])
QuickMatchList == Display({"MyQuickMatches"})

SearchModal == Screen({"GlobalSearch"}, {}, {}, NoActs)

RefHome ==
    Screen({"AllCourts", "MyTournamentAssignment", "CourtsForTournament",
            "Auth"}, {"AllCourts"}, {"AllCourts"}, NoActs)
RefCourtView == Display({"CourtMatches"})
ScorekeeperHome == Display({"AllCourts"})

-----------------------------------------------------------------------------
AuthGuard == Screen({"Auth"}, {"Auth"}, {}, NoActs)

LoginPage ==
    Screen({}, {}, {}, [login |-> PageForm("Login", "PlayerDashboard")])
RegisterPage ==
    Screen({}, {}, {}, [register |-> PageForm("Register", "PublicHero")])

(* The sidebar stays when its user is gone, and nothing disables the button. *)
AuthenticatedLayout ==
    Layout(Screen({"Auth"}, {}, {},
                  [logout |-> With(Button("Logout"),
                                   [guard |-> FALSE, how |-> "call"])]))

PublicScreens == [
    EventsTournaments |-> EventsTournaments, EventsLeagues |-> EventsLeagues,
    TournamentDirectory |-> TournamentDirectory,
    LeagueDirectory |-> LeagueDirectory, VenueDirectory |-> VenueDirectory,
    LivePage |-> LivePage, TournamentCards |-> TournamentCards,
    LeagueCards |-> LeagueCards, VenueCards |-> VenueCards,
    PublicHero |-> PublicHero,
    PublicTournamentDetail |-> PublicTournamentDetail,
    PublicDivisionsTab |-> PublicDivisionsTab,
    PublicScheduleTab |-> PublicScheduleTab,
    PublicCourtsTab |-> PublicCourtsTab,
    PublicLeagueDetail |-> PublicLeagueDetail,
    PublicSeasonsTab |-> PublicSeasonsTab,
    PublicTournamentsTab |-> PublicTournamentsTab,
    PublicVenueDetail |-> PublicVenueDetail,
    PublicVenueCourtsTab |-> PublicVenueCourtsTab,
    PlayerDashboard |-> PlayerDashboard, VenuesSection |-> VenuesSection,
    TournamentsSection |-> TournamentsSection,
    LeaguesSection |-> LeaguesSection,
    OrgsSection |-> OrgsSection, MatchDetail |-> MatchDetail,
    MatchScoreboardPage |-> MatchScoreboardPage,
    MatchSeriesDetail |-> MatchSeriesDetail,
    QuickMatchCreate |-> QuickMatchCreate, QuickMatchList |-> QuickMatchList,
    SearchModal |-> SearchModal, RefHome |-> RefHome,
    RefCourtView |-> RefCourtView, ScorekeeperHome |-> ScorekeeperHome,
    AuthGuard |-> AuthGuard, LoginPage |-> LoginPage,
    RegisterPage |-> RegisterPage, AuthenticatedLayout |-> AuthenticatedLayout]
=============================================================================
