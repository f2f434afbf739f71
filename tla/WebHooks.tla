------------------------------- MODULE WebHooks -------------------------------
(***************************************************************************)
(* The hooks of the web client: each query with its key and the tables     *)
(* that its endpoint reads, each mutation with the tables that it writes   *)
(* and what its onSuccess does to the cache.  A table's plural stands for  *)
(* lists of its rows and the singular for a single row: to create or to    *)
(* delete a row changes lists only.  An id in a key is a token;            *)
(* pages, filters and search words are left out of the keys, where they    *)
(* come last and no mutation names them.                                   *)
(***************************************************************************)
EXTENDS ScreenKit, SequencesExt

Tid == <<"tournaments", "tid">>
Did == <<"divisions", "did">>
Cfg == <<"overlay", "config", "cid">>

TournamentHooks == [
    ListTournaments |-> Query(<<"tournaments", "list">>, {"tournaments"}),
    GetTournament |-> Query(Tid, {"tournament"}),
    CreateTournament |-> Mutation({"tournaments"}, {<<"tournaments">>}),
    UpdateTournament |->
        Mutation({"tournaments", "tournament"}, {<<"tournaments">>}),
    DeleteTournament |-> Mutation({"tournaments"}, {<<"tournaments">>}),
    UpdateTournamentStatus |->
        Mutation({"tournaments", "tournament"}, {<<"tournaments">>}),
    CloneTournament |-> Mutation({"tournaments"}, {<<"tournaments">>})]

DivisionHooks == [
    ListDivisions |-> Query(Tid \o <<"divisions">>, {"divisions"}),
    GetDivision |-> Query(Tid \o <<"divisions", "did">>, {"division"}),
    CreateDivision |-> Mutation({"divisions"}, {Tid \o <<"divisions">>}),
    UpdateDivision |->
        Mutation({"divisions", "division"}, {Tid \o <<"divisions">>}),
    DeleteDivision |-> Mutation({"divisions"}, {Tid \o <<"divisions">>}),
    UpdateDivisionStatus |->
        Mutation({"divisions", "division"}, {Tid \o <<"divisions">>})]

RegistrationHooks ==
    LET key == Did \o <<"registrations">>
        Changes == Mutation({"registrations"}, {key})
    IN [ListRegistrations |-> Query(key, {"registrations"}),
        CreateRegistration |-> Changes,
        UpdateRegistrationStatus |-> Changes,
        UpdateRegistrationSeed |-> Changes,
        CheckInRegistration |-> Changes,
        BulkNoShow |-> Changes,
        WithdrawMidTournament |-> Changes,
        UpdateAdminNotes |-> Changes]

PodHooks ==
    LET key == Did \o <<"pods">>
    IN [ListPods |-> Query(key, {"pods"}),
        CreatePod |-> Mutation({"pods"}, {key}),
        UpdatePod |-> Mutation({"pods"}, {key}),
        DeletePod |-> Mutation({"pods"}, {key})]

(* The hooks that change and delete an announcement are those of tournaments *)
(* also where a league's announcements are shown.                            *)
AnnouncementHooks == [
    ListTournamentAnnouncements |->
        Query(Tid \o <<"announcements">>, {"tournament_news"}),
    CreateTournamentAnnouncement |->
        Mutation({"tournament_news"}, {Tid \o <<"announcements">>}),
    UpdateAnnouncement |->
        Mutation({"tournament_news", "league_news"}, {<<"tournaments">>}),
    DeleteAnnouncement |->
        Mutation({"tournament_news", "league_news"}, {<<"tournaments">>})]

(* New matches have no court yet.                                            *)
BracketHooks == [
    GenerateBracket |-> Mutation({"brackets"}, {Did \o <<"matches">>}),
    ListBracketMatches |-> Query(Did \o <<"matches">>, {"matches", "brackets"}),
    ListScoringPresets |-> Query(<<"scoring-presets">>, {"presets"})]

LeaguePickerHooks == [
    SearchLeagues |-> Query(<<"leagues", "search">>, {"leagues"}),
    LeagueSeasons |-> Query(<<"leagues", "lid", "seasons">>, {"seasons"})]

TournamentCourtHooks ==
    LET Changes == Mutation({"tournament_courts"}, {Tid \o <<"courts">>})
    IN [AssignCourtToTournament |-> Changes,
        CreateTempTournamentCourt |-> Changes,
        UnassignCourtFromTournament |-> Changes]

StaffHooks == [
    TournamentStaff |-> Query(Tid \o <<"staff">>, {"staff", "passwords"}),
    RegenerateStaffPassword |-> Mutation({"passwords"}, {Tid \o <<"staff">>})]

LeagueHooks == [
    ListLeagues |-> Query(<<"leagues", "list">>, {"leagues"}),
    GetLeague |-> Query(<<"leagues", "detail", "lid">>, {"league"}),
    CreateLeague |-> Mutation({"leagues"}, {<<"leagues">>}),
    UpdateLeague |-> Mutation({"leagues", "league"}, {<<"leagues">>}),
    DeleteLeague |-> Mutation({"leagues"}, {<<"leagues">>}),
    UpdateLeagueStatus |-> Mutation({"leagues", "league"}, {<<"leagues">>})]

SeasonHooks == [
    ListSeasons |-> Query(<<"seasons", "list", "lid">>, {"seasons"}),
    GetSeason |-> Query(<<"seasons", "detail", "lid", "sid">>, {"season"}),
    CreateSeason |-> Mutation({"seasons"}, {<<"seasons">>}),
    UpdateSeason |-> Mutation({"seasons", "season"}, {<<"seasons">>}),
    DeleteSeason |-> Mutation({"seasons"}, {<<"seasons">>}),
    UpdateSeasonStatus |-> Mutation({"seasons", "season"}, {<<"seasons">>})]

(* Mutant: the key that is invalidated is misspelt.                          *)
TemplateHooksMisspelt ==
    LET root == <<"division-templates">>
        Changes == Mutation({"templates"}, {<<"templates">>})
    IN [ListDivisionTemplates |->
            Query(root \o <<"list", "lid">>, {"templates"}),
        CreateDivisionTemplate |-> Changes,
        UpdateDivisionTemplate |-> Changes,
        DeleteDivisionTemplate |-> Changes]

TemplateHooks ==
    LET root == <<"division-templates">>
        Changes == Mutation({"templates"}, {root})
    IN [ListDivisionTemplates |->
            Query(root \o <<"list", "lid">>, {"templates"}),
        CreateDivisionTemplate |-> Changes,
        UpdateDivisionTemplate |-> Changes,
        DeleteDivisionTemplate |-> Changes]

LeagueRegistrationHooks ==
    LET root == <<"league-registrations">>
        Changes == Mutation({"league_registrations"}, {root})
    IN [ListLeagueRegistrations |->
            Query(root \o <<"list", "lid">>, {"league_registrations"}),
        CreateLeagueRegistration |-> Changes,
        UpdateLeagueRegistrationStatus |-> Changes]

SeasonConfirmationHooks == [
    ListSeasonConfirmations |->
        Query(<<"season-confirmations", "list", "lid", "sid">>,
              {"confirmations"}),
    ConfirmSeason |->
        Mutation({"confirmations"}, {<<"season-confirmations">>})]

LeagueAnnouncementHooks == [
    ListLeagueAnnouncements |->
        Query(<<"announcements", "league", "lid">>, {"league_news"}),
    CreateLeagueAnnouncement |->
        Mutation({"league_news"}, {<<"announcements">>})]

StandingsHooks == [
    ListStandingsBySeason |->
        Query(<<"standings", "season", "sid">>, {"standings"}),
    ListStandingsByDivision |->
        Query(<<"standings", "division", "sid", "did">>, {"standings"}),
    RecomputeStandings |-> Mutation({"standings"}, {<<"standings">>}),
    ListTournamentsBySeason |->
        Query(<<"tournaments", "by-season", "sid">>, {"tournaments"})]

OverlayQueryHooks == [
    OverlayConfig |-> Query(Cfg, {"overlay_config"}),
    OverlayData |-> Query(<<"overlay", "data", "cid">>,
                          {"overlay_config", "matches"}),
    OverlayDataBySlug |-> Query(<<"overlay", "resolve", "slug">>, {"court"}),
    Themes |-> Query(<<"overlay", "themes">>, {"themes"}),
    Theme |-> Query(<<"overlay", "theme", "themeID">>, {"themes"}),
    DemoData |-> Query(<<"overlay", "demo">>, {"demo"})]

(* The answer is the row, which replaces the cached one; what the overlay    *)
(* shows of it is fetched only after overrides and the binding.              *)
OverlayConfigHooks ==
    LET Sets(more) == Setting({"overlay_config"}, {Cfg}, more)
        data == {<<"overlay", "data", "cid">>}
    IN [UpdateTheme |-> Sets({}),
        UpdateElements |-> Sets({}),
        UpdateDataOverrides |-> Sets(data),
        ClearDataOverrides |-> Sets(data),
        UpdateSourceProfileBinding |-> Sets(data),
        GenerateOverlayToken |-> Sets({}),
        RevokeOverlayToken |-> Sets({})]

SourceProfileHooks ==
    LET root == <<"source-profiles">>
        row == <<"source-profiles", "pid">>
        Changes == Setting({"profiles", "profile"}, {row}, {root})
    IN [SourceProfiles |-> Query(root, {"profiles"}),
        SourceProfile |-> Query(row, {"profile"}),
        CreateSourceProfile |-> Setting({"profiles"}, {row}, {root}),
        UpdateSourceProfile |-> Changes,
        DeactivateSourceProfile |-> Changes,
        DeleteSourceProfile |-> Mutation({"profiles"}, {root}),
        TestSourceProfileConnection |-> Mutation({}, {})]

PublicDirectoryHooks == [
    PublicTournaments |-> Query(<<"public-tournaments">>, {"tournaments"}),
    PublicTournamentBySlug |->
        Query(<<"public-tournament", "slug">>, {"tournament"}),
    PublicLeagues |-> Query(<<"public-leagues">>, {"leagues"}),
    PublicLeagueBySlug |-> Query(<<"public-league", "slug">>, {"league"}),
    PublicVenues |-> Query(<<"public-venues">>, {"venues"}),
    PublicVenueBySlug |-> Query(<<"public-venue", "slug">>, {"venue"})]

LiveMatchHooks == [
    LiveMatches |-> [Query(<<"public-live-matches">>, {"matches"})
                     EXCEPT !.poll = TRUE]]

PublicTournamentHooks == [
    PublicTournamentDivisions |->
        Query(<<"public-tournament-divisions", "slug">>, {"divisions"}),
    PublicTournamentMatches |->
        Query(<<"public-tournament-matches", "slug">>,
              {"matches", "brackets"}),
    PublicTournamentCourts |->
        Query(<<"public-tournament-courts", "slug">>,
              {"tournament_courts", "matches"})]

PublicLeagueHooks == [
    PublicLeagueSeasons |->
        Query(<<"public-league-seasons", "slug">>, {"seasons"}),
    PublicLeagueTournaments |->
        Query(<<"public-league-tournaments", "slug">>, {"tournaments"}),
    PublicVenueCourts |->
        Query(<<"public-venue-courts", "slug">>, {"venue_courts", "matches"})]

ScoringQueryHooks == [
    Match |-> Query(<<"matches", "mid">>, {"match"}),
    AllCourts |-> Query(<<"courts", "all">>,
                       {"floating_courts", "venue_courts", "matches"}),
    MatchEvents |-> Query(<<"match-events", "mid">>, {"events"}),
    CourtMatches |-> Query(<<"courts", "cid", "matches">>, {"matches"}),
    CourtsForTournament |-> Query(Tid \o <<"courts">>,
                                  {"tournament_courts", "matches"}),
    MatchSeries |-> Query(<<"match-series", "seriesid">>,
                          {"series", "matches"})]

AssignMatchHooks == [
    AssignMatchToCourt |->
        Mutation({"matches", "match"},
                 {<<"divisions">>, <<"matches">>, Tid \o <<"courts">>})]

(* applyResult: the match of the answer replaces the cached one, and the log *)
(* of events is fetched again.                                               *)
ScoringCallHooks ==
    LET ApplyResult ==
            Setting({"matches", "match", "events", "quick_matches"},
                    {<<"matches", "mid">>}, {<<"match-events", "mid">>})
    IN [StartMatch |-> ApplyResult, ScorePoint |-> ApplyResult,
        SideOut |-> ApplyResult, Undo |-> ApplyResult,
        RemovePoint |-> ApplyResult, ConfirmGameOver |-> ApplyResult,
        ConfirmMatchOver |-> ApplyResult, CallTimeout |-> ApplyResult,
        PauseMatch |-> ApplyResult, ResumeMatch |-> ApplyResult,
        DeclareForfeit |-> ApplyResult, OverrideScore |-> ApplyResult]

AssignmentHooks == [
    MyTournamentAssignment |->
        Query(<<"auth", "tournament-staff">>, {"session", "staff"})]

(* Courts are listed by themselves, at their venue and in tournaments.       *)
AnyCourt == {"floating_courts", "venue_courts", "tournament_courts"}

CourtHooks == [
    FloatingCourts |-> Query(<<"courts", "floating">>, {"floating_courts"}),
    Court |-> Query(<<"courts", "cid">>, {"court"}),
    CreateFloatingCourt |-> Mutation({"floating_courts"}, {<<"courts">>}),
    UpdateCourt |-> Mutation(AnyCourt \cup {"court"}, {<<"courts">>}),
    DeleteCourt |-> Mutation(AnyCourt, {<<"courts">>})]

OrgHooks ==
    LET root == <<"organizations">>
    IN [OrgSearch |-> Query(root \o <<"search">>, {"orgs"}),
        Org |-> Query(root \o <<"oid">>, {"org"}),
        CreateOrg |-> Mutation({"orgs"}, {root}),
        UpdateOrg |-> Mutation({"orgs", "org"}, {root}),
        DeleteOrg |-> Mutation({"orgs"}, {root})]

MemberHooks ==
    LET root == <<"organizations", "oid">>
        key == root \o <<"members">>
    IN [OrgMembers |-> Query(key, {"members"}),
        AddMember |-> Mutation({"members"}, {key}),
        RemoveMember |-> Mutation({"members"}, {key}),
        UpdateMemberRole |-> Mutation({"members"}, {key}),
        LeaveOrg |-> Mutation({"members"}, {<<"organizations">>}),
        OrgBlockStatus |-> Query(root \o <<"block-status">>, {"blocks"}),
        MyOrgRole |-> Query(root \o <<"my-role">>, {"members"}),
        BlockOrg |-> Mutation({"blocks"}, {<<"organizations">>}),
        UnblockOrg |-> Mutation({"blocks"}, {<<"organizations">>})]

PlayerHooks == [
    PlayerSearch |-> Query(<<"players", "search">>, {"players"}),
    Player |-> Query(<<"players", "pid">>, {"player"}),
    MyProfile |-> Query(<<"players", "me">>, {"player"}),
    UpdateProfile |-> Mutation({"players", "player"}, {<<"players">>}),
    AcceptWaiver |-> Mutation({"players", "player"}, {<<"players">>})]

TeamHooks == [
    TeamSearch |-> Query(<<"teams", "search">>, {"teams"}),
    Team |-> Query(<<"teams", "teamid">>, {"team"}),
    CreateTeam |-> Mutation({"teams"}, {<<"teams">>}),
    UpdateTeam |-> Mutation({"teams", "team"}, {<<"teams">>}),
    DeleteTeam |-> Mutation({"teams"}, {<<"teams">>}),
    TeamsByOrg |-> Query(<<"teams", "by-org", "oid">>, {"teams"})]

RosterHooks ==
    LET key == <<"teams", "teamid", "roster">>
    IN [TeamRoster |-> Query(key, {"rosters"}),
        AddPlayerToRoster |-> Mutation({"rosters"}, {key}),
        RemovePlayerFromRoster |-> Mutation({"rosters"}, {key})]

VenueHooks ==
    LET root == <<"venues">>
        Changes == Mutation({"venues", "venue"}, {root})
    IN [VenueSearch |-> Query(root \o <<"search">>, {"venues"}),
        Venue |-> Query(root \o <<"vid">>, {"venue"}),
        CreateVenue |-> Mutation({"venues"}, {root}),
        DeleteVenue |-> Mutation({"venues"}, {root}), UpdateVenue |-> Changes,
        SubmitForReview |-> Changes,
        UpdateVenueStatus |-> Changes]

VenueCourtHooks ==
    LET row == <<"venues", "vid">>
        key == row \o <<"courts">>
    IN [VenueCourts |-> Query(key, {"venue_courts"}),
        CreateVenueCourt |-> Mutation({"venue_courts"}, {key, row}),
        UpdateVenueCourt |->
            Mutation({"venue_courts", "tournament_courts", "court"}, {key}),
        DeleteVenueCourt |->
            Mutation({"venue_courts", "tournament_courts"}, {key, row})]

VenueManagerHooks ==
    LET key == <<"venues", "vid", "managers">>
        Changes == Mutation({"managers"}, {key})
    IN [CanManageVenue |->
            Query(<<"venues", "vid", "can-manage">>, {"managers"}),
        VenueManagers |-> Query(key, {"managers"}),
        AddVenueManager |-> Changes,
        RemoveVenueManager |-> Changes,
        UpdateVenueManagerRole |-> Changes]

AdminUserHooks ==
    LET root == <<"admin", "users">>
    IN [AdminStats |-> Query(<<"admin", "stats">>, {"stats"}),
        SearchUsers |-> Query(root, {"users"}),
        AdminUser |-> Query(root \o <<"uid">>, {"user"}),
        UpdateUserRole |-> Mutation({"users", "user"}, {root}),
        UpdateUserStatus |-> Mutation({"users", "user"}, {root})]

AdminVenueHooks == [
    PendingVenues |-> Query(<<"admin", "venues", "pending">>, {"venues"}),
    AdminUpdateVenueStatus |->
        Mutation({"venues", "venue"}, {<<"admin", "venues">>}),
    ActivityLogs |-> Query(<<"admin", "activity">>, {"activity"})]

ApiKeyHooks == [
    ApiKeys |-> Query(<<"admin", "api-keys">>, {"api_keys"}),
    CreateApiKey |-> Mutation({"api_keys"}, {<<"admin", "api-keys">>}),
    RevokeApiKey |-> Mutation({"api_keys"}, {<<"admin", "api-keys">>})]

UploadHooks == [
    MyUploads |-> Query(<<"admin", "uploads">>, {"uploads"}),
    DeleteUpload |-> Mutation({"uploads"}, {<<"admin", "uploads">>})]

ImpersonationHooks == [
    StartImpersonation |-> Mutation({"session"}, {<<"auth", "me">>}),
    StopImpersonation |-> Mutation({"session"}, {<<"auth", "me">>})]

AdHooks == [
    ActiveAds |-> Query(<<"ads", "active">>, {"ads"}),
    AllAds |-> Query(<<"ads", "all">>, {"ads"}),
    CreateAd |-> Mutation({"ads"}, {<<"ads">>}),
    UpdateAd |-> Mutation({"ads"}, {<<"ads">>}),
    DeleteAd |-> Mutation({"ads"}, {<<"ads">>}),
    ToggleAd |-> Mutation({"ads"}, {<<"ads">>})]

(* Logging out clears the whole cache: every query is to be fetched.         *)
AuthHooks == [
    Auth |-> Query(<<"auth", "me">>, {"session"}),
    Login |-> Setting({"session"}, {<<"auth", "me">>}, {}),
    Register |-> Setting({"session", "users"}, {<<"auth", "me">>}, {}),
    Logout |-> Mutation({"session"}, {<<>>})]

MyHooks == [
    Dashboard |-> Query(<<"dashboard">>, {"session", "matches"}),
    MyVenues |-> Query(<<"my-venues">>, {"session", "venues"}),
    MyTournaments |-> Query(<<"my-tournaments">>, {"session", "tournaments"}),
    MyLeagues |-> Query(<<"my-leagues">>, {"session", "leagues"}),
    MyOrgs |-> Query(<<"my-orgs">>, {"session", "orgs"})]

QuickMatchHooks == [
    MyQuickMatches |-> Query(<<"quick-matches">>, {"quick_matches"}),
    CreateQuickMatch |-> Mutation({"quick_matches"}, {<<"quick-matches">>})]

SearchHooks == [
    GlobalSearch |-> Query(<<"search">>, {"players", "teams", "venues"})]

GhostHooks == [
    GhostConfig |-> Query(<<"ghost-config">>, {"settings"}),
    GhostPosts |-> Query(<<"ghost-posts">>, {"ghost"})]

(* Queries and mutations that components define for themselves.              *)
VenuePickerHooks == [
    VenuePickerList |-> Query(<<"venues", "picker">>, {"venues"}),
    VenuePickerChoice |-> Query(<<"venues", "choice">>, {"venue"})]
AdminSettingsHooks == [
    AdminSettings |-> Query(<<"admin-settings">>, {"settings"}),
    UpdateSettings |->
        Mutation({"settings"}, {<<"admin-settings">>, <<"ghost-config">>})]
CleanOrphansHooks == [CleanOrphans |-> Mutation({"uploads"}, {<<"uploads">>})]
CreatePlayerHooks ==
    [CreatePlayer |-> Mutation({"players", "users"}, {<<"players">>})]

Hooks ==
    TournamentHooks @@ DivisionHooks @@ RegistrationHooks @@ PodHooks
    @@ AnnouncementHooks @@ BracketHooks @@ LeaguePickerHooks
    @@ TournamentCourtHooks @@ StaffHooks @@ LeagueHooks @@ SeasonHooks
    @@ TemplateHooks @@ LeagueRegistrationHooks @@ SeasonConfirmationHooks
    @@ LeagueAnnouncementHooks @@ StandingsHooks @@ OverlayQueryHooks
    @@ OverlayConfigHooks @@ SourceProfileHooks @@ PublicDirectoryHooks
    @@ LiveMatchHooks @@ PublicTournamentHooks @@ PublicLeagueHooks
    @@ ScoringQueryHooks @@ AssignMatchHooks @@ ScoringCallHooks
    @@ AssignmentHooks @@ CourtHooks @@ OrgHooks @@ MemberHooks @@ PlayerHooks
    @@ TeamHooks @@ RosterHooks @@ VenueHooks @@ VenueCourtHooks
    @@ VenueManagerHooks @@ AdminUserHooks @@ AdminVenueHooks @@ ApiKeyHooks
    @@ UploadHooks @@ ImpersonationHooks @@ AdHooks @@ AuthHooks @@ MyHooks
    @@ QuickMatchHooks @@ SearchHooks @@ GhostHooks @@ VenuePickerHooks
    @@ AdminSettingsHooks @@ CleanOrphansHooks @@ CreatePlayerHooks

QueryNames == {h \in DOMAIN Hooks : Hooks[h].query}
MutationNames == DOMAIN Hooks \ QueryNames
PolledQueries == {q \in QueryNames : Hooks[q].poll}

(* Which queries a mutation's commit changes, and which its onSuccess        *)
(* invalidates (a key or a prefix of it) or replaces (the very key).         *)
AffectsOf ==
    [m \in MutationNames |->
        {q \in QueryNames : Hooks[q].reads \cap Hooks[m].writes # {}}]
RefreshesOf ==
    [m \in MutationNames |->
        {q \in QueryNames : \E k \in Hooks[m].invalidates :
                               IsPrefix(k, Hooks[q].key)}]
ReplacesOf ==
    [m \in MutationNames |->
        {q \in QueryNames : Hooks[q].key \in Hooks[m].sets}]
=============================================================================
