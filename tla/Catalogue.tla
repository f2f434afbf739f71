------------------------------- MODULE Catalogue -------------------------------
(* All the screens, and what they are known to do amiss.                     *)
EXTENDS WebHooks, LeagueScreens, TournamentScreens, RegistryScreens,
        AdminScreens, PublicScreens, OverlayScreens

Screenful == LeagueScreens @@ TournamentScreens @@ RegistryScreens
             @@ AdminScreens @@ PublicScreens @@ OverlayScreens

(* Queries that no mutation names but the logout, which clears the cache:    *)
(* they show what the user did when they are fetched for another reason.     *)
NeverNamed == {
    "PublicTournaments", "PublicTournamentBySlug", "PublicLeagues",
    "PublicLeagueBySlug", "PublicVenues", "PublicVenueBySlug", "LiveMatches",
    "PublicTournamentDivisions", "PublicTournamentMatches",
    "PublicTournamentCourts", "PublicLeagueSeasons", "PublicLeagueTournaments",
    "PublicVenueCourts", "Dashboard", "MyVenues", "MyTournaments", "MyLeagues",
    "MyOrgs", "MyTournamentAssignment", "MatchSeries", "GlobalSearch",
    "OverlayDataBySlug"}

VenueChanges == {"CreateVenue", "UpdateVenue", "SubmitForReview",
                 "UpdateVenueStatus", "DeleteVenue"}

(* Mutations and queries that they change without refetching them: no key    *)
(* names the query, the key is misspelt (CleanOrphans), or it is that of     *)
(* tournaments (announcements of a league).                                  *)
KnownGaps ==
    (MutationNames \ {"Logout"}) \X NeverNamed
    \cup {"UpdateAnnouncement", "DeleteAnnouncement"}
             \X {"ListLeagueAnnouncements"}
    \cup {"AddMember", "RemoveMember", "UpdateMemberRole"} \X {"MyOrgRole"}
    \cup {"AddVenueManager", "RemoveVenueManager", "UpdateVenueManagerRole"}
             \X {"CanManageVenue"}
    \cup VenueChanges \X {"PendingVenues"}
    \cup {"AdminUpdateVenueStatus"} \X {"Venue", "VenueSearch"}
    \cup {"UpdateCourt"} \X {"VenueCourts", "CourtsForTournament"}
    \cup {"CreateVenueCourt", "UpdateVenueCourt", "DeleteVenueCourt"}
             \X {"AllCourts", "CourtsForTournament"}
    \cup {"AssignMatchToCourt"} \X {"AllCourts", "CourtMatches", "OverlayData"}
    \cup (DOMAIN ScoringCallHooks)
             \X {"AllCourts", "CourtMatches", "CourtsForTournament",
                 "ListBracketMatches", "OverlayData", "MyQuickMatches"}
    \cup {"Register", "CreatePlayer"} \X {"SearchUsers"}
    \cup {"CleanOrphans"} \X {"MyUploads"}

(* Forms that await the answer and then open another page, even when the     *)
(* user has gone elsewhere meanwhile.                                        *)
Wandering == {
    <<"LeagueCreate", "create">>, <<"LeagueOverview", "delete">>,
    <<"TournamentOverview", "clone">>, <<"TournamentSettings", "delete">>,
    <<"DivisionOverview", "delete">>, <<"LoginPage", "login">>,
    <<"RegisterPage", "register">>, <<"ProfileCreate", "save">>,
    <<"ProfileEdit", "save">>}

(* Dialogs that can be closed and opened again while a request is under way  *)
(* and that its answer then closes, with what has been typed.                *)
Intrusive ==
    {"AnnouncementFeed", "LeagueAnnouncementFeed", "DivisionTemplateList",
     "AdManager"} \X {"create", "edit", "delete"}
    \cup {"MembersPanel", "RosterPanel"} \X {"add", "remove"}
    \cup {"TournamentOverview"} \X {"archive", "cancel"}
    \cup {"OrgDetail"} \X {"block", "unblock"}
    \cup {"VenueApproval"} \X {"archive", "reject"}
    \cup {"DivisionRegistrations"} \X {"add", "noShow"}
    \cup {"SeasonList", "DivisionList", "TournamentCourts", "PlayerList"}
             \X {"create"}
    \cup {"SeasonDetail", "DivisionOverview"} \X {"edit"}
    \cup {"CourtListPanel", "VenueManagersPanel"} \X {"add"}
    \cup {"UploadBrowser", "SourceProfileList"} \X {"delete"}
    \cup {<<"ApiKeyManager", "revoke">>, <<"MatchDetail", "override">>,
          <<"UserDetail", "status">>, <<"UserSearch", "suspend">>}

(* Buttons and fields that are not disabled while their request is under way. *)
Unguarded == {
    <<"LeagueRegistrations", "status">>, <<"TournamentCourts", "unassign">>,
    <<"MembersPanel", "role">>, <<"VenueManagersPanel", "role">>,
    <<"AdManager", "toggle">>, <<"AuthenticatedLayout", "logout">>}

(* Screens where a failed refetch unmounts a form, or where a refetch fills  *)
(* its fields anew (AdminSettings).                                          *)
Fragile == {
    "AdManager", "AdminSettings", "AnnouncementFeed", "CourtDetail",
    "CourtListPanel", "DivisionOverview", "SeasonDetail", "TournamentOverview",
    "TournamentSettings"}

(* Screens with a dialog that opens with what was typed before it was closed. *)
Leftovers == {
    "AdManager", "CourtListPanel", "MembersPanel", "PlayerList",
    "RosterPanel", "TournamentCourts", "TournamentOverview",
    "VenueManagersPanel"}
=============================================================================
