---------------------------- MODULE OverlayScreens ----------------------------
(* The pages around the broadcast overlay: source profiles, the producer's   *)
(* monitor and the kiosks.  Its control panel is the module OverlayControl.  *)
EXTENDS ScreenKit

SourceProfileList ==
    Screen({"SourceProfiles"}, {"SourceProfiles"}, {"SourceProfiles"},
           [delete |-> Confirm("DeleteSourceProfile")])

(* The editor of an old profile is mounted with the profile, and unmounted   *)
(* when a refetch of it fails.                                               *)
SourceProfileEditor ==
    Screen({"SourceProfile"}, {"SourceProfile"}, {"SourceProfile"}, NoActs)

EditorForm(profile) ==
    Screen({}, {}, {},
           [save |-> PageForm(IF profile = "" THEN "CreateSourceProfile"
                              ELSE "UpdateSourceProfile",
                              "SourceProfileList"),
            test |-> Button("TestSourceProfileConnection")])

OverlayLanding == Screen({"AllCourts"}, {"AllCourts"}, {}, NoActs)

ProducerMonitor ==
    Screen({"AllCourts", "CourtsForTournament", "ListTournaments"}, {}, {},
           NoActs)

(* A kiosk rotates through slides of a tournament; nobody touches it.        *)
TVKioskBracket ==
    Screen({"GetTournament", "ListDivisions", "CourtsForTournament"},
           {"GetTournament", "ListDivisions"}, {"GetTournament"}, NoActs)
DivisionSlide ==
    Within("TVKioskBracket",
           Screen({"ListBracketMatches"}, {"ListBracketMatches"}, {}, NoActs))
TVKioskCourt ==
    Screen({"OverlayDataBySlug", "OverlayData"},
           {"OverlayDataBySlug", "OverlayData"}, {"OverlayDataBySlug"}, NoActs)

OverlayRenderer ==
    Screen({"OverlayDataBySlug", "OverlayData", "OverlayConfig"},
           {"OverlayDataBySlug", "OverlayData", "OverlayConfig"},
           {"OverlayDataBySlug", "OverlayData"}, NoActs)

OverlayScreens == [
    SourceProfileList |-> SourceProfileList,
    SourceProfileEditor |-> SourceProfileEditor,
    ProfileCreate |-> EditorForm(""),
    ProfileEdit |-> Within("SourceProfileEditor", EditorForm("profile")),
    OverlayLanding |-> OverlayLanding, ProducerMonitor |-> ProducerMonitor,
    TVKioskBracket |-> TVKioskBracket, DivisionSlide |-> DivisionSlide,
    TVKioskCourt |-> TVKioskCourt, OverlayRenderer |-> OverlayRenderer]
=============================================================================
