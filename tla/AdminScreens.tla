----------------------------- MODULE AdminScreens -----------------------------
(* The administration: users, venues to approve, ads, keys and uploads.      *)
EXTENDS ScreenKit

Called(act) == With(act, [how |-> "call"])

(* Nothing of the administration is rendered before the user is known.       *)
AdminGuard == Screen({"Auth"}, {"Auth"}, {}, NoActs)

AdminDashboard ==
    Screen({"AdminStats"}, {"AdminStats"}, {"AdminStats"}, NoActs)

ActivityLog ==
    Screen({"ActivityLogs"}, {"ActivityLogs"}, {"ActivityLogs"}, NoActs)

(* The modal for a new ad is always mounted, open or not: closed, and even   *)
(* after its ad was created, it keeps what was typed.  That of an old ad is  *)
(* mounted with the ad.                                                      *)
AdFormModal(ad) ==
    IF ad = ""
    THEN With(Panel("CreateAd"),
              [slot |-> "create", home |-> "child", seed |-> "kept"])
    ELSE With(EditChild("UpdateAd"), [slot |-> "edit"])

AdManager ==
    Screen({"AllAds"}, {"AllAds"}, {"AllAds"},
           [create |-> AdFormModal(""), edit |-> AdFormModal("ad"),
            delete |-> Called(Confirm("DeleteAd")),
            toggle |-> With(Called(Button("ToggleAd")), [guard |-> FALSE])])

(* The fields follow the settings whenever they are fetched.                 *)
AdminSettings ==
    Screen({"AdminSettings"}, {"AdminSettings"}, {"AdminSettings"},
           [save |-> With(Called(PageForm("UpdateSettings", "")),
                          [seed |-> "sync"])])

(* The answer puts the new key, which is shown only once, in the place of    *)
(* the form; a dialog that was closed meanwhile is blanked when it opens.    *)
ApiKeyManager ==
    Screen({"ApiKeys"}, {}, {},
           [create |-> With(Called(Panel("CreateApiKey")), [done |-> "blank"]),
            revoke |-> Called(Confirm("RevokeApiKey"))])

UploadBrowser ==
    Screen({"MyUploads"}, {}, {},
           [clean |-> Called(Button("CleanOrphans")),
            delete |-> Called(Confirm("DeleteUpload"))])

(* Impersonation ends in a load of the whole application.                    *)
UserDetail ==
    Screen({"AdminUser", "Auth"}, {"AdminUser"}, {"AdminUser"},
           [role |-> Called(PageForm("UpdateUserRole", "")),
            status |-> Called(Panel("UpdateUserStatus")),
            impersonate |-> With(Called(Button("StartImpersonation")),
                                 [done |-> "reload",
                                  to |-> "PlayerDashboard"])])

ImpersonationBanner ==
    Layout(Screen({"Auth"}, {"Auth"}, {},
                  [stop |-> With(Called(Button("StopImpersonation")),
                                 [done |-> "reload", to |-> "UserSearch"])]))

UserSearch ==
    Screen({"SearchUsers"}, {}, {"SearchUsers"},
           [suspend |-> Called(Confirm("UpdateUserStatus"))])

(* One mutation serves the three answers to a venue.                         *)
VenueApproval ==
    Screen({"PendingVenues"}, {}, {},
           [approve |-> Called(Button("AdminUpdateVenueStatus")),
            reject |-> Called(Panel("AdminUpdateVenueStatus")),
            archive |-> Called(Confirm("AdminUpdateVenueStatus"))])

AdminScreens == [
    AdminGuard |-> AdminGuard, AdminDashboard |-> AdminDashboard,
    ActivityLog |-> ActivityLog, AdManager |-> AdManager,
    AdminSettings |-> AdminSettings, ApiKeyManager |-> ApiKeyManager,
    UploadBrowser |-> UploadBrowser, UserDetail |-> UserDetail,
    ImpersonationBanner |-> ImpersonationBanner, UserSearch |-> UserSearch,
    VenueApproval |-> VenueApproval]
=============================================================================
