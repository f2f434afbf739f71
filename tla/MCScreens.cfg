SPECIFICATION Spec
CONSTANTS
    Watched <- AllScreens
    MaxCalls = 2
    MaxOpens = 3
INVARIANTS  SavedOnce FormsOpenClean
PROPERTIES AnswersCloseTheirOwn  DraftsSurviveRefetch
CHECK_DEADLOCK FALSE
