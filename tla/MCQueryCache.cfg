SPECIFICATION FairSpec
CONSTANTS
    Queries = {"list", "row"}
    Mutations = {"save"}
    Affects <- MCAffects
    Refreshes <- MCRefreshes
    Replaces <- MCReplaces
    Gaps = {}
    Polled = {"row"}
    MaxCalls = 2
    MaxOthers = 1
INVARIANTS TypeOK ReadYourWrites
PROPERTIES IsDelayedCopy PromisesAreKept PollsCatchUp
CHECK_DEADLOCK FALSE
