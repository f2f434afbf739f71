INIT BackOfficeInit
NEXT BackOfficeNext
CONSTANTS
    Desks = {c1, c2}
    Creators = {c1, c2}
    Operators = {c1, c2}
    Runs = {c1, c2}
    TeamIds = {1, 2}
    Games <- Meetings
    Entrants = {e1, e2, e3}
    Matches = {m1, m2}
    Courts = {k1, k2}
    None = None
    Keys = {a1, a2}
    MaxTeams = 1
    MaxRows = 3
    GamesToWin = 2
    PlannedGames = 3
    MaxChildren = 5
    MaxList = 2
    WinPoints = 2
    LossPoints = 0
    DrawPoints = 1
    MaxChanges = 2
    Rate = 2
    Burst = 2
    Interval = 3
    Stale = 4
    MaxTime = 7
SYMMETRY Symmetry
INVARIANTS
    CarefulDeskIsFair
    
    
    QuietTableIsExact
    LimiterKeepsWindow
CHECK_DEADLOCK FALSE
