SPECIFICATION Spec
CONSTANTS
    Pages = {p1}
    ElementKeys = {scoreboard}
    OverrideKeys = {team_1_name, team_1_score}
    Vals = {0, 1}
    None = None
    MaxEdits = 3
INVARIANT NoEditDropped
CHECK_DEADLOCK FALSE
