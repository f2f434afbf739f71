SPECIFICATION Spec
CONSTANTS
    Pages = {p1, p2}
    ElementKeys = {scoreboard, sponsor_bug}
    OverrideKeys = {team_1_name, team_1_score}
    Vals = {0, 1}
    None = None
    MaxEdits = 2
SYMMETRY PanelSymmetry
INVARIANTS EditsAreAccountedFor 
CHECK_DEADLOCK FALSE
