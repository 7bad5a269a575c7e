\* Three calls over two routes, with masters that die, and connections and removals
\* that fail or do not.
SPECIFICATION Spec
CONSTANTS
    c1 = c1
    c2 = c2
    c3 = c3
    s1 = s1
    j1 = j1
    Calls = {c1, c2, c3}
    Targets <- Routes
    Codes = {0, 255}
    MaxMasters = 3
    MaxDeaths = 2
    Environments = {{}, {"network", "remove"}}
SYMMETRY Symmetry
INVARIANTS
    MasterOfOwnRoute
    NoSecondRunAfterStatus
    StaleSocketSurvived
CHECK_DEADLOCK FALSE
