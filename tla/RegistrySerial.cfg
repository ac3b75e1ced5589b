\* One call at a time, with deletions, refused DDL statements and restarts at any time.
SPECIFICATION Spec
CONSTANTS
    s1 = s1
    s2 = s2
    f1 = f1
    f2 = f2
    c1 = c1
    c2 = c2
    Schemas = {s1, s2}
    Target <- MCTarget
    Fields = {f1, f2, "many"}
    Many = {"many"}
    Calls = {c1}
    Serial = TRUE
    Deletes = TRUE
    Restarts = TRUE
    DdlMayFail = TRUE
    MaxId = 3
    MaxCalls = 5
INVARIANTS NoGhost NothingForgotten
CHECK_DEADLOCK FALSE
