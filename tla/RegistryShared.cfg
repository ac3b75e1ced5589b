\* Two calls side by side; nothing is deleted, refused or restarted.
SPECIFICATION Spec
CONSTANTS
    s1 = s1
    s2 = s2
    f1 = f1
    f2 = f2
    c1 = c1
    c2 = c2
    Schemas = {s1, s2}
    Target <- MCTarget
    Fields = {f1, f2, "many"}
    Many = {"many"}
    Calls = {c1, c2}
    Serial = FALSE
    Deletes = FALSE
    Restarts = FALSE
    DdlMayFail = FALSE
    MaxId = 2
    MaxCalls = 4
SYMMETRY CallSymmetry
INVARIANTS TypeOK FieldsHaveColumns
CHECK_DEADLOCK FALSE
