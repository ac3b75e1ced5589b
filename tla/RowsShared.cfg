\* Two users' calls side by side, handles closed at any time, schemas that come and go.
SPECIFICATION Spec
CONSTANTS
    view = view
    role = role
    Users = {ann, bob}
    Tables = {view, role}
    Ids = {1, 2}
    View = view
    Wide = {role}
    NoRestriction = {none}
    Stored = {1, 2}
    Requests <- Asked
    Serial = TRUE
    Calls = {c1, c2}
    MaxCalls = 3
SYMMETRY Symmetric
INVARIANTS TypeOK CacheCovers ReadYourWrites
PROPERTIES DeleteScoped NamedUpdateScoped
CHECK_DEADLOCK FALSE
