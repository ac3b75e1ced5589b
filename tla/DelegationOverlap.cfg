\* Two calls at a time and the goroutines of both; the daily loop runs.
SPECIFICATION FairSpec
CONSTANTS
    ann = ann
    bob = bob
    carl = carl
    staff = staff
    NoUser = NoUser
    NoName = NoName
    NoHandler = NoHandler
    NoEntity = NoEntity
    Entities = {staff}
    Entity <- SignStaffed
    Users = {ann, bob, carl}
    Names = {"check", "sign"}
    Level <- Chain
    Assignee <- ChainUsers
    Delegates <- ToCarl
    LastLevel = 2
    Handlers = {h1, h2}
    Alone = {"open", "delegate"}
    Daily = TRUE
    Singles = FALSE
    UpdatesMayFail = FALSE
    InsertsMayFail = FALSE
    MaxRequests = 1
    MaxTasks = 10
    MaxDelegations = 1
    MaxCalls = 5
INVARIANTS BoundAlike
PROPERTIES Settles
CHECK_DEADLOCK FALSE
