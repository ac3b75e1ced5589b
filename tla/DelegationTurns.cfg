\* One call after another, each when the goroutines of the last are done; the goroutines
\* of one call go side by side.  Any INSERT of a task may be refused.
SPECIFICATION Spec
CONSTANTS
    ann = ann
    bob = bob
    carl = carl
    staff = staff
    NoUser = NoUser
    NoName = NoName
    NoHandler = NoHandler
    NoEntity = NoEntity
    Entities = {staff}
    Entity <- SignStaffed
    Users = {ann, bob, carl}
    Names = {"check", "sign"}
    Level <- Chain
    Assignee <- ChainUsers
    Delegates <- ToCarl
    LastLevel = 2
    Handlers = {h1}
    Alone = {"open", "close", "delegate", "end"}
    Daily = FALSE
    Singles = TRUE
    UpdatesMayFail = FALSE
    InsertsMayFail = TRUE
    MaxRequests = 1
    MaxTasks = 6
    MaxDelegations = 2
    MaxCalls = 7
INVARIANTS TypeOK BoundAlike ClosedTogether OpenHere ClosingSpreads PassedOver OneOfEach SharesFollow  CopiesShared
PROPERTIES ClosedKept
CHECK_DEADLOCK FALSE
