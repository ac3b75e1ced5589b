\* Two delegates; only the answers of tasks overlap.
SPECIFICATION Spec
CONSTANTS
    ann = ann
    bob = bob
    carl = carl
    staff = staff
    NoUser = NoUser
    NoName = NoName
    NoHandler = NoHandler
    NoEntity = NoEntity
    Entities = {staff}
    Entity <- NoneStaffed
    Users = {ann, bob, carl}
    Names = {"check"}
    Level <- Turn
    Assignee <- TurnUsers
    Delegates <- AnnToBoth
    LastLevel = 1
    Handlers = {h1, h2}
    Alone = {"open", "delegate", "end"}
    Daily = FALSE
    Singles = FALSE
    UpdatesMayFail = FALSE
    InsertsMayFail = FALSE
    MaxRequests = 1
    MaxTasks = 3
    MaxDelegations = 2
    MaxCalls = 5
PROPERTIES StaysClosed
CHECK_DEADLOCK FALSE
