\* One call at a time, users who answer every task: requests end.
SPECIFICATION AnsweredSpec
CONSTANTS
    ann = ann
    bob = bob
    main = main
    sub = sub
    NoUser = NoUser
    NoWorkflow = NoWorkflow
    Verification = "hierarchical verification"
    Users = {ann, bob}
    Parents <- NoParents
    Workflows = {main}
    Steps = {"check", "audit", "sign"}
    Step <- ChainSteps
    NextsChoices = {}
    Verdicts <- Closing
    Edits = {}
    Resubmits = FALSE
    Deletes = FALSE
    UpdatesMayFail = FALSE
    InsertsMayFail = FALSE
    Handlers = {h1}
    MaxRequests = 2
    MaxTasks = 6
    MaxCalls = 8
INVARIANTS NeverStranded VerdictTraced ClosedLeavesNoMandatoryTask
PROPERTIES EventuallyClosed
CHECK_DEADLOCK FALSE
