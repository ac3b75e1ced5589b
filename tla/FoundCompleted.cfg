\* Two calls close the last two tasks of a step at once.
SPECIFICATION Spec
CONSTANTS
    ann = ann
    bob = bob
    main = main
    sub = sub
    NoUser = NoUser
    NoWorkflow = NoWorkflow
    Verification = "hierarchical verification"
    Users = {ann, bob}
    Parents <- NoParents
    Workflows = {main}
    Steps = {"check", "audit", "sign"}
    Step <- ChainSteps
    NextsChoices = {}
    Verdicts <- Closing
    Edits = {}
    Resubmits = FALSE
    Deletes = FALSE
    UpdatesMayFail = FALSE
    InsertsMayFail = FALSE
    Handlers = {h1, h2}
    MaxRequests = 1
    MaxTasks = 6
    MaxCalls = 6
INVARIANTS CompletedIsLast
CHECK_DEADLOCK FALSE
