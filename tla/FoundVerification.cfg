\* A superior validates what comes before a step.
SPECIFICATION Spec
CONSTANTS
    ann = ann
    bob = bob
    main = main
    sub = sub
    NoUser = NoUser
    NoWorkflow = NoWorkflow
    Verification = "hierarchical verification"
    Users = {ann, bob}
    Parents <- BobAboveAnn
    Workflows = {main, sub}
    Steps = {"check", "audit", "sign", "seal"}
    Step <- ParallelSteps
    NextsChoices = {}
    Verdicts <- Closing
    Edits = {}
    Resubmits = FALSE
    Deletes = FALSE
    UpdatesMayFail = FALSE
    InsertsMayFail = FALSE
    Handlers = {h1}
    MaxRequests = 1
    MaxTasks = 6
    MaxCalls = 6
INVARIANTS VerificationOpensStep
CHECK_DEADLOCK FALSE
