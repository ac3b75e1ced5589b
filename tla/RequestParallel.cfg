\* Two calls at a time on one request: answers, deletions, changes by hand,
\* verifications before the only step of the other workflow.
SPECIFICATION Spec
CONSTANTS
    ann = ann
    bob = bob
    main = main
    sub = sub
    NoUser = NoUser
    NoWorkflow = NoWorkflow
    Verification = "hierarchical verification"
    Users = {ann, bob}
    Parents <- BobAboveAnn
    Workflows = {main, sub}
    Steps = {"check", "audit", "sign", "seal"}
    Step <- ParallelSteps
    NextsChoices = {}
    Verdicts <- Closing
    Edits = {"running", "refused"}
    Resubmits = TRUE
    Deletes = TRUE
    UpdatesMayFail = FALSE
    InsertsMayFail = FALSE
    Handlers = {h1, h2}
    MaxRequests = 1
    MaxTasks = 5
    MaxCalls = 4
INVARIANTS ClosureAgrees NoStepAhead
CHECK_DEADLOCK FALSE
