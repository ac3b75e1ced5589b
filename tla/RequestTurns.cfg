\* One call at a time, every verdict, any UPDATE or INSERT may be refused: dismissals
\* send a request back and forth.
SPECIFICATION Spec
CONSTANTS
    ann = ann
    bob = bob
    main = main
    sub = sub
    NoUser = NoUser
    NoWorkflow = NoWorkflow
    Verification = "hierarchical verification"
    Users = {ann, bob}
    Parents <- NoParents
    Workflows = {main}
    Steps = {"check", "sign", "file"}
    Step <- TurnSteps
    NextsChoices = {}
    Verdicts <- Anything
    Edits = {}
    Resubmits = FALSE
    Deletes = FALSE
    UpdatesMayFail = TRUE
    InsertsMayFail = TRUE
    Handlers = {h1}
    MaxRequests = 1
    MaxTasks = 6
    MaxCalls = 9
INVARIANTS TypeOK NoDuplicateTask
PROPERTIES ReopenedByDismissal
CHECK_DEADLOCK FALSE
