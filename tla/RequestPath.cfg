\* One call at a time, every verdict but canceled, states changed by hand; tasks choose whether
\* the step that wraps the other workflow comes next; bob validates what comes before the
\* first step of that workflow.
SPECIFICATION Spec
CONSTANTS
    ann = ann
    bob = bob
    main = main
    sub = sub
    NoUser = NoUser
    NoWorkflow = NoWorkflow
    Verification = "hierarchical verification"
    Users = {ann, bob}
    Parents <- BobAboveAnn
    Workflows = {main, sub}
    Steps = {"check", "audit", "sign", "join", "part"}
    Step <- PathSteps
    NextsChoices = {{}, {sub}}
    Verdicts <- Answers
    Edits = {"running"}
    Resubmits = FALSE
    Deletes = FALSE
    UpdatesMayFail = FALSE
    InsertsMayFail = FALSE
    Handlers = {h1}
    MaxRequests = 2
    MaxTasks = 6
    MaxCalls = 4
INVARIANTS NextsHonoured
PROPERTIES PathRefined StepGate
CHECK_DEADLOCK FALSE
