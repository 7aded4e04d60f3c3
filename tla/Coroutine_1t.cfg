SPECIFICATION FairSpec
CONSTANTS
    Uninit = Uninit
    t1 = t1
    Threads = {t1}
    MaxCo = 3
    Rets = {10}
    Calls = {"start", "yield", "wait", "getret", "status", "getid"}
    Structured = FALSE
    WaitsOnChildren = TRUE
    AsksGivenCids = FALSE
INVARIANTS RunningIsCurrent AnswersAreTrue
PROPERTY MainWaitReturns
