SPECIFICATION Spec
CONSTANTS
    t1 = t1
    t2 = t2
    Uninit = Uninit
    Threads = {t1, t2}
    MaxCo = 2
    Rets = {10}
    Calls = {"start", "yield", "wait", "getret", "waitall", "status", "getid"}
    Structured = TRUE
    WaitsOnChildren = FALSE
    AsksGivenCids = TRUE
SYMMETRY Symmetry
INVARIANTS
    TypeOK OnlyLiveRoutinesRun NoLockAcrossSwitch AnswersAreTrue
    WalkFindsOwnMeta
PROPERTIES NothingForgotten FinishedIsFinal
