SPECIFICATION Spec
CONSTANTS
    t1 = t1
    t2 = t2
    Uninit = Uninit
    Threads = {t1, t2}
    MaxCo = 2
    Rets = {10}
    Calls = {"start"}
    Structured = TRUE
    WaitsOnChildren = TRUE
    AsksGivenCids = TRUE
INVARIANT WalksLiveBlock
