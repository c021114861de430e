SPECIFICATION BenchSpec
CONSTANTS
    Interval = 2
    Slack = 1
    Timeout <- Timeouts
    MaxSilence = 14
    CallbackPanics = TRUE
    GroupTasks = {t1} GroupCalls = {c1, c2, c3} Outside = Outside
    ArcCalls = {l1, l2, l3} ArcOthers = {o1} Nil = Nil MaxClears = 2
    Requests = {q1, q2} Stops = {s1} Codes <- ReturnCodes None = None
    Vectors = {v1, v2} Arrays = {a1, a2, a3} Val = {x1} Zero = Zero MaxLen = 3
CHECK_DEADLOCK FALSE
INVARIANTS TimeoutIsSilence GivenUpInTime StoresOnce SuccessIsHonest HoldsItsOwn
PROPERTIES QuitReturns StopIsFinal
