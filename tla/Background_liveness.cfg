SPECIFICATION MCFairSpec
CONSTANTS
    w1 = w1  w2 = w2  k1 = k1  k2 = k2  NoOwner = NoOwner  NoJob = NoJob
    parent = parent  pupil = pupil  m1 = m1  c1 = c1  c2 = c2
    GENERATE_INVOICES = GENERATE_INVOICES  ISSUE_BILLING_CYCLE = ISSUE_BILLING_CYCLE
    PROCESS_ENFORCEMENT_STAGE = PROCESS_ENFORCEMENT_STAGE  NoKey = NoKey
    Workers = {w1, w2}
    WorkerIds = {w1, w2}
    Keys = {k1, k2}
    IdOf <- OwnIds
    Serves <- ServesSome
    Handled = {k1, k2}
    Attempts <- OneAttemptFirst
    BatchSize = 1
    MaxReplays = 0
    Billed = {1, 2}
    Accounts = {pupil}
    Reminders = {"six_hours"}
    ReconcileLimit = 1
    Invoices = {1, 2}
    Periods = {1, 2}
    Prices = {1}
    Cycles = {1, 2}
    Manual = {}
    ManualPeriod <- NoManual
    ManualTotal <- NoManual
    ByHand = {}
    MaxWaiting = 1
    AllowedTopics <- EveryTopic
    People = {1, 2}
    Chats = {c1, c2}
    MaxSends = 2
    Moves = FALSE
    SlideWorkers = {w1, w2}
    MaxTries = 2
    MaxCrashes = 0
    MaxTicket = 2
    PageSize = 1
    MaxTime = 1
PROPERTIES
    EveryJobSettles
    HoldsFollowHousehold
    AskedIsAnswered
CHECK_DEADLOCK FALSE
