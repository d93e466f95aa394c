SPECIFICATION MCSpec
CONSTANTS
    parent = parent  pupil = pupil  m1 = m1  GENERATE_INVOICES = GENERATE_INVOICES
    ISSUE_BILLING_CYCLE = ISSUE_BILLING_CYCLE  PROCESS_ENFORCEMENT_STAGE = PROCESS_ENFORCEMENT_STAGE
    Billed = {1, 2}
    Accounts = {parent, pupil}
    Reminders = {"six_hours"}
    ReconcileLimit = 2
    Periods = {1, 2}
    Prices = {1, 2}
    Cycles = {1, 2}
    Invoices = {1, 2}
    Manual = {m1}
    ManualPeriod <- FirstPeriod
    ManualTotal <- Ones
    ByHand = {1}
    MaxWaiting = 1
    AllowedTopics <- EveryTopic
SYMMETRY MCSymmetry
INVARIANTS
    HoldsOnlyWhileOwed
    MonthsAddUp
PROPERTIES
    ReleasedOnlyByPayment
    ReplacedStaysReplaced
    ChargesByTheMonth
CHECK_DEADLOCK FALSE
