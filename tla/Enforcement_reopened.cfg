SPECIFICATION FairSpec
CONSTANTS
    parent = parent
    Invoices = {1}
    Accounts = {parent}
    Reminders = {"six_hours"}
    ReconcileLimit = 2
PROPERTIES
    OverdueIsRestricted
CHECK_DEADLOCK FALSE
