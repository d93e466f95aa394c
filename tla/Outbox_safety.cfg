SPECIFICATION Spec
CONSTANTS
    w1 = w1
    w2 = w2
    k1 = k1
    k2 = k2
    Workers = {w1, w2}
    WorkerIds = {w1, w2}
    Jobs = {k1, k2}
    IdOf <- MCOwnIds
    Serves <- MCServesSome
    Handled = {k1}
    MaxAttempts <- MCMaxAttempts
    BatchSize = 2
    MaxReplays = 1
    NoOwner = NoOwner
    NoJob = NoJob
INVARIANTS
    LeaseNamesCurrentAttempt
    InvocationsWithinBudget
    AttemptTellsRunsApart
PROPERTIES
    SettledStaysSettled
    DeliversAtLeastOnce
