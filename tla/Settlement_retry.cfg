SPECIFICATION Spec
CONSTANTS
    s1 = s1
    m1 = m1
    m2 = m2
    t1 = t1
    t2 = t2
    r1 = r1
    r2 = r2
    NoTxn = NoTxn
    Total <- MCTotals
    Payers = {s1}
    Admissions = {}
    Payer <- MCStudentPays
    Invoices = {1}
    Period <- MCOnePeriod
    Receipts = {m1, m2}
    Txns = {t1, t2}
    Requests = {r1, r2}
SYMMETRY MCSymmetry
PROPERTIES
    RepeatedCreateIsAnswered
CHECK_DEADLOCK FALSE
