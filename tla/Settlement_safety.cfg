SPECIFICATION MCSpec
CONSTANTS
    s1 = s1  a1 = a1  m1 = m1  m2 = m2  t1 = t1  t2 = t2  r1 = r1
    r2 = r2  NoTxn = NoTxn
    Total <- Twos
    Payers = {s1, a1}
    Admissions = {a1}
    Payer <- FirstIsTheStudents
    Invoices = {1, 2, 3}
    Period <- Months
    Receipts = {m1, m2}
    Txns = {t1, t2}
    Requests = {r1, r2}
SYMMETRY MCSymmetry
INVARIANTS
    LedgerAddsUp
    OnePendingPerInvoice
    OneReceiptPerForm
PROPERTIES
    ChangesInvalidateForms
    PendingIsHonoured
    KeepsAccounts
CHECK_DEADLOCK FALSE
