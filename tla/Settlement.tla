----------------------------- MODULE Settlement ------------------------------
(***************************************************************************)
(* The invoice ledger: invoices of current students and of admissions, the *)
(* staff commands that pay, reverse and void them, and the Payme merchant  *)
(* API through which a parent pays them online.  An admission's invoice    *)
(* activates the admission when it is settled.                             *)
(*                                                                         *)
(* A handler that locks its rows first and decides on what it reads under  *)
(* the lock is one action.  Two Payme handlers decide on an earlier read:  *)
(* CreateTransaction looks the transaction up before it exists (so locks   *)
(* nothing), and PerformTransaction's SELECT ... FOR UPDATE OF invoice     *)
(* reads the payer from the snapshot taken before it waited for the lock.  *)
(* Each of these two is two actions, with anything possible in between.    *)
(*                                                                         *)
(* The status "issued" stands for issued and overdue, which no guard tells *)
(* apart.  The handlers of finance and of Payme also reconcile the         *)
(* invoice's enforcement schedule, which is the module Enforcement.        *)
(***************************************************************************)
EXTENDS Integers, FiniteSetsExt, Money

CONSTANTS
    Invoices,        \* invoice row ids
    Payers,          \* current students and admissions
    Admissions,      \* the payers that are admissions
    Payer,           \* whom each invoice is issued to
    Period,          \* billing_period of each invoice
    Total,           \* total_minor of each invoice
    Receipts,        \* manual payment rows that may be recorded
    Txns,            \* provider transaction ids
    Requests,        \* CreateTransaction calls that may be in flight at once
    NoTxn

ASSUME SettlementAssumption ==
    /\ Invoices \subseteq Nat \ {0}
    /\ Admissions \subseteq Payers
    /\ Payer \in [Invoices -> Payers]
    /\ Total \in [Invoices -> Nat \ {0}]
    /\ Receipts \cap Txns = {}
    /\ NoTxn \notin Txns
    /\ IsFiniteSet(Receipts) /\ IsFiniteSet(Txns)

VARIABLES
    status, paid, version,   \* the invoice rows
    receipt,                 \* manual invoice_payments rows, and the form version behind each
    payment,                 \* status of the payme invoice_payments row of each transaction
    txn,                     \* payme_transactions rows; state 0 before the insert
    late,                    \* the create-to-perform limit of the transaction has passed
    performing,              \* transactions inside a PerformTransaction call (row locked)
    request,                 \* CreateTransaction calls
    admission,               \* admissions.status, once the contract is accepted
    enrolled,                \* history: student records created for each admission
    eligible,                \* the student is active / the reserved groups are available
    serviceStarted           \* service_start_date <= CURRENT_DATE

invoiceVars == <<status, paid, version>>
paymeVars == <<txn, late, performing>>
payerVars == <<admission, enrolled, eligible, serviceStarted>>
vars == <<invoiceVars, receipt, payment, paymeVars, request, payerVars>>

Open == {"issued", "partially_paid"}
NoReceipt == [invoice |-> 0, amount |-> 0, status |-> "none", form |-> 0]
NoRow == [state |-> 0, invoice |-> 0, amount |-> 0]
Answered(answer) == [txn |-> NoTxn, invoice |-> 0, amount |-> 0, answer |-> answer]

TypeOK ==
    /\ status \in [Invoices -> Open \cup {"absent", "paid", "voided"}]
    /\ paid \in [Invoices -> Nat]
    /\ version \in [Invoices -> Nat]
    /\ receipt \in [Receipts -> [invoice : Invoices \cup {0}, amount : Nat,
                                 status : {"none", "completed", "reversed"}, form : Nat]]
    /\ payment \in [Txns -> {"none", "completed", "refunded"}]
    /\ txn \in [Txns -> [state : {0, 1, 2, -1, -2}, invoice : Invoices \cup {0},
                         amount : Nat]]
    /\ late \in [Txns -> BOOLEAN]
    /\ performing \in SUBSET Txns
    /\ request \in [Requests -> [txn : Txns \cup {NoTxn}, invoice : Invoices \cup {0},
                                 amount : Nat,
                                 answer : {"none", "looking", "persisted", "refused"}]]
    /\ admission \in [Admissions -> {"awaiting_payment", "active",
                                     "payment_review", "cancelled"}]
    /\ enrolled \in [Admissions -> Nat]
    /\ eligible \in [Payers -> BOOLEAN]
    /\ serviceStarted \in [Admissions -> BOOLEAN]

\* The accepted contract of an admission has just made it await its payment.
Init ==
    /\ status = [i \in Invoices |-> "absent"]
    /\ paid = [i \in Invoices |-> 0]
    /\ version = [i \in Invoices |-> 1]
    /\ receipt = [m \in Receipts |-> NoReceipt]
    /\ payment = [t \in Txns |-> "none"]
    /\ txn = [t \in Txns |-> NoRow]
    /\ late = [t \in Txns |-> FALSE]
    /\ performing = {}
    /\ request = [r \in Requests |-> Answered("none")]
    /\ admission = [a \in Admissions |-> "awaiting_payment"]
    /\ enrolled = [a \in Admissions |-> 0]
    /\ eligible = [p \in Payers |-> TRUE]
    /\ serviceStarted = [a \in Admissions |-> FALSE]

-----------------------------------------------------------------------------
(* What the handlers read and write. *)

ForAdmission(i) == Payer[i] \in Admissions
Balance(i) == Total[i] - paid[i]
Pending(i) == \E t \in Txns : txn[t].state = 1 /\ txn[t].invoice = i

\* SUM(amount_minor) FILTER (WHERE status = 'completed'), given the rows.
CompletedTotal(i, receipts, payments) ==
    LET received == {m \in Receipts : receipts[m].invoice = i
                                      /\ receipts[m].status = "completed"}
        charged == {t \in Txns : txn[t].invoice = i /\ payments[t] = "completed"}
    IN  SumOf([m \in Receipts |-> receipts[m].amount], received)
          + SumOf([t \in Txns |-> txn[t].amount], charged)

StatusFor(i, amount) ==
    IF amount >= Total[i] THEN "paid"
    ELSE IF amount > 0 THEN "partially_paid" ELSE "issued"

WriteInvoiceSameVersion(i, amount, newStatus) ==
    /\ paid' = [paid EXCEPT ![i] = amount]
    /\ status' = [status EXCEPT ![i] = newStatus]
    /\ UNCHANGED version
WriteInvoice(i, amount, newStatus) ==
    /\ paid' = [paid EXCEPT ![i] = amount]
    /\ status' = [status EXCEPT ![i] = newStatus]
    /\ version' = [version EXCEPT ![i] = @ + 1]

\* recompute_invoice_settlement, after the payment rows were written.
RecomputeWithoutPayme(i) ==
    LET sum == CompletedTotal(i, receipt', [t \in Txns |-> "none"])
    IN  WriteInvoice(i, Min({sum, Total[i]}), StatusFor(i, sum))
Recompute(i) ==
    LET sum == CompletedTotal(i, receipt', payment)
    IN  WriteInvoice(i, Min({sum, Total[i]}), StatusFor(i, sum))

\* get_first_invoice_row: the latest one that is not voided.  Every admission
\* invoice is issued with the kind "first".
IssuedTo(a) == {i \in Invoices : Payer[i] = a /\ status[i] \notin {"absent", "voided"}}
FirstInvoice(a) == Max(IssuedTo(a))

\* activate_paid_admission, after the invoice was written; where it raises, the
\* caller's transaction is rolled back.
Activate(a) ==
    IF admission[a] = "active" THEN UNCHANGED <<admission, enrolled>>
    ELSE /\ status'[FirstInvoice(a)] = "paid" /\ eligible[a]
         /\ admission' = [admission EXCEPT ![a] = "active"]
         /\ enrolled' = [enrolled EXCEPT ![a] = @ + 1]

\* set_admission_after_refund and set_admission_payment_review.
Reopened(a) ==
    IF admission[a] = "cancelled" THEN "cancelled"
    ELSE IF serviceStarted[a] THEN "payment_review" ELSE "awaiting_payment"
ReopenIfAdmission(i) ==
    IF ForAdmission(i)
    THEN admission' = [admission EXCEPT ![Payer[i]] = Reopened(Payer[i])]
    ELSE UNCHANGED admission

-----------------------------------------------------------------------------
(* Staff commands.  The form behind a command shows the invoice at some     *)
(* version, which the command quotes; a form may be sent late or twice.     *)

CanIssue(i) ==
    /\ status[i] = "absent"
    /\ IF ForAdmission(i)
       THEN /\ admission[Payer[i]] \in {"awaiting_payment", "active"}
            /\ \A j \in Invoices : Payer[j] = Payer[i] =>
                 /\ j < i => status[j] # "absent"         \* ids are allotted in order
                 /\ j # i /\ Period[j] = Period[i] => status[j] \in {"absent", "voided"}
       ELSE eligible[Payer[i]]

\* issue_student_invoice, or issue_invoice of admissions.
Issue(i) ==
    /\ CanIssue(i)
    /\ status' = [status EXCEPT ![i] = "issued"]
    /\ UNCHANGED <<paid, version, receipt, payment, paymeVars, request, payerVars>>

NewReceipt(i, m, amount, form) ==
    /\ receipt[m].status = "none"
    /\ receipt' = [receipt EXCEPT ![m] = [invoice |-> i, amount |-> amount,
                                          status |-> "completed", form |-> form]]

\* add_paid_student_invoice: issue and record_manual_payment in one transaction.
AddPaidInvoice(i, m) ==
    /\ CanIssue(i) /\ ~ForAdmission(i)
    /\ NewReceipt(i, m, Total[i], version[i])
    /\ WriteInvoice(i, Total[i], "paid")
    /\ UNCHANGED <<payment, paymeVars, request, payerVars>>

\* The checks record_manual_payment makes in both modules.
AcceptsUnlocked(i, amount, form) ==
    status[i] \in Open /\ amount \in 1..Balance(i) /\ form = version[i]
AcceptsAnyForm(i, amount, form) ==
    status[i] \in Open /\ amount \in 1..Balance(i) /\ ~Pending(i)
AcceptsAnyAmount(i, amount, form) ==
    status[i] \in Open /\ amount \in 1..Total[i] /\ ~Pending(i) /\ form = version[i]
Accepts(i, amount, form) ==
    status[i] \in Open /\ amount \in 1..Balance(i) /\ ~Pending(i) /\ form = version[i]

\* record_manual_payment of finance, which does not look at the admission.
FinanceRecords(i, m, amount, form) ==
    /\ Accepts(i, amount, form)
    /\ NewReceipt(i, m, amount, form)
    /\ Recompute(i)
    /\ UNCHANGED <<payment, paymeVars, request, payerVars>>

\* record_manual_payment of admissions, which activates a paid admission
\* whatever its status.
AdmissionsRecords(i, m, amount, form) ==
    LET newPaid == paid[i] + amount IN
    /\ ForAdmission(i)
    /\ Accepts(i, amount, form)
    /\ NewReceipt(i, m, amount, form)
    /\ WriteInvoice(i, newPaid, StatusFor(i, newPaid))
    /\ IF newPaid = Total[i] THEN Activate(Payer[i]) ELSE UNCHANGED <<admission, enrolled>>
    /\ UNCHANGED <<payment, paymeVars, request, eligible, serviceStarted>>

Reverse(m, form) ==
    /\ receipt[m].status = "completed"
    /\ form = version[receipt[m].invoice]
    /\ receipt' = [receipt EXCEPT ![m].status = "reversed"]

\* reverse_invoice_payment of finance: the admission is not touched.
FinanceReverses(m, form) ==
    /\ Reverse(m, form)
    /\ Recompute(receipt[m].invoice)
    /\ UNCHANGED <<payment, paymeVars, request, payerVars>>

\* reverse_manual_payment of admissions.
AdmissionsReverses(m, form) ==
    LET i == receipt[m].invoice
        newPaid == Max({0, paid[i] - receipt[m].amount})
    IN
    /\ Reverse(m, form)
    /\ ForAdmission(i)
    /\ WriteInvoice(i, newPaid, StatusFor(i, newPaid))
    /\ ReopenIfAdmission(i)
    /\ UNCHANGED <<payment, paymeVars, request, enrolled, eligible, serviceStarted>>

\* void_student_invoice of finance: a pending Payme transaction is no obstacle.
FinanceVoids(i, form) ==
    /\ status[i] \in Open /\ paid[i] = 0 /\ form = version[i]
    /\ WriteInvoice(i, paid[i], "voided")
    /\ UNCHANGED <<receipt, payment, paymeVars, request, payerVars>>

\* void_invoice of admissions.
AdmissionsVoids(i, form) ==
    /\ ForAdmission(i)
    /\ ~Pending(i)
    /\ FinanceVoids(i, form)

CancelAdmission(a) ==
    /\ admission[a] \notin {"active", "cancelled"}
    /\ admission' = [admission EXCEPT ![a] = "cancelled"]
    /\ UNCHANGED <<invoiceVars, receipt, payment, paymeVars, request,
                   enrolled, eligible, serviceStarted>>

-----------------------------------------------------------------------------
(* The Payme merchant API. *)

\* The part of _validate_invoice that looks at the payer.
PayerAdmits(i) ==
    /\ eligible[Payer[i]]
    /\ ForAdmission(i) => admission[Payer[i]] = "awaiting_payment"

\* ... and the part that looks at the invoice.
Payable(i, amount) == status[i] \in Open /\ amount = Balance(i)

\* CreateTransaction, first read: an existing transaction answers the call, if
\* its row is not locked.
CreateLooksUp(r, t, i, amount) ==
    /\ request[r].answer # "looking"
    /\ t \notin performing
    /\ request' = [request EXCEPT ![r] =
         IF txn[t].state = 0
         THEN [txn |-> t, invoice |-> i, amount |-> amount, answer |-> "looking"]
         ELSE Answered(IF txn[t].invoice = i /\ txn[t].amount = amount
                       THEN "persisted" ELSE "refused")]
    /\ UNCHANGED <<invoiceVars, receipt, payment, paymeVars, payerVars>>

\* ... then, with the invoice locked: validate, refuse a second pending
\* transaction, insert ON CONFLICT (provider_transaction_id) DO NOTHING.  (The
\* payer, too, is read as it was before the wait for the lock; one that changes
\* meanwhile might as well change after the insert.)
CreateUnguarded(r) ==
    LET q == request[r]
        accepted == Payable(q.invoice, q.amount) /\ PayerAdmits(q.invoice)
    IN
    /\ q.answer = "looking"
    /\ request' = [request EXCEPT ![r] = Answered(IF accepted THEN "persisted" ELSE "refused")]
    /\ txn' = IF accepted /\ txn[q.txn].state = 0
              THEN [txn EXCEPT ![q.txn] = [state |-> 1, invoice |-> q.invoice,
                                           amount |-> q.amount]]
              ELSE txn
    /\ UNCHANGED <<invoiceVars, receipt, payment, late, performing, payerVars>>
CreateInserts(r) ==
    LET q == request[r]
        accepted == /\ Payable(q.invoice, q.amount) /\ PayerAdmits(q.invoice)
                    /\ ~Pending(q.invoice)
    IN
    /\ q.answer = "looking"
    /\ request' = [request EXCEPT ![r] = Answered(IF accepted THEN "persisted" ELSE "refused")]
    /\ txn' = IF accepted /\ txn[q.txn].state = 0
              THEN [txn EXCEPT ![q.txn] = [state |-> 1, invoice |-> q.invoice,
                                           amount |-> q.amount]]
              ELSE txn
    /\ UNCHANGED <<invoiceVars, receipt, payment, late, performing, payerVars>>

\* PerformTransaction, first reads: the transaction is locked, and the payer is
\* seen as it was when the statement that locks the invoice began.
PerformReads(t) ==
    /\ t \notin performing
    /\ txn[t].state = 1 /\ ~late[t]
    /\ PayerAdmits(txn[t].invoice)
    /\ performing' = performing \cup {t}
    /\ UNCHANGED <<invoiceVars, receipt, payment, txn, late, request, payerVars>>

\* ... then, with the invoice locked: settle, and activate an admission.
PerformSettles(t) ==
    LET i == txn[t].invoice
        newPaid == paid[i] + txn[t].amount
    IN
    /\ t \in performing
    /\ Payable(i, txn[t].amount)
    /\ payment' = [payment EXCEPT ![t] = "completed"]
    /\ WriteInvoice(i, newPaid, IF newPaid >= Total[i] THEN "paid" ELSE "partially_paid")
    /\ txn' = [txn EXCEPT ![t].state = 2]
    /\ performing' = performing \ {t}
    /\ IF ForAdmission(i) THEN Activate(Payer[i]) ELSE UNCHANGED <<admission, enrolled>>
    /\ UNCHANGED <<receipt, late, request, eligible, serviceStarted>>

\* ... or it raises, or the process or its connection dies: all is rolled back.
PerformFails(t) ==
    /\ t \in performing
    /\ performing' = performing \ {t}
    /\ UNCHANGED <<invoiceVars, receipt, payment, txn, late, request, payerVars>>

\* PerformTransaction after the limit cancels the transaction, commits and raises.
PerformExpires(t) ==
    /\ t \notin performing
    /\ txn[t].state = 1 /\ late[t]
    /\ txn' = [txn EXCEPT ![t].state = -1]
    /\ UNCHANGED <<invoiceVars, receipt, payment, late, performing, request, payerVars>>

\* CancelTransaction of a pending transaction ...
CancelsPending(t) ==
    /\ t \notin performing
    /\ txn[t].state = 1
    /\ txn' = [txn EXCEPT ![t].state = -1]
    /\ UNCHANGED <<invoiceVars, receipt, payment, late, performing, request, payerVars>>

\* ... and of a performed one: refund_invoice_payment, then the admission.  Its
\* payment row is completed (PaymentFollowsTransaction), so there is one to refund.
CancelsPerformed(t) ==
    LET i == txn[t].invoice
        newPaid == Max({0, paid[i] - txn[t].amount})
    IN
    /\ t \notin performing
    /\ txn[t].state = 2
    /\ txn' = [txn EXCEPT ![t].state = -2]
    /\ payment' = [payment EXCEPT ![t] = "refunded"]
    /\ WriteInvoice(i, newPaid, IF newPaid = 0 THEN "issued" ELSE "partially_paid")
    /\ ReopenIfAdmission(i)
    /\ UNCHANGED <<receipt, late, performing, request, enrolled, eligible, serviceStarted>>

-----------------------------------------------------------------------------
(* The world around: the limit passes, the service begins, and the student  *)
(* is archived or a reserved group closed (or put back).                    *)

BecomesLate(t) ==
    /\ txn[t].state = 1 /\ ~late[t]
    /\ late' = [late EXCEPT ![t] = TRUE]
    /\ UNCHANGED <<invoiceVars, receipt, payment, txn, performing, request, payerVars>>

ServiceStarts(a) ==
    /\ ~serviceStarted[a]
    /\ serviceStarted' = [serviceStarted EXCEPT ![a] = TRUE]
    /\ UNCHANGED <<invoiceVars, receipt, payment, paymeVars, request,
                   admission, enrolled, eligible>>

EligibilityChanges(p) ==
    /\ eligible' = [eligible EXCEPT ![p] = ~@]
    /\ UNCHANGED <<invoiceVars, receipt, payment, paymeVars, request,
                   admission, enrolled, serviceStarted>>

StaffStep ==
    \/ \E i \in Invoices :
        \/ Issue(i)
        \/ \E m \in Receipts : AddPaidInvoice(i, m)
        \/ \E form \in 1..version[i] : FinanceVoids(i, form) \/ AdmissionsVoids(i, form)
        \/ \E m \in Receipts, amount \in 1..Total[i], form \in 1..version[i] :
             FinanceRecords(i, m, amount, form) \/ AdmissionsRecords(i, m, amount, form)
    \/ \E m \in Receipts : receipt[m].status = "completed" /\
        \E form \in 1..version[receipt[m].invoice] :
             FinanceReverses(m, form) \/ AdmissionsReverses(m, form)
    \/ \E a \in Admissions : CancelAdmission(a)

PaymeStep ==
    \/ \E r \in Requests :
        \/ CreateInserts(r)
        \/ \E t \in Txns, i \in Invoices : \E amount \in 1..Total[i] :
             status[i] # "absent" /\ CreateLooksUp(r, t, i, amount)
    \/ \E t \in Txns : PerformReads(t) \/ PerformSettles(t) \/ PerformFails(t)
                       \/ PerformExpires(t) \/ CancelsPending(t) \/ CancelsPerformed(t)

WorldStep ==
    \/ \E t \in Txns : BecomesLate(t)
    \/ \E a \in Admissions : ServiceStarts(a)
    \/ \E p \in Payers : EligibilityChanges(p)

Next == StaffStep \/ PaymeStep \/ WorldStep

Spec == Init /\ [][Next]_vars

-----------------------------------------------------------------------------
(* Properties. *)

\* The balance column is maintained in two ways, by recomputation in finance
\* and by increments and decrements in admissions and Payme; mixed on one
\* invoice in any order they never lose or invent money, nor exceed the total.
PaidIsWhatWasPaid ==
    \A i \in Invoices :
        /\ paid[i] = CompletedTotal(i, receipt, payment)
        /\ paid[i] <= Total[i]

\* The five writers of an invoice's status agree on what it says of the balance.
StatusTellsBalance ==
    \A i \in Invoices :
        /\ status[i] = "paid" <=> paid[i] = Total[i]
        /\ status[i] = "partially_paid" <=> paid[i] \in 1..(Total[i] - 1)

\* However CreateTransaction calls interleave, an invoice never has two pending
\* transactions, although no constraint of the table says so.
OnePendingPerInvoice ==
    \A t, u \in Txns :
        txn[t].state = 1 /\ txn[u].state = 1 /\ txn[t].invoice = txn[u].invoice => t = u

\* The payment row of a transaction follows its state: one completed payment
\* once performed, refunded once cancelled after that, none before.
PaymentFollowsTransaction ==
    \A t \in Txns : payment[t] = CASE txn[t].state = 2  -> "completed"
                                   [] txn[t].state = -2 -> "refunded"
                                   [] txn[t].state \in {0, 1, -1} -> "none"

\* A payment form that is sent twice, or after somebody else changed the
\* invoice, records at most one receipt.
OneReceiptPerForm ==
    \A m, n \in Receipts :
        /\ receipt[m].status # "none" /\ receipt[n].status # "none"
        /\ receipt[m].invoice = receipt[n].invoice /\ receipt[m].form = receipt[n].form
        => m = n

\* An admission gets a second student record only after money came back: every
\* record beyond the first is matched by a returned payment.
ReturnedTo(a) ==
    {m \in Receipts : receipt[m].status = "reversed" /\ Payer[receipt[m].invoice] = a}
      \cup {t \in Txns : payment[t] = "refunded" /\ Payer[txn[t].invoice] = a}
EnrolledOncePerSettlement ==
    \A a \in Admissions : enrolled[a] <= 1 + Cardinality(ReturnedTo(a))

\* The ledger adds up: the rows keep the values their columns allow, the balance and the
\* status of an invoice say what its payments say, whoever wrote them, and no settlement of
\* an admission enrols the student twice.
LedgerAddsUp ==
    /\ TypeOK
    /\ PaidIsWhatWasPaid
    /\ StatusTellsBalance
    /\ PaymentFollowsTransaction
    /\ EnrolledOncePerSettlement

\* What Payme is about to charge was not paid otherwise meanwhile.
PendingIsOwed == \A t \in Txns : txn[t].state = 1 => txn[t].amount <= Balance(txn[t].invoice)

\* While a transaction is pending, nobody else puts money on its invoice: the
\* parent is never charged for what was paid meanwhile.
PendingBlocksOtherMoney ==
    [][/\ \A t \in Txns : txn[t].state = 1 /\ txn'[t].state = 1 =>
              paid'[txn[t].invoice] <= paid[txn[t].invoice]
       /\ PendingIsOwed']_vars

\* Payme always settles an invoice in full, and in the very step that performs
\* the transaction an admission becomes active.
PerformedMeansSettled ==
    [][\A t \in Txns : txn[t].state # 2 /\ txn'[t].state = 2 =>
           LET i == txn[t].invoice IN
           /\ txn[t].state = 1
           /\ status'[i] = "paid" /\ payment'[t] = "completed"
           /\ ForAdmission(i) => admission'[Payer[i]] = "active"]_vars

\* A pending transaction keeps other money off its invoice, so that its amount stays open,
\* and performing it settles the invoice and activates the admission in the same step. Money
\* may leave meanwhile: a receipt can be reversed, and finance can void the invoice
\* (VoidedHasNoPending); PerformTransaction is refused then.
PendingIsHonoured == PendingBlocksOtherMoney /\ PerformedMeansSettled

\* Whoever changes the balance or the status of an issued invoice gives it a
\* new version, so that no form shown before can act on it.
ChangesInvalidateForms ==
    [][\A i \in Invoices :
           status[i] # "absent" /\ (status'[i] # status[i] \/ paid'[i] # paid[i]) =>
               version'[i] > version[i]]_vars

\* The money of each invoice moves as PaymentAccount allows.
EntryOf(i) ==
    [e \in Receipts \cup Txns |->
        IF e \in Receipts
        THEN IF receipt[e].invoice # i THEN "none"
             ELSE IF receipt[e].status = "reversed" THEN "returned" ELSE receipt[e].status
        ELSE IF txn[e].invoice # i THEN "none"
             ELSE IF payment[e] = "refunded" THEN "returned" ELSE payment[e]]
AmountOf(i) ==
    [e \in Receipts \cup Txns |->
        IF EntryOf(i)[e] = "none" THEN 0
        ELSE IF e \in Receipts THEN receipt[e].amount ELSE txn[e].amount]

Account(i) == INSTANCE PaymentAccount WITH
    Entries <- Receipts \cup Txns,
    Total <- Total[i],
    invoice <- IF status[i] \in {"absent", "voided"} THEN status[i] ELSE "open",
    entry <- EntryOf(i),
    amount <- AmountOf(i)

KeepsAccounts ==
    /\ \A i \in Invoices : Account(i)!Init
    /\ [][\A i \in Invoices : Account(i)!Next \/ UNCHANGED Account(i)!vars]_vars

\* "Repeated provider requests return the persisted result": a CreateTransaction
\* call is not refused when its very transaction has been persisted.
RepeatedCreateIsAnswered ==
    [][\A r \in Requests :
           LET q == request[r] IN
           q.answer = "looking" /\ request'[r].answer = "refused" =>
               txn[q.txn] # [state |-> 1, invoice |-> q.invoice, amount |-> q.amount]]_vars

\* "Cancel the pending Payme transaction before voiding the invoice": no
\* transaction is pending on a voided invoice of an admission.
VoidedHasNoPending ==
    \A i \in Invoices : ForAdmission(i) /\ status[i] = "voided" => ~Pending(i)

\* "The student remains prospective until the accepted contract and first paid
\* invoice activate enrollment": an admission whose first invoice is paid does
\* not go on waiting for the payment.
FirstPaidInvoiceActivates ==
    \A a \in Admissions :
        admission[a] = "awaiting_payment" /\ IssuedTo(a) # {} => status[FirstInvoice(a)] # "paid"
=============================================================================
