--------------------------- MODULE SettlementProofs --------------------------
(***************************************************************************)
(* Theorems about Settlement for any invoices, payers, receipts, provider  *)
(* transactions and calls in flight.                                       *)
(*                                                                         *)
(* The tables fall in two halves that hardly meet: what Payme keeps of its *)
(* transactions, and what staff keep of receipts and invoice versions.     *)
(* The ledger is their sum: the balance of every invoice is that of its    *)
(* payments, which needs the lemmas about sums of the second part.         *)
(***************************************************************************)
EXTENDS Settlement, FiniteSetTheorems, TLAPS

TxnRows == [state : {0, 1, 2, -1, -2}, invoice : Invoices \cup {0}, amount : Nat]
CallRows == [txn : Txns \cup {NoTxn}, invoice : Invoices \cup {0}, amount : Nat,
             answer : {"none", "looking", "persisted", "refused"}]
ReceiptRows == [invoice : Invoices \cup {0}, amount : Nat,
                status : {"none", "completed", "reversed"}, form : Nat]

\* Whoever is inside a PerformTransaction call holds the lock of a transaction
\* that is pending, and it stays so until the call ends.
PerformingPending == \A t \in performing : txn[t].state = 1

\* A transaction, once it exists, is for an invoice, and so is a call in flight.
NamesInvoices ==
    /\ \A t \in Txns : txn[t].state # 0 => txn[t].invoice \in Invoices
    /\ \A r \in Requests : request[r].answer = "looking" =>
         request[r].txn \in Txns /\ request[r].invoice \in Invoices

\* The payment row that belongs to each state of a transaction.
PaymentIn(state) ==
    IF state = 2 THEN "completed" ELSE IF state = -2 THEN "refunded" ELSE "none"
PaymentsMatch == \A t \in Txns : payment[t] = PaymentIn(txn[t].state)

PaymeInv ==
    /\ txn \in [Txns -> TxnRows]
    /\ payment \in [Txns -> {"none", "completed", "refunded"}]
    /\ performing \in SUBSET Txns
    /\ request \in [Requests -> CallRows]
    /\ NamesInvoices
    /\ PerformingPending
    /\ PaymentsMatch
    /\ OnePendingPerInvoice

\* The form behind a receipt shows an older version of the invoice than the one
\* it has now.
ReceiptsPast ==
    \A m \in Receipts : receipt[m].status # "none" =>
        /\ receipt[m].invoice \in Invoices
        /\ receipt[m].form < version[receipt[m].invoice]

StaffInv ==
    /\ version \in [Invoices -> Nat]
    /\ receipt \in [Receipts -> ReceiptRows]
    /\ ReceiptsPast
    /\ OneReceiptPerForm

IInv == PaymeInv /\ StaffInv

-----------------------------------------------------------------------------
(* The half of the staff: versions only grow, and a receipt uses one up. *)

VersionsGrow ==
    /\ version' \in [Invoices -> Nat]
    /\ \A i \in Invoices : version'[i] >= version[i]

LEMMA WriteGrows ==
    ASSUME version \in [Invoices -> Nat], NEW i \in Invoices, NEW amount, NEW newStatus,
           WriteInvoice(i, amount, newStatus)
    PROVE  VersionsGrow /\ version'[i] = version[i] + 1
  BY DEF WriteInvoice, VersionsGrow

LEMMA SameReceipts ==
    ASSUME StaffInv, UNCHANGED receipt, VersionsGrow \/ UNCHANGED version
    PROVE  StaffInv'
  <1>1. VersionsGrow
    BY DEF StaffInv, VersionsGrow
  <1>2. ReceiptsPast'
    <2> SUFFICES ASSUME NEW m \in Receipts, receipt'[m].status # "none"
                 PROVE  /\ receipt'[m].invoice \in Invoices
                        /\ receipt'[m].form < version'[receipt'[m].invoice]
      BY DEF ReceiptsPast
    <2>1. receipt[m].invoice \in Invoices /\ receipt[m].form < version[receipt[m].invoice]
      BY DEF StaffInv, ReceiptsPast
    <2>2. receipt[m].form \in Nat
      BY DEF StaffInv, ReceiptRows
    <2> QED BY <1>1, <2>1, <2>2 DEF VersionsGrow, StaffInv
  <1> QED BY <1>1, <1>2 DEF StaffInv, VersionsGrow, OneReceiptPerForm

\* A new receipt quotes the version that its own transaction makes the past.
LEMMA ReceiptUsesForm ==
    ASSUME StaffInv, NEW i \in Invoices, NEW m \in Receipts, NEW a \in Nat,
           NewReceipt(i, m, a, version[i]),
           VersionsGrow, version'[i] = version[i] + 1
    PROVE  StaffInv'
  <1>1. version[i] \in Nat /\ receipt[m].status = "none"
    BY DEF StaffInv, NewReceipt
  <1>2. receipt' \in [Receipts -> ReceiptRows]
    BY <1>1 DEF StaffInv, NewReceipt, ReceiptRows
  <1>3. receipt'[m] = [invoice |-> i, amount |-> a, status |-> "completed", form |-> version[i]]
    BY DEF StaffInv, NewReceipt
  <1>4. \A n \in Receipts \ {m} : receipt'[n] = receipt[n]
    BY DEF StaffInv, NewReceipt
  <1>5. ReceiptsPast'
    <2> SUFFICES ASSUME NEW n \in Receipts, receipt'[n].status # "none"
                 PROVE  /\ receipt'[n].invoice \in Invoices
                        /\ receipt'[n].form < version'[receipt'[n].invoice]
      BY DEF ReceiptsPast
    <2>1. CASE n = m
      BY <1>1, <1>3, <2>1
    <2>2. CASE n # m
      <3>1. receipt[n].invoice \in Invoices /\ receipt[n].form < version[receipt[n].invoice]
        BY <1>4, <2>2 DEF StaffInv, ReceiptsPast
      <3>2. receipt[n].form \in Nat
        BY DEF StaffInv, ReceiptRows
      <3> QED BY <1>4, <2>2, <3>1, <3>2 DEF VersionsGrow, StaffInv
    <2> QED BY <2>1, <2>2
  <1>6. \A n \in Receipts \ {m} :
          ~(receipt'[n].status # "none" /\ receipt'[n].invoice = i /\ receipt'[n].form = version[i])
    <2> SUFFICES ASSUME NEW n \in Receipts \ {m}, receipt[n].status # "none",
                        receipt[n].invoice = i, receipt[n].form = version[i]
                 PROVE  FALSE
      BY <1>4
    <2> QED BY <1>1 DEF StaffInv, ReceiptsPast
  <1>7. OneReceiptPerForm'
    <2> SUFFICES ASSUME NEW n \in Receipts, NEW o \in Receipts,
                        receipt'[n].status # "none", receipt'[o].status # "none",
                        receipt'[n].invoice = receipt'[o].invoice,
                        receipt'[n].form = receipt'[o].form
                 PROVE  n = o
      BY DEF OneReceiptPerForm
    <2>1. CASE n = m \/ o = m
      BY <1>3, <1>6, <2>1
    <2>2. CASE n # m /\ o # m
      BY <1>4, <2>2 DEF StaffInv, OneReceiptPerForm
    <2> QED BY <2>1, <2>2
  <1> QED BY <1>2, <1>5, <1>7 DEF StaffInv, VersionsGrow

\* Reversing changes nothing but the receipt's status, which stays different
\* from "none".
LEMMA ReversedReceipts ==
    ASSUME StaffInv, NEW m \in Receipts, NEW form, Reverse(m, form), VersionsGrow
    PROVE  StaffInv'
  <1>1. receipt' \in [Receipts -> ReceiptRows]
    BY DEF StaffInv, Reverse, ReceiptRows
  <1>2. \A n \in Receipts : /\ receipt'[n].invoice = receipt[n].invoice
                            /\ receipt'[n].form = receipt[n].form
                            /\ receipt'[n].status # "none" => receipt[n].status # "none"
    BY DEF StaffInv, Reverse, ReceiptRows
  <1>3. ReceiptsPast'
    <2> SUFFICES ASSUME NEW n \in Receipts, receipt'[n].status # "none"
                 PROVE  /\ receipt'[n].invoice \in Invoices
                        /\ receipt'[n].form < version'[receipt'[n].invoice]
      BY DEF ReceiptsPast
    <2>1. receipt[n].invoice \in Invoices /\ receipt[n].form < version[receipt[n].invoice]
      BY <1>2 DEF StaffInv, ReceiptsPast
    <2>2. receipt[n].form \in Nat
      BY DEF StaffInv, ReceiptRows
    <2> QED BY <1>2, <2>1, <2>2 DEF VersionsGrow, StaffInv
  <1>4. OneReceiptPerForm'
    BY <1>2 DEF StaffInv, OneReceiptPerForm
  <1> QED BY <1>1, <1>3, <1>4 DEF StaffInv, VersionsGrow

-----------------------------------------------------------------------------
(* The half of Payme. *)

LEMMA SameTransactions ==
    ASSUME PaymeInv, UNCHANGED <<txn, payment, request>>,
           performing' \in SUBSET performing
    PROVE  PaymeInv'
  BY DEF PaymeInv, NamesInvoices, PerformingPending, PaymentsMatch, OnePendingPerInvoice

\* Transaction t takes the state n and its payment the one that belongs to it.
MovesTo(t, n) ==
    /\ txn' \in [Txns -> TxnRows]
    /\ txn'[t].state = n /\ txn'[t].invoice = txn[t].invoice
    /\ payment' \in [Txns -> {"none", "completed", "refunded"}]
    /\ payment'[t] = PaymentIn(n)
    /\ \A u \in Txns \ {t} : txn'[u] = txn[u] /\ payment'[u] = payment[u]
    /\ performing' = performing \ {t}
    /\ UNCHANGED request

\* A transaction that leaves its state for one other than 1 takes no invoice.
LEMMA TransactionMoves ==
    ASSUME PaymeInv, NEW t \in Txns, NEW n \in {2, -1, -2}, txn[t].state # 0, MovesTo(t, n)
    PROVE  PaymeInv'
  <1>1. PerformingPending'
    BY DEF MovesTo, PaymeInv, PerformingPending
  <1>2. PaymentsMatch'
    BY DEF MovesTo, PaymeInv, PaymentsMatch
  <1>3. OnePendingPerInvoice'
    <2>1. txn'[t].state # 1
      BY DEF MovesTo
    <2> QED BY <2>1 DEF MovesTo, PaymeInv, OnePendingPerInvoice
  <1>4. NamesInvoices'
    BY DEF MovesTo, PaymeInv, NamesInvoices
  <1> QED BY <1>1, <1>2, <1>3, <1>4 DEF MovesTo, PaymeInv

\* A call is answered, or remembers what it looks for.
LEMMA CallMoves ==
    ASSUME PaymeInv, NEW r \in Requests, NEW call \in CallRows,
           call.answer = "looking" => call.txn \in Txns /\ call.invoice \in Invoices,
           request' = [request EXCEPT ![r] = call],
           UNCHANGED <<txn, payment, performing>>
    PROVE  PaymeInv'
  BY DEF PaymeInv, NamesInvoices, PerformingPending, PaymentsMatch, OnePendingPerInvoice

LEMMA AnswerType ==
    ASSUME NEW answer \in {"none", "looking", "persisted", "refused"}
    PROVE  Answered(answer) \in CallRows /\ Answered(answer).answer = answer
  BY DEF Answered, CallRows

\* CreateTransaction inserts under the invoice's lock, after it saw no pending
\* transaction: the invoice's other transactions are past the state 1.
LEMMA CreateStep ==
    ASSUME PaymeInv, NEW r \in Requests, CreateInserts(r)
    PROVE  PaymeInv'
  <1> DEFINE q == request[r]
             new == [state |-> 1, invoice |-> q.invoice, amount |-> q.amount]
             accepted == /\ Payable(q.invoice, q.amount) /\ PayerAdmits(q.invoice)
                         /\ ~Pending(q.invoice)
             answer == IF accepted THEN "persisted" ELSE "refused"
  <1>1. /\ q \in CallRows /\ q.answer = "looking"
        /\ q.txn \in Txns /\ q.invoice \in Invoices
        /\ UNCHANGED <<payment, performing>>
        /\ request' = [request EXCEPT ![r] = Answered(answer)]
    BY DEF PaymeInv, NamesInvoices, CreateInserts
  <1> HIDE DEF accepted
  <1>2. Answered(answer) \in CallRows /\ Answered(answer).answer # "looking"
    BY AnswerType
  <1>3. CASE ~(accepted /\ txn[q.txn].state = 0)
    <2>1. txn' = txn
      BY <1>3 DEF CreateInserts, accepted
    <2> QED BY <1>1, <1>2, <2>1, CallMoves
  <1>4. CASE accepted /\ txn[q.txn].state = 0
    <2>1. txn' = [txn EXCEPT ![q.txn] = new] /\ new \in TxnRows
      BY <1>1, <1>4 DEF CreateInserts, accepted, CallRows, TxnRows
    <2>2. ~Pending(q.invoice)
      BY <1>4 DEF accepted
    <2>3. /\ txn' \in [Txns -> TxnRows]
          /\ txn'[q.txn] = new
          /\ \A u \in Txns \ {q.txn} : txn'[u] = txn[u]
      BY <1>1, <2>1 DEF PaymeInv
    <2>4. PaymentsMatch'
      <3>1. payment[q.txn] = "none"
        BY <1>1, <1>4 DEF PaymeInv, PaymentsMatch, PaymentIn
      <3>2. PaymentIn(new.state) = "none"
        BY DEF PaymentIn
      <3> QED BY <1>1, <2>3, <3>1, <3>2 DEF PaymeInv, PaymentsMatch
    <2>5. OnePendingPerInvoice'
      <3> SUFFICES ASSUME NEW t \in Txns, NEW u \in Txns, txn'[t].state = 1, txn'[u].state = 1,
                          txn'[t].invoice = txn'[u].invoice
                   PROVE  t = u
        BY DEF OnePendingPerInvoice
      <3>1. \A v \in Txns \ {q.txn} : ~(txn'[v].state = 1 /\ txn'[v].invoice = q.invoice)
        BY <2>2, <2>3 DEF Pending
      <3>2. txn'[q.txn].invoice = q.invoice
        BY <2>3
      <3>3. CASE t = q.txn \/ u = q.txn
        BY <3>1, <3>2, <3>3
      <3>4. CASE t # q.txn /\ u # q.txn
        BY <2>3, <3>4 DEF PaymeInv, OnePendingPerInvoice
      <3> QED BY <3>3, <3>4
    <2>6. PerformingPending'
      BY <1>1, <1>4, <2>3 DEF PaymeInv, PerformingPending
    <2>7. request' \in [Requests -> CallRows]
      BY <1>1, <1>2 DEF PaymeInv
    <2>8. NamesInvoices'
      BY <1>1, <1>2, <2>3 DEF PaymeInv, NamesInvoices
    <2> QED BY <1>1, <2>3, <2>4, <2>5, <2>6, <2>7, <2>8 DEF PaymeInv
  <1> QED BY <1>3, <1>4

-----------------------------------------------------------------------------
(* Every action. *)

LEMMA TotalType == \A i \in Invoices : Total[i] \in Nat \ {0}
  BY SettlementAssumption

LEMMA StaffStepInv ==
    ASSUME IInv, StaffStep
    PROVE  IInv'
  <1> USE DEF IInv
  <1>0. version \in [Invoices -> Nat]
    BY DEF StaffInv
  <1>p. ASSUME UNCHANGED <<payment, paymeVars, request>> PROVE PaymeInv'
    BY <1>p, SameTransactions DEF paymeVars
  <1>1. ASSUME NEW i \in Invoices, Issue(i) PROVE IInv'
    BY <1>1, <1>p, SameReceipts DEF Issue
  <1>2. ASSUME NEW i \in Invoices, NEW m \in Receipts, AddPaidInvoice(i, m) PROVE IInv'
    <2>1. NewReceipt(i, m, Total[i], version[i]) /\ WriteInvoice(i, Total[i], "paid")
      BY <1>2 DEF AddPaidInvoice
    <2> QED BY <1>0, <1>2, <1>p, <2>1, WriteGrows, ReceiptUsesForm, TotalType DEF AddPaidInvoice
  <1>3. ASSUME NEW i \in Invoices, NEW form, FinanceVoids(i, form) PROVE IInv'
    BY <1>0, <1>3, <1>p, WriteGrows, SameReceipts DEF FinanceVoids
  <1>4. ASSUME NEW i \in Invoices, NEW m \in Receipts, NEW amount \in Nat, NEW form,
               FinanceRecords(i, m, amount, form)
        PROVE  IInv'
    <2>1. /\ NewReceipt(i, m, amount, version[i])
          /\ \E sum, newStatus : WriteInvoice(i, sum, newStatus)
      BY <1>4 DEF FinanceRecords, Accepts, Recompute
    <2> QED BY <1>0, <1>4, <1>p, <2>1, WriteGrows, ReceiptUsesForm DEF FinanceRecords
  <1>5. ASSUME NEW i \in Invoices, NEW m \in Receipts, NEW amount \in Nat, NEW form,
               AdmissionsRecords(i, m, amount, form)
        PROVE  IInv'
    <2>1. /\ NewReceipt(i, m, amount, version[i])
          /\ \E sum, newStatus : WriteInvoice(i, sum, newStatus)
      BY <1>5 DEF AdmissionsRecords, Accepts
    <2> QED BY <1>0, <1>5, <1>p, <2>1, WriteGrows, ReceiptUsesForm DEF AdmissionsRecords
  <1>6. ASSUME NEW m \in Receipts, NEW form,
               FinanceReverses(m, form) \/ AdmissionsReverses(m, form)
        PROVE  IInv'
    <2>1. /\ Reverse(m, form)
          /\ \E sum, newStatus : WriteInvoice(receipt[m].invoice, sum, newStatus)
          /\ UNCHANGED <<payment, paymeVars, request>>
      BY <1>6 DEF FinanceReverses, AdmissionsReverses, Recompute
    <2>2. receipt[m].invoice \in Invoices
      BY <2>1 DEF Reverse, StaffInv, ReceiptsPast
    <2> QED BY <1>0, <1>p, <2>1, <2>2, WriteGrows, ReversedReceipts
  <1>7. ASSUME NEW a \in Admissions, CancelAdmission(a) PROVE IInv'
    BY <1>7, <1>p, SameReceipts DEF CancelAdmission, invoiceVars
  <1>8. \A i \in Invoices : \A amount \in 1..Total[i] : amount \in Nat
    BY TotalType
  <1> QED BY <1>1, <1>2, <1>3, <1>4, <1>5, <1>6, <1>7, <1>8 DEF StaffStep, AdmissionsVoids

LEMMA PaymeStepInv ==
    ASSUME IInv, PaymeStep
    PROVE  IInv'
  <1> USE DEF IInv
  <1>0. version \in [Invoices -> Nat] /\ \A t \in Txns : txn[t] \in TxnRows
    BY DEF StaffInv, PaymeInv
  <1>s. ASSUME UNCHANGED receipt,
               \/ UNCHANGED version
               \/ \E i \in Invoices : \E sum, newStatus : WriteInvoice(i, sum, newStatus)
        PROVE  StaffInv'
    BY <1>0, <1>s, WriteGrows, SameReceipts
  <1>1. ASSUME NEW r \in Requests, CreateInserts(r) PROVE IInv'
    BY <1>1, <1>s, CreateStep DEF CreateInserts, invoiceVars
  <1>2. ASSUME NEW r \in Requests, NEW t \in Txns, NEW i \in Invoices, NEW amount \in 1..Total[i],
               CreateLooksUp(r, t, i, amount)
        PROVE  IInv'
    <2> DEFINE looking == [txn |-> t, invoice |-> i, amount |-> amount, answer |-> "looking"]
               found == IF txn[t].invoice = i /\ txn[t].amount = amount
                        THEN "persisted" ELSE "refused"
               call == IF txn[t].state = 0 THEN looking ELSE Answered(found)
    <2>1. looking \in CallRows
      BY TotalType DEF CallRows
    <2>2. Answered(found) \in CallRows /\ Answered(found).answer # "looking"
      BY AnswerType
    <2>3. request' = [request EXCEPT ![r] = call]
      BY <1>2 DEF CreateLooksUp
    <2>4. /\ call \in CallRows
          /\ call.answer = "looking" => call.txn \in Txns /\ call.invoice \in Invoices
      BY <2>1, <2>2
    <2> HIDE DEF call
    <2> QED BY <1>2, <1>s, <2>3, <2>4, CallMoves DEF CreateLooksUp, invoiceVars, paymeVars
  <1>3. ASSUME NEW t \in Txns, PerformReads(t) PROVE IInv'
    <2>1. PaymeInv'
      BY <1>3 DEF PerformReads, PaymeInv, NamesInvoices, PerformingPending, PaymentsMatch, OnePendingPerInvoice
    <2> QED BY <1>3, <1>s, <2>1 DEF PerformReads, invoiceVars
  <1>4. ASSUME NEW t \in Txns, PerformSettles(t) PROVE IInv'
    <2>1. txn[t].state = 1 /\ txn[t].invoice \in Invoices
      BY <1>4 DEF PerformSettles, PaymeInv, PerformingPending, NamesInvoices
    <2>2. MovesTo(t, 2)
      BY <1>4 DEF PerformSettles, MovesTo, PaymentIn, PaymeInv, TxnRows
    <2>3. PaymeInv'
      BY <2>1, <2>2, TransactionMoves
    <2>4. /\ UNCHANGED receipt
          /\ \E i \in Invoices : \E sum, newStatus : WriteInvoice(i, sum, newStatus)
      BY <1>4, <2>1 DEF PerformSettles
    <2> QED BY <1>s, <2>3, <2>4
  <1>5. ASSUME NEW t \in Txns, PerformFails(t) PROVE IInv'
    BY <1>5, <1>s, SameTransactions DEF PerformFails, invoiceVars
  <1>6. ASSUME NEW t \in Txns, PerformExpires(t) \/ CancelsPending(t) PROVE IInv'
    <2>1. /\ txn' = [txn EXCEPT ![t].state = -1]
          /\ t \notin performing /\ txn[t].state = 1
          /\ UNCHANGED <<invoiceVars, receipt, payment, performing, request>>
      BY <1>6 DEF PerformExpires, CancelsPending
    <2>2. payment[t] = PaymentIn(-1)
      BY <2>1 DEF PaymeInv, PaymentsMatch, PaymentIn
    <2>3. MovesTo(t, -1)
      BY <2>1, <2>2 DEF MovesTo, PaymeInv, TxnRows
    <2>4. PaymeInv'
      BY <2>1, <2>3, TransactionMoves
    <2> QED BY <1>s, <2>1, <2>4 DEF invoiceVars
  <1>7. ASSUME NEW t \in Txns, CancelsPerformed(t) PROVE IInv'
    <2>1. txn[t].state = 2 /\ txn[t].invoice \in Invoices
      BY <1>7 DEF CancelsPerformed, PaymeInv, NamesInvoices
    <2>2. MovesTo(t, -2)
      BY <1>7 DEF CancelsPerformed, MovesTo, PaymentIn, PaymeInv, TxnRows
    <2>3. PaymeInv'
      BY <2>1, <2>2, TransactionMoves
    <2>4. /\ UNCHANGED receipt
          /\ \E i \in Invoices : \E sum, newStatus : WriteInvoice(i, sum, newStatus)
      BY <1>7, <2>1 DEF CancelsPerformed
    <2> QED BY <1>s, <2>3, <2>4
  <1> QED BY <1>1, <1>2, <1>3, <1>4, <1>5, <1>6, <1>7 DEF PaymeStep

LEMMA IInvInit == Init => IInv
  <1> SUFFICES ASSUME Init PROVE IInv
    OBVIOUS
  <1>1. NoRow \in TxnRows /\ NoRow.state = 0
    BY DEF NoRow, TxnRows
  <1>2. Answered("none") \in CallRows /\ Answered("none").answer = "none"
    BY AnswerType
  <1>3. NoReceipt \in ReceiptRows /\ NoReceipt.status = "none"
    BY DEF NoReceipt, ReceiptRows
  <1>4. PaymeInv
    BY <1>1, <1>2 DEF Init, PaymeInv, NamesInvoices, PerformingPending, PaymentsMatch,
                      PaymentIn, OnePendingPerInvoice
  <1>5. StaffInv
    BY <1>3 DEF Init, StaffInv, ReceiptsPast, OneReceiptPerForm
  <1> QED BY <1>4, <1>5 DEF IInv

LEMMA IInvStep == IInv /\ [Next]_vars => IInv'
  <1> SUFFICES ASSUME IInv, [Next]_vars PROVE IInv'
    OBVIOUS
  <1>1. CASE WorldStep
    <2>1. UNCHANGED <<txn, payment, request, performing, receipt, version>>
      BY <1>1 DEF WorldStep, BecomesLate, ServiceStarts, EligibilityChanges, invoiceVars, paymeVars
    <2> QED BY <2>1, SameTransactions, SameReceipts DEF IInv
  <1>2. CASE UNCHANGED vars
    <2>1. UNCHANGED <<txn, payment, request, performing, receipt, version>>
      BY <1>2 DEF vars, invoiceVars, paymeVars
    <2> QED BY <2>1, SameTransactions, SameReceipts DEF IInv
  <1> QED BY <1>1, <1>2, StaffStepInv, PaymeStepInv DEF Next

LEMMA Invariance == Spec => []IInv
  BY IInvInit, IInvStep, PTL DEF Spec

-----------------------------------------------------------------------------
(* The theorems. *)

\* However CreateTransaction calls interleave with one another and with staff,
\* no invoice ever has two pending transactions.
THEOREM PendingIsUnique == Spec => []OnePendingPerInvoice
  <1> IInv => OnePendingPerInvoice
    BY DEF IInv, PaymeInv
  <1> QED BY Invariance, PTL

\* The payment row of a Payme transaction is what its state says.
THEOREM PaymentsAgree == Spec => []PaymentFollowsTransaction
  <1> IInv => PaymentFollowsTransaction
    <2> SUFFICES ASSUME IInv, NEW t \in Txns
                 PROVE  payment[t] = CASE txn[t].state = 2  -> "completed"
                                       [] txn[t].state = -2 -> "refunded"
                                       [] txn[t].state \in {0, 1, -1} -> "none"
      BY DEF PaymentFollowsTransaction
    <2>1. payment[t] = PaymentIn(txn[t].state) /\ txn[t].state \in {0, 1, 2, -1, -2}
      BY DEF IInv, PaymeInv, PaymentsMatch, TxnRows
    <2> QED BY <2>1 DEF PaymentIn
  <1> QED BY Invariance, PTL

\* A payment form is good for one receipt, however often and late it is sent.
THEOREM FormsAreUsedOnce == Spec => []OneReceiptPerForm
  <1> IInv => OneReceiptPerForm
    BY DEF IInv, StaffInv
  <1> QED BY Invariance, PTL
-----------------------------------------------------------------------------
(* Versions and forms. *)

\* A step writes at most one invoice, and except for issuing it through WriteInvoice.
Written(i) == \E amount, newStatus : WriteInvoice(i, amount, newStatus)

LEMMA OneInvoiceWritten ==
    ASSUME IInv, Next
    PROVE  \/ UNCHANGED invoiceVars
           \/ \E i \in Invoices : Issue(i) \/ Written(i)
  <1> USE DEF Written
  <1>1. ASSUME NEW i \in Invoices, NEW m \in Receipts, AddPaidInvoice(i, m) PROVE Written(i)
    BY <1>1 DEF AddPaidInvoice
  <1>2. ASSUME NEW i \in Invoices, NEW form, FinanceVoids(i, form) PROVE Written(i)
    BY <1>2 DEF FinanceVoids
  <1>3. ASSUME NEW i \in Invoices, NEW m \in Receipts, NEW amount, NEW form,
               FinanceRecords(i, m, amount, form) \/ AdmissionsRecords(i, m, amount, form)
        PROVE  Written(i)
    BY <1>3 DEF FinanceRecords, AdmissionsRecords, Recompute
  <1>4. ASSUME NEW m \in Receipts, NEW form,
               FinanceReverses(m, form) \/ AdmissionsReverses(m, form)
        PROVE  \E i \in Invoices : Written(i)
    <2>1. Reverse(m, form) /\ Written(receipt[m].invoice)
      BY <1>4 DEF FinanceReverses, AdmissionsReverses, Recompute
    <2>2. receipt[m].invoice \in Invoices
      BY <2>1 DEF Reverse, IInv, StaffInv, ReceiptsPast
    <2> QED BY <2>1, <2>2
  <1>5. ASSUME NEW t \in Txns, PerformSettles(t) \/ CancelsPerformed(t)
        PROVE  \E i \in Invoices : Written(i)
    <2>1. txn[t].state # 0 /\ Written(txn[t].invoice)
      BY <1>5 DEF PerformSettles, CancelsPerformed, IInv, PaymeInv, PerformingPending
    <2>2. txn[t].invoice \in Invoices
      BY <2>1 DEF IInv, PaymeInv, NamesInvoices
    <2> QED BY <2>1, <2>2
  <1>6. ASSUME \/ \E a \in Admissions : CancelAdmission(a)
               \/ WorldStep
               \/ \E r \in Requests : CreateInserts(r)
               \/ \E r \in Requests, t \in Txns, i \in Invoices : \E amount \in 1..Total[i] :
                    CreateLooksUp(r, t, i, amount)
               \/ \E t \in Txns : PerformReads(t) \/ PerformFails(t)
                                  \/ PerformExpires(t) \/ CancelsPending(t)
        PROVE  UNCHANGED invoiceVars
    BY <1>6 DEF CancelAdmission, WorldStep, BecomesLate, ServiceStarts, EligibilityChanges,
                CreateInserts, CreateLooksUp, PerformReads, PerformFails, PerformExpires,
                CancelsPending
  <1>7. CASE StaffStep
    BY <1>1, <1>2, <1>3, <1>4, <1>6, <1>7 DEF StaffStep, AdmissionsVoids
  <1>8. CASE PaymeStep
    BY <1>5, <1>6, <1>8 DEF PaymeStep
  <1> QED BY <1>6, <1>7, <1>8 DEF Next

\* Balance and status are columns of every invoice.
Columns == DOMAIN status = Invoices /\ DOMAIN paid = Invoices

LEMMA ColumnsStep == IInv /\ Columns /\ [Next]_vars => Columns'
  <1> SUFFICES ASSUME IInv, Columns, [Next]_vars PROVE Columns'
    OBVIOUS
  <1>1. CASE UNCHANGED vars
    BY <1>1 DEF Columns, vars, invoiceVars
  <1>2. CASE Next
    BY <1>2, OneInvoiceWritten DEF Columns, Written, WriteInvoice, Issue, invoiceVars
  <1> QED BY <1>1, <1>2

\* Whoever changes an issued invoice outdates every form that showed it.
THEOREM ChangesOutdateForms == Spec => ChangesInvalidateForms
  <1> DEFINE Outdates(i) ==
        status[i] # "absent" /\ (status'[i] # status[i] \/ paid'[i] # paid[i]) =>
            version'[i] > version[i]
  <1>1. IInv /\ Columns /\ [Next]_vars => [\A i \in Invoices : Outdates(i)]_vars
    <2> SUFFICES ASSUME IInv, Columns, Next, NEW i \in Invoices PROVE Outdates(i)
      OBVIOUS
    <2>1. CASE UNCHANGED invoiceVars
      BY <2>1 DEF invoiceVars
    <2>2. ASSUME NEW j \in Invoices, Issue(j) PROVE Outdates(i)
      BY <2>2 DEF Issue, CanIssue, Columns
    <2>3. ASSUME NEW j \in Invoices, Written(j) PROVE Outdates(i)
      <3>1. CASE j = i
        <4>1. version'[i] = version[i] + 1 /\ version[i] \in Nat
          BY <2>3, <3>1 DEF Written, WriteInvoice, IInv, StaffInv
        <4> QED BY <4>1
      <3>2. CASE j # i
        BY <2>3, <3>2 DEF Written, WriteInvoice, Columns
      <3> QED BY <3>1, <3>2
    <2> QED BY <2>1, <2>2, <2>3, OneInvoiceWritten
  <1>2. Init => Columns
    BY DEF Init, Columns
  <1> QED BY <1>1, <1>2, ColumnsStep, Invariance, PTL DEF Spec, ChangesInvalidateForms
-----------------------------------------------------------------------------
(* Sums of payments. *)

LEMMA UnitsFinite ==
    ASSUME NEW f, NEW S, IsFiniteSet(S), \A r \in S : f[r] \in Nat
    PROVE  IsFiniteSet(UNION {Units(f, r) : r \in S})
  <1> DEFINE rows == {Units(f, r) : r \in S}
             rowOf == [r \in S |-> Units(f, r)]
  <1>1. rowOf \in Surjection(S, rows)
    BY DEF Surjection
  <1>2. IsFiniteSet(rows)
    <2> HIDE DEF rows, rowOf
    <2> QED BY <1>1, FS_Surjection
  <1>3. ASSUME NEW r \in S PROVE IsFiniteSet(Units(f, r))
    <2>1. IsFiniteSet({r})
      BY FS_Singleton
    <2>2. IsFiniteSet(1..f[r])
      BY FS_Interval
    <2> QED BY <2>1, <2>2, FS_Product DEF Units
  <1>4. \A T \in rows : IsFiniteSet(T)
    BY <1>3
  <1> HIDE DEF rows
  <1>5. IsFiniteSet(UNION rows)
    BY <1>2, <1>4, FS_UNION
  <1> QED BY <1>5 DEF rows

LEMMA SumType ==
    ASSUME NEW f, NEW S, IsFiniteSet(S), \A r \in S : f[r] \in Nat
    PROVE  SumOf(f, S) \in Nat
  BY UnitsFinite, FS_CardinalityType DEF SumOf

\* A sum depends on the amounts of its own rows only.
LEMMA SumSame ==
    ASSUME NEW f, NEW g, NEW S, \A r \in S : f[r] = g[r]
    PROVE  SumOf(f, S) = SumOf(g, S)
  <1>1. \A r \in S : Units(f, r) = Units(g, r)
    BY DEF Units
  <1>2. {Units(f, r) : r \in S} = {Units(g, r) : r \in S}
    BY <1>1
  <1> QED BY <1>2 DEF SumOf

LEMMA SumEmpty == ASSUME NEW f PROVE SumOf(f, {}) = 0
  <1>1. UNION {Units(f, r) : r \in {}} = {}
    OBVIOUS
  <1> QED BY <1>1, FS_EmptySet DEF SumOf

\* One more row adds its amount.
LEMMA SumAdd ==
    ASSUME NEW f, NEW S, IsFiniteSet(S), NEW r, r \notin S, \A x \in S \cup {r} : f[x] \in Nat
    PROVE  SumOf(f, S \cup {r}) = SumOf(f, S) + f[r]
  <1> DEFINE old == UNION {Units(f, x) : x \in S}
  <1>1. IsFiniteSet(old)
    BY UnitsFinite
  <1>2. IsFiniteSet({r}) /\ Cardinality({r}) = 1
    BY FS_Singleton
  <1>3. IsFiniteSet(1..f[r]) /\ Cardinality(1..f[r]) = f[r]
    BY FS_Interval
  <1>4. IsFiniteSet(Units(f, r)) /\ Cardinality(Units(f, r)) = f[r]
    BY <1>2, <1>3, FS_Product DEF Units
  <1>5. UNION {Units(f, x) : x \in S \cup {r}} = old \cup Units(f, r)
    OBVIOUS
  <1>6. old \cap Units(f, r) = {}
    BY DEF Units
  <1>7. Cardinality(old) \in Nat
    BY <1>1, FS_CardinalityType
  <1>8. SumOf(f, S) = Cardinality(old) /\ SumOf(f, S \cup {r}) = Cardinality(old \cup Units(f, r))
    BY <1>5 DEF SumOf
  <1> HIDE DEF old
  <1>9. Cardinality(old \cup Units(f, r)) = Cardinality(old) + f[r] - Cardinality({})
    BY <1>1, <1>4, <1>6, FS_Union
  <1> QED BY <1>7, <1>8, <1>9, FS_EmptySet

\* Rows of two kinds add up separately.
LEMMA SumUnion ==
    ASSUME NEW f, NEW S, NEW T, IsFiniteSet(S), IsFiniteSet(T), S \cap T = {},
           \A r \in S \cup T : f[r] \in Nat
    PROVE  SumOf(f, S \cup T) = SumOf(f, S) + SumOf(f, T)
  <1> DEFINE left == UNION {Units(f, x) : x \in S}
             right == UNION {Units(f, x) : x \in T}
  <1>1. IsFiniteSet(left) /\ IsFiniteSet(right)
    BY UnitsFinite
  <1>2. UNION {Units(f, x) : x \in S \cup T} = left \cup right
    OBVIOUS
  <1>3. left \cap right = {}
    BY DEF Units
  <1>4. Cardinality(left) \in Nat /\ Cardinality(right) \in Nat
    BY <1>1, FS_CardinalityType
  <1>5. /\ SumOf(f, S) = Cardinality(left)
        /\ SumOf(f, T) = Cardinality(right)
        /\ SumOf(f, S \cup T) = Cardinality(left \cup right)
    BY <1>2 DEF SumOf
  <1> HIDE DEF left, right
  <1>6. Cardinality(left \cup right) = Cardinality(left) + Cardinality(right) - Cardinality({})
    BY <1>1, <1>3, FS_Union
  <1> QED BY <1>4, <1>5, <1>6, FS_EmptySet

-----------------------------------------------------------------------------
(* The payments of an invoice, receipts and Payme's together.               *)

Entries == Receipts \cup Txns
Done(i) == {e \in Entries : EntryOf(i)[e] = "completed"}
Sum(i) == SumOf(AmountOf(i), Done(i))

RowTypes ==
    /\ receipt \in [Receipts -> ReceiptRows]
    /\ txn \in [Txns -> TxnRows]
    /\ payment \in [Txns -> {"none", "completed", "refunded"}]

LEMMA EntriesFinite == IsFiniteSet(Entries)
  BY SettlementAssumption, FS_Union DEF Entries

LEMMA DoneFinite == ASSUME NEW i PROVE IsFiniteSet(Done(i))
  BY EntriesFinite, FS_Subset DEF Done

\* How a receipt and a transaction show among the entries of an invoice.
ReceiptShows(i, m) ==
    /\ EntryOf(i)[m] = IF receipt[m].invoice # i THEN "none"
                       ELSE IF receipt[m].status = "reversed" THEN "returned" ELSE receipt[m].status
    /\ AmountOf(i)[m] = IF EntryOf(i)[m] = "none" THEN 0 ELSE receipt[m].amount
TxnShows(i, t) ==
    /\ EntryOf(i)[t] = IF txn[t].invoice # i THEN "none"
                       ELSE IF payment[t] = "refunded" THEN "returned" ELSE payment[t]
    /\ AmountOf(i)[t] = IF EntryOf(i)[t] = "none" THEN 0 ELSE txn[t].amount
Shown(i) ==
    /\ EntryOf(i) = [e \in Entries |-> EntryOf(i)[e]]
    /\ AmountOf(i) = [e \in Entries |-> AmountOf(i)[e]]

LEMMA EntryOfReceipt ==
    ASSUME NEW i, NEW m \in Receipts
    PROVE  ReceiptShows(i, m) /\ ReceiptShows(i, m)'
  BY DEF EntryOf, AmountOf, ReceiptShows

LEMMA EntryOfTxn ==
    ASSUME NEW i, NEW t \in Txns
    PROVE  TxnShows(i, t) /\ TxnShows(i, t)'
  <1>1. t \notin Receipts
    BY SettlementAssumption
  <1> QED BY <1>1 DEF EntryOf, AmountOf, TxnShows

LEMMA EntriesShown == ASSUME NEW i PROVE Shown(i) /\ Shown(i)'
  BY DEF EntryOf, AmountOf, Entries, Shown

LEMMA EntryTypes ==
    ASSUME RowTypes, NEW i
    PROVE  /\ EntryOf(i) \in [Entries -> {"none", "completed", "returned"}]
           /\ AmountOf(i) \in [Entries -> Nat]
  <1>1. \A m \in Receipts : EntryOf(i)[m] \in {"none", "completed", "returned"} /\ AmountOf(i)[m] \in Nat
    BY EntryOfReceipt DEF RowTypes, ReceiptRows, ReceiptShows
  <1>2. \A t \in Txns : EntryOf(i)[t] \in {"none", "completed", "returned"} /\ AmountOf(i)[t] \in Nat
    BY EntryOfTxn DEF RowTypes, TxnRows, TxnShows
  <1>3. /\ EntryOf(i) = [e \in Entries |-> EntryOf(i)[e]]
        /\ AmountOf(i) = [e \in Entries |-> AmountOf(i)[e]]
    BY EntriesShown DEF Shown
  <1> QED BY <1>1, <1>2, <1>3 DEF Entries

LEMMA SumIsNat == ASSUME RowTypes, NEW i PROVE Sum(i) \in Nat
  BY EntryTypes, DoneFinite, SumType DEF Sum, Done

\* What the SQL adds up is the sum of the invoice's entries.
LEMMA TotalIsSum ==
    ASSUME RowTypes, NEW i
    PROVE  CompletedTotal(i, receipt, payment) = Sum(i)
  <1> DEFINE got == {m \in Receipts : receipt[m].invoice = i /\ receipt[m].status = "completed"}
             charged == {t \in Txns : txn[t].invoice = i /\ payment[t] = "completed"}
             held == [m \in Receipts |-> receipt[m].amount]
             asked == [t \in Txns |-> txn[t].amount]
  <1>1. IsFiniteSet(got) /\ IsFiniteSet(charged)
    BY SettlementAssumption, FS_Subset
  <1>2. got \cap charged = {}
    BY SettlementAssumption
  <1>3. \A m \in Receipts : m \in got <=> EntryOf(i)[m] = "completed"
    BY EntryOfReceipt DEF ReceiptShows
  <1>4. \A t \in Txns : t \in charged <=> EntryOf(i)[t] = "completed"
    BY EntryOfTxn DEF TxnShows
  <1>5. Done(i) = got \cup charged
    BY <1>3, <1>4 DEF Done, Entries
  <1>6. \A m \in got : held[m] = AmountOf(i)[m]
    BY <1>3, EntryOfReceipt DEF ReceiptShows
  <1>7. \A t \in charged : asked[t] = AmountOf(i)[t]
    BY <1>4, EntryOfTxn DEF TxnShows
  <1>8. \A e \in got \cup charged : AmountOf(i)[e] \in Nat
    BY EntryTypes DEF Entries
  <1>9. CompletedTotal(i, receipt, payment) = SumOf(held, got) + SumOf(asked, charged)
    BY DEF CompletedTotal
  <1> HIDE DEF got, charged, held, asked
  <1>10. SumOf(held, got) = SumOf(AmountOf(i), got)
    BY <1>6, SumSame
  <1>11. SumOf(asked, charged) = SumOf(AmountOf(i), charged)
    BY <1>7, SumSame
  <1> QED BY <1>1, <1>2, <1>5, <1>8, <1>9, <1>10, <1>11, SumUnion DEF Sum

-----------------------------------------------------------------------------
(* Money moves: a payment enters the account of one invoice, or returns.    *)

Enters(i, e, a) ==
    /\ EntryOf(i)[e] = "none"
    /\ EntryOf(i)' = [EntryOf(i) EXCEPT ![e] = "completed"]
    /\ AmountOf(i)' = [AmountOf(i) EXCEPT ![e] = a]
Returns(i, e) ==
    /\ EntryOf(i)[e] = "completed"
    /\ EntryOf(i)' = [EntryOf(i) EXCEPT ![e] = "returned"]
    /\ AmountOf(i)' = AmountOf(i)
Still(i) == UNCHANGED <<EntryOf(i), AmountOf(i)>>

LEMMA EntersSum ==
    ASSUME RowTypes, NEW i, NEW e \in Entries, NEW a \in Nat, Enters(i, e, a)
    PROVE  Sum(i)' = Sum(i) + a
  <1> PICK amounts : amounts = AmountOf(i)'
    OBVIOUS
  <1>1. /\ EntryOf(i) \in [Entries -> {"none", "completed", "returned"}]
        /\ AmountOf(i) \in [Entries -> Nat]
    BY EntryTypes
  <1>2. amounts = [AmountOf(i) EXCEPT ![e] = a]
    BY DEF Enters
  <1>3. e \notin Done(i) /\ Done(i)' = Done(i) \cup {e}
    BY <1>1 DEF Enters, Done
  <1>4. \A x \in Done(i) : AmountOf(i)[x] = amounts[x]
    BY <1>1, <1>2, <1>3 DEF Done
  <1>5. \A x \in Done(i) \cup {e} : amounts[x] \in Nat
    BY <1>1, <1>2 DEF Done
  <1>6. amounts[e] = a
    BY <1>1, <1>2
  <1>7. Sum(i) = SumOf(amounts, Done(i))
    BY <1>4, SumSame DEF Sum
  <1>8. SumOf(amounts, Done(i) \cup {e}) = SumOf(amounts, Done(i)) + a
    BY <1>3, <1>5, <1>6, DoneFinite, SumAdd
  <1> QED BY <1>3, <1>7, <1>8 DEF Sum

LEMMA ReturnsSum ==
    ASSUME RowTypes, NEW i, NEW e \in Entries, Returns(i, e)
    PROVE  Sum(i) = Sum(i)' + AmountOf(i)[e] /\ Sum(i)' \in Nat
  <1> PICK left : left = Done(i)'
    OBVIOUS
  <1>1. /\ EntryOf(i) \in [Entries -> {"none", "completed", "returned"}]
        /\ AmountOf(i) \in [Entries -> Nat]
    BY EntryTypes
  <1>2. e \in Done(i) /\ left = Done(i) \ {e}
    BY <1>1 DEF Returns, Done
  <1>3. IsFiniteSet(left)
    BY <1>2, DoneFinite, FS_RemoveElement
  <1>4. Sum(i)' = SumOf(AmountOf(i), left)
    BY DEF Sum, Returns
  <1>5. Done(i) = left \cup {e} /\ e \notin left /\ \A x \in Done(i) : AmountOf(i)[x] \in Nat
    BY <1>1, <1>2 DEF Done
  <1>6. SumOf(AmountOf(i), left \cup {e}) = SumOf(AmountOf(i), left) + AmountOf(i)[e]
    BY <1>3, <1>5, SumAdd
  <1>7. SumOf(AmountOf(i), left) \in Nat
    BY <1>3, <1>5, SumType
  <1> QED BY <1>4, <1>5, <1>6, <1>7 DEF Sum

LEMMA StillSum == ASSUME NEW i, Still(i) PROVE Sum(i)' = Sum(i)
  BY DEF Still, Sum, Done

\* A completed payment is no more than all of them.
LEMMA SumCovers ==
    ASSUME RowTypes, NEW i, NEW e \in Entries, EntryOf(i)[e] = "completed"
    PROVE  AmountOf(i)[e] <= Sum(i)
  <1> DEFINE rest == Done(i) \ {e}
  <1>1. e \in Done(i) /\ IsFiniteSet(rest) /\ rest \cup {e} = Done(i) /\ e \notin rest
    BY DoneFinite, FS_RemoveElement DEF Done
  <1>2. \A x \in Done(i) : AmountOf(i)[x] \in Nat
    BY EntryTypes DEF Done
  <1> HIDE DEF rest
  <1>3. SumOf(AmountOf(i), rest \cup {e}) = SumOf(AmountOf(i), rest) + AmountOf(i)[e]
    BY <1>1, <1>2, SumAdd
  <1>4. SumOf(AmountOf(i), rest) \in Nat
    BY <1>1, <1>2, SumType
  <1>5. Sum(i) = SumOf(AmountOf(i), rest) + AmountOf(i)[e]
    BY <1>1, <1>3 DEF Sum
  <1>6. AmountOf(i)[e] \in Nat
    BY <1>1, <1>2
  <1> QED BY <1>4, <1>5, <1>6

\* What each kind of write does to the entries of the invoices.
LEMMA NewReceiptEnters ==
    ASSUME RowTypes, NEW i \in Invoices, NEW m \in Receipts, NEW a \in Nat, NEW form,
           NewReceipt(i, m, a, form), UNCHANGED <<txn, payment>>
    PROVE  Enters(i, m, a) /\ \A j \in Invoices \ {i} : Still(j)
  <1>1. /\ receipt[m].status = "none" /\ receipt'[m].status = "completed"
        /\ receipt'[m].invoice = i /\ receipt'[m].amount = a
        /\ \A n \in Receipts \ {m} : receipt'[n] = receipt[n]
    BY DEF RowTypes, NewReceipt
  <1>2. ASSUME NEW j \in Invoices
        PROVE  /\ EntryOf(j)[m] = "none" /\ AmountOf(j)[m] = 0
               /\ EntryOf(j)'[m] = IF j = i THEN "completed" ELSE "none"
               /\ AmountOf(j)'[m] = IF j = i THEN a ELSE 0
               /\ \A e \in Entries \ {m} :
                    EntryOf(j)'[e] = EntryOf(j)[e] /\ AmountOf(j)'[e] = AmountOf(j)[e]
    BY <1>1, EntryOfReceipt, EntryOfTxn DEF ReceiptShows, TxnShows, Entries
  <1>3. Enters(i, m, a)
    BY <1>2, EntriesShown DEF Enters, Shown
  <1>4. ASSUME NEW j \in Invoices \ {i} PROVE Still(j)
    BY <1>2, <1>4, EntriesShown DEF Still, Shown
  <1> QED BY <1>3, <1>4

LEMMA ReverseReturns ==
    ASSUME RowTypes, NEW m \in Receipts, NEW form, Reverse(m, form), UNCHANGED <<txn, payment>>,
           NEW i \in Invoices, receipt[m].invoice = i
    PROVE  /\ Returns(i, m)
           /\ AmountOf(i)[m] = receipt[m].amount
           /\ \A j \in Invoices \ {i} : Still(j)
  <1>1. /\ receipt[m].status = "completed" /\ receipt'[m].status = "reversed"
        /\ receipt'[m].invoice = i /\ receipt'[m].amount = receipt[m].amount
        /\ \A n \in Receipts \ {m} : receipt'[n] = receipt[n]
    BY DEF RowTypes, Reverse, ReceiptRows
  <1>2. ASSUME NEW j \in Invoices
        PROVE  /\ EntryOf(j)[m] = IF j = i THEN "completed" ELSE "none"
               /\ AmountOf(j)[m] = IF j = i THEN receipt[m].amount ELSE 0
               /\ EntryOf(j)'[m] = IF j = i THEN "returned" ELSE "none"
               /\ AmountOf(j)'[m] = AmountOf(j)[m]
               /\ \A e \in Entries \ {m} :
                    EntryOf(j)'[e] = EntryOf(j)[e] /\ AmountOf(j)'[e] = AmountOf(j)[e]
    BY <1>1, EntryOfReceipt, EntryOfTxn DEF ReceiptShows, TxnShows, Entries
  <1>3. Returns(i, m) /\ AmountOf(i)[m] = receipt[m].amount
    <2>1. i \in Invoices /\ m \in Entries
      BY DEF Entries
    <2>2. EntryOf(i)' = [EntryOf(i) EXCEPT ![m] = "returned"]
      BY <1>2, <2>1, EntriesShown DEF Shown
    <2>3. AmountOf(i)' = AmountOf(i)
      BY <1>2, <2>1, EntriesShown DEF Shown
    <2> QED BY <1>2, <2>1, <2>2, <2>3 DEF Returns
  <1>4. ASSUME NEW j \in Invoices \ {i} PROVE Still(j)
    BY <1>2, <1>4, EntriesShown DEF Still, Shown
  <1> QED BY <1>3, <1>4

\* The payment row of transaction t turns from one status to the next.
Turns(t, from, to) ==
    /\ payment[t] = from /\ payment'[t] = to
    /\ txn'[t].invoice = txn[t].invoice /\ txn'[t].amount = txn[t].amount
    /\ \A u \in Txns \ {t} : txn'[u] = txn[u] /\ payment'[u] = payment[u]
    /\ UNCHANGED receipt

LEMMA PerformEnters ==
    ASSUME RowTypes, NEW t \in Txns, Turns(t, "none", "completed"),
           NEW i \in Invoices, txn[t].invoice = i, NEW a, txn[t].amount = a
    PROVE  Enters(i, t, a) /\ \A j \in Invoices \ {i} : Still(j)
  <1>1. t \notin Receipts
    BY SettlementAssumption
  <1>2. ASSUME NEW j \in Invoices
        PROVE  /\ EntryOf(j)[t] = "none" /\ AmountOf(j)[t] = 0
               /\ EntryOf(j)'[t] = IF j = i THEN "completed" ELSE "none"
               /\ AmountOf(j)'[t] = IF j = i THEN txn[t].amount ELSE 0
               /\ \A e \in Entries \ {t} :
                    EntryOf(j)'[e] = EntryOf(j)[e] /\ AmountOf(j)'[e] = AmountOf(j)[e]
    BY <1>1, EntryOfReceipt, EntryOfTxn DEF Turns, ReceiptShows, TxnShows, Entries
  <1>3. Enters(i, t, a)
    <2>1. i \in Invoices /\ t \in Entries
      BY DEF Entries
    <2>2. EntryOf(i)' = [EntryOf(i) EXCEPT ![t] = "completed"]
      BY <1>2, <2>1, EntriesShown DEF Shown
    <2>3. AmountOf(i)' = [AmountOf(i) EXCEPT ![t] = a]
      BY <1>2, <2>1, EntriesShown DEF Shown
    <2> QED BY <1>2, <2>1, <2>2, <2>3 DEF Enters
  <1>4. ASSUME NEW j \in Invoices \ {i} PROVE Still(j)
    BY <1>2, <1>4, EntriesShown DEF Still, Shown
  <1> QED BY <1>3, <1>4

LEMMA CancelReturns ==
    ASSUME RowTypes, NEW t \in Txns, Turns(t, "completed", "refunded"),
           NEW i \in Invoices, txn[t].invoice = i
    PROVE  /\ Returns(i, t)
           /\ AmountOf(i)[t] = txn[t].amount
           /\ \A j \in Invoices \ {i} : Still(j)
  <1>1. t \notin Receipts
    BY SettlementAssumption
  <1>2. ASSUME NEW j \in Invoices
        PROVE  /\ EntryOf(j)[t] = IF j = i THEN "completed" ELSE "none"
               /\ AmountOf(j)[t] = IF j = i THEN txn[t].amount ELSE 0
               /\ EntryOf(j)'[t] = IF j = i THEN "returned" ELSE "none"
               /\ AmountOf(j)'[t] = AmountOf(j)[t]
               /\ \A e \in Entries \ {t} :
                    EntryOf(j)'[e] = EntryOf(j)[e] /\ AmountOf(j)'[e] = AmountOf(j)[e]
    BY <1>1, EntryOfReceipt, EntryOfTxn DEF Turns, ReceiptShows, TxnShows, Entries
  <1>3. Returns(i, t) /\ AmountOf(i)[t] = txn[t].amount
    <2>1. i \in Invoices /\ t \in Entries
      BY DEF Entries
    <2>2. EntryOf(i)' = [EntryOf(i) EXCEPT ![t] = "returned"]
      BY <1>2, <2>1, EntriesShown DEF Shown
    <2>3. AmountOf(i)' = AmountOf(i)
      BY <1>2, <2>1, EntriesShown DEF Shown
    <2> QED BY <1>2, <2>1, <2>2, <2>3 DEF Returns
  <1>4. ASSUME NEW j \in Invoices \ {i} PROVE Still(j)
    BY <1>2, <1>4, EntriesShown DEF Still, Shown
  <1> QED BY <1>3, <1>4

\* A transaction without a payment shows in no account.
SameRequest(t) == txn'[t].invoice = txn[t].invoice /\ txn'[t].amount = txn[t].amount

LEMMA UnpaidShowsNot ==
    ASSUME UNCHANGED <<receipt, payment>>,
           \A t \in Txns : payment[t] = "none" \/ SameRequest(t)
    PROVE  \A j \in Invoices : Still(j)
  <1> SUFFICES ASSUME NEW j \in Invoices PROVE Still(j)
    OBVIOUS
  <1>1. \A m \in Receipts : EntryOf(j)'[m] = EntryOf(j)[m] /\ AmountOf(j)'[m] = AmountOf(j)[m]
    BY EntryOfReceipt DEF ReceiptShows
  <1>2. \A t \in Txns : EntryOf(j)'[t] = EntryOf(j)[t] /\ AmountOf(j)'[t] = AmountOf(j)[t]
    BY EntryOfTxn DEF TxnShows, SameRequest
  <1> QED BY <1>1, <1>2, EntriesShown DEF Still, Shown, Entries

-----------------------------------------------------------------------------
(* The ledger: what every step does to the money of the invoices.           *)

Statuses == Open \cup {"absent", "paid", "voided"}

\* The columns of an invoice tell what its payments come to.
LedgerColumns ==
    /\ status \in [Invoices -> Statuses]
    /\ paid \in [Invoices -> Nat]
    /\ \A i \in Invoices : paid[i] = Sum(i) /\ paid[i] <= Total[i]
    /\ StatusTellsBalance
    /\ \A i \in Invoices : status[i] \in {"absent", "voided"} => paid[i] = 0

\* A receipt, a transaction and a call in flight are for some money and for an
\* invoice that has been issued.
RowsStand ==
    /\ \A m \in Receipts : receipt[m].status # "none" =>
         receipt[m].amount > 0 /\ status[receipt[m].invoice] # "absent"
    /\ \A t \in Txns : txn[t].state # 0 =>
         txn[t].amount > 0 /\ status[txn[t].invoice] # "absent"
    /\ \A r \in Requests : request[r].answer = "looking" => status[request[r].invoice] # "absent"

LedgerInv == IInv /\ LedgerColumns /\ RowsStand

Others(i) == \A j \in Invoices \ {i} : Still(j)
AllStill == \A j \in Invoices : Still(j)
Sets(i, amount, newStatus) ==
    /\ paid' = [paid EXCEPT ![i] = amount]
    /\ status' = [status EXCEPT ![i] = newStatus]

Pays(i, e, a) ==
    /\ status[i] \in Open /\ a \in 1..Balance(i)
    /\ Enters(i, e, a) /\ Others(i)
    /\ Sets(i, paid[i] + a, StatusFor(i, paid[i] + a))
IssuesPaid(i, e) ==
    /\ status[i] = "absent"
    /\ Enters(i, e, Total[i]) /\ Others(i)
    /\ Sets(i, Total[i], "paid")
GivesBack(i, e, a) ==
    /\ status[i] \in Open \cup {"paid"}
    /\ a > 0 /\ a = AmountOf(i)[e]
    /\ Returns(i, e) /\ Others(i)
    /\ Sets(i, paid[i] - a, StatusFor(i, paid[i] - a))
Issues(i) ==
    /\ status[i] = "absent"
    /\ AllStill
    /\ UNCHANGED paid /\ status' = [status EXCEPT ![i] = "issued"]
Voids(i) ==
    /\ status[i] \in Open /\ paid[i] = 0
    /\ AllStill
    /\ Sets(i, 0, "voided")
Quiet == AllStill /\ UNCHANGED <<paid, status>>

\* Every step does one of these.
MoneyStep ==
    \/ Quiet
    \/ \E i \in Invoices :
         \/ Issues(i)
         \/ Voids(i)
         \/ \E e \in Entries :
              \/ IssuesPaid(i, e)
              \/ \E a \in Nat : Pays(i, e, a) \/ GivesBack(i, e, a)

LEMMA Types ==
    ASSUME IInv
    PROVE  RowTypes
  BY DEF IInv, PaymeInv, StaffInv, RowTypes

LEMMA LowerOfTwo == ASSUME NEW a \in Int, NEW b \in Int, a <= b PROVE Min({a, b}) = a
  BY DEF Min

LEMMA HigherOfTwo == ASSUME NEW a \in Int, NEW b \in Int, a <= b PROVE Max({a, b}) = b
  BY DEF Max

TotalsAreSums == \A i \in Invoices : CompletedTotal(i, receipt, payment) = Sum(i)

LEMMA TotalsNext == (RowTypes => TotalsAreSums)'
  <1>1. RowTypes => TotalsAreSums
    BY TotalIsSum DEF TotalsAreSums
  <1> QED BY <1>1, PTL

\* Recomputing an invoice writes the sum of its payments as they now are.
LEMMA RecomputeWrites ==
    ASSUME IInv', NEW i \in Invoices, Recompute(i), UNCHANGED <<txn, payment>>,
           NEW n \in Nat, Sum(i)' = n, n <= Total[i]
    PROVE  WriteInvoice(i, n, StatusFor(i, n))
  <1>1. RowTypes'
    BY DEF IInv, PaymeInv, StaffInv, RowTypes
  <1>2. TotalsAreSums'
    BY <1>1, TotalsNext
  <1>3. CompletedTotal(i, receipt, payment)' = n
    BY <1>2 DEF TotalsAreSums
  <1>4. CompletedTotal(i, receipt, payment)' = CompletedTotal(i, receipt', payment)
    BY DEF CompletedTotal
  <1>5. Min({n, Total[i]}) = n
    BY TotalType, LowerOfTwo
  <1> QED BY <1>3, <1>4, <1>5 DEF Recompute

LEMMA OpenBalance ==
    ASSUME LedgerInv, NEW i \in Invoices
    PROVE  /\ paid[i] \in Nat /\ Total[i] \in Nat \ {0}
           /\ paid[i] = Sum(i) /\ paid[i] <= Total[i]
           /\ status[i] \in Statuses
           /\ status[i] \in Open => paid[i] < Total[i]
           /\ status[i] = "paid" => paid[i] = Total[i]
           /\ status[i] \in {"absent", "voided"} => paid[i] = 0
  <1>1. status[i] \in Open => status[i] # "paid"
    BY DEF Open
  <1> QED BY <1>1, TotalType DEF LedgerInv, LedgerColumns, StatusTellsBalance

\* A receipt for at most the balance pays, recomputed or added.
LEMMA ReceiptPays ==
    ASSUME LedgerInv, IInv', NEW i \in Invoices, NEW m \in Receipts, NEW a, NEW form,
           Accepts(i, a, form), NewReceipt(i, m, a, form), UNCHANGED <<txn, payment>>,
           Recompute(i) \/ WriteInvoice(i, paid[i] + a, StatusFor(i, paid[i] + a))
    PROVE  m \in Entries /\ a \in Nat /\ Pays(i, m, a)
  <1>1. /\ status[i] \in Open /\ a \in 1..Balance(i) /\ a \in Nat
        /\ paid[i] \in Nat /\ Total[i] \in Nat /\ paid[i] = Sum(i)
    BY OpenBalance DEF Accepts, Balance
  <1>2. paid[i] + a <= Total[i]
    BY <1>1 DEF Balance
  <1>3. RowTypes /\ m \in Entries
    BY Types DEF LedgerInv, Entries
  <1>4. Enters(i, m, a) /\ Others(i)
    BY <1>1, <1>3, NewReceiptEnters DEF Others
  <1>5. Sum(i)' = paid[i] + a
    BY <1>1, <1>3, <1>4, EntersSum
  <1>6. WriteInvoice(i, paid[i] + a, StatusFor(i, paid[i] + a))
    <2> PICK n : n = paid[i] + a
      OBVIOUS
    <2>1. n \in Nat /\ n <= Total[i] /\ Sum(i)' = n
      BY <1>1, <1>2, <1>5
    <2>2. Recompute(i) => WriteInvoice(i, n, StatusFor(i, n))
      BY <2>1, RecomputeWrites
    <2> QED BY <2>2
  <1> QED BY <1>1, <1>3, <1>4, <1>6 DEF Pays, Sets, WriteInvoice

\* A reversed receipt gives its amount back.
LEMMA ReceiptGivesBack ==
    ASSUME LedgerInv, IInv', NEW m \in Receipts, NEW form,
           Reverse(m, form), UNCHANGED <<txn, payment>>,
           NEW i, receipt[m].invoice = i,
           \/ Recompute(i)
           \/ LET newPaid == Max({0, paid[i] - receipt[m].amount})
              IN  WriteInvoice(i, newPaid, StatusFor(i, newPaid))
    PROVE  /\ i \in Invoices /\ m \in Entries
           /\ \E a \in Nat : GivesBack(i, m, a)
  <1> DEFINE a == receipt[m].amount
  <1>1. receipt[m].status = "completed"
    BY DEF Reverse
  <1>2. /\ i \in Invoices /\ m \in Entries /\ RowTypes
        /\ status[i] # "absent" /\ a \in Nat /\ a > 0
    BY <1>1, Types DEF LedgerInv, IInv, StaffInv, ReceiptsPast, RowsStand, Entries, RowTypes, ReceiptRows
  <1>3. Returns(i, m) /\ AmountOf(i)[m] = a /\ Others(i)
    BY <1>2, ReverseReturns DEF Others
  <1>4. Sum(i) = Sum(i)' + a /\ Sum(i)' \in Nat
    BY <1>2, <1>3, ReturnsSum
  <1>5. /\ paid[i] = Sum(i) /\ paid[i] <= Total[i] /\ Total[i] \in Nat
        /\ status[i] \in Statuses /\ (status[i] = "voided" => paid[i] = 0)
    BY <1>2, OpenBalance
  <1>6. status[i] \in Open \cup {"paid"}
    BY <1>2, <1>4, <1>5 DEF Statuses
  <1>7. Max({0, paid[i] - a}) = paid[i] - a
    <2>1. 0 <= paid[i] - a /\ paid[i] - a \in Int
      BY <1>2, <1>4, <1>5
    <2> QED BY <2>1, HigherOfTwo
  <1>8. WriteInvoice(i, paid[i] - a, StatusFor(i, paid[i] - a))
    <2> PICK n : n = paid[i] - a
      OBVIOUS
    <2>1. n \in Nat /\ n <= Total[i] /\ Sum(i)' = n
      BY <1>2, <1>4, <1>5
    <2>2. Recompute(i) => WriteInvoice(i, n, StatusFor(i, n))
      BY <1>2, <2>1, RecomputeWrites
    <2> QED BY <1>7, <2>2
  <1>9. GivesBack(i, m, a)
    BY <1>2, <1>3, <1>6, <1>8 DEF GivesBack, Sets, WriteInvoice
  <1> QED BY <1>2, <1>9

LEMMA SameStill == ASSUME UNCHANGED <<receipt, txn, payment>> PROVE AllStill
  BY UnpaidShowsNot DEF AllStill, SameRequest

LEMMA StaffMoney ==
    ASSUME LedgerInv, IInv', StaffStep
    PROVE  MoneyStep
  <1>1. ASSUME NEW i \in Invoices, Issue(i) PROVE Issues(i)
    BY <1>1, SameStill DEF Issue, CanIssue, Issues, paymeVars
  <1>2. ASSUME NEW i \in Invoices, NEW m \in Receipts, AddPaidInvoice(i, m)
        PROVE  m \in Entries /\ IssuesPaid(i, m)
    <2>1. /\ NewReceipt(i, m, Total[i], version[i]) /\ UNCHANGED <<txn, payment>>
          /\ Total[i] \in Nat /\ RowTypes
      BY <1>2, TotalType, Types DEF AddPaidInvoice, paymeVars, LedgerInv
    <2>2. Enters(i, m, Total[i]) /\ Others(i)
      BY <2>1, NewReceiptEnters DEF Others
    <2> QED BY <1>2, <2>2 DEF AddPaidInvoice, CanIssue, IssuesPaid, Sets, WriteInvoice, Entries
  <1>3. ASSUME NEW i \in Invoices, NEW form, FinanceVoids(i, form) PROVE Voids(i)
    BY <1>3, SameStill DEF FinanceVoids, Voids, Sets, WriteInvoice, paymeVars
  <1>4. ASSUME NEW i \in Invoices, NEW m \in Receipts, NEW a, NEW form,
               FinanceRecords(i, m, a, form) \/ AdmissionsRecords(i, m, a, form)
        PROVE  m \in Entries /\ a \in Nat /\ Pays(i, m, a)
    <2>1. /\ Accepts(i, a, form) /\ NewReceipt(i, m, a, form) /\ UNCHANGED <<txn, payment>>
          /\ Recompute(i) \/ WriteInvoice(i, paid[i] + a, StatusFor(i, paid[i] + a))
      BY <1>4 DEF FinanceRecords, AdmissionsRecords, paymeVars
    <2> QED BY <2>1, ReceiptPays
  <1>5. ASSUME NEW m \in Receipts, NEW form, FinanceReverses(m, form) \/ AdmissionsReverses(m, form)
        PROVE  \E i \in Invoices : \E e \in Entries : \E a \in Nat : GivesBack(i, e, a)
    <2> PICK i : receipt[m].invoice = i
      OBVIOUS
    <2>1. /\ Reverse(m, form) /\ UNCHANGED <<txn, payment>>
          /\ \/ Recompute(i)
             \/ LET newPaid == Max({0, paid[i] - receipt[m].amount})
                IN  WriteInvoice(i, newPaid, StatusFor(i, newPaid))
      BY <1>5 DEF FinanceReverses, AdmissionsReverses, paymeVars
    <2> QED BY <2>1, ReceiptGivesBack
  <1>6. ASSUME NEW a \in Admissions, CancelAdmission(a) PROVE Quiet
    BY <1>6, SameStill DEF CancelAdmission, Quiet, invoiceVars, paymeVars
  <1> QED BY <1>1, <1>2, <1>3, <1>4, <1>5, <1>6 DEF StaffStep, AdmissionsVoids, MoneyStep

\* Payme settles an invoice in full, and a cancelled payment gives back what it paid.
LEMMA PerformPays ==
    ASSUME LedgerInv, NEW t \in Txns, PerformSettles(t)
    PROVE  \E i \in Invoices : \E a \in Nat :
              /\ i = txn[t].invoice /\ t \in Entries /\ Pays(i, t, a)
              /\ paid[i] + a = Total[i] /\ status'[i] = "paid"
  <1>1. txn[t].state = 1 /\ payment[t] = "none" /\ txn[t] \in TxnRows
    BY DEF PerformSettles, LedgerInv, IInv, PaymeInv, PerformingPending, PaymentsMatch, PaymentIn
  <1> PICK i, a : i = txn[t].invoice /\ a = txn[t].amount
    OBVIOUS
  <1>2. i \in Invoices /\ a \in Nat /\ a > 0 /\ RowTypes /\ t \in Entries
    BY <1>1, Types DEF LedgerInv, IInv, PaymeInv, NamesInvoices, RowsStand, TxnRows, Entries
  <1>3. Turns(t, "none", "completed")
    BY <1>1 DEF PerformSettles, Turns, LedgerInv, IInv, PaymeInv, TxnRows
  <1>4. Enters(i, t, a) /\ Others(i)
    BY <1>2, <1>3, PerformEnters DEF Others
  <1>5. /\ status[i] \in Open /\ a = Balance(i)
        /\ WriteInvoice(i, paid[i] + a, IF paid[i] + a >= Total[i] THEN "paid" ELSE "partially_paid")
    BY DEF PerformSettles, Payable
  <1>6. /\ paid[i] \in Nat /\ Total[i] \in Nat \ {0} /\ status \in [Invoices -> Statuses]
    BY <1>2, OpenBalance DEF LedgerInv, LedgerColumns
  <1>7. a \in 1..Balance(i) /\ paid[i] + a = Total[i]
    BY <1>2, <1>5, <1>6 DEF Balance
  <1>8. /\ Sets(i, paid[i] + a, StatusFor(i, paid[i] + a))
        /\ status'[i] = "paid"
    <2>1. paid[i] + a >= Total[i]
      BY <1>6, <1>7
    <2>2. StatusFor(i, paid[i] + a) = "paid"
      BY <2>1 DEF StatusFor
    <2>3. WriteInvoice(i, paid[i] + a, "paid")
      BY <1>5, <2>1
    <2> QED BY <1>2, <1>6, <2>2, <2>3 DEF Sets, WriteInvoice
  <1> QED BY <1>2, <1>4, <1>5, <1>7, <1>8 DEF Pays

LEMMA CancelGivesBack ==
    ASSUME LedgerInv, NEW t \in Txns, CancelsPerformed(t)
    PROVE  \E i \in Invoices : \E a \in Nat : t \in Entries /\ GivesBack(i, t, a)
  <1>1. txn[t].state = 2 /\ payment[t] = "completed" /\ txn[t] \in TxnRows
    BY DEF CancelsPerformed, LedgerInv, IInv, PaymeInv, PaymentsMatch, PaymentIn
  <1> PICK i, a : i = txn[t].invoice /\ a = txn[t].amount
    OBVIOUS
  <1>2. /\ i \in Invoices /\ a \in Nat /\ a > 0 /\ RowTypes /\ t \in Entries
        /\ status[i] # "absent"
    BY <1>1, Types DEF LedgerInv, IInv, PaymeInv, NamesInvoices, RowsStand, TxnRows, Entries
  <1>3. Turns(t, "completed", "refunded")
    BY <1>1 DEF CancelsPerformed, Turns, LedgerInv, IInv, PaymeInv, TxnRows
  <1>4. Returns(i, t) /\ AmountOf(i)[t] = a /\ Others(i)
    BY <1>2, <1>3, CancelReturns DEF Others
  <1>5. Sum(i) = Sum(i)' + a /\ Sum(i)' \in Nat
    BY <1>2, <1>4, ReturnsSum
  <1>6. /\ paid[i] = Sum(i) /\ paid[i] <= Total[i] /\ Total[i] \in Nat
        /\ status[i] \in Statuses /\ (status[i] = "voided" => paid[i] = 0)
    BY <1>2, OpenBalance
  <1>7. status[i] \in Open \cup {"paid"}
    BY <1>2, <1>5, <1>6 DEF Statuses
  <1>8. /\ Max({0, paid[i] - a}) = paid[i] - a
        /\ paid[i] - a \in Nat /\ paid[i] - a < Total[i]
    <2>1. 0 <= paid[i] - a /\ paid[i] - a \in Int /\ paid[i] - a < Total[i]
      BY <1>2, <1>5, <1>6
    <2> QED BY <2>1, HigherOfTwo
  <1>9. WriteInvoice(i, paid[i] - a, IF paid[i] - a = 0 THEN "issued" ELSE "partially_paid")
    BY <1>8 DEF CancelsPerformed
  <1>10. StatusFor(i, paid[i] - a) = IF paid[i] - a = 0 THEN "issued" ELSE "partially_paid"
    BY <1>6, <1>8 DEF StatusFor
  <1>11. GivesBack(i, t, a)
    BY <1>2, <1>4, <1>7, <1>9, <1>10 DEF GivesBack, Sets, WriteInvoice
  <1> QED BY <1>2, <1>11

\* No other call of Payme moves money.
LEMMA PaymeMoney ==
    ASSUME LedgerInv, PaymeStep
    PROVE  MoneyStep
  <1>1. ASSUME NEW r \in Requests, CreateInserts(r) PROVE Quiet
    <2> DEFINE q == request[r]
               new == [state |-> 1, invoice |-> q.invoice, amount |-> q.amount]
    <2>1. /\ UNCHANGED <<invoiceVars, receipt, payment>>
          /\ txn' = txn \/ (txn[q.txn].state = 0 /\ txn' = [txn EXCEPT ![q.txn] = new])
      BY <1>1 DEF CreateInserts
    <2>2. \A t \in Txns : payment[t] = "none" \/ SameRequest(t)
      <3> SUFFICES ASSUME NEW t \in Txns, payment[t] # "none" PROVE SameRequest(t)
        OBVIOUS
      <3>1. txn[t].state # 0
        BY DEF LedgerInv, IInv, PaymeInv, PaymentsMatch, PaymentIn
      <3> HIDE DEF new
      <3> QED BY <2>1, <3>1 DEF LedgerInv, IInv, PaymeInv, SameRequest
    <2>3. UNCHANGED <<receipt, payment>>
      BY <2>1
    <2>4. AllStill
      BY <2>2, <2>3, UnpaidShowsNot DEF AllStill
    <2> QED BY <2>1, <2>4 DEF Quiet, invoiceVars
  <1>2. ASSUME NEW t \in Txns, PerformExpires(t) \/ CancelsPending(t) PROVE Quiet
    <2>1. /\ UNCHANGED <<invoiceVars, receipt, payment>>
          /\ txn' = [txn EXCEPT ![t].state = -1]
      BY <1>2 DEF PerformExpires, CancelsPending
    <2>2. \A u \in Txns : SameRequest(u)
      BY <2>1 DEF LedgerInv, IInv, PaymeInv, TxnRows, SameRequest
    <2>3. UNCHANGED <<receipt, payment>>
      BY <2>1
    <2>4. AllStill
      BY <2>2, <2>3, UnpaidShowsNot DEF AllStill
    <2> QED BY <2>1, <2>4 DEF Quiet, invoiceVars
  <1>3. ASSUME \/ \E r \in Requests, t \in Txns, i \in Invoices : \E amount \in 1..Total[i] :
                    CreateLooksUp(r, t, i, amount)
               \/ \E t \in Txns : PerformReads(t) \/ PerformFails(t)
        PROVE  Quiet
    BY <1>3, SameStill DEF CreateLooksUp, PerformReads, PerformFails, Quiet, invoiceVars, paymeVars
  <1>4. ASSUME NEW t \in Txns, PerformSettles(t) PROVE MoneyStep
    BY <1>4, PerformPays DEF MoneyStep
  <1>5. ASSUME NEW t \in Txns, CancelsPerformed(t) PROVE MoneyStep
    BY <1>5, CancelGivesBack DEF MoneyStep
  <1> QED BY <1>1, <1>2, <1>3, <1>4, <1>5 DEF PaymeStep, MoneyStep

LEMMA EveryStepMoney ==
    ASSUME LedgerInv, IInv', [Next]_vars
    PROVE  MoneyStep
  <1>1. ASSUME WorldStep \/ UNCHANGED vars PROVE Quiet
    BY <1>1, SameStill DEF WorldStep, BecomesLate, ServiceStarts, EligibilityChanges, Quiet,
                           vars, invoiceVars, paymeVars
  <1> QED BY <1>1, StaffMoney, PaymeMoney DEF Next, MoneyStep

-----------------------------------------------------------------------------
(* The ledger is an invariant. *)

\* After a write of n to invoice i, whose payments then come to n, the columns still tell.
LEMMA ColumnsKept ==
    ASSUME LedgerInv, NEW i \in Invoices, NEW n \in Nat, NEW s \in Statuses,
           n <= Total[i], Sum(i)' = n, Others(i), Sets(i, n, s),
           s = "paid" <=> n = Total[i],
           s = "partially_paid" <=> n \in 1..(Total[i] - 1),
           s \in {"absent", "voided"} => n = 0
    PROVE  LedgerColumns'
  <1>1. /\ status' \in [Invoices -> Statuses] /\ paid' \in [Invoices -> Nat]
        /\ paid'[i] = n /\ status'[i] = s
        /\ \A j \in Invoices \ {i} : paid'[j] = paid[j] /\ status'[j] = status[j]
    BY DEF LedgerInv, LedgerColumns, Sets
  <1>2. \A j \in Invoices \ {i} : Sum(j)' = Sum(j)
    BY StillSum DEF Others
  <1>3. \A j \in Invoices : paid'[j] = Sum(j)' /\ paid'[j] <= Total[j]
    BY <1>1, <1>2 DEF LedgerInv, LedgerColumns
  <1>4. StatusTellsBalance'
    BY <1>1 DEF LedgerInv, LedgerColumns, StatusTellsBalance
  <1>5. \A j \in Invoices : status'[j] \in {"absent", "voided"} => paid'[j] = 0
    BY <1>1 DEF LedgerInv, LedgerColumns
  <1> QED BY <1>1, <1>3, <1>4, <1>5 DEF LedgerColumns

\* What StatusFor names.
LEMMA StatusForTells ==
    ASSUME NEW i \in Invoices, NEW n \in Nat, n <= Total[i]
    PROVE  /\ StatusFor(i, n) \in Statuses \ {"absent", "voided"}
           /\ StatusFor(i, n) = "paid" <=> n = Total[i]
           /\ StatusFor(i, n) = "partially_paid" <=> n \in 1..(Total[i] - 1)
  <1>1. Total[i] \in Nat \ {0}
    BY TotalType
  <1>2. CASE n = Total[i]
    BY <1>1, <1>2 DEF StatusFor, Statuses, Open
  <1>3. CASE n # Total[i] /\ n > 0
    BY <1>1, <1>3 DEF StatusFor, Statuses, Open
  <1>4. CASE n # Total[i] /\ n = 0
    BY <1>1, <1>4 DEF StatusFor, Statuses, Open
  <1> QED BY <1>2, <1>3, <1>4

LEMMA MoneyKeepsColumns ==
    ASSUME LedgerInv, MoneyStep
    PROVE  LedgerColumns'
  <1>0. RowTypes /\ status \in [Invoices -> Statuses] /\ paid \in [Invoices -> Nat]
    BY Types DEF LedgerInv, LedgerColumns
  <1>1. CASE Quiet
    <2>1. \A j \in Invoices : Sum(j)' = Sum(j)
      BY <1>1, StillSum DEF Quiet, AllStill
    <2> QED BY <1>1, <2>1 DEF Quiet, LedgerInv, LedgerColumns, StatusTellsBalance
  <1>2. ASSUME NEW i \in Invoices, Issues(i) PROVE LedgerColumns'
    <2>1. Sum(i)' = Sum(i) /\ Others(i)
      BY <1>2, StillSum DEF Issues, AllStill, Others
    <2>2. paid[i] = 0 /\ Sum(i) = 0 /\ Total[i] \in Nat \ {0} /\ "issued" \in Statuses
      BY <1>2, OpenBalance DEF Issues, Statuses, Open
    <2>3. Sets(i, 0, "issued")
      BY <1>0, <1>2, <2>2 DEF Issues, Sets
    <2> QED BY <2>1, <2>2, <2>3, ColumnsKept
  <1>3. ASSUME NEW i \in Invoices, Voids(i) PROVE LedgerColumns'
    <2>1. Sum(i)' = Sum(i) /\ Others(i)
      BY <1>3, StillSum DEF Voids, AllStill, Others
    <2>2. Sum(i) = 0 /\ Total[i] \in Nat \ {0} /\ "voided" \in Statuses
      BY <1>3, OpenBalance DEF Voids, Statuses
    <2> QED BY <1>3, <2>1, <2>2, ColumnsKept DEF Voids
  <1>4. ASSUME NEW i \in Invoices, NEW e \in Entries, IssuesPaid(i, e) PROVE LedgerColumns'
    <2>1. paid[i] = 0 /\ Sum(i) = 0 /\ Total[i] \in Nat \ {0} /\ "paid" \in Statuses
      BY <1>4, OpenBalance DEF IssuesPaid, Statuses
    <2>2. Sum(i)' = Sum(i) + Total[i]
      BY <1>0, <1>4, <2>1, EntersSum DEF IssuesPaid
    <2>3. Sum(i)' = Total[i] /\ Total[i] \notin 1..(Total[i] - 1)
      BY <2>1, <2>2
    <2> QED BY <1>4, <2>1, <2>3, ColumnsKept DEF IssuesPaid
  <1>5. ASSUME NEW i \in Invoices, NEW e \in Entries, NEW a \in Nat, Pays(i, e, a)
        PROVE  LedgerColumns'
    <2> PICK n : n = paid[i] + a
      OBVIOUS
    <2>1. /\ paid[i] = Sum(i) /\ n \in Nat /\ n <= Total[i]
      BY <1>5, OpenBalance DEF Pays, Balance
    <2>2. Sum(i)' = n
      BY <1>0, <1>5, <2>1, EntersSum DEF Pays
    <2>3. Others(i) /\ Sets(i, n, StatusFor(i, n))
      BY <1>5 DEF Pays
    <2> QED BY <2>1, <2>2, <2>3, StatusForTells, ColumnsKept
  <1>6. ASSUME NEW i \in Invoices, NEW e \in Entries, NEW a \in Nat, GivesBack(i, e, a)
        PROVE  LedgerColumns'
    <2> PICK n : n = paid[i] - a
      OBVIOUS
    <2>1. Sum(i) = Sum(i)' + a /\ Sum(i)' \in Nat
      BY <1>0, <1>6, ReturnsSum DEF GivesBack
    <2>2. /\ Sum(i)' = n /\ n \in Nat /\ n <= Total[i]
      BY <2>1, OpenBalance
    <2>3. Others(i) /\ Sets(i, n, StatusFor(i, n))
      BY <1>6 DEF GivesBack
    <2> QED BY <2>2, <2>3, StatusForTells, ColumnsKept
  <1> QED BY <1>1, <1>2, <1>3, <1>4, <1>5, <1>6 DEF MoneyStep

\* An invoice that was issued stays so, and one that is written has been.
IssuedStay == \A i \in Invoices : status[i] # "absent" => status'[i] # "absent"

LEMMA MoneyKeepsIssued ==
    ASSUME LedgerInv, MoneyStep
    PROVE  IssuedStay
  <1>1. status \in [Invoices -> Statuses] /\ \A i \in Invoices : Total[i] \in Nat /\ paid[i] \in Nat
    BY OpenBalance DEF LedgerInv, LedgerColumns
  <1>2. ASSUME NEW i \in Invoices, NEW n, NEW s, s # "absent", Sets(i, n, s) PROVE IssuedStay
    BY <1>1, <1>2 DEF IssuedStay, Sets
  <1>3. \A i, n : StatusFor(i, n) # "absent"
    BY DEF StatusFor
  <1>4. ASSUME NEW i \in Invoices, Issues(i) PROVE IssuedStay
    BY <1>1, <1>4 DEF IssuedStay, Issues
  <1>5. ASSUME NEW i \in Invoices, Voids(i) PROVE IssuedStay
    BY <1>2, <1>5 DEF Voids
  <1>6. ASSUME NEW i \in Invoices, NEW e, IssuesPaid(i, e) PROVE IssuedStay
    BY <1>2, <1>6 DEF IssuesPaid
  <1>7. ASSUME NEW i \in Invoices, NEW e, NEW a, Pays(i, e, a) \/ GivesBack(i, e, a) PROVE IssuedStay
    BY <1>2, <1>3, <1>7 DEF Pays, GivesBack
  <1>8. ASSUME Quiet PROVE IssuedStay
    BY <1>8 DEF Quiet, IssuedStay
  <1> QED BY <1>4, <1>5, <1>6, <1>7, <1>8 DEF MoneyStep

\* Receipts are made for some money, of an invoice that is issued at the end of the step.
ReceiptsStand ==
    \A m \in Receipts : receipt[m].status # "none" =>
        receipt[m].amount > 0 /\ status[receipt[m].invoice] # "absent"

LEMMA ReceiptMade ==
    ASSUME LedgerInv, IssuedStay, NEW i \in Invoices, NEW m \in Receipts, NEW a, NEW form,
           NewReceipt(i, m, a, form), a > 0, status'[i] # "absent"
    PROVE  ReceiptsStand'
  <1>1. /\ receipt'[m].amount = a /\ receipt'[m].invoice = i
        /\ \A n \in Receipts \ {m} : receipt'[n] = receipt[n]
    BY DEF NewReceipt, LedgerInv, IInv, StaffInv
  <1>2. \A n \in Receipts : receipt[n].status # "none" => receipt[n].invoice \in Invoices
    BY DEF LedgerInv, IInv, StaffInv, ReceiptsPast
  <1> QED BY <1>1, <1>2 DEF ReceiptsStand, IssuedStay, LedgerInv, RowsStand

LEMMA ReceiptsKept ==
    ASSUME LedgerInv, IssuedStay,
           UNCHANGED receipt \/ \E m \in Receipts : \E form : Reverse(m, form)
    PROVE  ReceiptsStand'
  <1>1. \A n \in Receipts : receipt[n].status # "none" => receipt[n].invoice \in Invoices
    BY DEF LedgerInv, IInv, StaffInv, ReceiptsPast
  <1>2. \A n \in Receipts : /\ receipt'[n].invoice = receipt[n].invoice
                            /\ receipt'[n].amount = receipt[n].amount
                            /\ receipt'[n].status # "none" => receipt[n].status # "none"
    BY DEF Reverse, LedgerInv, IInv, StaffInv, ReceiptRows
  <1> QED BY <1>1, <1>2 DEF ReceiptsStand, IssuedStay, LedgerInv, RowsStand

LEMMA StaffReceipts ==
    ASSUME LedgerInv, IssuedStay, StaffStep
    PROVE  ReceiptsStand'
  <1>0. status \in [Invoices -> Statuses]
    BY DEF LedgerInv, LedgerColumns
  <1>1. ASSUME NEW i \in Invoices, NEW m \in Receipts, AddPaidInvoice(i, m) PROVE ReceiptsStand'
    <2>1. NewReceipt(i, m, Total[i], version[i]) /\ status'[i] = "paid" /\ Total[i] > 0
      BY <1>0, <1>1, TotalType DEF AddPaidInvoice, WriteInvoice
    <2> QED BY <2>1, ReceiptMade
  <1>2. ASSUME NEW i \in Invoices, NEW m \in Receipts, NEW a, NEW form,
               FinanceRecords(i, m, a, form) \/ AdmissionsRecords(i, m, a, form)
        PROVE  ReceiptsStand'
    <2>1. NewReceipt(i, m, a, form) /\ status[i] \in Open /\ a \in 1..Balance(i)
      BY <1>2 DEF FinanceRecords, AdmissionsRecords, Accepts
    <2>2. a > 0 /\ status'[i] # "absent"
      BY <2>1, OpenBalance DEF IssuedStay, Open, Balance
    <2> QED BY <2>1, <2>2, ReceiptMade
  <1>3. ASSUME NEW m \in Receipts, NEW form, FinanceReverses(m, form) \/ AdmissionsReverses(m, form)
        PROVE  ReceiptsStand'
    BY <1>3, ReceiptsKept DEF FinanceReverses, AdmissionsReverses
  <1>4. ASSUME \/ \E i \in Invoices : Issue(i) \/ \E form : FinanceVoids(i, form)
               \/ \E a \in Admissions : CancelAdmission(a)
        PROVE  ReceiptsStand'
    BY <1>4, ReceiptsKept DEF Issue, FinanceVoids, CancelAdmission
  <1> QED BY <1>1, <1>2, <1>3, <1>4 DEF StaffStep, AdmissionsVoids

\* Transactions and calls.
CallsStand ==
    /\ \A t \in Txns : txn[t].state # 0 =>
         txn[t].amount > 0 /\ status[txn[t].invoice] # "absent"
    /\ \A r \in Requests : request[r].answer = "looking" => status[request[r].invoice] # "absent"

LEMMA CallsKept ==
    ASSUME LedgerInv, IssuedStay, UNCHANGED request,
           \A t \in Txns : SameRequest(t) /\ (txn[t].state = 0 => txn'[t].state = 0)
    PROVE  CallsStand'
  <1>1. /\ \A t \in Txns : txn[t].state # 0 => txn[t].invoice \in Invoices
        /\ \A r \in Requests : request[r].answer = "looking" => request[r].invoice \in Invoices
    BY DEF LedgerInv, IInv, PaymeInv, NamesInvoices
  <1>2. ASSUME NEW t \in Txns, txn'[t].state # 0
        PROVE  txn'[t].amount > 0 /\ status'[txn'[t].invoice] # "absent"
    <2>1. txn[t].state # 0 /\ SameRequest(t)
      BY <1>2
    <2>2. txn[t].amount > 0 /\ status[txn[t].invoice] # "absent"
      BY <2>1 DEF LedgerInv, RowsStand
    <2>3. status'[txn[t].invoice] # "absent"
      BY <1>1, <2>1, <2>2 DEF IssuedStay
    <2> QED BY <2>1, <2>2, <2>3 DEF SameRequest
  <1>3. ASSUME NEW r \in Requests, request'[r].answer = "looking"
        PROVE  status'[request'[r].invoice] # "absent"
    BY <1>1, <1>3 DEF IssuedStay, LedgerInv, RowsStand
  <1> QED BY <1>2, <1>3 DEF CallsStand

LEMMA PaymeCalls ==
    ASSUME LedgerInv, IssuedStay, PaymeStep
    PROVE  CallsStand'
  <1>0. /\ \A t \in Txns : txn[t].state # 0 => txn[t].invoice \in Invoices
        /\ \A r \in Requests : request[r].answer = "looking" =>
             request[r].txn \in Txns /\ request[r].invoice \in Invoices
        /\ txn \in [Txns -> TxnRows] /\ request \in [Requests -> CallRows]
    BY DEF LedgerInv, IInv, PaymeInv, NamesInvoices
  <1>1. ASSUME NEW r \in Requests, CreateInserts(r) PROVE CallsStand'
    <2> DEFINE q == request[r]
               new == [state |-> 1, invoice |-> q.invoice, amount |-> q.amount]
               accepted == /\ Payable(q.invoice, q.amount) /\ PayerAdmits(q.invoice)
                           /\ ~Pending(q.invoice)
               answer == IF accepted THEN "persisted" ELSE "refused"
    <2>1. /\ q.answer = "looking" /\ request' = [request EXCEPT ![r] = Answered(answer)]
          /\ txn' = IF accepted /\ txn[q.txn].state = 0 THEN [txn EXCEPT ![q.txn] = new] ELSE txn
      BY <1>1 DEF CreateInserts
    <2>2. Answered(answer).answer # "looking"
      BY AnswerType
    <2>3. \A s \in Requests : request'[s].answer = "looking" => status'[request'[s].invoice] # "absent"
      <3> HIDE DEF answer
      <3> QED BY <1>0, <2>1, <2>2 DEF IssuedStay, LedgerInv, RowsStand
    <2>4. accepted => q.amount > 0 /\ status'[q.invoice] # "absent"
      <3> SUFFICES ASSUME accepted PROVE q.amount > 0 /\ status'[q.invoice] # "absent"
        OBVIOUS
      <3>1. q.invoice \in Invoices /\ status[q.invoice] \in Open /\ q.amount = Balance(q.invoice)
        BY <1>0, <2>1 DEF Payable
      <3> HIDE DEF accepted, q
      <3> QED BY <3>1, OpenBalance DEF Balance, IssuedStay, Open
    <2>5. \A t \in Txns : txn'[t].state # 0 =>
             txn'[t].amount > 0 /\ status'[txn'[t].invoice] # "absent"
      <3> SUFFICES ASSUME NEW t \in Txns, txn'[t].state # 0
                   PROVE  txn'[t].amount > 0 /\ status'[txn'[t].invoice] # "absent"
        OBVIOUS
      <3> HIDE DEF accepted
      <3>1. CASE txn'[t] = txn[t]
        BY <1>0, <3>1 DEF IssuedStay, LedgerInv, RowsStand
      <3>2. CASE txn'[t] # txn[t]
        <4>1. accepted /\ txn'[t] = new
          BY <1>0, <2>1, <3>2
        <4> QED BY <2>4, <4>1
      <3> QED BY <3>1, <3>2
    <2> QED BY <2>3, <2>5 DEF CallsStand
  <1>2. ASSUME NEW r \in Requests, NEW t \in Txns, NEW i \in Invoices, NEW a, status[i] # "absent",
               CreateLooksUp(r, t, i, a)
        PROVE  CallsStand'
    <2> DEFINE looking == [txn |-> t, invoice |-> i, amount |-> a, answer |-> "looking"]
               found == IF txn[t].invoice = i /\ txn[t].amount = a THEN "persisted" ELSE "refused"
               call == IF txn[t].state = 0 THEN looking ELSE Answered(found)
    <2>1. request' = [request EXCEPT ![r] = call] /\ UNCHANGED txn
      BY <1>2 DEF CreateLooksUp, paymeVars
    <2>2. Answered(found).answer # "looking"
      BY AnswerType
    <2>3. call.answer = "looking" => call.invoice = i
      BY <2>2
    <2> HIDE DEF call
    <2>4. \A s \in Requests : request'[s].answer = "looking" => status'[request'[s].invoice] # "absent"
      BY <1>0, <1>2, <2>1, <2>3 DEF IssuedStay, LedgerInv, RowsStand
    <2> QED BY <1>0, <2>1, <2>4 DEF CallsStand, IssuedStay, LedgerInv, RowsStand
  <1>3. ASSUME NEW t \in Txns, NEW n \in {2, -1, -2}, txn' = [txn EXCEPT ![t].state = n],
               txn[t].state # 0, UNCHANGED request
        PROVE  CallsStand'
    <2>1. \A u \in Txns : SameRequest(u) /\ (txn[u].state = 0 => txn'[u].state = 0)
      BY <1>0, <1>3 DEF SameRequest, TxnRows
    <2> QED BY <1>3, <2>1, CallsKept
  <1>4. ASSUME NEW t \in Txns, PerformSettles(t) PROVE CallsStand'
    <2>1. txn[t].state # 0 /\ 2 \in {2, -1, -2}
      BY <1>4 DEF PerformSettles, LedgerInv, IInv, PaymeInv, PerformingPending
    <2>2. txn' = [txn EXCEPT ![t].state = 2] /\ UNCHANGED request
      BY <1>4 DEF PerformSettles
    <2> QED BY <1>3, <2>1, <2>2, Zenon
  <1>5. ASSUME NEW t \in Txns, PerformExpires(t) \/ CancelsPending(t) \/ CancelsPerformed(t)
        PROVE  CallsStand'
    BY <1>3, <1>5 DEF PerformExpires, CancelsPending, CancelsPerformed
  <1>6. ASSUME NEW t \in Txns, PerformReads(t) \/ PerformFails(t) PROVE CallsStand'
    <2>1. UNCHANGED <<txn, request>>
      BY <1>6 DEF PerformReads, PerformFails
    <2> QED BY <2>1, CallsKept DEF SameRequest
  <1> QED BY <1>1, <1>2, <1>4, <1>5, <1>6 DEF PaymeStep

-----------------------------------------------------------------------------
(* What the steps of each side leave alone.                                *)

Apart == <<txn, payment, request, late, eligible, serviceStarted>>

LEMMA StaffFrame == StaffStep => UNCHANGED Apart
  <1> SUFFICES ASSUME StaffStep PROVE UNCHANGED Apart
    OBVIOUS
  <1> USE DEF Apart, paymeVars, payerVars
  <1>1. ASSUME NEW i \in Invoices, Issue(i) PROVE UNCHANGED Apart
    BY <1>1 DEF Issue
  <1>2. ASSUME NEW i \in Invoices, NEW m \in Receipts, AddPaidInvoice(i, m)
        PROVE  UNCHANGED Apart
    BY <1>2 DEF AddPaidInvoice
  <1>3. ASSUME NEW i \in Invoices, NEW form, FinanceVoids(i, form) PROVE UNCHANGED Apart
    BY <1>3 DEF FinanceVoids
  <1>4. ASSUME NEW i \in Invoices, NEW form, AdmissionsVoids(i, form) PROVE UNCHANGED Apart
    BY <1>3, <1>4 DEF AdmissionsVoids
  <1>5. ASSUME NEW i \in Invoices, NEW m \in Receipts, NEW a, NEW form, FinanceRecords(i, m, a, form)
        PROVE  UNCHANGED Apart
    BY <1>5 DEF FinanceRecords
  <1>6. ASSUME NEW i \in Invoices, NEW m \in Receipts, NEW a, NEW form,
               AdmissionsRecords(i, m, a, form)
        PROVE  UNCHANGED Apart
    BY <1>6 DEF AdmissionsRecords
  <1>7. ASSUME NEW m \in Receipts, NEW form, FinanceReverses(m, form) PROVE UNCHANGED Apart
    BY <1>7 DEF FinanceReverses
  <1>8. ASSUME NEW m \in Receipts, NEW form, AdmissionsReverses(m, form) PROVE UNCHANGED Apart
    BY <1>8 DEF AdmissionsReverses
  <1>9. ASSUME NEW a \in Admissions, CancelAdmission(a) PROVE UNCHANGED Apart
    BY <1>9 DEF CancelAdmission
  <1> HIDE DEF Apart
  <1> QED BY <1>1, <1>2, <1>3, <1>4, <1>5, <1>6, <1>7, <1>8, <1>9 DEF StaffStep

LEMMA PaymeFrame == PaymeStep => UNCHANGED <<receipt, late, eligible, serviceStarted>>
  <1> SUFFICES ASSUME PaymeStep PROVE UNCHANGED <<receipt, late, eligible, serviceStarted>>
    OBVIOUS
  <1> DEFINE FourStay == UNCHANGED <<receipt, late, eligible, serviceStarted>>
  <1>1. ASSUME NEW r \in Requests, CreateInserts(r) PROVE FourStay
    BY <1>1 DEF CreateInserts, payerVars
  <1>2. ASSUME NEW r \in Requests, NEW t \in Txns, NEW i \in Invoices, NEW a,
               CreateLooksUp(r, t, i, a)
        PROVE  FourStay
    BY <1>2 DEF CreateLooksUp, paymeVars, payerVars
  <1>3. ASSUME NEW t \in Txns, PerformReads(t) \/ PerformFails(t) PROVE FourStay
    BY <1>3 DEF PerformReads, PerformFails, payerVars
  <1>4. ASSUME NEW t \in Txns, PerformSettles(t) PROVE FourStay
    BY <1>4 DEF PerformSettles, payerVars
  <1>5. ASSUME NEW t \in Txns, PerformExpires(t) \/ CancelsPending(t) PROVE FourStay
    BY <1>5 DEF PerformExpires, CancelsPending, payerVars
  <1>6. ASSUME NEW t \in Txns, CancelsPerformed(t) PROVE FourStay
    BY <1>6 DEF CancelsPerformed, payerVars
  <1> HIDE DEF FourStay
  <1>7. FourStay
    BY <1>1, <1>2, <1>3, <1>4, <1>5, <1>6 DEF PaymeStep
  <1> QED BY <1>7 DEF FourStay

LEMMA QuietFrame ==
    ASSUME \/ StaffStep \/ WorldStep \/ UNCHANGED vars
           \/ \E r \in Requests, t \in Txns, i \in Invoices : \E a \in 1..Total[i] :
                 CreateLooksUp(r, t, i, a)
           \/ \E t \in Txns : PerformReads(t) \/ PerformFails(t)
    PROVE  UNCHANGED <<txn, payment>>
  <1>1. CASE StaffStep
    BY <1>1, StaffFrame DEF Apart
  <1>2. CASE WorldStep
    BY <1>2 DEF WorldStep, BecomesLate, ServiceStarts, EligibilityChanges, paymeVars
  <1>3. CASE UNCHANGED vars
    BY <1>3 DEF vars, paymeVars
  <1>4. CASE \E r \in Requests, t \in Txns, i \in Invoices : \E a \in 1..Total[i] :
                CreateLooksUp(r, t, i, a)
    BY <1>4 DEF CreateLooksUp, paymeVars
  <1>5. CASE \E t \in Txns : PerformReads(t) \/ PerformFails(t)
    BY <1>5 DEF PerformReads, PerformFails
  <1> QED BY <1>1, <1>2, <1>3, <1>4, <1>5

LEMMA LedgerStep == LedgerInv /\ IInv' /\ [Next]_vars => LedgerInv'
  <1> SUFFICES ASSUME LedgerInv, IInv', [Next]_vars PROVE LedgerInv'
    OBVIOUS
  <1>1. MoneyStep /\ IssuedStay /\ LedgerColumns'
    BY EveryStepMoney, MoneyKeepsIssued, MoneyKeepsColumns
  <1>2. CASE StaffStep
    <2>1. UNCHANGED <<txn, request>>
      BY <1>2, StaffFrame DEF Apart
    <2>2. CallsStand'
      BY <1>1, <2>1, CallsKept DEF SameRequest
    <2> QED BY <1>1, <1>2, <2>2, StaffReceipts DEF LedgerInv, RowsStand, ReceiptsStand, CallsStand
  <1>3. CASE PaymeStep
    <2>1. UNCHANGED receipt
      BY <1>3, PaymeFrame
    <2>2. ReceiptsStand'
      BY <1>1, <2>1, ReceiptsKept
    <2> QED BY <1>1, <1>3, <2>2, PaymeCalls DEF LedgerInv, RowsStand, ReceiptsStand, CallsStand
  <1>4. CASE WorldStep \/ UNCHANGED vars
    <2>1. UNCHANGED <<txn, request, receipt>>
      BY <1>4 DEF WorldStep, BecomesLate, ServiceStarts, EligibilityChanges, vars, paymeVars
    <2>2. CallsStand'
      BY <1>1, <2>1, CallsKept DEF SameRequest
    <2>3. ReceiptsStand'
      BY <1>1, <2>1, ReceiptsKept
    <2> QED BY <1>1, <2>2, <2>3 DEF LedgerInv, RowsStand, ReceiptsStand, CallsStand
  <1> QED BY <1>2, <1>3, <1>4 DEF Next

LEMMA LedgerInit == Init => LedgerColumns /\ RowsStand
  <1> SUFFICES ASSUME Init PROVE LedgerColumns /\ RowsStand
    OBVIOUS
  <1>1. RowsStand
    BY DEF Init, RowsStand, NoReceipt, NoRow, Answered
  <1>2. ASSUME NEW i \in Invoices PROVE Sum(i) = 0
    <2>1. \A m \in Receipts : receipt[m].status = "none"
      BY DEF Init, NoReceipt
    <2>2. \A t \in Txns : payment[t] = "none"
      BY DEF Init
    <2>3. Done(i) = {}
      BY <2>1, <2>2, EntryOfReceipt, EntryOfTxn DEF Done, Entries, ReceiptShows, TxnShows
    <2> QED BY <2>3, SumEmpty DEF Sum
  <1>3. \A i \in Invoices : Total[i] \in Nat \ {0} /\ status[i] = "absent" /\ paid[i] = 0
    BY TotalType DEF Init
  <1>4. status \in [Invoices -> Statuses] /\ paid \in [Invoices -> Nat]
    BY DEF Init, Statuses
  <1> QED BY <1>1, <1>2, <1>3, <1>4 DEF LedgerColumns, StatusTellsBalance

LEMMA LedgerInvariance == Spec => []LedgerInv
  <1>1. Init => LedgerInv
    BY IInvInit, LedgerInit DEF LedgerInv
  <1> QED BY <1>1, LedgerStep, Invariance, PTL DEF Spec

-----------------------------------------------------------------------------
(* Admissions: a record for each settlement.                                *)

Stages == {"awaiting_payment", "active", "payment_review", "cancelled"}
Active(a) == IF admission[a] = "active" THEN 1 ELSE 0

\* Beyond the record of the present activation, each one is paid for by a payment that
\* was returned.
RecordsMatched ==
    \A a \in Admissions : enrolled[a] <= Cardinality(ReturnedTo(a)) + Active(a)

EnrolInv ==
    /\ late \in [Txns -> BOOLEAN]
    /\ eligible \in [Payers -> BOOLEAN]
    /\ serviceStarted \in [Admissions -> BOOLEAN]
    /\ admission \in [Admissions -> Stages]
    /\ enrolled \in [Admissions -> Nat]
    /\ RecordsMatched

ReturnedStay == \A a \in Admissions : ReturnedTo(a) \subseteq ReturnedTo(a)'
Returned(a, e) == e \notin ReturnedTo(a) /\ e \in ReturnedTo(a)'

LEMMA ReturnedFinite ==
    ASSUME NEW a
    PROVE  /\ IsFiniteSet(ReturnedTo(a)) /\ Cardinality(ReturnedTo(a)) \in Nat
           /\ IsFiniteSet(ReturnedTo(a)') /\ Cardinality(ReturnedTo(a)') \in Nat
  <1>1. ReturnedTo(a) \subseteq Entries /\ ReturnedTo(a)' \subseteq Entries
    BY DEF ReturnedTo, Entries
  <1>2. IsFiniteSet(ReturnedTo(a)) /\ IsFiniteSet(ReturnedTo(a)')
    BY <1>1, EntriesFinite, FS_Subset
  <1> QED BY <1>2, FS_CardinalityType

LEMMA ReturnedCounts ==
    ASSUME ReturnedStay, NEW a \in Admissions
    PROVE  /\ Cardinality(ReturnedTo(a)) <= Cardinality(ReturnedTo(a)')
           /\ \A e : Returned(a, e) => Cardinality(ReturnedTo(a)) + 1 <= Cardinality(ReturnedTo(a)')
  <1> PICK after : after = ReturnedTo(a)'
    OBVIOUS
  <1>1. ReturnedTo(a) \subseteq after /\ IsFiniteSet(after) /\ IsFiniteSet(ReturnedTo(a))
    BY ReturnedFinite DEF ReturnedStay
  <1>2. Cardinality(ReturnedTo(a)) <= Cardinality(after)
    BY <1>1, FS_Subset
  <1>3. ASSUME NEW e, Returned(a, e)
        PROVE  Cardinality(ReturnedTo(a)) + 1 <= Cardinality(after)
    <2>1. e \notin ReturnedTo(a) /\ ReturnedTo(a) \cup {e} \in SUBSET after
      BY <1>1, <1>3 DEF Returned
    <2>2. Cardinality(ReturnedTo(a) \cup {e}) = Cardinality(ReturnedTo(a)) + 1
      BY <1>1, <2>1, FS_AddElement
    <2>3. Cardinality(ReturnedTo(a) \cup {e}) <= Cardinality(after)
      BY <1>1, <2>1, FS_Subset
    <2> QED BY <2>2, <2>3
  <1> QED BY <1>2, <1>3

\* The admission moves in one of these ways, the world's flags and limits being flags.
Flags ==
    /\ late' \in [Txns -> BOOLEAN]
    /\ eligible' \in [Payers -> BOOLEAN]
    /\ serviceStarted' \in [Admissions -> BOOLEAN]
StaysEnrolled == UNCHANGED <<admission, enrolled>>
Reopens(a, e) ==
    /\ admission' = [admission EXCEPT ![a] = Reopened(a)] /\ UNCHANGED enrolled
    /\ Returned(a, e)
Cancels(a) ==
    /\ admission[a] # "active"
    /\ admission' = [admission EXCEPT ![a] = "cancelled"] /\ UNCHANGED enrolled
AdmissionStep ==
    \/ StaysEnrolled
    \/ \E a \in Admissions :
         Activate(a) \/ Cancels(a) \/ \E e \in Entries : Reopens(a, e)

LEMMA EnrolKept ==
    ASSUME EnrolInv, ReturnedStay, Flags, AdmissionStep
    PROVE  EnrolInv'
  <1>0. /\ admission \in [Admissions -> Stages] /\ enrolled \in [Admissions -> Nat]
        /\ \A b \in Admissions : enrolled[b] <= Cardinality(ReturnedTo(b)) + Active(b)
        /\ \A b \in Admissions : /\ Cardinality(ReturnedTo(b)) \in Nat
                                 /\ Cardinality(ReturnedTo(b)') \in Nat
                                 /\ Cardinality(ReturnedTo(b)) <= Cardinality(ReturnedTo(b)')
    BY ReturnedFinite, ReturnedCounts DEF EnrolInv, RecordsMatched
  <1> SUFFICES /\ admission' \in [Admissions -> Stages] /\ enrolled' \in [Admissions -> Nat]
               /\ \A b \in Admissions : enrolled'[b] <= Cardinality(ReturnedTo(b)') + Active(b)'
    BY DEF EnrolInv, RecordsMatched, Flags
  <1>1. CASE StaysEnrolled
    BY <1>0, <1>1 DEF StaysEnrolled, Active
  <1>2. ASSUME NEW a \in Admissions, admission[a] # "active", Activate(a)
        PROVE  /\ admission' \in [Admissions -> Stages] /\ enrolled' \in [Admissions -> Nat]
               /\ \A b \in Admissions : enrolled'[b] <= Cardinality(ReturnedTo(b)') + Active(b)'
    <2>1. /\ admission' = [admission EXCEPT ![a] = "active"]
          /\ enrolled' = [enrolled EXCEPT ![a] = @ + 1]
      BY <1>2 DEF Activate
    <2> QED BY <1>0, <1>2, <2>1 DEF Active, Stages
  <1>3. ASSUME NEW a \in Admissions, admission[a] = "active", Activate(a) PROVE StaysEnrolled
    BY <1>3 DEF Activate, StaysEnrolled
  <1>4. ASSUME NEW a \in Admissions, Cancels(a)
        PROVE  /\ admission' \in [Admissions -> Stages] /\ enrolled' \in [Admissions -> Nat]
               /\ \A b \in Admissions : enrolled'[b] <= Cardinality(ReturnedTo(b)') + Active(b)'
    BY <1>0, <1>4 DEF Cancels, Active, Stages
  <1>5. ASSUME NEW a \in Admissions, NEW e \in Entries, Reopens(a, e)
        PROVE  /\ admission' \in [Admissions -> Stages] /\ enrolled' \in [Admissions -> Nat]
               /\ \A b \in Admissions : enrolled'[b] <= Cardinality(ReturnedTo(b)') + Active(b)'
    <2>1. Cardinality(ReturnedTo(a)) + 1 <= Cardinality(ReturnedTo(a)')
      BY <1>5, ReturnedCounts DEF Reopens
    <2>2. Reopened(a) \in Stages
      BY DEF Reopened, Stages
    <2>3. /\ admission' \in [Admissions -> Stages] /\ enrolled' = enrolled
          /\ \A b \in Admissions \ {a} : admission'[b] = admission[b]
      BY <1>0, <1>5, <2>2 DEF Reopens
    <2> QED BY <1>0, <2>1, <2>3 DEF Active
  <1> QED BY <1>1, <1>2, <1>3, <1>4, <1>5 DEF AdmissionStep

LEMMA MoneyReturned ==
    ASSUME LedgerInv, [Next]_vars
    PROVE  ReturnedStay
  <1>1. \A m \in Receipts : receipt[m].status = "reversed" =>
           receipt'[m].status = "reversed" /\ receipt'[m].invoice = receipt[m].invoice
    <2>1. ASSUME NEW n \in Receipts, NEW i, NEW a, NEW form, NewReceipt(i, n, a, form),
                 NEW m \in Receipts, receipt[m].status = "reversed"
          PROVE  receipt'[m] = receipt[m]
      BY <2>1 DEF NewReceipt, LedgerInv, IInv, StaffInv
    <2>2. ASSUME NEW n \in Receipts, NEW form, Reverse(n, form),
                 NEW m \in Receipts, receipt[m].status = "reversed"
          PROVE  receipt'[m] = receipt[m]
      BY <2>2 DEF Reverse, LedgerInv, IInv, StaffInv
    <2>3. ASSUME WorldStep \/ UNCHANGED vars PROVE UNCHANGED receipt
      BY <2>3 DEF WorldStep, BecomesLate, ServiceStarts, EligibilityChanges, vars
    <2>4. ASSUME PaymeStep PROVE UNCHANGED receipt
      BY <2>4, PaymeFrame
    <2>5. ASSUME StaffStep
          PROVE  \/ UNCHANGED receipt
                 \/ \E n \in Receipts : \E form : Reverse(n, form)
                 \/ \E n \in Receipts : \E i, a, form : NewReceipt(i, n, a, form)
      <3> DEFINE Moved == \/ UNCHANGED receipt
                          \/ \E n \in Receipts : \E form : Reverse(n, form)
                          \/ \E n \in Receipts : \E i, a, form : NewReceipt(i, n, a, form)
      <3>1. ASSUME NEW i \in Invoices, Issue(i) \/ \E form : FinanceVoids(i, form) PROVE Moved
        BY <3>1 DEF Issue, FinanceVoids
      <3>2. ASSUME NEW i \in Invoices, NEW m \in Receipts, AddPaidInvoice(i, m) PROVE Moved
        BY <3>2 DEF AddPaidInvoice
      <3>3. ASSUME NEW i \in Invoices, NEW m \in Receipts, NEW a, NEW form,
                   FinanceRecords(i, m, a, form) \/ AdmissionsRecords(i, m, a, form)
            PROVE  Moved
        BY <3>3 DEF FinanceRecords, AdmissionsRecords
      <3>4. ASSUME NEW m \in Receipts, NEW form,
                   FinanceReverses(m, form) \/ AdmissionsReverses(m, form)
            PROVE  Moved
        BY <3>4 DEF FinanceReverses, AdmissionsReverses
      <3>5. ASSUME NEW a \in Admissions, CancelAdmission(a) PROVE Moved
        BY <3>5 DEF CancelAdmission
      <3> HIDE DEF Moved
      <3>6. Moved
        BY <2>5, <3>1, <3>2, <3>3, <3>4, <3>5 DEF StaffStep, AdmissionsVoids
      <3> QED BY <3>6 DEF Moved
    <2> QED BY <2>1, <2>2, <2>3, <2>4, <2>5 DEF Next
  <1>2. \A t \in Txns : payment[t] = "refunded" =>
           payment'[t] = "refunded" /\ txn'[t].invoice = txn[t].invoice
    <2> SUFFICES ASSUME NEW t \in Txns, payment[t] = "refunded"
                 PROVE  payment'[t] = "refunded" /\ txn'[t].invoice = txn[t].invoice
      OBVIOUS
    <2>0. /\ txn \in [Txns -> TxnRows] /\ txn[t].state = -2
          /\ payment \in [Txns -> {"none", "completed", "refunded"}]
          /\ \A u \in performing : txn[u].state = 1
      BY DEF LedgerInv, IInv, PaymeInv, PaymentsMatch, PaymentIn, TxnRows, PerformingPending
    <2>1. ASSUME NEW r \in Requests, CreateInserts(r) PROVE UNCHANGED payment /\ txn'[t] = txn[t]
      <3> DEFINE q == request[r]
                 new == [state |-> 1, invoice |-> q.invoice, amount |-> q.amount]
      <3>1. txn' = txn \/ (txn[q.txn].state = 0 /\ txn' = [txn EXCEPT ![q.txn] = new])
        BY <2>1 DEF CreateInserts
      <3> HIDE DEF new, q
      <3> QED BY <2>0, <2>1, <3>1 DEF CreateInserts
    <2>2. ASSUME NEW u \in Txns, PerformExpires(u) \/ CancelsPending(u)
          PROVE  UNCHANGED payment /\ txn'[t] = txn[t]
      <3>1. u # t /\ txn' = [txn EXCEPT ![u].state = -1] /\ UNCHANGED payment
        BY <2>0, <2>2 DEF PerformExpires, CancelsPending
      <3> QED BY <2>0, <3>1
    <2>3. ASSUME NEW u \in Txns, PerformSettles(u) \/ CancelsPerformed(u)
          PROVE  payment'[t] = payment[t] /\ txn'[t] = txn[t]
      <3>1. /\ u # t
            /\ \E n : txn' = [txn EXCEPT ![u].state = n]
            /\ \E n : payment' = [payment EXCEPT ![u] = n]
        BY <2>0, <2>3 DEF PerformSettles, CancelsPerformed
      <3> QED BY <2>0, <3>1
    <2>4. ASSUME \/ StaffStep \/ WorldStep \/ UNCHANGED vars
                 \/ \E r \in Requests, u \in Txns, i \in Invoices : \E a \in 1..Total[i] : CreateLooksUp(r, u, i, a)
                 \/ \E u \in Txns : PerformReads(u) \/ PerformFails(u)
          PROVE  UNCHANGED <<txn, payment>>
      BY <2>4, QuietFrame
    <2> QED BY <2>1, <2>2, <2>3, <2>4 DEF Next, PaymeStep
  <1> QED BY <1>1, <1>2 DEF ReturnedStay, ReturnedTo

LEMMA StaffAdmission ==
    ASSUME LedgerInv, StaffStep
    PROVE  AdmissionStep
  <1>1. ASSUME NEW i \in Invoices, NEW m \in Receipts, NEW a, NEW form, AdmissionsRecords(i, m, a, form)
        PROVE  AdmissionStep
    <2>1. /\ Payer[i] \in Admissions
          /\ Activate(Payer[i]) \/ StaysEnrolled
      BY <1>1 DEF AdmissionsRecords, ForAdmission, StaysEnrolled
    <2> QED BY <2>1 DEF AdmissionStep
  <1>2. ASSUME NEW m \in Receipts, NEW form, AdmissionsReverses(m, form) PROVE AdmissionStep
    <2> PICK i, a : i = receipt[m].invoice /\ a = Payer[i]
      OBVIOUS
    <2>1. /\ Reverse(m, form) /\ a \in Admissions
          /\ admission' = [admission EXCEPT ![a] = Reopened(a)] /\ UNCHANGED enrolled
      BY <1>2 DEF AdmissionsReverses, ReopenIfAdmission, ForAdmission
    <2>2. m \notin ReturnedTo(a)
      BY <2>1, SettlementAssumption DEF ReturnedTo, Reverse
    <2>3. receipt'[m].status = "reversed" /\ Payer[receipt'[m].invoice] = a
      BY <2>1 DEF Reverse, LedgerInv, IInv, StaffInv, ReceiptRows
    <2>4. Reopens(a, m) /\ m \in Entries
      BY <2>1, <2>2, <2>3 DEF Reopens, Returned, ReturnedTo, Entries
    <2> QED BY <2>1, <2>4 DEF AdmissionStep
  <1>3. ASSUME NEW a \in Admissions, CancelAdmission(a) PROVE AdmissionStep
    <2>1. Cancels(a)
      BY <1>3 DEF CancelAdmission, Cancels
    <2> QED BY <2>1 DEF AdmissionStep
  <1>4. ASSUME \/ \E i \in Invoices :
                    \/ Issue(i)
                    \/ \E m \in Receipts : AddPaidInvoice(i, m)
                    \/ \E form : FinanceVoids(i, form)
                    \/ \E m \in Receipts : \E a, form : FinanceRecords(i, m, a, form)
               \/ \E m \in Receipts : \E form : FinanceReverses(m, form)
        PROVE  StaysEnrolled
    BY <1>4 DEF Issue, AddPaidInvoice, FinanceVoids, FinanceRecords, FinanceReverses, StaysEnrolled, payerVars
  <1> QED BY <1>1, <1>2, <1>3, <1>4 DEF StaffStep, AdmissionsVoids, AdmissionStep

LEMMA PaymeAdmission ==
    ASSUME LedgerInv, PaymeStep
    PROVE  AdmissionStep
  <1>1. ASSUME NEW t \in Txns, PerformSettles(t) PROVE AdmissionStep
    <2>1. \/ Payer[txn[t].invoice] \in Admissions /\ Activate(Payer[txn[t].invoice])
          \/ StaysEnrolled
      BY <1>1 DEF PerformSettles, ForAdmission, StaysEnrolled
    <2> QED BY <2>1 DEF AdmissionStep
  <1>2. ASSUME NEW t \in Txns, CancelsPerformed(t) PROVE AdmissionStep
    <2> PICK i, a : i = txn[t].invoice /\ a = Payer[i]
      OBVIOUS
    <2>1. /\ txn[t].state = 2 /\ payment[t] = "completed"
          /\ payment' = [payment EXCEPT ![t] = "refunded"] /\ txn' = [txn EXCEPT ![t].state = -2]
          /\ UNCHANGED <<receipt, enrolled>>
      BY <1>2 DEF CancelsPerformed, LedgerInv, IInv, PaymeInv, PaymentsMatch, PaymentIn
    <2>2. CASE a \notin Admissions
      BY <1>2, <2>2 DEF CancelsPerformed, ReopenIfAdmission, ForAdmission, StaysEnrolled, AdmissionStep
    <2>3. CASE a \in Admissions
      <3>1. admission' = [admission EXCEPT ![a] = Reopened(a)]
        BY <1>2, <2>3 DEF CancelsPerformed, ReopenIfAdmission, ForAdmission
      <3>2. t \notin ReturnedTo(a)
        BY <2>1, SettlementAssumption DEF ReturnedTo
      <3>3. payment'[t] = "refunded" /\ Payer[txn'[t].invoice] = a
        BY <2>1 DEF LedgerInv, IInv, PaymeInv, TxnRows
      <3>4. Reopens(a, t) /\ t \in Entries
        BY <2>1, <3>1, <3>2, <3>3 DEF Reopens, Returned, ReturnedTo, Entries
      <3> QED BY <2>3, <3>4 DEF AdmissionStep
    <2> QED BY <2>2, <2>3
  <1>3. ASSUME \/ \E r \in Requests : CreateInserts(r)
               \/ \E r \in Requests, t \in Txns, i \in Invoices : \E a \in 1..Total[i] : CreateLooksUp(r, t, i, a)
               \/ \E t \in Txns : PerformReads(t) \/ PerformFails(t) \/ PerformExpires(t) \/ CancelsPending(t)
        PROVE  StaysEnrolled
    BY <1>3 DEF CreateInserts, CreateLooksUp, PerformReads, PerformFails, PerformExpires, CancelsPending,
                StaysEnrolled, payerVars
  <1> QED BY <1>1, <1>2, <1>3 DEF PaymeStep, AdmissionStep

LEMMA FlagsKept ==
    ASSUME EnrolInv, [Next]_vars
    PROVE  Flags
  <1>0. /\ late \in [Txns -> BOOLEAN] /\ eligible \in [Payers -> BOOLEAN]
        /\ serviceStarted \in [Admissions -> BOOLEAN]
    BY DEF EnrolInv
  <1>1. CASE WorldStep
    <2>1. ASSUME NEW t \in Txns, BecomesLate(t) PROVE Flags
      BY <1>0, <2>1 DEF BecomesLate, Flags, payerVars
    <2>2. ASSUME NEW a \in Admissions, ServiceStarts(a) PROVE Flags
      BY <1>0, <2>2 DEF ServiceStarts, Flags, paymeVars
    <2>3. ASSUME NEW p \in Payers, EligibilityChanges(p) PROVE Flags
      BY <1>0, <2>3 DEF EligibilityChanges, Flags, paymeVars
    <2> QED BY <1>1, <2>1, <2>2, <2>3 DEF WorldStep
  <1>2. CASE StaffStep \/ PaymeStep \/ UNCHANGED vars
    <2>1. UNCHANGED <<late, eligible, serviceStarted>>
      BY <1>2, StaffFrame, PaymeFrame DEF Apart, vars, paymeVars, payerVars
    <2> QED BY <1>0, <2>1 DEF Flags
  <1> QED BY <1>1, <1>2 DEF Next

LEMMA EnrolStep == LedgerInv /\ EnrolInv /\ [Next]_vars => EnrolInv'
  <1> SUFFICES ASSUME LedgerInv, EnrolInv, [Next]_vars PROVE EnrolInv'
    OBVIOUS
  <1>1. ASSUME WorldStep \/ UNCHANGED vars PROVE AdmissionStep
    BY <1>1 DEF WorldStep, BecomesLate, ServiceStarts, EligibilityChanges, vars, payerVars,
                AdmissionStep, StaysEnrolled
  <1>2. AdmissionStep
    BY <1>1, StaffAdmission, PaymeAdmission DEF Next
  <1> QED BY <1>2, MoneyReturned, FlagsKept, EnrolKept

LEMMA EnrolInit == Init => EnrolInv
  <1> SUFFICES ASSUME Init PROVE EnrolInv
    OBVIOUS
  <1>1. \A a \in Admissions : enrolled[a] = 0 /\ Active(a) = 0 /\ Cardinality(ReturnedTo(a)) \in Nat
    BY ReturnedFinite DEF Init, Active
  <1> QED BY <1>1 DEF Init, EnrolInv, Stages, RecordsMatched

LEMMA EnrolInvariance == Spec => []EnrolInv
  BY EnrolInit, EnrolStep, LedgerInvariance, PTL DEF Spec

-----------------------------------------------------------------------------
(* The theorems of the ledger. *)

LEMMA BalanceTold == LedgerInv => PaidIsWhatWasPaid /\ StatusTellsBalance
  <1> SUFFICES ASSUME LedgerInv PROVE PaidIsWhatWasPaid
    BY DEF LedgerInv, LedgerColumns
  <1>1. RowTypes
    BY Types DEF LedgerInv
  <1> QED BY <1>1, TotalIsSum DEF PaidIsWhatWasPaid, LedgerInv, LedgerColumns

LEMMA Typed == LedgerInv /\ EnrolInv => TypeOK
  BY DEF LedgerInv, LedgerColumns, IInv, PaymeInv, StaffInv, EnrolInv, TypeOK, Statuses, Stages,
         TxnRows, CallRows, ReceiptRows

LEMMA OncePerSettlement == EnrolInv => EnrolledOncePerSettlement
  <1> SUFFICES ASSUME EnrolInv, NEW a \in Admissions
               PROVE  enrolled[a] <= 1 + Cardinality(ReturnedTo(a))
    BY DEF EnrolledOncePerSettlement
  <1>1. /\ enrolled[a] \in Nat /\ Cardinality(ReturnedTo(a)) \in Nat
        /\ enrolled[a] <= Cardinality(ReturnedTo(a)) + Active(a)
    BY ReturnedFinite DEF EnrolInv, RecordsMatched
  <1> QED BY <1>1 DEF Active

\* Finance recomputes the balance of an invoice from its payments; admissions and Payme add
\* and subtract.  However their commands mix and repeat, on any number of invoices, receipts
\* and transactions, the balance is the sum of the completed payments and never more than the
\* total, all five writers of the status agree, and an admission is enrolled once per settlement.
THEOREM TheLedgerAddsUp == Spec => []LedgerAddsUp
  <1> LedgerInv /\ EnrolInv /\ PaymentFollowsTransaction => LedgerAddsUp
    BY BalanceTold, Typed, OncePerSettlement DEF LedgerAddsUp
  <1> QED BY LedgerInvariance, EnrolInvariance, PaymentsAgree, PTL

-----------------------------------------------------------------------------
(* Pending transactions. *)

\* Only a receipt on an invoice without a pending transaction, a receipt that comes with the
\* invoice, and a performed transaction raise a balance.
LEMMA WhoPays ==
    ASSUME LedgerInv, IInv', [Next]_vars, NEW i \in Invoices, ~(paid'[i] <= paid[i])
    PROVE  \/ ~Pending(i)
           \/ status[i] = "absent"
           \/ \E u \in Txns : PerformSettles(u) /\ txn[u].invoice = i
  <1>0. paid \in [Invoices -> Nat]
    BY DEF LedgerInv, LedgerColumns
  <1>1. ASSUME NEW j \in Invoices, NEW m \in Receipts, AddPaidInvoice(j, m) PROVE j = i /\ status[i] = "absent"
    BY <1>0, <1>1 DEF AddPaidInvoice, WriteInvoice, CanIssue
  <1>2. ASSUME NEW j \in Invoices, NEW m \in Receipts, NEW a, NEW form,
               FinanceRecords(j, m, a, form) \/ AdmissionsRecords(j, m, a, form)
        PROVE  ~Pending(i)
    <2>1. Accepts(j, a, form) /\ \E n : paid' = [paid EXCEPT ![j] = n]
      BY <1>2 DEF FinanceRecords, AdmissionsRecords, Recompute, WriteInvoice
    <2> QED BY <1>0, <2>1 DEF Accepts
  <1>3. ASSUME NEW j \in Invoices, NEW e, NEW a \in Nat, GivesBack(j, e, a) PROVE FALSE
    BY <1>0, <1>3 DEF GivesBack, Sets
  <1>4. ASSUME NEW m \in Receipts, NEW form, FinanceReverses(m, form) \/ AdmissionsReverses(m, form)
        PROVE  FALSE
    <2> PICK j : receipt[m].invoice = j
      OBVIOUS
    <2>1. /\ Reverse(m, form) /\ UNCHANGED <<txn, payment>>
          /\ \/ Recompute(j)
             \/ LET newPaid == Max({0, paid[j] - receipt[m].amount})
                IN  WriteInvoice(j, newPaid, StatusFor(j, newPaid))
      BY <1>4 DEF FinanceReverses, AdmissionsReverses, paymeVars
    <2> QED BY <1>3, <2>1, ReceiptGivesBack
  <1>5. ASSUME NEW t \in Txns, CancelsPerformed(t) PROVE FALSE
    BY <1>3, <1>5, CancelGivesBack
  <1>6. ASSUME NEW t \in Txns, PerformSettles(t) PROVE txn[t].invoice = i
    <2>1. \E n : paid' = [paid EXCEPT ![txn[t].invoice] = n]
      BY <1>6 DEF PerformSettles, WriteInvoice
    <2> QED BY <1>0, <2>1
  <1>7. ASSUME NEW j \in Invoices, NEW form, FinanceVoids(j, form) PROVE FALSE
    BY <1>0, <1>7 DEF FinanceVoids, WriteInvoice
  <1>8. ASSUME \/ \E j \in Invoices : Issue(j)
               \/ \E a \in Admissions : CancelAdmission(a)
               \/ WorldStep \/ UNCHANGED vars
               \/ \E r \in Requests : CreateInserts(r)
               \/ \E r \in Requests, t \in Txns, j \in Invoices : \E a \in 1..Total[j] : CreateLooksUp(r, t, j, a)
               \/ \E t \in Txns : PerformReads(t) \/ PerformFails(t) \/ PerformExpires(t) \/ CancelsPending(t)
        PROVE  FALSE
    <2>1. UNCHANGED paid
      BY <1>8 DEF Issue, CancelAdmission, WorldStep, BecomesLate, ServiceStarts, EligibilityChanges,
                  vars, invoiceVars, CreateInserts, CreateLooksUp, PerformReads, PerformFails,
                  PerformExpires, CancelsPending
    <2> QED BY <1>0, <2>1
  <1>9. CASE StaffStep
    BY <1>1, <1>2, <1>4, <1>7, <1>8, <1>9 DEF StaffStep, AdmissionsVoids
  <1>10. CASE PaymeStep
    BY <1>5, <1>6, <1>8, <1>10 DEF PaymeStep
  <1> QED BY <1>8, <1>9, <1>10 DEF Next

LEMMA PendingBlocks ==
    ASSUME LedgerInv, IInv', [Next]_vars, NEW t \in Txns, txn[t].state = 1, txn'[t].state = 1
    PROVE  paid'[txn[t].invoice] <= paid[txn[t].invoice]
  <1> SUFFICES ASSUME ~(paid'[txn[t].invoice] <= paid[txn[t].invoice]) PROVE FALSE
    OBVIOUS
  <1> PICK i : i = txn[t].invoice
    OBVIOUS
  <1>1. i \in Invoices /\ status[i] # "absent" /\ Pending(i)
    BY DEF LedgerInv, IInv, PaymeInv, NamesInvoices, RowsStand, Pending
  <1>2. PICK u \in Txns : PerformSettles(u) /\ txn[u].invoice = i
    BY <1>1, WhoPays
  <1>3. txn[u].state = 1
    BY <1>2 DEF PerformSettles, LedgerInv, IInv, PaymeInv, PerformingPending
  <1>4. u = t
    BY <1>2, <1>3 DEF LedgerInv, IInv, PaymeInv, OnePendingPerInvoice
  <1>5. txn'[u].state = 2
    BY <1>2 DEF PerformSettles, LedgerInv, IInv, PaymeInv, TxnRows
  <1> QED BY <1>4, <1>5

\* A transaction is performed by PerformTransaction alone.
LEMMA WhoPerforms ==
    ASSUME LedgerInv, [Next]_vars, NEW t \in Txns, txn[t].state # 2, txn'[t].state = 2
    PROVE  PerformSettles(t)
  <1>0. txn \in [Txns -> TxnRows]
    BY DEF LedgerInv, IInv, PaymeInv
  <1>1. ASSUME NEW r \in Requests, CreateInserts(r) PROVE FALSE
    <2> DEFINE q == request[r]
               new == [state |-> 1, invoice |-> q.invoice, amount |-> q.amount]
    <2>1. txn' = txn \/ txn' = [txn EXCEPT ![q.txn] = new]
      BY <1>1 DEF CreateInserts
    <2>2. new.state = 1
      OBVIOUS
    <2> HIDE DEF new, q
    <2> QED BY <1>0, <2>1, <2>2
  <1>2. ASSUME NEW u \in Txns, NEW n \in {-1, -2}, txn' = [txn EXCEPT ![u].state = n] PROVE FALSE
    BY <1>0, <1>2 DEF TxnRows
  <1>3. ASSUME NEW u \in Txns, PerformExpires(u) \/ CancelsPending(u) \/ CancelsPerformed(u) PROVE FALSE
    BY <1>2, <1>3 DEF PerformExpires, CancelsPending, CancelsPerformed
  <1>4. ASSUME NEW u \in Txns, PerformSettles(u) PROVE u = t
    BY <1>0, <1>4 DEF PerformSettles
  <1>5. ASSUME \/ StaffStep \/ WorldStep \/ UNCHANGED vars
               \/ \E r \in Requests, u \in Txns, i \in Invoices : \E a \in 1..Total[i] : CreateLooksUp(r, u, i, a)
               \/ \E u \in Txns : PerformReads(u) \/ PerformFails(u)
        PROVE  UNCHANGED txn
    BY <1>5, QuietFrame
  <1> QED BY <1>1, <1>3, <1>4, <1>5 DEF Next, PaymeStep

LEMMA PerformedSettles ==
    ASSUME LedgerInv, EnrolInv, NEW t \in Txns, PerformSettles(t)
    PROVE  LET i == txn[t].invoice IN
           /\ txn[t].state = 1
           /\ status'[i] = "paid" /\ payment'[t] = "completed"
           /\ ForAdmission(i) => admission'[Payer[i]] = "active"
  <1> PICK i : i = txn[t].invoice
    OBVIOUS
  <1>1. txn[t].state = 1 /\ payment'[t] = "completed"
    BY DEF PerformSettles, LedgerInv, IInv, PaymeInv, PerformingPending
  <1>2. status'[i] = "paid"
    BY PerformPays
  <1>3. ForAdmission(i) => admission'[Payer[i]] = "active"
    <2> SUFFICES ASSUME ForAdmission(i) PROVE admission'[Payer[i]] = "active"
      OBVIOUS
    <2>1. Activate(Payer[i])
      BY DEF PerformSettles
    <2>2. admission[Payer[i]] # "active" => admission' = [admission EXCEPT ![Payer[i]] = "active"]
      BY <2>1 DEF Activate
    <2>3. admission[Payer[i]] = "active" => UNCHANGED admission
      BY <2>1 DEF Activate
    <2> QED BY <2>2, <2>3 DEF EnrolInv, ForAdmission
  <1> QED BY <1>1, <1>2, <1>3

\* A transaction becomes pending by CreateTransaction alone, for the open balance, and then
\* keeps its invoice and its amount.
LEMMA PendingFromBalance ==
    ASSUME LedgerInv, [Next]_vars, NEW t \in Txns, txn'[t].state = 1
    PROVE  \/ txn[t].state = 1 /\ txn'[t] = txn[t]
           \/ txn'[t].amount = Balance(txn'[t].invoice) /\ paid' = paid
  <1>0. txn \in [Txns -> TxnRows]
    BY DEF LedgerInv, IInv, PaymeInv
  <1>1. ASSUME NEW r \in Requests, CreateInserts(r), txn'[t] # txn[t]
        PROVE  txn'[t].amount = Balance(txn'[t].invoice) /\ paid' = paid
    <2> DEFINE q == request[r]
               new == [state |-> 1, invoice |-> q.invoice, amount |-> q.amount]
    <2>1. /\ \/ txn' = txn
             \/ txn' = [txn EXCEPT ![q.txn] = new] /\ Payable(q.invoice, q.amount)
          /\ paid' = paid
      BY <1>1 DEF CreateInserts, invoiceVars
    <2>2. new.invoice = q.invoice /\ new.amount = q.amount
      OBVIOUS
    <2> HIDE DEF new, q
    <2>3. txn'[t] = new /\ Payable(q.invoice, q.amount)
      BY <1>0, <1>1, <2>1
    <2> QED BY <2>1, <2>2, <2>3 DEF Payable
  <1>2. ASSUME NEW u \in Txns, NEW n \in {2, -1, -2}, txn' = [txn EXCEPT ![u].state = n]
        PROVE  txn'[t] = txn[t]
    BY <1>0, <1>2 DEF TxnRows
  <1>3. ASSUME NEW u \in Txns,
               PerformExpires(u) \/ CancelsPending(u) \/ CancelsPerformed(u) \/ PerformSettles(u)
        PROVE  txn'[t] = txn[t]
    BY <1>2, <1>3 DEF PerformExpires, CancelsPending, CancelsPerformed, PerformSettles
  <1>4. ASSUME \/ StaffStep \/ WorldStep \/ UNCHANGED vars
               \/ \E r \in Requests, u \in Txns, i \in Invoices : \E a \in 1..Total[i] : CreateLooksUp(r, u, i, a)
               \/ \E u \in Txns : PerformReads(u) \/ PerformFails(u)
        PROVE  txn'[t] = txn[t]
    BY <1>4, QuietFrame
  <1>5. txn'[t] = txn[t] \/ \E r \in Requests : CreateInserts(r)
    BY <1>3, <1>4 DEF Next, PaymeStep
  <1> QED BY <1>1, <1>5

\* What a pending transaction asks for stays open.
LEMMA PendingStaysOwed ==
    ASSUME LedgerInv, LedgerInv', PendingIsOwed, [Next]_vars
    PROVE  PendingIsOwed'
  <1> SUFFICES ASSUME NEW t \in Txns, txn'[t].state = 1
               PROVE  txn'[t].amount <= Total[txn'[t].invoice] - paid'[txn'[t].invoice]
    BY DEF PendingIsOwed, Balance
  <1>1. txn'[t].invoice \in Invoices /\ txn'[t].amount \in Nat
    BY DEF LedgerInv, IInv, PaymeInv, NamesInvoices, TxnRows
  <1>2. \A i \in Invoices : paid[i] \in Nat /\ paid'[i] \in Nat /\ Total[i] \in Nat
    BY TotalType DEF LedgerInv, LedgerColumns
  <1>3. CASE txn[t].state = 1 /\ txn'[t] = txn[t]
    <2>1. paid'[txn[t].invoice] <= paid[txn[t].invoice]
      BY <1>3, PendingBlocks DEF LedgerInv
    <2>2. txn[t].amount <= Total[txn[t].invoice] - paid[txn[t].invoice]
      BY <1>3 DEF PendingIsOwed, Balance
    <2> QED BY <1>1, <1>2, <1>3, <2>1, <2>2
  <1>4. CASE txn'[t].amount = Balance(txn'[t].invoice) /\ paid' = paid
    BY <1>1, <1>2, <1>4 DEF Balance
  <1> QED BY <1>3, <1>4, PendingFromBalance

\* While a transaction is pending nobody else's money reaches its invoice, so that its amount
\* is still open when it is performed, and then the invoice is settled and its admission
\* active in the very same step. Receipts may be reversed and finance may void meanwhile.
THEOREM PendingMoneyIsHonoured == Spec => PendingIsHonoured
  <1> DEFINE Blocks(t) == txn[t].state = 1 /\ txn'[t].state = 1 =>
                            paid'[txn[t].invoice] <= paid[txn[t].invoice]
             Settles(t) == txn[t].state # 2 /\ txn'[t].state = 2 =>
                             LET i == txn[t].invoice IN
                             /\ txn[t].state = 1
                             /\ status'[i] = "paid" /\ payment'[t] = "completed"
                             /\ ForAdmission(i) => admission'[Payer[i]] = "active"
  <1>1. LedgerInv /\ IInv' /\ [Next]_vars => [\A t \in Txns : Blocks(t)]_vars
    BY PendingBlocks
  <1>2. LedgerInv /\ EnrolInv /\ [Next]_vars => [\A t \in Txns : Settles(t)]_vars
    BY WhoPerforms, PerformedSettles
  <1>3. Spec => PendingBlocksOtherMoney
    <2>1. Init => PendingIsOwed
      BY DEF Init, PendingIsOwed, NoRow
    <2>2. Spec => []PendingIsOwed
      BY <2>1, PendingStaysOwed, LedgerInvariance, PTL DEF Spec
    <2>3. LedgerInv /\ IInv' /\ PendingIsOwed' /\ [Next]_vars =>
             [(\A t \in Txns : Blocks(t)) /\ PendingIsOwed']_vars
      BY <1>1
    <2> QED BY <2>2, <2>3, LedgerInvariance, Invariance, PTL DEF Spec, PendingBlocksOtherMoney
  <1>4. Spec => PerformedMeansSettled
    BY <1>2, LedgerInvariance, EnrolInvariance, PTL DEF Spec, PerformedMeansSettled
  <1> QED BY <1>3, <1>4 DEF PendingIsHonoured

-----------------------------------------------------------------------------
(* Settlement implements PaymentAccount, invoice by invoice.                *)

\* What an account calls the status of its invoice.
StateOf(i) == IF status[i] \in {"absent", "voided"} THEN status[i] ELSE "open"
AccountStays(i) == UNCHANGED <<StateOf(i), EntryOf(i), AmountOf(i)>>

LEMMA AccountSum ==
    ASSUME NEW i
    PROVE  Account(i)!Completed = Done(i) /\ Account(i)!Balance = Total[i] - Sum(i)
  <1>1. Account(i)!Completed = Done(i)
    BY DEF Account!Completed, Done, Entries
  <1> QED BY <1>1 DEF Account!Balance, Account!SumOf, Account!Units, Account!Cardinality, Sum, SumOf, Units, Cardinality

LEMMA StatesOf ==
    ASSUME NEW i
    PROVE  /\ status[i] \in Open \cup {"paid"} => StateOf(i) = "open"
           /\ status[i] \in {"absent", "voided"} => StateOf(i) = status[i]
           /\ status'[i] \in Open \cup {"paid"} => StateOf(i)' = "open"
           /\ status'[i] \in {"absent", "voided"} => StateOf(i)' = status'[i]
  BY DEF StateOf, Open

\* The account of an invoice that a step does not write stays as it is.
LEMMA OtherAccounts ==
    ASSUME LedgerInv, NEW i \in Invoices, NEW n, NEW s, Sets(i, n, s), Others(i),
           NEW j \in Invoices, j # i
    PROVE  AccountStays(j)
  <1>1. status'[j] = status[j]
    BY DEF LedgerInv, LedgerColumns, Sets
  <1> QED BY <1>1 DEF Others, Still, StateOf, AccountStays

\* A completed payment is one of some money.
LEMMA DoneIsPaid ==
    ASSUME LedgerInv, NEW i \in Invoices, NEW e \in Entries, EntryOf(i)[e] = "completed"
    PROVE  AmountOf(i)[e] > 0
  <1>1. CASE e \in Receipts
    <2>1. receipt[e].status # "none"
      BY <1>1, EntryOfReceipt DEF ReceiptShows
    <2> QED BY <1>1, <2>1, EntryOfReceipt DEF ReceiptShows, LedgerInv, RowsStand
  <1>2. CASE e \in Txns
    <2>1. payment[e] # "none"
      BY <1>2, EntryOfTxn DEF TxnShows
    <2>2. txn[e].state # 0
      BY <1>2, <2>1 DEF LedgerInv, IInv, PaymeInv, PaymentsMatch, PaymentIn
    <2> QED BY <1>2, <2>2, EntryOfTxn DEF TxnShows, LedgerInv, RowsStand
  <1> QED BY <1>1, <1>2 DEF Entries

LEMMA AccountMoves ==
    ASSUME LedgerInv, MoneyStep, NEW i \in Invoices
    PROVE  Account(i)!Next \/ AccountStays(i)
  <1>0. /\ status \in [Invoices -> Statuses] /\ RowTypes
        /\ Total[i] \in Nat \ {0} /\ paid[i] = Sum(i) /\ paid[i] \in Nat
    BY OpenBalance, Types DEF LedgerInv, LedgerColumns
  <1>1. CASE Quiet
    BY <1>1 DEF Quiet, AllStill, Still, StateOf, AccountStays
  <1>2. ASSUME Issues(i) PROVE Account(i)!Next
    <2>1. StateOf(i) = "absent" /\ StateOf(i)' = "open" /\ Still(i)
      BY <1>0, <1>2, StatesOf DEF Issues, AllStill, Open
    <2> QED BY <2>1 DEF Account!Next, Account!Issue, StateOf, Still
  <1>3. ASSUME Voids(i) PROVE Account(i)!Next
    <2>1. StateOf(i) = "open" /\ StateOf(i)' = "voided" /\ Still(i)
      BY <1>0, <1>3, StatesOf DEF Voids, AllStill, Sets
    <2>2. ASSUME NEW e \in Done(i) PROVE FALSE
      <3>1. /\ e \in Entries /\ EntryOf(i)[e] = "completed"
            /\ AmountOf(i)[e] \in Nat /\ Sum(i) = 0
        BY <1>0, <1>3, <2>2, EntryTypes DEF Done, Voids
      <3>2. AmountOf(i)[e] > 0 /\ AmountOf(i)[e] <= Sum(i)
        BY <1>0, <3>1, DoneIsPaid, SumCovers
      <3> QED BY <3>1, <3>2
    <2>3. Account(i)!Completed = {}
      BY <2>2, AccountSum
    <2> QED BY <2>1, <2>3 DEF Account!Next, Account!Void, StateOf, Still
  <1>4. ASSUME NEW e \in Entries, IssuesPaid(i, e) PROVE Account(i)!Next
    <2>1. StateOf(i) = "absent" /\ StateOf(i)' = "open" /\ Enters(i, e, Total[i])
      BY <1>0, <1>4, StatesOf DEF IssuesPaid, Sets
    <2>2. Account(i)!IssuePaid(e)
      BY <2>1 DEF Account!IssuePaid, Account!Enter, Enters, StateOf
    <2> QED BY <2>2 DEF Account!Next, Entries
  <1>5. ASSUME NEW e \in Entries, NEW a \in Nat, Pays(i, e, a) PROVE Account(i)!Next
    <2>1. /\ StateOf(i) = "open" /\ Enters(i, e, a)
          /\ a \in 1..(Total[i] - Sum(i))
          /\ status'[i] = StatusFor(i, paid[i] + a)
      BY <1>0, <1>5, StatesOf DEF Pays, Sets, Balance
    <2>2. StateOf(i)' = "open"
      <3>1. StatusFor(i, paid[i] + a) \notin {"absent", "voided"}
        BY DEF StatusFor
      <3> QED BY <2>1, <3>1 DEF StateOf
    <2>3. a \in 1..Total[i] /\ a <= Account(i)!Balance
      BY <1>0, <2>1, AccountSum, SumIsNat
    <2>4. Account(i)!Pay(e, a)
      BY <2>1, <2>2, <2>3 DEF Account!Pay, Account!Enter, Enters, StateOf
    <2> QED BY <2>3, <2>4 DEF Account!Next, Entries
  <1>6. ASSUME NEW e \in Entries, NEW a \in Nat, GivesBack(i, e, a) PROVE Account(i)!Next
    <2>1. /\ StateOf(i) = "open" /\ Returns(i, e)
          /\ status'[i] = StatusFor(i, paid[i] - a)
      BY <1>0, <1>6, StatesOf DEF GivesBack, Sets
    <2>2. StateOf(i)' = "open"
      <3>1. StatusFor(i, paid[i] - a) \notin {"absent", "voided"}
        BY DEF StatusFor
      <3> QED BY <2>1, <3>1 DEF StateOf
    <2>3. Account(i)!Return(e)
      BY <2>1, <2>2 DEF Account!Return, Returns, StateOf
    <2> QED BY <2>3 DEF Account!Next, Entries
  <1>7. ASSUME NEW j \in Invoices, j # i,
               \/ Issues(j) \/ Voids(j)
               \/ \E e \in Entries :
                    IssuesPaid(j, e) \/ \E a \in Nat : Pays(j, e, a) \/ GivesBack(j, e, a)
        PROVE  AccountStays(i)
    <2>1. CASE Issues(j)
      BY <1>0, <1>7, <2>1 DEF Issues, AllStill, Still, StateOf, AccountStays
    <2>2. CASE ~Issues(j)
      <3>1. Others(j) /\ \E n, s : Sets(j, n, s)
        BY <1>7, <2>2 DEF Voids, IssuesPaid, Pays, GivesBack, AllStill, Others
      <3> QED BY <1>7, <3>1, OtherAccounts
    <2> QED BY <2>1, <2>2
  <1> QED BY <1>1, <1>2, <1>3, <1>4, <1>5, <1>6, <1>7 DEF MoneyStep

LEMMA AccountsOpen == Init => \A i \in Invoices : Account(i)!Init
  <1> SUFFICES ASSUME Init, NEW i \in Invoices PROVE Account(i)!Init
    OBVIOUS
  <1>1. status[i] = "absent"
    BY DEF Init
  <1>2. \A m \in Receipts : EntryOf(i)[m] = "none" /\ AmountOf(i)[m] = 0
    BY EntryOfReceipt DEF Init, NoReceipt, ReceiptShows
  <1>3. \A t \in Txns : EntryOf(i)[t] = "none" /\ AmountOf(i)[t] = 0
    BY EntryOfTxn DEF Init, TxnShows
  <1>4. /\ EntryOf(i) = [e \in Receipts \cup Txns |-> "none"]
        /\ AmountOf(i) = [e \in Receipts \cup Txns |-> 0]
    BY <1>2, <1>3, EntriesShown DEF Shown, Entries
  <1> QED BY <1>1, <1>4 DEF Account!Init

\* Seen one invoice at a time, every command of staff and every call of Payme is a step of
\* PaymentAccount or leaves the account alone: money enters for at most the balance, leaves
\* once, and an invoice is voided only without any.
THEOREM AccountsAreKept == Spec => KeepsAccounts
  <1> DEFINE Moves(i) == Account(i)!Next \/ UNCHANGED Account(i)!vars
  <1>1. \A i : AccountStays(i) => UNCHANGED Account(i)!vars
    BY DEF AccountStays, StateOf, Account!vars
  <1>2. LedgerInv /\ IInv' /\ [Next]_vars => [\A i \in Invoices : Moves(i)]_vars
    BY <1>1, EveryStepMoney, AccountMoves
  <1>3. Spec => \A i \in Invoices : Account(i)!Init
    BY AccountsOpen DEF Spec
  <1> QED BY <1>2, <1>3, LedgerInvariance, Invariance, PTL DEF Spec, KeepsAccounts
=============================================================================
