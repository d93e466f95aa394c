---------------------------- MODULE BillingCycles ----------------------------
(***************************************************************************)
(* The monthly billing of one student: the billing profile, the revisioned *)
(* cycles planned from it, the invoice each cycle issues, the manual       *)
(* invoices staff apply to a cycle or exclude from it, and the jobs that   *)
(* plan, issue and enforce.  Profiles do not share rows, so one student    *)
(* stands for all.                                                         *)
(*                                                                         *)
(* Every handler locks the profile or the cycle before it reads them, and  *)
(* runs in one transaction, so it is one action.  The database refuses to  *)
(* give a superseded row another state (student_billing_cycles_superseded_ *)
(* check): a handler that tries is rolled back, and its job fails.         *)
(*                                                                         *)
(* A cycle's version only feeds the idempotency key of its issue job, so   *)
(* the row keeps, in place of it, whether the key of the present version   *)
(* is used.  Issue jobs may run at any time after they are enqueued: the   *)
(* hour they become available is left out.  The four stage jobs of an      *)
(* invoice are one, the last (HELD).  A form that shows a stale version is *)
(* refused without effect and is left out.                                 *)
(***************************************************************************)
EXTENDS Integers, FiniteSets, Money

CONSTANTS
    Periods,         \* billing periods, 1..n; nothing happens after the last
    Prices,          \* monthly totals staff may configure
    Cycles,          \* student_billing_cycles ids, 1..n, in the order of insertion
    Invoices,        \* ids of the invoices cycles issue, 1..n
    Manual,          \* manual invoices staff may add as already paid
    ManualPeriod, ManualTotal,
    ByHand,          \* periods staff may issue a monthly invoice for by hand
    MaxWaiting,      \* bound on the issue jobs of a cycle that wait at once
    AllowedTopics,   \* WORKER_ALLOWED_TOPICS, of the topics below
    GENERATE_INVOICES, ISSUE_BILLING_CYCLE, PROCESS_ENFORCEMENT_STAGE

BillingAssumption ==
    /\ \A ids \in {Periods, Cycles, Invoices} : IsFiniteSet(ids) /\ ids = 1..Cardinality(ids)
    /\ 1 \in Periods
    /\ Prices \subseteq Nat \ {0}
    /\ \E p \in Prices : \A q \in Prices : q <= p
    /\ IsFiniteSet(Manual)
    /\ ManualPeriod \in [Manual -> Periods]
    /\ ManualTotal \in [Manual -> Nat \ {0}]
    /\ ByHand \subseteq Periods
    /\ MaxWaiting \in Nat \ {0}

HighestPrice == CHOOSE p \in Prices : \A q \in Prices : q <= p

VARIABLES
    month, due,      \* the school's month; its billing deadline has passed
    profile,         \* the student_billing_profiles row
    cycle,           \* student_billing_cycles rows
    invoice,         \* invoices with a billing_cycle_id
    manual,          \* manual invoices: state, and the money received on each
    monthly,         \* periods with a monthly invoice that staff issued by hand
    review,          \* the active review of each cycle and manual invoice
    waiting,         \* issue jobs not yet settled, per cycle
    stage            \* the HELD stage job of each invoice

clockVars == <<month, due>>
vars == <<clockVars, profile, cycle, invoice, manual, monthly, review, waiting, stage>>

NoCycle == [period |-> 0, expected |-> 0, allocated |-> 0, state |-> "absent", keyed |-> FALSE]
NoInvoice == [cycle |-> 0, total |-> 0, paid |-> 0, state |-> "absent", pending |-> FALSE]
NoReview == [decision |-> "none", amount |-> 0]

CycleRows ==
    [period : Periods \cup {0}, expected : Prices \cup {0}, allocated : Nat, keyed : BOOLEAN,
     state : {"absent", "scheduled", "review_required", "invoiced", "satisfied", "cancelled",
              "superseded"}]
InvoiceRows ==
    [cycle : Cycles \cup {0}, total : Nat, paid : Nat, state : {"absent", "live", "voided"},
     pending : BOOLEAN]
Decisions == [decision : {"none", "apply", "exclude"}, amount : Nat]

TypeOK ==
    /\ month \in Periods /\ due \in BOOLEAN
    /\ profile \in [status : {"none", "active", "paused"}, price : Prices \cup {0}]
    /\ cycle \in [Cycles -> CycleRows]
    /\ invoice \in [Invoices -> InvoiceRows]
    /\ manual \in [Manual -> [state : {"absent", "live", "voided"}, paid : Nat]]
    /\ monthly \in SUBSET Periods
    /\ review \in [Cycles \X Manual -> Decisions]
    /\ waiting \in [Cycles -> 0..MaxWaiting]
    /\ stage \in [Invoices -> {"none", "waiting", "ran", "dead"}]

Init ==
    /\ month = 1 /\ due = FALSE
    /\ profile = [status |-> "none", price |-> 0]
    /\ cycle = [c \in Cycles |-> NoCycle]
    /\ invoice = [i \in Invoices |-> NoInvoice]
    /\ manual = [m \in Manual |-> [state |-> "absent", paid |-> 0]]
    /\ monthly = {}
    /\ review = [pair \in Cycles \X Manual |-> NoReview]
    /\ waiting = [c \in Cycles |-> 0]
    /\ stage = [i \in Invoices |-> "none"]

-----------------------------------------------------------------------------
(* What the handlers read. *)

Exists(c) == cycle[c].state # "absent"
Current(c) == cycle[c].state \notin {"absent", "superseded"}
LiveInvoices(c, invoices) == {i \in Invoices : invoices[i].cycle = c /\ invoices[i].state = "live"}
Live(c) == LiveInvoices(c, invoice)
Open(i) == invoice[i].state = "live" /\ invoice[i].paid < invoice[i].total
Held(i) == stage[i] = "ran" /\ Open(i)

\* SUM(allocated_minor) of the active 'apply' reviews, of an invoice and of a cycle.
Allocated(m, reviews) == SumOf([c \in Cycles |-> reviews[<<c, m>>].amount], Cycles)
AllocatedTo(c, reviews) == SumOf([m \in Manual |-> reviews[<<c, m>>].amount], Manual)

\* get_available_manual_invoice_row, and the period list_manual_candidate_rows adds.
Available(c, m, reviews) ==
    /\ manual[m].state = "live" /\ reviews[<<c, m>>] = NoReview
    /\ manual[m].paid > Allocated(m, reviews)
Candidates(c, period, reviews) ==
    {m \in Manual : ManualPeriod[m] = period /\ Available(c, m, reviews)}

\* next_billing_period
PlannedPeriod == IF due THEN month + 1 ELSE month

NextCycle == 1 + Cardinality({c \in Cycles : Exists(c)})
NextInvoice == 1 + Cardinality({i \in Invoices : invoice[i].state # "absent"})

\* get_profile_change_cycle_row: the cycle a schedule edit must consider.
Concerned ==
    {c \in Cycles : /\ Current(c)
                    /\ \/ cycle[c].period \in {PlannedPeriod, month}
                       \/ cycle[c].state = "review_required"
                       \/ \E i \in Live(c) : Open(i)}
Rank(c) ==
    IF cycle[c].state = "review_required" \/ \E i \in Live(c) : Open(i) THEN 0
    ELSE IF cycle[c].period = month THEN 1 ELSE 2
IsTarget(c) ==
    /\ c \in Concerned
    /\ \A d \in Concerned : \/ Rank(c) < Rank(d)
                            \/ Rank(c) = Rank(d) /\ cycle[c].period >= cycle[d].period

-----------------------------------------------------------------------------
(* What the handlers write. *)

WithState(row, s) == IF row.state = s THEN row ELSE [row EXCEPT !.state = s, !.keyed = FALSE]

\* student_billing_cycles_superseded_check
PermittedAny(c, row) == TRUE
Permitted(c, row) == cycle[c].state = "superseded" => row.state = "superseded"

\* recompute_cycle_allocation
Recomputed(row, amount) ==
    [row EXCEPT !.allocated = amount, !.keyed = FALSE,
                !.state = IF amount >= row.expected THEN "satisfied"
                          ELSE IF row.state = "satisfied" THEN "scheduled" ELSE row.state]

\* insert_cycle: a snapshot of the price the profile now has.
NewCycle(period, price) ==
    [period |-> period, expected |-> price, allocated |-> 0,
     state |-> "scheduled", keyed |-> FALSE]

\* _enqueue_cycle_issuance for the version of the row: ON CONFLICT DO NOTHING.
Keyed(row) == [row EXCEPT !.keyed = TRUE]
EnqueueByVersion(c, row) ==
    IF \E d \in Cycles : cycle[d].keyed THEN UNCHANGED waiting
    ELSE waiting[c] < MaxWaiting /\ waiting' = [waiting EXCEPT ![c] = @ + 1]
Enqueue(c, row) ==
    IF row.keyed THEN UNCHANGED waiting
    ELSE waiting[c] < MaxWaiting /\ waiting' = [waiting EXCEPT ![c] = @ + 1]

\* insert_cycle_invoice: one monthly invoice a period that is not voided.
PeriodTakenByCycle(period, invoices) ==
    \E i \in Invoices : invoices[i].state = "live" /\ cycle[invoices[i].cycle].period = period
PeriodTaken(period, invoices) ==
    \/ period \in monthly
    \/ \E i \in Invoices : invoices[i].state = "live" /\ cycle[invoices[i].cycle].period = period

\* issue_billing_cycle, given the row and the invoices it finds: the row it
\* leaves, and whether it inserts an invoice.
Bills(c, row, invoices) ==
    /\ row.state \notin {"cancelled", "satisfied"}
    /\ LiveInvoices(c, invoices) = {}
    /\ Candidates(c, row.period, review) = {}
    /\ AllocatedTo(c, review) < row.expected
    /\ ~PeriodTaken(row.period, invoices)
AfterIssue(c, row, invoices) ==
    IF row.state \in {"cancelled", "satisfied"} THEN row
    ELSE IF LiveInvoices(c, invoices) # {} THEN WithState(row, "invoiced")
    ELSE IF Candidates(c, row.period, review) # {} THEN WithState(row, "review_required")
    ELSE IF Bills(c, row, invoices)
         THEN WithState(Recomputed(row, AllocatedTo(c, review)), "invoiced")
    ELSE Recomputed(row, AllocatedTo(c, review))
InvoiceOf(c, row) ==
    [cycle |-> c, total |-> row.expected - AllocatedTo(c, review), paid |-> 0,
     state |-> "live", pending |-> FALSE]
WriteIssued(c, row, invoices) ==
    IF Bills(c, row, invoices)
    THEN /\ NextInvoice \in Invoices
         /\ invoice' = [invoices EXCEPT ![NextInvoice] = InvoiceOf(c, row)]
         /\ stage' = [stage EXCEPT ![NextInvoice] = "waiting"]
    ELSE invoice' = invoices /\ UNCHANGED stage

\* sync_cycle_state_for_invoice: no word about the state the cycle is in.
Synced(row, inv) ==
    WithState(row, IF inv.state = "voided" THEN "cancelled"
                   ELSE IF inv.paid >= inv.total THEN "satisfied" ELSE "invoiced")

-----------------------------------------------------------------------------
(* Jobs. *)

\* plan_billing_cycles, run daily by the chain of generate_invoices jobs.  The
\* cycle of the planned period is created, then set to review or left alone.
PlanCycle(c, row) ==
    LET seen == IF Candidates(c, row.period, review) # {}
                THEN WithState(row, "review_required") ELSE row
    IN  /\ row.state \in {"scheduled", "review_required"}
        /\ Enqueue(c, seen)
        /\ cycle' = [cycle EXCEPT ![c] = Keyed(seen)]
PlanBillingCycles ==
    /\ GENERATE_INVOICES \in AllowedTopics
    /\ profile.status = "active"
    /\ PlannedPeriod \in Periods
    /\ LET planned == {c \in Cycles : Current(c) /\ cycle[c].period = PlannedPeriod}
       IN  \/ \E c \in planned : PlanCycle(c, cycle[c])
           \/ /\ planned = {} /\ NextCycle \in Cycles
              /\ PlanCycle(NextCycle, NewCycle(PlannedPeriod, profile.price))
    /\ UNCHANGED <<clockVars, profile, invoice, manual, monthly, review, stage>>

\* The issue_billing_cycle job; its handler raises when it would give a
\* superseded row another state.
Settle(c) == waiting[c] > 0 /\ waiting' = [waiting EXCEPT ![c] = @ - 1]
RunIssueJob(c) ==
    LET row == AfterIssue(c, cycle[c], invoice)
    IN  /\ ISSUE_BILLING_CYCLE \in AllowedTopics
        /\ Settle(c)
        /\ Permitted(c, row)
        /\ cycle' = [cycle EXCEPT ![c] = row]
        /\ WriteIssued(c, cycle[c], invoice)
        /\ UNCHANGED <<clockVars, profile, manual, monthly, review>>
IssueJobDies(c) ==
    /\ ISSUE_BILLING_CYCLE \in AllowedTopics
    /\ Settle(c)
    /\ ~Permitted(c, AfterIssue(c, cycle[c], invoice))
    /\ UNCHANGED <<clockVars, profile, cycle, invoice, manual, monthly, review, stage>>

\* process_enforcement_stage: an open invoice is held, any other reconciled.
StageRuns(i) ==
    LET c == invoice[i].cycle
        row == IF Open(i) THEN cycle[c] ELSE Synced(cycle[c], invoice[i])
    IN  /\ PROCESS_ENFORCEMENT_STAGE \in AllowedTopics
        /\ stage[i] = "waiting"
        /\ IF Permitted(c, row)
           THEN cycle' = [cycle EXCEPT ![c] = row] /\ stage' = [stage EXCEPT ![i] = "ran"]
           ELSE UNCHANGED cycle /\ stage' = [stage EXCEPT ![i] = "dead"]
        /\ UNCHANGED <<clockVars, profile, invoice, manual, monthly, review, waiting>>

-----------------------------------------------------------------------------
(* configure_billing_profile *)

\* A first configuration, or a change that no cycle stands in the way of.
Configure(price) ==
    /\ profile.status # "active" \/ price # profile.price
    /\ profile' = [status |-> "active", price |-> price]

\* The cycle created in the transaction is put to review or issued at once.
BillNow(c, row, rows, invoices) ==
    LET seen == IF Candidates(c, row.period, review) # {}
                THEN WithState(row, "review_required")
                ELSE AfterIssue(c, row, invoices)
    IN  /\ c \in Cycles
        /\ cycle' = [rows EXCEPT ![c] = seen]
        /\ WriteIssued(c, row, invoices)

ApplyFresh(price) ==
    /\ Configure(price)
    /\ Concerned = {} /\ PlannedPeriod \in Periods
    /\ BillNow(NextCycle, NewCycle(PlannedPeriod, price), cycle, invoice)
    /\ UNCHANGED <<clockVars, manual, monthly, review, waiting>>

\* apply_billing_profile_change to the next cycle: the change alone, when a
\* cycle is in the way; otherwise the cycle is planned like the job would.
ApplyNextCycle(price) ==
    /\ Configure(price) /\ profile.status # "none"
    /\ \/ Concerned # {} /\ UNCHANGED <<cycle, waiting>>
       \/ /\ Concerned = {} /\ PlannedPeriod \in Periods /\ NextCycle \in Cycles
          /\ LET row == NewCycle(PlannedPeriod, price)
             IN  IF Candidates(NextCycle, row.period, review) # {}
                 THEN /\ cycle' = [cycle EXCEPT ![NextCycle] = WithState(row, "review_required")]
                      /\ UNCHANGED waiting
                 ELSE Enqueue(NextCycle, row) /\ cycle' = [cycle EXCEPT ![NextCycle] = Keyed(row)]
    /\ UNCHANGED <<clockVars, invoice, manual, monthly, review, stage>>

\* The invoice of the cycle may be replaced: block_reason is empty.
ReplaceableUnlessPaid(c) ==
    /\ cycle[c].state # "review_required"
    /\ \A i \in Live(c) : invoice[i].paid < invoice[i].total
Replaceable(c) ==
    /\ cycle[c].state # "review_required"
    /\ \A i \in Live(c) :
          /\ invoice[i].paid = 0
          /\ ~invoice[i].pending
          /\ ~Held(i)
          /\ \A m \in Manual : review[<<c, m>>] = NoReview
Voided(c) == [i \in Invoices |-> IF i \in Live(c) THEN [invoice[i] EXCEPT !.state = "voided"]
                                 ELSE invoice[i]]
ApplyCurrentCycle(price) ==
    /\ Configure(price)
    /\ \E t \in Cycles :
          /\ IsTarget(t) /\ Replaceable(t)
          /\ BillNow(NextCycle, NewCycle(cycle[t].period, price),
                     [cycle EXCEPT ![t] = WithState(@, "superseded")], Voided(t))
    /\ UNCHANGED <<clockVars, manual, monthly, review, waiting>>

\* ensure_current_cycle_invoice, when the schedule is saved unchanged.
EnsureCurrentInvoice ==
    /\ profile.status = "active"
    /\ \/ /\ Concerned = {} /\ PlannedPeriod \in Periods
          /\ BillNow(NextCycle, NewCycle(PlannedPeriod, profile.price), cycle, invoice)
       \/ \E t \in Cycles :
             /\ IsTarget(t) /\ Live(t) = {}
             /\ cycle[t].state \notin {"cancelled", "satisfied", "review_required"}
             /\ BillNow(t, cycle[t], cycle, invoice)
    /\ UNCHANGED <<clockVars, profile, manual, monthly, review, waiting>>

\* A profile saved as paused or ended; no cycle is looked at.
Pause(price) ==
    /\ profile' = [status |-> "paused", price |-> price]
    /\ profile' # profile
    /\ UNCHANGED <<clockVars, cycle, invoice, manual, monthly, review, waiting, stage>>

-----------------------------------------------------------------------------
(* Staff review the manual invoices of a cycle. *)

AfterReview(c, reviews) ==
    LET row == Recomputed(cycle[c], AllocatedTo(c, reviews))
    IN  WithState(row, IF row.allocated >= row.expected THEN "satisfied"
                       ELSE IF Candidates(c, row.period, reviews) # {} THEN "review_required"
                       ELSE "scheduled")

\* review_manual_invoice
ReviewManualInvoice(c, m, decision, amount) ==
    LET reviews == [review EXCEPT ![<<c, m>>] = [decision |-> decision, amount |-> amount]]
        row == AfterReview(c, reviews)
    IN  /\ Exists(c) /\ Live(c) = {}
        /\ Available(c, m, review)
        /\ IF decision = "exclude" THEN amount = 0 /\ ManualPeriod[m] = cycle[c].period
           ELSE /\ amount \in 1..(manual[m].paid - Allocated(m, review))
                /\ amount <= cycle[c].expected - cycle[c].allocated
        /\ Permitted(c, row)
        /\ review' = reviews
        /\ IF row.state = "scheduled"
           THEN Enqueue(c, row) /\ cycle' = [cycle EXCEPT ![c] = Keyed(row)]
           ELSE UNCHANGED waiting /\ cycle' = [cycle EXCEPT ![c] = row]
        /\ UNCHANGED <<clockVars, profile, invoice, manual, monthly, stage>>

\* reverse_manual_invoice_review
ReverseReview(c, m) ==
    LET reviews == [review EXCEPT ![<<c, m>>] = NoReview]
        row == WithState(Recomputed(cycle[c], AllocatedTo(c, reviews)), "review_required")
    IN  /\ review[<<c, m>>] # NoReview /\ Live(c) = {}
        /\ Permitted(c, row)
        /\ review' = reviews
        /\ cycle' = [cycle EXCEPT ![c] = row]
        /\ UNCHANGED <<clockVars, profile, invoice, manual, monthly, waiting, stage>>

-----------------------------------------------------------------------------
(* Money. *)

\* add_paid_student_invoice, record_manual_payment, reverse_invoice_payment and
\* void_student_invoice on a manual invoice; none looks at the reviews of it.
AddPaidInvoice(m) ==
    /\ manual[m].state = "absent"
    /\ manual' = [manual EXCEPT ![m] = [state |-> "live", paid |-> ManualTotal[m]]]
PayManual(m) ==
    /\ manual[m] = [state |-> "live", paid |-> 0]
    /\ manual' = [manual EXCEPT ![m].paid = ManualTotal[m]]
ReverseManual(m) ==
    /\ manual[m].state = "live" /\ manual[m].paid > 0
    /\ manual' = [manual EXCEPT ![m].paid = 0]
VoidManual(m) ==
    /\ manual[m] = [state |-> "live", paid |-> 0]
    /\ manual' = [manual EXCEPT ![m].state = "voided"]
ManualMoney ==
    /\ \E m \in Manual : AddPaidInvoice(m) \/ PayManual(m) \/ ReverseManual(m) \/ VoidManual(m)
    /\ UNCHANGED <<clockVars, profile, cycle, invoice, monthly, review, waiting, stage>>

\* The same on the invoice of a cycle: reconcile_invoice_enforcement brings the
\* state of the cycle in line.
ChangeInvoice(i, inv) ==
    LET row == Synced(cycle[inv.cycle], inv)
    IN  /\ Permitted(inv.cycle, row)
        /\ invoice' = [invoice EXCEPT ![i] = inv]
        /\ cycle' = [cycle EXCEPT ![inv.cycle] = row]
        /\ UNCHANGED <<clockVars, profile, manual, monthly, review, waiting, stage>>
PayInvoice(i, amount) ==
    /\ Open(i) /\ ~invoice[i].pending
    /\ amount <= invoice[i].total - invoice[i].paid
    /\ ChangeInvoice(i, [invoice[i] EXCEPT !.paid = @ + amount])
ReturnMoney(i, amount) ==
    /\ invoice[i].state = "live" /\ amount <= invoice[i].paid
    /\ ChangeInvoice(i, [invoice[i] EXCEPT !.paid = @ - amount])
VoidInvoice(i) ==
    /\ invoice[i].state = "live" /\ invoice[i].paid = 0
    /\ ChangeInvoice(i, [invoice[i] EXCEPT !.state = "voided"])

\* CreateTransaction, CancelTransaction and PerformTransaction, which takes the
\* whole balance.
BeginPayme(i) ==
    /\ Open(i) /\ ~invoice[i].pending
    /\ invoice' = [invoice EXCEPT ![i].pending = TRUE]
    /\ UNCHANGED <<clockVars, profile, cycle, manual, monthly, review, waiting, stage>>
CancelPayme(i) ==
    /\ invoice[i].pending
    /\ invoice' = [invoice EXCEPT ![i].pending = FALSE]
    /\ UNCHANGED <<clockVars, profile, cycle, manual, monthly, review, waiting, stage>>
PerformPayme(i) ==
    /\ Open(i) /\ invoice[i].pending
    /\ ChangeInvoice(i, [invoice[i] EXCEPT !.paid = invoice[i].total, !.pending = FALSE])

\* issue_student_invoice with the kind monthly, which the unique index on a
\* student's monthly invoices refuses when the period has one.
IssueMonthly(p) ==
    /\ profile.status # "none" /\ ~PeriodTaken(p, invoice)
    /\ monthly' = monthly \cup {p}
VoidMonthly(p) == p \in monthly /\ monthly' = monthly \ {p}
MonthlyByHand ==
    /\ \E p \in ByHand : IssueMonthly(p) \/ VoidMonthly(p)
    /\ UNCHANGED <<clockVars, profile, cycle, invoice, manual, review, waiting, stage>>

Tick ==
    /\ \/ ~due /\ due' = TRUE /\ UNCHANGED month
       \/ due /\ month + 1 \in Periods /\ month' = month + 1 /\ due' = FALSE
    /\ UNCHANGED <<profile, cycle, invoice, manual, monthly, review, waiting, stage>>

-----------------------------------------------------------------------------

Jobs ==
    \/ PlanBillingCycles
    \/ \E c \in Cycles : RunIssueJob(c) \/ IssueJobDies(c)
    \/ \E i \in Invoices : StageRuns(i)
Schedule ==
    \/ \E price \in Prices :
          ApplyFresh(price) \/ ApplyNextCycle(price) \/ ApplyCurrentCycle(price) \/ Pause(price)
    \/ EnsureCurrentInvoice
Review ==
    \E c \in Cycles, m \in Manual :
        \/ \E amount \in 1..HighestPrice : ReviewManualInvoice(c, m, "apply", amount)
        \/ ReviewManualInvoice(c, m, "exclude", 0)
        \/ ReverseReview(c, m)
Money ==
    \/ \E i \in Invoices :
          \/ \E amount \in 1..HighestPrice : PayInvoice(i, amount) \/ ReturnMoney(i, amount)
          \/ VoidInvoice(i) \/ BeginPayme(i) \/ CancelPayme(i) \/ PerformPayme(i)
    \/ ManualMoney
    \/ MonthlyByHand
Next == Jobs \/ Schedule \/ Review \/ Money \/ Tick

Spec == Init /\ [][Next]_vars

\* The worker takes every allowed job in the end, and the chain of daily
\* generation jobs does not break; staff and parents need not do anything.
FairSpec ==
    /\ Spec
    /\ WF_vars(PlanBillingCycles)
    /\ \A c \in Cycles : WF_vars(RunIssueJob(c) \/ IssueJobDies(c))

-----------------------------------------------------------------------------
(* Safety. *)

\* The live invoices of the cycles of a period.
LiveFor(p) == {i \in Invoices : invoice[i].state = "live" /\ cycle[invoice[i].cycle].period = p}

\* A period has one cycle and one charge: whatever staff edit while jobs wait,
\* no two current cycles, and no two invoices (of cycles or by hand), are live.
OneChargePerPeriod ==
    \A p \in Periods :
        /\ Cardinality({c \in Cycles : Current(c) /\ cycle[c].period = p}) <= 1
        /\ Cardinality(LiveFor(p)) + (IF p \in monthly THEN 1 ELSE 0) <= 1

\* A superseded cycle is never taken up again and bills nothing, although its
\* issue job, its stage jobs and staff who know its id still come by, and
\* neither issue_billing_cycle nor the reviews look for the state.
ReplacedStaysReplaced ==
    [][\A c \in Cycles : cycle[c].state = "superseded" =>
          cycle'[c].state = "superseded" /\ LiveInvoices(c, invoice') = {}]_vars

\* The invoice of a cycle asks for the part of the price that no manual
\* invoice was applied to, as long as it lives.
InvoiceAsksTheRest ==
    \A i \in Invoices : LET c == invoice[i].cycle IN
        invoice[i].state = "live" => invoice[i].total + AllocatedTo(c, review) = cycle[c].expected

\* A satisfied cycle was settled: its invoice is paid, or reviews cover it.
SatisfiedWasSettled ==
    \A c \in Cycles : cycle[c].state = "satisfied" =>
        \/ \E i \in Live(c) : invoice[i].paid = invoice[i].total
        \/ AllocatedTo(c, review) >= cycle[c].expected

\* Reviews hand out no more of a manual invoice than was received on it when
\* they were made: two cycles never share the same money.
ReviewsShareTheMoney == \A m \in Manual : Allocated(m, review) <= ManualTotal[m]

\* What a month costs adds up, whoever edits, issues, reviews or pays, and when.
MonthsAddUp ==
    /\ TypeOK
    /\ OneChargePerPeriod
    /\ InvoiceAsksTheRest
    /\ SatisfiedWasSettled
    /\ ReviewsShareTheMoney

\* The invoices of the cycles of a period, taken together, are the one charge
\* of that period: a schedule edit replaces the charge in one step, and only
\* while nothing was received on it.
Owed(p) == SumOf([i \in Invoices |-> invoice[i].total], LiveFor(p))
Received(p) == SumOf([i \in Invoices |-> invoice[i].paid], LiveFor(p))
Charges == INSTANCE MonthlyCharge WITH
    Amounts <- 0..HighestPrice,
    owed <- [p \in Periods |-> Owed(p)],
    received <- [p \in Periods |-> Received(p)]
ChargesByTheMonth == Charges!Spec

(* Promises the code does not keep. *)

\* "The current billing cycle is under manual review": a cycle that manual
\* money was applied to is not replaced.
AppliedMoneyKeepsItsCycle ==
    \A c \in Cycles : cycle[c].state = "superseded" => AllocatedTo(c, review) = 0

\* "The allocation exceeds the invoice payment": what reviews hand out of a
\* manual invoice is money that is there.
AllocationsWithinPaid == \A m \in Manual : Allocated(m, review) <= manual[m].paid

\* "Void the generated cycle invoice before reversing this allocation": once
\* the reviews are done again, the voided invoice has no hand in the cycle.
OpenInvoiceShowsOnItsCycle ==
    \A c \in Cycles : (\E i \in Live(c) : Open(i)) => cycle[c].state = "invoiced"

\* "Pause schedule": nothing is billed while the schedule is paused.
PausedIsNotBilled ==
    [][(\E i \in Invoices : invoice[i].state = "absent" /\ invoice'[i].state = "live")
         => profile'.status = "active"]_vars

-----------------------------------------------------------------------------
(* Liveness. *)

\* A planned cycle does not stay planned: the worker issues it, unless a
\* monthly invoice issued by hand takes its place.
PlannedIsIssued ==
    \A c \in Cycles :
        cycle[c].state = "scheduled" ~>
            \/ cycle[c].state # "scheduled" \/ cycle[c].period \in monthly
            \/ profile.status # "active"

\* "Repair an active schedule whose current cycle has no payable invoice": a
\* cycle that waits for review has something to review, sooner or later.
ReviewCanEnd ==
    \A c \in Cycles :
        cycle[c].state = "review_required" ~>
            \/ cycle[c].state # "review_required" \/ Candidates(c, cycle[c].period, review) # {}
            \/ profile.status # "active"
=============================================================================
