----------------------------- MODULE Enforcement -----------------------------
(***************************************************************************)
(* Payment enforcement: the schedule of each invoice of a current student, *)
(* from the countdown of 48 hours to the holds that leave the accounts of  *)
(* a household nothing but their payment pages.                            *)
(*                                                                         *)
(* A schedule is written by every transaction that moves the invoice's     *)
(* money, by four stage jobs of the outbox, and by a reconciliation that   *)
(* runs every 15 minutes and walks over the schedules under way.  All of   *)
(* them lock the schedule and its invoice, so each is one action.  A stage *)
(* job may run late, more than once, or never (see Outbox).                *)
(*                                                                         *)
(* The invoice itself is reduced to what enforcement reads of it; who pays *)
(* it, and how, is Settlement.  Invoices of admissions are never enforced. *)
(***************************************************************************)
EXTENDS Naturals, FiniteSets

CONSTANTS
    Invoices,        \* invoices of current students
    Accounts,        \* accounts of students and parents
    Reminders,       \* the stages before "held": initial, 24 hours, 6 hours
    ReconcileLimit   \* LIMIT of list_active_schedule_rows

EnforcementAssumption ==
    /\ Invoices \subseteq Nat
    /\ "held" \notin Reminders
    /\ ReconcileLimit \in Nat \ {0}

VARIABLES
    ledger,          \* the invoice: issued and unpaid, settled, or voided
    state,           \* invoice_enforcement_schedules.state
    passed,          \* deadline_at <= now
    jobs,            \* stage jobs not yet completed or dead
    holds,           \* accounts with an active billing_access_holds row of the schedule
    household,       \* accounts of the student, the parents and the parents' students
    restored         \* deliveries of the notification stage "restored"

vars == <<ledger, state, passed, jobs, holds, household, restored>>

Stages == Reminders \cup {"held"}
Closed == {"cleared", "cancelled"}

TypeOK ==
    /\ ledger \in [Invoices -> {"absent", "open", "settled", "voided"}]
    /\ state \in [Invoices -> Closed \cup {"absent", "scheduled", "countdown", "held"}]
    /\ passed \in [Invoices -> BOOLEAN]
    /\ jobs \in [Invoices -> SUBSET Stages]
    /\ holds \in [Invoices -> SUBSET Accounts]
    /\ household \in [Invoices -> SUBSET Accounts]
    /\ restored \in SUBSET (Invoices \X Accounts)

\* Invoices issued before enforcement was introduced have no schedule yet.
Init ==
    /\ ledger \in [Invoices -> {"absent", "open"}]
    /\ state = [i \in Invoices |-> "absent"]
    /\ passed \in [Invoices -> BOOLEAN]
    /\ \A i \in Invoices : ledger[i] = "absent" => ~passed[i]
    /\ jobs = [i \in Invoices |-> {}]
    /\ holds = [i \in Invoices |-> {}]
    /\ household \in [Invoices -> SUBSET Accounts]
    /\ restored = {}

-----------------------------------------------------------------------------
(* What reconciling the schedule of invoice i makes of it, once the invoice *)
(* is l.                                                                    *)

\* An invoice settled or voided closes its schedule; an open one is held after
\* its deadline, unless the schedule was closed before.
Due(i) == passed[i] /\ state[i] \notin Closed

StateAfter(i, l) ==
    IF l = "voided" THEN "cancelled"
    ELSE IF l # "open" THEN "cleared"
    ELSE IF Due(i) THEN "held"
    ELSE IF passed[i] THEN state[i] ELSE "countdown"

\* release_schedule_holds, or activate_household_holds with
\* release_removed_household_holds.
HoldsKeepLeavers(i, l) ==
    IF l # "open" THEN {}
    ELSE IF Due(i) THEN household[i] \cup holds[i] ELSE holds[i]
HoldsAfter(i, l) ==
    IF l # "open" THEN {}
    ELSE IF Due(i) THEN household[i] ELSE holds[i]

\* Members whose last hold this is are told that their access is restored, if
\* the schedule was in the state "held".
ToldRestored(i, l) ==
    IF l # "open" /\ state[i] = "held"
    THEN {a \in holds[i] \cap household[i] : \A j \in Invoices \ {i} : a \notin holds[j]}
    ELSE {}

\* insert_schedule and _enqueue_stage_jobs.
Schedule(i) ==
    /\ state' = [state EXCEPT ![i] = "scheduled"]
    /\ jobs' = [jobs EXCEPT ![i] = Stages]

\* reconcile_invoice_enforcement, at the end of a transaction that leaves the
\* invoice as l: an open invoice without a schedule gets one, with the deadline
\* its issue and due dates give.
ReconcileInvoice(i, l) ==
    IF state[i] = "absent"
    THEN /\ IF l = "open" THEN Schedule(i) ELSE UNCHANGED <<state, jobs>>
         /\ UNCHANGED <<holds, restored>>
    ELSE /\ state' = [state EXCEPT ![i] = StateAfter(i, l)]
         /\ holds' = [holds EXCEPT ![i] = HoldsAfter(i, l)]
         /\ restored' = restored \cup ({i} \X ToldRestored(i, l))
         /\ UNCHANGED jobs

-----------------------------------------------------------------------------
(* The transactions of the ledger. *)

\* issue_student_invoice and issue_billing_cycle: the window is still whole.
Issue(i) ==
    /\ ledger[i] = "absent"
    /\ ledger' = [ledger EXCEPT ![i] = "open"]
    /\ Schedule(i)
    /\ UNCHANGED <<passed, holds, household, restored>>

\* add_paid_student_invoice: scheduled and cleared in one transaction.
IssuePaid(i) ==
    /\ ledger[i] = "absent"
    /\ ledger' = [ledger EXCEPT ![i] = "settled"]
    /\ state' = [state EXCEPT ![i] = "cleared"]
    /\ jobs' = [jobs EXCEPT ![i] = Stages]
    /\ UNCHANGED <<passed, holds, household, restored>>

\* record_manual_payment, PerformTransaction, void_student_invoice, and
\* reverse_invoice_payment, CancelTransaction of a performed one.
MoveMoney(i, l) ==
    /\ \/ ledger[i] = "open" /\ l \in {"open", "settled", "voided"}
       \/ ledger[i] = "settled" /\ l = "open"
    /\ ledger' = [ledger EXCEPT ![i] = l]
    /\ ReconcileInvoice(i, l)
    /\ UNCHANGED <<passed, household>>

-----------------------------------------------------------------------------
(* The jobs. *)

\* process_enforcement_stage of an open invoice whose schedule is not closed.
\* A reminder sets the countdown, whatever the state was.
ReminderReleases(i, stage) ==
    IF stage # "held"
    THEN /\ state' = [state EXCEPT ![i] = "countdown"]
         /\ holds' = [holds EXCEPT ![i] = {}]
    ELSE /\ passed[i]
         /\ state' = [state EXCEPT ![i] = "held"]
         /\ holds' = [holds EXCEPT ![i] = household[i]]
ProcessOpen(i, stage) ==
    IF stage # "held"
    THEN /\ state' = [state EXCEPT ![i] = "countdown"]
         /\ UNCHANGED holds
    ELSE IF passed[i]
    THEN /\ state' = [state EXCEPT ![i] = "held"]
         /\ holds' = [holds EXCEPT ![i] = household[i]]
    ELSE UNCHANGED <<state, holds>>

\* The stage job commits; it may be delivered again.  The worker's clock decides
\* whether the deadline has passed, the database's when the job may be claimed.
ProcessUnchecked(i, stage) ==
    /\ stage \in jobs[i]
    /\ \E delivered \in {{}, {stage}} : jobs' = [jobs EXCEPT ![i] = @ \ delivered]
    /\ ProcessOpen(i, stage)
    /\ UNCHANGED <<ledger, passed, household, restored>>
ProcessStage(i, stage) ==
    /\ stage \in jobs[i]
    /\ \E delivered \in {{}, {stage}} : jobs' = [jobs EXCEPT ![i] = @ \ delivered]
    /\ IF ledger[i] # "open"
       THEN /\ state' = [state EXCEPT ![i] = StateAfter(i, ledger[i])]
            /\ holds' = [holds EXCEPT ![i] = HoldsAfter(i, ledger[i])]
            /\ restored' = restored \cup ({i} \X ToldRestored(i, ledger[i]))
       ELSE /\ IF state[i] \in Closed THEN UNCHANGED <<state, holds>>
               ELSE ProcessOpen(i, stage)
            /\ UNCHANGED restored
    /\ UNCHANGED <<ledger, passed, household>>

\* The outbox gives the stage job up.
StageDies(i, stage) ==
    /\ stage \in jobs[i]
    /\ jobs' = [jobs EXCEPT ![i] = @ \ {stage}]
    /\ UNCHANGED <<ledger, state, passed, holds, household, restored>>

\* bootstrap_billing_enforcement: some of the open invoices without a schedule
\* (those not locked, up to a limit) get one, with 48 hours from now.
Bootstrap(chosen) ==
    /\ chosen # {}
    /\ \A i \in chosen : ledger[i] = "open" /\ state[i] = "absent"
    /\ state' = [i \in Invoices |-> IF i \in chosen THEN "scheduled" ELSE state[i]]
    /\ jobs' = [i \in Invoices |-> IF i \in chosen THEN Stages ELSE jobs[i]]
    /\ passed' = [i \in Invoices |-> IF i \in chosen THEN FALSE ELSE passed[i]]
    /\ UNCHANGED <<ledger, holds, household, restored>>

\* list_active_schedule_rows: ORDER BY deadline_at, id.
Active == {i \in Invoices : state[i] \in {"countdown", "held"}}
ComesBefore(j, i) == (passed[j] /\ ~passed[i]) \/ (passed[j] = passed[i] /\ j < i)
Listed == {i \in Active : Cardinality({j \in Active : ComesBefore(j, i)}) < ReconcileLimit}

\* reconcile_active_schedules: one transaction.
Reconcile ==
    /\ state' = [i \in Invoices |-> IF i \in Listed THEN StateAfter(i, ledger[i]) ELSE state[i]]
    /\ holds' = [i \in Invoices |-> IF i \in Listed THEN HoldsAfter(i, ledger[i]) ELSE holds[i]]
    /\ restored' = restored \cup UNION {{i} \X ToldRestored(i, ledger[i]) : i \in Listed}
    /\ UNCHANGED <<ledger, passed, jobs, household>>

-----------------------------------------------------------------------------
(* The clock, and the families. *)

DeadlinePasses(i) ==
    /\ ledger[i] # "absent" /\ ~passed[i]
    /\ passed' = [passed EXCEPT ![i] = TRUE]
    /\ UNCHANGED <<ledger, state, jobs, holds, household, restored>>

\* A parent is linked or unlinked, a profile opened or archived.
HouseholdChanges(i, a) ==
    /\ household' = [household EXCEPT ![i] = IF a \in @ THEN @ \ {a} ELSE @ \cup {a}]
    /\ UNCHANGED <<ledger, state, passed, jobs, holds, restored>>

Next ==
    \/ \E i \in Invoices :
        \/ Issue(i)
        \/ IssuePaid(i)
        \/ \E l \in {"open", "settled", "voided"} : MoveMoney(i, l)
        \/ \E stage \in Stages : ProcessStage(i, stage) \/ StageDies(i, stage)
        \/ DeadlinePasses(i)
        \/ \E a \in Accounts : HouseholdChanges(i, a)
    \/ \E chosen \in SUBSET Invoices : Bootstrap(chosen)
    \/ Reconcile

Spec == Init /\ [][Next]_vars

\* The reconciliation enqueues its own next run; nothing is assumed of the stage
\* jobs, of payments or of the clock.
FairSpec == Spec /\ WF_vars(Reconcile)

-----------------------------------------------------------------------------
(* Properties. *)

\* However late and however often the jobs run, an account is held only for an
\* invoice that is overdue and still to be paid, and by a schedule its payment
\* page shows (list_account_enforcement_rows).
HoldsOnlyWhileOwed ==
    \A i \in Invoices : holds[i] # {} =>
        /\ ledger[i] = "open" /\ passed[i]
        /\ state[i] \in {"countdown", "held"}

\* "The restriction remains active until payment is completed": a part payment,
\* a late reminder or a repeated job lets nobody go but those who have left the
\* household.
ReleasedOnlyByPayment ==
    [][\A i \in Invoices : \A a \in holds[i] \ holds'[i] :
           ledger'[i] # "open" \/ a \notin household[i]]_vars

\* Nobody is told that access is restored while another invoice still holds them.
ToldOnlyWhenFree ==
    [][\A i \in Invoices, a \in Accounts :
           <<i, a>> \in restored' \ restored => \A j \in Invoices : a \notin holds'[j]]_vars

\* A countdown that has run out ends in a hold, even if the job of the stage
\* "held" died, or a late reminder set the countdown again; as long as the schedule
\* is Listed.  Beyond ReconcileLimit schedules under way nothing is promised: those
\* held stay in front by their deadline (enforcement_repository.py:552), and a later
\* countdown whose job died may wait for as long as they are not paid.
CountdownEndsInHold ==
    \A i \in Invoices :
        state[i] = "countdown" /\ passed[i] /\ i \in Listed
          ~> state[i] = "held" \/ ledger[i] # "open" \/ i \notin Listed

\* The holds of an overdue invoice follow its household while its schedule is
\* Listed: who joins it is held, who leaves it is let go.
HoldsFollowHousehold ==
    \A i \in Invoices, a \in Accounts :
        /\ state[i] = "held" /\ a \in household[i] /\ i \in Listed
             ~> a \in holds[i] \/ a \notin household[i] \/ ledger[i] # "open" \/ i \notin Listed
        /\ a \in holds[i] \ household[i] /\ i \in Listed
             ~> a \notin holds[i] \/ a \in household[i] \/ i \notin Listed

\* "If payment is still not completed after the final warning period, the
\* student/account is restricted until payment is completed": an invoice that
\* was under enforcement does not stay overdue and open with nobody held.
OverdueIsRestricted ==
    \A i \in Invoices :
        state[i] \notin {"absent", "scheduled"} /\ ledger[i] = "open" /\ passed[i]
          ~> state[i] = "held" \/ ledger[i] # "open"
=============================================================================
