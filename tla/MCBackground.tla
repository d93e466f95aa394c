-------------------------------- MODULE MCBackground --------------------------------
(***************************************************************************)
(* Small instances of what workers do in the background: the outbox,       *)
(* payment enforcement, billing cycles, billing notifications the          *)
(* conversion of presentations, and the pages of the ticket queue.         *)
(*                                                                         *)
(* A behaviour picks one component and lets the others stand still, so     *)
(* only the fairness of that component is asked for.                       *)
(***************************************************************************)
EXTENDS TLC

CONSTANTS
    Workers, WorkerIds, Keys, IdOf, Serves, Handled, Attempts, BatchSize,
    MaxReplays, Billed, Accounts, Reminders, ReconcileLimit, Invoices,
    Periods, Prices, Cycles, Manual, ManualPeriod, ManualTotal, ByHand,
    MaxWaiting, AllowedTopics, People, Chats, MaxSends, Moves, SlideWorkers,
    MaxTries, MaxCrashes, MaxTicket, PageSize, MaxTime, w1, w2, k1, k2,
    NoOwner, NoJob, parent, pupil, m1, c1, c2, GENERATE_INVOICES,
    ISSUE_BILLING_CYCLE, PROCESS_ENFORCEMENT_STAGE, NoKey

VARIABLES
    part,             \* the component a behaviour is about
    \* Jobs
    status, attempts, owner, leaseUp, due, phase, batch, job, seen, performed,
    started, replays,
    \* Holds
    ledger, state, passed, jobs, holds, household, restored,
    \* Billing
    month, billingDue, profile, cycle, invoice, manual, monthly, review,
    waiting, stage,
    \* Notices
    payable, noticesHousehold, chat, delivery, noticesJob, messages,
    \* Slides
    conversion, tries, slides, drafted, published, slidesJob, charged,
    slidesOwner, slidesPhase, at, crashes,
    \* Pages
    place, clock, cursor, walking, listed, steady

outboxVars ==
    <<status, attempts, owner, leaseUp, due, phase, batch, job, seen,
      performed, started, replays>>
enforcementVars ==
    <<ledger, state, passed, jobs, holds, household, restored>>
billingVars ==
    <<month, billingDue, profile, cycle, invoice, manual, monthly, review,
      waiting, stage>>
noticesVars ==
    <<payable, noticesHousehold, chat, delivery, noticesJob, messages>>
slidesVars ==
    <<conversion, tries, slides, drafted, published, slidesJob, charged,
      slidesOwner, slidesPhase, at, crashes>>
pagesVars ==
    <<place, clock, cursor, walking, listed, steady>>

\* One worker identity per process, the default host:pid.
OwnIds == [p \in Workers |-> p]
\* The second process is the thread in the web process, restricted to one topic.
ServesSome == [p \in Workers |-> IF p = w1 THEN Keys ELSE {k1}]
OneAttemptFirst == [j \in Keys |-> IF j = k1 THEN 1 ELSE 2]
NoManual == [m \in Manual |-> 1]
EveryTopic == {GENERATE_INVOICES, ISSUE_BILLING_CYCLE, PROCESS_ENFORCEMENT_STAGE}

Jobs == INSTANCE Outbox WITH
    Jobs <- Keys, MaxAttempts <- Attempts
Holds == INSTANCE Enforcement WITH
    Invoices <- Billed
Billing == INSTANCE BillingCycles WITH
    due <- billingDue
Notices == INSTANCE BillingNotifications WITH
    MaxAttempts <- 2, household <- noticesHousehold, job <- noticesJob
Slides == INSTANCE PresentationConversion WITH
    MaxAttempts <- 2, Workers <- SlideWorkers, job <- slidesJob, owner <-
    slidesOwner, phase <- slidesPhase
Pages == INSTANCE TicketQueue

\* The cut of payment enforcement: the household of the first invoice keeps still.
OneHouseholdChanges == household[1] = Accounts

MCInit ==
    /\ part \in {"outbox", "enforcement", "billing", "notices", "slides",
                    "pages"}
    /\ Jobs!Init /\ Holds!Init /\ Billing!Init /\ Notices!Init /\
       Slides!Init /\ Pages!Init
    /\ part # "enforcement" => \A i \in Billed : ledger[i] = "absent" /\ household[i] = {}
    /\ part = "enforcement" => OneHouseholdChanges
    /\ part # "notices" => noticesHousehold = {} /\ \A p \in People : chat[p] = Notices!NoChat

\* One component moves, all the others stand still.
MCNext ==
    \/ /\ part = "outbox" /\ Jobs!Next
       /\ UNCHANGED <<part, enforcementVars, billingVars, noticesVars,
                        slidesVars, pagesVars>>
    \/ /\ part = "enforcement" /\ Holds!Next /\ OneHouseholdChanges'
       /\ UNCHANGED <<part, outboxVars, billingVars, noticesVars,
                        slidesVars, pagesVars>>
    \/ /\ part = "billing" /\ Billing!Next
       /\ UNCHANGED <<part, outboxVars, enforcementVars, noticesVars,
                        slidesVars, pagesVars>>
    \/ /\ part = "notices" /\ Notices!Next
       /\ UNCHANGED <<part, outboxVars, enforcementVars, billingVars,
                        slidesVars, pagesVars>>
    \/ /\ part = "slides" /\ Slides!Next
       /\ UNCHANGED <<part, outboxVars, enforcementVars, billingVars,
                        noticesVars, pagesVars>>
    \/ /\ part = "pages" /\ Pages!Next
       /\ UNCHANGED <<part, outboxVars, enforcementVars, billingVars,
                        noticesVars, slidesVars>>

MCvars == <<part, outboxVars, enforcementVars, billingVars, noticesVars,
            slidesVars, pagesVars>>
MCSpec == MCInit /\ [][MCNext]_MCvars

ASSUME Jobs!OutboxAssumption /\ Holds!EnforcementAssumption /\ Billing!BillingAssumption
ASSUME Notices!NotificationsAssumption /\ Slides!ConversionAssumption
ASSUME Pages!QueueAssumption

\* The fairness each component's own FairSpec states.
MCFairSpec ==
    /\ MCSpec
    /\ \A j \in Keys :
         /\ WF_outboxVars(part = "outbox" /\ (Jobs!LeaseExpires(j)))
         /\ WF_outboxVars(part = "outbox" /\ (Jobs!BecomesDue(j)))
    /\ \A p \in Workers :
         /\ WF_outboxVars(part = "outbox" /\ (\E j \in Keys : Jobs!StartJob(p, j)))
         /\ WF_outboxVars(part = "outbox" /\ (Jobs!HandlerCommits(p) \/ Jobs!HandlerRaises(p)))
         /\ WF_outboxVars(part = "outbox" /\ (Jobs!RecordSuccess(p) \/ Jobs!LoseLease(p)
                                         \/ Jobs!RecordFailure(p)))
         /\ WF_outboxVars(part = "outbox" /\ (Jobs!Restart(p)))
         /\ \A j \in ServesSome[p] :
              /\ SF_outboxVars(part = "outbox" /\ (\E S \in SUBSET Keys : j \in S /\ Jobs!Claim(p, S)))
              /\ SF_outboxVars(part = "outbox" /\ (\E S \in SUBSET Keys :
                                               j \in Jobs!Expired(p) /\ Jobs!Claim(p, S)))
    /\ WF_enforcementVars(part = "enforcement" /\ (Holds!Reconcile))
    /\ WF_billingVars(part = "billing" /\ (Billing!PlanBillingCycles))
    /\ \A c \in Cycles :
         WF_billingVars(part = "billing" /\ (Billing!RunIssueJob(c) \/ Billing!IssueJobDies(c)))
    /\ WF_noticesVars(part = "notices" /\ (Notices!Announces))
    /\ \A p \in People : WF_noticesVars(part = "notices" /\ (Notices!JobSteps(p)))
    /\ \A p \in SlideWorkers : WF_slidesVars(part = "slides" /\ (Slides!Works(p)))
    /\ \A k \in Slides!AttemptKeys : WF_slidesVars(part = "slides" /\ (Slides!Abandoned(k) /\ Slides!Expire(k)))
    /\ WF_pagesVars(part = "pages" /\ (Pages!ReadsPage))

\* Every accepted job is completed or dead in the end, though processes crash.
EveryJobSettles == Jobs!EveryJobSettles

\* A countdown that has run out ends in a hold, and the holds of an overdue invoice follow
\* its household, also when the job of the stage died: while the schedule is among the
\* first by deadline that a reconciliation reads, one of the two here.
HoldsFollowHousehold == Holds!CountdownEndsInHold /\ Holds!HoldsFollowHousehold

\* What was started is brought to an end: a planned cycle is issued, a household is told of
\* its unpaid invoice, a file sent for conversion gets slides or an error, and a walk through
\* the ticket queue ends although tickets keep moving.
AskedIsAnswered ==
    /\ Billing!PlannedIsIssued
    /\ Notices!MembersAreTold
    /\ Slides!AskedIsAnswered
    /\ Pages!WalkEnds
==============================================================================
