--------------------------------- MODULE MCFinance ---------------------------------
(***************************************************************************)
(* A small instance of billing cycles and payment enforcement. A behaviour *)
(* of billing cycles is about one period and a price that may change, or   *)
(* about two periods of one price.                                         *)
(*                                                                         *)
(* A behaviour picks one component and lets the others stand still: the    *)
(* reachable states are the sum of those of the components, not their      *)
(* product. Nothing is lost by it: each module already has the steps of    *)
(* others that touch its rows.                                             *)
(***************************************************************************)
EXTENDS BillingCycles, TLC

CONSTANTS
    Billed, Accounts, Reminders, ReconcileLimit, parent, pupil, m1

VARIABLES
    part,             \* the component a behaviour is about
    \* Holds
    ledger, state, passed, jobs, holds, household, restored

enforcementVars ==
    <<ledger, state, passed, jobs, holds, household, restored>>

FirstPeriod == [m \in Manual |-> 1]
Ones == [m \in Manual |-> 1]
EveryTopic == {GENERATE_INVOICES, ISSUE_BILLING_CYCLE, PROCESS_ENFORCEMENT_STAGE}
MCSymmetry == Permutations(Accounts)

Holds == INSTANCE Enforcement WITH
    Invoices <- Billed

OnePeriod ==
    /\ month = 1 /\ monthly = {} /\ profile.price # 1
    /\ \A c \in Cycles : cycle[c].period # 2
OnePrice == profile.price # 2

MCInit ==
    /\ part \in {"one period", "one price", "enforcement"}
    /\ Init /\ Holds!Init
    /\ part # "enforcement" => \A i \in Billed : ledger[i] = "absent" /\ household[i] = {}

\* One component moves, all the others stand still.
MCNext ==
    \/ /\ part = "one period" /\ Next /\ OnePeriod'
       /\ UNCHANGED <<part, enforcementVars>>
    \/ /\ part = "one price" /\ Next /\ OnePrice'
       /\ UNCHANGED <<part, enforcementVars>>
    \/ /\ part = "enforcement" /\ Holds!Next
       /\ UNCHANGED <<part, vars>>

MCvars == <<part, vars, enforcementVars>>
MCSpec == MCInit /\ [][MCNext]_MCvars

ASSUME BillingHolds == BillingAssumption
ASSUME EnforcementHolds == Holds!EnforcementAssumption

\* Who is held owes an overdue invoice of a household he belongs to.
HoldsOnlyWhileOwed == Holds!TypeOK /\ Holds!HoldsOnlyWhileOwed

\* A hold ends by a payment of what is owed, or with the household that owes it.
ReleasedOnlyByPayment == Holds!ReleasedOnlyByPayment
==============================================================================
