---------------------------- MODULE MonthlyCharge ----------------------------
(***************************************************************************)
(* What the billing of a student promises to a parent: every period has at *)
(* most one charge; what is received on it never exceeds it; and a charge  *)
(* on which money was received is neither changed nor withdrawn.           *)
(***************************************************************************)
EXTENDS Integers

CONSTANTS Periods, Amounts

VARIABLES owed, received

Init ==
    /\ owed = [p \in Periods |-> 0]
    /\ received = [p \in Periods |-> 0]

\* A charge is issued, replaced by an audited schedule edit, or withdrawn.
Charge(p, amount) ==
    /\ received[p] = 0
    /\ owed' = [owed EXCEPT ![p] = amount]
    /\ UNCHANGED received

\* A payment, its reversal or its refund.
Receive(p, sum) ==
    /\ sum \in 0..owed[p]
    /\ received' = [received EXCEPT ![p] = sum]
    /\ UNCHANGED owed

Next ==
    \E p \in Periods, amount \in Amounts : Charge(p, amount) \/ Receive(p, amount)

Spec == Init /\ [][Next]_<<owed, received>>
=============================================================================
