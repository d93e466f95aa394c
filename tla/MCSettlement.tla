---------------------------- MODULE MCSettlement -----------------------------
(* Instances of Settlement for TLC. *)
EXTENDS Settlement, TLC

CONSTANTS s1, m1, m2, t1, t2, r1, r2

\* Every invoice of one student.
MCStudentPays == [i \in Invoices |-> s1]
MCOnePeriod == [i \in Invoices |-> "march"]
MCTotals == [i \in Invoices |-> 2]

MCSymmetry == Permutations(Receipts) \cup Permutations(Txns) \cup Permutations(Requests)
=============================================================================
