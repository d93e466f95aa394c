-------------------------------- MODULE Money --------------------------------
(***************************************************************************)
(* Sums of payments.  Amounts are whole minor units (tiyin), so the sum    *)
(* over some rows is the number of units in them: counting needs no        *)
(* recursion, and what is true of finite sets is true of it.               *)
(***************************************************************************)
EXTENDS Naturals, FiniteSets

\* SUM(amount_minor) over rows, given the amount of each.
Units(amount, row) == {row} \X (1..amount[row])
SumOf(amount, rows) == Cardinality(UNION {Units(amount, row) : row \in rows})
=============================================================================
