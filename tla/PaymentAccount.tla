--------------------------- MODULE PaymentAccount ----------------------------
(***************************************************************************)
(* What billing promises about the money of ONE invoice, whoever moves it: *)
(* money enters only as a payment of at most the open balance, a payment   *)
(* leaves the account at most once and never comes back, and an invoice is *)
(* voided only while nothing is paid on it, after which nothing ever is.   *)
(*                                                                         *)
(* Abstracts the invoice commands of finance and admissions and the Payme  *)
(* merchant API; Settlement implements it.                                 *)
(***************************************************************************)
EXTENDS Integers, Money

CONSTANTS
    Entries,         \* the payments that may ever be made
    Total            \* the amount invoiced

VARIABLES
    invoice,         \* "absent", "open" or "voided"
    entry,           \* per payment: "none", "completed" or "returned"
    amount           \* per payment: how much, 0 before it is made

vars == <<invoice, entry, amount>>

Completed == {e \in Entries : entry[e] = "completed"}
Balance == Total - SumOf(amount, Completed)

Init ==
    /\ invoice = "absent"
    /\ entry = [e \in Entries |-> "none"]
    /\ amount = [e \in Entries |-> 0]

Enter(e, a) ==
    /\ entry[e] = "none"
    /\ entry' = [entry EXCEPT ![e] = "completed"]
    /\ amount' = [amount EXCEPT ![e] = a]

Issue ==
    /\ invoice = "absent"
    /\ invoice' = "open"
    /\ UNCHANGED <<entry, amount>>

\* An invoice may be issued for money already received.
IssuePaid(e) ==
    /\ invoice = "absent"
    /\ invoice' = "open"
    /\ Enter(e, Total)

Pay(e, a) ==
    /\ invoice = "open"
    /\ a <= Balance
    /\ Enter(e, a)
    /\ UNCHANGED invoice

Return(e) ==
    /\ invoice = "open"
    /\ entry[e] = "completed"
    /\ entry' = [entry EXCEPT ![e] = "returned"]
    /\ UNCHANGED <<invoice, amount>>

Void ==
    /\ invoice = "open"
    /\ Completed = {}
    /\ invoice' = "voided"
    /\ UNCHANGED <<entry, amount>>

Next ==
    \/ Issue
    \/ Void
    \/ \E e \in Entries :
         \/ IssuePaid(e)
         \/ Return(e)
         \/ \E a \in 1..Total : Pay(e, a)

Spec == Init /\ [][Next]_vars
=============================================================================
