--------------------------------- MODULE MCPayments ---------------------------------
(***************************************************************************)
(* A small instance of settlement: one invoice of a student and two of an  *)
(* admission, with two forms and two provider transactions.                *)
(*                                                                         *)
(* A behaviour is about the student's invoice or about those of the        *)
(* admission: invoices of two payers share no row.  One about the          *)
(* admission uses one provider id; either it is created by one call, or    *)
(* two overlapping calls may create it, for the same or for different      *)
(* invoices, and no cash is paid.                                          *)
(***************************************************************************)
EXTENDS Settlement, TLC

CONSTANTS
    s1, a1, m1, m2, t1, t2, r1, r2

VARIABLE part    \* what a behaviour is about

Twos == [i \in Invoices |-> 2]
FirstIsTheStudents == [i \in Invoices |-> IF i = 1 THEN s1 ELSE a1]
Months == [i \in Invoices |-> IF i = 3 THEN "april" ELSE "march"]
MCSymmetry == Permutations(Receipts) \cup Permutations(Txns) \cup Permutations(Requests)

OnlyStudent ==
    /\ \A i \in {2, 3} : status[i] = "absent"
    /\ \A r \in Requests : request[r].invoice \in {0, 1}
    /\ ~serviceStarted[a1] /\ eligible[a1]
OneId ==
    \E t \in Txns :
        /\ \A u \in Txns \ {t} : txn[u].state = 0
        /\ \A r \in Requests : request[r].txn \in {t, NoTxn}
OnlyAdmission ==
    /\ status[1] = "absent" /\ eligible[s1]
    /\ \A r \in Requests : request[r].invoice # 1
    /\ OneId
    /\ \A q, r \in Requests : request[q].answer # "none" /\ request[r].answer # "none" => q = r
OneIdTwice ==
    /\ status[1] = "absent" /\ eligible[s1] /\ ~serviceStarted[a1]
    /\ \A r \in Requests : request[r].invoice # 1
    /\ OneId
    /\ \A m \in Receipts : receipt[m].status = "none"

MCInit ==
    /\ part \in {"student", "admission", "one id"}
    /\ Init

\* What a behaviour is about stays.
MCNext ==
    \/ /\ part = "student" /\ Next /\ OnlyStudent'
       /\ UNCHANGED part
    \/ /\ part = "admission" /\ Next /\ OnlyAdmission'
       /\ UNCHANGED part
    \/ /\ part = "one id" /\ Next /\ OneIdTwice'
       /\ UNCHANGED part

MCvars == <<part, vars>>
MCSpec == MCInit /\ [][MCNext]_MCvars
==============================================================================
