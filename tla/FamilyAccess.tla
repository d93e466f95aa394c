---------------------------- MODULE FamilyAccess ----------------------------
(***************************************************************************)
(* What the school promises about who follows a child, as if every request *)
(* took effect at once: a person becomes a parent by claiming an invite,   *)
(* an invite opens the one child it was issued for, to one parent and only *)
(* until the next invite of that child, and apart from that only Customer  *)
(* Support gives a child to a parent or takes it away.                     *)
(*                                                                         *)
(* Abstracts the invites, parents and links of ParentAccess, which         *)
(* implements it.                                                          *)
(***************************************************************************)
CONSTANTS Students, Parents, Invites, None

VARIABLES
    invite,          \* per invite: its status and its student
    known,           \* the parents there are
    linked           \* who follows whom

vars == <<invite, known, linked>>

Live(s) == {i \in Invites : invite[i].status = "pending" /\ invite[i].student = s}

Init ==
    /\ invite = [i \in Invites |-> [status |-> "none", student |-> None]]
    /\ known = {} /\ linked = {}

Issue(s, new) ==
    /\ invite[new].status = "none"
    /\ invite' = [i \in Invites |->
          IF i = new THEN [status |-> "pending", student |-> s]
          ELSE IF i \in Live(s) THEN [invite[i] EXCEPT !.status = "revoked"] ELSE invite[i]]
    /\ UNCHANGED <<known, linked>>

Claim(i, p) ==
    /\ invite[i].status = "pending"
    /\ invite' = [invite EXCEPT ![i].status = "consumed"]
    /\ known' = known \cup {p}
    /\ linked' = linked \cup {<<p, invite[i].student>>}

Link(p, s) ==
    /\ p \in known /\ <<p, s>> \notin linked
    /\ linked' = linked \cup {<<p, s>>}
    /\ UNCHANGED <<invite, known>>

Unlink(p, s) ==
    /\ <<p, s>> \in linked
    /\ linked' = linked \ {<<p, s>>}
    /\ UNCHANGED <<invite, known>>

Next ==
    \/ \E s \in Students, i \in Invites : Issue(s, i)
    \/ \E p \in Parents :
          \/ \E i \in Invites : Claim(i, p)
          \/ \E s \in Students : Link(p, s) \/ Unlink(p, s)

Spec == Init /\ [][Next]_vars
=============================================================================
