----------------------------- MODULE JobDelivery -----------------------------
(***************************************************************************)
(* What the outbox promises the producer of ONE durable job, independently *)
(* of workers, leases and batches: the job is tried a bounded number of    *)
(* times, it is marked completed only after its handler has taken effect,   *)
(* it is given up only after the whole budget of attempts was spent, and   *)
(* every accepted job is eventually completed or given up.  Delivery is AT  *)
(* LEAST ONCE: Perform stays possible after Complete and after GiveUp, since *)
(* a slow worker may still be inside the handler.                          *)
(*                                                                         *)
(* Abstracts backend/modules/jobs; Outbox implements it.                   *)
(***************************************************************************)
EXTENDS Naturals

CONSTANT Budget      \* max_attempts of the job

VARIABLES
    state,           \* "absent", "queued", "completed" or "dead"
    tries,           \* attempts charged since enqueue or since the last replay
    performed        \* how often the handler's transaction has committed

vars == <<state, tries, performed>>

Init == state = "absent" /\ tries = 0 /\ performed = 0

Enqueue ==
    /\ state = "absent"
    /\ state' = "queued"
    /\ UNCHANGED <<tries, performed>>

Try ==
    /\ state = "queued"
    /\ tries < Budget
    /\ tries' = tries + 1
    /\ UNCHANGED <<state, performed>>

Perform ==
    /\ state # "absent"
    /\ performed' = performed + 1
    /\ UNCHANGED <<state, tries>>

Complete ==
    /\ state = "queued"
    /\ tries > 0 /\ performed > 0
    /\ state' = "completed"
    /\ UNCHANGED <<tries, performed>>

GiveUp ==
    /\ state = "queued"
    /\ tries = Budget
    /\ state' = "dead"
    /\ UNCHANGED <<tries, performed>>

Replay ==
    /\ state = "dead"
    /\ state' = "queued"
    /\ tries' = 0
    /\ UNCHANGED performed

Next == Enqueue \/ Try \/ Perform \/ Complete \/ GiveUp \/ Replay

Safety == Init /\ [][Next]_vars

\* A queued job does not stay queued: attempts are charged until it settles.
Settles == state = "queued" ~> state \in {"completed", "dead"}

Spec == Safety /\ Settles
=============================================================================
