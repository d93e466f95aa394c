------------------------------- MODULE TicketQueue ------------------------------
(***************************************************************************)
(* The ticket queue, read page by page while tickets are written.  Pages   *)
(* follow a cursor, the place of the last ticket shown, in the order       *)
(* status rank, latest update first, highest number first.  A write moves  *)
(* its ticket (SupportTickets has the writes; here they are what the order *)
(* sees of them: a new status and the time).                               *)
(***************************************************************************)
EXTENDS Naturals, FiniteSets

CONSTANTS
    MaxTicket,       \* highest ticket number
    PageSize,
    MaxTime

QueueAssumption ==
    MaxTicket \in Nat \ {0} /\ PageSize \in Nat \ {0} /\ MaxTime \in Nat

VARIABLES
    place,           \* of each ticket that exists: <<rank, updated_at, number>>
    clock,
    cursor,          \* of the walk through the queue; Start before its first page
    walking,
    listed,          \* how often the walk has shown each ticket; 2 is more than once
    steady           \* the tickets not written since the walk began

vars == <<place, clock, cursor, walking, listed, steady>>

Numbers == 1 .. MaxTicket
Rank == [new |-> 0, escalated |-> 1, in_progress |-> 2, resolved |-> 3]
Ranks == {Rank[s] : s \in DOMAIN Rank}
Absent == <<4, 0, 0>>
Start == <<>>
Created == {n \in Numbers : place[n] # Absent}
Places == Ranks \X (0 .. MaxTime) \X Numbers

TypeOK ==
    /\ place \in [Numbers -> Places \cup {Absent}] /\ clock \in 0 .. MaxTime
    /\ cursor \in Places \cup {Start} /\ walking \in BOOLEAN
    /\ listed \in [Numbers -> 0 .. 2] /\ steady \subseteq Numbers

Init ==
    /\ place = [n \in Numbers |-> Absent]
    /\ clock = 0 /\ cursor = Start /\ walking = FALSE
    /\ listed = [n \in Numbers |-> 0] /\ steady = {}

\* ORDER BY rank, updated_at DESC, id DESC, and the condition on the cursor.
Before(p, q) ==
    \/ p[1] < q[1]
    \/ p[1] = q[1] /\ (p[2] > q[2] \/ (p[2] = q[2] /\ p[3] > q[3]))
Follows(p) == cursor = Start \/ Before(cursor, p)

\* The first tickets after the cursor, LIMIT page_size (one more only tells there is more).
Rest == {n \in Created : Follows(place[n])}
Page == {n \in Rest : Cardinality({m \in Rest : Before(place[m], place[n])}) < PageSize}

StartsWalk ==
    /\ ~ walking
    /\ walking' = TRUE /\ cursor' = Start /\ steady' = Created
    /\ listed' = [n \in Numbers |-> 0]
    /\ UNCHANGED <<place, clock>>

ReadsPage ==
    /\ walking
    /\ listed' = [n \in Numbers |-> IF n \in Page /\ listed[n] < 2 THEN listed[n] + 1 ELSE listed[n]]
    /\ IF Rest \ Page = {} THEN walking' = FALSE /\ UNCHANGED cursor
       ELSE /\ cursor' = place[CHOOSE n \in Page : \A m \in Page \ {n} : Before(place[m], place[n])]
            /\ UNCHANGED walking
    /\ UNCHANGED <<place, clock, steady>>

WritesTicket(n) ==
    /\ steady' = steady \ {n}
    /\ UNCHANGED <<clock, cursor, walking, listed>>

CreatesTicket(n) ==
    /\ place[n] = Absent /\ \A m \in Numbers : m < n => m \in Created
    /\ place' = [place EXCEPT ![n] = <<Rank.new, clock, n>>]
    /\ WritesTicket(n)
ChangesTicket(n) ==
    /\ n \in Created
    /\ \E rank \in Ranks :
        /\ place[n][1] = Rank.resolved => rank = Rank.resolved
        /\ place' = [place EXCEPT ![n] = <<rank, clock, n>>]
    /\ WritesTicket(n)

Tick ==
    /\ clock < MaxTime
    /\ clock' = clock + 1
    /\ UNCHANGED <<place, cursor, walking, listed, steady>>

Next ==
    \/ Tick \/ StartsWalk \/ ReadsPage
    \/ \E n \in Numbers : CreatesTicket(n) \/ ChangesTicket(n)

Spec == Init /\ [][Next]_vars
FairSpec == Spec /\ WF_vars(ReadsPage)

-----------------------------------------------------------------------------
(* Properties. *)

\* A ticket nobody wrote while the queue was read is shown exactly once, whatever moved
\* around it, also among tickets of one rank written in the same instant.
SteadyTicketsAreShownOnce ==
    /\ \A n \in steady : listed[n] <= 1
    /\ \A n \in steady : ~ walking => listed[n] = 1

\* A walk ends although tickets keep moving: a write puts its ticket at the front of its
\* rank or into another, and no ticket comes back behind the cursor without a write.
WalkEnds == walking ~> ~ walking
=============================================================================
