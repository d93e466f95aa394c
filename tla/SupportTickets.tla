----------------------------- MODULE SupportTickets -----------------------------
(***************************************************************************)
(* Support tickets and their deadlines.  A parent or a student asks; staff *)
(* answer, assign, escalate, change the priority, pause the clock while    *)
(* they wait for the requester, and resolve.                               *)
(*                                                                         *)
(* Every command is one transaction: it reads the ticket with FOR UPDATE,  *)
(* decides from what it read and writes some time later.  Each write sets  *)
(* updated_at, so `touched` names the ticket the last step wrote.          *)
(*                                                                         *)
(* Times are kept in ticks, Second of them to a second, because three      *)
(* conversions round: the wait is added to the deadline as it is and to    *)
(* the waited time in whole seconds, the page reads the time of the        *)
(* resolution cut to its second, and the queue's SQL rounds a quarter of   *)
(* the target down to whole minutes.                                       *)
(***************************************************************************)
EXTENDS Naturals, FiniteSets

CONSTANTS
    Tickets,         \* rows that may be created
    Requests,        \* requests that run at the same time
    Staff,           \* who answers
    Priorities,      \* "normal" is the one a ticket starts with
    Answer, Resolve, \* minutes of the policy of each priority
    Second,          \* ticks in a second
    SecondsPerMinute,
    MaxTime,         \* the last tick looked at
    MaxMessages,     \* messages of one ticket; a reply beyond them is refused here
    None

Statuses == {"new", "in_progress", "escalated", "resolved"}

VARIABLES
    ticket,          \* the rows; None is one that is not there yet
    clock,
    request,         \* what each request does and the row it read under its lock
    touched          \* the ticket the last step wrote

vars == <<ticket, clock, request, touched>>

Idle == [doing |-> "idle", on |-> None, seen |-> None, with |-> None]
Created == {t \in Tickets : ticket[t] # None}

Minute == Second * SecondsPerMinute

\* A time that is not set is None.  `waited` is in seconds.  `pauses` is no column: it counts
\* the waits that took time, for the property that bounds what their rounding loses.
Times == (0 .. MaxTime) \cup {None}
Rows == [status : Statuses, staff : Staff \cup {None}, priority : Priorities,
         created : 0 .. MaxTime, target : Nat \X Nat, due : Nat \X Nat, answered : Times,
         waiting : Times, waited : 0 .. MaxTime, pauses : 0 .. MaxTime, resolved : Times,
         said : 1 .. MaxMessages]

TicketsAssumption ==
    /\ "normal" \in Priorities /\ MaxTime \in Nat /\ MaxMessages \in Nat \ {0}
    /\ Second \in Nat \ {0} /\ SecondsPerMinute \in Nat \ {0}
    /\ Answer \in [Priorities -> Nat \ {0}] /\ Resolve \in [Priorities -> Nat \ {0}]
    /\ \A p \in Priorities : Answer[p] <= Resolve[p]
    /\ None \notin Nat \cup Tickets \cup Rows

TypeOK ==
    /\ clock \in 0 .. MaxTime
    /\ ticket \in [Tickets -> Rows \cup {None}]
    /\ request \in [Requests -> [doing : {"idle", "ask", "reply", "update", "assign",
                                          "priority", "wait", "resume"},
                                 on : Tickets \cup {None}, seen : Rows \cup {None},
                                 with : Statuses \cup Priorities \cup Staff \cup {None}]]
    /\ touched \in Tickets \cup {None}

Init ==
    /\ ticket = [t \in Tickets |-> None]
    /\ clock = 0
    /\ request = [r \in Requests |-> Idle]
    /\ touched = None

-----------------------------------------------------------------------------
(* What a ticket shows. *)

\* The targets and deadlines the active policy of a priority gives.
Targets(p) == <<Answer[p], Resolve[p]>>
Deadlines(created, p) ==
    <<created + Answer[p] * Minute, created + Resolve[p] * Minute>>

\* The state the page shows, sla_state: the row is read with resolved_at cut to its second.
CutToSecond(time) == (time \div Second) * Second
ShownState(k, now) ==
    LET which == IF k.answered = None THEN 1 ELSE 2
    IN  CASE k.status = "resolved" ->
                IF k.resolved # None /\ CutToSecond(k.resolved) <= k.due[2]
                THEN "met" ELSE "breached"
          [] k.status # "resolved" /\ k.waiting # None /\ k.answered # None -> "paused"
          [] OTHER ->
                CASE now >= k.due[which] -> "breached"
                  [] now < k.due[which]
                       /\ 4 * (k.due[which] - now) <= k.target[which] * Minute -> "due_soon"
                  [] OTHER -> "on_track"

\* The state the queue's filter computes in SQL.
FilteredQuarter(minutes) == (minutes \div 4) * Minute
FilteredStateOfEither(k, now) ==
    CASE k.status = "resolved" ->
            IF k.resolved # None /\ k.resolved <= k.due[2] THEN "met" ELSE "breached"
      [] k.status # "resolved" /\ k.waiting # None /\ k.answered # None -> "paused"
      [] k.status # "resolved" /\ ~ (k.waiting # None /\ k.answered # None) ->
            CASE now >= k.due[1] -> "breached"
              [] now < k.due[1] /\ k.due[1] - now <= FilteredQuarter(k.target[1]) -> "due_soon"
              [] OTHER -> "on_track"
FilteredState(k, now) ==
    CASE k.status = "resolved" ->
            IF k.resolved # None /\ k.resolved <= k.due[2] THEN "met" ELSE "breached"
      [] k.status # "resolved" /\ k.waiting # None /\ k.answered # None -> "paused"
      [] OTHER ->
            CASE (k.answered = None /\ now >= k.due[1]) \/ now >= k.due[2] -> "breached"
              [] /\ now < k.due[2] /\ (k.answered = None => now < k.due[1])
                 /\ \/ k.answered = None /\ k.due[1] - now <= FilteredQuarter(k.target[1])
                    \/ k.answered # None /\ k.due[2] - now <= FilteredQuarter(k.target[2])
                       -> "due_soon"
              [] OTHER -> "on_track"

-----------------------------------------------------------------------------
(* Transactions. *)

Locked(t) == \E r \in Requests : request[r].on = t

\* SELECT ... FOR UPDATE: the request waits for the row and reads what is committed.
ReadsRow(r, t, doing, with) ==
    /\ request[r] = Idle /\ t \in Created
    /\ request' = [request EXCEPT ![r] = [doing |-> doing, on |-> t, seen |-> ticket[t],
                                          with |-> with]]
    /\ touched' = None
    /\ UNCHANGED <<ticket, clock>>
LocksRow(r, t, doing, with) ==
    /\ request[r] = Idle /\ t \in Created /\ ~ Locked(t)
    /\ request' = [request EXCEPT ![r] = [doing |-> doing, on |-> t, seen |-> ticket[t],
                                          with |-> with]]
    /\ touched' = None
    /\ UNCHANGED <<ticket, clock>>

Does(r, doing) == request[r].doing = doing
Seen(r) == request[r].seen
Resolved(r) == Seen(r).status = "resolved"
Commits(r) == request' = [request EXCEPT ![r] = Idle]
Writes(r, row) ==
    /\ Commits(r) /\ UNCHANGED clock
    /\ ticket' = [ticket EXCEPT ![request[r].on] = row]
    /\ touched' = request[r].on

\* The command is refused and rolled back.
Refuses(r) ==
    /\ Commits(r) /\ touched' = None
    /\ UNCHANGED <<ticket, clock>>

\* update_ticket_state_row: three columns, the others keep their current value.
State(k, status, staff, at) ==
    [k EXCEPT !.status = status, !.staff = staff, !.resolved = at]

\* A message is added; the first one of staff is the answer, COALESCE keeps it.
Said(k) == [k EXCEPT !.said = @ + 1]
FirstAnswer(k, now) == [k EXCEPT !.answered = IF @ = None THEN now ELSE @]

\* EXTRACT(EPOCH FROM ...)::bigint: the nearest second.
InSeconds(length) == (length + Second \div 2) \div Second

\* The wait ends: the deadline moves by its length, the waited time by its seconds.
Resumed(k, now) ==
    IF k.waiting = None THEN k
    ELSE LET length == now - k.waiting
         IN  [k EXCEPT !.due[2] = @ + length, !.waited = @ + InSeconds(length),
                       !.pauses = IF length = 0 THEN @ ELSE @ + 1, !.waiting = None]

-----------------------------------------------------------------------------
(* Commands. *)

\* A parent's or a student's new ticket, with the policy of the normal priority.
CreatesTicket(t) ==
    /\ ticket[t] = None
    /\ ticket' = [ticket EXCEPT ![t] =
          [status |-> "new", staff |-> None, priority |-> "normal", created |-> clock,
           target |-> Targets("normal"), due |-> Deadlines(clock, "normal"),
           answered |-> None, waiting |-> None, waited |-> 0, pauses |-> 0, resolved |-> None,
           said |-> 1]]
    /\ touched' = t
    /\ UNCHANGED <<clock, request>>

\* The requester writes again, which ends the wait.
RequesterReplies(r) ==
    /\ Does(r, "ask")
    /\ LET t == request[r].on
           k == Resumed(ticket[t], clock)
       IN  IF Resolved(r) \/ k.said = MaxMessages THEN Refuses(r)
           ELSE Writes(r, State(Said(k), Seen(r).status, Seen(r).staff, None))

\* Staff answer; the first answer is kept, a new ticket is in progress.
StaffReplies(r) ==
    /\ Does(r, "reply")
    /\ LET k == ticket[request[r].on]
           status == IF Seen(r).status = "new" THEN "in_progress" ELSE Seen(r).status
           staff == IF Seen(r).staff = None THEN request[r].with ELSE Seen(r).staff
       IN  IF Resolved(r) \/ k.said = MaxMessages THEN Refuses(r)
           ELSE Writes(r, State(FirstAnswer(Said(k), clock), status, staff, None))

\* update_support_ticket: a status for the same assignee, or an assignee for the same
\* status.  Resolving stamps the time of this write.
Updates(r, status, staff) ==
    IF Resolved(r) /\ status # "resolved" THEN Refuses(r)
    ELSE Writes(r, State(ticket[request[r].on], status, staff,
                         IF status = "resolved" THEN clock ELSE None))
ChangesStatus(r) == Does(r, "update") /\ Updates(r, request[r].with, Seen(r).staff)
Assigns(r) == Does(r, "assign") /\ Updates(r, Seen(r).status, request[r].with)

\* Deadlines of another priority, counted from the ticket's creation.
ChangesPriority(r) ==
    /\ Does(r, "priority")
    /\ LET k == ticket[request[r].on]
           p == request[r].with
           due == Deadlines(k.created, p)
       IN  IF Resolved(r) THEN Refuses(r)
           ELSE Writes(r, [k EXCEPT !.priority = p, !.target = Targets(p),
                                    !.due = <<due[1], due[2] + k.waited * Second>>])

WaitsForRequester(r) ==
    /\ Does(r, "wait")
    /\ LET k == ticket[request[r].on]
       IN  IF Resolved(r) \/ Seen(r).answered = None THEN Refuses(r)
           ELSE Writes(r, [k EXCEPT !.waiting = IF @ = None THEN clock ELSE @])
StopsWaiting(r) ==
    /\ Does(r, "resume")
    /\ IF Resolved(r) THEN Refuses(r)
       ELSE Writes(r, Resumed(ticket[request[r].on], clock))

Asks(r) ==
    \E t \in Tickets :
        \/ LocksRow(r, t, "ask", None)
        \/ \E s \in Staff : LocksRow(r, t, "reply", s)
        \/ \E status \in Statuses : LocksRow(r, t, "update", status)
        \/ \E s \in Staff \cup {None} : LocksRow(r, t, "assign", s)
        \/ \E p \in Priorities : LocksRow(r, t, "priority", p)
        \/ LocksRow(r, t, "wait", None)
        \/ LocksRow(r, t, "resume", None)

Commands(r) ==
    \/ RequesterReplies(r) \/ StaffReplies(r) \/ ChangesStatus(r) \/ Assigns(r)
    \/ ChangesPriority(r) \/ WaitsForRequester(r) \/ StopsWaiting(r)

Tick ==
    /\ clock < MaxTime
    /\ clock' = clock + 1 /\ touched' = None
    /\ UNCHANGED <<ticket, request>>

Next ==
    \/ Tick
    \/ \E t \in Tickets : CreatesTicket(t)
    \/ \E r \in Requests : Asks(r) \/ Commands(r)

Spec == Init /\ [][Next]_vars

-----------------------------------------------------------------------------
(* Properties. *)

\* However priorities, waits and replies interleave, the target is the policy's, the first
\* deadline is the creation plus the target, and the second is that plus the waits that
\* ended: never less than without them, and off from what the row counts as waited by at
\* most half a second for each wait, which is what a change of the priority can move it by.
\* (policies.py: "Anchor recalculated deadlines to creation, never to the change time".)
DeadlineCountsFromCreation ==
    \A t \in Created :
        LET k == ticket[t]
            due == Deadlines(k.created, k.priority)
            counted == due[2] + k.waited * Second
        IN  /\ k.target = Targets(k.priority) /\ k.due[1] = due[1] /\ due[2] <= k.due[2]
            /\ 2 * k.due[2] <= 2 * counted + Second * k.pauses
            /\ 2 * counted <= 2 * k.due[2] + Second * k.pauses

\* Asked at the same instant, the queue's filter and the page tell one state but for what
\* their conversions round: the filter may say on_track while the page says due_soon for
\* less than a minute, and breached while the page says met if the ticket was resolved
\* less than a second after its deadline.
FilterIsCloseToThePage ==
    \A t \in Created :
        LET k == ticket[t]
            filtered == FilteredState(k, clock)
            shown == ShownState(k, clock)
        IN  \/ filtered = shown
            \/ /\ filtered = "on_track" /\ shown = "due_soon"
               /\ FilteredState(k, clock + Minute) # "on_track"
            \/ /\ filtered = "breached" /\ shown = "met"
               /\ k.due[2] < k.resolved /\ k.resolved < k.due[2] + Second

\* The clock is paused only for a requester who has been answered, so no pause hides an
\* unanswered ticket, and an answered ticket is no longer new unless staff made it so.
PauseFollowsAnAnswer ==
    \A t \in Created : ticket[t].waiting # None =>
        ticket[t].answered # None /\ ticket[t].answered <= ticket[t].waiting

\* A resolved ticket gains no message, keeps its deadlines and is not reopened, also when
\* a reply and the resolution were sent at the same time.
ResolvedStaysResolved ==
    [][\A t \in Created : ticket[t].status = "resolved" =>
         /\ ticket'[t].status = "resolved"
         /\ ticket'[t].said = ticket[t].said /\ ticket'[t].due = ticket[t].due
         /\ ticket'[t].waiting = ticket[t].waiting]_vars

\* No message is sent twice or lost, and the first answer keeps its time: two replies at
\* once count as two and the earlier is the answer.
EachReplyCounts ==
    [][\A t \in Created :
         /\ ticket[t].answered # None => ticket'[t].answered = ticket[t].answered
         /\ ticket'[t].said \in {ticket[t].said, ticket[t].said + 1}
         /\ ticket[t].answered = None /\ ticket'[t].answered # None =>
               ticket'[t].said = ticket[t].said + 1 /\ ticket'[t].status # "new"]_vars

\* (transactional.py: "Resolved tickets are read-only.")  The time a ticket was resolved
\* at is what its promise is judged by; nothing moves it later.
ResolvedTicketsAreReadOnly ==
    [][\A t \in Created : ticket[t].status = "resolved" => ticket'[t] = ticket[t]]_vars
=============================================================================
