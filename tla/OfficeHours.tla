------------------------------ MODULE OfficeHours ------------------------------
(***************************************************************************)
(* Office hours of teachers and the bookings students make of them.        *)
(*                                                                         *)
(* A new slot is checked against the teacher's others under an advisory    *)
(* lock of the teacher.  Booking a slot and cancelling it lock the slot's  *)
(* row and then read its bookings; a student who cancels a booking locks   *)
(* nothing but the row it writes.                                          *)
(***************************************************************************)
EXTENDS Naturals, FiniteSets

CONSTANTS
    Teachers, Students, Requests,
    Hours,          \* the [from, to] a slot may have
    Capacities,
    MaxSlots, MaxBookings, LastHour         \* bounds

OfficeHoursAssumption ==
    /\ Hours \subseteq [from : 1..LastHour, to : 1..LastHour + 1]
    /\ \A h \in Hours : h.from < h.to
    /\ Capacities \subseteq Nat \ {0}
    /\ MaxSlots \in Nat /\ MaxBookings \in Nat /\ LastHour \in Nat

VARIABLES
    slots,       \* office_hour_slots, in the order of their ids
    bookings,    \* office_hour_bookings, in the order of their ids
    request,     \* what each request does, and which rows it read
    now

vars == <<slots, bookings, request, now>>

Slots == [teacher : Teachers, hour : Hours, capacity : Capacities,
          status : {"open", "cancelled"}]
Bookings == [slot : 1..MaxSlots, student : Students,
             status : {"booked", "cancelled", "completed", "no_show"}]
Idle == [doing |-> "idle"]

TypeOK ==
    /\ slots \in UNION {[1..n -> Slots] : n \in 0..MaxSlots}
    /\ bookings \in UNION {[1..n -> Bookings] : n \in 0..MaxBookings}
    /\ \A r \in Requests : request[r].doing \in {"idle", "opens", "books", "closes", "leaves"}
    /\ now \in 0..LastHour

Init ==
    /\ slots = <<>> /\ bookings = <<>> /\ now = 0
    /\ request = [r \in Requests |-> Idle]

Added(rows, row) == [i \in 1..Cardinality(DOMAIN rows) + 1 |->
                        IF i \in DOMAIN rows THEN rows[i] ELSE row]
Begins(r, what) == request' = [request EXCEPT ![r] = what]
Ends(r) == request' = [request EXCEPT ![r] = Idle]

\* lock_teacher_availability_scope; the FOR UPDATE of get_availability_row.
TeacherIsFree(t) == \A r \in Requests : request[r].doing = "opens" => request[r].teacher # t
SlotIsAnyones(s) == TRUE
SlotIsFree(s) == \A r \in Requests : request[r].doing \in {"books", "closes"} => request[r].slot # s

\* find_teacher_availability_overlap, list_bookings_rows(status='booked').
Overlaps(h, k) == h.from < k.to /\ k.from < h.to
OpenOf(t) == {s \in DOMAIN slots : slots[s].teacher = t /\ slots[s].status = "open"}
Booked(s) == {b \in DOMAIN bookings : bookings[b].slot = s /\ bookings[b].status = "booked"}

-----------------------------------------------------------------------------
\* create_availability.
ChecksHour(r, t, hour, capacity) ==
    /\ request[r] = Idle /\ TeacherIsFree(t)
    /\ hour.from > now
    /\ \A s \in OpenOf(t) : ~Overlaps(hour, slots[s].hour)
    /\ Begins(r, [doing |-> "opens", teacher |-> t, hour |-> hour, capacity |-> capacity])
    /\ UNCHANGED <<slots, bookings, now>>

OpensSlot(r) ==
    LET q == request[r] IN
    /\ q.doing = "opens" /\ Cardinality(DOMAIN slots) < MaxSlots
    /\ slots' = Added(slots, [teacher |-> q.teacher, hour |-> q.hour,
                              capacity |-> q.capacity, status |-> "open"])
    /\ Ends(r)
    /\ UNCHANGED <<bookings, now>>

\* create_booking: the checks, then the insert.
ChecksSlot(r, s, student) ==
    /\ request[r] = Idle /\ SlotIsFree(s)
    /\ slots[s].status = "open" /\ slots[s].hour.from > now
    /\ Cardinality(Booked(s)) < slots[s].capacity
    /\ \A b \in Booked(s) : bookings[b].student # student
    /\ Begins(r, [doing |-> "books", slot |-> s, student |-> student])
    /\ UNCHANGED <<slots, bookings, now>>

Books(r) ==
    LET q == request[r] IN
    /\ q.doing = "books" /\ Cardinality(DOMAIN bookings) < MaxBookings
    /\ bookings' = Added(bookings, [slot |-> q.slot, student |-> q.student, status |-> "booked"])
    /\ Ends(r)
    /\ UNCHANGED <<slots, now>>

\* cancel_availability: the slot is cancelled, then the bookings it has by then.
TakesSlot(r, s) ==
    /\ request[r] = Idle /\ SlotIsFree(s)
    /\ Begins(r, [doing |-> "closes", slot |-> s, booked |-> Booked(s)])
    /\ UNCHANGED <<slots, bookings, now>>

ClosesSlot(r) ==
    LET q == request[r] IN
    /\ q.doing = "closes"
    /\ slots' = [slots EXCEPT ![q.slot].status = "cancelled"]
    /\ bookings' = [b \in DOMAIN bookings |->
          IF b \in q.booked THEN [bookings[b] EXCEPT !.status = "cancelled"] ELSE bookings[b]]
    /\ Ends(r)
    /\ UNCHANGED now

\* update_booking_status, which students reach with 'cancelled' for a booking of theirs.
FindsBooking(r, b) ==
    /\ request[r] = Idle
    /\ Begins(r, [doing |-> "leaves", booking |-> b])
    /\ UNCHANGED <<slots, bookings, now>>

LeavesBooking(r) ==
    LET b == request[r].booking IN
    /\ request[r].doing = "leaves"
    /\ bookings' = [bookings EXCEPT ![b].status = "cancelled"]
    /\ Ends(r)
    /\ UNCHANGED <<slots, now>>

Tick ==
    /\ now < LastHour
    /\ now' = now + 1
    /\ UNCHANGED <<slots, bookings, request>>

Next ==
    \/ \E r \in Requests, t \in Teachers, hour \in Hours, n \in Capacities :
          ChecksHour(r, t, hour, n)
    \/ \E r \in Requests : OpensSlot(r)
    \/ \E r \in Requests, s \in DOMAIN slots, student \in Students : ChecksSlot(r, s, student)
    \/ \E r \in Requests : Books(r)
    \/ \E r \in Requests, s \in DOMAIN slots : TakesSlot(r, s)
    \/ \E r \in Requests : ClosesSlot(r)
    \/ \E r \in Requests, b \in DOMAIN bookings : FindsBooking(r, b)
    \/ \E r \in Requests : LeavesBooking(r)
    \/ Tick

Spec == Init /\ [][Next]_vars

-----------------------------------------------------------------------------
(* Properties. *)

\* However bookings, withdrawals and cancellations overlap, a slot has no more active
\* bookings than its capacity, one of each student, and none once it is cancelled.
BookingsFitTheSlot ==
    \A s \in DOMAIN slots :
        /\ Cardinality(Booked(s)) <= slots[s].capacity
        /\ \A b, c \in Booked(s) : bookings[b].student = bookings[c].student => b = c
        /\ slots[s].status = "cancelled" => Booked(s) = {}

\* Two open slots of a teacher never overlap, whoever opens them at once.
TeachersSlotsApart ==
    \A t \in Teachers : \A s, u \in OpenOf(t) :
        Overlaps(slots[s].hour, slots[u].hour) => s = u

\* Slots and their bookings keep to what they promise, whichever requests overlap.
HoursSound == TypeOK /\ BookingsFitTheSlot /\ TeachersSlotsApart
=============================================================================
