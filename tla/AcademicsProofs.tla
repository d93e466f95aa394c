-------------------------- MODULE AcademicsProofs --------------------------
(***************************************************************************)
(* Theorems about components of MCAcademics: office hours and lesson       *)
(* drafts for any teachers, students, directors, lessons, slots and        *)
(* requests under way; conversions for any number of attempts while at     *)
(* most two workers serve them and none crashes; and its timetables.        *)
(*                                                                         *)
(* What a request of office hours found before it writes is still so when  *)
(* it does: bookings of a slot are counted under the row lock of the slot, *)
(* and slots of a teacher compared under the advisory lock of the teacher. *)
(*                                                                         *)
(* A conversion that nobody has begun for a new key has at most one other  *)
(* worker left on the file: when that worker stores the slides nobody can  *)
(* fail the file again, and when it fails, the key is still to be tried.   *)
(* With three workers, or after a crash, this is not so.                   *)
(*                                                                         *)
(* Whoever missed a change of a text holds a page of an outdated version;  *)
(* every command that replaces a text asks for the present one.            *)
(*                                                                         *)
(* The timetables of MCAcademics are proved about in TimetableProofs; here *)
(* its theorems are taken over for the three timetables of this system.    *)
(***************************************************************************)
EXTENDS MCAcademics, Integers, Sequences, FiniteSets, FiniteSetTheorems,
        WellFoundedInduction, TLAPS

\* The theorems about timetables, for the three of MCAcademics.
OfBreaking == INSTANCE TimetableProofs WITH
    Patterns <- EveryDay, EditDays <- LateDay, Breaks <- TwoBreaks, Scheduling <- FALSE,
    MaxRules <- 2, MaxBreaks <- 1, MaxRecorded <- 1, MaxSlots <- 1, Requests <- OneRequest,
    slots <- breaksSlots, request <- breaksRequest
OfRuling == INSTANCE TimetableProofs WITH
    Groups <- OneGroup, Patterns <- TwoPatterns, EditDays <- NoDay, Breaks <- SchoolBreak,
    Scheduling <- TRUE, MaxRules <- 3, MaxBreaks <- 1, MaxRecorded <- 1, MaxSlots <- 1,
    Requests <- OneRequest, rules <- rulesRules, lesson <- rulesLesson,
    recorded <- rulesRecorded, slots <- rulesSlots, breaks <- rulesBreaks,
    request <- rulesRequest, ids <- rulesIds
OfEditing == INSTANCE TimetableProofs WITH
    Patterns <- EveryDay, EditDays <- TwoDays, Breaks <- NoBreak, Scheduling <- FALSE,
    MaxRules <- 2, MaxBreaks <- 0, MaxRecorded <- 0, MaxSlots <- 0,
    rules <- editsRules, lesson <- editsLesson, recorded <- editsRecorded,
    slots <- editsSlots, breaks <- editsBreaks, request <- editsRequest, ids <- editsIds

-----------------------------------------------------------------------------
(* Office hours.                                                            *)

\* OfficeHours counts with its own copy of the operator.
LEMMA SameCardinality == \A S : Desk!Cardinality(S) = Cardinality(S)
  BY DEF Desk!Cardinality, Cardinality

RequestRows ==
    {Desk!Idle}
      \cup [doing : {"opens"}, teacher : Teachers, hour : Hours, capacity : Capacities]
      \cup [doing : {"books"}, slot : Nat, student : Students]
      \cup [doing : {"closes"}, slot : Nat, booked : SUBSET Nat]
      \cup [doing : {"leaves"}, booking : Nat]

\* The locks: one new slot of a teacher at a time, one writer of a slot's bookings.
LocksHold ==
    /\ \A r, q \in Requests :
          hoursRequest[r].doing = "opens" /\ hoursRequest[q].doing = "opens"
            /\ hoursRequest[r].teacher = hoursRequest[q].teacher => r = q
    /\ \A r, q \in Requests :
          hoursRequest[r].doing \in {"books", "closes"} /\ hoursRequest[q].doing \in {"books", "closes"}
            /\ hoursRequest[r].slot = hoursRequest[q].slot => r = q

\* What each request found out still holds.
StillFree(q) == \A s \in Desk!OpenOf(q.teacher) : ~Desk!Overlaps(q.hour, slots[s].hour)
StillRoom(q) ==
    /\ q.slot \in DOMAIN slots /\ slots[q.slot].status = "open"
    /\ Cardinality(Desk!Booked(q.slot)) < slots[q.slot].capacity
    /\ \A b \in Desk!Booked(q.slot) : bookings[b].student # q.student
StillAll(q) == q.slot \in DOMAIN slots /\ Desk!Booked(q.slot) \subseteq q.booked
Finding(q) ==
    /\ q.doing = "opens" => StillFree(q)
    /\ q.doing = "books" => StillRoom(q)
    /\ q.doing = "closes" => StillAll(q)
    /\ q.doing = "leaves" => q.booking \in DOMAIN bookings
FindingsHold == \A r \in Requests : Finding(hoursRequest[r])

BookingsHaveSlots == \A b \in DOMAIN bookings : bookings[b].slot \in DOMAIN slots

IInv ==
    /\ Desk!TypeOK
    /\ hoursRequest \in [Requests -> RequestRows]
    /\ LocksHold
    /\ FindingsHold
    /\ BookingsHaveSlots
    /\ Desk!BookingsFitTheSlot
    /\ Desk!TeachersSlotsApart

-----------------------------------------------------------------------------
(* Rows. *)

LEMMA AddedRows ==
    ASSUME NEW n \in Nat, NEW rows, DOMAIN rows = 1..n, NEW row
    PROVE  /\ Cardinality(DOMAIN rows) = n
           /\ Desk!Added(rows, row) = [i \in 1..(n + 1) |-> IF i \in 1..n THEN rows[i] ELSE row]
  <1>1. Cardinality(1..n) = n
    BY FS_Interval
  <1> QED BY SameCardinality, <1>1 DEF Desk!Added

LEMMA Rows ==
    ASSUME Desk!OfficeHoursAssumption, Desk!TypeOK
    PROVE  /\ \E n \in 0..MaxSlots : slots \in [1..n -> Desk!Slots]
           /\ \E n \in 0..MaxBookings : bookings \in [1..n -> Desk!Bookings]
  BY DEF Desk!TypeOK

\* The bookings of a slot are finitely many.
LEMMA BookedFinite ==
    ASSUME Desk!OfficeHoursAssumption, Desk!TypeOK, NEW s
    PROVE  IsFiniteSet(Desk!Booked(s)) /\ Cardinality(Desk!Booked(s)) \in Nat
  <1>1. PICK n \in 0..MaxBookings : bookings \in [1..n -> Desk!Bookings]
    BY Rows
  <1>2. n \in Nat /\ Desk!Booked(s) \subseteq 1..n
    BY <1>1 DEF Desk!Booked, Desk!OfficeHoursAssumption
  <1>3. IsFiniteSet(1..n)
    BY <1>2, FS_Interval
  <1> QED BY <1>2, <1>3, FS_Subset, FS_CardinalityType

LEMMA SlotType ==
    ASSUME Desk!OfficeHoursAssumption, Desk!TypeOK, NEW s \in DOMAIN slots
    PROVE  slots[s] \in Desk!Slots /\ slots[s].capacity \in Nat \ {0}
  BY Rows DEF Desk!Slots, Desk!OfficeHoursAssumption

LEMMA IInvInit == Desk!OfficeHoursAssumption => (Desk!Init => IInv)
  <1> SUFFICES ASSUME Desk!OfficeHoursAssumption, Desk!Init PROVE IInv
    OBVIOUS
  <1>1. slots \in [1..0 -> Desk!Slots] /\ bookings \in [1..0 -> Desk!Bookings]
    BY DEF Desk!Init
  <1>2. Desk!TypeOK
    <2>1. 0 \in 0..MaxSlots /\ 0 \in 0..MaxBookings /\ 0 \in 0..LastHour
      BY DEF Desk!OfficeHoursAssumption
    <2>2. /\ slots \in UNION {[1..n -> Desk!Slots] : n \in 0..MaxSlots}
          /\ bookings \in UNION {[1..n -> Desk!Bookings] : n \in 0..MaxBookings}
      BY <1>1, <2>1
    <2>3. \A r \in Requests : hoursRequest[r].doing = "idle"
      BY DEF Desk!Init, Desk!Idle
    <2> QED BY <2>1, <2>2, <2>3 DEF Desk!Init, Desk!TypeOK
  <1> QED BY <1>1, <1>2 DEF Desk!Init, IInv, RequestRows, LocksHold, FindingsHold, Finding,
       Desk!Idle,
              BookingsHaveSlots, Desk!BookingsFitTheSlot, Desk!TeachersSlotsApart, Desk!OpenOf,
              Desk!Booked

-----------------------------------------------------------------------------
(* The steps. *)

\* Fewer bookings of a slot leave it its room.
LEMMA FewerBooked ==
    ASSUME Desk!OfficeHoursAssumption, Desk!TypeOK, NEW s, Desk!Booked(s)' \subseteq Desk!Booked(s)
    PROVE  Cardinality(Desk!Booked(s)') \in Nat /\ Cardinality(Desk!Booked(s)') <= Cardinality(Desk!Booked(s))
  BY BookedFinite, FS_Subset, FS_CardinalityType

\* What a request found out holds after a step of somebody else that opens no slot of its
\* teacher, or leaves its slot as it is and books it for nobody.
LEMMA FindingKept ==
    ASSUME Desk!OfficeHoursAssumption, Desk!TypeOK, NEW q \in RequestRows, Finding(q),
           DOMAIN slots \subseteq DOMAIN slots', DOMAIN bookings \subseteq DOMAIN bookings',
           q.doing = "opens" => \A s \in Desk!OpenOf(q.teacher)' :
               s \in Desk!OpenOf(q.teacher) /\ slots'[s].hour = slots[s].hour,
           q.doing \in {"books", "closes"} =>
               /\ slots'[q.slot] = slots[q.slot]
               /\ Desk!Booked(q.slot)' \subseteq Desk!Booked(q.slot)
               /\ \A b \in Desk!Booked(q.slot)' : bookings'[b].student = bookings[b].student
    PROVE  Finding(q)'
  <1>1. CASE q.doing = "opens"
    BY <1>1 DEF Finding, StillFree
  <1>2. CASE q.doing = "books"
    <2>1. slots[q.slot].capacity \in Nat
      BY <1>2, SlotType DEF Finding, StillRoom
    <2>2. Cardinality(Desk!Booked(q.slot)') <= Cardinality(Desk!Booked(q.slot))
          /\ Cardinality(Desk!Booked(q.slot)') \in Nat /\ Cardinality(Desk!Booked(q.slot)) \in Nat
      BY <1>2, FewerBooked, BookedFinite
    <2> QED BY <1>2, <2>1, <2>2 DEF Finding, StillRoom
  <1>3. CASE q.doing = "closes"
    BY <1>3 DEF Finding, StillAll
  <1>4. CASE q.doing = "leaves"
    BY <1>4 DEF Finding
  <1>5. CASE q.doing = "idle"
    BY <1>5 DEF Finding
  <1> QED BY <1>1, <1>2, <1>3, <1>4, <1>5 DEF RequestRows, Desk!Idle

\* A request begins with what it found; no row changes.
LEMMA BeginStep ==
    ASSUME Desk!OfficeHoursAssumption, IInv, NEW r \in Requests, NEW q \in RequestRows,
           Desk!Begins(r, q), UNCHANGED <<slots, bookings, now>>, Finding(q),
           q.doing = "opens" => Desk!TeacherIsFree(q.teacher),
           q.doing \in {"books", "closes"} => Desk!SlotIsFree(q.slot)
    PROVE  IInv'
  <1>1. \A s \in Requests : hoursRequest'[s] = IF s = r THEN q ELSE hoursRequest[s]
    BY DEF Desk!Begins, IInv
  <1>2. hoursRequest' \in [Requests -> RequestRows]
    BY DEF Desk!Begins, IInv
  <1>3. Desk!TypeOK'
    BY <1>2 DEF IInv, Desk!TypeOK, RequestRows, Desk!Idle
  <1>4. LocksHold'
    BY <1>1 DEF IInv, LocksHold, Desk!TeacherIsFree, Desk!SlotIsFree
  <1>5. FindingsHold'
    <2>1. \A k : Finding(k)' <=> Finding(k)
      BY DEF Finding, StillFree, StillRoom, StillAll, Desk!OpenOf, Desk!Booked
    <2> QED BY <1>1, <2>1 DEF IInv, FindingsHold, Finding
  <1>6. BookingsHaveSlots' /\ Desk!TeachersSlotsApart'
    BY DEF IInv, BookingsHaveSlots, Desk!TeachersSlotsApart, Desk!OpenOf
  <1>7. Desk!BookingsFitTheSlot'
    BY DEF IInv, Desk!BookingsFitTheSlot, Desk!Booked
  <1> QED BY <1>2, <1>3, <1>4, <1>5, <1>6, <1>7 DEF IInv

\* Locks are let go of and requests only end.
LEMMA EndStep ==
    ASSUME IInv, NEW r \in Requests, Desk!Ends(r)
    PROVE  /\ hoursRequest' \in [Requests -> RequestRows] /\ LocksHold'
           /\ \A s \in Requests : hoursRequest'[s] = IF s = r THEN Desk!Idle ELSE hoursRequest[s]
  <1>1. \A s \in Requests : hoursRequest'[s] = IF s = r THEN Desk!Idle ELSE hoursRequest[s]
    BY DEF Desk!Ends, IInv
  <1>2. hoursRequest' \in [Requests -> RequestRows]
    BY DEF Desk!Ends, IInv, RequestRows
  <1>3. LocksHold'
    BY <1>1 DEF IInv, LocksHold, Desk!Idle
  <1> QED BY <1>1, <1>2, <1>3

\* A new slot was checked against every other open slot of the teacher.
LEMMA OpensStep ==
    ASSUME Desk!OfficeHoursAssumption, IInv, NEW r \in Requests, Desk!OpensSlot(r) PROVE IInv'
  <1> DEFINE q == hoursRequest[r]
             row == [teacher |-> q.teacher, hour |-> q.hour, capacity |-> q.capacity,
                     status |-> "open"]
  <1>0. Desk!TypeOK /\ UNCHANGED <<bookings, now>>
    BY DEF IInv, Desk!OpensSlot
  <1>1. /\ q.doing = "opens" /\ q.teacher \in Teachers /\ q.hour \in Hours
        /\ q.capacity \in Capacities /\ StillFree(q)
    BY DEF Desk!OpensSlot, IInv, RequestRows, Desk!Idle, FindingsHold, Finding
  <1>2. row \in Desk!Slots
    BY <1>1 DEF Desk!Slots
  <1>3. PICK n \in 0..MaxSlots : slots \in [1..n -> Desk!Slots]
    BY <1>0, Rows
  <1> DEFINE m == n + 1
  <1> HIDE DEF row
  <1>4. /\ DOMAIN slots = 1..n /\ n < MaxSlots /\ slots' \in [1..m -> Desk!Slots] /\ slots'[m] = row
        /\ \A s \in 1..n : slots'[s] = slots[s]
    <2>1. n \in Nat
      BY <1>3 DEF Desk!OfficeHoursAssumption
    <2>2. slots' = Desk!Added(slots, row) /\ Cardinality(DOMAIN slots) < MaxSlots
      BY SameCardinality DEF Desk!OpensSlot, row
    <2>3. /\ DOMAIN slots = 1..n /\ Cardinality(DOMAIN slots) = n
          /\ slots' = [i \in 1..m |-> IF i \in 1..n THEN slots[i] ELSE row]
      BY <1>3, <2>1, <2>2, AddedRows
    <2> QED BY <1>2, <1>3, <2>1, <2>2, <2>3
  <1>5. n \in Nat /\ DOMAIN slots' = 1..m /\ 1..m = 1..n \cup {m} /\ m \notin 1..n /\ m \in 0..MaxSlots
    BY <1>3, <1>4 DEF Desk!OfficeHoursAssumption
  <1>6. /\ hoursRequest' \in [Requests -> RequestRows] /\ LocksHold'
        /\ \A s \in Requests : hoursRequest'[s] = IF s = r THEN Desk!Idle ELSE hoursRequest[s]
    BY EndStep DEF Desk!OpensSlot
  <1>7. Desk!TypeOK'
    BY <1>0, <1>4, <1>5, <1>6 DEF Desk!TypeOK, RequestRows, Desk!Idle
  <1>8. \A t \in Teachers : Desk!OpenOf(t)' = IF t = q.teacher THEN Desk!OpenOf(t) \cup {m} ELSE Desk!OpenOf(t)
    BY <1>4, <1>5 DEF Desk!OpenOf, row
  <1>9. \A s : Desk!Booked(s)' = Desk!Booked(s)
    BY <1>0 DEF Desk!Booked
  <1>10. FindingsHold'
    <2> SUFFICES ASSUME NEW s \in Requests, s # r PROVE Finding(hoursRequest[s])'
      BY <1>6 DEF FindingsHold, Finding, Desk!Idle
    <2> PICK k \in RequestRows : k = hoursRequest[s]
      BY DEF IInv
    <2>1. Finding(k)
      BY DEF IInv, FindingsHold
    <2>2. k.doing = "opens" => k.teacher # q.teacher /\ k.teacher \in Teachers
      BY <1>1 DEF IInv, LocksHold, RequestRows, Desk!Idle
    <2>3. k.doing \in {"books", "closes"} => k.slot \in 1..n
      BY <1>4, <2>1 DEF Finding, StillRoom, StillAll
    <2>4. Finding(k)'
      <3>1. k.doing = "opens" => \A u \in Desk!OpenOf(k.teacher)' :
               u \in Desk!OpenOf(k.teacher) /\ slots'[u].hour = slots[u].hour
        BY <1>4, <1>8, <2>2 DEF Desk!OpenOf
      <3>2. k.doing \in {"books", "closes"} => slots'[k.slot] = slots[k.slot]
        BY <1>4, <2>3
      <3> QED BY <1>0, <1>4, <1>5, <1>9, <2>1, <3>1, <3>2, FindingKept
    <2> QED BY <1>6, <2>4
  <1>11. BookingsHaveSlots'
    BY <1>0, <1>4, <1>5 DEF IInv, BookingsHaveSlots
  <1>12. Desk!BookingsFitTheSlot'
    <2>1. Desk!Booked(m) = {}
      BY <1>4, <1>5 DEF IInv, BookingsHaveSlots, Desk!Booked
    <2>2. row.capacity \in Nat
      BY <1>1 DEF row, Desk!OfficeHoursAssumption
    <2>3. ASSUME NEW s \in 1..n
          PROVE  /\ Cardinality(Desk!Booked(s)') <= slots'[s].capacity
                 /\ \A b, c \in Desk!Booked(s)' : bookings'[b].student = bookings'[c].student => b = c
                 /\ slots'[s].status = "cancelled" => Desk!Booked(s)' = {}
      BY SameCardinality, <1>0, <1>4, <1>9 DEF IInv, Desk!BookingsFitTheSlot
    <2>4. /\ Cardinality(Desk!Booked(m)') <= slots'[m].capacity
          /\ \A b, c \in Desk!Booked(m)' : bookings'[b].student = bookings'[c].student => b = c
          /\ slots'[m].status = "cancelled" => Desk!Booked(m)' = {}
      <3>1. Desk!Booked(m)' = {} /\ Cardinality({}) = 0
        BY <1>9, <2>1, FS_EmptySet
      <3>2. slots'[m].capacity = row.capacity /\ slots'[m].status = "open"
        BY <1>4 DEF row
      <3> QED BY <2>2, <3>1, <3>2
    <2> QED BY SameCardinality, <1>5, <2>3, <2>4 DEF Desk!BookingsFitTheSlot
  <1>13. Desk!TeachersSlotsApart'
    <2> SUFFICES ASSUME NEW t \in Teachers, NEW s \in Desk!OpenOf(t)', NEW u \in Desk!OpenOf(t)',
                        Desk!Overlaps(slots'[s].hour, slots'[u].hour)
                 PROVE  s = u
      BY DEF Desk!TeachersSlotsApart
    <2>1. \A v \in Desk!OpenOf(t) : v \in 1..n /\ slots'[v] = slots[v]
      BY <1>4 DEF Desk!OpenOf
    <2>2. CASE s \in Desk!OpenOf(t) /\ u \in Desk!OpenOf(t)
      BY <2>1, <2>2 DEF IInv, Desk!TeachersSlotsApart
    <2>3. slots'[m].hour = q.hour
      BY <1>4 DEF row
    <2>4. CASE t = q.teacher /\ s = m /\ u \in Desk!OpenOf(t)
      BY <1>1, <2>1, <2>3, <2>4 DEF StillFree
    <2>5. CASE t = q.teacher /\ u = m /\ s \in Desk!OpenOf(t)
      BY <1>1, <2>1, <2>3, <2>5 DEF StillFree, Desk!Overlaps
    <2> QED BY <1>8, <2>2, <2>4, <2>5
  <1> QED BY <1>6, <1>7, <1>10, <1>11, <1>12, <1>13 DEF IInv

\* Bookings only end: no slot is opened or gets another booking, and the requests that go
\* on find their slots as they were.
LEMMA BookingsEnd ==
    ASSUME Desk!OfficeHoursAssumption, IInv, Desk!TypeOK', NEW r \in Requests, Desk!Ends(r),
           DOMAIN slots' = DOMAIN slots, DOMAIN bookings' = DOMAIN bookings,
           \A b \in DOMAIN bookings :
               /\ bookings'[b].slot = bookings[b].slot
               /\ bookings'[b].student = bookings[b].student
               /\ bookings'[b].status = "booked" => bookings[b].status = "booked",
           \A s \in DOMAIN slots :
               /\ slots'[s].teacher = slots[s].teacher /\ slots'[s].hour = slots[s].hour
               /\ slots'[s].capacity = slots[s].capacity
               /\ slots'[s].status = "open" => slots[s].status = "open"
               /\ slots'[s].status = "cancelled" =>
                     slots[s].status = "cancelled" \/ Desk!Booked(s)' = {},
           \A p \in Requests : p # r /\ hoursRequest[p].doing \in {"books", "closes"} =>
               slots'[hoursRequest[p].slot] = slots[hoursRequest[p].slot]
    PROVE  IInv'
  <1>1. /\ hoursRequest' \in [Requests -> RequestRows] /\ LocksHold'
        /\ \A s \in Requests : hoursRequest'[s] = IF s = r THEN Desk!Idle ELSE hoursRequest[s]
    BY EndStep
  <1>2. Desk!TypeOK
    BY DEF IInv
  <1>3. \A s : Desk!Booked(s)' \subseteq Desk!Booked(s)
    BY DEF Desk!Booked
  <1>4. \A t : \A s \in Desk!OpenOf(t)' : s \in Desk!OpenOf(t) /\ slots'[s].hour = slots[s].hour
    BY DEF Desk!OpenOf
  <1>5. FindingsHold'
    <2> SUFFICES ASSUME NEW p \in Requests, p # r PROVE Finding(hoursRequest[p])'
      BY <1>1 DEF FindingsHold, Finding, Desk!Idle
    <2> PICK k \in RequestRows : k = hoursRequest[p]
      BY DEF IInv
    <2>1. Finding(k)
      BY DEF IInv, FindingsHold
    <2>2. \A b \in Desk!Booked(k.slot)' : bookings'[b].student = bookings[b].student
      BY DEF Desk!Booked
    <2>3. Finding(k)'
      BY <1>2, <1>3, <1>4, <2>1, <2>2, FindingKept
    <2> QED BY <1>1, <2>3
  <1>6. BookingsHaveSlots'
    BY DEF IInv, BookingsHaveSlots
  <1>7. Desk!BookingsFitTheSlot'
    <2> SUFFICES ASSUME NEW s \in DOMAIN slots
                 PROVE  /\ Cardinality(Desk!Booked(s)') <= slots'[s].capacity
                        /\ \A b, c \in Desk!Booked(s)' :
                              bookings'[b].student = bookings'[c].student => b = c
                        /\ slots'[s].status = "cancelled" => Desk!Booked(s)' = {}
      BY SameCardinality DEF Desk!BookingsFitTheSlot
    <2>1. Cardinality(Desk!Booked(s)') <= slots'[s].capacity
      BY SameCardinality, <1>2, <1>3, FewerBooked, BookedFinite, SlotType DEF IInv, Desk!BookingsFitTheSlot
    <2>2. \A b, c \in Desk!Booked(s)' : bookings'[b].student = bookings'[c].student => b = c
      <3>1. \A b \in Desk!Booked(s)' : b \in Desk!Booked(s) /\ bookings'[b].student = bookings[b].student
        BY <1>3 DEF Desk!Booked
      <3> QED BY <3>1 DEF IInv, Desk!BookingsFitTheSlot
    <2>3. slots'[s].status = "cancelled" => Desk!Booked(s)' = {}
      BY <1>3 DEF IInv, Desk!BookingsFitTheSlot
    <2> QED BY <2>1, <2>2, <2>3
  <1>8. Desk!TeachersSlotsApart'
    BY <1>4 DEF IInv, Desk!TeachersSlotsApart
  <1> QED BY <1>1, <1>5, <1>6, <1>7, <1>8 DEF IInv

\* A cancelled slot is left without bookings: all it has were found, and nobody books it
\* in between.
LEMMA ClosesStep ==
    ASSUME Desk!OfficeHoursAssumption, IInv, NEW r \in Requests, Desk!ClosesSlot(r) PROVE IInv'
  <1> PICK q : q = hoursRequest[r]
    OBVIOUS
  <1>0. Desk!TypeOK /\ q.doing = "closes" /\ q.slot \in DOMAIN slots /\ Desk!Booked(q.slot) \subseteq q.booked
    BY DEF Desk!ClosesSlot, IInv, FindingsHold, Finding, StillAll
  <1>1. PICK n \in 0..MaxSlots : slots \in [1..n -> Desk!Slots]
    BY <1>0, Rows
  <1>2. PICK k \in 0..MaxBookings : bookings \in [1..k -> Desk!Bookings]
    BY <1>0, Rows
  <1>3. /\ slots' \in [1..n -> Desk!Slots]
        /\ \A s \in 1..n : s # q.slot => slots'[s] = slots[s]
        /\ slots'[q.slot] = [slots[q.slot] EXCEPT !.status = "cancelled"]
    BY <1>0, <1>1 DEF Desk!ClosesSlot, Desk!Slots
  <1>4. /\ bookings' \in [1..k -> Desk!Bookings]
        /\ \A b \in 1..k : bookings'[b] = IF b \in q.booked
                                          THEN [bookings[b] EXCEPT !.status = "cancelled"]
                                          ELSE bookings[b]
    BY <1>2 DEF Desk!ClosesSlot, Desk!Bookings
  <1>5. Desk!Ends(r) /\ now' = now
    BY DEF Desk!ClosesSlot
  <1>6. Desk!TypeOK'
    <2>1. hoursRequest' \in [Requests -> RequestRows]
      BY <1>5, EndStep
    <2> QED BY <1>0, <1>1, <1>2, <1>3, <1>4, <1>5, <2>1 DEF Desk!TypeOK, RequestRows, Desk!Idle
  <1>7. \A b \in DOMAIN bookings :
           /\ bookings'[b].slot = bookings[b].slot
           /\ bookings'[b].student = bookings[b].student
           /\ bookings'[b].status = "booked" => bookings[b].status = "booked" /\ b \notin q.booked
    BY <1>2, <1>4 DEF Desk!Bookings
  <1>8. Desk!Booked(q.slot)' = {}
    BY <1>0, <1>2, <1>4, <1>7 DEF Desk!Booked
  <1>9. \A s \in DOMAIN slots :
           /\ slots'[s].teacher = slots[s].teacher /\ slots'[s].hour = slots[s].hour
           /\ slots'[s].capacity = slots[s].capacity
           /\ slots'[s].status = "open" => slots[s].status = "open"
           /\ slots'[s].status = "cancelled" => slots[s].status = "cancelled" \/ s = q.slot
    BY <1>0, <1>1, <1>3 DEF Desk!Slots
  <1>10. \A p \in Requests : p # r /\ hoursRequest[p].doing \in {"books", "closes"} =>
            hoursRequest[p].slot # q.slot /\ hoursRequest[p].slot \in DOMAIN slots
    BY <1>0 DEF IInv, LocksHold, FindingsHold, Finding, StillRoom, StillAll
  <1>11. \A p \in Requests : p # r /\ hoursRequest[p].doing \in {"books", "closes"} =>
            slots'[hoursRequest[p].slot] = slots[hoursRequest[p].slot]
    BY <1>1, <1>3, <1>10
  <1>12. DOMAIN slots' = DOMAIN slots /\ DOMAIN bookings' = DOMAIN bookings
    BY <1>1, <1>2, <1>3, <1>4
  <1>13. \A b \in DOMAIN bookings :
            /\ bookings'[b].slot = bookings[b].slot
            /\ bookings'[b].student = bookings[b].student
            /\ bookings'[b].status = "booked" => bookings[b].status = "booked"
    BY <1>7
  <1>14. \A s \in DOMAIN slots :
            /\ slots'[s].teacher = slots[s].teacher /\ slots'[s].hour = slots[s].hour
            /\ slots'[s].capacity = slots[s].capacity
            /\ slots'[s].status = "open" => slots[s].status = "open"
            /\ slots'[s].status = "cancelled" =>
                  slots[s].status = "cancelled" \/ Desk!Booked(s)' = {}
    BY <1>8, <1>9
  <1> QED BY <1>5, <1>6, <1>11, <1>12, <1>13, <1>14, BookingsEnd

LEMMA LeavesStep ==
    ASSUME Desk!OfficeHoursAssumption, IInv, NEW r \in Requests, Desk!LeavesBooking(r) PROVE IInv'
  <1> DEFINE a == hoursRequest[r].booking
  <1>0. Desk!TypeOK /\ a \in DOMAIN bookings /\ Desk!Ends(r) /\ UNCHANGED <<slots, now>>
    BY DEF Desk!LeavesBooking, IInv, FindingsHold, Finding
  <1>1. PICK k \in 0..MaxBookings : bookings \in [1..k -> Desk!Bookings]
    BY <1>0, Rows
  <1>2. /\ bookings' \in [1..k -> Desk!Bookings]
        /\ \A b \in 1..k : bookings'[b] = IF b = a THEN [bookings[b] EXCEPT !.status = "cancelled"]
                                          ELSE bookings[b]
    BY <1>0, <1>1 DEF Desk!LeavesBooking, Desk!Bookings
  <1>3. Desk!TypeOK'
    <2>1. hoursRequest' \in [Requests -> RequestRows]
      BY <1>0, EndStep
    <2> QED BY <1>0, <1>2, <2>1 DEF Desk!TypeOK, RequestRows, Desk!Idle
  <1>4. \A b \in DOMAIN bookings :
           /\ bookings'[b].slot = bookings[b].slot
           /\ bookings'[b].student = bookings[b].student
           /\ bookings'[b].status = "booked" => bookings[b].status = "booked"
    BY <1>1, <1>2 DEF Desk!Bookings
  <1> QED BY <1>0, <1>1, <1>2, <1>3, <1>4, BookingsEnd

\* A new booking was checked against the room and the students the slot had, and only
\* withdrawals came in between.
LEMMA BooksStep ==
    ASSUME Desk!OfficeHoursAssumption, IInv, NEW r \in Requests, Desk!Books(r) PROVE IInv'
  <1> PICK q : q = hoursRequest[r]
    OBVIOUS
  <1> DEFINE row == [slot |-> q.slot, student |-> q.student, status |-> "booked"]
  <1>0. Desk!TypeOK /\ Desk!Ends(r) /\ UNCHANGED <<slots, now>>
    BY DEF IInv, Desk!Books
  <1>1. q.doing = "books" /\ q.slot \in DOMAIN slots /\ q.student \in Students /\ StillRoom(q)
    BY DEF Desk!Books, IInv, RequestRows, Desk!Idle, FindingsHold, Finding, StillRoom
  <1>2. row \in Desk!Bookings
    <2>1. DOMAIN slots \subseteq 1..MaxSlots
      BY <1>0, Rows DEF Desk!OfficeHoursAssumption
    <2> QED BY <1>1, <2>1 DEF Desk!Bookings
  <1>3. PICK n \in 0..MaxBookings : bookings \in [1..n -> Desk!Bookings]
    BY <1>0, Rows
  <1> DEFINE m == n + 1
  <1>4. /\ DOMAIN bookings = 1..n /\ n < MaxBookings /\ n \in Nat
        /\ bookings' = [i \in 1..m |-> IF i \in 1..n THEN bookings[i] ELSE row]
    <2>1. n \in Nat /\ DOMAIN bookings = 1..n
      BY <1>3 DEF Desk!OfficeHoursAssumption
    <2>2. bookings' = Desk!Added(bookings, row) /\ Cardinality(DOMAIN bookings) < MaxBookings
      BY SameCardinality DEF Desk!Books
    <2> HIDE DEF row
    <2> QED BY <2>1, <2>2, AddedRows
  <1>5. /\ DOMAIN bookings' = 1..m /\ 1..m = 1..n \cup {m} /\ m \notin 1..n /\ m \in 0..MaxBookings
        /\ bookings' \in [1..m -> Desk!Bookings] /\ bookings'[m] = row
        /\ \A b \in 1..n : bookings'[b] = bookings[b]
    <2> HIDE DEF row
    <2> QED BY <1>2, <1>3, <1>4 DEF Desk!OfficeHoursAssumption
  <1>6. /\ hoursRequest' \in [Requests -> RequestRows] /\ LocksHold'
        /\ \A s \in Requests : hoursRequest'[s] = IF s = r THEN Desk!Idle ELSE hoursRequest[s]
    BY <1>0, EndStep
  <1>7. Desk!TypeOK'
    <2>1. bookings' \in UNION {[1..k -> Desk!Bookings] : k \in 0..MaxBookings}
      BY <1>5
    <2>2. \A s \in Requests :
             hoursRequest'[s].doing \in {"idle", "opens", "books", "closes", "leaves"}
      BY <1>6 DEF RequestRows, Desk!Idle
    <2> QED BY <1>0, <2>1, <2>2 DEF Desk!TypeOK
  <1>8. \A s : Desk!Booked(s)' = IF s = q.slot THEN Desk!Booked(s) \cup {m} ELSE Desk!Booked(s)
    BY <1>4, <1>5 DEF Desk!Booked
  <1>9. FindingsHold'
    <2> SUFFICES ASSUME NEW p \in Requests, p # r PROVE Finding(hoursRequest[p])'
      BY <1>6 DEF FindingsHold, Finding, Desk!Idle
    <2> PICK k \in RequestRows : k = hoursRequest[p]
      BY DEF IInv
    <2>1. Finding(k)
      BY DEF IInv, FindingsHold
    <2>2. k.doing \in {"books", "closes"} => k.slot # q.slot
      BY <1>1 DEF IInv, LocksHold
    <2>3. k.doing \in {"books", "closes"} =>
            /\ Desk!Booked(k.slot)' \subseteq Desk!Booked(k.slot)
            /\ \A b \in Desk!Booked(k.slot)' : bookings'[b].student = bookings[b].student
      <3>1. k.doing \in {"books", "closes"} => Desk!Booked(k.slot)' = Desk!Booked(k.slot)
        BY <1>8, <2>2
      <3>2. \A b \in Desk!Booked(k.slot) : bookings'[b] = bookings[b]
        BY <1>4, <1>5 DEF Desk!Booked
      <3> QED BY <3>1, <3>2
    <2>4. \A s \in Desk!OpenOf(k.teacher)' : s \in Desk!OpenOf(k.teacher) /\ slots'[s].hour = slots[s].hour
      BY <1>0 DEF Desk!OpenOf
    <2>5. Finding(k)'
      BY <1>0, <1>4, <1>5, <2>1, <2>3, <2>4, FindingKept
    <2> QED BY <1>6, <2>5
  <1>10. BookingsHaveSlots'
    BY <1>0, <1>1, <1>4, <1>5 DEF IInv, BookingsHaveSlots
  <1>11. Desk!BookingsFitTheSlot'
    <2> SUFFICES ASSUME NEW s \in DOMAIN slots
                 PROVE  /\ Cardinality(Desk!Booked(s)') <= slots[s].capacity
                        /\ \A b, c \in Desk!Booked(s)' :
                              bookings'[b].student = bookings'[c].student => b = c
                        /\ slots[s].status = "cancelled" => Desk!Booked(s)' = {}
      BY SameCardinality, <1>0 DEF Desk!BookingsFitTheSlot
    <2>1. \A b \in Desk!Booked(s) : b \in 1..n /\ bookings'[b] = bookings[b]
      BY <1>4, <1>5 DEF Desk!Booked
    <2>2. CASE s # q.slot
      BY SameCardinality, <1>8, <2>1, <2>2 DEF IInv, Desk!BookingsFitTheSlot
    <2>3. CASE s = q.slot
      <3>1. m \notin Desk!Booked(s) /\ Desk!Booked(s)' = Desk!Booked(s) \cup {m}
        BY <1>5, <1>8, <2>1, <2>3
      <3>2. Cardinality(Desk!Booked(s)') = Cardinality(Desk!Booked(s)) + 1
        BY <1>0, <3>1, BookedFinite, FS_AddElement
      <3>3. Cardinality(Desk!Booked(s)') <= slots[s].capacity
        BY <1>0, <1>1, <2>3, <3>2, BookedFinite, SlotType DEF StillRoom
      <3>4. \A b, c \in Desk!Booked(s)' : bookings'[b].student = bookings'[c].student => b = c
        <4>1. \A b \in Desk!Booked(s) : bookings'[b].student # bookings'[m].student
          BY <1>1, <1>5, <2>1, <2>3 DEF StillRoom
        <4>2. \A b, c \in Desk!Booked(s) : bookings'[b].student = bookings'[c].student => b = c
          BY <2>1 DEF IInv, Desk!BookingsFitTheSlot
        <4> QED BY <3>1, <4>1, <4>2
      <3>5. slots[s].status # "cancelled"
        BY <1>1, <2>3 DEF StillRoom
      <3> QED BY <3>3, <3>4, <3>5
    <2> QED BY <2>2, <2>3
  <1>12. Desk!TeachersSlotsApart'
    BY <1>0 DEF IInv, Desk!TeachersSlotsApart, Desk!OpenOf
  <1> QED BY <1>6, <1>7, <1>9, <1>10, <1>11, <1>12 DEF IInv

LEMMA IInvStep == ASSUME Desk!OfficeHoursAssumption PROVE IInv /\ [Desk!Next]_(Desk!vars) => IInv'
  <1> SUFFICES ASSUME IInv, [Desk!Next]_(Desk!vars) PROVE IInv'
    OBVIOUS
  <1>1. ASSUME NEW r \in Requests, NEW t \in Teachers, NEW hour \in Hours, NEW n \in Capacities,
               Desk!ChecksHour(r, t, hour, n)
        PROVE  IInv'
    <2> DEFINE q == [doing |-> "opens", teacher |-> t, hour |-> hour, capacity |-> n]
    <2>1. q \in RequestRows /\ q.doing = "opens" /\ q.teacher = t
      BY DEF RequestRows
    <2>2. Finding(q)
      BY <1>1 DEF Desk!ChecksHour, Finding, StillFree
    <2>3. Desk!Begins(r, q) /\ UNCHANGED <<slots, bookings, now>> /\ Desk!TeacherIsFree(t)
      BY <1>1 DEF Desk!ChecksHour
    <2> HIDE DEF q
    <2> QED BY <2>1, <2>2, <2>3, BeginStep
  <1>2. ASSUME NEW r \in Requests, Desk!OpensSlot(r) PROVE IInv'
    BY <1>2, OpensStep
  <1>3. ASSUME NEW r \in Requests, NEW s \in DOMAIN slots, NEW student \in Students,
               Desk!ChecksSlot(r, s, student)
        PROVE  IInv'
    <2> DEFINE q == [doing |-> "books", slot |-> s, student |-> student]
    <2>1. q \in RequestRows /\ q.doing = "books" /\ q.slot = s
      BY Rows DEF IInv, RequestRows, Desk!OfficeHoursAssumption
    <2>2. Finding(q)
      BY SameCardinality, <1>3 DEF Desk!ChecksSlot, Finding, StillRoom
    <2>3. Desk!Begins(r, q) /\ UNCHANGED <<slots, bookings, now>> /\ Desk!SlotIsFree(s)
      BY <1>3 DEF Desk!ChecksSlot
    <2> HIDE DEF q
    <2> QED BY <2>1, <2>2, <2>3, BeginStep
  <1>4. ASSUME NEW r \in Requests, Desk!Books(r) PROVE IInv'
    BY <1>4, BooksStep
  <1>5. ASSUME NEW r \in Requests, NEW s \in DOMAIN slots, Desk!TakesSlot(r, s) PROVE IInv'
    <2> PICK q : q = [doing |-> "closes", slot |-> s, booked |-> Desk!Booked(s)]
      OBVIOUS
    <2>1. q \in RequestRows /\ q.doing = "closes" /\ q.slot = s
      <3>1. s \in Nat /\ Desk!Booked(s) \subseteq Nat
        BY Rows DEF IInv, Desk!Booked, Desk!OfficeHoursAssumption
      <3> QED BY <3>1 DEF RequestRows
    <2>2. Finding(q)
      BY DEF Finding, StillAll
    <2>3. Desk!Begins(r, q) /\ UNCHANGED <<slots, bookings, now>> /\ Desk!SlotIsFree(s)
      BY <1>5 DEF Desk!TakesSlot
    <2> QED BY <2>1, <2>2, <2>3, BeginStep
  <1>6. ASSUME NEW r \in Requests, Desk!ClosesSlot(r) PROVE IInv'
    BY <1>6, ClosesStep
  <1>7. ASSUME NEW r \in Requests, NEW b \in DOMAIN bookings, Desk!FindsBooking(r, b) PROVE IInv'
    <2> DEFINE q == [doing |-> "leaves", booking |-> b]
    <2>1. q \in RequestRows /\ q.doing = "leaves"
      BY Rows DEF IInv, RequestRows, Desk!OfficeHoursAssumption
    <2>2. Finding(q)
      BY DEF Finding
    <2>3. Desk!Begins(r, q) /\ UNCHANGED <<slots, bookings, now>>
      BY <1>7 DEF Desk!FindsBooking
    <2> HIDE DEF q
    <2> QED BY <2>1, <2>2, <2>3, BeginStep
  <1>8. ASSUME NEW r \in Requests, Desk!LeavesBooking(r) PROVE IInv'
    BY <1>8, LeavesStep
  <1>9. ASSUME UNCHANGED <<slots, bookings, hoursRequest>>, now' \in 0..LastHour PROVE IInv'
    <2>1. Desk!TypeOK' /\ (hoursRequest' \in [Requests -> RequestRows]) /\ LocksHold'
      BY <1>9 DEF IInv, Desk!TypeOK, LocksHold
    <2>2. BookingsHaveSlots' /\ Desk!TeachersSlotsApart' /\ Desk!BookingsFitTheSlot'
      BY <1>9 DEF IInv, BookingsHaveSlots, Desk!TeachersSlotsApart, Desk!BookingsFitTheSlot,
         Desk!OpenOf, Desk!Booked
    <2>3. FindingsHold'
      BY <1>9 DEF IInv, FindingsHold, Finding, StillFree, StillRoom, StillAll, Desk!OpenOf,
         Desk!Booked
    <2> QED BY <2>1, <2>2, <2>3 DEF IInv
  <1>10. CASE Desk!Tick
    BY <1>9, <1>10 DEF Desk!Tick, IInv, Desk!TypeOK, Desk!OfficeHoursAssumption
  <1>11. CASE UNCHANGED Desk!vars
    BY <1>9, <1>11 DEF Desk!vars, IInv, Desk!TypeOK
  <1> QED
    BY <1>1, <1>2, <1>3, <1>4, <1>5, <1>6, <1>7, <1>8, <1>10, <1>11 DEF Desk!Next

-----------------------------------------------------------------------------
\* No slot is overbooked or booked twice by one student, a cancelled slot keeps no booking,
\* and a teacher's open slots never overlap, though every request checks before it writes.
THEOREM HoursKeepTheirPromises ==
    ASSUME Desk!OfficeHoursAssumption PROVE Desk!Spec => []HoursSound
  <1>1. IInv => HoursSound
    BY DEF IInv, HoursSound, Desk!HoursSound
  <1> QED BY <1>1, IInvInit, IInvStep, PTL DEF Desk!Spec

-----------------------------------------------------------------------------
(* Presentations on their way to slides.                                    *)

Begun == {"converting", "uploaded", "failing"}
BegunWorkers == {p \in Workers : phase[p] \in Begun}
OneBegun == \A p, q \in BegunWorkers : p = q
TwoWorkers == \A p, q, r \in Workers : p = q \/ p = r \/ q = r

\* A file waits for a queued job or a worker that has just claimed one; while it is being
\* processed a worker is on it.
Waiting ==
    /\ conversion = "pending" =>
          (\E k \in Slides!AttemptKeys : job[k] = "queued") \/ (\E p \in Workers : phase[p] = "claimed")
    /\ conversion = "processing" => BegunWorkers # {}
    /\ conversion = "failed" => OneBegun
    /\ conversion = "absent" => \A k \in Slides!AttemptKeys : job[k] = "absent"
    /\ \A p \in Workers : phase[p] # "idle" => conversion # "absent"

\* The job of the key that the next retry asks for: whoever took it up has not begun, or
\* has found the file ready and nobody left who could fail it.
NextKey ==
    /\ OneBegun
    /\ conversion = "ready" => BegunWorkers = {}
    /\ job[Slides!RetryKey] # "queued" =>
          conversion = "ready" \/ \E p \in Workers : phase[p] = "claimed" /\ at[p] = Slides!RetryKey

Charges ==
    /\ \A k \in Slides!AttemptKeys : job[k] \in {"absent", "queued"} => charged[k] < MaxAttempts
    /\ \A k \in Slides!AttemptKeys : k > tries + 1 => job[k] = "absent"

SlidesIInv == Slides!TypeOK /\ Charges /\ Waiting /\ (job[Slides!RetryKey] # "absent" => NextKey)

LEMMA Keys ==
    ASSUME Slides!ConversionAssumption, Slides!TypeOK
    PROVE  /\ tries \in Slides!AttemptKeys /\ Slides!RetryKey \in Slides!AttemptKeys /\ Slides!RetryKey # NoKey
           /\ tries \in Nat /\ Slides!RetryKey = tries + 1 /\ Slides!AttemptKeys \subseteq Nat
  BY DEF Slides!ConversionAssumption, Slides!TypeOK, Slides!AttemptKeys, Slides!RetryKey

LEMMA UploadKeeps ==
    ASSUME Slides!ConversionAssumption, SlidesIInv, Slides!Upload
    PROVE  SlidesIInv'
  <1>1. /\ tries \in Slides!AttemptKeys /\ tries \in Nat /\ job \in [Slides!AttemptKeys -> Slides!JobStates]
        /\ Slides!RetryKey = tries + 1 /\ Slides!AttemptKeys \subseteq Nat /\ Slides!RetryKey \in Slides!AttemptKeys
    BY Keys DEF SlidesIInv, Slides!TypeOK
  <1>2. \A k \in Slides!AttemptKeys : job[k] = "absent"
    BY DEF SlidesIInv, Waiting, Slides!Upload
  <1>3. /\ job' = [job EXCEPT ![tries] = "queued"] /\ conversion' = "pending" /\ drafted' = TRUE
        /\ UNCHANGED <<tries, slides, published, charged, owner, phase, at, crashes>>
    BY <1>1, <1>2 DEF Slides!Upload, Slides!Enqueued, Slides!workVars
  <1>4. /\ job' \in [Slides!AttemptKeys -> Slides!JobStates] /\ job'[tries] = "queued"
        /\ \A k \in Slides!AttemptKeys : k # tries => job'[k] = "absent"
    BY <1>1, <1>2, <1>3 DEF Slides!JobStates
  <1>5. Slides!TypeOK'
    BY <1>3, <1>4 DEF SlidesIInv, Slides!TypeOK, Slides!Conversions
  <1>6. Charges'
    BY <1>1, <1>2, <1>3, <1>4 DEF SlidesIInv, Charges
  <1>7. Waiting'
    BY <1>1, <1>3, <1>4 DEF Waiting
  <1>8. job'[Slides!RetryKey'] = "absent"
    BY <1>1, <1>3, <1>4 DEF Slides!RetryKey
  <1> QED BY <1>5, <1>6, <1>7, <1>8 DEF SlidesIInv

LEMMA RetryKeeps ==
    ASSUME Slides!ConversionAssumption, SlidesIInv, Slides!Retry
    PROVE  SlidesIInv'
  <1>1. /\ tries \in Nat /\ job \in [Slides!AttemptKeys -> Slides!JobStates]
        /\ Slides!RetryKey = tries + 1 /\ Slides!AttemptKeys \subseteq Nat /\ Slides!RetryKey \in Slides!AttemptKeys
    BY Keys DEF SlidesIInv, Slides!TypeOK
  <1>2. /\ conversion = "failed" /\ conversion' = "pending"
        /\ UNCHANGED <<tries, slides, drafted, published, charged, owner, phase, at, crashes>>
        /\ Slides!RetryKey' = Slides!RetryKey
    BY DEF Slides!Retry, Slides!workVars, Slides!placeVars, Slides!RetryKey
  <1>3. /\ job' \in [Slides!AttemptKeys -> Slides!JobStates]
        /\ \A k \in Slides!AttemptKeys : k # Slides!RetryKey => job'[k] = job[k]
        /\ job[Slides!RetryKey] = "absent" => job'[Slides!RetryKey] = "queued"
        /\ job[Slides!RetryKey] # "absent" => job'[Slides!RetryKey] = job[Slides!RetryKey]
    BY <1>1 DEF Slides!Retry, Slides!Enqueued, Slides!JobStates
  <1>4. Slides!TypeOK'
    BY <1>2, <1>3 DEF SlidesIInv, Slides!TypeOK, Slides!Conversions
  <1>5. Charges'
    BY <1>1, <1>2, <1>3 DEF SlidesIInv, Charges
  <1>6. BegunWorkers' = BegunWorkers /\ OneBegun'
    BY <1>2 DEF SlidesIInv, Waiting, OneBegun, BegunWorkers
  <1>7. job'[Slides!RetryKey] = "queued" \/ \E p \in Workers : phase[p] = "claimed" /\ at[p] = Slides!RetryKey
    BY <1>2, <1>3 DEF SlidesIInv, NextKey
  <1>8. Waiting'
    BY <1>1, <1>2, <1>7 DEF SlidesIInv, Waiting
  <1>9. NextKey'
    BY <1>2, <1>6, <1>7 DEF NextKey
  <1> QED BY <1>4, <1>5, <1>8, <1>9 DEF SlidesIInv

LEMMA PlacesKeep ==
    ASSUME SlidesIInv, Slides!Publish \/ Slides!StartDraft \/ Slides!Detach \/ UNCHANGED Slides!vars
    PROVE  SlidesIInv'
  <1>1. /\ UNCHANGED <<conversion, tries, slides, job, charged, owner, phase, at, crashes>>
        /\ drafted' \in BOOLEAN /\ published' \in BOOLEAN
    BY DEF Slides!Publish, Slides!StartDraft, Slides!Detach, Slides!vars, Slides!fileVars,
       Slides!queueVars, Slides!workVars, Slides!placeVars, SlidesIInv, Slides!TypeOK
  <1>2. UNCHANGED <<BegunWorkers, Slides!RetryKey>>
    BY <1>1 DEF BegunWorkers, Slides!RetryKey
  <1>3. Slides!TypeOK'
    BY <1>1 DEF SlidesIInv, Slides!TypeOK
  <1>4. Charges' /\ Waiting'
    BY <1>1, <1>2 DEF SlidesIInv, Charges, Waiting, OneBegun
  <1>5. job[Slides!RetryKey] # "absent" => NextKey'
    BY <1>1, <1>2 DEF SlidesIInv, NextKey, OneBegun
  <1> QED BY <1>1, <1>2, <1>3, <1>4, <1>5 DEF SlidesIInv

LEMMA ClaimKeeps ==
    ASSUME Slides!ConversionAssumption, SlidesIInv, NEW p \in Workers, NEW k \in Slides!AttemptKeys, Slides!Claim(p, k)
    PROVE  SlidesIInv'
  <1>1. /\ job \in [Slides!AttemptKeys -> Slides!JobStates] /\ charged \in [Slides!AttemptKeys -> 0..MaxAttempts]
        /\ owner \in [Slides!AttemptKeys -> Workers \cup {NoKey}]
        /\ phase \in [Workers -> Slides!Phases] /\ at \in [Workers -> Slides!AttemptKeys \cup {NoKey}]
        /\ Slides!RetryKey \in Slides!AttemptKeys /\ k # NoKey
    BY Keys DEF SlidesIInv, Slides!TypeOK, Slides!ConversionAssumption
  <1>2. /\ phase[p] = "idle" /\ job[k] = "queued" /\ charged[k] < MaxAttempts
        /\ UNCHANGED <<conversion, tries, slides, drafted, published, crashes>>
    BY DEF Slides!Claim, SlidesIInv, Charges, Slides!fileVars, Slides!placeVars
  <1>3. /\ job' \in [Slides!AttemptKeys -> Slides!JobStates] /\ job'[k] = "running"
        /\ \A j \in Slides!AttemptKeys : j # k => job'[j] = job[j]
    BY <1>1 DEF Slides!Claim, Slides!JobStates
  <1>4. charged[k] + 1 \in 0..MaxAttempts
    BY <1>1, <1>2 DEF Slides!ConversionAssumption
  <1>5. /\ charged' \in [Slides!AttemptKeys -> 0..MaxAttempts]
        /\ \A j \in Slides!AttemptKeys : j # k => charged'[j] = charged[j]
    BY <1>1, <1>4 DEF Slides!Claim
  <1>6. owner' \in [Slides!AttemptKeys -> Workers \cup {NoKey}]
    BY <1>1 DEF Slides!Claim
  <1>7. /\ phase' \in [Workers -> Slides!Phases] /\ at' \in [Workers -> Slides!AttemptKeys \cup {NoKey}]
        /\ phase'[p] = "claimed" /\ at'[p] = k
        /\ \A q \in Workers : q # p => phase'[q] = phase[q] /\ at'[q] = at[q]
    BY <1>1 DEF Slides!Claim, Slides!Phases
  <1>8. Slides!TypeOK'
    BY <1>1, <1>2, <1>3, <1>5, <1>6, <1>7 DEF SlidesIInv, Slides!TypeOK
  <1>9. Charges'
    BY <1>2, <1>3, <1>5 DEF SlidesIInv, Charges
  <1>10. BegunWorkers' = BegunWorkers /\ Slides!RetryKey' = Slides!RetryKey
    BY <1>2, <1>7 DEF BegunWorkers, Begun, Slides!RetryKey
  <1>11. Waiting'
    BY <1>2, <1>3, <1>7, <1>10 DEF SlidesIInv, Waiting, OneBegun
  <1>12. job'[Slides!RetryKey] # "absent" => NextKey'
    BY <1>1, <1>2, <1>3, <1>7, <1>10 DEF SlidesIInv, NextKey, OneBegun
  <1> QED BY <1>8, <1>9, <1>10, <1>11, <1>12 DEF SlidesIInv

\* The end of a job takes nobody from the file.
LEMMA ExpireKeeps ==
    ASSUME Slides!ConversionAssumption, SlidesIInv, NEW k \in Slides!AttemptKeys, Slides!Expire(k)
    PROVE  SlidesIInv'
  <1>1. /\ job \in [Slides!AttemptKeys -> Slides!JobStates] /\ owner \in [Slides!AttemptKeys -> Workers \cup {NoKey}]
        /\ charged \in [Slides!AttemptKeys -> 0..MaxAttempts] /\ Slides!RetryKey \in Slides!AttemptKeys
    BY Keys DEF SlidesIInv, Slides!TypeOK
  <1>2. /\ job[k] = "running" /\ Slides!PutBack(k) \in {"queued", "dead"}
        /\ (Slides!PutBack(k) = "queued" => ~ charged[k] >= MaxAttempts)
        /\ UNCHANGED <<conversion, tries, slides, drafted, published, charged, phase, at, crashes>>
    BY DEF Slides!Expire, Slides!PutBack, Slides!fileVars, Slides!placeVars, Slides!workVars
  <1>3. /\ job' \in [Slides!AttemptKeys -> Slides!JobStates] /\ job'[k] = Slides!PutBack(k)
        /\ \A j \in Slides!AttemptKeys : j # k => job'[j] = job[j]
    BY <1>1, <1>2 DEF Slides!Expire, Slides!JobStates
  <1>4. owner' \in [Slides!AttemptKeys -> Workers \cup {NoKey}]
    BY <1>1 DEF Slides!Expire
  <1>5. Slides!TypeOK'
    BY <1>2, <1>3, <1>4 DEF SlidesIInv, Slides!TypeOK
  <1>6. charged[k] \in Nat /\ MaxAttempts \in Nat
    BY <1>1 DEF Slides!ConversionAssumption
  <1>7. Charges'
    BY <1>2, <1>3, <1>6 DEF SlidesIInv, Charges
  <1>8. BegunWorkers' = BegunWorkers /\ Slides!RetryKey' = Slides!RetryKey
    BY <1>2 DEF BegunWorkers, Slides!RetryKey
  <1>9. Waiting'
    BY <1>2, <1>3, <1>8 DEF SlidesIInv, Waiting, OneBegun
  <1>10. job'[Slides!RetryKey] # "absent" => NextKey'
    BY <1>1, <1>2, <1>3, <1>8 DEF SlidesIInv, NextKey, OneBegun
  <1> QED BY <1>5, <1>7, <1>8, <1>9, <1>10 DEF SlidesIInv

LEMMA SettleKeeps ==
    ASSUME Slides!ConversionAssumption, SlidesIInv, NEW p \in Workers, Slides!Settle(p)
    PROVE  SlidesIInv'
  <1>1. PICK k \in Slides!AttemptKeys : k = at[p]
    BY DEF SlidesIInv, Slides!TypeOK, Slides!Settle
  <1>2. /\ job \in [Slides!AttemptKeys -> Slides!JobStates] /\ owner \in [Slides!AttemptKeys -> Workers \cup {NoKey}]
        /\ charged \in [Slides!AttemptKeys -> 0..MaxAttempts] /\ Slides!RetryKey \in Slides!AttemptKeys
        /\ phase \in [Workers -> Slides!Phases] /\ at \in [Workers -> Slides!AttemptKeys \cup {NoKey}]
    BY Keys DEF SlidesIInv, Slides!TypeOK
  <1>3. /\ phase[p] \in {"done", "raised"} /\ Slides!PutBack(k) \in {"queued", "dead"}
        /\ (Slides!PutBack(k) = "queued" => ~ charged[k] >= MaxAttempts)
        /\ UNCHANGED <<conversion, tries, slides, drafted, published, charged, crashes>>
    BY DEF Slides!Settle, Slides!PutBack, Slides!fileVars, Slides!placeVars
  <1>4. /\ job' \in [Slides!AttemptKeys -> Slides!JobStates]
        /\ \A j \in Slides!AttemptKeys : j # k => job'[j] = job[j]
        /\ \/ job'[k] = job[k]
           \/ job[k] = "running" /\ job'[k] \in {"completed", Slides!PutBack(k)}
    BY <1>1, <1>2, <1>3 DEF Slides!Settle, Slides!JobStates
  <1>5. owner' \in [Slides!AttemptKeys -> Workers \cup {NoKey}]
    BY <1>1, <1>2 DEF Slides!Settle
  <1>6. /\ phase' \in [Workers -> Slides!Phases] /\ at' \in [Workers -> Slides!AttemptKeys \cup {NoKey}]
        /\ phase'[p] = "idle" /\ at'[p] = NoKey
        /\ \A q \in Workers : q # p => phase'[q] = phase[q] /\ at'[q] = at[q]
    BY <1>2 DEF Slides!Settle, Slides!Phases
  <1>7. Slides!TypeOK'
    BY <1>3, <1>4, <1>5, <1>6 DEF SlidesIInv, Slides!TypeOK
  <1>8. charged[k] \in Nat /\ MaxAttempts \in Nat
    BY <1>2 DEF Slides!ConversionAssumption
  <1>9. Charges'
    BY <1>3, <1>4, <1>8 DEF SlidesIInv, Charges
  <1>10. BegunWorkers' = BegunWorkers /\ Slides!RetryKey' = Slides!RetryKey
    BY <1>3, <1>6 DEF BegunWorkers, Begun, Slides!RetryKey
  <1>11. /\ \A j \in Slides!AttemptKeys : job[j] = "queued" => job'[j] = "queued"
         /\ \A j \in Slides!AttemptKeys : job[j] = "absent" <=> job'[j] = "absent"
    BY <1>3, <1>4
  <1>12. \A q \in Workers : phase[q] = "claimed" => phase'[q] = "claimed" /\ at'[q] = at[q]
    BY <1>3, <1>6
  <1>13. \A q \in Workers : phase'[q] # "idle" => phase[q] # "idle"
    BY <1>6
  <1>14. Waiting'
    BY <1>3, <1>10, <1>11, <1>12, <1>13 DEF SlidesIInv, Waiting, OneBegun
  <1>15. job'[Slides!RetryKey] # "absent" => NextKey'
    BY <1>2, <1>3, <1>10, <1>11, <1>12 DEF SlidesIInv, NextKey, OneBegun
  <1> QED BY <1>7, <1>9, <1>10, <1>14, <1>15 DEF SlidesIInv

\* A worker begins: a file that it takes up starts a new key, which nobody has asked for.
LEMMA BeginKeeps ==
    ASSUME Slides!ConversionAssumption, SlidesIInv, NEW p \in Workers, Slides!Begin(p)
    PROVE  SlidesIInv'
  <1>1. /\ phase \in [Workers -> Slides!Phases] /\ phase[p] = "claimed" /\ conversion \in Slides!Conversions
        /\ tries \in 0..MaxTries /\ MaxTries \in Nat
        /\ UNCHANGED <<slides, drafted, published, job, charged, owner, at, crashes>>
    BY DEF SlidesIInv, Slides!TypeOK, Slides!Begin, Slides!placeVars, Slides!queueVars,
       Slides!ConversionAssumption
  <1>2. CASE conversion \in Slides!Convertible
    <2>1. /\ tries < MaxTries /\ conversion' = "processing" /\ tries' = tries + 1
          /\ phase' = [phase EXCEPT ![p] = "converting"]
      BY <1>2 DEF Slides!Begin
    <2>2. tries' \in 0..MaxTries
      BY <1>1, <2>1
    <2>3. /\ phase' \in [Workers -> Slides!Phases] /\ phase'[p] = "converting"
          /\ \A q \in Workers : q # p => phase'[q] = phase[q]
      BY <1>1, <2>1 DEF Slides!Phases
    <2>4. Slides!TypeOK'
      BY <1>1, <2>1, <2>2, <2>3 DEF SlidesIInv, Slides!TypeOK, Slides!Conversions
    <2>5. Slides!AttemptKeys \subseteq Nat /\ tries + 2 \in Slides!AttemptKeys /\ Slides!RetryKey' = tries + 2
      BY <1>1, <2>1 DEF Slides!AttemptKeys, Slides!RetryKey
    <2>6. Charges'
      BY <1>1, <2>1, <2>5 DEF SlidesIInv, Charges
    <2>7. Waiting'
      BY <2>1, <2>3 DEF Waiting, BegunWorkers, Begun
    <2>8. job'[Slides!RetryKey'] = "absent"
      BY <1>1, <2>5 DEF SlidesIInv, Charges
    <2> QED BY <2>4, <2>6, <2>7, <2>8 DEF SlidesIInv
  <1>3. CASE conversion \notin Slides!Convertible
    <2>1. /\ UNCHANGED <<conversion, tries>> /\ phase' = [phase EXCEPT ![p] = "done"]
      BY <1>3 DEF Slides!Begin
    <2>2. conversion = "ready"
      BY <1>1, <1>3 DEF SlidesIInv, Waiting, Slides!Conversions, Slides!Convertible
    <2>3. /\ phase' \in [Workers -> Slides!Phases] /\ phase'[p] = "done"
          /\ \A q \in Workers : q # p => phase'[q] = phase[q]
      BY <1>1, <2>1 DEF Slides!Phases
    <2>4. Slides!TypeOK'
      BY <1>1, <2>1, <2>3 DEF SlidesIInv, Slides!TypeOK
    <2>5. BegunWorkers' = BegunWorkers /\ Slides!RetryKey' = Slides!RetryKey
      BY <1>1, <2>1, <2>3 DEF BegunWorkers, Begun, Slides!RetryKey
    <2>6. Charges' /\ Waiting'
      BY <1>1, <2>1, <2>2 DEF SlidesIInv, Charges, Waiting
    <2>7. job[Slides!RetryKey] # "absent" => NextKey'
      BY <2>1, <2>2, <2>5 DEF SlidesIInv, NextKey, OneBegun
    <2> QED BY <1>1, <2>4, <2>5, <2>6, <2>7 DEF SlidesIInv
  <1> QED BY <1>2, <1>3

LEMMA WorkKeeps ==
    ASSUME SlidesIInv, NEW p \in Workers, Slides!Convert(p) \/ Slides!Break(p)
    PROVE  SlidesIInv'
  <1>1. PICK s \in Begun : phase' = [phase EXCEPT ![p] = s]
    BY DEF Slides!Convert, Slides!Break, Begun
  <1>2. /\ phase \in [Workers -> Slides!Phases] /\ phase[p] \in Begun
        /\ UNCHANGED <<conversion, tries, slides, drafted, published, job, charged, owner, at, crashes>>
    BY DEF Slides!Convert, Slides!Break, Begun, SlidesIInv, Slides!TypeOK, Slides!fileVars,
       Slides!placeVars, Slides!queueVars
  <1>3. /\ phase' \in [Workers -> Slides!Phases] /\ phase'[p] \in Begun
        /\ \A q \in Workers : q # p => phase'[q] = phase[q]
    BY <1>1, <1>2 DEF Slides!Phases, Begun
  <1>4. Slides!TypeOK'
    BY <1>2, <1>3 DEF SlidesIInv, Slides!TypeOK, Begun
  <1>5. BegunWorkers' = BegunWorkers /\ Slides!RetryKey' = Slides!RetryKey
    BY <1>2, <1>3 DEF BegunWorkers, Slides!RetryKey
  <1>6. \A q \in Workers : (phase[q] = "claimed" <=> phase'[q] = "claimed") /\ (phase[q] = "idle" <=> phase'[q] = "idle")
    BY <1>2, <1>3 DEF Begun
  <1>7. Charges' /\ Waiting'
    BY <1>2, <1>5, <1>6 DEF SlidesIInv, Charges, Waiting, OneBegun
  <1>8. job[Slides!RetryKey] # "absent" => NextKey'
    BY <1>2, <1>5, <1>6 DEF SlidesIInv, NextKey, OneBegun
  <1> QED BY <1>2, <1>4, <1>5, <1>7, <1>8 DEF SlidesIInv

\* The outcome of a conversion: of two workers at most one is left to bring another.
LEMMA OutcomeKeeps ==
    ASSUME TwoWorkers, SlidesIInv, NEW p \in Workers, Slides!Store(p) \/ Slides!MarkFailed(p)
    PROVE  SlidesIInv'
  <1>1. PICK s \in {"done", "raised"} :
            /\ phase' = [phase EXCEPT ![p] = s] /\ conversion' = (IF s = "done" THEN "ready" ELSE "failed")
            /\ slides' \in BOOLEAN
    BY DEF Slides!Store, Slides!MarkFailed, SlidesIInv, Slides!TypeOK
  <1>2. /\ phase \in [Workers -> Slides!Phases] /\ p \in BegunWorkers
        /\ UNCHANGED <<tries, drafted, published, job, charged, owner, at, crashes>>
        /\ Slides!RetryKey' = Slides!RetryKey
    BY DEF Slides!Store, Slides!MarkFailed, BegunWorkers, Begun, SlidesIInv, Slides!TypeOK,
       Slides!placeVars, Slides!queueVars, Slides!RetryKey
  <1>3. /\ phase' \in [Workers -> Slides!Phases] /\ phase'[p] \in {"done", "raised"}
        /\ \A q \in Workers : q # p => phase'[q] = phase[q]
    BY <1>1, <1>2 DEF Slides!Phases
  <1>4. Slides!TypeOK'
    BY <1>1, <1>2, <1>3 DEF SlidesIInv, Slides!TypeOK, Slides!Conversions, BegunWorkers, Begun
  <1>5. BegunWorkers' = BegunWorkers \ {p}
    BY <1>3 DEF BegunWorkers, Begun
  <1>6. OneBegun'
    <2>1. \A q, r \in BegunWorkers' : q = r
      BY <1>5 DEF TwoWorkers, BegunWorkers
    <2> QED BY <2>1 DEF OneBegun
  <1>7. \A q \in Workers : phase[q] = "claimed" => phase'[q] = "claimed"
    BY <1>2, <1>3 DEF BegunWorkers, Begun
  <1>8. /\ Charges'
        /\ Waiting'
    <2>1. conversion # "absent" /\ conversion' \in {"ready", "failed"}
      BY <1>1, <1>2 DEF SlidesIInv, Waiting, BegunWorkers, Begun
    <2> QED BY <1>2, <1>6, <2>1 DEF SlidesIInv, Charges, Waiting
  <1>9. ASSUME job[Slides!RetryKey] # "absent" PROVE NextKey'
    <2>1. NextKey /\ conversion # "ready" /\ BegunWorkers' = {}
      BY <1>2, <1>5, <1>9 DEF SlidesIInv, NextKey, OneBegun
    <2> QED BY <1>2, <1>6, <1>7, <2>1 DEF NextKey
  <1> QED BY <1>2, <1>4, <1>8, <1>9 DEF SlidesIInv

\* While at most two workers serve conversions and none of them dies in one, a file that
\* waits for its slides is never left without a job or a worker, however leases run out.
THEOREM WaitingFilesAreQueued ==
    ASSUME Slides!ConversionAssumption, TwoWorkers, MaxCrashes = 0
    PROVE  Slides!Spec => [](Slides!TypeOK /\ Slides!UnsettledIsQueued)
  <1>1. Slides!Init => SlidesIInv
    <2> SUFFICES ASSUME Slides!Init PROVE SlidesIInv
      OBVIOUS
    <2>1. Slides!TypeOK
      <3>1. 0 \in 0..MaxTries /\ 0 \in 0..MaxAttempts /\ 0 \in 0..MaxCrashes
        BY DEF Slides!ConversionAssumption
      <3>2. "absent" \in Slides!Conversions /\ "absent" \in Slides!JobStates /\ "idle" \in Slides!Phases
        BY DEF Slides!Conversions, Slides!JobStates, Slides!Phases
      <3> QED BY <3>1, <3>2 DEF Slides!Init, Slides!TypeOK
    <2>2. Slides!RetryKey \in Slides!AttemptKeys
      BY <2>1, Keys
    <2>3. Charges /\ Waiting /\ job[Slides!RetryKey] = "absent"
      BY <2>2 DEF Slides!Init, Charges, Waiting, Slides!ConversionAssumption
    <2> QED BY <2>1, <2>3 DEF SlidesIInv
  <1>2. SlidesIInv /\ [Slides!Next]_(Slides!vars) => SlidesIInv'
    <2>1. ASSUME SlidesIInv, NEW p \in Workers PROVE ~ Slides!Crash(p)
      BY <2>1 DEF Slides!Crash, SlidesIInv, Slides!TypeOK
    <2>2. ASSUME SlidesIInv, Slides!Director PROVE SlidesIInv'
      BY <2>2, UploadKeeps, RetryKeeps, PlacesKeep DEF Slides!Director
    <2>3. ASSUME SlidesIInv, NEW p \in Workers, Slides!Works(p) PROVE SlidesIInv'
      BY <2>3, ClaimKeeps, BeginKeeps, WorkKeeps, OutcomeKeeps, SettleKeeps DEF Slides!Works
    <2> QED BY <2>1, <2>2, <2>3, ExpireKeeps, PlacesKeep DEF Slides!Next
  <1>3. SlidesIInv => Slides!TypeOK /\ Slides!UnsettledIsQueued
    BY DEF SlidesIInv, Waiting, Slides!UnsettledIsQueued, BegunWorkers, Begun
  <1> QED BY <1>1, <1>2, <1>3, PTL DEF Slides!Spec

-----------------------------------------------------------------------------
(* Lesson drafts.                                                           *)

Doings == {"nothing"} \cup Drafts!OnLesson \cup Drafts!OnDraft \cup Drafts!OnList
OfOneLesson == Drafts!OnLesson \cup Drafts!OnDraft \cup {"start", "create", "draft"}
DraftsRequestRows ==
    [doing : Doings, lesson : Drafted \cup {None}, stage : 0..4, shows : SUBSET Materials,
     material : SUBSET Materials, list : SUBSET Drafted]

\* A draft that was started from the lesson as it is has missed no change of its text.
LessonsInv ==
    /\ status \in [Drafted -> {"absent", "draft", "active", "archived"}]
    /\ written \in [Drafted -> BOOLEAN] /\ drafting \in [Drafted -> BOOLEAN]
    /\ based \in [Drafted -> BOOLEAN] /\ rewritten \in [Drafted -> BOOLEAN]
    /\ placed \in [Drafted -> SUBSET Materials] /\ known \in [Drafted -> SUBSET Materials]
    /\ staged \in [Drafted -> SUBSET Materials]
    /\ \A l \in Drafted :
        /\ status[l] = "draft" => drafting[l] /\ ~written[l]
        /\ drafting[l] => status[l] # "absent"
        /\ status[l] = "absent" => ~written[l]
        /\ rewritten[l] => ~based[l]

\* Who missed a change of the text has a request under way whose version is outdated.
PagesInv ==
    /\ request \in [Directors -> DraftsRequestRows]
    /\ \A d \in Directors : request[d].doing \in OfOneLesson => request[d].lesson \in Drafted
    /\ fresh \subseteq Directors /\ missed \subseteq Directors
    /\ \A d \in missed : d \notin fresh /\ request[d].doing # "nothing"
    /\ locks \in [Drafts!Rows -> Directors \cup {None}]
DraftsIInv == LessonsInv /\ PagesInv

LEMMA IdleRow == Drafts!Idle \in DraftsRequestRows /\ Drafts!Idle.doing = "nothing"
  BY DEF Drafts!Idle, DraftsRequestRows, Doings

\* A request that ends leaves the pages of the others as they were, or outdated.
LEMMA EndKeeps ==
    ASSUME PagesInv, NEW d \in Directors, Drafts!Ends(d), fresh' \subseteq fresh \ {d},
           \A e \in missed' : /\ e \in Directors /\ e # d /\ e \notin fresh'
                              /\ request[e].doing # "nothing"
    PROVE  PagesInv'
  <1>1. /\ request' \in [Directors -> DraftsRequestRows] /\ request'[d] = Drafts!Idle
        /\ \A e \in Directors : e # d => request'[e] = request[e]
    BY IdleRow DEF Drafts!Ends, PagesInv
  <1>2. locks' \in [Drafts!Rows -> Directors \cup {None}]
    BY DEF Drafts!Ends, PagesInv
  <1>3. \A e \in Directors : request'[e].doing \in OfOneLesson => request'[e].lesson \in Drafted
    BY <1>1, IdleRow DEF PagesInv, OfOneLesson, Drafts!OnLesson, Drafts!OnDraft
  <1> QED BY <1>1, <1>2, <1>3 DEF PagesInv

LEMMA RefusalKeeps ==
    ASSUME DraftsIInv, NEW d \in Directors, Drafts!Refuse(d)
    PROVE  DraftsIInv'
  <1>1. PagesInv'
    BY EndKeeps DEF DraftsIInv, Drafts!Refuse, PagesInv
  <1>2. LessonsInv'
    BY DEF Drafts!Refuse, Drafts!lessonVars, DraftsIInv, LessonsInv
  <1> QED BY <1>1, <1>2 DEF DraftsIInv

LEMMA KeptPages ==
    ASSUME PagesInv, NEW d \in Directors, Drafts!Ends(d), Drafts!Keep(d),
           NEW ls, NEW ds, NEW all \in BOOLEAN, Drafts!Bump(d, ls, ds, all)
    PROVE  PagesInv'
  BY EndKeeps DEF Drafts!Keep, Drafts!Bump, PagesInv

LEMMA ReplacedPages ==
    ASSUME PagesInv, NEW d \in Directors, NEW l, Drafts!Ends(d),
           \/ Drafts!Bump(d, {}, {l}, FALSE) /\ Drafts!Replace(d, {"save", "publish"}, l)
           \/ Drafts!Bump(d, {l}, {l}, TRUE) /\ Drafts!Replace(d, {"edit", "save", "publish"}, l)
           \/ Drafts!Bump(d, {l}, {}, TRUE) /\ Drafts!Replace(d, {"edit"}, l)
    PROVE  PagesInv'
  <1>1. fresh' \subseteq fresh \ {d}
    BY DEF Drafts!Bump
  <1>2. ASSUME NEW e \in missed'
        PROVE  /\ e \in Directors /\ e # d /\ e \notin fresh' /\ request[e].doing # "nothing"
    <2>1. CASE e \in missed \ {d}
      BY <1>1, <2>1 DEF PagesInv
    <2>2. CASE e \notin missed \ {d}
      BY <2>2 DEF Drafts!Bump, Drafts!Replace, Drafts!Expects, Drafts!OnLesson
    <2> QED BY <2>1, <2>2
  <1> QED BY <1>1, <1>2, EndKeeps

\* A director sends a command.
LEMMA SendKeeps ==
    ASSUME DraftsIInv, NEW d \in Directors, Drafts!Send(d)
    PROVE  DraftsIInv'
  <1>1. PICK doing \in Doings, l \in Drafted \cup {None}, material \in SUBSET Materials :
            Drafts!Sends(d, doing, l, material) /\ (doing \in OfOneLesson => l \in Drafted)
    <2>1. CASE \E m \in Drafted :
                \/ \E doing \in {"edit", "archive", "start"} : Drafts!Sends(d, doing, m, {})
                \/ Drafts!Sends(d, "restore", m, {})
                \/ \E doing \in {"save", "publish", "abandon"} : Drafts!Sends(d, doing, m, {})
                \/ \E doing \in {"create", "draft"} : Drafts!Sends(d, doing, m, {})
      BY <2>1 DEF Doings, Drafts!OnLesson, Drafts!OnDraft, Drafts!OnList
    <2>2. CASE \E m \in Drafted, x \in Materials :
                Drafts!Sends(d, "add", m, {x}) \/ Drafts!Sends(d, "attach", m, {x}) \/ Drafts!Sends(d, "detach", m, {x})
      BY <2>2 DEF Doings, Drafts!OnLesson, Drafts!OnDraft, Drafts!OnList
    <2>3. CASE Drafts!Sends(d, "reorder", None, {})
      BY <2>3 DEF Doings, Drafts!OnList, OfOneLesson, Drafts!OnLesson, Drafts!OnDraft
    <2> QED BY <2>1, <2>2, <2>3 DEF Drafts!Send
  <1> DEFINE row == [doing |-> doing, lesson |-> l, stage |-> 0, material |-> material,
                     shows |-> IF doing \in Drafts!OnDraft THEN staged[l] ELSE {},
                     list |-> IF doing = "reorder" THEN Drafts!Active ELSE {}]
  <1>2. /\ request[d] = Drafts!Idle /\ request' = [request EXCEPT ![d] = row]
        /\ fresh' = fresh \cup {d} /\ UNCHANGED <<Drafts!lessonVars, missed, locks>>
    BY <1>1 DEF Drafts!Sends
  <1>3. row.shows \in SUBSET Materials /\ row.list \in SUBSET Drafted
    BY <1>1 DEF DraftsIInv, LessonsInv, Drafts!Active, OfOneLesson
  <1>4. row \in DraftsRequestRows /\ row.doing = doing /\ row.lesson = l
    BY <1>1, <1>3 DEF DraftsRequestRows
  <1> HIDE DEF row
  <1>5. /\ request' \in [Directors -> DraftsRequestRows] /\ request'[d] = row
        /\ \A e \in Directors : e # d => request'[e] = request[e]
    BY <1>2, <1>4 DEF DraftsIInv, PagesInv
  <1>6. d \notin missed
    BY <1>2, IdleRow DEF DraftsIInv, PagesInv
  <1>7. PagesInv'
    BY <1>1, <1>2, <1>4, <1>5, <1>6 DEF DraftsIInv, PagesInv
  <1>8. LessonsInv'
    BY <1>2 DEF Drafts!lessonVars, DraftsIInv, LessonsInv
  <1> QED BY <1>7, <1>8 DEF DraftsIInv

LEMMA LockKeeps ==
    ASSUME DraftsIInv, NEW d \in Directors, Drafts!Lock(d)
    PROVE  DraftsIInv'
  <1>1. request[d].stage \in 0..4 /\ request[d] \in DraftsRequestRows
    BY DEF DraftsIInv, PagesInv, DraftsRequestRows
  <1>2. request[d].stage + 1 \in 0..4
    <2>1. Len(Drafts!Order(d)) <= 3 /\ Len(Drafts!Order(d)) \in Nat
      BY DEF Drafts!Order
    <2> QED BY <1>1, <2>1 DEF Drafts!Lock, Drafts!Waits
  <1>3. PICK n \in 0..4 : request' = [request EXCEPT ![d] = [request[d] EXCEPT !.stage = n]]
    BY <1>2 DEF Drafts!Lock, DraftsIInv, PagesInv
  <1>4. PICK row : row = [request[d] EXCEPT !.stage = n]
    OBVIOUS
  <1>5. row \in DraftsRequestRows /\ row.doing = request[d].doing /\ row.lesson = request[d].lesson
    BY <1>1, <1>4 DEF DraftsRequestRows
  <1>6. /\ request' \in [Directors -> DraftsRequestRows] /\ request'[d] = row
        /\ \A e \in Directors : e # d => request'[e] = request[e]
    BY <1>3, <1>4, <1>5 DEF DraftsIInv, PagesInv
  <1>7. locks' \in [Drafts!Rows -> Directors \cup {None}] /\ UNCHANGED <<fresh, missed>>
    BY DEF Drafts!Lock, DraftsIInv, PagesInv
  <1>8. PagesInv'
    BY <1>5, <1>6, <1>7 DEF DraftsIInv, PagesInv
  <1>9. LessonsInv'
    BY DEF Drafts!Lock, Drafts!lessonVars, DraftsIInv, LessonsInv
  <1> QED BY <1>8, <1>9 DEF DraftsIInv

\* The commands, one by one.
LEMMA LessonCommandsKeep ==
    ASSUME DraftsIInv, NEW d \in Directors, Drafts!Create(d) \/ Drafts!Add(d) \/ Drafts!Edit(d) \/ Drafts!Archive(d) \/ Drafts!Reorder(d)
    PROVE  DraftsIInv'
  <1> DEFINE l == request[d].lesson
  <1>1. CASE Drafts!Refuse(d)
    BY <1>1, RefusalKeeps
  <1>2. l \in Drafted \/ Drafts!Reorder(d)
    BY DEF DraftsIInv, PagesInv, Drafts!Create, Drafts!Add, Drafts!Edit, Drafts!Archive,
       Drafts!Ready, OfOneLesson, Drafts!OnLesson
  <1>3. CASE Drafts!Create(d) /\ ~ Drafts!Refuse(d)
    <2>1. PagesInv'
      BY <1>3, KeptPages DEF Drafts!Create, DraftsIInv
    <2>2. LessonsInv'
      <3>1. l \in Drafted
        BY <1>2, <1>3 DEF Drafts!Create, Drafts!Reorder, Drafts!Ready
      <3>2. /\ status' = [status EXCEPT ![l] = "active"]
            /\ written' = [written EXCEPT ![l] = TRUE]
            /\ UNCHANGED <<drafting, based, rewritten, placed, known, staged>>
        BY <1>3 DEF Drafts!Create
      <3> HIDE DEF l
      <3> QED BY <3>1, <3>2 DEF DraftsIInv, LessonsInv
    <2> QED BY <2>1, <2>2 DEF DraftsIInv
  <1>4. CASE Drafts!Add(d) /\ ~ Drafts!Refuse(d)
    <2>1. PagesInv'
      BY <1>4, KeptPages DEF Drafts!Add, DraftsIInv
    <2>2. request[d].material \subseteq Materials
      BY DEF DraftsIInv, PagesInv, DraftsRequestRows
    <2>3. LessonsInv'
      <3>1. /\ l \in Drafted /\ placed' = [placed EXCEPT ![l] = @ \cup request[d].material]
            /\ UNCHANGED <<status, written, drafting, based, rewritten, known, staged>>
        BY <1>2, <1>4 DEF Drafts!Add, Drafts!Reorder, Drafts!Ready
      <3> HIDE DEF l
      <3>2. placed' \in [Drafted -> SUBSET Materials]
        BY <2>2, <3>1 DEF DraftsIInv, LessonsInv
      <3> QED BY <3>1, <3>2 DEF DraftsIInv, LessonsInv
    <2> QED BY <2>1, <2>3 DEF DraftsIInv
  <1>5. CASE Drafts!Edit(d) /\ ~ Drafts!Refuse(d)
    <2>1. PagesInv'
      BY <1>5, ReplacedPages DEF Drafts!Edit, DraftsIInv
    <2>2. LessonsInv'
      BY <1>2, <1>5 DEF Drafts!Edit, DraftsIInv, LessonsInv, Drafts!Reorder, Drafts!Ready
    <2> QED BY <2>1, <2>2 DEF DraftsIInv
  <1>6. CASE Drafts!Archive(d) /\ ~ Drafts!Refuse(d)
    <2>1. PagesInv'
      BY <1>6, KeptPages DEF Drafts!Archive, DraftsIInv
    <2>2. PICK from \in {"active", "archived"}, to \in {"active", "archived"} :
            /\ status[l] = from /\ status' = [status EXCEPT ![l] = to]
            /\ Drafts!Numbered(Drafts!Active \cup {l})
            /\ UNCHANGED <<written, drafting, rewritten, placed, known, staged>>
      BY <1>6 DEF Drafts!Archive
    <2>3. LessonsInv'
      BY <1>2, <2>2 DEF Drafts!Numbered, DraftsIInv, LessonsInv, Drafts!Reorder, Drafts!Ready
    <2> QED BY <2>1, <2>3 DEF DraftsIInv
  <1>7. CASE Drafts!Reorder(d) /\ ~ Drafts!Refuse(d)
    <2>1. PagesInv'
      BY <1>7, KeptPages DEF Drafts!Reorder, DraftsIInv
    <2>2. LessonsInv'
      <3>1. /\ \E ls : based' = [m \in Drafted |-> based[m] /\ m \notin ls]
            /\ UNCHANGED <<status, written, drafting, rewritten, placed, known, staged>>
        BY <1>7, Zenon DEF Drafts!Reorder, Drafts!Numbered
      <3>2. based' \in [Drafted -> BOOLEAN] /\ \A m \in Drafted : based'[m] => based[m]
        BY <3>1
      <3> QED BY <3>1, <3>2 DEF DraftsIInv, LessonsInv
    <2> QED BY <2>1, <2>2 DEF DraftsIInv
  <1> QED BY <1>1, <1>3, <1>4, <1>5, <1>6, <1>7

LEMMA DraftCommandsKeep ==
    ASSUME DraftsIInv, NEW d \in Directors,
           Drafts!NewDraft(d) \/ Drafts!Start(d) \/ Drafts!Save(d) \/ Drafts!Publish(d) \/
           Drafts!Abandon(d) \/ Drafts!Attach(d)
    PROVE  DraftsIInv'
  <1> DEFINE l == request[d].lesson
  <1>1. CASE Drafts!Refuse(d)
    BY <1>1, RefusalKeeps
  <1>2. l \in Drafted /\ request[d].shows \subseteq Materials /\ request[d].material \subseteq Materials
    BY DEF DraftsIInv, PagesInv, Drafts!NewDraft, Drafts!Start, Drafts!Save, Drafts!Publish,
       Drafts!Abandon, Drafts!Attach, Drafts!Ready, OfOneLesson,
           Drafts!OnDraft, DraftsRequestRows
  <1>3. CASE Drafts!NewDraft(d) /\ ~ Drafts!Refuse(d)
    <2>1. PagesInv'
      BY <1>3, KeptPages DEF Drafts!NewDraft, DraftsIInv
    <2>2. LessonsInv'
      <3>1. /\ status[l] = "absent"
            /\ status' = [status EXCEPT ![l] = "draft"]
            /\ drafting' = [drafting EXCEPT ![l] = TRUE]
            /\ based' = [based EXCEPT ![l] = TRUE]
            /\ rewritten' = [rewritten EXCEPT ![l] = FALSE]
            /\ UNCHANGED <<written, placed, known, staged>>
        BY <1>3 DEF Drafts!NewDraft
      <3> HIDE DEF l
      <3> QED BY <1>2, <3>1 DEF DraftsIInv, LessonsInv
    <2> QED BY <2>1, <2>2 DEF DraftsIInv
  <1>4. CASE Drafts!Start(d) /\ ~ Drafts!Refuse(d)
    <2>1. PagesInv'
      BY <1>4, KeptPages DEF Drafts!Start, DraftsIInv
    <2>2. LessonsInv'
      <3>1. /\ drafting' = [drafting EXCEPT ![l] = TRUE]
            /\ based' = [based EXCEPT ![l] = TRUE]
            /\ rewritten' = [rewritten EXCEPT ![l] = FALSE]
            /\ staged' = [staged EXCEPT ![l] = placed[l]]
            /\ known' = [known EXCEPT ![l] = placed[l]]
            /\ UNCHANGED <<status, written, placed>> /\ status[l] = "active"
        BY <1>4 DEF Drafts!Start
      <3> HIDE DEF l
      <3>2. drafting' \in [Drafted -> BOOLEAN] /\ based' \in [Drafted -> BOOLEAN] /\ rewritten' \in [Drafted -> BOOLEAN]
        BY <1>2, <3>1 DEF DraftsIInv, LessonsInv
      <3>3. /\ staged' \in [Drafted -> SUBSET Materials]
            /\ known' \in [Drafted -> SUBSET Materials]
        BY <1>2, <3>1 DEF DraftsIInv, LessonsInv
      <3>4. ASSUME NEW m \in Drafted
            PROVE  /\ status'[m] = "draft" => drafting'[m] /\ ~written'[m]
                   /\ drafting'[m] => status'[m] # "absent"
                   /\ status'[m] = "absent" => ~written'[m]
                   /\ rewritten'[m] => ~based'[m]
        <4>1. CASE m = l
          BY <1>2, <3>1, <4>1 DEF DraftsIInv, LessonsInv
        <4>2. CASE m # l
          BY <1>2, <3>1, <4>2 DEF DraftsIInv, LessonsInv
        <4> QED BY <4>1, <4>2
      <3> QED BY <3>1, <3>2, <3>3, <3>4 DEF DraftsIInv, LessonsInv
    <2> QED BY <2>1, <2>2 DEF DraftsIInv
  <1>5. CASE Drafts!Save(d) /\ ~ Drafts!Refuse(d)
    <2>1. PagesInv'
      BY <1>5, ReplacedPages DEF Drafts!Save, DraftsIInv
    <2>2. LessonsInv'
      BY <1>2, <1>5 DEF Drafts!Save, DraftsIInv, LessonsInv
    <2> QED BY <2>1, <2>2 DEF DraftsIInv
  <1>6. CASE Drafts!Publish(d) /\ ~ Drafts!Refuse(d)
    <2>1. PagesInv'
      BY <1>6, ReplacedPages DEF Drafts!Publish, Drafts!Publishes, DraftsIInv
    <2>2. LessonsInv'
      <3>1. /\ status' = [status EXCEPT ![l] = "active"]
            /\ written' = [written EXCEPT ![l] = TRUE]
            /\ drafting' = [drafting EXCEPT ![l] = FALSE]
            /\ placed' = [placed EXCEPT ![l] = request[d].shows]
            /\ staged' = [staged EXCEPT ![l] = {}]
            /\ known' = [known EXCEPT ![l] = {}]
            /\ based' = [based EXCEPT ![l] = FALSE]
            /\ rewritten' = [rewritten EXCEPT ![l] = FALSE]
        BY <1>6 DEF Drafts!Publish, Drafts!Publishes
      <3> HIDE DEF l
      <3>2. written' \in [Drafted -> BOOLEAN] /\ drafting' \in [Drafted -> BOOLEAN] /\ based' \in [Drafted -> BOOLEAN] /\ rewritten' \in [Drafted -> BOOLEAN]
        BY <1>2, <3>1 DEF DraftsIInv, LessonsInv
      <3>3. /\ status' \in [Drafted -> {"absent", "draft", "active", "archived"}]
            /\ placed' \in [Drafted -> SUBSET Materials]
            /\ staged' \in [Drafted -> SUBSET Materials]
            /\ known' \in [Drafted -> SUBSET Materials]
        BY <1>2, <3>1 DEF DraftsIInv, LessonsInv
      <3>4. ASSUME NEW m \in Drafted
            PROVE  /\ status'[m] = "draft" => drafting'[m] /\ ~written'[m]
                   /\ drafting'[m] => status'[m] # "absent"
                   /\ status'[m] = "absent" => ~written'[m]
                   /\ rewritten'[m] => ~based'[m]
        <4>1. CASE m = l
          BY <1>2, <3>1, <4>1 DEF DraftsIInv, LessonsInv
        <4>2. CASE m # l
          BY <1>2, <3>1, <4>2 DEF DraftsIInv, LessonsInv
        <4> QED BY <4>1, <4>2
      <3> QED BY <3>1, <3>2, <3>3, <3>4 DEF DraftsIInv, LessonsInv
    <2> QED BY <2>1, <2>2 DEF DraftsIInv
  <1>7. CASE Drafts!Abandon(d) /\ ~ Drafts!Refuse(d)
    <2>1. PagesInv'
      BY <1>7, KeptPages DEF Drafts!Abandon, DraftsIInv
    <2>2. LessonsInv'
      <3>1. /\ drafting' = [drafting EXCEPT ![l] = FALSE]
            /\ status' = [status EXCEPT ![l] = IF @ = "draft" THEN "archived" ELSE @]
            /\ staged' = [staged EXCEPT ![l] = {}]
            /\ known' = [known EXCEPT ![l] = {}]
            /\ based' = [based EXCEPT ![l] = FALSE]
            /\ rewritten' = [rewritten EXCEPT ![l] = FALSE]
            /\ UNCHANGED <<written, placed>>
        BY <1>7 DEF Drafts!Abandon
      <3> HIDE DEF l
      <3>2. drafting' \in [Drafted -> BOOLEAN] /\ based' \in [Drafted -> BOOLEAN] /\ rewritten' \in [Drafted -> BOOLEAN]
        BY <1>2, <3>1 DEF DraftsIInv, LessonsInv
      <3>3. /\ status' \in [Drafted -> {"absent", "draft", "active", "archived"}]
            /\ staged' \in [Drafted -> SUBSET Materials]
            /\ known' \in [Drafted -> SUBSET Materials]
        BY <1>2, <3>1 DEF DraftsIInv, LessonsInv
      <3>4. ASSUME NEW m \in Drafted
            PROVE  /\ status'[m] = "draft" => drafting'[m] /\ ~written'[m]
                   /\ drafting'[m] => status'[m] # "absent"
                   /\ status'[m] = "absent" => ~written'[m]
                   /\ rewritten'[m] => ~based'[m]
        <4>1. CASE m = l
          BY <1>2, <3>1, <4>1 DEF DraftsIInv, LessonsInv
        <4>2. CASE m # l
          BY <1>2, <3>1, <4>2 DEF DraftsIInv, LessonsInv
        <4> QED BY <4>1, <4>2
      <3> QED BY <3>1, <3>2, <3>3, <3>4 DEF DraftsIInv, LessonsInv
    <2> QED BY <2>1, <2>2 DEF DraftsIInv
  <1>8. CASE Drafts!Attach(d) /\ ~ Drafts!Refuse(d)
    <2>1. PagesInv'
      BY <1>8, KeptPages DEF Drafts!Attach, DraftsIInv
    <2>2. PICK new \in SUBSET Materials :
            /\ staged' = [staged EXCEPT ![l] = new]
            /\ UNCHANGED <<status, written, drafting, based, rewritten, placed, known>>
      <3>1. staged[l] \cup request[d].material \in SUBSET Materials
            /\ staged[l] \ request[d].material \in SUBSET Materials
        BY <1>2 DEF DraftsIInv, LessonsInv
      <3> QED BY <1>8, <3>1 DEF Drafts!Attach
    <2>3. LessonsInv'
      BY <1>2, <2>2 DEF DraftsIInv, LessonsInv
    <2> QED BY <2>1, <2>3 DEF DraftsIInv
  <1> QED BY <1>1, <1>3, <1>4, <1>5, <1>6, <1>7, <1>8

LEMMA Invariance == Drafts!Spec => []DraftsIInv
  <1>1. Drafts!Init => DraftsIInv
    <2> SUFFICES ASSUME Drafts!Init PROVE DraftsIInv
      OBVIOUS
    <2>1. LessonsInv
      BY DEF Drafts!Init, LessonsInv
    <2>2. PagesInv
      BY IdleRow DEF Drafts!Init, PagesInv, OfOneLesson, Drafts!OnLesson, Drafts!OnDraft
    <2> QED BY <2>1, <2>2 DEF DraftsIInv
  <1>2. DraftsIInv /\ [Drafts!Next]_(Drafts!vars) => DraftsIInv'
    <2>1. ASSUME DraftsIInv, NEW d \in Directors, Drafts!Commits(d) PROVE DraftsIInv'
      BY <2>1, LessonCommandsKeep, DraftCommandsKeep, RefusalKeeps DEF Drafts!Commits,
         Drafts!PublishIsBlocked
    <2>2. ASSUME DraftsIInv, UNCHANGED Drafts!vars PROVE DraftsIInv'
      BY <2>2 DEF Drafts!vars, Drafts!lessonVars, DraftsIInv, LessonsInv, PagesInv
    <2> QED BY <2>1, <2>2, SendKeeps, LockKeeps, RefusalKeeps DEF Drafts!Next, Drafts!Advances,
         Drafts!DeadlockAborts
  <1> QED BY <1>1, <1>2, PTL DEF Drafts!Spec

\* Types, and drafts that stand beside a lesson that exists.
THEOREM DraftsTypeCorrect == Drafts!Spec => []Drafts!TypeOK
  <1>1. DraftsIInv => Drafts!TypeOK
    BY DEF DraftsIInv, LessonsInv, PagesInv, Drafts!TypeOK, DraftsRequestRows, Doings
  <1> QED BY <1>1, Invariance, PTL

\* Whoever replaces the text of a lesson or a draft had seen the text that is replaced,
\* for any number of directors, and no draft is published over a text changed since.
THEOREM TextIsReplacedKnowingly == Drafts!Spec => Drafts!TextReplacedKnowingly
  <1> DEFINE Knows(d) ==
        /\ Drafts!Succeeds(d, {"edit", "save", "publish"}) => d \notin missed
        /\ Drafts!Succeeds(d, {"publish"}) => ~rewritten[request[d].lesson]
  <1>1. ASSUME DraftsIInv, [Drafts!Next]_(Drafts!vars), NEW d \in Directors
        PROVE  Knows(d)
    <2>1. SUFFICES ASSUME request[d].doing \in {"edit", "save", "publish"}, request'[d] = Drafts!Idle,
                          Drafts!lessonVars' # Drafts!lessonVars
                   PROVE  /\ d \notin missed
                          /\ request[d].doing = "publish" => ~rewritten[request[d].lesson]
      BY DEF Drafts!Succeeds
    <2>2. request \in [Directors -> DraftsRequestRows] /\ request[d] # Drafts!Idle
      BY <1>1, <2>1, IdleRow DEF DraftsIInv, PagesInv
    <2>3. ASSUME NEW e \in Directors, e # d, Drafts!Send(e) \/ Drafts!Lock(e) \/ Drafts!Commits(e) \/ Drafts!DeadlockAborts(e)
          PROVE  request'[d] = request[d]
      <3>1. CASE Drafts!Ends(e)
        BY <2>2, <2>3, <3>1 DEF Drafts!Ends
      <3>2. CASE Drafts!Send(e)
        BY <2>2, <2>3, <3>2 DEF Drafts!Send, Drafts!Sends
      <3>3. CASE Drafts!Lock(e)
        BY <2>2, <2>3, <3>3 DEF Drafts!Lock
      <3>4. Drafts!Commits(e) \/ Drafts!DeadlockAborts(e) => Drafts!Ends(e)
        BY DEF Drafts!Commits, Drafts!DeadlockAborts, Drafts!Refuse, Drafts!Create,
           Drafts!NewDraft, Drafts!Start, Drafts!Save, Drafts!Publish, Drafts!Publishes,
               Drafts!PublishIsBlocked, Drafts!Abandon, Drafts!Attach, Drafts!Add, Drafts!Edit,
               Drafts!Archive, Drafts!Reorder
      <3> QED BY <2>3, <3>1, <3>2, <3>3, <3>4
    <2>4. Drafts!Commits(d) /\ ~ Drafts!Refuse(d)
      BY <1>1, <2>1, <2>2, <2>3
         DEF Drafts!Next, Drafts!Advances, Drafts!vars, Drafts!Send, Drafts!Sends, Drafts!Lock,
            Drafts!DeadlockAborts, Drafts!Refuse
    <2>5. Drafts!Save(d) \/ Drafts!Publish(d) \/ Drafts!Edit(d)
      BY <2>1, <2>4 DEF Drafts!Commits, Drafts!Ready, Drafts!Create, Drafts!NewDraft,
         Drafts!Start, Drafts!PublishIsBlocked, Drafts!Abandon, Drafts!Attach,
             Drafts!Add, Drafts!Archive, Drafts!Reorder
    <2>6. d \in fresh
      BY <2>4, <2>5 DEF Drafts!Save, Drafts!Publish, Drafts!Edit, Drafts!Saveable
    <2>7. request[d].doing = "publish" => based[request[d].lesson] /\ request[d].lesson \in Drafted
      BY <1>1, <2>4, <2>5 DEF Drafts!Save, Drafts!Publish, Drafts!Edit, Drafts!Ready,
         DraftsIInv, PagesInv, OfOneLesson, Drafts!OnDraft
    <2> QED BY <1>1, <2>6, <2>7 DEF DraftsIInv, LessonsInv, PagesInv
  <1>2. DraftsIInv /\ [Drafts!Next]_(Drafts!vars) => [\A d \in Directors : Knows(d)]_(Drafts!vars)
    BY <1>1
  <1> QED BY <1>2, Invariance, PTL DEF Drafts!Spec, Drafts!TextReplacedKnowingly

-----------------------------------------------------------------------------
(* Waiting for rows. *)

\* Where all of a set wait for one of them, one waits for itself: it belongs to a
\* smallest set of this kind.
LEMMA SomeoneWaitsForItself ==
    ASSUME NEW S, IsFiniteSet(S), NEW waits \in [S -> SUBSET S],
           NEW busy \in SUBSET S, busy # {}, \A s \in busy : waits[s] \cap busy # {}
    PROVE  \E r \in busy : \A waited \in SUBSET S :
              waits[r] \subseteq waited /\ (\A s \in waited : waits[s] \subseteq waited)
              => r \in waited
  <1> DEFINE Circles == {d \in SUBSET busy : d # {} /\ \A s \in d : waits[s] \cap d # {}}
             less == StrictSubsetOrdering(S)
  <1>1. Circles \subseteq SUBSET S /\ Circles # {}
    <2>1. busy \in Circles
      OBVIOUS
    <2> QED BY <2>1
  <1>2. IsWellFoundedOn(less, SUBSET S)
    BY FS_StrictSubsetOrderingWellFounded, FS_FiniteSubsetsOfFinite
  <1>3. PICK d \in Circles : \A e \in Circles : <<e, d>> \notin less
    <2> HIDE DEF Circles, less
    <2> QED BY <1>1, <1>2, WFMin
  <1>4. \A e \in Circles : e \subseteq d => e = d
    BY <1>1, <1>3 DEF StrictSubsetOrdering
  <1>5. PICK r \in d : TRUE
    BY <1>3
  <1>6. ASSUME NEW waited \in SUBSET S, waits[r] \subseteq waited,
               \A s \in waited : waits[s] \subseteq waited, r \notin waited
        PROVE  FALSE
    <2>1. waited \cap d \in Circles
      <3>1. waited \cap d # {}
        BY <1>3, <1>5, <1>6
      <3>2. \A s \in waited \cap d : waits[s] \cap (waited \cap d) # {}
        BY <1>3, <1>6
      <3> QED BY <1>3, <3>1, <3>2
    <2> QED BY <1>4, <1>5, <1>6, <2>1
  <1> QED BY <1>3, <1>5, <1>6

\* Whoever holds a row has a command under way.
HoldersInv ==
    /\ \A d \in Directors : request[d].doing = "nothing" => request[d] = Drafts!Idle
    /\ \A r \in Drafts!Rows : locks[r] # None => request[locks[r]].doing # "nothing"

LEMMA SendKeepsHolders ==
    ASSUME DraftsIInv, HoldersInv, NEW d \in Directors, Drafts!Send(d)
    PROVE  HoldersInv'
  <1>1. PICK row :
            /\ row.doing # "nothing"
            /\ request[d] = Drafts!Idle /\ request' = [request EXCEPT ![d] = row]
            /\ UNCHANGED locks
    <2>1. PICK doing, l, material : doing # "nothing" /\ Drafts!Sends(d, doing, l, material)
      BY DEF Drafts!Send
    <2>2. PICK row : row = [doing |-> doing, lesson |-> l, stage |-> 0, material |-> material,
                            shows |-> IF doing \in Drafts!OnDraft THEN staged[l] ELSE {},
                            list |-> IF doing = "reorder" THEN Drafts!Active ELSE {}]
      OBVIOUS
    <2>3. row.doing = doing
      BY <2>2
    <2>4. /\ request[d] = Drafts!Idle /\ request' = [request EXCEPT ![d] = row]
          /\ UNCHANGED locks
      BY <2>1, <2>2 DEF Drafts!Sends
    <2> QED BY <2>1, <2>3, <2>4
  <1>2. request'[d] = row /\ \A e \in Directors : e # d => request'[e] = request[e]
    BY <1>1 DEF DraftsIInv, PagesInv
  <1>3. \A r \in Drafts!Rows : locks[r] # None => locks[r] \in Directors /\ locks[r] # d
    BY <1>1, IdleRow DEF DraftsIInv, PagesInv, HoldersInv
  <1> QED BY <1>1, <1>2, <1>3 DEF HoldersInv

LEMMA LockKeepsHolders ==
    ASSUME DraftsIInv, HoldersInv, NEW d \in Directors, Drafts!Lock(d)
    PROVE  HoldersInv'
  <1>1. request[d] \in DraftsRequestRows /\ request[d].doing # "nothing"
    BY DEF DraftsIInv, PagesInv, HoldersInv, Drafts!Lock, Drafts!Waits
  <1>2. PICK row : row = [request[d] EXCEPT !.stage = @ + 1]
    OBVIOUS
  <1>3. row.doing = request[d].doing
    BY <1>1, <1>2 DEF DraftsRequestRows
  <1>4. request' = [request EXCEPT ![d] = row]
    BY <1>2 DEF Drafts!Lock, DraftsIInv, PagesInv
  <1>5. request'[d] = row /\ \A e \in Directors : e # d => request'[e] = request[e]
    BY <1>4 DEF DraftsIInv, PagesInv
  <1>6. \A e \in Directors : request'[e].doing = request[e].doing
    BY <1>3, <1>5
  <1>7. \A r \in Drafts!Rows : locks'[r] \in {d, locks[r]}
    BY DEF Drafts!Lock
  <1>8. \A r \in Drafts!Rows : locks[r] # None => locks[r] \in Directors
    BY DEF DraftsIInv, PagesInv
  <1>9. ASSUME NEW e \in Directors, request'[e].doing = "nothing"
        PROVE  request'[e] = Drafts!Idle
    BY <1>1, <1>5, <1>6, <1>9 DEF HoldersInv
  <1>10. ASSUME NEW r \in Drafts!Rows, locks'[r] # None
         PROVE  request'[locks'[r]].doing # "nothing"
    BY <1>1, <1>6, <1>7, <1>8, <1>10 DEF HoldersInv
  <1> QED BY <1>9, <1>10 DEF HoldersInv

LEMMA EndKeepsHolders ==
    ASSUME DraftsIInv, HoldersInv, NEW d \in Directors, Drafts!Ends(d)
    PROVE  HoldersInv'
  <1>1. request'[d] = Drafts!Idle /\ \A e \in Directors : e # d => request'[e] = request[e]
    BY DEF Drafts!Ends, DraftsIInv, PagesInv
  <1>2. \A r \in Drafts!Rows : locks'[r] # None => locks'[r] = locks[r] /\ locks[r] # d
    BY DEF Drafts!Ends
  <1>3. \A r \in Drafts!Rows : locks[r] # None => locks[r] \in Directors
    BY DEF DraftsIInv, PagesInv
  <1> QED BY <1>1, <1>2, <1>3 DEF HoldersInv

\* Every command that commits or is aborted ends.
LEMMA CommandsEnd ==
    ASSUME NEW d \in Directors, Drafts!Commits(d) \/ Drafts!DeadlockAborts(d)
    PROVE  Drafts!Ends(d)
  BY DEF Drafts!Commits, Drafts!DeadlockAborts, Drafts!Refuse, Drafts!Create,
     Drafts!NewDraft, Drafts!Start, Drafts!Save, Drafts!Publish, Drafts!Publishes,
     Drafts!PublishIsBlocked, Drafts!Abandon, Drafts!Attach, Drafts!Add, Drafts!Edit,
     Drafts!Archive, Drafts!Reorder

LEMMA HoldersInvariance == Drafts!Spec => [](DraftsIInv /\ HoldersInv)
  <1>1. Drafts!Init => HoldersInv
    BY DEF Drafts!Init, HoldersInv
  <1>2. DraftsIInv /\ HoldersInv /\ [Drafts!Next]_(Drafts!vars) => HoldersInv'
    <2> SUFFICES ASSUME DraftsIInv, HoldersInv, [Drafts!Next]_(Drafts!vars) PROVE HoldersInv'
      OBVIOUS
    <2>1. CASE UNCHANGED Drafts!vars
      BY <2>1 DEF Drafts!vars, HoldersInv
    <2>2. ASSUME NEW d \in Directors, Drafts!Send(d) PROVE HoldersInv'
      BY <2>2, SendKeepsHolders
    <2>3. ASSUME NEW d \in Directors, Drafts!Lock(d) PROVE HoldersInv'
      BY <2>3, LockKeepsHolders
    <2>4. ASSUME NEW d \in Directors, Drafts!Commits(d) \/ Drafts!DeadlockAborts(d)
          PROVE  HoldersInv'
      BY <2>4, CommandsEnd, EndKeepsHolders
    <2> QED BY <2>1, <2>2, <2>3, <2>4 DEF Drafts!Next, Drafts!Advances
  <1> QED BY <1>1, <1>2, Invariance, PTL DEF Drafts!Spec

\* Who is waited for has a command under way.
LEMMA HoldersAreBusy ==
    ASSUME DraftsIInv, HoldersInv, NEW d \in Directors, NEW e \in Drafts!Blockers(d)
    PROVE  e \in Directors /\ request[e] # Drafts!Idle
  <1> DEFINE doing == request[d].doing
             l == request[d].lesson
  <1>1. PICK r \in Drafts!Wants(d) : e = locks[r] /\ e # None
    BY DEF Drafts!Blockers
  <1>2. Drafts!Waits(d) /\ r \in Drafts!Order(d)[request[d].stage + 1]
    BY <1>1 DEF Drafts!Wants
  <1>3. doing \in Doings \ {"nothing"} /\ request[d].stage \in 0..4
    BY <1>2 DEF Drafts!Waits, HoldersInv, DraftsIInv, PagesInv, DraftsRequestRows
  <1>4. doing \in {"create", "draft", "reorder"} \/ l \in Drafted
    BY <1>3 DEF DraftsIInv, PagesInv, OfOneLesson, Doings, Drafts!OnLesson, Drafts!OnDraft,
       Drafts!OnList
  <1>5. {Curriculum} \subseteq Drafts!Rows /\ Drafts!Active \subseteq Drafts!Rows
    BY DEF Drafts!Rows, Drafts!Active
  <1>6. l \in Drafted => {l} \subseteq Drafts!Rows
    BY DEF Drafts!Rows
  <1>7. Drafts!Order(d) \in Seq(SUBSET Drafts!Rows)
    <2> DEFINE Sets == SUBSET Drafts!Rows
    <2>1. \A a, b, c \in Sets : <<a>> \in Seq(Sets) /\ <<a, b>> \in Seq(Sets)
                                /\ <<a, b, c>> \in Seq(Sets)
      BY SMT
    <2>2. {Curriculum} \in Sets /\ Drafts!Active \in Sets
      BY <1>5
    <2>3. CASE doing \in {"create", "draft"}
      <3>1. Drafts!Order(d) = <<{Curriculum}>>
        BY <2>3 DEF Drafts!Order
      <3> QED BY <2>1, <2>2, <3>1
    <2>4. CASE doing = "reorder"
      <3>1. Drafts!Order(d) = <<{Curriculum}, Drafts!Active>>
        BY <2>4 DEF Drafts!Order
      <3> QED BY <2>1, <2>2, <3>1
    <2>5. CASE l \in Drafted
      <3>1. {l} \in Sets /\ Drafts!Active \cup {l} \in Sets
        BY <1>5, <1>6, <2>5
      <3>2. \/ Drafts!Order(d) = <<{Curriculum}, {l}>>
            \/ Drafts!Order(d) = <<{Curriculum}>>
            \/ Drafts!Order(d) = <<{Curriculum}, Drafts!Active>>
            \/ Drafts!Order(d) = <<{l}, {Curriculum}>>
            \/ Drafts!Order(d) = <<{l}, Drafts!Active \cup {l}, {Curriculum}>>
            \/ Drafts!Order(d) = <<{l}>>
        BY DEF Drafts!Order
      <3> HIDE DEF Sets, l
      <3>3. /\ <<{Curriculum}, {l}>> \in Seq(Sets) /\ <<{Curriculum}>> \in Seq(Sets)
            /\ <<{Curriculum}, Drafts!Active>> \in Seq(Sets)
            /\ <<{l}, {Curriculum}>> \in Seq(Sets)
        BY <2>1, <2>2, <3>1
      <3>4. /\ <<{l}, Drafts!Active \cup {l}, {Curriculum}>> \in Seq(Sets)
            /\ <<{l}>> \in Seq(Sets)
        BY <2>1, <2>2, <3>1
      <3> QED BY <3>2, <3>3, <3>4, Zenon DEF Sets
    <2> QED BY <1>4, <2>3, <2>4, <2>5
  <1>8. request[d].stage + 1 \in 1..Len(Drafts!Order(d))
    BY <1>2, <1>3, <1>7 DEF Drafts!Waits
  <1>9. r \in Drafts!Rows
    BY <1>2, <1>7, <1>8
  <1>10. e \in Directors /\ request[e].doing # "nothing"
    BY <1>1, <1>9 DEF DraftsIInv, PagesInv, HoldersInv
  <1> QED BY <1>10, IdleRow

\* Of the commands under way on lessons and drafts, however many they are, one waits for no
\* row or is in a circle of waiting commands, which PostgreSQL finds.
THEOREM CommandsNeverAllWait ==
    ASSUME Drafts!LessonDraftsAssumption
    PROVE  Drafts!Spec => []Drafts!SomeCommandMoves
  <1>1. ASSUME DraftsIInv, HoldersInv PROVE Drafts!SomeCommandMoves
    <2> DEFINE busy == {d \in Directors : request[d] # Drafts!Idle}
               waits == [d \in Directors |-> Drafts!Blockers(d)]
    <2> SUFFICES ASSUME busy # {}, \A d \in busy : Drafts!Blockers(d) # {}
                 PROVE  \E d \in busy : Drafts!Deadlocked(d)
      BY DEF Drafts!SomeCommandMoves
    <2>1. \A d \in Directors : Drafts!Blockers(d) \subseteq busy
      BY <1>1, HoldersAreBusy
    <2>2. waits \in [Directors -> SUBSET Directors]
          /\ \A d \in Directors : waits[d] = Drafts!Blockers(d)
      BY <2>1
    <2>3. \A d \in busy : waits[d] \cap busy # {}
      BY <2>1, <2>2
    <2>4. busy \in SUBSET Directors /\ IsFiniteSet(Directors)
      BY DEF Drafts!LessonDraftsAssumption, Drafts!IsFiniteSet, IsFiniteSet
    <2> HIDE DEF waits, busy
    <2>5. PICK d \in busy : \A waited \in SUBSET Directors :
              waits[d] \subseteq waited /\ (\A e \in waited : waits[e] \subseteq waited)
              => d \in waited
      BY <2>2, <2>3, <2>4, SomeoneWaitsForItself
    <2>6. Drafts!Deadlocked(d)
      BY <2>2, <2>4, <2>5 DEF Drafts!Deadlocked
    <2> QED BY <2>6
  <1> QED BY <1>1, HoldersInvariance, PTL

-----------------------------------------------------------------------------
(* The timetables of MCAcademics are the ones the theorems are about.       *)

LEMMA BreakingTimetable ==
    /\ Breaking!Init => OfBreaking!Init
    /\ [Breaking!Next]_(Breaking!vars) => [OfBreaking!Next]_(OfBreaking!vars)
    /\ Breaking!TimetableAssumption => OfBreaking!TimetableAssumption
  <1> USE DEF Breaking!Idle, OfBreaking!Idle, Breaking!Orders, OfBreaking!Orders,
              Breaking!Cardinality, OfBreaking!Cardinality, Breaking!Edits, OfBreaking!Edits,
              Breaking!RowIsFree, OfBreaking!RowIsFree, Breaking!Dated, OfBreaking!Dated,
              Breaking!Rule, OfBreaking!Rule, Breaking!RulesOf, OfBreaking!RulesOf
  <1>1. ASSUME NEW g, NEW o
        PROVE  Breaking!RecordsLesson(g, o) => OfBreaking!RecordsLesson(g, o)
    BY Zenon DEF Breaking!RecordsLesson, OfBreaking!RecordsLesson
  <1>2. ASSUME NEW r
        PROVE  Breaking!WritesTimetable(r) => OfBreaking!WritesTimetable(r)
    BY Zenon DEF Breaking!WritesTimetable, OfBreaking!WritesTimetable
  <1>3. ASSUME NEW r, NEW g, NEW o, NEW date, NEW moves
        PROVE  Breaking!OpensEdit(r, g, o, date, moves) =>
                  OfBreaking!OpensEdit(r, g, o, date, moves)
    BY Zenon DEF Breaking!OpensEdit, OfBreaking!OpensEdit
  <1>4. ASSUME NEW r
        PROVE  Breaking!WritesEdit(r) => OfBreaking!WritesEdit(r)
    BY Zenon DEF Breaking!WritesEdit, OfBreaking!WritesEdit
  <1> USE DEF Breaking!Blocked, OfBreaking!Blocked, Breaking!Closed, OfBreaking!Closed,
              Breaking!Days, OfBreaking!Days, Breaking!GroupIsFree, OfBreaking!GroupIsFree,
              Breaking!Taken, OfBreaking!Taken
  <1>5. ASSUME NEW r
        PROVE  Breaking!ChecksEdit(r) => OfBreaking!ChecksEdit(r)
    BY Zenon DEF Breaking!ChecksEdit, OfBreaking!ChecksEdit
  <1> USE DEF Breaking!Dates, OfBreaking!Dates, Breaking!Fit, OfBreaking!Fit, Breaking!Kth,
              OfBreaking!Kth, Breaking!TeachingDays, OfBreaking!TeachingDays, Breaking!Reflow,
              OfBreaking!Reflow, Breaking!Ending, OfBreaking!Ending
  <1>6. ASSUME NEW g, NEW o, NEW moves
        PROVE  Breaking!CancelsLesson(g, o, moves) => OfBreaking!CancelsLesson(g, o, moves)
    BY Zenon DEF Breaking!CancelsLesson, OfBreaking!CancelsLesson
  <1>7. ASSUME NEW g, NEW o, NEW moves
        PROVE  Breaking!RecoversLesson(g, o, moves) => OfBreaking!RecoversLesson(g, o, moves)
    BY Zenon DEF Breaking!RecoversLesson, OfBreaking!RecoversLesson
  <1>8. Breaking!Init => OfBreaking!Init
    BY Zenon DEF Breaking!Init, OfBreaking!Init, Breaking!IsInjective, OfBreaking!IsInjective
  <1>9. Breaking!TimetableAssumption => OfBreaking!TimetableAssumption
    BY Zenon DEF Breaking!TimetableAssumption, OfBreaking!TimetableAssumption, Breaking!IsFiniteSet,
       OfBreaking!IsFiniteSet
  <1> HIDE DEF Breaking!Days, OfBreaking!Days, Breaking!Reflow, OfBreaking!Reflow,
               Breaking!Ending, OfBreaking!Ending, Breaking!Edits, OfBreaking!Edits,
               Breaking!RowIsFree, OfBreaking!RowIsFree
  <1> USE DEF Breaking!From, OfBreaking!From, Breaking!Max, OfBreaking!Max, Breaking!Min,
              OfBreaking!Min, Breaking!Recorded, OfBreaking!Recorded, Breaking!Undated,
              OfBreaking!Undated, Breaking!Anchor, OfBreaking!Anchor, Breaking!Conflicts,
              OfBreaking!Conflicts, Breaking!MovesHistory, OfBreaking!MovesHistory,
              Breaking!Selected, OfBreaking!Selected
  <1>10. ASSUME NEW r, NEW g, NEW teacher, NEW days, NEW scope, NEW date, NEW moves, NEW relaunch
         PROVE  Breaking!ReadsTimetable(r, g, teacher, days, scope, date, moves, relaunch) =>
                   OfBreaking!ReadsTimetable(r, g, teacher, days, scope, date, moves, relaunch)
    BY Zenon DEF Breaking!ReadsTimetable, OfBreaking!ReadsTimetable
  <1> HIDE DEF Breaking!Anchor, OfBreaking!Anchor, Breaking!Conflicts, OfBreaking!Conflicts,
               Breaking!MovesHistory, OfBreaking!MovesHistory, Breaking!Selected,
               OfBreaking!Selected, Breaking!Idle, OfBreaking!Idle
  <1> USE DEF Breaking!Edits, OfBreaking!Edits, Breaking!Affected, OfBreaking!Affected,
              Breaking!Applies, OfBreaking!Applies, Breaking!Collides, OfBreaking!Collides,
              Breaking!EnoughDays, OfBreaking!EnoughDays, Breaking!First, OfBreaking!First,
              Breaking!FreeDays, OfBreaking!FreeDays, Breaking!HistoryInTheWay,
              OfBreaking!HistoryInTheWay, Breaking!LacksRule, OfBreaking!LacksRule,
              Breaking!Movable, OfBreaking!Movable, Breaking!Plan, OfBreaking!Plan,
              Breaking!Refused, OfBreaking!Refused, Breaking!Scope, OfBreaking!Scope,
              Breaking!IsInjective, OfBreaking!IsInjective
  <1>11. ASSUME NEW b
         PROVE  Breaking!MakesBreak(b) => OfBreaking!MakesBreak(b)
    BY Zenon DEF Breaking!MakesBreak, OfBreaking!MakesBreak
  <1>12. ASSUME NEW b, NEW rebuild
         PROVE  Breaking!EndsBreak(b, rebuild) => OfBreaking!EndsBreak(b, rebuild)
    BY Zenon DEF Breaking!EndsBreak, OfBreaking!EndsBreak
  <1>13. Breaking!Next => OfBreaking!Next
    BY <1>1, <1>2, <1>3, <1>4, <1>5, <1>6, <1>7, <1>10, <1>11, <1>12
       DEF Breaking!Next, OfBreaking!Next, Breaking!ReadsAnyTimetable,
           OfBreaking!ReadsAnyTimetable
  <1> QED BY <1>8, <1>9, <1>13 DEF Breaking!vars, OfBreaking!vars

LEMMA RulingTimetable ==
    /\ Ruling!Init => OfRuling!Init
    /\ [Ruling!Next]_(Ruling!vars) => [OfRuling!Next]_(OfRuling!vars)
    /\ Ruling!TimetableAssumption => OfRuling!TimetableAssumption
  <1> USE DEF Ruling!Idle, OfRuling!Idle, Ruling!Orders, OfRuling!Orders, Ruling!Cardinality,
              OfRuling!Cardinality, Ruling!Edits, OfRuling!Edits, Ruling!RowIsFree,
              OfRuling!RowIsFree, Ruling!Dated, OfRuling!Dated, Ruling!Rule, OfRuling!Rule,
              Ruling!RulesOf, OfRuling!RulesOf
  <1>1. ASSUME NEW g, NEW o
        PROVE  Ruling!RecordsLesson(g, o) => OfRuling!RecordsLesson(g, o)
    BY Zenon DEF Ruling!RecordsLesson, OfRuling!RecordsLesson
  <1>2. ASSUME NEW r
        PROVE  Ruling!WritesTimetable(r) => OfRuling!WritesTimetable(r)
    BY Zenon DEF Ruling!WritesTimetable, OfRuling!WritesTimetable
  <1>3. ASSUME NEW r, NEW g, NEW o, NEW date, NEW moves
        PROVE  Ruling!OpensEdit(r, g, o, date, moves) =>
                  OfRuling!OpensEdit(r, g, o, date, moves)
    BY Zenon DEF Ruling!OpensEdit, OfRuling!OpensEdit
  <1>4. ASSUME NEW r
        PROVE  Ruling!WritesEdit(r) => OfRuling!WritesEdit(r)
    BY Zenon DEF Ruling!WritesEdit, OfRuling!WritesEdit
  <1> USE DEF Ruling!Blocked, OfRuling!Blocked, Ruling!Closed, OfRuling!Closed, Ruling!Days,
              OfRuling!Days, Ruling!GroupIsFree, OfRuling!GroupIsFree, Ruling!Taken,
              OfRuling!Taken
  <1>5. ASSUME NEW r
        PROVE  Ruling!ChecksEdit(r) => OfRuling!ChecksEdit(r)
    BY Zenon DEF Ruling!ChecksEdit, OfRuling!ChecksEdit
  <1> USE DEF Ruling!Dates, OfRuling!Dates, Ruling!Fit, OfRuling!Fit, Ruling!Kth, OfRuling!Kth,
              Ruling!TeachingDays, OfRuling!TeachingDays, Ruling!Reflow, OfRuling!Reflow,
              Ruling!Ending, OfRuling!Ending
  <1>6. ASSUME NEW g, NEW o, NEW moves
        PROVE  Ruling!CancelsLesson(g, o, moves) => OfRuling!CancelsLesson(g, o, moves)
    BY Zenon DEF Ruling!CancelsLesson, OfRuling!CancelsLesson
  <1>7. ASSUME NEW g, NEW o, NEW moves
        PROVE  Ruling!RecoversLesson(g, o, moves) => OfRuling!RecoversLesson(g, o, moves)
    BY Zenon DEF Ruling!RecoversLesson, OfRuling!RecoversLesson
  <1>8. Ruling!Init => OfRuling!Init
    BY Zenon DEF Ruling!Init, OfRuling!Init, Ruling!IsInjective, OfRuling!IsInjective
  <1>9. Ruling!TimetableAssumption => OfRuling!TimetableAssumption
    BY Zenon DEF Ruling!TimetableAssumption, OfRuling!TimetableAssumption, Ruling!IsFiniteSet,
       OfRuling!IsFiniteSet
  <1> HIDE DEF Ruling!Days, OfRuling!Days, Ruling!Reflow, OfRuling!Reflow, Ruling!Ending,
               OfRuling!Ending, Ruling!Edits, OfRuling!Edits, Ruling!RowIsFree,
               OfRuling!RowIsFree
  <1> USE DEF Ruling!From, OfRuling!From, Ruling!Max, OfRuling!Max, Ruling!Min, OfRuling!Min,
              Ruling!Recorded, OfRuling!Recorded, Ruling!Undated, OfRuling!Undated,
              Ruling!Anchor, OfRuling!Anchor, Ruling!Conflicts, OfRuling!Conflicts,
              Ruling!MovesHistory, OfRuling!MovesHistory, Ruling!Selected, OfRuling!Selected
  <1>10. ASSUME NEW r, NEW g, NEW teacher, NEW days, NEW scope, NEW date, NEW moves, NEW relaunch
         PROVE  Ruling!ReadsTimetable(r, g, teacher, days, scope, date, moves, relaunch) =>
                   OfRuling!ReadsTimetable(r, g, teacher, days, scope, date, moves, relaunch)
    BY Zenon DEF Ruling!ReadsTimetable, OfRuling!ReadsTimetable
  <1> HIDE DEF Ruling!Anchor, OfRuling!Anchor, Ruling!Conflicts, OfRuling!Conflicts,
               Ruling!MovesHistory, OfRuling!MovesHistory, Ruling!Selected, OfRuling!Selected,
               Ruling!Idle, OfRuling!Idle
  <1> USE DEF Ruling!Edits, OfRuling!Edits, Ruling!Affected, OfRuling!Affected, Ruling!Applies,
              OfRuling!Applies, Ruling!Collides, OfRuling!Collides, Ruling!EnoughDays,
              OfRuling!EnoughDays, Ruling!First, OfRuling!First, Ruling!FreeDays,
              OfRuling!FreeDays, Ruling!HistoryInTheWay, OfRuling!HistoryInTheWay,
              Ruling!LacksRule, OfRuling!LacksRule, Ruling!Movable, OfRuling!Movable,
              Ruling!Plan, OfRuling!Plan, Ruling!Refused, OfRuling!Refused, Ruling!Scope,
              OfRuling!Scope, Ruling!IsInjective, OfRuling!IsInjective
  <1>11. ASSUME NEW b
         PROVE  Ruling!MakesBreak(b) => OfRuling!MakesBreak(b)
    BY Zenon DEF Ruling!MakesBreak, OfRuling!MakesBreak
  <1>12. ASSUME NEW b, NEW rebuild
         PROVE  Ruling!EndsBreak(b, rebuild) => OfRuling!EndsBreak(b, rebuild)
    BY Zenon DEF Ruling!EndsBreak, OfRuling!EndsBreak
  <1>13. Ruling!Next => OfRuling!Next
    BY <1>1, <1>2, <1>3, <1>4, <1>5, <1>6, <1>7, <1>10, <1>11, <1>12
       DEF Ruling!Next, OfRuling!Next, Ruling!ReadsAnyTimetable,
           OfRuling!ReadsAnyTimetable
  <1> QED BY <1>8, <1>9, <1>13 DEF Ruling!vars, OfRuling!vars

LEMMA EditingTimetable ==
    /\ Editing!Init => OfEditing!Init
    /\ [Editing!Next]_(Editing!vars) => [OfEditing!Next]_(OfEditing!vars)
    /\ Editing!TimetableAssumption => OfEditing!TimetableAssumption
  <1> USE DEF Editing!Idle, OfEditing!Idle, Editing!Orders, OfEditing!Orders,
              Editing!Cardinality, OfEditing!Cardinality, Editing!Edits, OfEditing!Edits,
              Editing!RowIsFree, OfEditing!RowIsFree, Editing!Dated, OfEditing!Dated,
              Editing!Rule, OfEditing!Rule, Editing!RulesOf, OfEditing!RulesOf
  <1>1. ASSUME NEW g, NEW o
        PROVE  Editing!RecordsLesson(g, o) => OfEditing!RecordsLesson(g, o)
    BY Zenon DEF Editing!RecordsLesson, OfEditing!RecordsLesson
  <1>2. ASSUME NEW r
        PROVE  Editing!WritesTimetable(r) => OfEditing!WritesTimetable(r)
    BY Zenon DEF Editing!WritesTimetable, OfEditing!WritesTimetable
  <1>3. ASSUME NEW r, NEW g, NEW o, NEW date, NEW moves
        PROVE  Editing!OpensEdit(r, g, o, date, moves) =>
                  OfEditing!OpensEdit(r, g, o, date, moves)
    BY Zenon DEF Editing!OpensEdit, OfEditing!OpensEdit
  <1>4. ASSUME NEW r
        PROVE  Editing!WritesEdit(r) => OfEditing!WritesEdit(r)
    BY Zenon DEF Editing!WritesEdit, OfEditing!WritesEdit
  <1> USE DEF Editing!Blocked, OfEditing!Blocked, Editing!Closed, OfEditing!Closed,
              Editing!Days, OfEditing!Days, Editing!GroupIsFree, OfEditing!GroupIsFree,
              Editing!Taken, OfEditing!Taken
  <1>5. ASSUME NEW r
        PROVE  Editing!ChecksEdit(r) => OfEditing!ChecksEdit(r)
    BY Zenon DEF Editing!ChecksEdit, OfEditing!ChecksEdit
  <1> USE DEF Editing!Dates, OfEditing!Dates, Editing!Fit, OfEditing!Fit, Editing!Kth,
              OfEditing!Kth, Editing!TeachingDays, OfEditing!TeachingDays, Editing!Reflow,
              OfEditing!Reflow, Editing!Ending, OfEditing!Ending
  <1>6. ASSUME NEW g, NEW o, NEW moves
        PROVE  Editing!CancelsLesson(g, o, moves) => OfEditing!CancelsLesson(g, o, moves)
    BY Zenon DEF Editing!CancelsLesson, OfEditing!CancelsLesson
  <1>7. ASSUME NEW g, NEW o, NEW moves
        PROVE  Editing!RecoversLesson(g, o, moves) => OfEditing!RecoversLesson(g, o, moves)
    BY Zenon DEF Editing!RecoversLesson, OfEditing!RecoversLesson
  <1>8. Editing!Init => OfEditing!Init
    BY Zenon DEF Editing!Init, OfEditing!Init, Editing!IsInjective, OfEditing!IsInjective
  <1>9. Editing!TimetableAssumption => OfEditing!TimetableAssumption
    BY Zenon DEF Editing!TimetableAssumption, OfEditing!TimetableAssumption, Editing!IsFiniteSet,
       OfEditing!IsFiniteSet
  <1> HIDE DEF Editing!Days, OfEditing!Days, Editing!Reflow, OfEditing!Reflow, Editing!Ending,
               OfEditing!Ending, Editing!Edits, OfEditing!Edits, Editing!RowIsFree,
               OfEditing!RowIsFree
  <1> USE DEF Editing!From, OfEditing!From, Editing!Max, OfEditing!Max, Editing!Min,
              OfEditing!Min, Editing!Recorded, OfEditing!Recorded, Editing!Undated,
              OfEditing!Undated, Editing!Anchor, OfEditing!Anchor, Editing!Conflicts,
              OfEditing!Conflicts, Editing!MovesHistory, OfEditing!MovesHistory,
              Editing!Selected, OfEditing!Selected
  <1>10. ASSUME NEW r, NEW g, NEW teacher, NEW days, NEW scope, NEW date, NEW moves, NEW relaunch
         PROVE  Editing!ReadsTimetable(r, g, teacher, days, scope, date, moves, relaunch) =>
                   OfEditing!ReadsTimetable(r, g, teacher, days, scope, date, moves, relaunch)
    BY Zenon DEF Editing!ReadsTimetable, OfEditing!ReadsTimetable
  <1> HIDE DEF Editing!Anchor, OfEditing!Anchor, Editing!Conflicts, OfEditing!Conflicts,
               Editing!MovesHistory, OfEditing!MovesHistory, Editing!Selected,
               OfEditing!Selected, Editing!Idle, OfEditing!Idle
  <1> USE DEF Editing!Edits, OfEditing!Edits, Editing!Affected, OfEditing!Affected,
              Editing!Applies, OfEditing!Applies, Editing!Collides, OfEditing!Collides,
              Editing!EnoughDays, OfEditing!EnoughDays, Editing!First, OfEditing!First,
              Editing!FreeDays, OfEditing!FreeDays, Editing!HistoryInTheWay,
              OfEditing!HistoryInTheWay, Editing!LacksRule, OfEditing!LacksRule,
              Editing!Movable, OfEditing!Movable, Editing!Plan, OfEditing!Plan, Editing!Refused,
              OfEditing!Refused, Editing!Scope, OfEditing!Scope, Editing!IsInjective,
              OfEditing!IsInjective
  <1>11. ASSUME NEW b
         PROVE  Editing!MakesBreak(b) => OfEditing!MakesBreak(b)
    BY Zenon DEF Editing!MakesBreak, OfEditing!MakesBreak
  <1>12. ASSUME NEW b, NEW rebuild
         PROVE  Editing!EndsBreak(b, rebuild) => OfEditing!EndsBreak(b, rebuild)
    BY Zenon DEF Editing!EndsBreak, OfEditing!EndsBreak
  <1>13. Editing!Next => OfEditing!Next
    BY <1>1, <1>2, <1>3, <1>4, <1>5, <1>6, <1>7, <1>10, <1>11, <1>12
       DEF Editing!Next, OfEditing!Next, Editing!ReadsAnyTimetable,
           OfEditing!ReadsAnyTimetable
  <1> QED BY <1>8, <1>9, <1>13 DEF Editing!vars, OfEditing!vars

-----------------------------------------------------------------------------
(* The components side by side.                                             *)

\* Whichever component moves, each takes a step of its own or stands still.
LEMMA EachComponent ==
    MCSpec => /\ Drafts!Spec /\ Slides!Spec /\ Desk!Spec
              /\ Breaking!Spec /\ Ruling!Spec /\ Editing!Spec
  <1>1. MCInit => /\ Drafts!Init /\ Slides!Init /\ Desk!Init
                  /\ Breaking!Init /\ Ruling!Init /\ Editing!Init
    BY DEF MCInit
  <1>2. ASSUME [MCNext]_MCvars
        PROVE  /\ [Drafts!Next]_(Drafts!vars) /\ [Slides!Next]_(Slides!vars)
               /\ [Desk!Next]_(Desk!vars) /\ [Breaking!Next]_(Breaking!vars)
               /\ [Ruling!Next]_(Ruling!vars) /\ [Editing!Next]_(Editing!vars)
    <2>1. UNCHANGED draftsVars \/ Drafts!Next
      BY <1>2 DEF MCNext, MCvars
    <2>2. UNCHANGED slidesVars \/ Slides!Next
      BY <1>2 DEF MCNext, MCvars
    <2>3. UNCHANGED hoursVars \/ Desk!Next
      BY <1>2 DEF MCNext, MCvars
    <2>4. UNCHANGED breaksVars \/ Breaking!Next
      BY <1>2 DEF MCNext, MCvars
    <2>5. UNCHANGED rulesVars \/ Ruling!Next
      BY <1>2 DEF MCNext, MCvars
    <2>6. UNCHANGED editsVars \/ Editing!Next
      BY <1>2 DEF MCNext, MCvars
    <2>7. UNCHANGED draftsVars => UNCHANGED Drafts!vars
      BY DEF draftsVars, Drafts!vars, Drafts!lessonVars
    <2>8. UNCHANGED slidesVars => UNCHANGED Slides!vars
      BY DEF slidesVars, Slides!vars, Slides!fileVars, Slides!placeVars, Slides!queueVars,
             Slides!workVars
    <2>9. UNCHANGED hoursVars => UNCHANGED Desk!vars
      BY DEF hoursVars, Desk!vars
    <2>10. UNCHANGED breaksVars => UNCHANGED Breaking!vars
      BY DEF breaksVars, Breaking!vars
    <2>11. UNCHANGED rulesVars => UNCHANGED Ruling!vars
      BY DEF rulesVars, Ruling!vars
    <2>12. UNCHANGED editsVars => UNCHANGED Editing!vars
      BY DEF editsVars, Editing!vars
    <2> QED BY <2>1, <2>2, <2>3, <2>4, <2>5, <2>6, <2>7, <2>8, <2>9, <2>10, <2>11, <2>12
  <1> QED BY <1>1, <1>2, PTL DEF MCSpec, Drafts!Spec, Slides!Spec, Desk!Spec, Breaking!Spec,
                                Ruling!Spec, Editing!Spec

\* In the composition, too, a text is replaced only by who had seen it.
THEOREM AcademicsReplaceKnowingly == MCSpec => TextReplacedKnowingly
  BY EachComponent, TextIsReplacedKnowingly DEF TextReplacedKnowingly

\* While at most two workers serve conversions and none dies in the middle of one, a file
\* that waits for its slides has a job that will be tried or a worker on it; and of the
\* directors' commands one goes on or is found in a deadlock.
THEOREM AcademicsKeepCurriculumSound ==
    ASSUME TwoWorkers, MaxCrashes = 0
    PROVE  MCSpec => []CurriculumSound
  <1>1. Slides!ConversionAssumption /\ Drafts!LessonDraftsAssumption
    BY MCAssumption
  <1>2. Slides!Spec => [](Slides!TypeOK /\ Slides!UnsettledIsQueued)
    BY <1>1, WaitingFilesAreQueued
  <1>3. Drafts!Spec => []Drafts!TypeOK
    BY DraftsTypeCorrect
  <1>4. Drafts!Spec => []Drafts!SomeCommandMoves
    BY <1>1, CommandsNeverAllWait
  <1> QED BY <1>2, <1>3, <1>4, EachComponent, PTL DEF CurriculumSound

\* Breaks of the calendar, cancelled slots and edits of lessons: a lesson that gets a date
\* gets a free one, a new break leaves what was taught where it was and nothing else inside
\* its days, and breaks put no two lessons of a group or of a teacher on one date.
THEOREM AcademicsMoveLessonsFreely == MCSpec => BreaksMoveLessons
  <1>1. OfBreaking!TimetableAssumption
    BY MCAssumption, BreakingTimetable
  <1>2. /\ OfBreaking!Spec => []OfBreaking!NothingScheduled
        /\ OfBreaking!Spec /\ []OfBreaking!NothingScheduled => OfBreaking!DatesAreFree
        /\ OfBreaking!Spec => OfBreaking!BreaksKeepHistory
        /\ OfBreaking!Spec => OfBreaking!BreaksMakeRoom
    BY <1>1, OfBreaking!NoRuleIsSet, OfBreaking!DatesStayFree, OfBreaking!BreaksLeaveHistory,
       OfBreaking!BreaksFindRoom
  <1>3. Breaking!Spec => OfBreaking!Spec
    BY BreakingTimetable, PTL DEF Breaking!Spec, OfBreaking!Spec
  <1>4. OfBreaking!DatesAreFree => Breaking!DatesAreFree
    <2>1. [\A g \in Groups, o \in OfBreaking!Orders :
              LET date == lesson'[g][o].date
              IN date # lesson[g][o].date =>
                    date \notin OfBreaking!Blocked(g)' \cup OfBreaking!Closed(g, breaks')]_(OfBreaking!vars)
          =>
          [\A g \in Groups, o \in Breaking!Orders :
              LET date == lesson'[g][o].date
              IN date # lesson[g][o].date =>
                    date \notin Breaking!Blocked(g)' \cup Breaking!Closed(g, breaks')]_(Breaking!vars)
      BY DEF Breaking!Orders, OfBreaking!Orders, Breaking!Blocked, OfBreaking!Blocked,
             Breaking!Closed, OfBreaking!Closed, Breaking!vars, OfBreaking!vars
    <2> QED BY <2>1, PTL DEF OfBreaking!DatesAreFree, Breaking!DatesAreFree
  <1>5. OfBreaking!BreaksKeepHistory => Breaking!BreaksKeepHistory
    <2>1. [\A b \in breaks' \ breaks : \A g \in OfBreaking!Scope(b.scope), o \in OfBreaking!Orders :
              IF <<g, o>> \in recorded THEN lesson'[g][o] = lesson[g][o]
              ELSE OfBreaking!RulesOf(g) # {} =>
                      lesson'[g][o].date \notin OfBreaking!Max({Today, b.from})..b.to]_(OfBreaking!vars)
          =>
          [\A b \in breaks' \ breaks : \A g \in Breaking!Scope(b.scope), o \in Breaking!Orders :
              IF <<g, o>> \in recorded THEN lesson'[g][o] = lesson[g][o]
              ELSE Breaking!RulesOf(g) # {} =>
                      lesson'[g][o].date \notin Breaking!Max({Today, b.from})..b.to]_(Breaking!vars)
      BY DEF Breaking!Scope, OfBreaking!Scope, Breaking!Orders, OfBreaking!Orders,
             Breaking!RulesOf, OfBreaking!RulesOf, Breaking!Max, OfBreaking!Max, Breaking!vars,
             OfBreaking!vars
    <2> QED BY <2>1, PTL DEF OfBreaking!BreaksKeepHistory, Breaking!BreaksKeepHistory
  <1>6. OfBreaking!BreaksMakeRoom => Breaking!BreaksMakeRoom
    <2>1. [breaks' # breaks =>
              \A g \in Groups, o \in OfBreaking!Orders :
                 lesson'[g][o].date # lesson[g][o].date =>
                    ~OfBreaking!Taken(g, lesson[g][o].teacher, lesson[g][o].date, {<<g, o>>})']_(OfBreaking!vars)
          =>
          [breaks' # breaks =>
              \A g \in Groups, o \in Breaking!Orders :
                 lesson'[g][o].date # lesson[g][o].date =>
                    ~Breaking!Taken(g, lesson[g][o].teacher, lesson[g][o].date, {<<g, o>>})']_(Breaking!vars)
      BY DEF Breaking!Orders, OfBreaking!Orders, Breaking!Taken, OfBreaking!Taken,
             Breaking!vars, OfBreaking!vars
    <2> QED BY <2>1, PTL DEF OfBreaking!BreaksMakeRoom, Breaking!BreaksMakeRoom
  <1> QED BY <1>2, <1>3, <1>4, <1>5, <1>6, EachComponent, PTL DEF BreaksMoveLessons

\* A group has one active rule while one request at a time sets it, and while only dates
\* are edited, by however many requests at once, a group and a teacher are in one lesson at
\* a time.
THEOREM AcademicsTimetableSound == MCSpec => []TimetableSound
  <1>1. /\ OfBreaking!TimetableAssumption /\ OfRuling!TimetableAssumption
        /\ OfEditing!TimetableAssumption /\ \A r, p \in OneRequest : r = p
    BY MCAssumption, BreakingTimetable, RulingTimetable, EditingTimetable
  <1>2. /\ OfBreaking!Spec => [](OfBreaking!TypeOK /\ OfBreaking!TInv)
        /\ OfRuling!Spec => [](OfRuling!TypeOK /\ OfRuling!TInv)
        /\ OfEditing!Spec => [](OfEditing!TypeOK /\ OfEditing!TInv)
    BY <1>1, OfBreaking!TimetableTypeCorrect, OfRuling!TimetableTypeCorrect,
       OfEditing!TimetableTypeCorrect
  <1>3. OfRuling!Spec /\ []OfRuling!SchedulesApart => []OfRuling!OneActiveRule
    BY <1>1, OfRuling!GroupsHaveOneRule
  <1>4. OfRuling!Spec => []OfRuling!SchedulesApart
    BY <1>1, OfRuling!OneRequestIsApart
  <1>5. /\ OfEditing!Spec => []OfEditing!NothingScheduled
        /\ OfEditing!Spec => []OfEditing!NothingReflows
        /\ OfEditing!Spec /\ []OfEditing!NothingScheduled /\ []OfEditing!NothingReflows
              => [](OfEditing!OneLessonAtATime /\ OfEditing!TeacherInOnePlace)
    BY <1>1, OfEditing!NoRuleIsSet, OfEditing!NothingIsMoved, OfEditing!EditsKeepApart
  <1>6. Breaking!Spec => OfBreaking!Spec
    BY BreakingTimetable, PTL DEF Breaking!Spec, OfBreaking!Spec
  <1>7. Ruling!Spec => OfRuling!Spec
    BY RulingTimetable, PTL DEF Ruling!Spec, OfRuling!Spec
  <1>8. Editing!Spec => OfEditing!Spec
    BY EditingTimetable, PTL DEF Editing!Spec, OfEditing!Spec
  <1>9. /\ OfBreaking!TypeOK => Breaking!TypeOK
        /\ OfRuling!TypeOK => Ruling!TypeOK
        /\ OfEditing!TypeOK => Editing!TypeOK
    <2>1. OfBreaking!TypeOK => Breaking!TypeOK
      BY DEF Breaking!TypeOK, OfBreaking!TypeOK, Breaking!Rules, OfBreaking!Rules,
             Breaking!Days, OfBreaking!Days, Breaking!Orders, OfBreaking!Orders
    <2>2. OfRuling!TypeOK => Ruling!TypeOK
      BY DEF Ruling!TypeOK, OfRuling!TypeOK, Ruling!Rules, OfRuling!Rules,
             Ruling!Days, OfRuling!Days, Ruling!Orders, OfRuling!Orders
    <2>3. OfEditing!TypeOK => Editing!TypeOK
      BY DEF Editing!TypeOK, OfEditing!TypeOK, Editing!Rules, OfEditing!Rules,
             Editing!Days, OfEditing!Days, Editing!Orders, OfEditing!Orders
    <2> QED BY <2>1, <2>2, <2>3
  <1>10. OfRuling!OneActiveRule => Ruling!OneActiveRule
    BY DEF Ruling!OneActiveRule, OfRuling!OneActiveRule, Ruling!RulesOf, OfRuling!RulesOf,
           Ruling!Cardinality, OfRuling!Cardinality
  <1>11. /\ OfEditing!OneLessonAtATime => Editing!OneLessonAtATime
         /\ OfEditing!TeacherInOnePlace => Editing!TeacherInOnePlace
    BY DEF Editing!OneLessonAtATime, OfEditing!OneLessonAtATime, Editing!TeacherInOnePlace,
           OfEditing!TeacherInOnePlace, Editing!Orders, OfEditing!Orders
  <1> QED BY <1>2, <1>3, <1>4, <1>5, <1>6, <1>7, <1>8, <1>9, <1>10, <1>11, EachComponent, PTL
          DEF TimetableSound
=============================================================================
