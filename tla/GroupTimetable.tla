----------------------------- MODULE GroupTimetable -----------------------------
(***************************************************************************)
(* The timetable of one school's groups: the rules that say when a group   *)
(* meets, the dates of its curriculum lessons, the cancelled slots and the *)
(* breaks of the school's calendar.                                        *)
(*                                                                         *)
(* All lessons are at one time of the day, so two of them overlap when     *)
(* they have one date.  Cancelling, recovering and the commands on breaks  *)
(* lock the group (advisory lock 7301) and every row of it before they     *)
(* read, so each is one step.  An edit of one lesson locks the group, the  *)
(* teacher it saw before (7302) and the row.  The command that sets a      *)
(* group's rule locks nothing: it reads in one step and writes in another. *)
(***************************************************************************)
EXTENDS Integers, FiniteSets, FiniteSetsExt, Functions

CONSTANTS
    Groups, Teachers, Requests,
    Lessons,        \* how many lessons the group's program has
    LastDay,        \* bound: days a timetable may reach (3660 in the code)
    Today,
    Patterns,       \* the sets of days a choice of weekdays stands for
    Starts,         \* launch and effective dates a request may name
    EditDays,       \* dates an edit may name
    Breaks,         \* the breaks that may be made
    MaxRules, MaxBreaks, MaxSlots, MaxRecorded,     \* bounds
    Scheduling,     \* whether rules are set while the others run
    School, None

Days == 1..LastDay
Orders == 1..Lessons

TimetableAssumption ==
    /\ Lessons \in Nat \ {0} /\ LastDay \in Nat \ {0} /\ Today \in Days
    /\ IsFiniteSet(Groups) /\ MaxRules \in Nat /\ Cardinality(Groups) <= MaxRules
    /\ Patterns \subseteq SUBSET Days /\ Starts \cup EditDays \subseteq Days
    /\ Breaks \subseteq {b \in [scope : Groups \cup {School}, from : Days, to : Days] :
                             b.from <= b.to}
    /\ School \notin Groups /\ None \notin Teachers /\ Scheduling \in BOOLEAN

VARIABLES
    rules,       \* group_schedule_rules that are active
    lesson,      \* lesson_sessions of the curriculum: date (0: none) and teacher
    recorded,    \* the lessons with attendance, homework or status completed
    slots,       \* active lesson_schedule_exceptions: the dates of cancelled lessons
    breaks,      \* active academic_calendar_closures
    request,     \* what each request is about to write
    ids          \* the rule ids given out

vars == <<rules, lesson, recorded, slots, breaks, request, ids>>

Rules == [id : 1..MaxRules, group : Groups, teacher : Teachers, days : Patterns,
          from : Days, to : Days]
Idle == [doing |-> "idle"]

TypeOK ==
    /\ rules \subseteq Rules
    /\ lesson \in [Groups -> [Orders -> [date : 0..LastDay, teacher : Teachers \cup {None}]]]
    /\ recorded \subseteq Groups \X Orders
    /\ slots \subseteq Groups \X Orders \X Days
    /\ breaks \subseteq Breaks
    /\ \A r \in Requests : request[r].doing \in {"idle", "schedule", "open", "edit"}
    /\ ids \in 0..MaxRules

-----------------------------------------------------------------------------
(* Dates. *)

Closed(g, closures) == UNION {b.from..b.to : b \in {c \in closures : c.scope \in {g, School}}}
Blocked(g) == {s[3] : s \in {t \in slots : t[1] = g}}
Kth(S, k) == CHOOSE d \in S : Cardinality({e \in S : e <= d}) = k

\* generate_teaching_dates: the lessons `rows` take the first free days in their order.
TeachingDays(days, start, taken) == {d \in days : d >= start} \ taken
Fit(rows, free) == Cardinality(free) >= Cardinality(rows)
Dates(rows, free) == [o \in rows |-> Kth(free, Cardinality({p \in rows : p <= o}))]

\* get_active_group_schedule: the newest active rule.
RulesOf(g) == {x \in rules : x.group = g}
Rule(g) == CHOOSE x \in RulesOf(g) : \A y \in RulesOf(g) : y.id <= x.id

\* schedule_curriculum_lesson for each lesson that gets a date.
Dated(g, dates, teacher) ==
    [o \in Orders |-> IF o \in DOMAIN dates
                      THEN [date |-> dates[o], teacher |-> teacher] ELSE lesson[g][o]]

\* list_lesson_occurrence_conflicts, list_reflow_occurrence_conflicts.
Taken(g, teacher, date, besides) ==
    \E h \in Groups, p \in Orders :
        /\ <<h, p>> \notin besides /\ lesson[h][p].date = date
        /\ h = g \/ (teacher # None /\ lesson[h][p].teacher = teacher)

Recorded(g) == {o \in Orders : <<g, o>> \in recorded}
Undated(g) == {o \in Orders : lesson[g][o].date = 0}
From(g, date) == {o \in Orders : lesson[g][o].date >= date}

\* Rules that were accepted one after the other: their days or their dates are apart.
Init ==
    \E scheduled \in SUBSET Groups, pattern \in [Groups -> Patterns],
       teacher \in [Groups -> Teachers], start \in [Groups -> Starts] :
      LET days == [g \in Groups |-> TeachingDays(pattern[g], start[g], {})]
          number == CHOOSE f \in [scheduled -> 1..Cardinality(scheduled)] : IsInjective(f)
          rule == [g \in scheduled |->
                     [id |-> number[g], group |-> g, teacher |-> teacher[g],
                      days |-> pattern[g], from |-> start[g], to |-> Kth(days[g], Lessons)]]
      IN /\ \A g \in scheduled : Cardinality(days[g]) >= Lessons
         /\ \A g, h \in scheduled :
              g # h /\ teacher[g] = teacher[h] /\ pattern[g] \cap pattern[h] # {}
                 => rule[g].to < rule[h].from \/ rule[h].to < rule[g].from
         /\ lesson = [g \in Groups |-> [o \in Orders |->
              IF g \in scheduled THEN [date |-> Kth(days[g], o), teacher |-> teacher[g]]
              ELSE [date |-> 0, teacher |-> None]]]
         /\ rules = {rule[g] : g \in scheduled}
         /\ ids = Cardinality(scheduled)
         /\ recorded = {} /\ slots = {} /\ breaks = {}
         /\ request = [r \in Requests |-> Idle]

\* An edit that checked its date holds the group, the teacher and the row.
Edits == {r \in Requests : request[r].doing = "edit"}
GroupIsFree(g) == \A r \in Edits : request[r].group # g
RowIsFree(g, o) == \A r \in Edits : <<request[r].group, request[r].order>> # <<g, o>>

\* record_attendance and the homework scores: the lesson's row must not be locked.
RecordsLesson(g, o) ==
    /\ <<g, o>> \notin recorded /\ RowIsFree(g, o) /\ Cardinality(recorded) < MaxRecorded
    /\ recorded' = recorded \cup {<<g, o>>}
    /\ UNCHANGED <<rules, lesson, slots, breaks, request, ids>>

-----------------------------------------------------------------------------
(* The rule of a group: schedule_group_curriculum. *)

\* _select_schedule_change_lessons: which lessons get a date, and from which day on.
Selected(g, scope, effective) ==
    CASE scope = "from_date" -> Undated(g) \cup From(g, effective)
      [] scope = "all" -> Orders
      [] OTHER -> Orders \ Recorded(g)
Anchor(g, scope, effective, launch) ==
    LET coming == {lesson[g][o].date : o \in From(g, Today) \ Recorded(g)}
        known == {lesson[g][o].date : o \in Recorded(g) \ Undated(g)}
    IN CASE scope = "from_date" -> effective
         [] scope = "all" -> launch
         [] scope = "remaining" -> IF coming # {} THEN Min(coming) ELSE Max({launch, Today})
         [] OTHER -> IF known # {} THEN Max({launch, Max(known) + 1, Today})
                     ELSE IF Recorded(g) # {} THEN Max({launch, Today}) ELSE launch
MovesHistory(g, scope, effective) ==
    scope \in {"all", "from_date"} /\ Selected(g, scope, effective) \cap Recorded(g) # {}

\* _schedule_conflict_message: an active rule of the group or the teacher, other than
\* the one that is replaced, on a day of the week and in a range of dates that overlap.
Conflicts(g, teacher, days, start, end, old) ==
    \E x \in rules :
        /\ x.id # old /\ (x.group = g \/ x.teacher = teacher)
        /\ x.days \cap days # {} /\ x.from <= end /\ start <= x.to

ReadsTimetable(r, g, teacher, days, scope, date, moves, relaunch) ==
    LET existing == IF RulesOf(g) = {} THEN 0 ELSE Rule(g).id
        launch == IF existing # 0 /\ ~relaunch THEN Rule(g).from ELSE date
        rows == Selected(g, scope, date)
        start == Anchor(g, scope, date, launch)
        free == TeachingDays(days, start, Blocked(g) \cup Closed(g, breaks))
    IN /\ Scheduling /\ request[r] = Idle
       /\ existing # 0 => scope # "initial"
       /\ rows # {} /\ (MovesHistory(g, scope, date) => moves) /\ Fit(rows, free)
       /\ LET dates == Dates(rows, free)
              end == dates[Max(rows)]
          IN /\ ~Conflicts(g, teacher, days, start, end, existing)
             /\ request' = [request EXCEPT ![r] =
                   [doing |-> "schedule", group |-> g, teacher |-> teacher, days |-> days,
                    from |-> launch, to |-> end, old |-> existing, dates |-> dates,
                    moves |-> moves]]
       /\ UNCHANGED <<rules, lesson, recorded, slots, breaks, ids>>

WritesTimetable(r) ==
    LET q == request[r] IN
    /\ q.doing = "schedule" /\ ids < MaxRules
    /\ \A o \in DOMAIN q.dates : RowIsFree(q.group, o)
    /\ ids' = ids + 1
    /\ rules' = {x \in rules : x.id # q.old} \cup
                {[id |-> ids + 1, group |-> q.group, teacher |-> q.teacher, days |-> q.days,
                  from |-> q.from, to |-> q.to]}
    /\ lesson' = [lesson EXCEPT ![q.group] = Dated(q.group, q.dates, q.teacher)]
    /\ request' = [request EXCEPT ![r] = Idle]
    /\ UNCHANGED <<recorded, slots, breaks>>

-----------------------------------------------------------------------------
(* One lesson: cancelled, recovered, edited. *)

Ending(g, date) == {IF x = Rule(g) THEN [x EXCEPT !.to = date] ELSE x : x \in rules}

\* _reflow_lesson_sequence: this lesson and all after it, recorded or not, in the
\* order of the curriculum.
Reflow(g, o, start, blocked) ==
    LET rows == o..Lessons
        free == TeachingDays(Rule(g).days, start, blocked \cup Closed(g, breaks))
    IN /\ RulesOf(g) # {} /\ Fit(rows, free)
       /\ lesson' = [lesson EXCEPT ![g] = Dated(g, Dates(rows, free), Rule(g).teacher)]
       /\ rules' = Ending(g, Dates(rows, free)[Lessons])

CancelsLesson(g, o, moves) ==
    LET slot == <<g, o, lesson[g][o].date>> IN
    /\ GroupIsFree(g) /\ lesson[g][o].date # 0 /\ Cardinality(slots) < MaxSlots
    /\ <<g, o>> \in recorded => moves
    /\ \A d \in Days : <<g, o, d>> \notin slots
    /\ slots' = slots \cup {slot}
    /\ Reflow(g, o, lesson[g][o].date + 1, Blocked(g) \cup {lesson[g][o].date})
    /\ UNCHANGED <<recorded, breaks, request, ids>>

RecoversLesson(g, o, moves) ==
    /\ GroupIsFree(g)
    /\ <<g, o>> \in recorded => moves
    /\ \E slot \in slots :
          /\ slot[1] = g /\ slot[2] = o
          /\ slots' = slots \ {slot}
          /\ Reflow(g, o, slot[3], {s[3] : s \in {t \in slots \ {slot} : t[1] = g}})
    /\ UNCHANGED <<recorded, breaks, request, ids>>

\* update_lesson_session: the teacher to lock is read before any lock is taken.
OpensEdit(r, g, o, date, moves) ==
    /\ request[r] = Idle /\ lesson[g][o].date # date
    /\ request' = [request EXCEPT ![r] = [doing |-> "open", group |-> g, order |-> o,
          date |-> date, teacher |-> lesson[g][o].teacher, moves |-> moves]]
    /\ UNCHANGED <<rules, lesson, recorded, slots, breaks, ids>>

\* An edit that trusts the teacher's lock and does not take the group's, and the reverse.
ChecksEditOfTeacher(r) ==
    LET q == request[r] IN
    /\ q.doing = "open"
    /\ request' = [request EXCEPT ![r] =
          IF q.date \notin Blocked(q.group) \cup Closed(q.group, breaks)
                /\ ~Taken(q.group, q.teacher, q.date, {<<q.group, q.order>>})
          THEN [q EXCEPT !.doing = "edit"] ELSE Idle]
    /\ \A p \in Edits : request[p].teacher # q.teacher \/ q.teacher = None
    /\ UNCHANGED <<rules, lesson, recorded, slots, breaks, ids>>

ChecksEdit(r) ==
    LET q == request[r]
        row == lesson[q.group][q.order]
        allowed ==
            /\ <<q.group, q.order>> \in recorded => q.moves
            /\ \A d \in Days : <<q.group, q.order, d>> \notin slots
            /\ q.date \notin Blocked(q.group) \cup Closed(q.group, breaks)
            /\ ~Taken(q.group, row.teacher, q.date, {<<q.group, q.order>>})
    IN /\ q.doing = "open" /\ GroupIsFree(q.group)
       /\ \A p \in Edits : request[p].teacher # q.teacher \/ q.teacher = None
       /\ request' = [request EXCEPT ![r] =
                         IF allowed THEN [q EXCEPT !.doing = "edit"] ELSE Idle]
       /\ UNCHANGED <<rules, lesson, recorded, slots, breaks, ids>>

WritesEdit(r) ==
    LET q == request[r] IN
    /\ q.doing = "edit"
    /\ lesson' = [lesson EXCEPT ![q.group][q.order].date = q.date]
    /\ request' = [request EXCEPT ![r] = Idle]
    /\ UNCHANGED <<rules, recorded, slots, breaks, ids>>
-----------------------------------------------------------------------------
(* Breaks of the school or of one group. *)

Scope(scope) == IF scope = School THEN Groups ELSE {scope}

\* _plan_group_reflow: the unrecorded lessons inside the days, and all after the first of
\* them, get new days; none is planned for a group without a rule.
Affected(g, start, end, rebuild) ==
    LET lower == Max({Today, start})
        later == From(g, lower) \ (Recorded(g) \cup Undated(g))
    IN IF RulesOf(g) = {} THEN {}
       ELSE IF rebuild THEN later \cup (Undated(g) \ Recorded(g))
       ELSE later \ From(g, end + 1)
First(g, start, end, rebuild) ==
    IF rebuild THEN Max({Today, start})
    ELSE Min({lesson[g][o].date : o \in Affected(g, start, end, rebuild)})
\* Only the lessons inside the break, moved where the next ones are.
MovableHistory(g, start, end, rebuild) ==
    IF Affected(g, start, end, rebuild) = {} THEN {}
    ELSE {o \in Min(Affected(g, start, end, rebuild))..Lessons :
             o \in Undated(g) \/ o \in From(g, start)}
Movable(g, start, end, rebuild) ==
    LET affected == Affected(g, start, end, rebuild)
        anchor == First(g, start, end, rebuild)
    IN IF affected = {} THEN {}
       ELSE {o \in Min(affected)..Lessons :
                o \notin Recorded(g) /\ (o \in Undated(g) \/ o \in From(g, anchor))}
HistoryInTheWay(g, start, end, rebuild) ==
    LET affected == Affected(g, start, end, rebuild) IN
    /\ affected # {}
    /\ \E o \in Min(affected)..Lessons :
          o \in Recorded(g) /\ o \in From(g, First(g, start, end, rebuild))
FreeDays(g, start, end, rebuild, closures) ==
    LET fixed == {lesson[g][o].date : o \in Orders \ Movable(g, start, end, rebuild)}
    IN TeachingDays(Rule(g).days, First(g, start, end, rebuild),
                    fixed \cup Blocked(g) \cup Closed(g, closures))

\* _validate_planned_occurrences: the planned dates against the lessons that stay and
\* against each other.
Collides(plan) ==
    LET moved == {m \in Groups \X Orders : m[2] \in DOMAIN plan[m[1]]}
    IN \E m \in moved :
          LET teacher == Rule(m[1]).teacher
              date == plan[m[1]][m[2]]
          IN \/ Taken(m[1], teacher, date, moved)
             \/ \E n \in moved : /\ n # m /\ plan[n[1]][n[2]] = date
                                 /\ n[1] = m[1] \/ Rule(n[1]).teacher = teacher

\* The plan of every group of the scope is made before any is applied.
Plan(scope, start, end, rebuild, closures) ==
    [g \in Groups |->
        IF g \in Scope(scope) /\ Movable(g, start, end, rebuild) # {}
        THEN Dates(Movable(g, start, end, rebuild), FreeDays(g, start, end, rebuild, closures))
        ELSE <<>>]
EnoughDays(scope, start, end, rebuild, closures) ==
    \A g \in Scope(scope) :
        LET rows == Movable(g, start, end, rebuild)
        IN rows # {} => Fit(rows, FreeDays(g, start, end, rebuild, closures))

\* _apply_group_plan asks for the rule's id whenever the group has a dated lesson.
LacksRule(g) == RulesOf(g) = {} /\ Undated(g) # Orders

Applies(plan, scope) ==
    /\ \A g \in Scope(scope) : ~LacksRule(g)
    /\ lesson' = [g \in Groups |->
          IF plan[g] = <<>> THEN lesson[g] ELSE Dated(g, plan[g], Rule(g).teacher)]
    /\ rules' = {IF x.group \in Scope(scope) /\ x = Rule(x.group)
                 THEN LET last == Max({lesson'[x.group][o].date : o \in Orders})
                      IN IF last = 0 THEN x ELSE [x EXCEPT !.to = last]
                 ELSE x : x \in rules}

\* What the command finds against the break; everything else it makes.
Refused(scope, start, end, rebuild, closures) ==
    \/ ~EnoughDays(scope, start, end, rebuild, closures)
    \/ \E g \in Scope(scope) : HistoryInTheWay(g, start, end, rebuild)
    \/ Collides(Plan(scope, start, end, rebuild, closures))

MakesBreak(b) ==
    /\ b \notin breaks /\ Cardinality(breaks) < MaxBreaks
    /\ \A g \in Scope(b.scope) : GroupIsFree(g)
    /\ ~Refused(b.scope, b.from, b.to, FALSE, breaks \cup {b})
    /\ breaks' = breaks \cup {b}
    /\ Applies(Plan(b.scope, b.from, b.to, FALSE, breaks \cup {b}), b.scope)
    /\ UNCHANGED <<recorded, slots, request, ids>>

\* Without a rebuild the lessons stay where they are, and no group is locked.
EndsBreak(b, rebuild) ==
    /\ b \in breaks
    /\ breaks' = breaks \ {b}
    /\ IF rebuild
       THEN /\ \A g \in Scope(b.scope) : GroupIsFree(g)
            /\ ~Refused(b.scope, b.from, b.to, TRUE, breaks')
            /\ Applies(Plan(b.scope, b.from, b.to, TRUE, breaks'), b.scope)
       ELSE UNCHANGED <<rules, lesson>>
    /\ UNCHANGED <<recorded, slots, request, ids>>

ReadsAnyTimetable(r) ==
    \E g \in Groups, teacher \in Teachers, days \in Patterns, date \in Starts,
       scope \in {"initial", "all", "from_date", "remaining"},
       moves \in BOOLEAN, relaunch \in BOOLEAN :
        ReadsTimetable(r, g, teacher, days, scope, date, moves, relaunch)

Next ==
    \/ \E g \in Groups, o \in Orders : RecordsLesson(g, o)
    \/ \E r \in Requests : ReadsAnyTimetable(r)
    \/ \E r \in Requests : WritesTimetable(r)
    \/ \E g \in Groups, o \in Orders, moves \in BOOLEAN : CancelsLesson(g, o, moves)
    \/ \E g \in Groups, o \in Orders, moves \in BOOLEAN : RecoversLesson(g, o, moves)
    \/ \E r \in Requests, g \in Groups, o \in Orders, date \in EditDays, moves \in BOOLEAN :
          OpensEdit(r, g, o, date, moves)
    \/ \E r \in Requests : ChecksEdit(r)
    \/ \E r \in Requests : WritesEdit(r)
    \/ \E b \in Breaks : MakesBreak(b)
    \/ \E b \in Breaks, rebuild \in BOOLEAN : EndsBreak(b, rebuild)

Spec == Init /\ [][Next]_vars

-----------------------------------------------------------------------------
(* Properties. *)

\* A lesson that gets a date gets one outside every break and off every cancelled slot
\* of its group ("visible cancellation slots that must not receive a real lesson",
\* list_blocked_group_dates), whatever was cancelled or closed meanwhile.
DatesAreFree ==
    [][\A g \in Groups, o \in Orders :
          LET date == lesson'[g][o].date
          IN date # lesson[g][o].date =>
                date \notin Blocked(g)' \cup Closed(g, breaks')]_vars

\* A new break leaves no unrecorded lesson inside its days from today on, and leaves
\* every recorded lesson where it was.
BreaksKeepHistory ==
    [][\A b \in breaks' \ breaks : \A g \in Scope(b.scope), o \in Orders :
          IF <<g, o>> \in recorded THEN lesson'[g][o] = lesson[g][o]
          ELSE RulesOf(g) # {} =>
                  lesson'[g][o].date \notin Max({Today, b.from})..b.to]_vars

\* A break that is made or ended with a rebuild puts no lesson on a date that another
\* lesson of its group or of its teacher has.
BreaksMakeRoom ==
    [][breaks' # breaks =>
          \A g \in Groups, o \in Orders :
             lesson'[g][o].date # lesson[g][o].date =>
                ~Taken(g, lesson[g][o].teacher, lesson[g][o].date, {<<g, o>>})']_vars

\* A group has one timetable.
OneActiveRule == \A g \in Groups : Cardinality(RulesOf(g)) <= 1

\* A recorded lesson changes its date only when the request said so ("without silently
\* moving history", _select_schedule_change_lessons).
HistoryMovesKnowingly ==
    [][\A r \in Requests, g \in Groups, o \in Orders :
          WritesTimetable(r) /\ request[r].group = g /\ <<g, o>> \in recorded
                /\ lesson'[g][o].date # lesson[g][o].date
             => request[r].moves]_vars

\* A group is in one lesson at a time ("Group ... already has a class during that time").
OneLessonAtATime ==
    \A g \in Groups, o, p \in Orders :
        o # p /\ lesson[g][o].date # 0 => lesson[g][o].date # lesson[g][p].date

\* A teacher is in one lesson at a time ("... already has a class during that time").
TeacherInOnePlace ==
    \A g, h \in Groups, o, p \in Orders :
        g # h /\ lesson[g][o].teacher # None /\ lesson[g][o].date # 0
              /\ lesson[g][o].teacher = lesson[h][p].teacher
           => lesson[g][o].date # lesson[h][p].date

\* A break that no timetable speaks against can be made ("A closure cannot be applied
\* without violating protected timetable state", CalendarClosureConflictError).
BreaksAreRefusedForAReason ==
    \A b \in Breaks \ breaks :
        ~Refused(b.scope, b.from, b.to, FALSE, breaks \cup {b})
           => \A g \in Scope(b.scope) : ~LacksRule(g)
=============================================================================
