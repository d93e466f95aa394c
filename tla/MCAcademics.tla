-------------------------------- MODULE MCAcademics --------------------------------
(***************************************************************************)
(* A small instance of lesson drafts, presentation conversions, office     *)
(* hours and group timetables. Timetables come three times: with breaks,   *)
(* with rules replaced by one request after the other while a break may    *)
(* commit, and with the lessons of two groups edited by two at once.       *)
(*                                                                         *)
(* A behaviour picks one component and lets the others stand still: the    *)
(* reachable states are the sum of those of the components, not their      *)
(* product. Nothing is lost by it: each module already has the steps of    *)
(* others that touch its rows.                                             *)
(***************************************************************************)
EXTENDS Naturals, TLC

CONSTANTS
    Workers, MaxAttempts, MaxTries, MaxCrashes, Drafted, Materials,
    Directors, Teachers, Students, Requests, OneRequest, Hours, Capacities,
    MaxSlots, MaxBookings, LastHour, Groups, OneGroup, Lessons, LastDay,
    Today, Starts, NoDay, NoBreak, TwoDays, LateDay, NoKey, Curriculum,
    School, None, director1, director2, lesson1, lesson2, student1,
    student2, teacher1, request1, request2, group1, group2, worker1, worker2

VARIABLES
    part,             \* the component a behaviour is about
    \* Drafts
    status, written, drafting, based, rewritten, placed, known, staged,
    request, fresh, missed, locks,
    \* Slides
    conversion, tries, slides, drafted, published, job, charged, owner, phase,
    at, crashes,
    \* Desk
    slots, bookings, hoursRequest, now,
    \* Breaking
    rules, lesson, recorded, breaksSlots, breaks, breaksRequest, ids,
    \* Ruling
    rulesRules, rulesLesson, rulesRecorded, rulesSlots, rulesBreaks,
    rulesRequest, rulesIds,
    \* Editing
    editsRules, editsLesson, editsRecorded, editsSlots, editsBreaks,
    editsRequest, editsIds

draftsVars ==
    <<status, written, drafting, based, rewritten, placed, known, staged,
      request, fresh, missed, locks>>
slidesVars ==
    <<conversion, tries, slides, drafted, published, job, charged, owner,
      phase, at, crashes>>
hoursVars ==
    <<slots, bookings, hoursRequest, now>>
breaksVars ==
    <<rules, lesson, recorded, breaksSlots, breaks, breaksRequest, ids>>
rulesVars ==
    <<rulesRules, rulesLesson, rulesRecorded, rulesSlots, rulesBreaks,
      rulesRequest, rulesIds>>
editsVars ==
    <<editsRules, editsLesson, editsRecorded, editsSlots, editsBreaks,
      editsRequest, editsIds>>

Days == 1..LastDay
EveryDay == {Days}
TwoPatterns == {Days, {d \in Days : d % 2 = 1}}
\* A break of the school in the middle of the lessons, one of a group at their end.
SchoolBreak == {[scope |-> School, from |-> 2, to |-> 3]}
TwoBreaks == SchoolBreak \cup {[scope |-> group1, from |-> 3, to |-> 4]}
\* Two hours that overlap.
MCHours == {[from |-> 1, to |-> 3], [from |-> 2, to |-> 3]}
MCSwap(a, b) == a :> b @@ b :> a
\* Values that no component uses together are exchanged together; the first is the identity.
MCSwaps ==
    {MCSwap(director1, director1),
     MCSwap(director1, director2) @@ MCSwap(worker1, worker2),
     MCSwap(lesson1, lesson2) @@ MCSwap(student1, student2)}
MCKeep(f) == [v \in UNION {DOMAIN g : g \in MCSwaps} |-> IF v \in DOMAIN f THEN f[v] ELSE v]
MCSymmetry == {MCKeep(f) : f \in MCSwaps}

Drafts == INSTANCE LessonDrafts WITH
    Lessons <- Drafted
Slides == INSTANCE PresentationConversion
Desk == INSTANCE OfficeHours WITH
    request <- hoursRequest
Breaking == INSTANCE GroupTimetable WITH
    Patterns <- EveryDay, EditDays <- LateDay, Breaks <- TwoBreaks, Scheduling
    <- FALSE, MaxRules <- 2, MaxBreaks <- 1, MaxRecorded <- 1, Requests <-
    OneRequest, MaxSlots <- 1, slots <- breaksSlots, request <- breaksRequest
Ruling == INSTANCE GroupTimetable WITH
    Groups <- OneGroup, Patterns <- TwoPatterns, EditDays <- NoDay, Breaks <-
    SchoolBreak, Scheduling <- TRUE, MaxRules <- 3, MaxBreaks <- 1,
    MaxRecorded <- 1, Requests <- OneRequest, MaxSlots <- 1, rules <-
    rulesRules, lesson <- rulesLesson, recorded <- rulesRecorded, slots <-
    rulesSlots, breaks <- rulesBreaks, request <- rulesRequest, ids <-
    rulesIds
Editing == INSTANCE GroupTimetable WITH
    Patterns <- EveryDay, EditDays <- TwoDays, Breaks <- NoBreak, Scheduling
    <- FALSE, MaxRules <- 2, MaxBreaks <- 0, MaxRecorded <- 0, MaxSlots <- 0,
    rules <- editsRules, lesson <- editsLesson, recorded <- editsRecorded,
    slots <- editsSlots, breaks <- editsBreaks, request <- editsRequest, ids
    <- editsIds

MCInit ==
    /\ part \in {"drafts", "slides", "hours", "breaks", "rules", "edits"}
    /\ Drafts!Init /\ Slides!Init /\ Desk!Init /\ Breaking!Init /\
       Ruling!Init /\ Editing!Init
    /\ part # "drafts" => \A l \in Drafted : status[l] = "absent"
    /\ part # "breaks" => rules = {}
    /\ part # "rules" => rulesRules = {}
    /\ part # "edits" => editsRules = {}

\* One component moves, all the others stand still.
MCNext ==
    \/ /\ part = "drafts" /\ Drafts!Next
       /\ UNCHANGED <<part, slidesVars, hoursVars, breaksVars, rulesVars,
                        editsVars>>
    \/ /\ part = "slides" /\ Slides!Next
       /\ UNCHANGED <<part, draftsVars, hoursVars, breaksVars, rulesVars,
                        editsVars>>
    \/ /\ part = "hours" /\ Desk!Next
       /\ UNCHANGED <<part, draftsVars, slidesVars, breaksVars, rulesVars,
                        editsVars>>
    \/ /\ part = "breaks" /\ Breaking!Next
       /\ UNCHANGED <<part, draftsVars, slidesVars, hoursVars, rulesVars,
                        editsVars>>
    \/ /\ part = "rules" /\ Ruling!Next
       /\ UNCHANGED <<part, draftsVars, slidesVars, hoursVars, breaksVars,
                        editsVars>>
    \/ /\ part = "edits" /\ Editing!Next
       /\ UNCHANGED <<part, draftsVars, slidesVars, hoursVars, breaksVars,
                        rulesVars>>

MCvars == <<part, draftsVars, slidesVars, hoursVars, breaksVars, rulesVars,
            editsVars>>
MCSpec == MCInit /\ [][MCNext]_MCvars

ASSUME MCAssumption ==
    /\ Slides!ConversionAssumption /\ Drafts!LessonDraftsAssumption /\ Desk!OfficeHoursAssumption
    /\ Breaking!TimetableAssumption /\ Ruling!TimetableAssumption /\ Editing!TimetableAssumption
    /\ \A r, p \in OneRequest : r = p

\* Whoever replaces the text of a draft had seen the text that is replaced.
TextReplacedKnowingly == Drafts!TextReplacedKnowingly

\* A file that waits for its slides has a job that will be tried, or a worker on it: a new
\* attempt never falls on the key of one that is over.  So it is as long as no worker dies in
\* between and at most two work; UnsettledIsQueued tells how a crash or a third worker breaks
\* it.  And of the directors' commands one goes on or is found in a deadlock, though they
\* lock rows in different orders.
CurriculumSound ==
    /\ Drafts!TypeOK /\ Drafts!SomeCommandMoves
    /\ Slides!TypeOK /\ Slides!UnsettledIsQueued

\* A slot takes no more students than its capacity and no student twice, and a teacher's
\* open slots do not overlap, though two requests check before either writes.
HoursSound == Desk!HoursSound

\* Two requests that move lessons or give them to another teacher at once leave no two
\* lessons of a group or of a teacher at one time, and what replaces a group's rule closes
\* the former one, whatever breaks commit between its read and its write. No rule is set
\* while another command is under way: update_group_timetable plans on what it read without
\* a lock (timetable/service.py:198, :259), so with a second command at work the code keeps
\* none of the three.
TimetableSound ==
    /\ Breaking!TypeOK /\ Ruling!TypeOK /\ Editing!TypeOK
    /\ Ruling!OneActiveRule
    /\ Editing!OneLessonAtATime
    /\ Editing!TeacherInOnePlace

\* Lessons are only moved to dates no break, cancellation or history holds, what was taught
\* keeps its date, and a break that commits leaves no unrecorded lesson inside it. As above,
\* no rule is set meanwhile.
BreaksMoveLessons ==
    /\ Breaking!DatesAreFree
    /\ Breaking!BreaksKeepHistory
    /\ Breaking!BreaksMakeRoom
==============================================================================
