--------------------------- MODULE CandidatePipeline ---------------------------
(***************************************************************************)
(* One candidate from the application to the teacher roster: board stages, *)
(* evaluations, appointments, hire approvals, final decisions, the Teacher *)
(* Academy row, the teacher row and the teacher's login.                   *)
(*                                                                         *)
(* Every command locks the candidate or compares its version, so a command *)
(* is one step; a refused command is no step.  Some commands of the        *)
(* Academy and of the teacher list write the roster without looking at the *)
(* candidate.                                                              *)
(***************************************************************************)
EXTENDS Naturals, Sequences, FiniteSets

CONSTANTS
    Types,           \* of appointments: interview, demo
    Legacy,          \* whether rows of the time before a change of process exist
    MaxDecisions,    \* final decisions that are not voided, bounds the history
    MaxFailed        \* failed attempts on record

CandidateAssumption ==
    /\ Types \subseteq {"interview", "demo"} /\ Legacy \in BOOLEAN
    /\ MaxDecisions \in Nat /\ MaxFailed \in Nat

VARIABLES
    stage,           \* teacher_candidates.status, "gone" when purged
    previous,        \* the stage of the latest other row of the stage history
    attempts,        \* evaluations on record
    decisions,       \* final decisions that are not voided, oldest first
    approval,        \* the open hire approval
    appointments,    \* the active appointment of each type
    academy,         \* academy_teachers.academy_status
    promoted,        \* promoted_teacher_id is set
    teacher,         \* teachers.status of the candidate's teacher row
    onboarded,       \* the Academy row names the teacher's account
    login            \* accounts.status of that teacher

process == <<previous, attempts, decisions, approval, appointments>>
roster == <<academy, promoted, teacher, onboarded, login>>
vars == <<stage, process, roster>>

Board == {"new_candidate", "responded", "job_interview", "test_and_demo", "under_review"}
Protected == {"teacher_academy", "active_teacher"}
Closed == {"trash_bin", "rejected", "candidate_withdrew"}
Stages == Board \cup Protected \cup Closed
Kinds == {"interview", "subject_test", "demo"}
NoAppointments == [type \in Types |-> "none"]

TypeOK ==
    /\ stage \in Stages \cup {"gone"}
    /\ previous \in Stages
    /\ attempts \subseteq [kind : Kinds, passed : BOOLEAN]
    /\ decisions \in Seq([outcome : Protected \cup Closed, origin : Stages,
                          because : Kinds \cup {"nothing"}])
    /\ Len(decisions) <= MaxDecisions
    /\ approval \in {"none", "requested", "approved"}
    /\ appointments \in [Types -> {"none", "scheduled", "in_progress"}]
    /\ academy \in {"none", "open", "rejected", "trash_bin"}
    /\ promoted \in BOOLEAN
    /\ teacher \in {"none", "academy", "active", "rejected", "trash_bin"}
    /\ onboarded \in BOOLEAN
    /\ login \in {"none", "enabled", "disabled"}

\* candidate_evaluation_state asks whether an attempt with a result exists, so one
\* attempt of a kind and result stands for all of them.
Passed(kind) == [kind |-> kind, passed |-> TRUE]
Failed(kind) == [kind |-> kind, passed |-> FALSE]
AllPassed == \A kind \in Kinds : Passed(kind) \in attempts

\* An applicant; a trainee created in the Academy; a trainee of the time before
\* accounts were provisioned; a candidate whose approval waited for the CEO then.
Init ==
    /\ decisions = <<>> /\ appointments = NoAppointments /\ promoted = FALSE
    /\ previous = "new_candidate"
    /\ \/ /\ stage = "new_candidate" /\ attempts = {} /\ approval = "none"
          /\ academy = "none" /\ teacher = "none" /\ login = "none"
       \/ /\ stage = "teacher_academy" /\ attempts = {} /\ approval = "none"
          /\ academy = "open"
          /\ \/ teacher = "academy" /\ login = "enabled"
             \/ Legacy /\ teacher = "none" /\ login = "none"
       \/ /\ Legacy /\ stage = "under_review" /\ approval = "approved"
          /\ attempts = [kind : Kinds, passed : {TRUE}]
          /\ academy = "none" /\ teacher = "none" /\ login = "none"
    /\ onboarded = (login # "none")

-----------------------------------------------------------------------------
\* update_candidate_stage: a return to new_candidate is dated back to the
\* application, so the latest other row is never one of new_candidate.
Enters(target) ==
    /\ stage' = target
    /\ previous' = IF stage = "new_candidate" THEN previous ELSE stage

Decides(outcome, origin, because) ==
    /\ Len(decisions) < MaxDecisions
    /\ decisions' = Append(decisions,
                           [outcome |-> outcome, origin |-> origin, because |-> because])

\* revoke_open_approvals and cancel_scheduled_appointments.
DropsWhatIsOpen == approval' = "none" /\ appointments' = NoAppointments

MovesCandidate(target) ==
    /\ stage \notin Protected \cup {"gone"}
    /\ target \in Board \cup {"trash_bin"}
    /\ Enters(target)
    /\ IF target = "trash_bin" THEN DropsWhatIsOpen ELSE UNCHANGED <<approval, appointments>>
    /\ UNCHANGED <<attempts, decisions, roster>>

\* make_final_decision with rejected or candidate_withdrew.
ClosesCandidate(outcome) ==
    /\ outcome \in {"rejected", "candidate_withdrew"}
    /\ stage \notin Protected \cup {outcome, "gone"}
    /\ academy = "none" /\ teacher = "none"
    /\ DropsWhatIsOpen
    /\ Enters(outcome)
    /\ Decides(outcome, stage, "nothing")
    /\ UNCHANGED <<attempts, roster>>

-----------------------------------------------------------------------------
(* Recovery and purge. *)

\* restore_stage as _candidate_joins computes it.
RestoreStage ==
    IF stage = "trash_bin" \/ decisions = <<>> THEN previous
    ELSE decisions[Len(decisions)].origin

VoidsLatestClosed ==
    LET closed == {i \in DOMAIN decisions : decisions[i].outcome \in Closed}
    IN  IF stage = "trash_bin" \/ closed = {} THEN UNCHANGED decisions
        ELSE LET last == CHOOSE i \in closed : \A j \in closed : j <= i
             IN  decisions' = SubSeq(decisions, 1, last - 1)
                              \o SubSeq(decisions, last + 1, Len(decisions))

\* restore_teacher_handoff: the roster row leaves the trash, its login works again.
ReopensRoster(kind) ==
    /\ \/ /\ kind = "teacher_academy" /\ academy = "trash_bin" /\ ~promoted
          /\ academy' = "open" /\ UNCHANGED <<promoted, teacher, onboarded>>
       \/ /\ kind = "active_teacher" /\ teacher = "trash_bin"
          /\ teacher' = "active" /\ UNCHANGED <<academy, promoted, onboarded>>
    /\ login' = IF login = "none" THEN "none" ELSE "enabled"

RecoversStage ==
    /\ stage \in Closed
    /\ Enters(IF RestoreStage \in Closed THEN "new_candidate" ELSE RestoreStage)
    /\ VoidsLatestClosed
    /\ UNCHANGED <<attempts, approval, appointments, roster>>
RestoresCandidate ==
    /\ stage \in Closed
    /\ LET to == RestoreStage IN
       CASE to \in Protected /\ stage = "trash_bin" -> Enters(to) /\ ReopensRoster(to)
         [] to \in Protected /\ stage # "trash_bin" ->
              Enters("under_review") /\ UNCHANGED roster
         [] to \in Closed -> Enters("new_candidate") /\ UNCHANGED roster
         [] OTHER -> Enters(to) /\ UNCHANGED roster
    /\ VoidsLatestClosed
    /\ UNCHANGED <<attempts, approval, appointments>>

\* _validate_permanent_delete_row
MayBePurged ==
    LET traineeOnly == teacher = "academy" /\ academy \in {"rejected", "trash_bin"} /\ ~promoted
    IN  /\ academy # "none" => academy \in {"rejected", "trash_bin"} /\ ~promoted
        /\ teacher \in {"none", "rejected", "trash_bin"} \/ traineeOnly

\* permanently_delete_candidate and empty_trash_bin.
PurgesCandidate ==
    /\ stage \in Closed /\ MayBePurged
    /\ stage' = "gone" /\ academy' = "none" /\ onboarded' = FALSE
    /\ IF academy # "none" /\ teacher = "academy" THEN teacher' = "none" /\ login' = "none"
       ELSE UNCHANGED <<teacher, login>>
    /\ attempts' = {} /\ decisions' = <<>> /\ approval' = "none"
    /\ appointments' = NoAppointments
    /\ UNCHANGED <<previous, promoted>>

-----------------------------------------------------------------------------
(* Approvals and hiring. *)

MayBeHired ==
    \/ stage = "teacher_academy" /\ academy # "none"
    \/ stage = "under_review" /\ AllPassed

RequestsApproval ==
    /\ MayBeHired
    /\ approval' = "requested"
    /\ UNCHANGED <<stage, previous, attempts, decisions, appointments, roster>>

ReturnsApproval ==
    /\ stage # "gone" /\ approval = "requested"
    /\ approval' = "none"
    /\ UNCHANGED <<stage, previous, attempts, decisions, appointments, roster>>

\* ensure_active_teacher_intake
EntersActiveRoster ==
    /\ teacher' = "active"
    /\ login' = IF teacher \notin {"none", "active"} /\ login # "none" THEN "enabled" ELSE login
    /\ UNCHANGED <<academy, promoted, onboarded>>

\* review_approval with approved; make_final_decision with active_teacher does the
\* same with an approval of the time before.
ApprovesUnchecked ==
    /\ stage # "gone" /\ approval # "none"
    /\ EntersActiveRoster
    /\ Enters("active_teacher")
    /\ Decides("active_teacher", stage, "nothing")
    /\ approval' = "none"
    /\ UNCHANGED <<attempts, appointments>>
ApprovesHire ==
    /\ approval # "none" /\ MayBeHired
    /\ EntersActiveRoster
    /\ Enters("active_teacher")
    /\ Decides("active_teacher", stage, "nothing")
    /\ approval' = "none"
    /\ UNCHANGED <<attempts, appointments>>

\* provision_academy_account on an open Academy row.
Provisions ==
    /\ onboarded' = TRUE
    /\ login' = IF onboarded THEN login ELSE "enabled"
    /\ teacher' = IF teacher = "none" THEN "academy" ELSE teacher

\* make_final_decision with teacher_academy: ensure_academy_intake, then the account.
PlacesInAcademy ==
    /\ stage = "under_review" /\ AllPassed
    /\ academy # "trash_bin"
    /\ academy' = "open"
    /\ Provisions
    /\ Enters("teacher_academy")
    /\ Decides("teacher_academy", stage, "nothing")
    /\ UNCHANGED <<attempts, approval, appointments, promoted>>

-----------------------------------------------------------------------------
(* Evaluations. *)

\* _add_record, for an appointment that was started or without one.
CompletesAppointment(kind) ==
    \/ UNCHANGED appointments
    \/ /\ kind \in Types /\ appointments[kind] = "in_progress"
       /\ appointments' = [appointments EXCEPT ![kind] = "none"]

RecordsPass(kind) ==
    /\ stage # "gone"
    /\ attempts' = attempts \cup {Passed(kind)}
    /\ CompletesAppointment(kind)
    /\ CASE kind = "interview" /\ stage \in {"responded", "job_interview"} ->
              Enters("test_and_demo")
         [] kind = "subject_test" /\ stage = "test_and_demo" /\ Passed("demo") \in attempts ->
              Enters("under_review")
         [] OTHER -> UNCHANGED <<stage, previous>>
    /\ UNCHANGED <<decisions, approval, roster>>

\* A kind fails once more only after its failed attempt was deleted: a bound of the model,
\* _add_record (evaluations/service.py:303) inserts any number of failed attempts.
RecordsFailure(kind) ==
    /\ Failed(kind) \notin attempts /\ Cardinality({a \in attempts : ~a.passed}) < MaxFailed
    /\ attempts' = attempts \cup {Failed(kind)}
    /\ \/ /\ stage = "teacher_academy"
          /\ CompletesAppointment(kind)
          /\ UNCHANGED <<stage, previous, decisions, approval>>
       \/ /\ stage \in Board
          /\ DropsWhatIsOpen
          /\ Enters("rejected")
          /\ Decides("rejected", stage, kind)
    /\ UNCHANGED roster

\* What delete_evaluation makes of the stage from the attempts that are left.
Recalculated(left, restored) ==
    IF \E kind \in Kinds : Failed(kind) \in left THEN "rejected"
    ELSE IF \A kind \in Kinds : Passed(kind) \in left THEN "under_review"
    ELSE IF Passed("interview") \in left THEN "test_and_demo"
    ELSE IF stage \in {"new_candidate", "responded"} THEN stage
    ELSE IF restored \in {"rejected", "test_and_demo", "under_review"} THEN "job_interview"
    ELSE restored

DeletesAttempt(attempt, system) ==
    LET left == attempts \ {attempt}
        to == IF \/ stage \in Protected \cup {"candidate_withdrew", "trash_bin"}
                 \/ stage = "rejected" /\ ~system
              THEN stage
              ELSE Recalculated(left, IF system THEN decisions[Len(decisions)].origin ELSE stage)
    IN  /\ attempts' = left
        /\ IF to = stage THEN UNCHANGED <<stage, previous>> ELSE Enters(to)
        /\ decisions' = IF system THEN SubSeq(decisions, 1, Len(decisions) - 1) ELSE decisions
        /\ UNCHANGED <<approval, appointments, roster>>

IsSystem(d, attempt) == ~attempt.passed /\ d.because = attempt.kind

DeletesEvaluation(attempt) ==
    /\ stage # "gone" /\ attempt \in attempts
    /\ LET system == \E i \in DOMAIN decisions : IsSystem(decisions[i], attempt)
       IN  /\ system => stage = "rejected" /\ IsSystem(decisions[Len(decisions)], attempt)
           /\ DeletesAttempt(attempt, system)

-----------------------------------------------------------------------------
(* Appointments. *)

SetsAppointment(type, from, to) ==
    /\ stage # "gone"
    /\ appointments[type] \in from
    /\ appointments' = [appointments EXCEPT ![type] = to]
    /\ UNCHANGED <<attempts, decisions, approval, roster>>

BookableIn(type) ==
    IF type = "interview" THEN {"responded", "job_interview", "test_and_demo", "teacher_academy"}
    ELSE {"job_interview", "test_and_demo", "teacher_academy"}

CreatesAppointment(type) ==
    /\ stage \in BookableIn(type)
    /\ SetsAppointment(type, {"none"}, "scheduled")
    /\ UNCHANGED <<stage, previous>>

\* schedule_stage_move takes a card from any other stage, a closed one included.
SchedulesStageMove(type) ==
    LET to == IF type = "interview" THEN "job_interview" ELSE "test_and_demo"
    IN  /\ stage \notin Protected \cup {to}
        /\ SetsAppointment(type, {"none"}, "scheduled")
        /\ Enters(to)

StartsSession(type) ==
    SetsAppointment(type, {"scheduled"}, "in_progress") /\ UNCHANGED <<stage, previous>>
UndoesStart(type) ==
    SetsAppointment(type, {"in_progress"}, "scheduled") /\ UNCHANGED <<stage, previous>>
EndsAppointment(type) ==
    SetsAppointment(type, {"scheduled", "in_progress"}, "none") /\ UNCHANGED <<stage, previous>>

-----------------------------------------------------------------------------
(* Leaving the rosters. *)

Disables == login' = IF login = "none" THEN "none" ELSE "disabled"

\* close_teacher_handoff
ClosesHandoff(outcome) ==
    /\ outcome \in {"trash_bin", "rejected"}
    /\ \/ /\ stage = "teacher_academy" /\ academy = "open" /\ ~promoted
          /\ outcome = "trash_bin" /\ academy' = outcome /\ UNCHANGED teacher
       \/ /\ stage = "active_teacher" /\ teacher = "active"
          /\ teacher' = outcome /\ UNCHANGED academy
    /\ Disables
    /\ DropsWhatIsOpen
    /\ Enters(outcome)
    /\ IF outcome = "rejected" THEN Decides(outcome, stage, "nothing")
       ELSE UNCHANGED decisions
    /\ UNCHANGED <<attempts, promoted, onboarded>>

\* remove_academy_teacher
RemovesTrainee ==
    /\ stage = "teacher_academy" /\ academy \notin {"none", "rejected"}
    /\ ~promoted /\ teacher = "none"
    /\ academy' = "rejected"
    /\ DropsWhatIsOpen
    /\ Enters("rejected")
    /\ Decides("rejected", "teacher_academy", "nothing")
    /\ UNCHANGED <<attempts, promoted, teacher, onboarded, login>>

-----------------------------------------------------------------------------
(* Commands that write the roster and do not look at the candidate. *)

\* update_academy_status, and the assessments whose decision is a rejection.
SetsAcademyStatus(status) ==
    /\ academy # "none" /\ status \in {"open", "rejected"}
    /\ academy' = status
    /\ UNCHANGED <<stage, process, promoted, teacher, onboarded, login>>

\* onboard_recruitment_academy_teacher
Onboards ==
    /\ academy = "open" /\ stage \notin Closed
    /\ Provisions
    /\ UNCHANGED <<stage, process, academy, promoted>>

\* promote_academy_teacher; a trainee without an account becomes a teacher row
\* that is not linked to the candidate.
Promotes ==
    /\ academy = "open" /\ ~promoted /\ stage \notin Closed
    /\ promoted' = TRUE
    /\ teacher' = IF teacher = "none" THEN "none" ELSE "active"
    /\ UNCHANGED <<stage, process, academy, onboarded, login>>

\* provision_recruitment_teacher_account
ProvisionsTeacher ==
    /\ teacher = "active" /\ login = "none"
    /\ login' = "enabled"
    /\ UNCHANGED <<stage, process, academy, promoted, teacher, onboarded>>

\* activate_disabled_teacher_accounts, whenever the teacher list is read.
RepairsLogins ==
    /\ login = "disabled"
    /\ login' = "enabled"
    /\ UNCHANGED <<stage, process, academy, promoted, teacher, onboarded>>

-----------------------------------------------------------------------------
Next ==
    \/ \E s \in Stages :
          MovesCandidate(s) \/ ClosesCandidate(s) \/ ClosesHandoff(s)
    \/ RestoresCandidate \/ PurgesCandidate
    \/ RequestsApproval \/ ReturnsApproval \/ ApprovesHire \/ PlacesInAcademy
    \/ \E kind \in Kinds : RecordsPass(kind) \/ RecordsFailure(kind)
    \/ \E attempt \in attempts : DeletesEvaluation(attempt)
    \/ \E type \in Types :
          \/ CreatesAppointment(type) \/ SchedulesStageMove(type)
          \/ StartsSession(type) \/ UndoesStart(type) \/ EndsAppointment(type)
    \/ RemovesTrainee
    \/ \E status \in {"open", "rejected"} : SetsAcademyStatus(status)
    \/ Onboards \/ Promotes \/ ProvisionsTeacher \/ RepairsLogins

Spec == Init /\ [][Next]_vars

-----------------------------------------------------------------------------
(* Properties. *)

\* A hired candidate has an active teacher row and a trainee an Academy row that is
\* not in the trash, whatever way the candidate came back to the stage.
RosterFollowsTheProfile ==
    /\ stage = "active_teacher" => teacher = "active"
    /\ stage = "teacher_academy" => academy \notin {"none", "trash_bin"}

\* Nobody is hired but from the Academy or with every evaluation passed, on an
\* approval that is then used up; only the trash gives a hired teacher back.
HiresAreEarned ==
    [][stage # "active_teacher" /\ stage' = "active_teacher" =>
          \/ stage = "trash_bin" /\ teacher = "trash_bin"
          \/ /\ approval # "none" /\ approval' = "none"
             /\ stage = "teacher_academy" \/ AllPassed]_vars

\* A rejection that an evaluation caused and that still stands has its evaluation.
SystemRejectionHasItsEvaluation ==
    \A i \in DOMAIN decisions :
        decisions[i].because # "nothing" => Failed(decisions[i].because) \in attempts

\* A purged candidate leaves no teacher behind who still works or is in training.
PurgeLeavesNothingOpen == stage = "gone" => teacher \in {"none", "rejected", "trash_bin"}

\* "Only terminal outcomes cancel a scheduled interview/demo", says move_candidate,
\* and every way to reject cancels: a rejected candidate has nothing open.
RejectedHasNothingOpen ==
    stage = "rejected" => approval = "none" /\ appointments = NoAppointments

\* remove_academy_teacher calls a candidate in the Academy with a rejected Academy
\* row inconsistent: the Academy's own commands do not make one.
TraineeIsOnTheRoster == stage = "teacher_academy" => academy # "rejected"

\* A trainee whose Academy row is open can be removed from the Academy.
TraineesCanBeRemoved ==
    stage = "teacher_academy" /\ academy = "open" /\ ~promoted /\ Len(decisions) < MaxDecisions
        => ENABLED RemovesTrainee

\* A login that the repair of the teacher list switches on was "never usable".
ClosedTeacherStaysDisabled ==
    [][login = "disabled" /\ teacher \in {"rejected", "trash_bin"} /\ stage = stage'
          => login' # "enabled"]_vars

\* A candidate placed in the Academy gets an account that works.
TraineeCanSignIn ==
    [][stage = "under_review" /\ stage' = "teacher_academy" => login' = "enabled"]_vars
=============================================================================
