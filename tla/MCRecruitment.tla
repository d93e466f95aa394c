------------------------------- MODULE MCRecruitment -------------------------------
(***************************************************************************)
(* A small instance of the pipeline's columns, a candidate's way through   *)
(* it, and appointment reminders. One of the three columns is added later. *)
(* The candidate's behaviours are cut in two: those in which no evaluation *)
(* fails, and those without appointments.  The last command of the         *)
(* appointment is one that takes a start back.                             *)
(*                                                                         *)
(* A behaviour picks one component and lets the others stand still: the    *)
(* reachable states are the sum of those of the components, not their      *)
(* product. Nothing is lost by it: each module already has the steps of    *)
(* others that touch its rows.                                             *)
(***************************************************************************)
EXTENDS TLC

CONSTANTS
    Columns, Added, Cards, Users, MaxHops, Types, Legacy, MaxDecisions,
    MaxFailed, Creator, Evaluators, Leads, MaxConfig, MaxVersion, LastTime,
    LastStart, Overlaps, Home, Bin, None, column1, column2, column3, card1, user1,
    user2, hr, director1

VARIABLES
    part,             \* the component a behaviour is about
    \* Stages
    active, replacement, at, origin, session, holds,
    \* Candidate
    stage, previous, attempts, decisions, approval, appointments, academy,
    promoted, teacher, onboarded, login,
    \* Reminders
    now, appointment, reminders, config, command, recalculation, enabled

columnsVars ==
    <<active, replacement, at, origin, session, holds>>
candidateVars ==
    <<stage, previous, attempts, decisions, approval, appointments, academy,
      promoted, teacher, onboarded, login>>
remindersVars ==
    <<now, appointment, reminders, config, command, recalculation, enabled>>

MCSymmetry == Permutations(Columns \ Added) \cup Permutations(Users)

Stages == INSTANCE PipelineStages
Candidate == INSTANCE CandidatePipeline
Reminders == INSTANCE AppointmentReminders

\* The two cuts of what a candidate goes through.
NobodyFails == \A a \in attempts : a.passed
NobodyInvites == appointments = Candidate!NoAppointments

\* The cut of an appointment: the last write there is room for undoes a start.
LastWriteUndoesAStart ==
    command.step # "idle" /\ command.row.version = MaxVersion =>
        appointment.status = "in_progress" /\ command.row.status = "scheduled"

MCInit ==
    /\ part \in {"columns", "invited", "decided", "reminders"}
    /\ Stages!Init /\ Candidate!Init /\ Reminders!Init
    /\ part \notin {"invited", "decided"} => stage = "new_candidate"
    /\ part # "columns" => \A c \in Cards : at[c] = Home
    /\ part # "reminders" => config.lead = 1

\* One component moves, all the others stand still.
MCNext ==
    \/ /\ part = "columns" /\ Stages!Next
       /\ UNCHANGED <<part, candidateVars, remindersVars>>
    \/ /\ part = "invited" /\ Candidate!Next /\ NobodyFails'
       /\ UNCHANGED <<part, columnsVars, remindersVars>>
    \/ /\ part = "decided" /\ Candidate!Next /\ NobodyInvites'
       /\ UNCHANGED <<part, columnsVars, remindersVars>>
    \/ /\ part = "reminders" /\ Reminders!Next /\ LastWriteUndoesAStart'
       /\ UNCHANGED <<part, columnsVars, candidateVars>>

MCvars == <<part, columnsVars, candidateVars, remindersVars>>
MCSpec == MCInit /\ [][MCNext]_MCvars

ASSUME MCAssumption ==
    /\ Stages!StagesAssumption /\ Candidate!CandidateAssumption
    /\ Reminders!RemindersAssumption

\* Following the replacements of a removed column always ends in an active one, a move is in
\* a deadlock only with who removes a column, and requests that wait do not wait for ever.
ColumnsSound ==
    /\ Stages!TypeOK
    /\ Stages!ReplacementsResolve
    /\ Stages!MovesYieldOnlyToRemovals
    /\ Stages!SomeRequestMoves

\* A removal that commits leaves no card in the column, whoever moved cards meanwhile.
RemovalLeavesNoCard == Stages!RemovalLeavesNoCard

\* The teachers' roster follows the academy profile, a purge leaves nothing open, and a
\* rejection the system recorded has the evaluation it rests on.
CandidateSound ==
    /\ Candidate!TypeOK
    /\ Candidate!RosterFollowsTheProfile
    /\ Candidate!PurgeLeavesNothingOpen
    /\ Candidate!SystemRejectionHasItsEvaluation

\* Nobody is hired but from the Academy or with every evaluation passed, on an approval.
HiresAreEarned == Candidate!HiresAreEarned

\* While no change of the lead overlaps a command on the appointment, nobody waits for two of
\* its reminders; until the lead changes, every command leaves each recipient a reminder of
\* the present time. Claims come at any point of either.
RemindersSound ==
    /\ Reminders!TypeOK
    /\ Reminders!OneWaitingReminder
    /\ config.version = 1 => Reminders!EveryoneIsReminded

\* Under the same condition an alert that goes out tells the time the appointment has when it
\* is claimed, though the appointment was moved since the reminder was written.
AlertTellsTheTime == Reminders!AlertTellsTheTime
==============================================================================
