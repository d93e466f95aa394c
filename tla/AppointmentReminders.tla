-------------------------- MODULE AppointmentReminders --------------------------
(***************************************************************************)
(* The browser reminders of one recruitment appointment                    *)
(* (recruitment/notifications.py and notification_repository.py, called by *)
(* appointments/service.py and service.py).                                *)
(*                                                                         *)
(* Every command on an appointment locks its candidate first, so at most   *)
(* one runs: `command`.  A change of the reminder lead locks the one       *)
(* configuration row: `recalculation`.  The two share no lock but those of *)
(* the reminder rows they update.  Each statement of a transaction works   *)
(* on what was committed when it began, waits for the rows another         *)
(* transaction has updated and looks at them again.  A refused command     *)
(* changes nothing and is left out.                                        *)
(***************************************************************************)
EXTENDS Integers, FiniteSets

CONSTANTS
    Creator, Evaluators,  \* the account that books, those who may judge the demo
    Leads,                \* reminder leads a manager may choose
    LastTime,             \* bound: the clock stops here
    LastStart,            \* bound: the latest time an appointment may start
    MaxVersion,           \* bound on writes of the appointment
    MaxConfig,            \* bound on changes of the lead
    Overlaps              \* whether a change of the lead may overlap a command

RemindersAssumption ==
    /\ Creator \notin Evaluators
    /\ Leads \subseteq Nat \ {0}
    /\ LastStart \in Nat /\ LastTime \in 0 .. LastStart
    /\ MaxVersion \in Nat /\ MaxConfig \in Nat
    /\ Overlaps \in BOOLEAN

VARIABLES
    now,
    appointment,    \* its committed row
    reminders,      \* committed reminder rows
    config,         \* the lead and the version of the configuration
    command,        \* the transaction on the appointment, or Idle
    recalculation,  \* the transaction on the configuration, or Idle
    enabled         \* accounts whose browser asks for alerts

vars == <<now, appointment, reminders, config, command, recalculation, enabled>>

Accounts == Evaluators \cup {Creator}
Times == 0 .. LastStart
Idle == [step |-> "idle"]
NoTime == -1

Rows == [status : {"none", "scheduled", "in_progress", "closed"},
         starts : Times \cup {NoTime}, saved : Times \cup {NoTime},
         responsible : Accounts, version : 0 .. MaxVersion]
\* `tells` is the start its text names; the rest of `key` is the dedupe key:
\* config is 0 for a reminder that a command enqueued.
Reminders == [to : Accounts, at : Int, tells : Times, version : 0 .. MaxVersion,
              lead : Leads, config : 0 .. MaxConfig + 1,
              state : {"waiting", "cancelled", "alerted", "read"}]

Key(r) == <<r.to, r.version, r.lead, r.config>>

\* A demo is also the evaluator's; an interview has no evaluator but its creator.
Recipients(row) == {Creator, row.responsible}

Waiting == {r \in reminders : r.state = "waiting"}

\* Reminder rows the open transactions have updated and not yet committed.
HeldBy(tx) == IF tx.step \in {"cancelled", "enqueued"} THEN tx.sees ELSE {}

\* deliver_at has to be later than now, otherwise the booking is short notice.
RemindersOf(row, lead, version, configVersion) ==
    {[to |-> a, at |-> row.starts - lead, tells |-> row.starts, version |-> version,
      lead |-> lead, config |-> configVersion, state |-> "waiting"] :
        a \in {b \in Recipients(row) : row.starts - lead > now}}

\* ON CONFLICT (dedupe_key) DO NOTHING.
Inserted(rows, new) == rows \cup {r \in new : \A q \in rows : Key(q) # Key(r)}
Cancelled(rows, these) ==
    {IF r \in these /\ r.state = "waiting" THEN [r EXCEPT !.state = "cancelled"] ELSE r :
        r \in rows}

-----------------------------------------------------------------------------
Init ==
    /\ now = 0
    /\ appointment = [status |-> "none", starts |-> NoTime, saved |-> NoTime,
                      responsible |-> Creator, version |-> 0]
    /\ reminders = {}
    /\ \E lead \in Leads : config = [lead |-> lead, version |-> 1]
    /\ command = Idle
    /\ recalculation = Idle
    /\ enabled = {}

\* A command has locked candidate and appointment, checked them and written `row`.
Begins(row, reminds) ==
    /\ command.step = "idle"
    /\ Overlaps \/ recalculation.step = "idle"
    /\ appointment.version < MaxVersion
    /\ command' = [step |-> "written", reminds |-> reminds, sees |-> {}, adds |-> {},
                   row |-> [row EXCEPT !.version = appointment.version + 1]]
    /\ UNCHANGED <<now, appointment, reminders, config, recalculation, enabled>>

\* Mutant: a command without an enqueue keeps the old reminders.
KeepsReminders ==
    /\ command.step = "looked"
    /\ command' = [command EXCEPT !.step = "cancelled", !.sees = {}]
    /\ UNCHANGED <<now, appointment, reminders, config, recalculation, enabled>>

\* create_appointment.
Schedules ==
    \E t \in Times, e \in Accounts :
        /\ appointment.status = "none"
        /\ t > now
        /\ Begins([appointment EXCEPT !.status = "scheduled", !.starts = t,
                                      !.responsible = e], TRUE)

\* update_appointment: a new time, a new evaluator, or a note only.
Reschedules ==
    \E t \in Times, e \in Accounts :
        /\ appointment.status = "scheduled"
        /\ t > now
        /\ Begins([appointment EXCEPT !.starts = t, !.responsible = e], TRUE)

\* start_appointment_session.
StartsNow ==
    /\ appointment.status = "scheduled"
    /\ Begins([appointment EXCEPT !.status = "in_progress", !.starts = now,
                                  !.saved = appointment.starts], FALSE)

\* undo_appointment_start.
UndoesStart ==
    /\ appointment.status = "in_progress"
    /\ appointment.saved # NoTime
    /\ Begins([appointment EXCEPT !.status = "scheduled", !.starts = appointment.saved,
                                  !.saved = NoTime], TRUE)

\* change_appointment_status, an outcome, or a decision that cancels what is active.
Closes ==
    /\ appointment.status \in {"scheduled", "in_progress"}
    /\ Begins([appointment EXCEPT !.status = "closed"], FALSE)

\* cancel_appointment_reminders takes its snapshot ...
LooksForReminders ==
    /\ command.step = "written"
    /\ command' = [command EXCEPT !.step = "looked", !.sees = Waiting]
    /\ UNCHANGED <<now, appointment, reminders, config, recalculation, enabled>>

\* ... and has updated the rows when nobody else holds one of them.
CancelsReminders ==
    /\ command.step = "looked"
    /\ command.sees \cap HeldBy(recalculation) = {}
    /\ command' = [command EXCEPT !.step = "cancelled", !.sees = @ \cap Waiting]
    /\ UNCHANGED <<now, appointment, reminders, config, recalculation, enabled>>

\* enqueue_appointment_reminders reads the lead without a lock.
EnqueuesReminders ==
    /\ command.step = "cancelled"
    /\ command' = [command EXCEPT
           !.step = "enqueued",
           !.adds = IF command.reminds
                    THEN RemindersOf(command.row, config.lead, command.row.version, 0)
                    ELSE {}]
    /\ UNCHANGED <<now, appointment, reminders, config, recalculation, enabled>>

CommitsCommand ==
    /\ command.step = "enqueued"
    /\ appointment' = command.row
    /\ reminders' = Inserted(Cancelled(reminders, command.sees), command.adds)
    /\ command' = Idle
    /\ UNCHANGED <<now, config, recalculation, enabled>>

-----------------------------------------------------------------------------
\* update_appointment_reminder_config.
ChangesLead ==
    \E lead \in Leads :
        /\ recalculation.step = "idle"
        /\ Overlaps \/ command.step = "idle"
        /\ config.version <= MaxConfig
        /\ recalculation' = [step |-> "written", lead |-> lead, sees |-> {}, adds |-> {}]
        /\ UNCHANGED <<now, appointment, reminders, config, command, enabled>>

\* The first statement of recalculate_future_appointment_reminders.
FindsFuture ==
    /\ recalculation.step = "written"
    /\ recalculation' = [recalculation EXCEPT
           !.step = "looked",
           !.sees = IF appointment.status = "scheduled" /\ appointment.starts > now
                    THEN Waiting ELSE {}]
    /\ UNCHANGED <<now, appointment, reminders, config, command, enabled>>

CancelsFuture ==
    /\ recalculation.step = "looked"
    /\ recalculation.sees \cap HeldBy(command) = {}
    /\ recalculation' = [recalculation EXCEPT !.step = "cancelled", !.sees = @ \cap Waiting]
    /\ UNCHANGED <<now, appointment, reminders, config, command, enabled>>

\* The second: it skips who has been alerted of this appointment before.
AlertedBefore(a) == \E r \in reminders : r.to = a /\ r.state \in {"alerted", "read"}

InsertsFuture ==
    /\ recalculation.step = "cancelled"
    /\ recalculation' = [recalculation EXCEPT
           !.step = "enqueued",
           !.adds = IF appointment.status = "scheduled"
                    THEN {r \in RemindersOf(appointment, recalculation.lead,
                                            appointment.version, config.version + 1) :
                              ~AlertedBefore(r.to)}
                    ELSE {}]
    /\ UNCHANGED <<now, appointment, reminders, config, command, enabled>>

CommitsLead ==
    /\ recalculation.step = "enqueued"
    /\ config' = [lead |-> recalculation.lead, version |-> config.version + 1]
    /\ reminders' = Inserted(Cancelled(reminders, recalculation.sees), recalculation.adds)
    /\ recalculation' = Idle
    /\ UNCHANGED <<now, appointment, command, enabled>>

-----------------------------------------------------------------------------
\* claim_due_browser_alert_rows: what is due, skipping rows somebody holds.
Due(a) ==
    {r \in Waiting \ (HeldBy(command) \cup HeldBy(recalculation)) :
        /\ r.to = a
        /\ r.at <= now
        /\ appointment.status = "scheduled"
        /\ appointment.starts > now}

ClaimsAlerts(a) ==
    /\ a \in enabled
    /\ Due(a) # {}
    /\ reminders' = {IF r \in Due(a) THEN [r EXCEPT !.state = "alerted"] ELSE r : r \in reminders}
    /\ UNCHANGED <<now, appointment, config, command, recalculation, enabled>>

\* mark_notification_read, mark_candidate_reviewed: only what was shown.
ReadsAlert(a) ==
    \E r \in reminders :
        /\ r.to = a /\ r.state = "alerted"
        /\ reminders' = (reminders \ {r}) \cup {[r EXCEPT !.state = "read"]}
        /\ UNCHANGED <<now, appointment, config, command, recalculation, enabled>>

\* update_browser_preference.
SetsPreference(a) ==
    /\ enabled' = IF a \in enabled THEN enabled \ {a} ELSE enabled \cup {a}
    /\ UNCHANGED <<now, appointment, reminders, config, command, recalculation>>

TimePasses ==
    /\ now < LastTime
    /\ now' = now + 1
    /\ UNCHANGED <<appointment, reminders, config, command, recalculation, enabled>>

CommandSteps == Schedules \/ Reschedules \/ StartsNow \/ UndoesStart \/ Closes
                \/ LooksForReminders \/ CancelsReminders \/ EnqueuesReminders \/ CommitsCommand
LeadSteps == ChangesLead \/ FindsFuture \/ CancelsFuture \/ InsertsFuture \/ CommitsLead

Next ==
    \/ CommandSteps \/ LeadSteps \/ TimePasses
    \/ \E a \in Accounts : ClaimsAlerts(a) \/ ReadsAlert(a) \/ SetsPreference(a)

Spec == Init /\ [][Next]_vars

-----------------------------------------------------------------------------
TypeOK ==
    /\ now \in Times
    /\ appointment \in Rows
    /\ reminders \subseteq Reminders
    /\ \A r, q \in reminders : Key(r) = Key(q) => r = q
    /\ config \in [lead : Leads, version : 1 .. MaxConfig + 1]
    /\ enabled \subseteq Accounts

\* "Create one reminder per recipient" (notifications.py): nobody waits for two
\* reminders of one appointment, however claims come between the statements of a
\* command or of a change of the lead.  It needs ~Overlaps: when a change of the lead
\* overlaps a command, each inserts a reminder the other's snapshot did not show
\* (notification_repository.py:89, :154), and a recipient waits for two.
OneWaitingReminder ==
    \A r, q \in Waiting : r.to = q.to => r = q

\* An alert that reaches a browser names the present time of the appointment, not one
\* it had before it was moved, and goes to somebody who still has a part in it.  It
\* needs ~Overlaps for the same reason.
AlertTellsTheTime ==
    [][\A r \in reminders' :
          r.state = "alerted" /\ r \notin reminders =>
              r.tells = appointment.starts /\ r.to \in Recipients(appointment)]_vars

\* Whoever has a part in a scheduled appointment, and whose reminder is not due
\* yet by the configured lead, has a reminder of its present time waiting
\* (the docstring's other half: "unless this is a short-notice booking").
EveryoneIsReminded ==
    appointment.status = "scheduled" /\ appointment.starts - config.lead > now =>
        \A a \in Recipients(appointment) :
            \E r \in reminders : r.to = a /\ r.tells = appointment.starts /\ r.state # "cancelled"
=============================================================================
