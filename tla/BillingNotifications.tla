-------------------------- MODULE BillingNotifications --------------------------
(***************************************************************************)
(* The Telegram messages of one enforcement stage of one invoice           *)
(* (_enqueue_notifications of finance/enforcement.py and the job           *)
(* send_billing_notification of finance/job_handlers.py).                  *)
(*                                                                         *)
(* The stage is announced again and again: by its job, by a retry of it    *)
(* and by every reconciliation of a held schedule.  An announcement is one *)
(* transaction under the schedule's lock.  A delivery has one job (its     *)
(* idempotency key names the delivery); the worker reads the delivery in   *)
(* one transaction, sends, and writes the outcome in another, so anything  *)
(* may happen in between.  The outbox retries a job that raised or whose   *)
(* worker crashed, up to a limit (see Outbox).                             *)
(***************************************************************************)
EXTENDS Naturals, FiniteSets

CONSTANTS
    People,       \* who may belong to the debtor's household; targets are walked in this order
    Chats,        \* Telegram users
    MaxAttempts,  \* max_attempts of the job
    MaxSends,     \* bound on messages to one Telegram user
    Moves         \* whether households and Telegram links change meanwhile

NoChat == "no chat"

NotificationsAssumption ==
    /\ People \subseteq Nat
    /\ NoChat \notin Chats
    /\ MaxAttempts \in Nat \ {0} /\ MaxSends \in Nat
    /\ Moves \in BOOLEAN

VARIABLES
    payable,    \* the invoice is open and has a balance
    household,  \* the present targets of the schedule
    chat,       \* the Telegram user linked to each person, if any
    delivery,   \* the row of each person for the stage
    job,        \* its job in the outbox
    messages    \* messages each Telegram user has received

vars == <<payable, household, chat, delivery, job, messages>>

NoDelivery == [status |-> "none", chat |-> NoChat]
NoSendJob == [state |-> "none", attempts |-> 0, sees |-> NoChat]

-----------------------------------------------------------------------------
(* Announcing the stage. *)

\* Of the targets with one Telegram user the first in the list is told;
\* a mutant tells all.
Earlier(p) == {q \in household : q < p /\ chat[q] = chat[p]}
ToldAll(p) == chat[p] # NoChat
Told(p) == chat[p] # NoChat /\ Earlier(p) = {}

\* insert_notification_delivery keeps an existing row; then a target without a
\* chat, or whose chat is told already, is marked as skipped.
AnnouncedRow(p) ==
    LET row == IF delivery[p].status = "none"
               THEN [status |-> "pending", chat |-> chat[p]]
               ELSE delivery[p]
    IN  IF Told(p) THEN row ELSE [row EXCEPT !.status = "skipped"]

\* enqueue_on_connection: a second job with the same key is not inserted.
AnnouncedJob(p) ==
    IF Told(p) /\ job[p].state = "none" THEN [NoSendJob EXCEPT !.state = "queued"] ELSE job[p]

Announces ==
    /\ payable
    /\ delivery' = [p \in People |-> IF p \in household THEN AnnouncedRow(p) ELSE delivery[p]]
    /\ job' = [p \in People |-> IF p \in household THEN AnnouncedJob(p) ELSE job[p]]
    /\ UNCHANGED <<payable, household, chat, messages>>

-----------------------------------------------------------------------------
(* The job. *)

Ends(p, status) ==
    /\ delivery' = [delivery EXCEPT ![p].status = status]
    /\ UNCHANGED <<payable, household, chat>>

\* The outbox claims the job and the handler reads the delivery: sent or skipped
\* ends it.
FindsSettled(p) ==
    /\ job[p].state = "queued"
    /\ delivery[p].status \in {"sent", "skipped"}
    /\ job' = [job EXCEPT ![p].state = "done"]
    /\ UNCHANGED <<payable, household, chat, delivery, messages>>

\* Neither a chat nor an invoice to be paid: skipped.
Skips(p) ==
    /\ job[p].state = "queued"
    /\ delivery[p].status \in {"pending", "failed"}
    /\ delivery[p].chat = NoChat \/ ~payable
    /\ job' = [job EXCEPT ![p].state = "done"]
    /\ Ends(p, "skipped")
    /\ UNCHANGED messages

\* The handler has decided to send; its transaction is over.
Decides(p) ==
    /\ job[p].state = "queued"
    /\ delivery[p].status \in {"pending", "failed"}
    /\ delivery[p].chat # NoChat /\ payable
    /\ job' = [job EXCEPT ![p] = [state |-> "sending", attempts |-> @.attempts + 1,
                                  sees |-> delivery[p].chat]]
    /\ UNCHANGED <<payable, household, chat, delivery, messages>>

\* Telegram has taken the message.
Sends(p) ==
    /\ job[p].state = "sending"
    /\ messages[job[p].sees] < MaxSends
    /\ messages' = [messages EXCEPT ![job[p].sees] = @ + 1]
    /\ job' = [job EXCEPT ![p].state = "sent"]
    /\ UNCHANGED <<payable, household, chat, delivery>>

\* Telegram has refused it, or it never arrived.
Again(p) == IF job[p].attempts < MaxAttempts THEN "queued" ELSE "dead"
Fails(p) ==
    /\ job[p].state = "sending"
    /\ job' = [job EXCEPT ![p].state = Again(p)]
    /\ Ends(p, "failed")
    /\ UNCHANGED messages

\* The outcome is written whatever the row says by now.
Records(p) ==
    /\ job[p].state = "sent"
    /\ job' = [job EXCEPT ![p].state = "done"]
    /\ Ends(p, "sent")
    /\ UNCHANGED messages

\* The worker crashes, before or after the message has gone.
Crashes(p) ==
    /\ Moves
    /\ job[p].state \in {"sending", "sent"}
    /\ job' = [job EXCEPT ![p].state = Again(p)]
    /\ UNCHANGED <<payable, household, chat, delivery, messages>>

-----------------------------------------------------------------------------
(* Around it. *)

InvoiceIsPaid ==
    /\ payable
    /\ payable' = FALSE
    /\ UNCHANGED <<household, chat, delivery, job, messages>>

HouseholdChanges(p) ==
    /\ Moves
    /\ household' = IF p \in household THEN household \ {p} ELSE household \cup {p}
    /\ UNCHANGED <<payable, chat, delivery, job, messages>>

LinkChanges(p) ==
    \E c \in Chats \cup {NoChat} :
        /\ Moves
        /\ chat[p] # c
        /\ chat' = [chat EXCEPT ![p] = c]
        /\ UNCHANGED <<payable, household, delivery, job, messages>>

Init ==
    /\ payable = TRUE
    /\ household \in SUBSET People
    /\ chat \in [People -> Chats \cup {NoChat}]
    /\ delivery = [p \in People |-> NoDelivery]
    /\ job = [p \in People |-> NoSendJob]
    /\ messages = [c \in Chats |-> 0]

JobSteps(p) ==
    FindsSettled(p) \/ Skips(p) \/ Decides(p) \/ Sends(p) \/ Fails(p) \/ Records(p) \/ Crashes(p)

Next ==
    \/ Announces
    \/ InvoiceIsPaid
    \/ \E p \in People : JobSteps(p) \/ HouseholdChanges(p) \/ LinkChanges(p)

Spec == Init /\ [][Next]_vars

\* Every announcement that is due is made (stage job or reconciliation) and the
\* outbox runs its jobs.
FairSpec == Spec /\ WF_vars(Announces) /\ \A p \in People : WF_vars(JobSteps(p))

-----------------------------------------------------------------------------
TypeOK ==
    /\ payable \in BOOLEAN
    /\ household \subseteq People
    /\ chat \in [People -> Chats \cup {NoChat}]
    /\ delivery \in [People -> [status : {"none", "pending", "sent", "skipped", "failed"},
                                chat : Chats \cup {NoChat}]]
    /\ job \in [People -> [state : {"none", "queued", "sending", "sent", "done", "dead"},
                           attempts : 0 .. MaxAttempts, sees : Chats \cup {NoChat}]]
    /\ messages \in [Chats -> 0 .. MaxSends]

\* However often the stage is announced, a Telegram user gets one message of it:
\* as long as the household and its links stay and no worker crashes.
OneMessageEach == \A c \in Chats : messages[c] <= 1

\* A delivery that is recorded as sent has been received by the Telegram user it
\* names.
SentWasReceived ==
    \A p \in People : delivery[p].status = "sent" => messages[delivery[p].chat] > 0

\* While the invoice stays unpaid, a Telegram user of the household is told, or
\* the outbox has given the job up.
MembersAreTold ==
    \A c \in Chats :
        (\E p \in household : chat[p] = c)
            ~> \/ ~payable \/ messages[c] > 0
               \/ \E q \in household : chat[q] = c /\ job[q].state = "dead"
=============================================================================
