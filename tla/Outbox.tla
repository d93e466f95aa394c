------------------------------- MODULE Outbox --------------------------------
(***************************************************************************)
(* The durable job queue: the table msi_v2.outbox_jobs and the worker      *)
(* processes that claim, execute and settle its rows.                      *)
(*                                                                         *)
(* Every PostgreSQL transaction of the code is one action.  A worker's     *)
(* loop is NOT one action: the claim commits first, then the claimed batch *)
(* is executed one job at a time, and for each job the handler's own       *)
(* transaction commits before the transaction that records the outcome.    *)
(* Between any two of these the worker may crash and leases may expire.    *)
(*                                                                         *)
(* Wall-clock time is abstracted to what the queries compare with now():   *)
(* whether available_at has passed (due) and whether lease_expires_at has  *)
(* passed (leaseUp).  Either may become true at any moment, so a handler   *)
(* may outlive its lease.                                                  *)
(***************************************************************************)
EXTENDS Naturals, FiniteSets

CONSTANTS
    Jobs,          \* idempotency keys of the jobs that may be enqueued
    Workers,       \* worker processes (and the thread embedded in the web process)
    WorkerIds,     \* values of lease_owner
    IdOf,          \* the worker_id each process runs with (WORKER_ID or host:pid)
    Serves,        \* the jobs whose topic a process's allowed_topics admit
    Handled,       \* the jobs whose topic has a registered handler
    MaxAttempts,   \* max_attempts of each job
    BatchSize,     \* WORKER_BATCH_SIZE
    MaxReplays,    \* bound: operator replays of one job
    NoOwner,       \* NULL lease_owner
    NoJob          \* a process that executes nothing

ASSUME OutboxAssumption ==
    /\ IdOf \in [Workers -> WorkerIds]
    /\ Serves \in [Workers -> SUBSET Jobs]
    /\ Handled \subseteq Jobs
    /\ MaxAttempts \in [Jobs -> Nat \ {0}]
    /\ BatchSize \in Nat \ {0}
    /\ MaxReplays \in Nat
    /\ NoOwner \notin WorkerIds
    /\ NoJob \notin Jobs

\* A deployment runs finitely many processes.
ASSUME FiniteWorkers == IsFiniteSet(Workers)

VARIABLES
    status,        \* the row's status, "absent" before the insert
    attempts,      \* the row's attempts
    owner,         \* the row's lease_owner
    leaseUp,       \* lease_expires_at <= now(), for a leased row
    due,           \* available_at <= now()
    phase,         \* where each process stands in its loop
    batch,         \* claimed jobs the process has not started yet
    job,           \* the job the process is executing
    seen,          \* JobRecord.attempts, as read when the process claimed the job
    performed,     \* history: committed handler effects of each job
    started,       \* history: handler invocations of each job
    replays        \* history: operator replays of each job

rowVars  == <<status, attempts, owner, leaseUp, due>>
procVars == <<phase, batch, job, seen>>
histVars == <<performed, started, replays>>
vars == <<rowVars, procVars, histVars>>

Statuses == {"absent", "pending", "running", "retry", "completed", "dead"}
Phases == {"ready", "handling", "handled", "raised", "stopped"}

TypeOK ==
    /\ status \in [Jobs -> Statuses]
    /\ attempts \in [Jobs -> Nat]
    /\ owner \in [Jobs -> WorkerIds \cup {NoOwner}]
    /\ leaseUp \in [Jobs -> BOOLEAN]
    /\ due \in [Jobs -> BOOLEAN]
    /\ phase \in [Workers -> Phases]
    /\ batch \in [Workers -> SUBSET Jobs]
    /\ job \in [Workers -> Jobs \cup {NoJob}]
    /\ seen \in [Workers -> [Jobs -> Nat]]
    /\ performed \in [Jobs -> Nat]
    /\ started \in [Jobs -> Nat]
    /\ replays \in [Jobs -> Nat]

Init ==
    /\ status = [j \in Jobs |-> "absent"]
    /\ attempts = [j \in Jobs |-> 0]
    /\ owner = [j \in Jobs |-> NoOwner]
    /\ leaseUp = [j \in Jobs |-> FALSE]
    /\ due = [j \in Jobs |-> FALSE]
    /\ phase = [p \in Workers |-> "ready"]
    /\ batch = [p \in Workers |-> {}]
    /\ job = [p \in Workers |-> NoJob]
    /\ seen = [p \in Workers |-> [j \in Jobs |-> 0]]
    /\ performed = [j \in Jobs |-> 0]
    /\ started = [j \in Jobs |-> 0]
    /\ replays = [j \in Jobs |-> 0]

-----------------------------------------------------------------------------
(* The table's operations. *)

\* insert_job: ON CONFLICT (idempotency_key) DO NOTHING, so a second insert of
\* the same key changes nothing, whatever became of the first.
InsertJob(j) ==
    /\ status[j] = "absent"
    /\ status' = [status EXCEPT ![j] = "pending"]
    /\ \E now \in BOOLEAN : due' = [due EXCEPT ![j] = now]
    /\ UNCHANGED <<attempts, owner, leaseUp, procVars, histVars>>

\* release_expired_leases: the running jobs of the process's topics whose lease
\* has run out, and what becomes of them.
ExpiredUnlessFinal(p) ==
    {j \in Serves[p] : status[j] = "running" /\ leaseUp[j] /\ attempts[j] < MaxAttempts[j]}
ReleasedOffByOne(j) == IF attempts[j] > MaxAttempts[j] THEN "dead" ELSE "retry"
ReleasedEarly(j) == IF attempts[j] + 1 >= MaxAttempts[j] THEN "dead" ELSE "retry"
Expired(p) == {j \in Serves[p] : status[j] = "running" /\ leaseUp[j]}
Released(j) == IF attempts[j] >= MaxAttempts[j] THEN "dead" ELSE "retry"

\* claim_due_jobs, evaluated after the release in the same transaction: a job
\* released to "retry" is available at once.
Claimable(p) ==
    {j \in Serves[p] : status[j] \in {"pending", "retry"} /\ due[j]}
        \cup {j \in Expired(p) : Released(j) = "retry"}

\* attempts = job.attempts + 1.
ChargedNothing(j) == attempts[j]
Charged(j) == attempts[j] + 1

\* claim_jobs: one transaction.  Rows locked by another transaction are skipped,
\* so any part of the claimable rows within the batch limit may be returned.
Claim(p, claimed) ==
    /\ phase[p] = "ready" /\ batch[p] = {}
    /\ claimed \subseteq Claimable(p)
    /\ Cardinality(claimed) <= BatchSize
    /\ claimed \cup Expired(p) # {}
    /\ status' = [j \in Jobs |-> IF j \in claimed THEN "running"
                                 ELSE IF j \in Expired(p) THEN Released(j)
                                 ELSE status[j]]
    /\ attempts' = [j \in Jobs |-> IF j \in claimed THEN Charged(j)
                                   ELSE attempts[j]]
    /\ owner' = [j \in Jobs |-> IF j \in claimed THEN IdOf[p]
                                ELSE IF j \in Expired(p) THEN NoOwner
                                ELSE owner[j]]
    /\ leaseUp' = [j \in Jobs |-> IF j \in claimed \cup Expired(p) THEN FALSE
                                  ELSE leaseUp[j]]
    /\ due' = [j \in Jobs |-> IF j \in Expired(p) THEN TRUE ELSE due[j]]
    /\ batch' = [batch EXCEPT ![p] = claimed]
    /\ seen' = [seen EXCEPT ![p] = [j \in Jobs |-> IF j \in claimed
                                                   THEN Charged(j)
                                                   ELSE @[j]]]
    /\ UNCHANGED <<phase, job, histVars>>

\* The guard of complete_job and record_job_failure.
LeasesAnyOwner(p, j) == status[j] = "running"
LeasesUnchecked(p, j) == TRUE
Leases(p, j) == status[j] = "running" /\ owner[j] = IdOf[p]

\* replay_dead_job: an operator puts a dead job back with a fresh budget.
ReplayDeadJob(j) ==
    /\ status[j] = "dead"
    /\ replays[j] < MaxReplays
    /\ status' = [status EXCEPT ![j] = "retry"]
    /\ attempts' = [attempts EXCEPT ![j] = 0]
    /\ owner' = [owner EXCEPT ![j] = NoOwner]
    /\ leaseUp' = [leaseUp EXCEPT ![j] = FALSE]
    /\ due' = [due EXCEPT ![j] = TRUE]
    /\ replays' = [replays EXCEPT ![j] = @ + 1]
    /\ UNCHANGED <<procVars, performed, started>>

-----------------------------------------------------------------------------
(* A worker process between its transactions. *)

\* _execute_job: take the next job of the batch.  Without a handler for the
\* topic the job goes straight to _record_failure.  The lease is not looked at.
StartJob(p, j) ==
    /\ phase[p] = "ready" /\ j \in batch[p]
    /\ batch' = [batch EXCEPT ![p] = @ \ {j}]
    /\ job' = [job EXCEPT ![p] = j]
    /\ phase' = [phase EXCEPT ![p] = IF j \in Handled THEN "handling" ELSE "raised"]
    /\ started' = [started EXCEPT ![j] = IF j \in Handled THEN @ + 1 ELSE @]
    /\ UNCHANGED <<rowVars, seen, performed, replays>>

\* handler.handle: the handler commits its own transaction ...
HandlerCommits(p) ==
    /\ phase[p] = "handling"
    /\ phase' = [phase EXCEPT ![p] = "handled"]
    /\ performed' = [performed EXCEPT ![job[p]] = @ + 1]
    /\ UNCHANGED <<rowVars, batch, job, seen, started, replays>>

\* ... or raises, before that commit or after it.
HandlerRaises(p) ==
    /\ phase[p] \in {"handling", "handled"}
    /\ phase' = [phase EXCEPT ![p] = "raised"]
    /\ UNCHANGED <<rowVars, batch, job, seen, histVars>>

\* _record_success while the lease is still held.
RecordSuccess(p) ==
    LET j == job[p] IN
    /\ phase[p] = "handled"
    /\ Leases(p, j)
    /\ status' = [status EXCEPT ![j] = "completed"]
    /\ owner' = [owner EXCEPT ![j] = NoOwner]
    /\ leaseUp' = [leaseUp EXCEPT ![j] = FALSE]
    /\ phase' = [phase EXCEPT ![p] = "ready"]
    /\ job' = [job EXCEPT ![p] = NoJob]
    /\ UNCHANGED <<attempts, due, batch, seen, histVars>>

\* The process leaves its loop and forgets what it had claimed; the rows keep
\* their leases.
Halt(p) ==
    /\ phase' = [phase EXCEPT ![p] = "stopped"]
    /\ batch' = [batch EXCEPT ![p] = {}]
    /\ job' = [job EXCEPT ![p] = NoJob]
    /\ UNCHANGED <<rowVars, seen, histVars>>

\* _record_success after the lease was lost raises outside the try block: the
\* exception ends run_worker.
LoseLease(p) ==
    /\ phase[p] = "handled"
    /\ ~Leases(p, job[p])
    /\ Halt(p)

\* _record_failure: is_dead is decided on the attempts read at claim time; a
\* lost lease is ignored and the loop goes on.
RecordFailure(p) ==
    LET j == job[p]
        isDead == seen[p][j] >= MaxAttempts[j]
    IN
    /\ phase[p] = "raised"
    /\ IF Leases(p, j)
       THEN /\ status' = [status EXCEPT ![j] = IF isDead THEN "dead" ELSE "retry"]
            /\ owner' = [owner EXCEPT ![j] = NoOwner]
            /\ leaseUp' = [leaseUp EXCEPT ![j] = FALSE]
            /\ due' = [due EXCEPT ![j] = FALSE]
       ELSE UNCHANGED <<status, owner, leaseUp, due>>
    /\ phase' = [phase EXCEPT ![p] = "ready"]
    /\ job' = [job EXCEPT ![p] = NoJob]
    /\ UNCHANGED <<attempts, batch, seen, histVars>>

\* The process is killed, redeployed or told to stop, at any point.
Crash(p) ==
    /\ phase[p] # "stopped"
    /\ Halt(p)

\* The platform starts it again.
Restart(p) ==
    /\ phase[p] = "stopped"
    /\ phase' = [phase EXCEPT ![p] = "ready"]
    /\ UNCHANGED <<rowVars, batch, job, seen, histVars>>

-----------------------------------------------------------------------------
(* The clock. *)

LeaseExpires(j) ==
    /\ status[j] = "running" /\ ~leaseUp[j]
    /\ leaseUp' = [leaseUp EXCEPT ![j] = TRUE]
    /\ UNCHANGED <<status, attempts, owner, due, procVars, histVars>>

BecomesDue(j) ==
    /\ status[j] \in {"pending", "retry"} /\ ~due[j]
    /\ due' = [due EXCEPT ![j] = TRUE]
    /\ UNCHANGED <<status, attempts, owner, leaseUp, procVars, histVars>>

JobStep(j) == InsertJob(j) \/ ReplayDeadJob(j) \/ LeaseExpires(j) \/ BecomesDue(j)

WorkerStep(p) ==
    \/ \E claimed \in SUBSET Jobs : Claim(p, claimed)
    \/ \E j \in Jobs : StartJob(p, j)
    \/ HandlerCommits(p)
    \/ HandlerRaises(p)
    \/ RecordSuccess(p)
    \/ LoseLease(p)
    \/ RecordFailure(p)
    \/ Crash(p)
    \/ Restart(p)

Next == (\E j \in Jobs : JobStep(j)) \/ (\E p \in Workers : WorkerStep(p))

Spec == Init /\ [][Next]_vars

\* Time passes, a started process carries on and a stopped one is restarted.  A
\* process that polls again and again meets every job that is due again and
\* again (ORDER BY available_at), however often processes crash in between.
Fairness ==
    /\ \A j \in Jobs : WF_vars(LeaseExpires(j)) /\ WF_vars(BecomesDue(j))
    /\ \A p \in Workers :
        /\ WF_vars(\E j \in Jobs : StartJob(p, j))
        /\ WF_vars(HandlerCommits(p) \/ HandlerRaises(p))
        /\ WF_vars(RecordSuccess(p) \/ LoseLease(p) \/ RecordFailure(p))
        /\ WF_vars(Restart(p))
        /\ \A j \in Serves[p] :
             /\ SF_vars(\E S \in SUBSET Jobs : j \in S /\ Claim(p, S))
             /\ SF_vars(\E S \in SUBSET Jobs : j \in Expired(p) /\ Claim(p, S))

FairSpec == Spec /\ Fairness

-----------------------------------------------------------------------------
(* Properties. *)

\* The jobs a process has claimed and not yet settled or forgotten.
Held(p) == batch[p] \cup ({job[p]} \ {NoJob})

UniqueWorkerIds == \A p, q \in Workers : IdOf[p] = IdOf[q] => p = q

\* A row carries a lease exactly while it runs, and a running row has been
\* charged an attempt within its budget.
LeaseMatchesStatus ==
    \A j \in Jobs :
        /\ (owner[j] # NoOwner) <=> (status[j] = "running")
        /\ leaseUp[j] => status[j] = "running"
        /\ status[j] = "running" => attempts[j] \in 1..MaxAttempts[j]

\* Fencing without a fencing token: complete_job and record_job_failure check
\* only the owner, yet the process that passes the check is executing the very
\* attempt the row is on, and no earlier one it was too slow to finish.
LeaseNamesCurrentAttempt ==
    \A p \in Workers : \A j \in Held(p) :
        Leases(p, j) => seen[p][j] = attempts[j]

\* Nothing is marked completed whose handler has not committed.
CompletedWasPerformed ==
    \A j \in Jobs : status[j] = "completed" => performed[j] > 0

\* However leases expire and processes crash, the handler of a job is invoked at
\* most max_attempts times per budget an operator granted.
InvocationsWithinBudget ==
    \A j \in Jobs : started[j] <= MaxAttempts[j] * (replays[j] + 1)

\* The attempt number handed to the handler (JobExecutionContext.attempt) tells
\* apart two executions of one job that overlap, as long as nobody replayed it.
AttemptTellsRunsApart ==
    \A p, q \in Workers : \A j \in Held(p) \cap Held(q) :
        replays[j] = 0 /\ p # q => seen[p][j] # seen[q][j]

\* A late worker never reopens a settled job: completed is final and dead is
\* left only by an operator's replay with a fresh budget.
SettledStaysSettled ==
    [][\A j \in Jobs :
        /\ status[j] = "completed" => status'[j] = "completed"
        /\ status[j] = "dead" => \/ status'[j] = "dead"
                                 \/ /\ status'[j] = "retry"
                                    /\ attempts'[j] = 0
                                    /\ replays'[j] = replays[j] + 1]_vars

\* The outbox delivers what JobDelivery promises of every job.
StateOf(j) == IF status[j] \in {"pending", "running", "retry"} THEN "queued" ELSE status[j]

Delivery(j) == INSTANCE JobDelivery WITH
    Budget <- MaxAttempts[j],
    state <- StateOf(j),
    tries <- attempts[j],
    performed <- performed[j]

\* At-least-once delivery within the budget, job by job.
DeliversAtLeastOnce ==
    /\ \A j \in Jobs : Delivery(j)!Init
    /\ [][\A j \in Jobs : Delivery(j)!Next \/ UNCHANGED Delivery(j)!vars]_vars

\* Every accepted job is eventually completed or dead, even if processes crash
\* again and again.
EveryJobSettles == \A j \in Jobs : Delivery(j)!Settles
=============================================================================
