---------------------------- MODULE OutboxProofs -----------------------------
(***************************************************************************)
(* Theorems about Outbox for any set of jobs and of worker processes.      *)
(*                                                                         *)
(* Fencing and the attempt budget rest on one inductive invariant, IInv.   *)
(* It holds when no two processes run with one worker_id, which the        *)
(* default host:pid gives and a WORKER_ID shared by two processes breaks.  *)
(***************************************************************************)
EXTENDS Outbox, FiniteSetTheorems, TLAPS

\* The loop of a process: it holds a current job exactly inside _execute_job,
\* and it has forgotten everything once it stopped.
LoopOK ==
    \A p \in Workers :
        /\ phase[p] = "ready" => job[p] = NoJob
        /\ phase[p] \in {"handling", "handled", "raised"} => job[p] \in Jobs
        /\ phase[p] = "stopped" => job[p] = NoJob /\ batch[p] = {}

\* A job some process has claimed was enqueued, and an executed handler shows.
HeldOK ==
    \A p \in Workers :
        /\ \A j \in Held(p) : status[j] # "absent"
        /\ phase[p] = "handled" => performed[job[p]] > 0

\* The budget of attempts, status by status.
BudgetOK ==
    \A j \in Jobs :
        /\ status[j] = "absent" => attempts[j] = 0 /\ performed[j] = 0
        /\ status[j] \in {"pending", "retry"} => attempts[j] < MaxAttempts[j]

IInv ==
    /\ TypeOK
    /\ LoopOK
    /\ HeldOK
    /\ LeaseMatchesStatus
    /\ LeaseNamesCurrentAttempt
    /\ BudgetOK
    /\ CompletedWasPerformed

-----------------------------------------------------------------------------
(* Type correctness, with no assumption on worker ids. *)

LEMMA TypeInit == Init => TypeOK
  BY OutboxAssumption DEF Init, TypeOK, Statuses, Phases

LEMMA TypeStep == TypeOK /\ [Next]_vars => TypeOK'
  <1> SUFFICES ASSUME TypeOK, [Next]_vars PROVE TypeOK'
    OBVIOUS
  <1> USE OutboxAssumption DEF TypeOK, rowVars, procVars, histVars
  <1>1. ASSUME NEW j \in Jobs, InsertJob(j) PROVE TypeOK'
    BY <1>1 DEF InsertJob, Statuses
  <1>2. ASSUME NEW j \in Jobs, ReplayDeadJob(j) PROVE TypeOK'
    BY <1>2 DEF ReplayDeadJob, Statuses
  <1>3. ASSUME NEW j \in Jobs, LeaseExpires(j) PROVE TypeOK'
    BY <1>3 DEF LeaseExpires
  <1>4. ASSUME NEW j \in Jobs, BecomesDue(j) PROVE TypeOK'
    BY <1>4 DEF BecomesDue
  <1>5. ASSUME NEW p \in Workers, NEW claimed \in SUBSET Jobs, Claim(p, claimed)
        PROVE TypeOK'
    <2>1. attempts' \in [Jobs -> Nat] /\ status' \in [Jobs -> Statuses]
      BY <1>5 DEF Claim, Released, Charged, Statuses
    <2>2. owner' \in [Jobs -> WorkerIds \cup {NoOwner}]
      BY <1>5 DEF Claim
    <2>3. leaseUp' \in [Jobs -> BOOLEAN] /\ due' \in [Jobs -> BOOLEAN]
      BY <1>5 DEF Claim
    <2>4. seen' \in [Workers -> [Jobs -> Nat]]
      <3>1. [j \in Jobs |-> IF j \in claimed THEN Charged(j) ELSE seen[p][j]]
              \in [Jobs -> Nat]
        BY DEF Charged
      <3> QED BY <1>5, <3>1 DEF Claim
    <2>5. batch' \in [Workers -> SUBSET Jobs]
      BY <1>5 DEF Claim
    <2>6. UNCHANGED <<phase, job, performed, started, replays>>
      BY <1>5 DEF Claim
    <2> QED BY <2>1, <2>2, <2>3, <2>4, <2>5, <2>6
  <1>6. ASSUME NEW p \in Workers, NEW j \in Jobs, StartJob(p, j) PROVE TypeOK'
    BY <1>6 DEF StartJob, Phases
  <1>7. ASSUME NEW p \in Workers, HandlerCommits(p) PROVE TypeOK'
    <2>1. performed' \in [Jobs -> Nat]
      <3>1. ASSUME NEW j \in Jobs PROVE performed[j] + 1 \in Nat
        OBVIOUS
      <3> QED BY <1>7, <3>1, Zenon DEF HandlerCommits
    <2> QED BY <1>7, <2>1 DEF HandlerCommits, Phases
  <1>8. ASSUME NEW p \in Workers, HandlerRaises(p) PROVE TypeOK'
    BY <1>8 DEF HandlerRaises, Phases
  <1>9. ASSUME NEW p \in Workers, RecordSuccess(p) PROVE TypeOK'
    BY <1>9 DEF RecordSuccess, Phases, Statuses
  <1>10. ASSUME NEW p \in Workers, Halt(p) PROVE TypeOK'
    BY <1>10 DEF Halt, Phases
  <1>11. ASSUME NEW p \in Workers, RecordFailure(p) PROVE TypeOK'
    BY <1>11 DEF RecordFailure, Phases, Statuses
  <1>12. ASSUME NEW p \in Workers, Restart(p) PROVE TypeOK'
    BY <1>12 DEF Restart, Phases
  <1>13. CASE UNCHANGED vars
    BY <1>13 DEF vars
  <1> QED
    BY <1>1, <1>2, <1>3, <1>4, <1>5, <1>6, <1>7, <1>8, <1>9, <1>10, <1>11,
       <1>12, <1>13 DEF Next, JobStep, WorkerStep, LoseLease, Crash

\* Every reachable state of the queue and of its workers is well typed.
THEOREM TypeCorrect == Spec => []TypeOK
  BY TypeInit, TypeStep, PTL DEF Spec

-----------------------------------------------------------------------------
(* The inductive invariant. *)

LEMMA IInvInit == Init => IInv
  BY TypeInit, OutboxAssumption
  DEF Init, IInv, LoopOK, HeldOK, LeaseMatchesStatus, LeaseNamesCurrentAttempt,
      BudgetOK, CompletedWasPerformed, Held, Leases

\* Claiming, row by row: a claimed row is leased to the claimer at its next
\* attempt, a row whose lease ran out is released, every other row stays.
LEMMA ClaimStep ==
    ASSUME UniqueWorkerIds, IInv, NEW p \in Workers, NEW claimed \in SUBSET Jobs,
           Claim(p, claimed)
    PROVE  IInv'
  <1>0. TypeOK /\ TypeOK'
    BY TypeStep DEF IInv, Next, WorkerStep
  <1>1. /\ claimed \subseteq Claimable(p)
        /\ phase[p] = "ready" /\ job[p] = NoJob
        /\ UNCHANGED <<phase, job, performed, replays>>
    BY DEF Claim, IInv, LoopOK, histVars
  <1>2. \A j \in Jobs :
          /\ status'[j] = IF j \in claimed THEN "running"
                          ELSE IF j \in Expired(p) THEN Released(j) ELSE status[j]
          /\ attempts'[j] = IF j \in claimed THEN attempts[j] + 1 ELSE attempts[j]
          /\ owner'[j] = IF j \in claimed THEN IdOf[p]
                         ELSE IF j \in Expired(p) THEN NoOwner ELSE owner[j]
          /\ leaseUp'[j] = IF j \in claimed \cup Expired(p) THEN FALSE ELSE leaseUp[j]
    BY DEF Claim, Charged
  <1>3. \A q \in Workers : batch'[q] = IF q = p THEN claimed ELSE batch[q]
    BY <1>0 DEF Claim, TypeOK
  <1>4. \A q \in Workers : q # p => seen'[q] = seen[q]
    BY <1>0 DEF Claim, TypeOK
  <1>5. \A j \in claimed : seen'[p][j] = attempts[j] + 1
    BY <1>0 DEF Claim, Charged, TypeOK
  <1>6. \A j \in Expired(p) : j \in Jobs /\ status[j] = "running" /\ attempts[j] \in 1..MaxAttempts[j]
    BY OutboxAssumption DEF Expired, IInv, LeaseMatchesStatus
  <1>7. \A j \in claimed : /\ j \in Jobs /\ status[j] \notin {"absent", "completed"}
                           /\ attempts[j] \in 0..(MaxAttempts[j] - 1)
    <2> TAKE j \in claimed
    <2>1. j \in Jobs /\ attempts[j] \in Nat /\ MaxAttempts[j] \in Nat \ {0}
      BY <1>0, OutboxAssumption DEF TypeOK
    <2>2. \/ status[j] \in {"pending", "retry"}
          \/ j \in Expired(p) /\ ~(attempts[j] >= MaxAttempts[j])
      BY <1>1 DEF Claimable, Released
    <2>3. CASE status[j] \in {"pending", "retry"}
      BY <2>1, <2>3 DEF IInv, BudgetOK
    <2>4. CASE j \in Expired(p) /\ ~(attempts[j] >= MaxAttempts[j])
      BY <1>6, <2>1, <2>4
    <2> QED BY <2>2, <2>3, <2>4
  <1>8. \A q \in Workers : Held(q)' = IF q = p THEN claimed ELSE Held(q)
    <2> TAKE q \in Workers
    <2>1. Held(q)' = batch'[q] \cup ({job[q]} \ {NoJob})
      BY <1>1 DEF Held
    <2>2. CASE q = p
      BY <1>1, <1>3, <2>1, <2>2
    <2>3. CASE q # p
      BY <1>3, <2>1, <2>3 DEF Held
    <2> QED BY <2>2, <2>3
  <1>9. \A q \in Workers : Held(q) \subseteq Jobs
    BY <1>0 DEF Held, TypeOK
  <1>10. LoopOK'
    <2> SUFFICES ASSUME NEW q \in Workers
                 PROVE  /\ phase[q] = "ready" => job[q] = NoJob
                        /\ phase[q] \in {"handling", "handled", "raised"} => job[q] \in Jobs
                        /\ phase[q] = "stopped" => job[q] = NoJob /\ batch'[q] = {}
      BY <1>1 DEF LoopOK
    <2> QED BY <1>1, <1>3 DEF IInv, LoopOK
  <1>11. HeldOK'
    <2>1. \A j \in Jobs : status[j] # "absent" => status'[j] # "absent"
      BY <1>2 DEF Released
    <2>2. ASSUME NEW q \in Workers, NEW j \in Held(q)' PROVE status'[j] # "absent"
      BY <1>7, <1>8, <1>9, <2>1, <2>2 DEF IInv, HeldOK
    <2>3. ASSUME NEW q \in Workers, phase'[q] = "handled" PROVE performed'[job'[q]] > 0
      BY <1>1, <2>3 DEF IInv, HeldOK
    <2> QED BY <2>2, <2>3 DEF HeldOK
  <1>12. LeaseMatchesStatus'
    <2> SUFFICES ASSUME NEW j \in Jobs
                 PROVE  /\ (owner'[j] # NoOwner) <=> (status'[j] = "running")
                        /\ leaseUp'[j] => status'[j] = "running"
                        /\ status'[j] = "running" => attempts'[j] \in 1..MaxAttempts[j]
      BY DEF LeaseMatchesStatus
    <2>1. CASE j \in claimed
      <3>1. status'[j] = "running" /\ owner'[j] = IdOf[p] /\ attempts'[j] = attempts[j] + 1
        BY <1>2, <2>1
      <3>2. IdOf[p] # NoOwner /\ MaxAttempts[j] \in Nat
        BY OutboxAssumption
      <3>3. attempts[j] \in 0..(MaxAttempts[j] - 1)
        BY <1>7, <2>1
      <3> QED BY <3>1, <3>2, <3>3
    <2>2. CASE j \notin claimed /\ j \in Expired(p)
      BY <1>2, <2>2 DEF Released
    <2>3. CASE j \notin claimed /\ j \notin Expired(p)
      BY <1>2, <2>3 DEF IInv, LeaseMatchesStatus
    <2> QED BY <2>1, <2>2, <2>3
  <1>13. LeaseNamesCurrentAttempt'
    <2> SUFFICES ASSUME NEW q \in Workers, NEW j \in Held(q)',
                        status'[j] = "running", owner'[j] = IdOf[q]
                 PROVE  seen'[q][j] = attempts'[j]
      BY DEF LeaseNamesCurrentAttempt, Leases
    <2>1. j \in Jobs
      BY <1>8, <1>9
    <2>2. CASE q = p
      BY <1>2, <1>5, <1>8, <2>1, <2>2
    <2>3. CASE q # p
      <3>1. j \notin claimed
        BY <1>2, <2>1, <2>3 DEF UniqueWorkerIds
      <3>2. j \notin Expired(p)
        BY <1>2, <2>1, <3>1 DEF Released
      <3>3. j \in Held(q) /\ status[j] = "running" /\ owner[j] = IdOf[q]
        BY <1>2, <1>8, <2>1, <2>3, <3>1, <3>2
      <3>4. seen[q][j] = attempts[j]
        BY <3>3 DEF IInv, LeaseNamesCurrentAttempt, Leases
      <3> QED BY <1>2, <1>4, <2>1, <2>3, <3>1, <3>4
    <2> QED BY <2>2, <2>3
  <1>14. BudgetOK'
    <2> SUFFICES ASSUME NEW j \in Jobs
                 PROVE  /\ status'[j] = "absent" => attempts'[j] = 0 /\ performed'[j] = 0
                        /\ status'[j] \in {"pending", "retry"} => attempts'[j] < MaxAttempts[j]
      BY DEF BudgetOK
    <2>1. CASE j \in claimed
      BY <1>2, <2>1
    <2>2. CASE j \notin claimed /\ j \in Expired(p)
      <3>1. attempts[j] \in Nat /\ MaxAttempts[j] \in Nat
        BY <1>0, OutboxAssumption DEF TypeOK
      <3>2. status'[j] = Released(j) /\ attempts'[j] = attempts[j]
        BY <1>2, <2>2
      <3> QED BY <3>1, <3>2 DEF Released
    <2>3. CASE j \notin claimed /\ j \notin Expired(p)
      BY <1>1, <1>2, <2>3 DEF IInv, BudgetOK
    <2> QED BY <2>1, <2>2, <2>3
  <1>15. CompletedWasPerformed'
    BY <1>1, <1>2 DEF Released, IInv, CompletedWasPerformed
  <1> QED BY <1>0, <1>10, <1>11, <1>12, <1>13, <1>14, <1>15 DEF IInv

LEMMA IInvStep ==
    ASSUME UniqueWorkerIds PROVE IInv /\ [Next]_vars => IInv'
  <1> SUFFICES ASSUME IInv, [Next]_vars PROVE IInv'
    OBVIOUS
  <1> TypeOK'
    BY TypeStep DEF IInv
  <1> USE OutboxAssumption
      DEF IInv, TypeOK, LoopOK, HeldOK, LeaseMatchesStatus, LeaseNamesCurrentAttempt,
          BudgetOK, CompletedWasPerformed, rowVars, procVars, histVars
  <1>1. ASSUME NEW j \in Jobs, InsertJob(j) PROVE IInv'
    BY <1>1 DEF InsertJob, Held, Leases
  <1>2. ASSUME NEW j \in Jobs, ReplayDeadJob(j) PROVE IInv'
    BY <1>2 DEF ReplayDeadJob, Held, Leases
  <1>3. ASSUME NEW j \in Jobs, LeaseExpires(j) PROVE IInv'
    BY <1>3 DEF LeaseExpires, Held, Leases
  <1>4. ASSUME NEW j \in Jobs, BecomesDue(j) PROVE IInv'
    BY <1>4 DEF BecomesDue, Held, Leases
  <1>5. ASSUME NEW p \in Workers, NEW j \in Jobs, StartJob(p, j) PROVE IInv'
    BY <1>5 DEF StartJob, Held, Leases
  <1>6. ASSUME NEW p \in Workers, HandlerCommits(p) PROVE IInv'
    BY <1>6 DEF HandlerCommits, Held, Leases
  <1>7. ASSUME NEW p \in Workers, HandlerRaises(p) PROVE IInv'
    BY <1>7 DEF HandlerRaises, Held, Leases
  <1>8. ASSUME NEW p \in Workers, RecordSuccess(p) PROVE IInv'
    BY <1>8 DEF RecordSuccess, Held, Leases
  <1>9. ASSUME NEW p \in Workers, Halt(p) PROVE IInv'
    BY <1>9 DEF Halt, Held, Leases
  <1>10. ASSUME NEW p \in Workers, RecordFailure(p) PROVE IInv'
    BY <1>10 DEF RecordFailure, Held, Leases
  <1>11. ASSUME NEW p \in Workers, Restart(p) PROVE IInv'
    BY <1>11 DEF Restart, Held, Leases
  <1>12. ASSUME NEW p \in Workers, NEW claimed \in SUBSET Jobs, Claim(p, claimed)
        PROVE IInv'
    BY <1>12, UniqueWorkerIds, ClaimStep
  <1>13. CASE UNCHANGED vars
    BY <1>13 DEF vars, Held, Leases
  <1> QED
    BY <1>1, <1>2, <1>3, <1>4, <1>5, <1>6, <1>7, <1>8, <1>9, <1>10, <1>11, <1>12, <1>13 DEF Next, JobStep, WorkerStep, LoseLease, Crash

-----------------------------------------------------------------------------
(* The theorems. *)

LEMMA Invariance == ASSUME UniqueWorkerIds PROVE Spec => []IInv
  BY IInvInit, IInvStep, PTL DEF Spec

\* A row is leased exactly while it runs and never past its attempt budget, no
\* matter how releases, failures and replays interleave.
THEOREM LeasesSound ==
    ASSUME UniqueWorkerIds PROVE Spec => []LeaseMatchesStatus
  <1> IInv => LeaseMatchesStatus
    BY DEF IInv
  <1> QED BY Invariance, PTL

\* Whoever passes the owner check of complete_job or record_job_failure executes
\* the current attempt: the owner column fences stale workers off.
THEOREM LeasesFence ==
    ASSUME UniqueWorkerIds PROVE Spec => []LeaseNamesCurrentAttempt
  <1> IInv => LeaseNamesCurrentAttempt
    BY DEF IInv
  <1> QED BY Invariance, PTL

\* No job is completed before its handler has committed.
THEOREM CompletionFollowsEffect ==
    ASSUME UniqueWorkerIds PROVE Spec => []CompletedWasPerformed
  <1> IInv => CompletedWasPerformed
    BY DEF IInv
  <1> QED BY Invariance, PTL

-----------------------------------------------------------------------------
(* Every step of the queue is, for each job, a step of JobDelivery. *)

\* What one step may do to the row of one job, and to its history.
LEMMA RowStep ==
    ASSUME UniqueWorkerIds, IInv, IInv', Next, NEW j \in Jobs
    PROVE  Delivery(j)!Next \/ UNCHANGED Delivery(j)!vars
  <1> USE DEF StateOf
  <1>0. /\ TypeOK /\ TypeOK'
        /\ attempts[j] \in Nat /\ MaxAttempts[j] \in Nat \ {0}
    BY OutboxAssumption DEF IInv, TypeOK
  <1>1. ASSUME NEW k \in Jobs, InsertJob(k)
        PROVE  Delivery(j)!Enqueue \/ UNCHANGED Delivery(j)!vars
    BY <1>0, <1>1 DEF InsertJob, TypeOK, histVars, Delivery!Enqueue, Delivery!vars
  <1>2. ASSUME NEW k \in Jobs, ReplayDeadJob(k)
        PROVE  Delivery(j)!Replay \/ UNCHANGED Delivery(j)!vars
    BY <1>0, <1>2 DEF ReplayDeadJob, TypeOK, Delivery!Replay, Delivery!vars
  <1>3. ASSUME NEW k \in Jobs, LeaseExpires(k) PROVE UNCHANGED Delivery(j)!vars
    BY <1>3 DEF LeaseExpires, histVars, Delivery!vars
  <1>4. ASSUME NEW k \in Jobs, BecomesDue(k) PROVE UNCHANGED Delivery(j)!vars
    BY <1>4 DEF BecomesDue, histVars, Delivery!vars
  <1>5. ASSUME NEW p \in Workers, NEW k \in Jobs, StartJob(p, k) PROVE UNCHANGED Delivery(j)!vars
    BY <1>5 DEF StartJob, rowVars, Delivery!vars
  <1>6. ASSUME NEW p \in Workers, HandlerCommits(p)
        PROVE  Delivery(j)!Perform \/ UNCHANGED Delivery(j)!vars
    <2>1. /\ phase[p] = "handling" /\ UNCHANGED <<status, attempts>>
          /\ performed' = [performed EXCEPT ![job[p]] = performed[job[p]] + 1]
      BY <1>6 DEF HandlerCommits, rowVars
    <2>2. CASE j = job[p]
      <3>1. j \in Held(p)
        BY <1>0, <2>1, <2>2, OutboxAssumption DEF Held
      <3>2. status[j] # "absent"
        BY <3>1 DEF IInv, HeldOK
      <3>3. performed'[j] = performed[j] + 1
        BY <1>0, <2>1, <2>2 DEF TypeOK
      <3> QED BY <1>0, <2>1, <3>2, <3>3 DEF TypeOK, Statuses, Delivery!Perform
    <2>3. CASE j # job[p]
      BY <1>0, <2>1, <2>3 DEF TypeOK, Delivery!vars
    <2> QED BY <2>2, <2>3
  <1>7. ASSUME NEW p \in Workers, HandlerRaises(p) PROVE UNCHANGED Delivery(j)!vars
    BY <1>7 DEF HandlerRaises, rowVars, histVars, Delivery!vars
  <1>8. ASSUME NEW p \in Workers, RecordSuccess(p)
        PROVE  Delivery(j)!Complete \/ UNCHANGED Delivery(j)!vars
    BY <1>0, <1>8 DEF RecordSuccess, histVars, Leases, IInv, LoopOK, HeldOK, LeaseMatchesStatus, TypeOK, Delivery!Complete, Delivery!vars
  <1>9. ASSUME NEW p \in Workers, Halt(p) PROVE UNCHANGED Delivery(j)!vars
    BY <1>9 DEF Halt, rowVars, histVars, Delivery!vars
  <1>10. ASSUME NEW p \in Workers, RecordFailure(p)
        PROVE  Delivery(j)!GiveUp \/ UNCHANGED Delivery(j)!vars
    <2>1. UNCHANGED <<attempts, performed>>
      BY <1>10 DEF RecordFailure, histVars
    <2>2. CASE j = job[p] /\ Leases(p, j)
      <3>1. seen[p][j] = attempts[j]
        BY <2>2, OutboxAssumption DEF Held, IInv, LeaseNamesCurrentAttempt
      <3>2. status'[j] = IF attempts[j] >= MaxAttempts[j] THEN "dead" ELSE "retry"
        BY <1>0, <1>10, <2>2, <3>1 DEF RecordFailure, TypeOK
      <3>3. status[j] = "running" /\ attempts[j] <= MaxAttempts[j]
        BY <1>0, <2>2 DEF Leases, IInv, LeaseMatchesStatus
      <3> QED BY <1>0, <2>1, <3>2, <3>3 DEF Delivery!GiveUp, Delivery!vars
    <2>3. CASE ~(j = job[p] /\ Leases(p, j))
      <3>1. status'[j] = status[j]
        BY <1>0, <1>10, <2>3 DEF RecordFailure, TypeOK
      <3> QED BY <2>1, <3>1 DEF Delivery!vars
    <2> QED BY <2>2, <2>3
  <1>11. ASSUME NEW p \in Workers, Restart(p) PROVE UNCHANGED Delivery(j)!vars
    BY <1>11 DEF Restart, rowVars, histVars, Delivery!vars
  <1>12. ASSUME NEW p \in Workers, NEW claimed \in SUBSET Jobs, Claim(p, claimed)
        PROVE  Delivery(j)!Try \/ Delivery(j)!GiveUp \/ UNCHANGED Delivery(j)!vars
    <2>1. /\ status'[j] = IF j \in claimed THEN "running"
                          ELSE IF j \in Expired(p) THEN Released(j) ELSE status[j]
          /\ attempts'[j] = IF j \in claimed THEN attempts[j] + 1 ELSE attempts[j]
          /\ performed'[j] = performed[j]
      BY <1>12 DEF Claim, Charged, histVars
    <2>2. CASE j \in claimed
      <3>1. status[j] \in {"pending", "running", "retry"} /\ attempts[j] < MaxAttempts[j]
        BY <1>0, <1>12, <2>2 DEF Claim, Claimable, Expired, Released, IInv, BudgetOK
      <3> QED BY <2>1, <2>2, <3>1 DEF Delivery!Try
    <2>3. CASE j \notin claimed /\ j \in Expired(p)
      <3>1. status[j] = "running" /\ attempts[j] <= MaxAttempts[j]
        BY <1>0, <2>3 DEF Expired, IInv, LeaseMatchesStatus
      <3> QED BY <1>0, <2>1, <2>3, <3>1 DEF Released, Delivery!GiveUp, Delivery!vars
    <2>4. CASE j \notin claimed /\ j \notin Expired(p)
      BY <2>1, <2>4 DEF Delivery!vars
    <2> QED BY <2>2, <2>3, <2>4
  <1> QED
    BY <1>1, <1>2, <1>3, <1>4, <1>5, <1>6, <1>7, <1>8, <1>9, <1>10, <1>11, <1>12
    DEF Next, JobStep, WorkerStep, LoseLease, Crash, Delivery!Next

\* The outbox implements the safety part of JobDelivery for every job at once.
THEOREM OutboxDelivers ==
    ASSUME UniqueWorkerIds PROVE Spec => DeliversAtLeastOnce
  <1>1. Init => \A j \in Jobs : Delivery(j)!Init
    BY DEF Init, Delivery!Init, StateOf
  <1>2. IInv /\ IInv' /\ [Next]_vars =>
          [\A j \in Jobs : Delivery(j)!Next \/ UNCHANGED Delivery(j)!vars]_vars
    BY RowStep
  <1> QED BY <1>1, <1>2, Invariance, PTL DEF Spec, DeliversAtLeastOnce

\* A settled job is reopened by nobody but the operator.
THEOREM SettledForGood == Spec => SettledStaysSettled
  <1> DEFINE Keeps(j) == /\ status[j] = "completed" => status'[j] = "completed"
                         /\ status[j] = "dead" => \/ status'[j] = "dead"
                                                  \/ /\ status'[j] = "retry"
                                                     /\ attempts'[j] = 0
                                                     /\ replays'[j] = replays[j] + 1
  <1>1. TypeOK /\ [Next]_vars => [\A j \in Jobs : Keeps(j)]_vars
    <2> SUFFICES ASSUME TypeOK, Next, NEW j \in Jobs PROVE Keeps(j)
      OBVIOUS
    <2> USE DEF rowVars, procVars, histVars, TypeOK
    <2>1. ASSUME NEW k \in Jobs, JobStep(k) PROVE Keeps(j)
      BY <2>1 DEF JobStep, InsertJob, ReplayDeadJob, LeaseExpires, BecomesDue
    <2>2. ASSUME NEW p \in Workers, NEW claimed \in SUBSET Jobs, Claim(p, claimed)
          PROVE  Keeps(j)
      BY <2>2 DEF Claim, Claimable, Expired, Released
    <2>3. ASSUME NEW p \in Workers, RecordSuccess(p) \/ RecordFailure(p) PROVE Keeps(j)
      BY <2>3 DEF RecordSuccess, RecordFailure, Leases
    <2>4. ASSUME NEW p \in Workers,
                 \/ \E k \in Jobs : StartJob(p, k)
                 \/ HandlerCommits(p) \/ HandlerRaises(p) \/ LoseLease(p) \/ Crash(p) \/ Restart(p)
          PROVE  Keeps(j)
      BY <2>4 DEF StartJob, HandlerCommits, HandlerRaises, LoseLease, Crash, Halt, Restart
    <2> QED BY <2>1, <2>2, <2>3, <2>4 DEF Next, WorkerStep
  <1> QED BY <1>1, TypeCorrect, PTL DEF Spec, SettledStaysSettled
-----------------------------------------------------------------------------
(* Telling overlapping executions apart. *)

\* Until a replay resets the counter, nobody has read more than it shows now.
SeenIsPast ==
    \A p \in Workers : \A j \in Held(p) : replays[j] = 0 => seen[p][j] <= attempts[j]

ApartInv == TypeOK /\ LoopOK /\ SeenIsPast /\ AttemptTellsRunsApart

\* A step in which nobody takes a job up and no counter falls.
LEMMA NobodyTakesUp ==
    ASSUME ApartInv, TypeOK',
           \A p \in Workers : Held(p)' \subseteq Held(p),
           seen' = seen,
           \A j \in Jobs : replays'[j] = 0 => replays[j] = 0 /\ attempts'[j] = attempts[j]
    PROVE  SeenIsPast' /\ AttemptTellsRunsApart'
  <1>1. \A p \in Workers : Held(p) \subseteq Jobs
    BY DEF ApartInv, TypeOK, Held
  <1>2. SeenIsPast'
    BY <1>1 DEF ApartInv, SeenIsPast
  <1>3. AttemptTellsRunsApart'
    BY <1>1 DEF ApartInv, AttemptTellsRunsApart
  <1> QED BY <1>2, <1>3

LEMMA LoopStep == TypeOK /\ TypeOK' /\ LoopOK /\ [Next]_vars => LoopOK'
  <1> SUFFICES ASSUME TypeOK, TypeOK', LoopOK, [Next]_vars PROVE LoopOK'
    OBVIOUS
  <1> USE OutboxAssumption DEF TypeOK, LoopOK, rowVars, procVars, histVars
  <1>1. ASSUME NEW j \in Jobs, JobStep(j) PROVE LoopOK'
    BY <1>1 DEF JobStep, InsertJob, ReplayDeadJob, LeaseExpires, BecomesDue
  <1>2. ASSUME NEW p \in Workers, NEW claimed \in SUBSET Jobs, Claim(p, claimed)
        PROVE  LoopOK'
    <2>1. phase[p] = "ready" /\ UNCHANGED <<phase, job>>
          /\ batch' = [batch EXCEPT ![p] = claimed]
      BY <1>2 DEF Claim
    <2> QED BY <2>1
  <1>3. ASSUME NEW p \in Workers, NEW j \in Jobs, StartJob(p, j) PROVE LoopOK'
    BY <1>3 DEF StartJob
  <1>4. ASSUME NEW p \in Workers, HandlerCommits(p) \/ HandlerRaises(p) PROVE LoopOK'
    BY <1>4 DEF HandlerCommits, HandlerRaises
  <1>5. ASSUME NEW p \in Workers, RecordSuccess(p) \/ RecordFailure(p) PROVE LoopOK'
    <2>1. /\ phase' = [phase EXCEPT ![p] = "ready"] /\ job' = [job EXCEPT ![p] = NoJob]
          /\ UNCHANGED batch
      BY <1>5 DEF RecordSuccess, RecordFailure
    <2> QED BY <2>1
  <1>6. ASSUME NEW p \in Workers, Halt(p) \/ Restart(p) PROVE LoopOK'
    BY <1>6 DEF Halt, Restart
  <1>7. CASE UNCHANGED vars
    BY <1>7 DEF vars
  <1> QED
    BY <1>1, <1>2, <1>3, <1>4, <1>5, <1>6, <1>7 DEF Next, WorkerStep, LoseLease, Crash

\* A claim reads a number above everything read of that row so far.
LEMMA ClaimTellsApart ==
    ASSUME ApartInv, TypeOK', NEW p \in Workers, NEW claimed \in SUBSET Jobs,
           Claim(p, claimed)
    PROVE  SeenIsPast' /\ AttemptTellsRunsApart'
  <1>1. /\ phase[p] = "ready" /\ job[p] = NoJob
        /\ UNCHANGED <<job, replays>>
        /\ \A q \in Workers : batch'[q] = IF q = p THEN claimed ELSE batch[q]
    BY DEF Claim, histVars, ApartInv, LoopOK, TypeOK
  <1>2. \A j \in Jobs : attempts[j] \in Nat
                       /\ attempts'[j] = IF j \in claimed THEN attempts[j] + 1 ELSE attempts[j]
    BY DEF Claim, Charged, ApartInv, TypeOK
  <1>3. /\ \A q \in Workers : q # p => seen'[q] = seen[q]
        /\ \A j \in claimed : seen'[p][j] = attempts[j] + 1
    BY DEF Claim, Charged, ApartInv, TypeOK
  <1>4. \A q \in Workers : Held(q) \subseteq Jobs /\ \A j \in Jobs : seen[q][j] \in Nat
    BY DEF Held, ApartInv, TypeOK
  <1>5. \A q \in Workers : Held(q)' = IF q = p THEN claimed ELSE Held(q)
    <2> TAKE q \in Workers
    <2>1. Held(q)' = batch'[q] \cup ({job[q]} \ {NoJob})
      BY <1>1 DEF Held
    <2>2. CASE q = p
      BY <1>1, <2>1, <2>2
    <2>3. CASE q # p
      BY <1>1, <2>1, <2>3 DEF Held
    <2> QED BY <2>2, <2>3
  <1>6. ASSUME NEW q \in Workers, q # p, NEW j \in Held(q), replays[j] = 0
        PROVE  /\ seen'[q][j] = seen[q][j] /\ seen[q][j] \in Nat
               /\ seen[q][j] <= attempts[j] /\ attempts[j] \in Nat
    BY <1>2, <1>3, <1>4, <1>6 DEF ApartInv, SeenIsPast
  <1>7. SeenIsPast'
    <2> SUFFICES ASSUME NEW q \in Workers, NEW j \in Held(q)', replays[j] = 0
                 PROVE  seen'[q][j] <= attempts'[j]
      BY <1>1 DEF SeenIsPast
    <2>1. CASE q = p
      BY <1>2, <1>3, <1>5, <2>1
    <2>2. CASE q # p
      <3>1. j \in Held(q) /\ j \in Jobs
        BY <1>4, <1>5, <2>2
      <3> QED BY <1>2, <1>6, <2>2, <3>1
    <2> QED BY <2>1, <2>2
  <1>8. AttemptTellsRunsApart'
    <2> SUFFICES ASSUME NEW q \in Workers, NEW r \in Workers, q # r,
                        NEW j \in Held(q)' \cap Held(r)', replays[j] = 0
                 PROVE  seen'[q][j] # seen'[r][j]
      BY <1>1 DEF AttemptTellsRunsApart
    <2>1. CASE q = p
      <3>1. j \in claimed /\ j \in Held(r)
        BY <1>5, <2>1
      <3> QED BY <1>3, <1>6, <2>1, <3>1
    <2>2. CASE r = p
      <3>1. j \in claimed /\ j \in Held(q)
        BY <1>5, <2>2
      <3> QED BY <1>3, <1>6, <2>2, <3>1
    <2>3. CASE q # p /\ r # p
      <3>1. j \in Held(q) \cap Held(r)
        BY <1>5, <2>3
      <3>2. seen[q][j] # seen[r][j]
        BY <3>1 DEF ApartInv, AttemptTellsRunsApart
      <3> QED BY <1>6, <2>3, <3>1, <3>2
    <2> QED BY <2>1, <2>2, <2>3
  <1> QED BY <1>7, <1>8

LEMMA ApartStep == ApartInv /\ [Next]_vars => ApartInv'
  <1> SUFFICES ASSUME ApartInv, [Next]_vars PROVE ApartInv'
    OBVIOUS
  <1>0. TypeOK /\ TypeOK' /\ LoopOK'
    BY TypeStep, LoopStep DEF ApartInv
  <1> SUFFICES SeenIsPast' /\ AttemptTellsRunsApart'
    BY <1>0 DEF ApartInv
  <1> USE OutboxAssumption DEF rowVars, procVars, histVars
  <1>1. ASSUME NEW k \in Jobs, JobStep(k) PROVE SeenIsPast' /\ AttemptTellsRunsApart'
    <2>1. UNCHANGED <<batch, job, seen>>
      BY <1>1 DEF JobStep, InsertJob, ReplayDeadJob, LeaseExpires, BecomesDue
    <2>2. \A p \in Workers : Held(p)' \subseteq Held(p)
      BY <2>1 DEF Held
    <2>3. \A j \in Jobs : replays'[j] = 0 => replays[j] = 0 /\ attempts'[j] = attempts[j]
      BY <1>0, <1>1 DEF JobStep, InsertJob, ReplayDeadJob, LeaseExpires, BecomesDue, TypeOK
    <2> QED BY <1>0, <2>1, <2>2, <2>3, NobodyTakesUp
  <1>2. ASSUME NEW p \in Workers, NEW claimed \in SUBSET Jobs, Claim(p, claimed)
        PROVE  SeenIsPast' /\ AttemptTellsRunsApart'
    BY <1>0, <1>2, ClaimTellsApart
  <1>3. ASSUME NEW p \in Workers,
               \/ \E j \in Jobs : StartJob(p, j)
               \/ HandlerCommits(p) \/ HandlerRaises(p) \/ RecordSuccess(p)
               \/ RecordFailure(p) \/ Halt(p) \/ Restart(p)
        PROVE  SeenIsPast' /\ AttemptTellsRunsApart'
    <2>1. UNCHANGED <<attempts, seen, replays>>
      BY <1>3 DEF StartJob, HandlerCommits, HandlerRaises, RecordSuccess, RecordFailure, Halt, Restart
    <2>2. \A q \in Workers :
            /\ batch'[q] \subseteq batch[q]
            /\ job'[q] \in {job[q], NoJob} \cup batch[q]
      <3>1. CASE \E j \in Jobs : StartJob(p, j)
        BY <1>0, <3>1 DEF TypeOK, StartJob
      <3>2. CASE HandlerCommits(p) \/ HandlerRaises(p) \/ Restart(p)
        BY <3>2 DEF HandlerCommits, HandlerRaises, Restart
      <3>3. CASE RecordSuccess(p) \/ RecordFailure(p) \/ Halt(p)
        BY <1>0, <3>3 DEF TypeOK, RecordSuccess, RecordFailure, Halt
      <3> QED BY <1>3, <3>1, <3>2, <3>3
    <2>3. \A q \in Workers : Held(q)' \subseteq Held(q)
      BY <2>2 DEF Held
    <2> QED BY <1>0, <2>1, <2>3, NobodyTakesUp
  <1>4. CASE UNCHANGED vars
    <2>1. UNCHANGED <<attempts, seen, replays, batch, job>>
      BY <1>4 DEF vars
    <2>2. \A q \in Workers : Held(q)' \subseteq Held(q)
      BY <2>1 DEF Held
    <2> QED BY <1>0, <2>1, <2>2, NobodyTakesUp
  <1> QED BY <1>1, <1>2, <1>3, <1>4 DEF Next, WorkerStep, LoseLease, Crash

\* Two processes that hold one job at once were handed different attempt
\* numbers, even if they run under one worker_id, as long as no operator replayed
\* the job, which makes claim_jobs count from one again.
THEOREM AttemptsTellApart == Spec => []AttemptTellsRunsApart
  <1>1. Init => ApartInv
    <2>1. Init => TypeOK
      BY TypeInit
    <2>2. Init => LoopOK
      BY OutboxAssumption DEF Init, LoopOK
    <2>3. Init => \A p \in Workers : Held(p) = {}
      BY DEF Init, Held
    <2> QED BY <2>1, <2>2, <2>3 DEF ApartInv, SeenIsPast, AttemptTellsRunsApart
  <1>2. ApartInv => AttemptTellsRunsApart
    BY DEF ApartInv
  <1> QED BY <1>1, <1>2, ApartStep, PTL DEF Spec

-----------------------------------------------------------------------------
(* The attempt budget bounds the invocations of the handler. *)

\* The processes that have claimed a job and not started it yet.
Waiting(j) == {p \in Workers : j \in batch[p]}

\* Every claim is charged once and invokes the handler at most once: what was
\* invoked or still may be is covered by the budgets used up and the attempts charged.
ClaimsAreCharged ==
    \A j \in Jobs :
        /\ attempts[j] <= MaxAttempts[j]
        /\ started[j] + Cardinality(Waiting(j)) <= MaxAttempts[j] * replays[j] + attempts[j]

LEMMA WaitingType ==
    ASSUME NEW j PROVE IsFiniteSet(Waiting(j)) /\ Cardinality(Waiting(j)) \in Nat
  BY FiniteWorkers, FS_Subset, FS_CardinalityType DEF Waiting

LEMMA OneMoreBudget ==
    ASSUME NEW m \in Nat, NEW n \in Nat
    PROVE  m * (n + 1) = m * n + m
  OBVIOUS

\* A job that fewer processes have in hand, neither invoked nor charged.
LEMMA LeftAlone ==
    ASSUME TypeOK, TypeOK', NEW j \in Jobs, ClaimsAreCharged, Waiting(j)' \subseteq Waiting(j),
           started'[j] = started[j], attempts'[j] = attempts[j], replays'[j] = replays[j]
    PROVE  /\ attempts'[j] <= MaxAttempts[j]
           /\ started'[j] + Cardinality(Waiting(j)') <= MaxAttempts[j] * replays'[j] + attempts'[j]
  <1>1. Cardinality(Waiting(j)') \in Nat /\ Cardinality(Waiting(j)') <= Cardinality(Waiting(j))
    BY WaitingType, FS_Subset, FS_CardinalityType
  <1>2. MaxAttempts[j] * replays[j] \in Nat
    BY OutboxAssumption DEF TypeOK
  <1> QED BY <1>1, <1>2, WaitingType DEF ClaimsAreCharged, TypeOK

LEMMA ChargeStep == IInv /\ TypeOK' /\ ClaimsAreCharged /\ [Next]_vars => ClaimsAreCharged'
  <1> SUFFICES ASSUME IInv, TypeOK', ClaimsAreCharged, [Next]_vars, NEW j \in Jobs
               PROVE  /\ attempts'[j] <= MaxAttempts[j]
                      /\ started'[j] + Cardinality(Waiting(j)')
                           <= MaxAttempts[j] * replays'[j] + attempts'[j]
    BY DEF ClaimsAreCharged
  <1> DEFINE Covered == /\ attempts'[j] <= MaxAttempts[j]
                        /\ started'[j] + Cardinality(Waiting(j)')
                             <= MaxAttempts[j] * replays'[j] + attempts'[j]
  <1> USE DEF rowVars, procVars, histVars
  <1>0. TypeOK /\ MaxAttempts[j] \in Nat \ {0}
    BY OutboxAssumption DEF IInv
  <1>a. attempts[j] \in Nat /\ started[j] \in Nat /\ replays[j] \in Nat
        /\ MaxAttempts[j] * replays[j] \in Nat
    BY <1>0 DEF TypeOK
  <1>1. ASSUME NEW k \in Jobs, InsertJob(k) \/ LeaseExpires(k) \/ BecomesDue(k) PROVE Covered
    BY <1>1, <1>0, LeftAlone DEF InsertJob, LeaseExpires, BecomesDue, Waiting
  <1>2. ASSUME NEW k \in Jobs, ReplayDeadJob(k) PROVE Covered
    <2>1. Waiting(j)' = Waiting(j) /\ started' = started
      BY <1>2 DEF ReplayDeadJob, Waiting
    <2>2. CASE k # j
      BY <1>2, <1>0, <2>1, <2>2, LeftAlone DEF ReplayDeadJob, TypeOK
    <2>3. CASE k = j
      <3>1. attempts'[j] = 0 /\ replays'[j] = replays[j] + 1
        BY <1>2, <1>0, <2>3 DEF ReplayDeadJob, TypeOK
      <3>2. MaxAttempts[j] * (replays[j] + 1) = MaxAttempts[j] * replays[j] + MaxAttempts[j]
        BY <1>0, <1>a
      <3> QED BY <1>0, <1>a, <2>1, <3>1, <3>2, WaitingType DEF ClaimsAreCharged
    <2> QED BY <2>2, <2>3
  <1>3. ASSUME NEW p \in Workers, NEW claimed \in SUBSET Jobs, Claim(p, claimed) PROVE Covered
    <2>1. /\ batch[p] = {} /\ UNCHANGED <<started, replays>>
          /\ attempts'[j] = IF j \in claimed THEN attempts[j] + 1 ELSE attempts[j]
          /\ \A q \in Workers : batch'[q] = IF q = p THEN claimed ELSE batch[q]
      BY <1>3, <1>0 DEF Claim, Charged, TypeOK
    <2>2. CASE j \notin claimed
      BY <1>0, <2>1, <2>2, LeftAlone DEF Waiting
    <2>3. CASE j \in claimed
      <3>1. p \notin Waiting(j) /\ Waiting(j)' = Waiting(j) \cup {p}
        BY <2>1, <2>3 DEF Waiting
      <3>2. Cardinality(Waiting(j)') = Cardinality(Waiting(j)) + 1
        BY <3>1, WaitingType, FS_AddElement
      <3>3. attempts[j] < MaxAttempts[j]
        BY <1>3, <1>0, <1>a, <2>3 DEF Claim, Claimable, Released, IInv, BudgetOK
      <3> QED BY <1>0, <1>a, <2>1, <2>3, <3>2, <3>3, WaitingType DEF ClaimsAreCharged
    <2> QED BY <2>2, <2>3
  <1>4. ASSUME NEW p \in Workers, NEW k \in Jobs, StartJob(p, k) PROVE Covered
    <2>1. /\ k \in batch[p] /\ UNCHANGED <<attempts, replays>>
          /\ \A q \in Workers : batch'[q] = IF q = p THEN batch[p] \ {k} ELSE batch[q]
          /\ started'[j] \in {started[j], IF j = k THEN started[j] + 1 ELSE started[j]}
      BY <1>4, <1>0 DEF StartJob, TypeOK
    <2>2. CASE k # j
      BY <1>0, <2>1, <2>2, LeftAlone DEF Waiting
    <2>3. CASE k = j
      <3>1. p \in Waiting(j) /\ Waiting(j)' = Waiting(j) \ {p}
        BY <2>1, <2>3 DEF Waiting
      <3>2. Cardinality(Waiting(j)') = Cardinality(Waiting(j)) - 1
        BY <3>1, WaitingType, FS_RemoveElement
      <3> QED BY <1>a, <2>1, <2>3, <3>2, WaitingType DEF ClaimsAreCharged
    <2> QED BY <2>2, <2>3
  <1>5. ASSUME NEW p \in Workers,
               \/ HandlerCommits(p) \/ HandlerRaises(p) \/ RecordSuccess(p)
               \/ RecordFailure(p) \/ Restart(p)
        PROVE  Covered
    <2>1. UNCHANGED <<batch, attempts, started, replays>>
      BY <1>5 DEF HandlerCommits, HandlerRaises, RecordSuccess, RecordFailure, Restart
    <2> QED BY <1>0, <2>1, LeftAlone DEF Waiting
  <1>6. ASSUME NEW p \in Workers, Halt(p) PROVE Covered
    <2>1. /\ UNCHANGED <<attempts, started, replays>>
          /\ \A q \in Workers : batch'[q] \subseteq batch[q]
      BY <1>6, <1>0 DEF Halt, TypeOK
    <2> QED BY <1>0, <2>1, LeftAlone DEF Waiting
  <1>7. CASE UNCHANGED vars
    BY <1>0, <1>7, LeftAlone DEF vars, Waiting
  <1> QED
    BY <1>1, <1>2, <1>3, <1>4, <1>5, <1>6, <1>7
    DEF Next, JobStep, WorkerStep, LoseLease, Crash

\* Crashes, lost leases and replays never make the worker invoke a handler more
\* often than max_attempts for each budget the operator granted.
THEOREM BudgetBoundsInvocations ==
    ASSUME UniqueWorkerIds PROVE Spec => []InvocationsWithinBudget
  <1>1. Init => ClaimsAreCharged
    <2> SUFFICES ASSUME Init, NEW j \in Jobs
                 PROVE  /\ attempts[j] <= MaxAttempts[j]
                        /\ started[j] + Cardinality(Waiting(j))
                             <= MaxAttempts[j] * replays[j] + attempts[j]
      BY DEF ClaimsAreCharged
    <2>1. Waiting(j) = {}
      BY DEF Init, Waiting
    <2>2. MaxAttempts[j] \in Nat /\ started[j] = 0 /\ replays[j] = 0 /\ attempts[j] = 0
      BY OutboxAssumption DEF Init
    <2> QED BY <2>1, <2>2, FS_EmptySet
  <1>2. IInv /\ ClaimsAreCharged => InvocationsWithinBudget
    <2> SUFFICES ASSUME IInv, ClaimsAreCharged, NEW j \in Jobs
                 PROVE  started[j] <= MaxAttempts[j] * (replays[j] + 1)
      BY DEF InvocationsWithinBudget
    <2>1. /\ MaxAttempts[j] \in Nat /\ started[j] \in Nat /\ replays[j] \in Nat
          /\ attempts[j] \in Nat /\ MaxAttempts[j] * replays[j] \in Nat
      BY OutboxAssumption DEF IInv, TypeOK
    <2>2. MaxAttempts[j] * (replays[j] + 1) = MaxAttempts[j] * replays[j] + MaxAttempts[j]
      BY <2>1, OneMoreBudget
    <2> QED BY <2>1, <2>2, WaitingType DEF ClaimsAreCharged
  <1>3. IInv => TypeOK
    BY DEF IInv
  <1> QED BY <1>1, <1>2, <1>3, ChargeStep, Invariance, PTL DEF Spec
=============================================================================
