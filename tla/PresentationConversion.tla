------------------------ MODULE PresentationConversion ------------------------
(***************************************************************************)
(* One PowerPoint file of a Fundamentals lesson and its way to slides: the *)
(* draft it is uploaded to, the conversion jobs that are enqueued for it,  *)
(* the workers that execute them, and the lesson that shows the slides.    *)
(*                                                                         *)
(* A conversion is not one transaction.  The worker marks the file         *)
(* "processing" and commits, works for minutes outside any transaction,    *)
(* and commits the outcome; in between its lease may run out, so that      *)
(* another worker converts the same file, and a retry asked for by the     *)
(* director is a second job of the same file.  The queue is the one of     *)
(* module Outbox, reduced to what a single topic needs: a claimed job may  *)
(* go back to the queue (or be given up) at any time.                      *)
(***************************************************************************)
EXTENDS Naturals

CONSTANTS
    Workers,       \* processes that serve the conversion topic
    MaxAttempts,   \* max_attempts of a conversion job
    MaxTries,      \* bound: conversions begun, over all jobs
    MaxCrashes,    \* bound: workers that die in the middle of a conversion
    NoKey          \* a worker without a job

\* The number in the idempotency key of a job; one past the bound is never begun.
AttemptKeys == 0..(MaxTries + 1)

ConversionAssumption ==
    /\ MaxAttempts \in Nat \ {0} /\ MaxTries \in Nat /\ MaxCrashes \in Nat
    /\ NoKey \notin AttemptKeys

VARIABLES
    conversion,    \* conversion_status of the file, "absent" before the upload
    tries,         \* conversion_attempts
    slides,        \* whether the rendition rows are there
    drafted,       \* placed in the open draft of the lesson
    published,     \* placed in its published revision
    job,           \* status of the job with each key
    charged,       \* attempts of the job
    owner,         \* the worker whose claim of the job still stands
    phase,         \* where each worker stands
    at,            \* the job it executes
    crashes        \* history: crashes so far

fileVars == <<conversion, tries, slides>>
placeVars == <<drafted, published>>
queueVars == <<job, charged, owner>>
workVars == <<phase, at>>
vars == <<fileVars, placeVars, queueVars, workVars, crashes>>

Conversions == {"absent", "pending", "processing", "ready", "failed"}
JobStates == {"absent", "queued", "running", "completed", "dead"}
Phases == {"idle", "claimed", "converting", "uploaded", "failing", "done", "raised"}

TypeOK ==
    /\ conversion \in Conversions /\ tries \in 0..MaxTries /\ slides \in BOOLEAN
    /\ drafted \in BOOLEAN /\ published \in BOOLEAN
    /\ job \in [AttemptKeys -> JobStates] /\ charged \in [AttemptKeys -> 0..MaxAttempts]
    /\ owner \in [AttemptKeys -> Workers \cup {NoKey}]
    /\ phase \in [Workers -> Phases] /\ at \in [Workers -> AttemptKeys \cup {NoKey}]
    /\ crashes \in 0..MaxCrashes
    /\ \A p \in Workers : (phase[p] = "idle") <=> (at[p] = NoKey)

Init ==
    /\ conversion = "absent" /\ tries = 0 /\ slides = FALSE
    /\ drafted = FALSE /\ published = FALSE
    /\ job = [k \in AttemptKeys |-> "absent"] /\ charged = [k \in AttemptKeys |-> 0]
    /\ owner = [k \in AttemptKeys |-> NoKey]
    /\ phase = [p \in Workers |-> "idle"] /\ at = [p \in Workers |-> NoKey]
    /\ crashes = 0

-----------------------------------------------------------------------------
(* What the director asks for. *)

\* insert_job: a key that exists already is left as it is, whatever became of it.
Enqueued(k) == [job EXCEPT ![k] = IF @ = "absent" THEN "queued" ELSE @]

\* upload_draft_file_asset: the row, its place in the draft and its first job.
Upload ==
    /\ conversion = "absent"
    /\ conversion' = "pending" /\ drafted' = TRUE
    /\ job' = Enqueued(tries)
    /\ UNCHANGED <<tries, slides, published, charged, owner, workVars, crashes>>

\* _enqueue_conversion of a retry: attempt = conversion_attempts + 1.
SameKeyAgain == 0
RetryKey == tries + 1

\* retry_presentation_conversion: mark_conversion_pending takes a failed file only.
Retry ==
    /\ drafted /\ conversion = "failed"
    /\ conversion' = "pending"
    /\ job' = Enqueued(RetryKey)
    /\ UNCHANGED <<tries, slides, placeVars, charged, owner, workVars, crashes>>

\* publish_fundamentals_draft: list_blocking_conversion_rows lets a ready file
\* through.  The draft's place becomes the published one.
Publish ==
    /\ drafted /\ conversion = "ready"
    /\ published' = TRUE /\ drafted' = FALSE
    /\ UNCHANGED <<fileVars, queueVars, workVars, crashes>>

\* start_fundamentals_draft copies the published placements into the new draft.
StartDraft ==
    /\ published /\ ~drafted
    /\ drafted' = TRUE
    /\ UNCHANGED <<fileVars, published, queueVars, workVars, crashes>>

\* detach_draft_asset, or the draft is abandoned.
Detach ==
    /\ drafted
    /\ drafted' = FALSE
    /\ UNCHANGED <<fileVars, published, queueVars, workVars, crashes>>

-----------------------------------------------------------------------------
(* The queue. *)

\* claim_due_jobs: the job is this worker's until the lease runs out.
Claim(p, k) ==
    /\ phase[p] = "idle" /\ job[k] = "queued"
    /\ job' = [job EXCEPT ![k] = "running"]
    /\ charged' = [charged EXCEPT ![k] = @ + 1]
    /\ owner' = [owner EXCEPT ![k] = p]
    /\ phase' = [phase EXCEPT ![p] = "claimed"] /\ at' = [at EXCEPT ![p] = k]
    /\ UNCHANGED <<fileVars, placeVars, crashes>>

\* What becomes of a job that was not completed.
PutBack(k) == IF charged[k] >= MaxAttempts THEN "dead" ELSE "queued"

\* release_expired_leases: nothing tells the worker, which goes on.
Expire(k) ==
    /\ job[k] = "running"
    /\ job' = [job EXCEPT ![k] = PutBack(k)]
    /\ owner' = [owner EXCEPT ![k] = NoKey]
    /\ UNCHANGED <<fileVars, placeVars, charged, workVars, crashes>>

\* _record_success and _record_failure: only the owner of a running job settles
\* it; a worker that lost its lease changes nothing.
Settle(p) ==
    LET k == at[p]
        Holds == job[k] = "running" /\ owner[k] = p
    IN
    /\ phase[p] \in {"done", "raised"}
    /\ job' = [job EXCEPT ![k] = IF ~Holds THEN @
                                 ELSE IF phase[p] = "done" THEN "completed"
                                 ELSE PutBack(k)]
    /\ owner' = [owner EXCEPT ![k] = IF Holds THEN NoKey ELSE @]
    /\ phase' = [phase EXCEPT ![p] = "idle"] /\ at' = [at EXCEPT ![p] = NoKey]
    /\ UNCHANGED <<fileVars, placeVars, charged, crashes>>

-----------------------------------------------------------------------------
(* convert_presentation_asset. *)

\* The first transaction: a ready file needs nothing, any other is marked and
\* charged, also one that another worker is converting.
Convertible == {"pending", "failed", "processing"}
Begin(p) ==
    /\ phase[p] = "claimed"
    /\ IF conversion \in Convertible
       THEN /\ tries < MaxTries
            /\ conversion' = "processing" /\ tries' = tries + 1
            /\ phase' = [phase EXCEPT ![p] = "converting"]
       ELSE /\ UNCHANGED <<conversion, tries>>
            /\ phase' = [phase EXCEPT ![p] = "done"]
    /\ UNCHANGED <<slides, placeVars, queueVars, at, crashes>>

\* Download, soffice, pdftoppm and the uploads, outside any transaction; every
\* one of them can fail, the last transaction too.
Convert(p) ==
    /\ phase[p] = "converting"
    /\ phase' = [phase EXCEPT ![p] = "uploaded"]
    /\ UNCHANGED <<fileVars, placeVars, queueVars, at, crashes>>
Break(p) ==
    /\ phase[p] \in {"converting", "uploaded"}
    /\ phase' = [phase EXCEPT ![p] = "failing"]
    /\ UNCHANGED <<fileVars, placeVars, queueVars, at, crashes>>

\* The last transaction: the rendition rows and mark_conversion_ready, unless
\* another worker was faster.
Store(p) ==
    /\ phase[p] = "uploaded"
    /\ conversion' = "ready" /\ slides' = TRUE
    /\ phase' = [phase EXCEPT ![p] = "done"]
    /\ UNCHANGED <<tries, placeVars, queueVars, at, crashes>>

\* _mark_failed: mark_conversion_failed asks for nothing but the id.
MarkFailed(p) ==
    /\ phase[p] = "failing"
    /\ conversion' = "failed"
    /\ phase' = [phase EXCEPT ![p] = "raised"]
    /\ UNCHANGED <<tries, slides, placeVars, queueVars, at, crashes>>

\* The process dies: its claim stands until the lease runs out.
Crash(p) ==
    /\ phase[p] # "idle" /\ crashes < MaxCrashes
    /\ crashes' = crashes + 1
    /\ phase' = [phase EXCEPT ![p] = "idle"] /\ at' = [at EXCEPT ![p] = NoKey]
    /\ UNCHANGED <<fileVars, placeVars, queueVars>>

Director == Upload \/ Retry \/ Publish \/ StartDraft \/ Detach
Works(p) ==
    \/ \E k \in AttemptKeys : Claim(p, k)
    \/ Begin(p) \/ Convert(p) \/ Break(p) \/ Store(p) \/ MarkFailed(p)
    \/ Settle(p)
Next ==
    \/ Director
    \/ \E p \in Workers : Works(p) \/ Crash(p)
    \/ \E k \in AttemptKeys : Expire(k)

\* Each worker goes on with its job and looks for the next one; the lease of a
\* job nobody executes any more runs out.
Abandoned(k) == \A p \in Workers : at[p] # k
Fairness ==
    /\ \A p \in Workers : WF_vars(Works(p))
    /\ \A k \in AttemptKeys : WF_vars(Abandoned(k) /\ Expire(k))

Spec == Init /\ [][Next]_vars
FairSpec == Spec /\ Fairness

-----------------------------------------------------------------------------
\* A file that waits for its slides has a job that will be tried, or a worker
\* that still works on it: the director cannot ask for another conversion before
\* this one failed, and cannot publish before it succeeded.
UnsettledIsQueued ==
    conversion \in {"pending", "processing"} =>
        \/ \E k \in AttemptKeys : job[k] \in {"queued", "running"}
        \/ \E p \in Workers : phase[p] \notin {"idle", "done", "raised"}

\* "Presentations must finish converting before publication" (drafts.py): the
\* slides of a published lesson can be shown, which curriculum_slide_url does for
\* a ready file only.
PublishedSlidesShow == published => conversion = "ready" /\ slides

\* Every conversion that was asked for is answered, with slides or with an error
\* the director can act on (or the bound on conversions ends the run).
AskedIsAnswered ==
    conversion = "pending" ~> conversion \in {"ready", "failed"} \/ tries = MaxTries
=============================================================================
