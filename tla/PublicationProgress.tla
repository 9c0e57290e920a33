------------------------- MODULE PublicationProgress -------------------------
(***************************************************************************)
(* The counters of one publication job over all its attempts:              *)
(* app/services/publication_progress.py, with the places in                *)
(* app/tasks/publication.py and app/services/job_service.py that call it.  *)
(*                                                                         *)
(* A plan of n links moves the counters n at a time.  `progress` is the    *)
(* worker's own copy, `stored` the copy in job_runs: the two part when a   *)
(* progress commit fails or the work horse dies.                           *)
(***************************************************************************)
EXTENDS Integers

CONSTANTS
    MaxLinks,     \* bound on links that are ever approved during the job
    PublishRetries    \* RQ retries

ASSUME ProgressAssumption == MaxLinks \in Nat /\ PublishRetries \in Nat

VARIABLES
    progress,    \* the running attempt's counters
    stored,      \* job_runs.progress
    left,        \* links of the batch the attempt has not reached
    approved,    \* links in approved plans, as the next attempt will load them
    ever,        \* links approved so far (bound)
    written,     \* history: links committed as applied by this job
    missed,      \* history: some counters were never stored
    retryable,   \* has_retryable_failure of the attempt
    status,      \* of the row: queued, running, succeeded, failed
    error,       \* of the row: who failed it last, the task or a reconciliation
    attempt,     \* RQ's side: waiting, going, done (but RQ may not know) or over
    retries

progressVars == <<progress, stored, left, approved, ever, written, missed, retryable, status,
          error, attempt, retries>>

FailureStates == {"none", "retrying", "terminal"}
Counters ==
    [applied : Nat, failed : Nat, skipped : Nat, total : Nat, attempt_skipped : Nat,
     attempt_failed : Nat, attempt_failures : Nat, failure_state : FailureStates]
NoProgress ==
    [applied |-> 0, failed |-> 0, skipped |-> 0, total |-> 0, attempt_skipped |-> 0,
     attempt_failed |-> 0, attempt_failures |-> 0, failure_state |-> "none"]

Larger(m, n) == IF m >= n THEN m ELSE n

------------------------------------------------------------------------------
(* Mutant: the applied count starts again. *)
begin_from_zero(previous, batch) ==
    [previous EXCEPT !.failed = 0, !.applied = 0, !.total = Larger(previous.total, batch),
                     !.attempt_skipped = 0, !.attempt_failed = 0, !.failure_state = "none"]

begin_publication_attempt(previous, batch) ==
    [previous EXCEPT !.failed = 0,
                     !.total = Larger(previous.total, previous.applied + batch),
                     !.attempt_skipped = 0, !.attempt_failed = 0,
                     !.failure_state = "none"]

record_publication_applied(c, n) == [c EXCEPT !.applied = @ + n]

record_publication_skip(c, n) ==
    [c EXCEPT !.skipped = Larger(c.skipped, c.attempt_skipped + n),
              !.attempt_skipped = @ + n]

record_publication_failure(c, n) ==
    [c EXCEPT !.failed = c.attempt_failed + n, !.attempt_failed = @ + n,
              !.attempt_failures = @ + n]

complete_publication_success(c) ==
    LET total == Larger(c.total, c.applied)
    IN  [c EXCEPT !.failed = 0, !.skipped = total - c.applied, !.total = total,
                  !.attempt_failed = 0, !.failure_state = "none"]

(* Mutant: the skipped count is left beside the new failed count. *)
mark_without_reconciling(c, terminal) ==
    [c EXCEPT !.failed = IF terminal
                         THEN Larger(c.total - c.applied - c.skipped, c.attempt_failed)
                         ELSE c.attempt_failed,
              !.failure_state = IF terminal THEN "terminal" ELSE "retrying"]

mark_publication_failure(c, terminal) ==
    LET failed == Larger(Larger(c.total - c.applied - c.skipped, c.attempt_failed), 0)
    IN  IF terminal
        THEN [c EXCEPT !.failed = failed, !.failure_state = "terminal",
                       !.skipped = Larger(c.total - c.applied - failed, 0)]
        ELSE [c EXCEPT !.failed = c.attempt_failed, !.failure_state = "retrying"]

------------------------------------------------------------------------------
ProgressTypeOK ==
    /\ progress \in Counters
    /\ stored \in Counters
    /\ left \in Nat
    /\ approved \in Nat
    /\ ever \in 0..MaxLinks
    /\ written \in Nat
    /\ missed \in BOOLEAN
    /\ retryable \in BOOLEAN
    /\ status \in {"queued", "running", "succeeded", "failed"}
    /\ error \in {"none", "task", "lost"}
    /\ attempt \in {"waiting", "going", "done", "over"}
    /\ retries \in 0..PublishRetries

ProgressInit ==
    /\ progress = NoProgress
    /\ stored = NoProgress
    /\ left = 0
    /\ ever \in 0..MaxLinks
    /\ approved = ever
    /\ written = 0
    /\ missed = FALSE
    /\ retryable = FALSE
    /\ status = "queued"
    /\ error = "none"
    /\ attempt = "waiting"
    /\ retries = PublishRetries

(* An operator approves another plan, before or between attempts. *)
ApproveMore(n) ==
    /\ ever + n <= MaxLinks
    /\ ever' = ever + n
    /\ approved' = approved + n
    /\ UNCHANGED <<progress, stored, left, written, missed, retryable, status, error, attempt, retries>>

(* Storing the counters is advisory: it may fail without failing the job. *)
Checkpoint ==
    \/ stored' = progress' /\ UNCHANGED missed
    \/ UNCHANGED stored /\ missed' = TRUE

(* The attempt starts from what the last one stored, whatever the row says *)
(* by then.                                                                *)
Begin ==
    /\ attempt = "waiting"
    /\ progress' = begin_publication_attempt(stored, approved)
    /\ Checkpoint
    /\ left' = approved
    /\ retryable' = FALSE
    /\ status' = "running"
    /\ attempt' = "going"
    /\ UNCHANGED <<approved, ever, written, error, retries>>

Reach(n) ==
    /\ attempt = "going"
    /\ n \in 1..left
    /\ left' = left - n

(* The counters commit with the rows they count, from a savepoint. *)
LinkApplied(n) ==
    /\ Reach(n)
    /\ progress' = record_publication_applied(progress, n)
    /\ Checkpoint
    /\ written' = written + n
    /\ approved' = approved - n
    /\ UNCHANGED <<ever, retryable, status, error, attempt, retries>>

(* Stale, or finished by another worker: no longer approved. *)
Skipped(n) ==
    /\ Reach(n)
    /\ progress' = record_publication_skip(progress, n)
    /\ Checkpoint
    /\ approved' = approved - n
    /\ UNCHANGED <<ever, written, retryable, status, error, attempt, retries>>

(* A network failure or a failed commit leaves the plan approved; a        *)
(* tampered or exhausted plan is retired.                                  *)
Failed(n, retired) ==
    /\ Reach(n)
    /\ progress' = record_publication_failure(progress, n)
    /\ Checkpoint
    /\ approved' = IF retired THEN approved - n ELSE approved
    /\ retryable' = (retryable \/ ~retired)
    /\ UNCHANGED <<ever, written, status, error, attempt, retries>>

(* run_durably and _reconcile_interrupted_job record a failure: they work  *)
(* on the stored copy.                                                     *)
MarkFailed(final) ==
    /\ stored' = mark_publication_failure(stored, final)
    /\ status' = IF final THEN "failed" ELSE "queued"
    /\ error' = "task"

(* RQ goes on to the next attempt, or gives up. *)
GiveUpOrRetry(final) ==
    /\ attempt' = IF final THEN "over" ELSE "waiting"
    /\ retries' = IF final THEN retries ELSE retries - 1
    /\ left' = 0
    /\ UNCHANGED <<progress, approved, ever, written, missed, retryable>>

(* Links failed: the task raises. *)
EndFailed ==
    /\ attempt = "going" /\ left = 0
    /\ progress.attempt_failed > 0
    /\ LET final == ~retryable \/ retries = 0
       IN  MarkFailed(final) /\ GiveUpOrRetry(final)

(* None did: the totals are closed and the job succeeds. *)
EndSucceeded ==
    /\ attempt = "going" /\ left = 0
    /\ progress.attempt_failed = 0
    /\ progress' = complete_publication_success(progress)
    /\ Checkpoint
    /\ status' = "succeeded"
    /\ error' = "none"
    /\ attempt' = "done"
    /\ UNCHANGED <<left, approved, ever, written, retryable, retries>>

(* The work horse dies in the middle of the batch or before RQ knows of    *)
(* the end, or is stopped, and the handler reconciles the row unless it is *)
(* final, or cannot reach the database.                                    *)
Killed(stopped) ==
    /\ attempt \in {"going", "done"}
    /\ LET final == stopped \/ retries = 0
       IN  /\ GiveUpOrRetry(final)
           /\ \/ /\ status = "running" \/ (status = "succeeded" /\ ~final)
                 /\ MarkFailed(final)
              \/ UNCHANGED <<stored, status, error>>

(* _mark_run_lost: a listing or a trigger finds no job in RQ behind an     *)
(* active row and fails it, its counters as they are.  The worker may be   *)
(* alive still, or the job in the queue behind a row that cannot name it.  *)
DeclaredLost ==
    /\ status \in {"queued", "running"}
    /\ status' = "failed"
    /\ error' = "lost"
    /\ attempt' \in {attempt, "over"}
    /\ UNCHANGED <<progress, stored, left, approved, ever, written, missed, retryable, retries>>

ProgressNext ==
    \/ Begin \/ EndFailed \/ EndSucceeded \/ DeclaredLost
    \/ \E stopped \in BOOLEAN : Killed(stopped)
    \/ \E n \in 1..MaxLinks :
          \/ ApproveMore(n) \/ LinkApplied(n) \/ Skipped(n)
          \/ \E retired \in BOOLEAN : Failed(n, retired)

ProgressSpec == ProgressInit /\ [][ProgressNext]_progressVars

------------------------------------------------------------------------------
(* "`applied` is a monotonic count of committed suggestion updates": over  *)
(* every retry, failed commit and kill the job never reports more links    *)
(* than it committed, nor more than the total, and reports exactly what it *)
(* committed unless storing a counter failed.                              *)
AppliedIsExact ==
    /\ stored.applied <= written
    /\ stored.applied <= stored.total
    /\ ~missed => stored.applied = written

(* "reconciled to internally consistent final counters": a run that its    *)
(* task or its handler failed accounts for each link exactly once; one     *)
(* that was declared lost keeps its last counters, which never claim more  *)
(* links than there were.                                                  *)
TerminalAddsUp ==
    status = "failed" =>
        /\ stored.applied + stored.failed <= stored.total
        /\ error = "task" => stored.applied + stored.failed + stored.skipped = stored.total

(* "The original total remains stable": neither the total nor the applied  *)
(* count a dashboard has shown ever goes down.                             *)
NeverGoesBack ==
    [][stored'.applied >= stored.applied /\ stored'.total >= stored.total]_progressVars

==============================================================================
