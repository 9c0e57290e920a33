---------------------------- MODULE PipelineBatch ----------------------------
(***************************************************************************)
(* One pipeline batch: for every site an ingestion job that, when it       *)
(* succeeds, queues an analysis job (app/tasks/pipeline.py), the status    *)
(* rows they keep (app/services/pipeline_service.py), and the requests     *)
(* that create, cancel and retry (app/api/routes/pipelines.py).            *)
(*                                                                         *)
(* A job step stops where the code ends a transaction, waits for a row     *)
(* lock or leaves the database.  update_pipeline_site locks the site run   *)
(* and then the batch; cancel and retry lock the batch first.  The request *)
(* sessions do not autoflush and do not reload rows they already hold, so  *)
(* cancel and retry judge the batch by the copy read before its lock.      *)
(* enqueue_job is what DurableJobs promises of it: one active job per site *)
(* and kind.                                                               *)
(***************************************************************************)
EXTENDS Naturals

CONSTANTS
    Sites,          \* the sites of the batch
    MaxRetries,     \* RQ retries of a job
    RetrySites,     \* the site runs an operator may retry
    MaxIncidents,   \* horses killed and retry requests made
    KillLast,       \* whether a kill may hit the last attempt
    None            \* no site, no status

ASSUME PipelineAssumption ==
    /\ Sites # {} /\ None \notin Sites /\ RetrySites \subseteq Sites
    /\ MaxRetries \in Nat /\ MaxIncidents \in Nat
    /\ KillLast \in BOOLEAN

VARIABLES
    batch,      \* pipeline_batches.status
    item,       \* site -> its pipeline_site_runs row
    job,        \* site -> kind -> the RQ job and where its task stands
    creating,   \* the creating request: sites left, the one being linked
    cancel,     \* the cancel request (at most one)
    retry,      \* a retry request
    done,       \* history: site -> the kinds whose body completed
    incidents

vars == <<batch, item, job, creating, cancel, retry, done, incidents>>

Kinds == {"ingestion", "analysis"}
ACTIVE_SITE_STATUSES == {"queued", "ingestion_running", "analysis_queued", "analysis_running"}
SiteStatuses == ACTIVE_SITE_STATUSES \cup {"succeeded", "failed", "cancelled"}
FinishedBatch == {"succeeded", "failed", "partial_failed"}
TERMINAL_BATCH_STATUSES == FinishedBatch \cup {"cancelled"}
BatchStatuses == {"queued", "running"} \cup TERMINAL_BATCH_STATUSES

RunningStatus(k) == IF k = "ingestion" THEN "ingestion_running" ELSE "analysis_running"

(* "off" is a job that does not exist or is over; "lock" waits for the     *)
(* site run's row, "batch" holds it and waits for the batch's.             *)
Running == {"lock", "batch", "body", "enqueue", "link"}
JobRows ==
    [pc : Running \cup {"off", "queued"}, to : SiteStatuses \ {"cancelled"},
     stage : Kinds \cup {"completed"}, left : 0..MaxRetries, known : BOOLEAN, stop : BOOLEAN]

Fresh(pc, left) == [pc |-> pc, to |-> "queued", stage |-> "ingestion", left |-> left,
                    known |-> FALSE, stop |-> FALSE]
Off == Fresh("off", 0)
Queued == Fresh("queued", MaxRetries)
NoRetry == [pc |-> "idle", site |-> None, stage |-> "ingestion", seen |-> "queued",
            now |-> "queued", status |-> "queued"]

TypeOK ==
    /\ batch \in BatchStatuses
    /\ item \in [Sites -> [status : SiteStatuses, stage : Kinds \cup {"completed"},
                           retries : Nat]]
    /\ job \in [Sites -> [Kinds -> JobRows]]
    /\ creating \in [todo : SUBSET Sites, link : Sites \cup {None}, open : BOOLEAN]
    /\ cancel \in {"never", "lock", "items", "over"}
    /\ retry \in [pc : {"idle", "lock", "flush", "enqueue", "read", "link", "undo"},
                  site : Sites \cup {None}, stage : Kinds, seen : BatchStatuses,
                  now : BatchStatuses, status : SiteStatuses]
    /\ done \in [Sites -> SUBSET Kinds]
    /\ incidents \in 0..MaxIncidents

Init ==
    /\ batch = "queued"
    /\ item = [s \in Sites |-> [status |-> "queued", stage |-> "ingestion", retries |-> 0]]
    /\ job = [s \in Sites |-> [k \in Kinds |-> Off]]
    /\ creating = [todo |-> Sites, link |-> None, open |-> TRUE]
    /\ cancel = "never"
    /\ retry = NoRetry
    /\ done = [s \in Sites |-> {}]
    /\ incidents = 0

ItemHeld(s) == \E k \in Kinds : job[s][k].pc = "batch"
BatchHeld == cancel = "items" \/ retry.pc = "flush"

Statuses(rows) == {rows[s].status : s \in Sites}

(* refresh_pipeline_batch_status, given the batch's status as the session  *)
(* has it and the site runs as the database has them.                      *)
Refreshed(seen, rows) ==
    IF seen = "cancelled" THEN "cancelled"
    ELSE IF Statuses(rows) \cap ACTIVE_SITE_STATUSES # {} THEN "running"
    ELSE IF Statuses(rows) = {"succeeded"} THEN "succeeded"
    ELSE IF Statuses(rows) = {"failed"} THEN "failed"
    ELSE IF "cancelled" \in Statuses(rows) THEN "cancelled"
    ELSE "partial_failed"

------------------------------------------------------------------------------
(* The tasks.                                                              *)

Goto(s, k, pc) ==
    job' = [job EXCEPT ![s][k] = IF pc = "off" THEN Off ELSE [@ EXCEPT !.pc = pc]]

(* The task starts update_pipeline_site(status, stage). *)
Update(s, k, status, stage) ==
    job' = [job EXCEPT ![s][k] = [@ EXCEPT !.pc = "lock", !.to = status, !.stage = stage]]

(* An exception leaves the task: RQ schedules another attempt or gives up. *)
Attempted(j) ==
    IF j.left > 0 THEN [Fresh("queued", j.left - 1) EXCEPT !.known = j.known] ELSE Off

(* The site run gets the id of the job; the job may already be over. *)
Known(j) == IF j.pc = "off" THEN j ELSE [j EXCEPT !.known = TRUE]

OnlyJobs == UNCHANGED <<batch, item, creating, cancel, retry, done, incidents>>

(* The task starts: _require_pipeline_site, then the stage is marked. *)
Take(s, k) ==
    /\ job[s][k].pc = "queued"
    /\ IF item[s].status = "cancelled" THEN Goto(s, k, "off")
       ELSE Update(s, k, RunningStatus(k), k)
    /\ OnlyJobs

(* Where the task goes on after an update to `to`. *)
AfterUpdate(to) == IF to \in {"succeeded", "failed"} THEN "off" ELSE "body"

(* Mutant: the site run's own cancellation is not looked at. *)
LockBlindly(s, k) ==
    /\ job[s][k].pc = "lock"
    /\ ~ItemHeld(s)
    /\ Goto(s, k, "batch")
    /\ OnlyJobs

(* update_pipeline_site up to its guard: a cancelled row is left alone. *)
Lock(s, k) ==
    /\ job[s][k].pc = "lock"
    /\ ~ItemHeld(s)
    /\ Goto(s, k, IF item[s].status = "cancelled" THEN AfterUpdate(job[s][k].to) ELSE "batch")
    /\ OnlyJobs

(* Mutant: the row is not flushed before the batch is recomputed. *)
UpdateUnflushed(s, k) ==
    /\ job[s][k].pc = "batch"
    /\ ~BatchHeld
    /\ item' = [item EXCEPT ![s].status = job[s][k].to, ![s].stage = job[s][k].stage]
    /\ batch' = Refreshed(batch, item)
    /\ Goto(s, k, AfterUpdate(job[s][k].to))
    /\ UNCHANGED <<creating, cancel, retry, done, incidents>>

(* update_pipeline_site after its guard: write, flush, refresh, commit. *)
UpdateSite(s, k) ==
    /\ job[s][k].pc = "batch"
    /\ ~BatchHeld
    /\ item' = [item EXCEPT ![s].status = job[s][k].to, ![s].stage = job[s][k].stage]
    /\ batch' = Refreshed(batch, item')
    /\ Goto(s, k, AfterUpdate(job[s][k].to))
    /\ UNCHANGED <<creating, cancel, retry, done, incidents>>

(* After the body: _require_pipeline_site again, then the next stage or    *)
(* the end.                                                                *)
AfterBody(s, k) ==
    CASE item[s].status = "cancelled" -> Goto(s, k, "off")
      [] item[s].status # "cancelled" /\ k = "ingestion" -> Goto(s, k, "enqueue")
      [] OTHER -> Update(s, k, "succeeded", "completed")

BodySucceeds(s, k) ==
    /\ job[s][k].pc = "body"
    /\ done' = [done EXCEPT ![s] = @ \cup {k}]
    /\ AfterBody(s, k)
    /\ UNCHANGED <<batch, item, creating, cancel, retry, incidents>>

(* Mutant: the error of a body that may be retried is swallowed. *)
FailOnlyAtLast(s, k) ==
    /\ job[s][k].pc = "body"
    /\ IF job[s][k].left > 0 THEN AfterBody(s, k) ELSE Update(s, k, "failed", k)
    /\ OnlyJobs

(* run_durably raises; _mark_stage_failure writes only at the last attempt. *)
BodyFails(s, k) ==
    /\ job[s][k].pc = "body"
    /\ IF job[s][k].left > 0 THEN job' = [job EXCEPT ![s][k] = Attempted(@)]
       ELSE Update(s, k, "failed", k)
    /\ OnlyJobs

EnqueueAnalysis(s) ==
    /\ job[s]["ingestion"].pc = "enqueue"
    /\ job[s]["analysis"].pc = "off"
    /\ job' = [job EXCEPT ![s]["ingestion"].pc = "link", ![s]["analysis"] = Queued]
    /\ OnlyJobs

(* Mutant: a refused analysis ends the task without a trace. *)
DuplicateIgnored(s) ==
    /\ job[s]["ingestion"].pc = "enqueue"
    /\ Goto(s, "ingestion", "off")
    /\ OnlyJobs

(* DuplicateJobError: this site's analysis is active, for this batch or on *)
(* somebody else's request.                                                *)
AnalysisDuplicate(s) ==
    /\ job[s]["ingestion"].pc = "enqueue"
    /\ Update(s, "ingestion", "failed", "analysis")
    /\ OnlyJobs

(* Redis or the tenant's limit refuse the job. *)
AnalysisRefused(s) ==
    /\ job[s]["ingestion"].pc = "enqueue"
    /\ IF job[s]["ingestion"].left > 0
       THEN job' = [job EXCEPT ![s]["ingestion"] = Attempted(@)]
       ELSE Update(s, "ingestion", "failed", "analysis")
    /\ OnlyJobs

(* The analysis id is stored; a fast worker may have advanced the row. *)
LinkAnalysis(s) ==
    /\ job[s]["ingestion"].pc = "link"
    /\ ~ItemHeld(s)
    /\ job' = [job EXCEPT ![s]["ingestion"] = Off, ![s]["analysis"] = Known(@)]
    /\ item' = IF item[s].status = "ingestion_running"
               THEN [item EXCEPT ![s].status = "analysis_queued", ![s].stage = "analysis"]
               ELSE item
    /\ UNCHANGED <<batch, creating, cancel, retry, done, incidents>>

(* The horse dies wherever it is; its transaction is rolled back. *)
Kill(s, k) ==
    /\ job[s][k].pc \in Running
    /\ incidents < MaxIncidents
    /\ job[s][k].left > 0 \/ KillLast
    /\ job' = [job EXCEPT ![s][k] = Attempted(@)]
    /\ incidents' = incidents + 1
    /\ UNCHANGED <<batch, item, creating, cancel, retry, done>>

(* RQ delivers the stop command of a cancel request. *)
Stop(s, k) ==
    /\ job[s][k].stop
    /\ job[s][k].pc \in Running
    /\ Goto(s, k, "off")
    /\ OnlyJobs

(* The task holds the site run, a request the batch, and each waits for    *)
(* the other: PostgreSQL aborts the task's transaction.                    *)
TaskAborted(s, k) ==
    /\ job[s][k].pc = "batch"
    /\ cancel = "items" \/ (retry.pc = "flush" /\ retry.site = s)
    /\ job' = [job EXCEPT ![s][k] = Attempted(@)]
    /\ OnlyJobs

Task(s, k) ==
    \/ Take(s, k) \/ Lock(s, k) \/ UpdateSite(s, k)
    \/ BodySucceeds(s, k) \/ BodyFails(s, k)
    \/ k = "ingestion" /\ (EnqueueAnalysis(s) \/ AnalysisDuplicate(s) \/ AnalysisRefused(s)
                           \/ LinkAnalysis(s))
    \/ TaskAborted(s, k)

------------------------------------------------------------------------------
(* create_pipeline_batch.  Its caller learns the batch id at the end, so   *)
(* nobody cancels or retries before.                                       *)

CreateEnqueue(s) ==
    /\ creating.open /\ creating.link = None
    /\ s \in creating.todo
    /\ job' = [job EXCEPT ![s]["ingestion"] = Queued]
    /\ creating' = [creating EXCEPT !.todo = @ \ {s}, !.link = s]
    /\ UNCHANGED <<batch, item, cancel, retry, done, incidents>>

CreateLink ==
    /\ creating.link # None
    /\ ~ItemHeld(creating.link)
    /\ job' = [job EXCEPT ![creating.link]["ingestion"] = Known(@)]
    /\ creating' = [creating EXCEPT !.link = None]
    /\ UNCHANGED <<batch, item, cancel, retry, done, incidents>>

(* The site has an active ingestion, or enqueueing fails. *)
CreateRefused(s) ==
    /\ creating.open /\ creating.link = None
    /\ s \in creating.todo
    /\ item' = [item EXCEPT ![s].status = "failed", ![s].stage = "ingestion"]
    /\ batch' = Refreshed(batch, item')
    /\ creating' = [creating EXCEPT !.todo = @ \ {s}]
    /\ UNCHANGED <<job, cancel, retry, done, incidents>>

CreateEnd ==
    /\ creating.open /\ creating.link = None /\ creating.todo = {}
    /\ batch' = Refreshed(batch, item)
    /\ creating' = [creating EXCEPT !.open = FALSE]
    /\ UNCHANGED <<item, job, cancel, retry, done, incidents>>

Create == (\E s \in Sites : CreateEnqueue(s) \/ CreateRefused(s)) \/ CreateLink \/ CreateEnd

------------------------------------------------------------------------------
(* cancel_pipeline_batch.                                                  *)

(* _authorized_batch reads the batch without its lock; a terminal one is   *)
(* refused, and the copy is not read again when the lock is granted.       *)
CancelRead ==
    /\ ~creating.open
    /\ cancel = "never"
    /\ batch \notin TERMINAL_BATCH_STATUSES
    /\ cancel' = "lock"
    /\ UNCHANGED <<batch, item, job, creating, retry, done, incidents>>

CancelLock ==
    /\ cancel = "lock"
    /\ ~BatchHeld
    /\ cancel' = "items"
    /\ UNCHANGED <<batch, item, job, creating, retry, done, incidents>>

(* _stop_queue_job for a job whose id the site run has, if Redis answers. *)
Stopped(j) ==
    IF ~j.known \/ j.pc = "off" THEN j
    ELSE IF j.pc = "queued" THEN Off
    ELSE [j EXCEPT !.stop = TRUE]

CancelItems(redis) ==
    LET hit == {s \in Sites : item[s].status \notin {"succeeded", "failed"}}
    IN  /\ cancel = "items"
        /\ \A s \in Sites : ~ItemHeld(s)
        /\ item' = [s \in Sites |->
                       IF s \in hit THEN [item[s] EXCEPT !.status = "cancelled"] ELSE item[s]]
        /\ job' = [s \in Sites |-> [k \in Kinds |->
                       IF s \in hit /\ redis THEN Stopped(job[s][k]) ELSE job[s][k]]]
        /\ batch' = "cancelled"
        /\ cancel' = "over"
        /\ UNCHANGED <<creating, retry, done, incidents>>

(* The deadlock's other victim. *)
CancelAborted ==
    /\ cancel = "items"
    /\ \E s \in Sites : ItemHeld(s)
    /\ cancel' = "over"
    /\ UNCHANGED <<batch, item, job, creating, retry, done, incidents>>

Cancel == CancelRead \/ CancelLock \/ (\E redis \in BOOLEAN : CancelItems(redis)) \/ CancelAborted

------------------------------------------------------------------------------
(* retry_pipeline_site.                                                    *)

RetryVars == <<creating, cancel, done, incidents>>

(* The batch and the failed site run are read without locks. *)
RetryRead(s) ==
    /\ ~creating.open
    /\ retry.pc = "idle"
    /\ item[s].status = "failed"
    /\ incidents < MaxIncidents
    /\ incidents' = incidents + 1
    /\ retry' = [retry EXCEPT !.pc = "lock", !.site = s, !.seen = batch,
                              !.stage = IF item[s].stage = "ingestion" THEN "ingestion"
                                        ELSE "analysis"]
    /\ UNCHANGED <<batch, item, job, creating, cancel, done>>

(* refresh_pipeline_batch_status with the site run's change not flushed. *)
RetryLock ==
    /\ retry.pc = "lock"
    /\ ~BatchHeld
    /\ retry' = [retry EXCEPT !.pc = "flush", !.now = Refreshed(retry.seen, item)]
    /\ UNCHANGED <<batch, item, job, RetryVars>>

(* A column is written only when the session saw it change. *)
Written(seen, now) == IF now # seen THEN now ELSE batch

RetryFlush ==
    /\ retry.pc = "flush"
    /\ ~ItemHeld(retry.site)
    /\ item' = [item EXCEPT ![retry.site].status = "queued", ![retry.site].retries = @ + 1]
    /\ batch' = Written(retry.seen, retry.now)
    /\ retry' = [retry EXCEPT !.pc = "enqueue", !.seen = retry.now]
    /\ UNCHANGED <<job, RetryVars>>

RetryEnqueue ==
    /\ retry.pc = "enqueue"
    /\ job[retry.site][retry.stage].pc = "off"
    /\ job' = [job EXCEPT ![retry.site][retry.stage] = Queued]
    /\ retry' = [retry EXCEPT !.pc = "read"]
    /\ UNCHANGED <<batch, item, RetryVars>>

RetryRefused ==
    /\ retry.pc = "enqueue"
    /\ retry' = [retry EXCEPT !.pc = "undo"]
    /\ UNCHANGED <<batch, item, job, RetryVars>>

(* update_pipeline_site on the copy the session already has. *)
RetryUndo ==
    /\ retry.pc = "undo"
    /\ ~ItemHeld(retry.site) /\ ~BatchHeld
    /\ item' = [item EXCEPT ![retry.site].status = "failed"]
    /\ batch' = Written(retry.seen, Refreshed(retry.seen, item'))
    /\ retry' = NoRetry
    /\ UNCHANGED <<job, RetryVars>>

(* db.refresh(item) ... *)
RetryReread ==
    /\ retry.pc = "read"
    /\ retry' = [retry EXCEPT !.pc = "link", !.status = item[retry.site].status]
    /\ UNCHANGED <<batch, item, job, RetryVars>>

(* ... and the write by primary key. *)
RetryLink ==
    LET s == retry.site
        k == retry.stage
    IN  /\ retry.pc = "link"
        /\ ~ItemHeld(s)
        /\ job' = [job EXCEPT ![s][k] = Known(@)]
        /\ item' = IF k = "analysis" /\ retry.status = "queued"
                   THEN [item EXCEPT ![s].status = "analysis_queued"] ELSE item
        /\ retry' = NoRetry
        /\ UNCHANGED <<batch, RetryVars>>

Retry ==
    \/ \E s \in RetrySites : RetryRead(s)
    \/ RetryLock \/ RetryFlush \/ RetryEnqueue \/ RetryRefused \/ RetryUndo
    \/ RetryReread \/ RetryLink

------------------------------------------------------------------------------
Next ==
    \/ \E s \in Sites, k \in Kinds : Task(s, k) \/ Kill(s, k) \/ Stop(s, k)
    \/ Create
    \/ Cancel
    \/ Retry

Spec == Init /\ [][Next]_vars

(* The creating request goes on and RQ keeps running the tasks it has;     *)
(* nobody has to cancel, retry, kill or stop anything.                     *)
FairSpec ==
    /\ Spec
    /\ \A s \in Sites : WF_vars(\E k \in Kinds : Task(s, k))
    /\ WF_vars(Create)

------------------------------------------------------------------------------
NeverRetried == retry.pc = "idle" /\ \A s \in Sites : item[s].retries = 0
Undisturbed == NeverRetried /\ cancel = "never"

(* docs/batch-pipeline.md, "a late task cannot revive the batch after the  *)
(* request commits": whatever task, kill, stop or abort comes late, a      *)
(* cancelled batch and its cancelled site runs stay cancelled; only a      *)
(* retry request reaches them.                                             *)
CancelIsFinal ==
    [][retry' = retry =>
          /\ batch = "cancelled" => batch' = "cancelled"
          /\ \A s \in Sites : item[s].status = "cancelled" => item'[s].status = "cancelled"]_vars

(* refresh_pipeline_batch_status: once created, and as long as nobody      *)
(* retries, the batch is what its site runs add up to or was cancelled,    *)
(* although every task writes its own row; and no site run of a cancelled  *)
(* batch is active, unless a horse was killed (a killed ingestion that had *)
(* queued its analysis fails as a duplicate of it, a cancel passes over    *)
(* the failed row, and the analysis takes the row up again).               *)
BatchAgrees ==
    ~creating.open /\ NeverRetried =>
        /\ batch \in {"cancelled", Refreshed("queued", item)}
        /\ batch = "cancelled" /\ incidents = 0 =>
              Statuses(item) \cap ACTIVE_SITE_STATUSES = {}

(* docs/batch-pipeline.md, "the worker runs these stages in order": a site *)
(* run succeeds only after an ingestion and then an analysis completed,    *)
(* over retries of RQ and of operators.                                    *)
SucceededIsEarned ==
    \A s \in Sites :
        /\ item[s].status = "succeeded" => done[s] = Kinds
        /\ "analysis" \in done[s] => "ingestion" \in done[s]

(* Every batch that nobody cancels or retries ends, refused jobs, failing  *)
(* bodies and horses killed before their last attempt included.            *)
BatchEnds ==
    Undisturbed ~> (~Undisturbed \/ batch \in TERMINAL_BATCH_STATUSES)

(* docs/batch-pipeline.md, "The batch ends as succeeded, failed,           *)
(* partial_failed, or cancelled when no active site remains".              *)
TerminalMeansQuiet ==
    batch \in TERMINAL_BATCH_STATUSES => Statuses(item) \cap ACTIVE_SITE_STATUSES = {}
==============================================================================
