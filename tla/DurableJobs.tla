----------------------------- MODULE DurableJobs -----------------------------
(***************************************************************************)
(* Durable job runs (app/services/job_service.py, app/worker.py): the      *)
(* job_runs rows of PostgreSQL beside the jobs of Redis/RQ, for one site   *)
(* and one kind of job.  Run r has at most one RQ job, also named r.       *)
(*                                                                         *)
(* A caller is an API request: "trigger" enqueues a job under the site's   *)
(* advisory lock, "list" reconciles the active runs it shows.  The cancel  *)
(* of a pipeline batch (app/api/routes/pipelines.py) writes the runs of    *)
(* the batch too, without that lock.  A horse is an RQ worker with its     *)
(* task child:                                                             *)
(*    start   dequeued              raised  the task raised, RQ untold     *)
(*    begin   the site run of its   killed  child gone, handler pending    *)
(*            batch was seen live   stopped stopped on purpose, callback   *)
(*    body    running is committed          pending                        *)
(*    ok      success committed,    handled handler done, RQ untold        *)
(*            RQ not told yet       skipped returned before run_durably    *)
(***************************************************************************)
EXTENDS Naturals, FiniteSets

CONSTANTS
    Runs,           \* job_runs primary keys (naturals): the bound on triggers
    PipelineRuns,   \* the ones that a pipeline batch asked for
    Callers,        \* API requests that may be in flight
    Horses,         \* RQ workers
    MaxRetries,     \* Retry(max=2)
    AllowedFaults,  \* which losses may happen, each at most once
    None

FaultKinds == {"api", "redis", "unreachable", "handler", "database"}

ASSUME JobsAssumption ==
    /\ Runs \subseteq Nat
    /\ PipelineRuns \subseteq Runs
    /\ MaxRetries \in Nat
    /\ AllowedFaults \subseteq FaultKinds
    /\ None \notin Runs

VARIABLES
    run,      \* run -> [status, assigned, attempts]: the job_runs row
    rq,       \* run -> [status, retries]: the RQ job
    caller,   \* caller -> [pc, kind, active, ask, gone, run]
    horse,    \* horse -> [pc, run]
    cancel,   \* run -> [pc, active]: the cancel of its batch, with its copy of the row
    hist,     \* history: the sets of runs described below
    faults    \* history: the losses that have happened

vars == <<run, rq, caller, horse, cancel, hist, faults>>

(* The history that the properties speak of, as sets of runs:              *)
(*   adrift      whose job Redis lost, or whose trigger died between the   *)
(*               enqueue and the queue id                                  *)
(*   loose       failed in the table by a cancel, or with a success in the *)
(*               table when the task raised or its worker died             *)
(*   unrecorded  whose task ended without its row being told               *)

ACTIVE == {"queued", "running"}
(* Mutant: a retry that waits for its turn is forgotten. *)
ActiveWithoutScheduled == {"queued", "started"}

RQ_ACTIVE_STATUSES == {"queued", "started", "scheduled"}
RqActive(r) == rq[r].status \in RQ_ACTIVE_STATUSES

IdleCaller == [pc |-> "idle", kind |-> "list", active |-> {}, ask |-> {},
               gone |-> {}, run |-> None]
IdleHorse == [pc |-> "idle", run |-> None]

TypeOK ==
    /\ run \in [Runs -> [status : {"absent", "queued", "running", "succeeded", "failed"},
                         assigned : BOOLEAN, attempts : Nat]]
    /\ rq \in [Runs -> [status : {"none", "queued", "started", "scheduled", "finished",
                                  "failed", "stopped", "canceled"},
                        retries : 0..MaxRetries]]
    /\ caller \in [Callers -> [pc : {"idle", "ask", "refresh", "decide", "enqueue", "assign"},
                               kind : {"trigger", "list"}, active : SUBSET Runs,
                               ask : SUBSET Runs, gone : SUBSET Runs, run : Runs \cup {None}]]
    /\ horse \in [Horses -> [pc : {"idle", "start", "begin", "body", "ok", "skipped", "raised",
                                   "killed", "stopped", "handled"},
                             run : Runs \cup {None}]]
    /\ cancel \in [Runs -> [pc : {"no", "ask", "write", "done"}, active : BOOLEAN]]
    /\ hist \in [adrift : SUBSET Runs, loose : SUBSET Runs, unrecorded : SUBSET Runs]
    /\ faults \subseteq AllowedFaults

Init ==
    /\ run = [r \in Runs |-> [status |-> "absent", assigned |-> FALSE, attempts |-> 0]]
    /\ rq = [r \in Runs |-> [status |-> "none", retries |-> 0]]
    /\ caller = [c \in Callers |-> IdleCaller]
    /\ horse = [h \in Horses |-> IdleHorse]
    /\ cancel = [r \in Runs |-> [pc |-> "no", active |-> FALSE]]
    /\ hist = [adrift |-> {}, loose |-> {}, unrecorded |-> {}]
    /\ faults = {}

Fault(kind) ==
    /\ kind \in AllowedFaults \ faults
    /\ faults' = faults \cup {kind}

------------------------------------------------------------------------------
(* The caller that is between inserting run r and storing its queue id. *)
BeingEnqueued(r) == \E c \in Callers : caller[c].run = r

ActiveRuns == {r \in Runs : run[r].status \in ACTIVE}

(* Active rows with no queue id: _still_in_queue takes them for gone, but  *)
(* a listing spares rows inside the grace period, taken to be longer than  *)
(* an enqueue.                                                             *)
Unassigned(kind) ==
    {r \in ActiveRuns : ~run[r].assigned /\ (kind = "list" => ~BeingEnqueued(r))}

(* Mutant: no advisory lock. *)
NoEnqueueLock == TRUE

(* A trigger holds the site's advisory lock from here to its end. *)
EnqueueLockFree == \A d \in Callers : caller[d].pc = "idle" \/ caller[d].kind = "list"

(* The active rows are read. *)
ReadActive(c, kind) ==
    /\ caller[c].pc = "idle"
    /\ kind = "trigger" =>
          /\ EnqueueLockFree
          /\ \E r \in Runs : run[r].status = "absent"    \* the bound on triggers
    /\ caller' = [caller EXCEPT ![c] =
          [pc |-> "ask", kind |-> kind, active |-> ActiveRuns \ Unassigned(kind),
           ask |-> {r \in ActiveRuns : run[r].assigned},
           gone |-> Unassigned(kind), run |-> None]]
    /\ UNCHANGED <<run, rq, horse, cancel, hist, faults>>

(* Mutant: whatever had a queue id is taken to be alive. *)
AskNothing(c) ==
    /\ caller[c].pc = "ask"
    /\ caller' = [caller EXCEPT ![c] = [@ EXCEPT !.pc = "refresh", !.ask = {}]]
    /\ UNCHANGED <<run, rq, horse, cancel, hist, faults>>

(* RQ is asked about the ones that had a queue id. *)
AskQueue(c) ==
    /\ caller[c].pc = "ask"
    /\ LET gone == {r \in caller[c].ask : ~RqActive(r)}
       IN  caller' = [caller EXCEPT ![c].pc = "refresh", ![c].ask = {},
                                    ![c].active = @ \ gone, ![c].gone = @ \cup gone]
    /\ UNCHANGED <<run, rq, horse, cancel, hist, faults>>

(* Redis cannot be asked: a listing keeps what it could not check, a       *)
(* trigger ends in an error.                                               *)
QueueUnreachable(c) ==
    /\ caller[c].pc = "ask"
    /\ caller[c].ask # {}
    /\ Fault("unreachable")
    /\ caller' = [caller EXCEPT ![c] =
          IF @.kind = "list" THEN [@ EXCEPT !.pc = "refresh", !.ask = {}] ELSE IdleCaller]
    /\ UNCHANGED <<run, rq, horse, cancel, hist>>

(* The rows that looked lost are read again, after RQ was asked. *)
Refresh(c) ==
    /\ caller[c].pc = "refresh"
    /\ caller' = [caller EXCEPT ![c].pc = "decide",
                                ![c].gone = {r \in @ : run[r].status \in ACTIVE}]
    /\ UNCHANGED <<run, rq, horse, cancel, hist, faults>>

MarkLost(gone) ==
    [r \in Runs |-> IF r \in gone THEN [run[r] EXCEPT !.status = "failed"] ELSE run[r]]

IsNextRun(r) ==
    run[r].status = "absent" /\ \A q \in Runs : run[q].status = "absent" => r <= q

(* What is still gone is committed as failed.  A listing ends here, and a  *)
(* trigger that found live work is refused.                                *)
Settle(c) ==
    /\ caller[c].pc = "decide"
    /\ caller[c].kind = "list" \/ caller[c].active # {}
    /\ run' = MarkLost(caller[c].gone)
    /\ caller' = [caller EXCEPT ![c] = IdleCaller]
    /\ UNCHANGED <<rq, horse, cancel, hist, faults>>

(* The tenant has max_active_jobs_per_tenant jobs on its sites: refused,   *)
(* and what was found lost is rolled back with the request.                *)
OverCapacity(c) ==
    /\ caller[c].pc = "decide"
    /\ caller[c].kind = "trigger" /\ caller[c].active = {}
    /\ caller' = [caller EXCEPT ![c] = IdleCaller]
    /\ UNCHANGED <<run, rq, horse, cancel, hist, faults>>

(* Otherwise the new run is committed in the same transaction. *)
InsertRun(c) ==
    /\ caller[c].pc = "decide"
    /\ caller[c].kind = "trigger" /\ caller[c].active = {}
    /\ \E r \in Runs :
          /\ IsNextRun(r)
          /\ run' = [MarkLost(caller[c].gone) EXCEPT ![r].status = "queued"]
          /\ caller' = [caller EXCEPT ![c].pc = "enqueue", ![c].run = r, ![c].gone = {}]
    /\ UNCHANGED <<rq, horse, cancel, hist, faults>>

Enqueue(c) ==
    /\ caller[c].pc = "enqueue"
    /\ rq' = [rq EXCEPT ![caller[c].run] = [status |-> "queued", retries |-> MaxRetries]]
    /\ caller' = [caller EXCEPT ![c].pc = "assign"]
    /\ UNCHANGED <<run, horse, cancel, hist, faults>>

(* queue_job_id is committed and the advisory lock goes. *)
Assign(c) ==
    /\ caller[c].pc = "assign"
    /\ run' = [run EXCEPT ![caller[c].run].assigned = TRUE]
    /\ caller' = [caller EXCEPT ![c] = IdleCaller]
    /\ UNCHANGED <<rq, horse, cancel, hist, faults>>

(* Redis refuses the enqueue: the row stays, for the next trigger to fail. *)
EnqueueFails(c) ==
    /\ caller[c].pc = "enqueue"
    /\ caller' = [caller EXCEPT ![c] = IdleCaller]
    /\ UNCHANGED <<run, rq, horse, cancel, hist, faults>>

(* The API process dies in the middle; the lock dies with its connection,  *)
(* and a job that is already in the queue has a row that does not name it. *)
CallerCrash(c) ==
    /\ caller[c].pc # "idle"
    /\ Fault("api")
    /\ hist' = [hist EXCEPT !.adrift =
          IF caller[c].pc = "assign" THEN @ \cup {caller[c].run} ELSE @]
    /\ caller' = [caller EXCEPT ![c] = IdleCaller]
    /\ UNCHANGED <<run, rq, horse, cancel>>

------------------------------------------------------------------------------
At(h, pc) == horse[h].pc = pc
Become(h, pc) == horse' = [horse EXCEPT ![h].pc = pc]
SetRqStatus(r, status) == rq' = [rq EXCEPT ![r].status = status]

Dequeue(h, r) ==
    /\ At(h, "idle")
    /\ rq[r].status = "queued"
    /\ SetRqStatus(r, "started")
    /\ horse' = [horse EXCEPT ![h] = [pc |-> "start", run |-> r]]
    /\ UNCHANGED <<run, caller, cancel, hist, faults>>

(* _require_pipeline_site: a pipeline task looks at its site run first and *)
(* returns, its row untouched, when the batch was cancelled.               *)
Look(h) ==
    /\ At(h, "start")
    /\ horse[h].run \in PipelineRuns
    /\ IF cancel[horse[h].run].pc = "done"
       THEN /\ Become(h, "skipped")
            /\ hist' = [hist EXCEPT !.unrecorded =
                  IF run[horse[h].run].status \in ACTIVE THEN @ \cup {horse[h].run} ELSE @]
       ELSE Become(h, "begin") /\ UNCHANGED hist
    /\ UNCHANGED <<run, rq, caller, cancel, faults>>

(* run_durably, before the task body; a cancel since the look is not seen. *)
Start(h) ==
    /\ At(h, IF horse[h].run \in PipelineRuns THEN "begin" ELSE "start")
    /\ run' = [run EXCEPT ![horse[h].run].status = "running",
                          ![horse[h].run].attempts = @ + 1]
    /\ Become(h, "body")
    /\ UNCHANGED <<rq, caller, cancel, hist, faults>>

Succeed(h) ==
    /\ At(h, "body")
    /\ run' = [run EXCEPT ![horse[h].run].status = "succeeded"]
    /\ Become(h, "ok")
    /\ UNCHANGED <<rq, caller, cancel, hist, faults>>

(* The body raises; NonRetryableTaskError takes the retries away. *)
Raise(h, retryable) ==
    /\ At(h, "body")
    /\ LET r == horse[h].run
           left == IF retryable THEN rq[r].retries ELSE 0
       IN  /\ run' = [run EXCEPT ![r].status = IF left = 0 THEN "failed" ELSE "queued"]
           /\ rq' = [rq EXCEPT ![r].retries = left]
    /\ Become(h, "raised")
    /\ UNCHANGED <<caller, cancel, hist, faults>>

(* The database fails the task before run_durably has committed "running", *)
(* or in the commit of its result: it raises, its row as it was.           *)
RaiseUnrecorded(h) ==
    /\ horse[h].pc \in {"start", "begin", "body"}
    /\ Fault("database")
    /\ hist' = [hist EXCEPT !.unrecorded = @ \cup {horse[h].run}]
    /\ Become(h, "raised")
    /\ UNCHANGED <<run, rq, caller, cancel>>

(* A pipeline task raises in what it does after run_durably has committed  *)
(* the success (the next stage's enqueue, its site run): RQ will retry it. *)
RaiseLate(h) ==
    /\ At(h, "ok")
    /\ horse[h].run \in PipelineRuns
    /\ hist' = [hist EXCEPT !.loose = @ \cup {horse[h].run}]
    /\ Become(h, "raised")
    /\ UNCHANGED <<run, rq, caller, cancel, faults>>

(* RQ's own record of a failed execution: retry later, or give up. *)
RqFailure(r) ==
    rq' = [rq EXCEPT ![r] =
              CASE ~RqActive(r) -> @
                [] RqActive(r) /\ @.retries > 0 ->
                      [status |-> "scheduled", retries |-> @.retries - 1]
                [] OTHER -> [@ EXCEPT !.status = "failed"]]

(* RQ learns how the execution ended and the worker is free again. *)
Record(h) ==
    /\ horse[h].pc \in {"ok", "skipped", "raised", "handled"}
    /\ IF horse[h].pc \in {"ok", "skipped"}
       THEN rq' = [rq EXCEPT ![horse[h].run].status =
                      IF RqActive(horse[h].run) THEN "finished" ELSE @]
       ELSE RqFailure(horse[h].run)
    /\ horse' = [horse EXCEPT ![h] = IdleHorse]
    /\ UNCHANGED <<run, caller, cancel, hist, faults>>

------------------------------------------------------------------------------
(* The child is killed, or the whole worker dies and another one finds its *)
(* job abandoned.                                                          *)
Kill(h) ==
    /\ horse[h].pc \in {"start", "begin", "body", "ok", "skipped"}
    /\ hist' = [hist EXCEPT !.loose = IF At(h, "ok") THEN @ \cup {horse[h].run} ELSE @]
    /\ Become(h, "killed")
    /\ UNCHANGED <<run, rq, caller, cancel, faults>>

(* RQ's stop command, of an operator or of a cancel, reaches the worker:   *)
(* it kills the child and never retries.                                   *)
Stop(h) ==
    /\ horse[h].pc \in {"start", "begin", "body", "ok", "skipped"}
    /\ rq[horse[h].run].status = "started"
    /\ SetRqStatus(horse[h].run, "stopped")
    /\ Become(h, "stopped")
    /\ UNCHANGED <<run, caller, cancel, hist, faults>>

(* Mutant: a stopped job is left as it was. *)
ReconciledRetriesOnly(r, willRetry) ==
    IF willRetry THEN [run[r] EXCEPT !.status = "queued"] ELSE run[r]

(* _reconcile_interrupted_job under the row lock; the row is found by its  *)
(* queue id or, before that is stored, by the job's own arguments.         *)
Reconciled(r, willRetry) ==
    IF run[r].status = "failed" \/ (run[r].status = "succeeded" /\ ~willRetry) THEN run[r]
    ELSE [run[r] EXCEPT !.assigned = TRUE, !.status = IF willRetry THEN "queued" ELSE "failed"]

(* handle_work_horse_killed, handle_abandoned_job, handle_job_stopped. *)
Handle(h) ==
    /\ horse[h].pc \in {"killed", "stopped"}
    /\ LET r == horse[h].run
       IN  run' = [run EXCEPT ![r] = Reconciled(r, At(h, "killed") /\ rq[r].retries > 0)]
    /\ Become(h, "handled")
    /\ UNCHANGED <<rq, caller, cancel, hist, faults>>

(* The handler cannot reach the database; it never raises. *)
HandlerFails(h) ==
    /\ horse[h].pc \in {"killed", "stopped"}
    /\ Fault("handler")
    /\ hist' = [hist EXCEPT !.unrecorded = @ \cup {horse[h].run}]
    /\ Become(h, "handled")
    /\ UNCHANGED <<run, rq, caller, cancel>>

(* RQ's scheduler puts the retry back in the queue. *)
Promote(r) ==
    /\ rq[r].status = "scheduled"
    /\ SetRqStatus(r, "queued")
    /\ UNCHANGED <<run, caller, horse, cancel, hist, faults>>

(* Redis loses a job. *)
RedisLoss(r) ==
    /\ RqActive(r)
    /\ Fault("redis")
    /\ SetRqStatus(r, "none")
    /\ hist' = [hist EXCEPT !.adrift = @ \cup {r}]
    /\ UNCHANGED <<run, caller, horse, cancel>>

------------------------------------------------------------------------------
SetCancel(r, pc, active) == cancel' = [cancel EXCEPT ![r] = [pc |-> pc, active |-> active]]

(* cancel_pipeline_batch meets a site run that names r, whose queue id is  *)
(* stored by then: _stop_queue_job reads the row.                          *)
CancelRead(r) ==
    /\ r \in PipelineRuns /\ run[r].assigned
    /\ cancel[r].pc = "no"
    /\ SetCancel(r, "ask", run[r].status \in ACTIVE)
    /\ UNCHANGED <<run, rq, caller, horse, hist, faults>>

(* A job that waits is cancelled in the queue; to the worker of a started  *)
(* one a stop command is sent, which comes (Stop) late or never.           *)
CancelAsk(r) ==
    /\ cancel[r].pc = "ask"
    /\ SetCancel(r, "write", cancel[r].active)
    /\ rq' = [rq EXCEPT ![r].status = IF @ \in {"queued", "scheduled"} THEN "canceled" ELSE @]
    /\ UNCHANGED <<run, caller, horse, hist, faults>>

(* Redis cannot be asked, and the cancel goes on without. *)
CancelUnheard(r) ==
    /\ cancel[r].pc = "ask"
    /\ Fault("unreachable")
    /\ SetCancel(r, "write", cancel[r].active)
    /\ UNCHANGED <<run, rq, caller, horse, hist>>

(* The site run is committed as cancelled and, if the copy of the row was  *)
(* active, the row as failed, whatever it has become.                      *)
CancelCommit(r) ==
    /\ cancel[r].pc = "write"
    /\ SetCancel(r, "done", FALSE)
    /\ run' = [run EXCEPT ![r].status = IF cancel[r].active THEN "failed" ELSE @]
    /\ hist' = [hist EXCEPT !.loose = IF cancel[r].active THEN @ \cup {r} ELSE @]
    /\ UNCHANGED <<rq, caller, horse, faults>>

(* The request dies before its commit. *)
CancelCrash(r) ==
    /\ cancel[r].pc \in {"ask", "write"}
    /\ Fault("api")
    /\ SetCancel(r, "no", FALSE)
    /\ UNCHANGED <<run, rq, caller, horse, hist>>

(* The site run is cancelled while it does not name r, which is not linked *)
(* to it yet or has given its place to the run of a retry.                 *)
CancelPast(r) ==
    /\ r \in PipelineRuns /\ run[r].status # "absent"
    /\ cancel[r].pc = "no"
    /\ SetCancel(r, "done", FALSE)
    /\ UNCHANGED <<run, rq, caller, horse, hist, faults>>

------------------------------------------------------------------------------
Caller(c) ==
    \/ AskQueue(c) \/ Refresh(c) \/ Settle(c) \/ OverCapacity(c) \/ InsertRun(c)
    \/ Enqueue(c) \/ Assign(c)

Horse(h) ==
    \/ \E r \in Runs : Dequeue(h, r)
    \/ Look(h) \/ Start(h) \/ Succeed(h) \/ (\E retryable \in BOOLEAN : Raise(h, retryable))
    \/ Record(h) \/ Handle(h)

Next ==
    \/ \E c \in Callers, kind \in {"trigger", "list"} : ReadActive(c, kind)
    \/ \E c \in Callers : Caller(c) \/ QueueUnreachable(c) \/ EnqueueFails(c) \/ CallerCrash(c)
    \/ \E h \in Horses : \/ Horse(h) \/ Kill(h) \/ Stop(h) \/ HandlerFails(h)
                         \/ RaiseUnrecorded(h) \/ RaiseLate(h)
    \/ \E r \in Runs : \/ Promote(r) \/ RedisLoss(r) \/ CancelRead(r) \/ CancelAsk(r)
                       \/ CancelUnheard(r) \/ CancelCommit(r) \/ CancelCrash(r) \/ CancelPast(r)

Spec == Init /\ [][Next]_vars

(* Requests and jobs that have begun go on, RQ schedules its retries, and  *)
(* somebody keeps looking at the list of active jobs.                      *)
FairSpec ==
    /\ Spec
    /\ \A c \in Callers : WF_vars(Caller(c)) /\ SF_vars(ReadActive(c, "list"))
    /\ \A h \in Horses : WF_vars(Horse(h))
    /\ \A r \in Runs : WF_vars(Promote(r))

------------------------------------------------------------------------------
(* job_service docstring, "Duplicate triggers are refused while a run is   *)
(* active": two task bodies of the same site and kind never run together,  *)
(* unless the table said of one of the runs that it had ended (a cancel    *)
(* failed it, or it had committed a success behind which it then raised or *)
(* died), or its job and its row had lost sight of each other.             *)
OneBodyAtATime ==
    \A g, h \in Horses :
        At(g, "body") /\ At(h, "body") /\ g # h =>
            {horse[g].run, horse[h].run} \cap (hist.loose \cup hist.adrift) # {}

(* "Refresh after checking RQ": a run that neither its worker nor a cancel *)
(* ends is declared lost, and that only when its job is really gone and    *)
(* nothing can still complete it, unless its job and its row have lost     *)
(* sight of each other.                                                    *)
LostIsDead ==
    [][\A r \in Runs \ hist.adrift :
          run[r].status \in ACTIVE /\ run'[r].status = "failed" /\ UNCHANGED <<horse, cancel>> =>
              /\ rq[r].status \notin {"queued", "started", "scheduled"}
              /\ \A h \in Horses : horse[h].run = r => horse[h].pc \notin {"start", "begin", "body"}]_vars

(* Retry(max=2): no chain of failures, kills and handlers starts a task    *)
(* more often than its retries allow.                                      *)
AttemptsBounded ==
    \A r \in Runs : run[r].attempts <= MaxRetries + 1

(* Both records agree once RQ is finished with a job: the row is terminal  *)
(* too, unless the task ended without its row being told (its handler or   *)
(* the database failed, or it returned early behind a cancel).             *)
RecordsAgree ==
    \A r \in Runs \ hist.unrecorded :
        (/\ rq[r].status \in {"finished", "failed", "stopped"}
         /\ \A h \in Horses : horse[h].run # r)
        => run[r].status \in {"succeeded", "failed"}

(* No run stays queued or running for ever, whatever was lost. *)
EveryRunEnds ==
    \A r \in Runs : run[r].status \in ACTIVE ~> run[r].status \notin ACTIVE
==============================================================================
