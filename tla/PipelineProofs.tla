--------------------------- MODULE PipelineProofs ----------------------------
(***************************************************************************)
(* Cancellation and success of a pipeline batch, for any number of sites,  *)
(* RQ retries, kills and operator retries.                                 *)
(***************************************************************************)
EXTENDS PipelineBatch, TLAPS

(* What a job's record says about its site: a task that holds the row      *)
(* holds one that is not cancelled; an analysis is queued, running or due  *)
(* only where an ingestion completed; and a success is recorded only where *)
(* both completed.                                                         *)
Earned(k, r, status, bodies) ==
    /\ r.pc = "batch" => status # "cancelled"
    /\ k = "analysis" /\ r.pc # "off" => "ingestion" \in bodies
    /\ r.pc \in {"enqueue", "link"} => "ingestion" \in bodies
    /\ r.pc \in {"lock", "batch"} /\ r.stage # "ingestion" => "ingestion" \in bodies
    /\ r.pc \in {"lock", "batch"} /\ r.to = "succeeded" => bodies = Kinds

JobsEarned == \A s \in Sites, k \in Kinds : Earned(k, job[s][k], item[s].status, done[s])

(* The same of the site run's row. *)
RowsEarned ==
    \A s \in Sites :
        /\ item[s].status = "succeeded" => done[s] = Kinds
        /\ "analysis" \in done[s] => "ingestion" \in done[s]
        /\ item[s].stage # "ingestion" => "ingestion" \in done[s]

(* Nothing is cancelled before the batch is created. *)
Created ==
    creating.open => cancel = "never" /\ \A s \in Sites : item[s].status # "cancelled"

(* A retry request is for a site of the batch and repeats a stage that is due. *)
Retried ==
    retry.pc # "idle" =>
        /\ retry.site \in Sites
        /\ retry.stage = "analysis" => "ingestion" \in done[retry.site]

Inv == TypeOK /\ JobsEarned /\ RowsEarned /\ Created /\ Retried

------------------------------------------------------------------------------
ItemRows == [status : SiteStatuses, stage : Kinds \cup {"completed"}, retries : Nat]

(* A site run's row is changed alone. *)
LEMMA ItemChange ==
    ASSUME TypeOK, NEW s \in Sites, NEW row \in ItemRows, item' = [item EXCEPT ![s] = row]
    PROVE  /\ item' \in [Sites -> ItemRows]
           /\ item'[s] = row
           /\ \A t \in Sites : t # s => item'[t] = item[t]
  BY DEF TypeOK, ItemRows

(* The records a job can become. *)
LEMMA JobRecords ==
    ASSUME NEW j \in JobRows
    PROVE  /\ Off \in JobRows /\ Off.pc = "off"
           /\ Queued \in JobRows /\ Queued.pc = "queued"
           /\ Attempted(j) \in JobRows /\ Attempted(j).pc \in {"off", "queued"}
           /\ Known(j) \in JobRows /\ Known(j).pc = j.pc /\ Known(j).to = j.to
           /\ Known(j).stage = j.stage
           /\ Stopped(j) \in JobRows /\ Stopped(j).pc \in {j.pc, "off"}
           /\ Stopped(j).pc # "off" => Stopped(j).to = j.to /\ Stopped(j).stage = j.stage
  <1>1. Off \in JobRows /\ Off.pc = "off"
    BY PipelineAssumption DEF JobRows, Off, Fresh, SiteStatuses, ACTIVE_SITE_STATUSES, Kinds
  <1>2. /\ Queued \in JobRows /\ Queued.pc = "queued"
    BY PipelineAssumption
       DEF Queued, JobRows, Fresh, SiteStatuses, ACTIVE_SITE_STATUSES, Kinds
  <1>3. Attempted(j) \in JobRows /\ Attempted(j).pc \in {"off", "queued"}
    <2>1. CASE j.left > 0
      <3>1. j.left - 1 \in 0..MaxRetries /\ j.known \in BOOLEAN
        BY <2>1, PipelineAssumption DEF JobRows
      <3>. QED BY <2>1, <3>1, <1>2 DEF Attempted, JobRows, Fresh, SiteStatuses,
                                   ACTIVE_SITE_STATUSES, Kinds
    <2>2. CASE ~(j.left > 0)
      BY <2>2, <1>1 DEF Attempted
    <2>. QED BY <2>1, <2>2
  <1>4. Known(j) \in JobRows /\ Known(j).pc = j.pc /\ Known(j).to = j.to /\ Known(j).stage = j.stage
    BY DEF Known, JobRows
  <1>5. /\ Stopped(j) \in JobRows /\ Stopped(j).pc \in {j.pc, "off"}
        /\ Stopped(j).pc # "off" => Stopped(j).to = j.to /\ Stopped(j).stage = j.stage
    <2>1. [j EXCEPT !.stop = TRUE] \in JobRows
      BY DEF JobRows
    <2>2. Stopped(j) \in {j, Off, [j EXCEPT !.stop = TRUE]}
      BY DEF Stopped
    <2>. QED BY <2>1, <2>2, <1>1 DEF JobRows
  <1>. QED BY <1>1, <1>2, <1>3, <1>4, <1>5

(* refresh_pipeline_batch_status returns a status, and never anything but  *)
(* cancelled for a batch it sees as cancelled.                             *)
LEMMA RefreshedFact ==
    ASSUME NEW seen, NEW rows
    PROVE  /\ Refreshed(seen, rows) \in BatchStatuses
           /\ seen = "cancelled" => Refreshed(seen, rows) = "cancelled"
  BY DEF Refreshed, BatchStatuses, TERMINAL_BATCH_STATUSES, FinishedBatch

(* A step that cancels no site run and forgets no completed body keeps the *)
(* jobs' part of the invariant, if the records it changes have earned      *)
(* their place.                                                            *)
LEMMA JobsKept ==
    ASSUME Inv,
           \A t \in Sites, l \in Kinds :
              \/ job'[t][l] = job[t][l]
              \/ Earned(l, job'[t][l], item'[t].status, done'[t]),
           \A t \in Sites : item'[t].status = "cancelled" => item[t].status = "cancelled",
           \A t \in Sites : done[t] \subseteq done'[t] /\ done'[t] \subseteq Kinds
    PROVE  JobsEarned'
  <1>1. SUFFICES ASSUME NEW t \in Sites, NEW l \in Kinds, job'[t][l] = job[t][l]
                 PROVE  Earned(l, job'[t][l], item'[t].status, done'[t])
    BY DEF JobsEarned
  <1>2. Earned(l, job[t][l], item[t].status, done[t])
    BY DEF Inv, JobsEarned
  <1>3. done[t] \subseteq done'[t] /\ (done[t] = Kinds => done'[t] = Kinds)
    OBVIOUS
  <1>. QED BY <1>1, <1>2, <1>3 DEF Earned

(* The same for a step that changes one job. *)
LEMMA OneJob ==
    ASSUME Inv, NEW s \in Sites, NEW k \in Kinds, NEW r \in JobRows,
           job' = [job EXCEPT ![s][k] = r],
           Earned(k, r, item'[s].status, done'[s]),
           \A t \in Sites : item'[t].status = "cancelled" => item[t].status = "cancelled",
           \A t \in Sites : done[t] \subseteq done'[t] /\ done'[t] \subseteq Kinds
    PROVE  job' \in [Sites -> [Kinds -> JobRows]] /\ JobsEarned'
  <1>0. TypeOK
    BY DEF Inv
  <1>1. /\ job' \in [Sites -> [Kinds -> JobRows]]
        /\ job'[s][k] = r
        /\ \A t \in Sites, l \in Kinds : t # s \/ l # k => job'[t][l] = job[t][l]
    BY <1>0 DEF TypeOK
  <1>2. \A t \in Sites, l \in Kinds :
           \/ job'[t][l] = job[t][l]
           \/ Earned(l, job'[t][l], item'[t].status, done'[t])
    BY <1>1
  <1>. QED BY <1>1, <1>2, JobsKept

(* A step that changes one job and nothing else. *)
LEMMA OnlyOneJob ==
    ASSUME Inv, NEW s \in Sites, NEW k \in Kinds, NEW r \in JobRows,
           job' = [job EXCEPT ![s][k] = r],
           Earned(k, r, item[s].status, done[s]),
           batch' = batch, item' = item, creating' = creating, cancel' = cancel,
           retry' = retry, done' = done, incidents' \in 0..MaxIncidents
    PROVE  Inv'
  <1>1. \A t \in Sites : done'[t] \subseteq Kinds
    BY DEF Inv, TypeOK
  <1>2. job' \in [Sites -> [Kinds -> JobRows]] /\ JobsEarned'
    BY <1>1, OneJob
  <1>3. TypeOK'
    BY <1>2 DEF Inv, TypeOK
  <1>4. RowsEarned' /\ Created' /\ Retried'
    BY DEF Inv, RowsEarned, Created, Retried
  <1>. QED BY <1>2, <1>3, <1>4 DEF Inv

(* A task goes on to another place of its code. *)
LEMMA GotoInv ==
    ASSUME Inv, NEW s \in Sites, NEW k \in Kinds, NEW pc \in Running \cup {"off"},
           Goto(s, k, pc), OnlyJobs,
           Earned(k, [job[s][k] EXCEPT !.pc = pc], item[s].status, done[s])
    PROVE  Inv'
  <1> DEFINE r == IF pc = "off" THEN Off ELSE [job[s][k] EXCEPT !.pc = pc]
  <1>1. job[s][k] \in JobRows
    BY DEF Inv, TypeOK
  <1>2. r \in JobRows
    BY <1>1, JobRecords DEF JobRows
  <1>3. Earned(k, r, item[s].status, done[s])
    BY <1>1, JobRecords DEF Earned
  <1>4. job' = [job EXCEPT ![s][k] = r]
    BY DEF Goto
  <1>5. incidents' \in 0..MaxIncidents
    BY DEF OnlyJobs, Inv, TypeOK
  <1>. HIDE DEF r
  <1>. QED BY <1>2, <1>3, <1>4, <1>5, OnlyOneJob DEF OnlyJobs

(* A task starts update_pipeline_site. *)
LEMMA UpdateInv ==
    ASSUME Inv, NEW s \in Sites, NEW k \in Kinds, NEW status \in SiteStatuses \ {"cancelled"},
           NEW stage \in Kinds \cup {"completed"}, Update(s, k, status, stage), OnlyJobs,
           k = "analysis" \/ stage # "ingestion" => "ingestion" \in done[s],
           status = "succeeded" => done[s] = Kinds
    PROVE  Inv'
  <1> DEFINE r == [job[s][k] EXCEPT !.pc = "lock", !.to = status, !.stage = stage]
  <1>1. job[s][k] \in JobRows
    BY DEF Inv, TypeOK
  <1>2. r \in JobRows /\ r.pc = "lock" /\ r.to = status /\ r.stage = stage
    BY <1>1 DEF JobRows, Running
  <1>4. job' = [job EXCEPT ![s][k] = r]
    BY DEF Update
  <1>5. incidents' \in 0..MaxIncidents
    BY DEF OnlyJobs, Inv, TypeOK
  <1>. HIDE DEF r
  <1>3. Earned(k, r, item[s].status, done[s])
    BY <1>2 DEF Earned
  <1>. QED BY <1>2, <1>3, <1>4, <1>5, OnlyOneJob DEF OnlyJobs

(* An attempt ends in an exception, a kill or an abort. *)
LEMMA AttemptedInv ==
    ASSUME Inv, NEW s \in Sites, NEW k \in Kinds, job[s][k].pc # "off",
           job' = [job EXCEPT ![s][k] = Attempted(@)],
           batch' = batch, item' = item, creating' = creating, cancel' = cancel,
           retry' = retry, done' = done, incidents' \in 0..MaxIncidents
    PROVE  Inv'
  <1>1. job[s][k] \in JobRows
    BY DEF Inv, TypeOK
  <1>2. Attempted(job[s][k]) \in JobRows /\ Attempted(job[s][k]).pc \in {"off", "queued"}
    BY <1>1, JobRecords
  <1>3. Earned(k, Attempted(job[s][k]), item[s].status, done[s])
    BY <1>2 DEF Earned, Inv, JobsEarned
  <1>4. job' = [job EXCEPT ![s][k] = Attempted(job[s][k])]
    BY DEF Inv, TypeOK
  <1>. QED BY <1>2, <1>3, <1>4, OnlyOneJob

------------------------------------------------------------------------------
(* The tasks keep the invariant, one action at a time. *)

(* A task begins: an analysis is taken only where an ingestion completed. *)
LEMMA TakeInv ==
    ASSUME Inv, NEW s \in Sites, NEW k \in Kinds, Take(s, k) PROVE Inv'
  <1>0. job[s][k].pc = "queued" /\ OnlyJobs
    BY DEF Take
  <1>1. k = "analysis" => "ingestion" \in done[s]
    BY <1>0 DEF Inv, JobsEarned, Earned
  <1>2. CASE item[s].status = "cancelled"
    <2>1. Goto(s, k, "off")
      BY <1>2 DEF Take
    <2>2. Earned(k, [job[s][k] EXCEPT !.pc = "off"], item[s].status, done[s])
      BY DEF Earned, Inv, TypeOK, JobRows
    <2>. QED BY <1>0, <2>1, <2>2, GotoInv
  <1>3. CASE item[s].status # "cancelled"
    <2>1. Update(s, k, RunningStatus(k), k)
      BY <1>3 DEF Take
    <2>2. RunningStatus(k) \in SiteStatuses \ {"cancelled"} /\ RunningStatus(k) # "succeeded"
      BY DEF RunningStatus, SiteStatuses, ACTIVE_SITE_STATUSES
    <2>3. k \in Kinds \cup {"completed"} /\ (k # "ingestion" => k = "analysis")
      BY DEF Kinds
    <2>. QED BY <1>0, <1>1, <2>1, <2>2, <2>3, UpdateInv
  <1>. QED BY <1>2, <1>3

(* A task gets its row, or leaves a cancelled one alone. *)
LEMMA LockInv ==
    ASSUME Inv, NEW s \in Sites, NEW k \in Kinds, Lock(s, k) PROVE Inv'
  <1> DEFINE pc == IF item[s].status = "cancelled" THEN AfterUpdate(job[s][k].to) ELSE "batch"
  <1>1. job[s][k].pc = "lock" /\ Goto(s, k, pc) /\ OnlyJobs
    BY DEF Lock
  <1>2. pc \in {"off", "body", "batch"} /\ (pc = "batch" => item[s].status # "cancelled")
    BY DEF AfterUpdate
  <1>3. job[s][k] \in JobRows /\ Earned(k, job[s][k], item[s].status, done[s])
    BY DEF Inv, TypeOK, JobsEarned
  <1>. HIDE DEF pc
  <1>4. Earned(k, [job[s][k] EXCEPT !.pc = pc], item[s].status, done[s])
    BY <1>1, <1>2, <1>3 DEF Earned, JobRows
  <1>5. pc \in Running \cup {"off"}
    BY <1>2 DEF Running
  <1>. QED BY <1>1, <1>4, <1>5, GotoInv

(* update_pipeline_site writes a row that is not cancelled, and "succeeded" *)
(* only after both bodies.                                                 *)
LEMMA UpdateSiteInv ==
    ASSUME Inv, NEW s \in Sites, NEW k \in Kinds, UpdateSite(s, k) PROVE Inv'
  <1> DEFINE j == job[s][k]
             pc == AfterUpdate(j.to)
             r == IF pc = "off" THEN Off ELSE [j EXCEPT !.pc = pc]
  <1>1. j \in JobRows /\ Earned(k, j, item[s].status, done[s]) /\ j.pc = "batch"
    BY DEF Inv, TypeOK, JobsEarned, UpdateSite
  <1>2. pc \in {"off", "body"}
    BY DEF AfterUpdate
  <1>3. r \in JobRows /\ r.pc \in {"off", "body"}
    BY <1>1, <1>2, JobRecords DEF JobRows, Running
  <1>4. job' = [job EXCEPT ![s][k] = r]
    BY DEF UpdateSite, Goto
  <1>5. /\ item' = [item EXCEPT ![s].status = j.to, ![s].stage = j.stage]
        /\ batch' = Refreshed(batch, item')
        /\ UNCHANGED <<creating, cancel, retry, done, incidents>>
    BY DEF UpdateSite
  <1>6. /\ item'[s].status = j.to /\ item'[s].stage = j.stage
        /\ \A t \in Sites : t # s => item'[t] = item[t]
        /\ item' \in [Sites -> [status : SiteStatuses, stage : Kinds \cup {"completed"},
                                retries : Nat]]
    BY <1>1, <1>5 DEF Inv, TypeOK, JobRows
  <1>. HIDE DEF r
  <1>7. Earned(k, r, item'[s].status, done'[s])
    BY <1>1, <1>3, <1>5 DEF Earned
  <1>8. \A t \in Sites : item'[t].status = "cancelled" => item[t].status = "cancelled"
    BY <1>1, <1>6 DEF JobRows
  <1>9. \A t \in Sites : done[t] \subseteq done'[t] /\ done'[t] \subseteq Kinds
    BY <1>5 DEF Inv, TypeOK
  <1>10. job' \in [Sites -> [Kinds -> JobRows]] /\ JobsEarned'
    BY <1>3, <1>4, <1>7, <1>8, <1>9, OneJob
  <1>11. TypeOK'
    BY <1>5, <1>6, <1>10, RefreshedFact DEF Inv, TypeOK
  <1>12. RowsEarned'
    BY <1>1, <1>5, <1>6 DEF Inv, RowsEarned, Earned
  <1>13. Created' /\ Retried'
    BY <1>5, <1>8 DEF Inv, Created, Retried
  <1>. QED BY <1>10, <1>11, <1>12, <1>13 DEF Inv

(* A body completes. *)
LEMMA BodySucceedsInv ==
    ASSUME Inv, NEW s \in Sites, NEW k \in Kinds, BodySucceeds(s, k) PROVE Inv'
  <1> DEFINE j == job[s][k]
             ended == item[s].status = "cancelled"
             r == IF ended THEN Off
                  ELSE IF k = "ingestion" THEN [j EXCEPT !.pc = "enqueue"]
                  ELSE [j EXCEPT !.pc = "lock", !.to = "succeeded", !.stage = "completed"]
  <1>1. j \in JobRows /\ Earned(k, j, item[s].status, done[s]) /\ j.pc = "body"
    BY DEF Inv, TypeOK, JobsEarned, BodySucceeds
  <1>2. job' = [job EXCEPT ![s][k] = r]
    <2>1. CASE ended
      BY <2>1 DEF BodySucceeds, AfterBody, Goto
    <2>2. CASE ~ended /\ k = "ingestion"
      BY <2>2 DEF BodySucceeds, AfterBody, Goto
    <2>3. CASE ~ended /\ k # "ingestion"
      BY <2>3 DEF BodySucceeds, AfterBody, Update
    <2>. QED BY <2>1, <2>2, <2>3
  <1>3. /\ done' = [done EXCEPT ![s] = @ \cup {k}]
        /\ UNCHANGED <<batch, item, creating, cancel, retry, incidents>>
    BY DEF BodySucceeds
  <1>4. /\ done' \in [Sites -> SUBSET Kinds]
        /\ done'[s] = done[s] \cup {k}
        /\ \A t \in Sites : done[t] \subseteq done'[t] /\ (t # s => done'[t] = done[t])
    BY <1>3 DEF Inv, TypeOK
  <1>5. k = "analysis" => done'[s] = Kinds
    BY <1>1, <1>4 DEF Earned, Kinds
  <1>6. r \in JobRows /\ r.pc \in {"off", "enqueue", "lock"}
    <2>1. Off \in JobRows /\ Off.pc = "off"
      BY <1>1, JobRecords
    <2>2. [j EXCEPT !.pc = "enqueue"] \in JobRows /\ [j EXCEPT !.pc = "enqueue"].pc = "enqueue"
      BY <1>1 DEF JobRows, Running
    <2>3. "succeeded" \in SiteStatuses \ {"cancelled"} /\ "lock" \in Running
      BY DEF SiteStatuses, Running
    <2>4. LET q == [j EXCEPT !.pc = "lock", !.to = "succeeded", !.stage = "completed"]
          IN  q \in JobRows /\ q.pc = "lock"
      BY <1>1, <2>3 DEF JobRows
    <2>. QED BY <2>1, <2>2, <2>4
  <1>7. /\ r.pc = "enqueue" => k = "ingestion"
        /\ r.pc = "lock" => k = "analysis"
    BY <1>1, JobRecords DEF Kinds, JobRows
  <1>. HIDE DEF r
  <1>8. Earned(k, r, item'[s].status, done'[s])
    BY <1>4, <1>5, <1>6, <1>7 DEF Earned, Kinds
  <1>9. job' \in [Sites -> [Kinds -> JobRows]] /\ JobsEarned'
    BY <1>2, <1>3, <1>4, <1>6, <1>8, OneJob
  <1>10. TypeOK'
    BY <1>3, <1>4, <1>9 DEF Inv, TypeOK
  <1>11. RowsEarned'
    <2>. SUFFICES ASSUME NEW t \in Sites
                  PROVE  /\ item[t].status = "succeeded" => done'[t] = Kinds
                         /\ "analysis" \in done'[t] => "ingestion" \in done'[t]
                         /\ item[t].stage # "ingestion" => "ingestion" \in done'[t]
      BY <1>3 DEF RowsEarned
    <2>1. /\ item[t].status = "succeeded" => done[t] = Kinds
          /\ "analysis" \in done[t] => "ingestion" \in done[t]
          /\ item[t].stage # "ingestion" => "ingestion" \in done[t]
      BY DEF Inv, RowsEarned
    <2>2. CASE t = s
      BY <1>4, <1>5, <2>1, <2>2 DEF Kinds
    <2>3. CASE t # s
      BY <1>4, <2>1, <2>3
    <2>. QED BY <2>2, <2>3
  <1>12. Created' /\ Retried'
    BY <1>3, <1>4 DEF Inv, Created, Retried
  <1>. QED BY <1>9, <1>10, <1>11, <1>12 DEF Inv

(* A body fails: another attempt, or the failure is recorded. *)
LEMMA BodyFailsInv ==
    ASSUME Inv, NEW s \in Sites, NEW k \in Kinds, BodyFails(s, k) PROVE Inv'
  <1>1. job[s][k].pc = "body" /\ OnlyJobs /\ incidents' \in 0..MaxIncidents
    BY DEF BodyFails, OnlyJobs, Inv, TypeOK
  <1>2. k = "analysis" => "ingestion" \in done[s]
    BY <1>1 DEF Inv, JobsEarned, Earned
  <1>3. CASE job[s][k].left > 0
    BY <1>1, <1>3, AttemptedInv DEF BodyFails, OnlyJobs
  <1>4. CASE ~(job[s][k].left > 0)
    <2>1. Update(s, k, "failed", k)
      BY <1>4 DEF BodyFails
    <2>2. "failed" \in SiteStatuses \ {"cancelled"} /\ k \in Kinds \cup {"completed"}
      BY DEF SiteStatuses
    <2>3. k # "ingestion" => k = "analysis"
      BY DEF Kinds
    <2>. QED BY <1>1, <1>2, <2>1, <2>2, <2>3, UpdateInv
  <1>. QED BY <1>3, <1>4

(* The ingestion task queues the analysis, which is earned: its own body   *)
(* completed.                                                              *)
LEMMA EnqueueAnalysisInv ==
    ASSUME Inv, NEW s \in Sites, EnqueueAnalysis(s) PROVE Inv'
  <1> DEFINE r == [job[s]["ingestion"] EXCEPT !.pc = "link"]
  <1>1. /\ job[s]["ingestion"] \in JobRows /\ job[s]["ingestion"].pc = "enqueue"
        /\ Earned("ingestion", job[s]["ingestion"], item[s].status, done[s])
    BY DEF Inv, TypeOK, JobsEarned, EnqueueAnalysis, Kinds
  <1>2. r \in JobRows /\ r.pc = "link" /\ Queued \in JobRows /\ Queued.pc = "queued"
    BY <1>1, JobRecords DEF JobRows, Running
  <1>3. job' = [job EXCEPT ![s] = [k \in Kinds |-> IF k = "ingestion" THEN r ELSE Queued]]
    BY DEF EnqueueAnalysis, Inv, TypeOK, Kinds
  <1>4. UNCHANGED <<batch, item, creating, cancel, retry, done, incidents>>
    BY DEF EnqueueAnalysis, OnlyJobs
  <1>. HIDE DEF r
  <1>5. /\ job' \in [Sites -> [Kinds -> JobRows]]
        /\ job'[s] = [k \in Kinds |-> IF k = "ingestion" THEN r ELSE Queued]
        /\ \A t \in Sites : t # s => job'[t] = job[t]
    BY <1>2, <1>3 DEF Inv, TypeOK
  <1>6. \A k \in Kinds : Earned(k, job'[s][k], item'[s].status, done'[s])
    BY <1>1, <1>2, <1>4, <1>5 DEF Earned
  <1>7. \A t \in Sites : done'[t] = done[t] /\ done'[t] \subseteq Kinds
    BY <1>4 DEF Inv, TypeOK
  <1>8. JobsEarned'
    BY <1>4, <1>5, <1>6, <1>7, JobsKept
  <1>9. TypeOK' /\ RowsEarned' /\ Created' /\ Retried'
    BY <1>4, <1>5 DEF Inv, TypeOK, RowsEarned, Created, Retried
  <1>. QED BY <1>8, <1>9 DEF Inv

(* A refused analysis is recorded at the analysis stage, which is due. *)
LEMMA AnalysisNotQueuedInv ==
    ASSUME Inv, NEW s \in Sites, AnalysisDuplicate(s) \/ AnalysisRefused(s) PROVE Inv'
  <1>1. job[s]["ingestion"].pc = "enqueue" /\ OnlyJobs /\ incidents' \in 0..MaxIncidents
    BY DEF AnalysisDuplicate, AnalysisRefused, OnlyJobs, Inv, TypeOK
  <1>2. "ingestion" \in Kinds /\ "ingestion" \in done[s]
    BY <1>1 DEF Inv, JobsEarned, Earned, Kinds
  <1>3. CASE Update(s, "ingestion", "failed", "analysis")
    <2>1. "failed" \in SiteStatuses \ {"cancelled"} /\ "analysis" \in Kinds \cup {"completed"}
      BY DEF SiteStatuses, Kinds
    <2>. QED BY <1>1, <1>2, <1>3, <2>1, UpdateInv
  <1>4. CASE job' = [job EXCEPT ![s]["ingestion"] = Attempted(@)]
    BY <1>1, <1>2, <1>4, AttemptedInv DEF OnlyJobs
  <1>. QED BY <1>3, <1>4 DEF AnalysisDuplicate, AnalysisRefused

(* The site run learns its analysis job, and moves on if no faster worker  *)
(* has moved it.                                                           *)
LEMMA LinkAnalysisInv ==
    ASSUME Inv, NEW s \in Sites, LinkAnalysis(s) PROVE Inv'
  <1> DEFINE r == Known(job[s]["analysis"])
  <1>1. /\ job[s]["ingestion"].pc = "link" /\ job[s]["analysis"] \in JobRows
        /\ Earned("ingestion", job[s]["ingestion"], item[s].status, done[s])
        /\ Earned("analysis", job[s]["analysis"], item[s].status, done[s])
    BY DEF Inv, TypeOK, JobsEarned, LinkAnalysis, Kinds
  <1>2. /\ r \in JobRows /\ r.pc = job[s]["analysis"].pc /\ r.to = job[s]["analysis"].to
        /\ r.stage = job[s]["analysis"].stage
        /\ Off \in JobRows /\ Off.pc = "off"
    BY <1>1, JobRecords
  <1>3. job' = [job EXCEPT ![s] = [k \in Kinds |-> IF k = "ingestion" THEN Off ELSE r]]
    BY DEF LinkAnalysis, Inv, TypeOK, Kinds
  <1>4. UNCHANGED <<batch, creating, cancel, retry, done, incidents>>
    BY DEF LinkAnalysis
  <1>. HIDE DEF r
  <1>5. /\ job' \in [Sites -> [Kinds -> JobRows]]
        /\ job'[s] = [k \in Kinds |-> IF k = "ingestion" THEN Off ELSE r]
        /\ \A t \in Sites : t # s => job'[t] = job[t]
    BY <1>2, <1>3 DEF Inv, TypeOK
  <1>6. /\ item' \in [Sites -> [status : SiteStatuses, stage : Kinds \cup {"completed"},
                                retries : Nat]]
        /\ \/ item'[s] = item[s]
           \/ item'[s].status = "analysis_queued" /\ item'[s].stage = "analysis"
        /\ \A t \in Sites : t # s => item'[t] = item[t]
    <2> DEFINE row == [item[s] EXCEPT !.status = "analysis_queued", !.stage = "analysis"]
    <2>1. /\ item[s] \in ItemRows /\ "analysis_queued" \in SiteStatuses
          /\ "analysis" \in Kinds \cup {"completed"}
      BY DEF Inv, TypeOK, ItemRows, SiteStatuses, ACTIVE_SITE_STATUSES, Kinds
    <2>2. row \in ItemRows /\ row.status = "analysis_queued" /\ row.stage = "analysis"
      BY <2>1 DEF ItemRows
    <2>3. item' = item \/ item' = [item EXCEPT ![s] = row]
      BY DEF LinkAnalysis, Inv, TypeOK
    <2>. HIDE DEF row
    <2>4. CASE item' = item
      BY <2>4 DEF Inv, TypeOK
    <2>5. CASE item' = [item EXCEPT ![s] = row]
      <3>1. /\ item' \in [Sites -> ItemRows] /\ item'[s] = row
            /\ \A t \in Sites : t # s => item'[t] = item[t]
        BY <2>2, <2>5, ItemChange DEF Inv
      <3>. QED BY <2>2, <3>1 DEF ItemRows
    <2>. QED BY <2>3, <2>4, <2>5
  <1>7. \A t \in Sites : item'[t].status = "cancelled" => item[t].status = "cancelled"
    BY <1>6
  <1>8. \A k \in Kinds : Earned(k, job'[s][k], item'[s].status, done'[s])
    BY <1>1, <1>2, <1>4, <1>5, <1>7 DEF Earned, Kinds
  <1>9. \A t \in Sites : done'[t] = done[t] /\ done'[t] \subseteq Kinds
    BY <1>4 DEF Inv, TypeOK
  <1>10. JobsEarned'
    BY <1>4, <1>5, <1>7, <1>8, <1>9, JobsKept
  <1>11. TypeOK'
    BY <1>4, <1>5, <1>6 DEF Inv, TypeOK
  <1>12. RowsEarned'
    BY <1>1, <1>4, <1>6 DEF Inv, RowsEarned, Earned
  <1>13. Created' /\ Retried'
    BY <1>4, <1>7 DEF Inv, Created, Retried
  <1>. QED BY <1>10, <1>11, <1>12, <1>13 DEF Inv

(* Kills and aborts end an attempt, stops end the job. *)
LEMMA InterruptInv ==
    ASSUME Inv, NEW s \in Sites, NEW k \in Kinds,
           Kill(s, k) \/ Stop(s, k) \/ TaskAborted(s, k)
    PROVE  Inv'
  <1>1. CASE Kill(s, k)
    <2>1. job[s][k].pc # "off"
      BY <1>1 DEF Kill, Running
    <2>2. incidents' \in 0..MaxIncidents
      BY <1>1, PipelineAssumption DEF Kill, Inv, TypeOK
    <2>. QED BY <1>1, <2>1, <2>2, AttemptedInv DEF Kill
  <1>2. CASE Stop(s, k)
    <2>1. Earned(k, [job[s][k] EXCEPT !.pc = "off"], item[s].status, done[s])
      BY DEF Earned, Inv, TypeOK, JobRows
    <2>. QED BY <1>2, <2>1, GotoInv DEF Stop
  <1>3. CASE TaskAborted(s, k)
    <2>1. job[s][k].pc # "off" /\ incidents' \in 0..MaxIncidents
      BY <1>3 DEF TaskAborted, OnlyJobs, Inv, TypeOK
    <2>. QED BY <1>3, <2>1, AttemptedInv DEF TaskAborted, OnlyJobs
  <1>. QED BY <1>1, <1>2, <1>3

(* Every step of a task. *)
LEMMA TaskInv ==
    ASSUME Inv, NEW s \in Sites, NEW k \in Kinds, Task(s, k) PROVE Inv'
  BY TakeInv, LockInv, UpdateSiteInv, BodySucceedsInv, BodyFailsInv, EnqueueAnalysisInv,
     AnalysisNotQueuedInv, LinkAnalysisInv, InterruptInv DEF Task

------------------------------------------------------------------------------
(* The requests. *)

(* A step of a request that leaves every job's record as it was. *)
LEMMA NoJob ==
    ASSUME Inv, job' = job, done' = done,
           \A t \in Sites : item'[t].status = "cancelled" => item[t].status = "cancelled"
    PROVE  JobsEarned'
  <1>1. \A t \in Sites : done[t] \subseteq done'[t] /\ done'[t] \subseteq Kinds
    BY DEF Inv, TypeOK
  <1>. QED BY <1>1, JobsKept

(* The creating request. *)
LEMMA CreateInv ==
    ASSUME Inv, Create PROVE Inv'
  <1>0. Queued \in JobRows /\ Queued.pc = "queued" /\ "ingestion" \in Kinds
    <2>1. PICK s : s \in Sites
      BY PipelineAssumption
    <2>2. job[s]["ingestion"] \in JobRows
      BY <2>1 DEF Inv, TypeOK, Kinds
    <2>. QED BY <2>2, JobRecords DEF Kinds
  <1>1. ASSUME NEW s \in Sites, CreateEnqueue(s) PROVE Inv'
    <2>1. Earned("ingestion", Queued, item'[s].status, done'[s])
      BY <1>0 DEF Earned
    <2>2. \A t \in Sites : done[t] \subseteq done'[t] /\ done'[t] \subseteq Kinds
      BY <1>1 DEF CreateEnqueue, Inv, TypeOK
    <2>3. job' \in [Sites -> [Kinds -> JobRows]] /\ JobsEarned'
      BY <1>0, <1>1, <2>1, <2>2, OneJob DEF CreateEnqueue
    <2>4. TypeOK'
      BY <1>1, <2>3 DEF CreateEnqueue, Inv, TypeOK
    <2>5. RowsEarned' /\ Created' /\ Retried'
      BY <1>1 DEF CreateEnqueue, Inv, TypeOK, RowsEarned, Created, Retried
    <2>. QED BY <2>3, <2>4, <2>5 DEF Inv
  <1>2. CASE CreateLink
    <2>0. PICK s \in Sites : s = creating.link
      BY <1>2 DEF CreateLink, Inv, TypeOK
    <2> DEFINE r == Known(job[s]["ingestion"])
    <2>1. job[s]["ingestion"] \in JobRows
      BY <1>0 DEF Inv, TypeOK
    <2>2. /\ r \in JobRows /\ r.pc = job[s]["ingestion"].pc
          /\ r.to = job[s]["ingestion"].to /\ r.stage = job[s]["ingestion"].stage
      BY <2>1, JobRecords
    <2>3. Earned("ingestion", job[s]["ingestion"], item[s].status, done[s])
      BY <1>0, <2>1 DEF Inv, JobsEarned
    <2>4. job' = [job EXCEPT ![s]["ingestion"] = r]
      BY <1>2, <2>0 DEF CreateLink, Inv, TypeOK
    <2>5. Earned("ingestion", r, item'[s].status, done'[s])
      BY <1>2, <2>2, <2>3 DEF Earned, CreateLink
    <2>6. /\ \A t \in Sites : done[t] \subseteq done'[t] /\ done'[t] \subseteq Kinds
          /\ \A t \in Sites : item'[t].status = "cancelled" => item[t].status = "cancelled"
      BY <1>2 DEF CreateLink, Inv, TypeOK
    <2>. HIDE DEF r
    <2>7. job' \in [Sites -> [Kinds -> JobRows]] /\ JobsEarned'
      BY <1>0, <2>2, <2>4, <2>5, <2>6, OneJob
    <2>8. TypeOK'
      BY <1>2, <2>7 DEF CreateLink, Inv, TypeOK
    <2>9. RowsEarned' /\ Created' /\ Retried'
      BY <1>2 DEF CreateLink, Inv, TypeOK, RowsEarned, Created, Retried
    <2>. QED BY <2>7, <2>8, <2>9 DEF Inv
  <1>3. ASSUME NEW s \in Sites, CreateRefused(s) PROVE Inv'
    <2>1. /\ item' \in [Sites -> [status : SiteStatuses, stage : Kinds \cup {"completed"},
                                  retries : Nat]]
          /\ item'[s].status = "failed" /\ item'[s].stage = "ingestion"
          /\ \A t \in Sites : t # s => item'[t] = item[t]
      <3> DEFINE row == [item[s] EXCEPT !.status = "failed", !.stage = "ingestion"]
      <3>1. item[s] \in ItemRows /\ "failed" \in SiteStatuses
        BY DEF Inv, TypeOK, ItemRows, SiteStatuses
      <3>2. row \in ItemRows /\ row.status = "failed" /\ row.stage = "ingestion"
        BY <1>0, <3>1 DEF ItemRows
      <3>3. item' = [item EXCEPT ![s] = row]
        BY <1>3 DEF CreateRefused
      <3>. HIDE DEF row
      <3>4. /\ item' \in [Sites -> ItemRows] /\ item'[s] = row
            /\ \A t \in Sites : t # s => item'[t] = item[t]
        BY <3>2, <3>3, ItemChange DEF Inv
      <3>. QED BY <3>2, <3>4 DEF ItemRows
    <2>2. \A t \in Sites : item'[t].status = "cancelled" => item[t].status = "cancelled"
      BY <2>1
    <2>3. JobsEarned'
      BY <1>3, <2>2, NoJob DEF CreateRefused
    <2>4. TypeOK'
      BY <1>3, <2>1, RefreshedFact DEF CreateRefused, Inv, TypeOK
    <2>5. RowsEarned' /\ Created' /\ Retried'
      BY <1>3, <2>1, <2>2 DEF CreateRefused, Inv, TypeOK, RowsEarned, Created, Retried
    <2>. QED BY <2>3, <2>4, <2>5 DEF Inv
  <1>4. CASE CreateEnd
    <2>1. JobsEarned'
      BY <1>4, NoJob DEF CreateEnd
    <2>2. TypeOK'
      BY <1>4, RefreshedFact DEF CreateEnd, Inv, TypeOK
    <2>3. RowsEarned' /\ Created' /\ Retried'
      BY <1>4 DEF CreateEnd, Inv, TypeOK, RowsEarned, Created, Retried
    <2>. QED BY <2>1, <2>2, <2>3 DEF Inv
  <1>. QED BY <1>1, <1>2, <1>3, <1>4 DEF Create

(* The cancel request: it takes the rows no task holds. *)
LEMMA CancelInv ==
    ASSUME Inv, Cancel PROVE Inv'
  <1>1. CASE CancelRead \/ CancelLock \/ CancelAborted
    <2>1. /\ UNCHANGED <<batch, item, job, creating, retry, done, incidents>>
          /\ cancel' \in {"lock", "items", "over"} /\ ~creating.open
      BY <1>1 DEF CancelRead, CancelLock, CancelAborted, Inv, Created
    <2>2. JobsEarned'
      BY <2>1, NoJob
    <2>3. TypeOK'
      BY <2>1 DEF Inv, TypeOK
    <2>4. RowsEarned' /\ Created' /\ Retried'
      BY <2>1 DEF Inv, RowsEarned, Created, Retried
    <2>. QED BY <2>2, <2>3, <2>4 DEF Inv
  <1>2. ASSUME NEW redis \in BOOLEAN, CancelItems(redis) PROVE Inv'
    <2>1. /\ ~creating.open /\ batch' = "cancelled" /\ cancel' = "over"
          /\ UNCHANGED <<creating, retry, done, incidents>>
      BY <1>2 DEF CancelItems, Inv, Created
    <2>2. /\ item' \in [Sites -> [status : SiteStatuses, stage : Kinds \cup {"completed"},
                                  retries : Nat]]
          /\ \A s \in Sites : /\ item'[s].stage = item[s].stage
                              /\ item'[s].status \in {item[s].status, "cancelled"}
      <3>1. item \in [Sites -> ItemRows] /\ "cancelled" \in SiteStatuses
        BY DEF Inv, TypeOK, ItemRows, SiteStatuses
      <3>2. \A s \in Sites : [item[s] EXCEPT !.status = "cancelled"] \in ItemRows
        BY <3>1 DEF ItemRows
      <3>3. /\ item' = [s \in Sites |-> item'[s]]
            /\ \A s \in Sites : item'[s] \in {item[s], [item[s] EXCEPT !.status = "cancelled"]}
        BY <1>2 DEF CancelItems
      <3>4. item' \in [Sites -> ItemRows]
        BY <3>1, <3>2, <3>3
      <3>5. \A s \in Sites : /\ item'[s].stage = item[s].stage
                            /\ item'[s].status \in {item[s].status, "cancelled"}
        BY <3>1, <3>3 DEF ItemRows
      <3>. QED BY <3>4, <3>5 DEF ItemRows
    <2>3. \A s \in Sites, k \in Kinds :
             /\ job[s][k] \in JobRows /\ job[s][k].pc # "batch"
             /\ Earned(k, job[s][k], item[s].status, done[s])
      BY <1>2 DEF CancelItems, ItemHeld, Inv, TypeOK, JobsEarned
    <2>4. \A s \in Sites, k \in Kinds :
             /\ Stopped(job[s][k]) \in JobRows
             /\ Stopped(job[s][k]).pc \in {job[s][k].pc, "off"}
             /\ Stopped(job[s][k]).pc # "off" => /\ Stopped(job[s][k]).to = job[s][k].to
                                               /\ Stopped(job[s][k]).stage = job[s][k].stage
      BY <2>3, JobRecords
    <2>5. \A s \in Sites, k \in Kinds : job'[s][k] \in {job[s][k], Stopped(job[s][k])}
      BY <1>2 DEF CancelItems
    <2>6. job' \in [Sites -> [Kinds -> JobRows]]
      BY <1>2, <2>3, <2>4 DEF CancelItems
    <2>7. JobsEarned'
      <3>1. SUFFICES ASSUME NEW s \in Sites, NEW k \in Kinds
                     PROVE  Earned(k, job'[s][k], item'[s].status, done[s])
        BY <2>1 DEF JobsEarned
      <3>2. CASE job'[s][k] = job[s][k]
        BY <2>3, <3>2 DEF Earned
      <3>3. CASE job'[s][k] = Stopped(job[s][k])
        BY <2>3, <2>4, <3>3 DEF Earned
      <3>. QED BY <2>5, <3>2, <3>3
    <2>8. TypeOK'
      BY <2>1, <2>2, <2>6 DEF Inv, TypeOK, BatchStatuses, TERMINAL_BATCH_STATUSES
    <2>9. RowsEarned'
      BY <2>1, <2>2 DEF Inv, RowsEarned
    <2>10. Created' /\ Retried'
      BY <2>1 DEF Inv, Created, Retried
    <2>. QED BY <2>7, <2>8, <2>9, <2>10 DEF Inv
  <1>. QED BY <1>1, <1>2 DEF Cancel

(* The retry request writes its row only, and queues a stage that is due. *)
LEMMA RetryRowsInv ==
    ASSUME Inv, RetryFlush \/ RetryUndo PROVE Inv'
  <1>1. PICK s \in Sites : s = retry.site
    BY DEF RetryFlush, RetryUndo, Inv, Retried
  <1>2. /\ UNCHANGED <<job, creating, cancel, done, incidents>>
        /\ batch' \in BatchStatuses
        /\ retry' = NoRetry \/ retry' = [retry EXCEPT !.pc = "enqueue", !.seen = retry.now]
    <2>1. batch' \in {batch, retry.now} \/ batch' \in BatchStatuses
      BY RefreshedFact DEF RetryFlush, RetryUndo, Written
    <2>2. batch \in BatchStatuses /\ retry.now \in BatchStatuses
      BY DEF Inv, TypeOK
    <2>. QED BY <2>1, <2>2 DEF RetryFlush, RetryUndo, RetryVars
  <1>3. /\ item' \in [Sites -> [status : SiteStatuses, stage : Kinds \cup {"completed"},
                                retries : Nat]]
        /\ item'[s].status \in {"queued", "failed"} /\ item'[s].stage = item[s].stage
        /\ \A t \in Sites : t # s => item'[t] = item[t]
    <2>1. CASE RetryFlush
      <3>1. item' = [item EXCEPT ![s] = [item[s] EXCEPT !.status = "queued",
                                                       !.retries = item[s].retries + 1]]
        BY <1>1, <2>1 DEF RetryFlush, Inv, TypeOK
      <3>2. /\ item[s].retries + 1 \in Nat /\ "queued" \in SiteStatuses
            /\ item[s].stage \in Kinds \cup {"completed"}
        BY DEF Inv, TypeOK, SiteStatuses, ACTIVE_SITE_STATUSES
      <3> DEFINE row == [item[s] EXCEPT !.status = "queued", !.retries = item[s].retries + 1]
      <3>3. item[s] \in ItemRows
        BY DEF Inv, TypeOK, ItemRows
      <3>4. row \in ItemRows /\ row.status = "queued" /\ row.stage = item[s].stage
        BY <3>2, <3>3 DEF ItemRows
      <3>. HIDE DEF row
      <3>5. item' = [item EXCEPT ![s] = row]
        BY <3>1 DEF row
      <3>6. /\ item' \in [Sites -> ItemRows] /\ item'[s] = row
            /\ \A t \in Sites : t # s => item'[t] = item[t]
        BY <3>4, <3>5, ItemChange DEF Inv
      <3>. QED BY <3>4, <3>6 DEF ItemRows
    <2>2. CASE RetryUndo
      <3> DEFINE row == [item[s] EXCEPT !.status = "failed"]
      <3>1. item[s] \in ItemRows /\ "failed" \in SiteStatuses
        BY DEF Inv, TypeOK, ItemRows, SiteStatuses
      <3>2. row \in ItemRows /\ row.status = "failed" /\ row.stage = item[s].stage
        BY <3>1 DEF ItemRows
      <3>3. item' = [item EXCEPT ![s] = row]
        BY <1>1, <2>2 DEF RetryUndo
      <3>. HIDE DEF row
      <3>4. /\ item' \in [Sites -> ItemRows] /\ item'[s] = row
            /\ \A t \in Sites : t # s => item'[t] = item[t]
        BY <3>2, <3>3, ItemChange DEF Inv
      <3>. QED BY <3>2, <3>4 DEF ItemRows
    <2>. QED BY <2>1, <2>2
  <1>4. \A t \in Sites : item'[t].status = "cancelled" => item[t].status = "cancelled"
    BY <1>3
  <1>5. JobsEarned'
    BY <1>2, <1>4, NoJob
  <1>6. retry' \in [pc : {"idle", "enqueue"}, site : Sites \cup {None}, stage : Kinds,
                    seen : BatchStatuses, now : BatchStatuses, status : SiteStatuses]
    <2>1. NoRetry \in [pc : {"idle", "enqueue"}, site : Sites \cup {None}, stage : Kinds,
                       seen : BatchStatuses, now : BatchStatuses, status : SiteStatuses]
      BY DEF NoRetry, Kinds, BatchStatuses, SiteStatuses, ACTIVE_SITE_STATUSES
    <2>. QED BY <1>2, <2>1 DEF Inv, TypeOK
  <1>7. TypeOK'
    BY <1>2, <1>3, <1>6 DEF Inv, TypeOK
  <1>8. RowsEarned'
    BY <1>2, <1>3 DEF Inv, RowsEarned
  <1>9. Created'
    BY <1>2, <1>4 DEF Inv, Created
  <1>10. Retried'
    <2>1. CASE retry' = NoRetry
      BY <2>1 DEF NoRetry, Retried
    <2>2. CASE retry' = [retry EXCEPT !.pc = "enqueue", !.seen = retry.now]
      <3>1. retry.pc # "idle"
        BY DEF RetryFlush, RetryUndo
      <3>. QED BY <1>2, <2>2, <3>1 DEF Inv, TypeOK, Retried
    <2>. QED BY <1>2, <2>1, <2>2
  <1>. QED BY <1>5, <1>7, <1>8, <1>9, <1>10 DEF Inv

(* The other steps of a retry request. *)
LEMMA RetryInv ==
    ASSUME Inv, Retry PROVE Inv'
  <1>1. ASSUME NEW s \in Sites, RetryRead(s) PROVE Inv'
    <2>1. /\ UNCHANGED <<batch, item, job, creating, cancel, done>>
          /\ incidents' \in 0..MaxIncidents
      BY <1>1, PipelineAssumption DEF RetryRead, Inv, TypeOK
    <2>2. /\ retry' \in [pc : {"lock"}, site : Sites, stage : Kinds, seen : BatchStatuses,
                         now : BatchStatuses, status : SiteStatuses]
          /\ retry'.site = s
          /\ retry'.stage = "analysis" => item[s].stage # "ingestion"
      BY <1>1 DEF RetryRead, Inv, TypeOK, Kinds
    <2>3. JobsEarned'
      BY <2>1, NoJob
    <2>4. TypeOK'
      BY <2>1, <2>2 DEF Inv, TypeOK
    <2>5. RowsEarned' /\ Created'
      BY <2>1 DEF Inv, RowsEarned, Created
    <2>6. Retried'
      BY <2>1, <2>2 DEF Inv, RowsEarned, Retried
    <2>. QED BY <2>3, <2>4, <2>5, <2>6 DEF Inv
  <1>2. CASE RetryLock \/ RetryRefused \/ RetryReread
    <2>1. /\ UNCHANGED <<batch, item, job, creating, cancel, done, incidents>>
          /\ retry.pc # "idle" /\ retry.site \in Sites
      BY <1>2 DEF RetryLock, RetryRefused, RetryReread, RetryVars, Inv, Retried
    <2>2. /\ retry' \in [pc : {"flush", "undo", "link"}, site : Sites \cup {None}, stage : Kinds,
                         seen : BatchStatuses, now : BatchStatuses, status : SiteStatuses]
          /\ retry'.site = retry.site /\ retry'.stage = retry.stage
      <3>1. CASE RetryLock
        BY <3>1, RefreshedFact DEF RetryLock, Inv, TypeOK
      <3>2. CASE RetryRefused
        BY <3>2 DEF RetryRefused, Inv, TypeOK
      <3>3. CASE RetryReread
        BY <2>1, <3>3 DEF RetryReread, Inv, TypeOK
      <3>. QED BY <1>2, <3>1, <3>2, <3>3
    <2>3. JobsEarned'
      BY <2>1, NoJob
    <2>4. TypeOK'
      BY <2>1, <2>2 DEF Inv, TypeOK
    <2>5. RowsEarned' /\ Created' /\ Retried'
      BY <2>1, <2>2 DEF Inv, RowsEarned, Created, Retried
    <2>. QED BY <2>3, <2>4, <2>5 DEF Inv
  <1>3. CASE RetryEnqueue
    <2>1. PICK s \in Sites : s = retry.site
      BY <1>3 DEF RetryEnqueue, Inv, Retried
    <2>2. PICK k \in Kinds : k = retry.stage
      BY DEF Inv, TypeOK
    <2>3. /\ UNCHANGED <<batch, item, creating, cancel, done, incidents>>
          /\ job' = [job EXCEPT ![s][k] = Queued]
          /\ retry' = [retry EXCEPT !.pc = "read"]
      BY <1>3, <2>1, <2>2 DEF RetryEnqueue, RetryVars
    <2>4. k = "analysis" => "ingestion" \in done[s]
      BY <1>3, <2>1, <2>2 DEF RetryEnqueue, Inv, Retried
    <2>5. job[s][k] \in JobRows
      BY DEF Inv, TypeOK
    <2>6. Queued \in JobRows /\ Queued.pc = "queued"
      BY <2>5, JobRecords
    <2>7. Earned(k, Queued, item'[s].status, done'[s])
      BY <2>3, <2>4, <2>6 DEF Earned
    <2>8. /\ \A t \in Sites : done[t] \subseteq done'[t] /\ done'[t] \subseteq Kinds
          /\ \A t \in Sites : item'[t].status = "cancelled" => item[t].status = "cancelled"
      BY <2>3 DEF Inv, TypeOK
    <2>9. job' \in [Sites -> [Kinds -> JobRows]] /\ JobsEarned'
      BY <2>3, <2>6, <2>7, <2>8, OneJob
    <2>10. TypeOK'
      BY <2>3, <2>9 DEF Inv, TypeOK
    <2>11. RowsEarned' /\ Created'
      BY <2>3 DEF Inv, RowsEarned, Created
    <2>12. Retried'
      BY <2>1, <2>2, <2>3, <2>4 DEF Inv, TypeOK, Retried
    <2>. QED BY <2>9, <2>10, <2>11, <2>12 DEF Inv
  <1>4. CASE RetryLink
    <2>1. PICK s \in Sites : s = retry.site
      BY <1>4 DEF RetryLink, Inv, Retried
    <2>2. PICK k \in Kinds : k = retry.stage
      BY DEF Inv, TypeOK
    <2> DEFINE r == Known(job[s][k])
    <2>3. /\ UNCHANGED <<batch, creating, cancel, done, incidents>>
          /\ retry' = NoRetry
          /\ item' = item \/ item' = [item EXCEPT ![s].status = "analysis_queued"]
      BY <1>4, <2>1, <2>2 DEF RetryLink, RetryVars
    <2>4. job' = [job EXCEPT ![s][k] = r]
      BY <1>4, <2>1, <2>2 DEF RetryLink, Inv, TypeOK
    <2>5. job[s][k] \in JobRows /\ Earned(k, job[s][k], item[s].status, done[s])
      BY DEF Inv, TypeOK, JobsEarned
    <2>6. /\ r \in JobRows /\ r.pc = job[s][k].pc /\ r.to = job[s][k].to
          /\ r.stage = job[s][k].stage
      BY <2>5, JobRecords
    <2>. HIDE DEF r
    <2>7. /\ item' \in [Sites -> [status : SiteStatuses, stage : Kinds \cup {"completed"},
                                  retries : Nat]]
          /\ \A t \in Sites : /\ item'[t].stage = item[t].stage
                              /\ item'[t].status \in {item[t].status, "analysis_queued"}
      <3>1. CASE item' = item
        BY <3>1 DEF Inv, TypeOK
      <3>2. CASE item' = [item EXCEPT ![s].status = "analysis_queued"]
        <4> DEFINE row == [item[s] EXCEPT !.status = "analysis_queued"]
        <4>1. item[s] \in ItemRows /\ "analysis_queued" \in SiteStatuses
          BY DEF Inv, TypeOK, ItemRows, SiteStatuses, ACTIVE_SITE_STATUSES
        <4>2. row \in ItemRows /\ row.status = "analysis_queued" /\ row.stage = item[s].stage
          BY <4>1 DEF ItemRows
        <4>3. item' = [item EXCEPT ![s] = row]
          BY <3>2
        <4>. HIDE DEF row
        <4>4. /\ item' \in [Sites -> ItemRows] /\ item'[s] = row
              /\ \A t \in Sites : t # s => item'[t] = item[t]
          BY <4>2, <4>3, ItemChange DEF Inv
        <4>. QED BY <4>2, <4>4 DEF ItemRows
      <3>. QED BY <2>3, <3>1, <3>2
    <2>8. Earned(k, r, item'[s].status, done'[s])
      BY <2>3, <2>5, <2>6, <2>7 DEF Earned
    <2>9. /\ \A t \in Sites : done[t] \subseteq done'[t] /\ done'[t] \subseteq Kinds
          /\ \A t \in Sites : item'[t].status = "cancelled" => item[t].status = "cancelled"
      BY <2>3, <2>7 DEF Inv, TypeOK
    <2>10. job' \in [Sites -> [Kinds -> JobRows]] /\ JobsEarned'
      BY <2>4, <2>6, <2>8, <2>9, OneJob
    <2>11. NoRetry \in [pc : {"idle"}, site : {None}, stage : Kinds, seen : BatchStatuses,
                        now : BatchStatuses, status : SiteStatuses]
      BY DEF NoRetry, Kinds, BatchStatuses, SiteStatuses, ACTIVE_SITE_STATUSES
    <2>12. TypeOK'
      BY <2>3, <2>7, <2>10, <2>11 DEF Inv, TypeOK
    <2>13. RowsEarned'
      BY <2>3, <2>7 DEF Inv, RowsEarned
    <2>14. Created' /\ Retried'
      BY <2>3, <2>9, <2>11 DEF Inv, Created, Retried
    <2>. QED BY <2>10, <2>12, <2>13, <2>14 DEF Inv
  <1>5. \A s \in RetrySites : s \in Sites
    BY PipelineAssumption
  <1>. QED BY <1>1, <1>2, <1>3, <1>4, <1>5, RetryRowsInv DEF Retry

------------------------------------------------------------------------------
(* The invariant holds at the start and is kept by every step. *)
LEMMA Inductive ==
    /\ Init => Inv
    /\ Inv /\ [Next]_vars => Inv'
  <1>1. ASSUME Init PROVE Inv
    <2>1. PICK s : s \in Sites
      BY PipelineAssumption
    <2>2. Off \in JobRows /\ Off.pc = "off"
      BY PipelineAssumption DEF JobRows, Off, Fresh, SiteStatuses, ACTIVE_SITE_STATUSES, Kinds
    <2>3. NoRetry \in [pc : {"idle"}, site : {None}, stage : Kinds, seen : BatchStatuses,
                       now : BatchStatuses, status : SiteStatuses]
      BY DEF NoRetry, Kinds, BatchStatuses, SiteStatuses, ACTIVE_SITE_STATUSES
    <2>4. TypeOK
      BY <1>1, <2>2, <2>3, PipelineAssumption
         DEF Init, TypeOK, BatchStatuses, SiteStatuses, ACTIVE_SITE_STATUSES, Kinds
    <2>5. JobsEarned
      BY <1>1, <2>2 DEF Init, JobsEarned, Earned
    <2>6. RowsEarned /\ Created
      BY <1>1 DEF Init, RowsEarned, Created
    <2>7. Retried
      BY <1>1, <2>3 DEF Init, Retried
    <2>. QED BY <2>4, <2>5, <2>6, <2>7 DEF Inv
  <1>2. ASSUME Inv, Next PROVE Inv'
    BY <1>2, TaskInv, InterruptInv, CreateInv, CancelInv, RetryInv DEF Next
  <1>3. ASSUME Inv, UNCHANGED vars PROVE Inv'
    BY <1>3 DEF vars, Inv, TypeOK, JobsEarned, RowsEarned, Created, Retried
  <1>. QED BY <1>1, <1>2, <1>3

(* Type correctness: the statuses of the batch and its site runs, the      *)
(* records of the jobs and the requests keep their types.                  *)
THEOREM PipelineTypeCorrect == Spec => []TypeOK
  <1>1. Inv => TypeOK
    BY DEF Inv
  <1>. QED BY <1>1, Inductive, PTL DEF Spec

(* docs/batch-pipeline.md, "the worker runs these stages in order": no     *)
(* interleaving of tasks, kills, stops, cancellations and retries records  *)
(* a success that was not earned.                                          *)
THEOREM SuccessIsEarned == Spec => []SucceededIsEarned
  <1>1. Inv => SucceededIsEarned
    BY DEF Inv, RowsEarned, SucceededIsEarned
  <1>. QED BY <1>1, Inductive, PTL DEF Spec

(* docs/batch-pipeline.md, "a late task cannot revive the batch after the  *)
(* request commits": a task writes its row only while it holds it, and it  *)
(* took no cancelled row; the batch's status is recomputed from a          *)
(* cancelled one to a cancelled one.                                       *)
THEOREM LateTasksCannotRevive == Spec => CancelIsFinal
  <1> DEFINE Final == /\ batch = "cancelled" => batch' = "cancelled"
                      /\ \A s \in Sites : item[s].status = "cancelled" =>
                                            item'[s].status = "cancelled"
  <1>1. ASSUME Inv, [Next]_vars PROVE [retry' = retry => Final]_vars
    <2>. SUFFICES ASSUME Next, retry' = retry PROVE Final
      BY <1>1
    <2>1. ASSUME NEW s \in Sites, NEW k \in Kinds, UpdateSite(s, k) PROVE Final
      <3>1. item[s].status # "cancelled"
        BY <1>1, <2>1 DEF UpdateSite, Inv, JobsEarned, Earned
      <3>2. \A t \in Sites : t # s => item'[t] = item[t]
        BY <1>1, <2>1 DEF UpdateSite, Inv, TypeOK
      <3>3. batch = "cancelled" => batch' = "cancelled"
        BY <2>1, RefreshedFact DEF UpdateSite
      <3>. QED BY <3>1, <3>2, <3>3
    <2>2. ASSUME NEW s \in Sites, LinkAnalysis(s) PROVE Final
      BY <1>1, <2>2 DEF LinkAnalysis, Inv, TypeOK
    <2>3. ASSUME NEW s \in Sites, NEW k \in Kinds,
                 Task(s, k) \/ Kill(s, k) \/ Stop(s, k),
                 ~UpdateSite(s, k), ~LinkAnalysis(s)
          PROVE  Final
      BY <2>3 DEF Task, Take, Lock, BodySucceeds, BodyFails, EnqueueAnalysis, AnalysisDuplicate,
                  AnalysisRefused, TaskAborted, Kill, Stop, OnlyJobs
    <2>4. CASE Create
      <3>1. ASSUME NEW s \in Sites, CreateRefused(s) PROVE Final
        BY <1>1, <3>1, RefreshedFact DEF CreateRefused, Inv, Created
      <3>2. CASE (\E s \in Sites : CreateEnqueue(s)) \/ CreateLink \/ CreateEnd
        BY <3>2, RefreshedFact DEF CreateEnqueue, CreateLink, CreateEnd
      <3>. QED BY <2>4, <3>1, <3>2 DEF Create
    <2>5. CASE Cancel
      BY <1>1, <2>5 DEF Cancel, CancelRead, CancelLock, CancelAborted, CancelItems, Inv, TypeOK
    <2>6. CASE Retry
      <3>1. retry \in [pc : {"idle", "lock", "flush", "enqueue", "read", "link", "undo"},
                       site : Sites \cup {None}, stage : Kinds, seen : BatchStatuses,
                       now : BatchStatuses, status : SiteStatuses]
        BY <1>1 DEF Inv, TypeOK
      <3>2. \A s \in RetrySites : RetryRead(s) => retry'.pc # retry.pc
        BY <3>1 DEF RetryRead
      <3>3. RetryLock => retry'.pc # retry.pc
        BY <3>1 DEF RetryLock
      <3>4. RetryFlush => retry'.pc # retry.pc
        BY <3>1 DEF RetryFlush
      <3>5. RetryEnqueue \/ RetryRefused \/ RetryReread => retry'.pc # retry.pc
        BY <3>1 DEF RetryEnqueue, RetryRefused, RetryReread
      <3>6. RetryUndo \/ RetryLink => retry'.pc # retry.pc
        BY DEF RetryUndo, RetryLink, NoRetry
      <3>. QED BY <2>6, <3>2, <3>3, <3>4, <3>5, <3>6 DEF Retry
    <2>. QED BY <2>1, <2>2, <2>3, <2>4, <2>5, <2>6 DEF Next
  <1>2. Spec => [][retry' = retry => Final]_vars
    BY <1>1, Inductive, PTL DEF Spec
  <1>. QED BY <1>2 DEF CancelIsFinal

------------------------------------------------------------------------------
(* The batch against its site runs. *)

(* A retry request that has written its row has counted itself there. *)
RetriesCounted ==
    retry.pc \in {"enqueue", "read", "link", "undo"} => item[retry.site].retries # 0

AddsUp == ~creating.open /\ NeverRetried => batch \in {"cancelled", Refreshed("queued", item)}

(* Without kills and retries: a site run that is over has no job that would *)
(* write it again, an analysis runs only beside an ingestion that has no    *)
(* more to write, and a site still to be queued has no job and is not over. *)
Settled(s) ==
    /\ item[s].status \in {"succeeded", "failed"} =>
          job[s]["analysis"].pc = "off" /\ job[s]["ingestion"].pc \in {"off", "link"}
    /\ job[s]["analysis"].pc # "off" => job[s]["ingestion"].pc \in {"off", "link"}
    /\ s \in creating.todo =>
          /\ item[s].status \notin {"succeeded", "failed"}
          /\ job[s]["ingestion"].pc = "off" /\ job[s]["analysis"].pc = "off"

NoneActive(rows) == \A s \in Sites : rows[s].status \notin ACTIVE_SITE_STATUSES

Quiet ==
    NeverRetried /\ incidents = 0 =>
        /\ batch = "cancelled" => NoneActive(item)
        /\ \A s \in Sites : Settled(s)

Agreed == RetriesCounted /\ AddsUp /\ Quiet

(* refresh_pipeline_batch_status says cancelled of its own only when no     *)
(* site run is active, and depends on what it saw in no other way.          *)
LEMMA RefreshedRule ==
    ASSUME NEW seen, NEW rows, seen # "cancelled"
    PROVE  /\ Refreshed(seen, rows) = Refreshed("queued", rows)
           /\ Refreshed(seen, rows) = "cancelled" => NoneActive(rows)
           /\ ~NoneActive(rows) => Refreshed(seen, rows) = "running"
  <1>1. NoneActive(rows) <=> Statuses(rows) \cap ACTIVE_SITE_STATUSES = {}
    BY DEF NoneActive, Statuses
  <1>. QED BY <1>1 DEF Refreshed

(* A step that is no retry and leaves the retry counts: if nobody has       *)
(* retried after it, nobody had before.                                     *)
LEMMA NotARetry ==
    ASSUME Inv, RetriesCounted, retry' = retry,
           \A t \in Sites : item'[t].retries = item[t].retries
    PROVE  RetriesCounted' /\ (NeverRetried' => NeverRetried)
  <1>1. retry.pc \in {"enqueue", "read", "link", "undo"} => retry.site \in Sites
    BY DEF Inv, Retried
  <1>. QED BY <1>1 DEF RetriesCounted, NeverRetried

(* The steps that change one job and nothing else: a job that is over, or   *)
(* an ingestion that waits to store its analysis, can only end.             *)
LEMMA OneJobAgrees ==
    ASSUME Inv, Agreed, NEW s \in Sites, NEW k \in Kinds, NEW r \in JobRows,
           job' = [job EXCEPT ![s][k] = r], r.pc = "off" \/ job[s][k].pc \notin {"off", "link"},
           UNCHANGED <<batch, item, creating, retry, incidents>>
    PROVE  Agreed'
  <1>1. /\ job'[s][k].pc = r.pc
        /\ \A t \in Sites, l \in Kinds : t # s \/ l # k => job'[t][l] = job[t][l]
    BY DEF Inv, TypeOK
  <1>2. RetriesCounted' /\ (NeverRetried' => NeverRetried)
    BY NotARetry DEF Agreed
  <1>3. AddsUp'
    BY DEF Agreed, AddsUp, NeverRetried
  <1>4. ASSUME NEW t \in Sites, Settled(t) PROVE Settled(t)'
    <2>1. CASE t # s
      BY <1>1, <1>4, <2>1 DEF Settled, Kinds
    <2>2. CASE t = s /\ k = "ingestion"
      BY <1>1, <1>4, <2>2 DEF Settled, Kinds
    <2>3. CASE t = s /\ k = "analysis"
      BY <1>1, <1>4, <2>3 DEF Settled, Kinds
    <2>. QED BY <2>1, <2>2, <2>3 DEF Kinds
  <1>5. Quiet'
    BY <1>2, <1>4 DEF Agreed, Quiet, NoneActive
  <1>. QED BY <1>2, <1>3, <1>5 DEF Agreed

LEMMA JobStepAgrees ==
    ASSUME Inv, Agreed, NEW s \in Sites, NEW k \in Kinds,
           \/ Take(s, k) \/ Lock(s, k) \/ BodySucceeds(s, k) \/ BodyFails(s, k) \/ TaskAborted(s, k)
           \/ Stop(s, k)
           \/ k = "ingestion" /\ (AnalysisDuplicate(s) \/ AnalysisRefused(s))
    PROVE  Agreed'
  <1>1. job[s][k] \in JobRows
    BY DEF Inv, TypeOK
  <1>2. UNCHANGED <<batch, item, creating, retry, incidents>>
    BY DEF Take, Lock, BodySucceeds, BodyFails, TaskAborted, Stop, AnalysisDuplicate, AnalysisRefused,
           OnlyJobs
  <1>3. ASSUME Goto(s, k, "off") PROVE Agreed'
    <2>1. Off \in JobRows /\ Off.pc = "off"
      BY <1>1, JobRecords
    <2>2. job' = [job EXCEPT ![s][k] = Off]
      BY <1>3 DEF Goto
    <2>. QED BY <1>2, <2>1, <2>2, OneJobAgrees
  <1>4. ASSUME NEW pc \in Running \cup {"off"}, Goto(s, k, pc), job[s][k].pc \notin {"off", "link"}
        PROVE  Agreed'
    <2> DEFINE r == [job[s][k] EXCEPT !.pc = pc]
    <2>1. CASE pc = "off"
      BY <1>3, <1>4, <2>1
    <2>2. CASE pc # "off"
      <3>1. job' = [job EXCEPT ![s][k] = r]
        BY <1>4, <2>2 DEF Goto
      <3>2. r \in JobRows
        BY <1>1 DEF JobRows
      <3>. HIDE DEF r
      <3>. QED BY <1>2, <1>4, <3>1, <3>2, OneJobAgrees
    <2>. QED BY <2>1, <2>2
  <1>5. ASSUME NEW status \in SiteStatuses \ {"cancelled"}, NEW stage \in Kinds \cup {"completed"},
               Update(s, k, status, stage), job[s][k].pc \notin {"off", "link"}
        PROVE  Agreed'
    <2> DEFINE r == [job[s][k] EXCEPT !.pc = "lock", !.to = status, !.stage = stage]
    <2>1. r \in JobRows
      BY <1>1 DEF JobRows, Running
    <2>2. job' = [job EXCEPT ![s][k] = r]
      BY <1>5 DEF Update
    <2>. HIDE DEF r
    <2>. QED BY <1>2, <1>5, <2>1, <2>2, OneJobAgrees
  <1>6. ASSUME job' = [job EXCEPT ![s][k] = Attempted(@)], job[s][k].pc \notin {"off", "link"}
        PROVE  Agreed'
    <2>1. job' = [job EXCEPT ![s][k] = Attempted(job[s][k])]
      BY <1>6 DEF Inv, TypeOK
    <2>2. Attempted(job[s][k]) \in JobRows
      BY <1>1, JobRecords
    <2>. QED BY <1>2, <1>6, <2>1, <2>2, OneJobAgrees
  <1>7. /\ \A l \in Kinds : RunningStatus(l) \in SiteStatuses \ {"cancelled"}
        /\ {"succeeded", "failed"} \subseteq SiteStatuses \ {"cancelled"}
        /\ {k, "analysis", "completed"} \subseteq Kinds \cup {"completed"}
    BY DEF RunningStatus, SiteStatuses, ACTIVE_SITE_STATUSES, Kinds
  <1>8. CASE Take(s, k)
    BY <1>3, <1>5, <1>7, <1>8 DEF Take
  <1>9. CASE Lock(s, k)
    <2> DEFINE pc == IF item[s].status = "cancelled" THEN AfterUpdate(job[s][k].to) ELSE "batch"
    <2>1. pc \in Running \cup {"off"}
      BY DEF AfterUpdate, Running
    <2>2. Goto(s, k, pc) /\ job[s][k].pc = "lock"
      BY <1>9 DEF Lock
    <2>. HIDE DEF pc
    <2>. QED BY <1>4, <2>1, <2>2
  <1>10. CASE BodySucceeds(s, k)
    <2>1. job[s][k].pc = "body" /\ "enqueue" \in Running
      BY <1>10 DEF BodySucceeds, Running
    <2>2. \/ Goto(s, k, "off") \/ Goto(s, k, "enqueue") \/ Update(s, k, "succeeded", "completed")
      BY <1>10 DEF BodySucceeds, AfterBody
    <2>. QED BY <1>3, <1>4, <1>5, <1>7, <2>1, <2>2
  <1>11. CASE BodyFails(s, k)
    BY <1>5, <1>6, <1>7, <1>11 DEF BodyFails
  <1>12. CASE TaskAborted(s, k)
    BY <1>6, <1>12 DEF TaskAborted
  <1>13. CASE Stop(s, k)
    BY <1>3, <1>13 DEF Stop
  <1>14. CASE k = "ingestion" /\ (AnalysisDuplicate(s) \/ AnalysisRefused(s))
    <2>1. job[s][k].pc = "enqueue"
      BY <1>14 DEF AnalysisDuplicate, AnalysisRefused
    <2>2. Update(s, k, "failed", "analysis") \/ job' = [job EXCEPT ![s][k] = Attempted(@)]
      BY <1>14 DEF AnalysisDuplicate, AnalysisRefused
    <2>. QED BY <1>5, <1>6, <1>7, <2>1, <2>2
  <1>. QED BY <1>8, <1>9, <1>10, <1>11, <1>12, <1>13, <1>14

(* A kill is an incident; it writes no row. *)
LEMMA KillAgrees ==
    ASSUME Inv, Agreed, NEW s \in Sites, NEW k \in Kinds, Kill(s, k) PROVE Agreed'
  <1>1. /\ UNCHANGED <<batch, item, creating, retry>>
        /\ incidents' # 0
    BY DEF Kill, Inv, TypeOK
  <1>2. RetriesCounted' /\ (NeverRetried' => NeverRetried)
    BY <1>1, NotARetry DEF Agreed
  <1>3. AddsUp'
    BY <1>1 DEF Agreed, AddsUp, NeverRetried
  <1>. QED BY <1>1, <1>2, <1>3 DEF Agreed, Quiet

(* An analysis starts where none runs, beside its ingestion's last step. *)
LEMMA EnqueueAgrees ==
    ASSUME Inv, Agreed, NEW s \in Sites, EnqueueAnalysis(s) PROVE Agreed'
  <1>1. /\ job[s]["ingestion"].pc = "enqueue" /\ job[s]["analysis"].pc = "off"
        /\ UNCHANGED <<batch, item, creating, retry, incidents>>
    BY DEF EnqueueAnalysis, OnlyJobs
  <1>2. /\ job'[s]["ingestion"].pc = "link"
        /\ \A t \in Sites : t # s => job'[t] = job[t]
    <2>1. job[s]["ingestion"] \in JobRows
      BY DEF Inv, TypeOK, Kinds
    <2>2. [job[s]["ingestion"] EXCEPT !.pc = "link"].pc = "link"
      BY <2>1 DEF JobRows
    <2>3. job' = [job EXCEPT ![s] = [k \in Kinds |->
                     IF k = "ingestion" THEN [job[s]["ingestion"] EXCEPT !.pc = "link"] ELSE Queued]]
      BY DEF EnqueueAnalysis, Inv, TypeOK, Kinds
    <2>. QED BY <2>2, <2>3 DEF Inv, TypeOK, Kinds
  <1>3. RetriesCounted' /\ (NeverRetried' => NeverRetried)
    BY <1>1, NotARetry DEF Agreed
  <1>4. AddsUp'
    BY <1>1 DEF Agreed, AddsUp, NeverRetried
  <1>5. ASSUME NEW t \in Sites, Settled(t) PROVE Settled(t)'
    <2>1. CASE t # s
      BY <1>1, <1>2, <1>5, <2>1 DEF Settled
    <2>2. CASE t = s
      BY <1>1, <1>2, <1>5, <2>2 DEF Settled
    <2>. QED BY <2>1, <2>2
  <1>6. Quiet'
    BY <1>1, <1>3, <1>5 DEF Agreed, Quiet, NoneActive
  <1>. QED BY <1>3, <1>4, <1>6 DEF Agreed

(* The ingestion stores its analysis: an active row stays active. *)
LEMMA LinkAgrees ==
    ASSUME Inv, Agreed, NEW s \in Sites, LinkAnalysis(s) PROVE Agreed'
  <1> DEFINE r == Known(job[s]["analysis"])
             row == [item[s] EXCEPT !.status = "analysis_queued", !.stage = "analysis"]
  <1>1. UNCHANGED <<batch, creating, retry, incidents>> /\ job[s]["ingestion"].pc = "link"
    BY DEF LinkAnalysis
  <1>2. r.pc = job[s]["analysis"].pc /\ Off.pc = "off"
    <2>1. job[s]["analysis"] \in JobRows
      BY DEF Inv, TypeOK, Kinds
    <2>. QED BY <2>1, JobRecords
  <1>3. job' = [job EXCEPT ![s] = [k \in Kinds |-> IF k = "ingestion" THEN Off ELSE r]]
    BY DEF LinkAnalysis, Inv, TypeOK, Kinds
  <1>. HIDE DEF r
  <1>4. /\ job'[s]["ingestion"].pc = "off" /\ job'[s]["analysis"].pc = job[s]["analysis"].pc
        /\ \A t \in Sites : t # s => job'[t] = job[t]
    BY <1>2, <1>3 DEF Inv, TypeOK, Kinds
  <1>5. /\ item[s] \in ItemRows /\ "analysis_queued" \in ACTIVE_SITE_STATUSES
        /\ "ingestion_running" \in ACTIVE_SITE_STATUSES
        /\ "analysis_queued" \in SiteStatuses /\ "analysis" \in Kinds
    BY DEF Inv, TypeOK, ItemRows, ACTIVE_SITE_STATUSES, SiteStatuses, Kinds
  <1>6. row \in ItemRows /\ row.status = "analysis_queued" /\ row.retries = item[s].retries
    BY <1>5 DEF ItemRows
  <1>7. \/ item' = item
        \/ item[s].status = "ingestion_running" /\ item' = [item EXCEPT ![s] = row]
    BY DEF LinkAnalysis, Inv, TypeOK
  <1>. HIDE DEF row
  <1>8. \/ item' = item
        \/ /\ item[s].status = "ingestion_running" /\ item'[s].status = "analysis_queued"
           /\ item'[s].retries = item[s].retries
           /\ \A t \in Sites : t # s => item'[t] = item[t]
    <2>1. ASSUME item' = [item EXCEPT ![s] = row]
          PROVE  item'[s] = row /\ \A t \in Sites : t # s => item'[t] = item[t]
      BY <1>6, <2>1, ItemChange DEF Inv
    <2>. QED BY <1>6, <1>7, <2>1
  <1>9. RetriesCounted' /\ (NeverRetried' => NeverRetried)
    BY <1>1, <1>8, NotARetry DEF Agreed
  <1>10. CASE item' = item
    <2>1. AddsUp'
      BY <1>1, <1>10 DEF Agreed, AddsUp, NeverRetried
    <2>2. \A t \in Sites : Settled(t) => Settled(t)'
      BY <1>1, <1>4, <1>10 DEF Settled
    <2>3. Quiet'
      BY <1>1, <1>9, <1>10, <2>2 DEF Agreed, Quiet, NoneActive
    <2>. QED BY <1>9, <2>1, <2>3 DEF Agreed
  <1>11. CASE item' # item
    <2>1. ~NoneActive(item) /\ ~NoneActive(item')
      BY <1>5, <1>8, <1>11 DEF NoneActive
    <2>2. Refreshed("queued", item) = "running" /\ Refreshed("queued", item') = "running"
      BY <2>1, RefreshedRule
    <2>3. AddsUp'
      BY <1>1, <1>9, <2>2 DEF Agreed, AddsUp
    <2>4. \A t \in Sites : Settled(t) => Settled(t)'
      BY <1>1, <1>4, <1>8, <1>11 DEF Settled
    <2>5. Quiet'
      BY <1>1, <1>9, <2>1, <2>4 DEF Agreed, Quiet
    <2>. QED BY <1>9, <2>3, <2>5 DEF Agreed
  <1>. QED BY <1>10, <1>11

(* update_pipeline_site: the row it writes was neither cancelled nor over,  *)
(* so an unmolested cancelled batch has none to write.                      *)
LEMMA UpdateSiteAgrees ==
    ASSUME Inv, Agreed, NEW s \in Sites, NEW k \in Kinds, UpdateSite(s, k) PROVE Agreed'
  <1> DEFINE j == job[s][k]
             pc == AfterUpdate(j.to)
             r == IF pc = "off" THEN Off ELSE [j EXCEPT !.pc = pc]
             row == [item[s] EXCEPT !.status = j.to, !.stage = j.stage]
  <1>1. j \in JobRows /\ Earned(k, j, item[s].status, done[s]) /\ j.pc = "batch" /\ item[s] \in ItemRows
    BY DEF Inv, TypeOK, JobsEarned, UpdateSite, ItemRows
  <1>2. /\ batch' = Refreshed(batch, item') /\ UNCHANGED <<creating, retry, incidents>>
        /\ job' = [job EXCEPT ![s][k] = r]
    BY DEF UpdateSite, Goto
  <1>3. r.pc \in {"off", "body"} /\ (j.to \in {"succeeded", "failed"} => r.pc = "off")
    BY <1>1, JobRecords DEF AfterUpdate, JobRows
  <1>4. row \in ItemRows /\ row.status = j.to /\ row.retries = item[s].retries
    BY <1>1 DEF ItemRows, JobRows
  <1>5. item' = [item EXCEPT ![s] = row]
    BY DEF UpdateSite, Inv, TypeOK
  <1>. HIDE DEF r, row
  <1>6. item'[s] = row /\ \A t \in Sites : t # s => item'[t] = item[t]
    BY <1>4, <1>5, ItemChange DEF Inv
  <1>7. /\ job'[s][k] = r
        /\ \A t \in Sites, l \in Kinds : t # s \/ l # k => job'[t][l] = job[t][l]
    BY <1>2 DEF Inv, TypeOK
  <1>8. RetriesCounted' /\ (NeverRetried' => NeverRetried)
    BY <1>2, <1>4, <1>6, NotARetry DEF Agreed
  <1>9. AddsUp'
    <2>1. batch' \in {"cancelled", Refreshed("queued", item')}
      BY <1>2, RefreshedRule, RefreshedFact
    <2>. QED BY <2>1 DEF AddsUp
  <1>10. ASSUME NEW t \in Sites, Settled(t) PROVE Settled(t)'
    <2>1. CASE t # s
      BY <1>2, <1>6, <1>7, <1>10, <2>1 DEF Settled, Kinds
    <2>2. CASE t = s /\ k = "ingestion"
      BY <1>1, <1>2, <1>3, <1>4, <1>6, <1>7, <1>10, <2>2 DEF Settled, Kinds
    <2>3. CASE t = s /\ k = "analysis"
      BY <1>1, <1>2, <1>3, <1>4, <1>6, <1>7, <1>10, <2>3 DEF Settled, Kinds
    <2>. QED BY <2>1, <2>2, <2>3 DEF Kinds
  <1>11. Settled(s) => item[s].status \in ACTIVE_SITE_STATUSES
    <2>1. item[s].status # "cancelled" /\ item[s].status \in SiteStatuses
      BY <1>1 DEF Earned, ItemRows
    <2>2. Settled(s) => item[s].status \notin {"succeeded", "failed"}
      BY <1>1 DEF Settled, Kinds
    <2>. QED BY <2>1, <2>2 DEF SiteStatuses
  <1>12. Quiet'
    <2>1. SUFFICES ASSUME NeverRetried, incidents = 0
                   PROVE  (batch' = "cancelled" => NoneActive(item')) /\ \A t \in Sites : Settled(t)'
      BY <1>2, <1>8 DEF Quiet
    <2>2. \A t \in Sites : Settled(t)
      BY <2>1 DEF Agreed, Quiet
    <2>3. batch # "cancelled"
      BY <1>11, <2>1, <2>2 DEF Agreed, Quiet, NoneActive
    <2>. QED BY <1>2, <1>10, <2>2, <2>3, RefreshedRule
  <1>. QED BY <1>8, <1>9, <1>12 DEF Agreed

LEMMA CreateAgrees ==
    ASSUME Inv, Agreed, Create PROVE Agreed'
  <1>0. "ingestion" \in Kinds /\ creating \in [todo : SUBSET Sites, link : Sites \cup {None}, open : BOOLEAN]
    BY DEF Kinds, Inv, TypeOK
  <1>1. ASSUME NEW s \in Sites, CreateEnqueue(s) PROVE Agreed'
    <2>1. /\ UNCHANGED <<batch, item, retry, incidents>> /\ s \in creating.todo
          /\ creating'.open = creating.open /\ creating'.todo = creating.todo \ {s}
      BY <1>0, <1>1 DEF CreateEnqueue
    <2>2. job' = [job EXCEPT ![s]["ingestion"] = Queued]
      BY <1>1 DEF CreateEnqueue
    <2>3. \A t \in Sites, l \in Kinds : t # s \/ l # "ingestion" => job'[t][l] = job[t][l]
      BY <2>2 DEF Inv, TypeOK
    <2>4. RetriesCounted' /\ (NeverRetried' => NeverRetried)
      BY <2>1, NotARetry DEF Agreed
    <2>5. AddsUp'
      BY <2>1, <2>4 DEF Agreed, AddsUp
    <2>6. Quiet'
      <3>1. SUFFICES ASSUME NeverRetried, incidents = 0
                     PROVE  (batch = "cancelled" => NoneActive(item)) /\ \A t \in Sites : Settled(t)'
        BY <2>1, <2>4 DEF Quiet, NoneActive
      <3>2. \A t \in Sites : Settled(t)
        BY <3>1 DEF Agreed, Quiet
      <3>3. item[s].status \notin {"succeeded", "failed"}
        BY <2>1, <3>2 DEF Settled
      <3>4. Settled(s)'
        BY <2>1, <2>3, <3>2, <3>3 DEF Settled, Kinds
      <3>5. \A t \in Sites : t # s => Settled(t)'
        BY <2>1, <2>3, <3>2 DEF Settled, Kinds
      <3>. QED BY <3>1, <3>4, <3>5 DEF Agreed, Quiet
    <2>. QED BY <2>4, <2>5, <2>6 DEF Agreed
  <1>2. CASE CreateLink
    <2>0. PICK s \in Sites : s = creating.link
      BY <1>2 DEF CreateLink, Inv, TypeOK
    <2> DEFINE r == Known(job[s]["ingestion"])
    <2>1. /\ UNCHANGED <<batch, item, retry, incidents>>
          /\ creating'.open = creating.open /\ creating'.todo = creating.todo
      BY <1>0, <1>2 DEF CreateLink
    <2>2. r.pc = job[s]["ingestion"].pc
      <3>1. job[s]["ingestion"] \in JobRows
        BY <1>0 DEF Inv, TypeOK
      <3>. QED BY <3>1, JobRecords
    <2>3. job' = [job EXCEPT ![s]["ingestion"] = r]
      BY <1>2, <2>0 DEF CreateLink, Inv, TypeOK
    <2>. HIDE DEF r
    <2>4. \A t \in Sites, l \in Kinds : job'[t][l].pc = job[t][l].pc
      BY <2>2, <2>3 DEF Inv, TypeOK
    <2>5. RetriesCounted' /\ (NeverRetried' => NeverRetried)
      BY <2>1, NotARetry DEF Agreed
    <2>6. AddsUp'
      BY <2>1, <2>5 DEF Agreed, AddsUp
    <2>7. \A t \in Sites : Settled(t) => Settled(t)'
      BY <2>1, <2>4 DEF Settled, Kinds
    <2>8. Quiet'
      BY <2>1, <2>5, <2>7 DEF Agreed, Quiet, NoneActive
    <2>. QED BY <2>5, <2>6, <2>8 DEF Agreed
  <1>3. ASSUME NEW s \in Sites, CreateRefused(s) PROVE Agreed'
    <2> DEFINE row == [item[s] EXCEPT !.status = "failed", !.stage = "ingestion"]
    <2>1. /\ UNCHANGED <<job, retry, incidents>> /\ s \in creating.todo /\ creating.open
          /\ creating'.open = creating.open /\ creating'.todo = creating.todo \ {s}
          /\ batch' = Refreshed(batch, item')
      BY <1>0, <1>3 DEF CreateRefused
    <2>2. item[s] \in ItemRows /\ "failed" \in SiteStatuses /\ "failed" \notin ACTIVE_SITE_STATUSES
      BY DEF Inv, TypeOK, ItemRows, SiteStatuses, ACTIVE_SITE_STATUSES
    <2>3. row \in ItemRows /\ row.status = "failed" /\ row.retries = item[s].retries
      BY <1>0, <2>2 DEF ItemRows
    <2>4. item' = [item EXCEPT ![s] = row]
      BY <1>3 DEF CreateRefused
    <2>. HIDE DEF row
    <2>5. item'[s] = row /\ \A t \in Sites : t # s => item'[t] = item[t]
      BY <2>3, <2>4, ItemChange DEF Inv
    <2>6. RetriesCounted' /\ (NeverRetried' => NeverRetried)
      BY <2>1, <2>3, <2>5, NotARetry DEF Agreed
    <2>7. AddsUp'
      BY <2>1 DEF AddsUp
    <2>8. Quiet'
      <3>1. SUFFICES ASSUME NeverRetried, incidents = 0
                     PROVE  (batch' = "cancelled" => NoneActive(item')) /\ \A t \in Sites : Settled(t)'
        BY <2>1, <2>6 DEF Quiet
      <3>2. \A t \in Sites : Settled(t)
        BY <3>1 DEF Agreed, Quiet
      <3>3. \A t \in Sites : Settled(t)'
        BY <2>1, <2>5, <3>2 DEF Settled
      <3>4. batch = "cancelled" => NoneActive(item')
        BY <2>2, <2>3, <2>5, <3>1 DEF Agreed, Quiet, NoneActive
      <3>. QED BY <2>1, <3>3, <3>4, RefreshedRule
    <2>. QED BY <2>6, <2>7, <2>8 DEF Agreed
  <1>4. CASE CreateEnd
    <2>1. /\ UNCHANGED <<item, job, retry, incidents>> /\ batch' = Refreshed(batch, item)
          /\ creating'.todo = creating.todo
      BY <1>0, <1>4 DEF CreateEnd
    <2>2. RetriesCounted' /\ (NeverRetried' => NeverRetried)
      BY <2>1, NotARetry DEF Agreed
    <2>3. AddsUp'
      <3>1. batch' \in {"cancelled", Refreshed("queued", item')}
        BY <2>1, RefreshedRule, RefreshedFact
      <3>. QED BY <3>1 DEF AddsUp
    <2>4. \A t \in Sites : Settled(t) => Settled(t)'
      BY <2>1 DEF Settled
    <2>5. batch' = "cancelled" => batch = "cancelled" \/ NoneActive(item)
      BY <2>1, RefreshedRule
    <2>6. Quiet'
      BY <2>1, <2>2, <2>4, <2>5 DEF Agreed, Quiet, NoneActive
    <2>. QED BY <2>2, <2>3, <2>6 DEF Agreed
  <1>. QED BY <1>1, <1>2, <1>3, <1>4 DEF Create

(* The cancel request leaves no site run active. *)
LEMMA CancelAgrees ==
    ASSUME Inv, Agreed, Cancel PROVE Agreed'
  <1>1. CASE CancelRead \/ CancelLock \/ CancelAborted
    <2>1. UNCHANGED <<batch, item, job, creating, retry, incidents>>
      BY <1>1 DEF CancelRead, CancelLock, CancelAborted
    <2>2. RetriesCounted' /\ (NeverRetried' => NeverRetried)
      BY <2>1, NotARetry DEF Agreed
    <2>3. AddsUp'
      BY <2>1 DEF Agreed, AddsUp, NeverRetried
    <2>4. \A t \in Sites : Settled(t) => Settled(t)'
      BY <2>1 DEF Settled
    <2>5. Quiet'
      BY <2>1, <2>2, <2>4 DEF Agreed, Quiet, NoneActive
    <2>. QED BY <2>2, <2>3, <2>5 DEF Agreed
  <1>2. ASSUME NEW redis \in BOOLEAN, CancelItems(redis) PROVE Agreed'
    <2>1. batch' = "cancelled" /\ UNCHANGED <<creating, retry, incidents>>
      BY <1>2 DEF CancelItems
    <2>2. item \in [Sites -> ItemRows]
      BY DEF Inv, TypeOK, ItemRows
    <2>3. \A s \in Sites :
             item'[s] = IF item[s].status \notin {"succeeded", "failed"}
                        THEN [item[s] EXCEPT !.status = "cancelled"] ELSE item[s]
      BY <1>2 DEF CancelItems
    <2>4. \A s \in Sites :
             /\ item'[s].retries = item[s].retries
             /\ item[s].status \in {"succeeded", "failed"} => item'[s].status = item[s].status
             /\ item[s].status \notin {"succeeded", "failed"} => item'[s].status = "cancelled"
      BY <2>2, <2>3 DEF ItemRows
    <2>5. \A s \in Sites, k \in Kinds : job'[s][k] \in {job[s][k], Stopped(job[s][k])}
      BY <1>2 DEF CancelItems
    <2>6. \A s \in Sites, k \in Kinds : Stopped(job[s][k]).pc \in {job[s][k].pc, "off"}
      BY JobRecords DEF Inv, TypeOK
    <2>7. \A s \in Sites, k \in Kinds : job'[s][k].pc \in {job[s][k].pc, "off"}
      BY <2>5, <2>6
    <2>8. RetriesCounted' /\ (NeverRetried' => NeverRetried)
      BY <2>1, <2>4, NotARetry DEF Agreed
    <2>9. \A t \in Sites : Settled(t) => Settled(t)'
      BY <2>1, <2>4, <2>7 DEF Settled, Kinds
    <2>10. NoneActive(item')
      BY <2>4 DEF NoneActive, ACTIVE_SITE_STATUSES
    <2>11. AddsUp' /\ Quiet'
      BY <2>1, <2>8, <2>9, <2>10 DEF Agreed, AddsUp, Quiet
    <2>. QED BY <2>8, <2>11 DEF Agreed
  <1>. QED BY <1>1, <1>2 DEF Cancel

(* A retry request is counted in the row it writes, for good. *)
LEMMA RetryAgrees ==
    ASSUME Inv, Agreed, Retry PROVE Agreed'
  <1>0. retry \in [pc : {"idle", "lock", "flush", "enqueue", "read", "link", "undo"},
                   site : Sites \cup {None}, stage : Kinds, seen : BatchStatuses,
                   now : BatchStatuses, status : SiteStatuses]
    BY DEF Inv, TypeOK
  <1>1. SUFFICES RetriesCounted' /\ ~NeverRetried'
    BY DEF Agreed, AddsUp, Quiet
  <1>2. ASSUME NEW s \in RetrySites, RetryRead(s) PROVE RetriesCounted' /\ ~NeverRetried'
    <2>1. retry'.pc = "lock"
      BY <1>0, <1>2 DEF RetryRead
    <2>. QED BY <2>1 DEF RetriesCounted, NeverRetried
  <1>3. CASE RetryLock
    <2>1. retry'.pc = "flush"
      BY <1>0, <1>3 DEF RetryLock
    <2>. QED BY <2>1 DEF RetriesCounted, NeverRetried
  <1>4. CASE RetryEnqueue \/ RetryRefused \/ RetryReread
    <2>1. /\ retry.pc \in {"enqueue", "read"} /\ item' = item
          /\ retry'.pc \in {"read", "undo", "link"} /\ retry'.site = retry.site
      BY <1>0, <1>4 DEF RetryEnqueue, RetryRefused, RetryReread
    <2>. QED BY <2>1 DEF Agreed, RetriesCounted, NeverRetried
  <1>5. CASE RetryFlush \/ RetryUndo \/ RetryLink
    <2>1. PICK s \in Sites : s = retry.site
      BY <1>5 DEF RetryFlush, RetryUndo, RetryLink, Inv, Retried
    <2>2. item[s] \in ItemRows /\ item \in [Sites -> ItemRows]
      BY DEF Inv, TypeOK, ItemRows
    <2>3. item'[s].retries # 0
      <3>1. CASE RetryFlush
        <4> DEFINE row == [item[s] EXCEPT !.status = "queued", !.retries = item[s].retries + 1]
        <4>1. item' = [item EXCEPT ![s] = row]
          BY <2>1, <2>2, <3>1 DEF RetryFlush
        <4>2. row.retries # 0
          BY <2>2 DEF ItemRows
        <4>. QED BY <2>2, <4>1, <4>2
      <3>2. CASE RetryUndo \/ RetryLink
        <4>1. item[s].retries # 0
          BY <2>1, <3>2 DEF RetryUndo, RetryLink, Agreed, RetriesCounted
        <4>2. \/ item' = item
              \/ \E st \in {"failed", "analysis_queued"} :
                    item' = [item EXCEPT ![s] = [item[s] EXCEPT !.status = st]]
          BY <2>1, <2>2, <3>2 DEF RetryUndo, RetryLink
        <4>3. \A st \in {"failed", "analysis_queued"} :
                 [item[s] EXCEPT !.status = st].retries = item[s].retries
          BY <2>2 DEF ItemRows
        <4>. QED BY <2>2, <4>1, <4>2, <4>3
      <3>. QED BY <1>5, <3>1, <3>2
    <2>4. retry'.pc \in {"idle", "enqueue"} /\ (retry'.pc = "enqueue" => retry'.site = s)
      <3>1. CASE RetryFlush
        BY <1>0, <2>1, <3>1 DEF RetryFlush
      <3>2. CASE RetryUndo \/ RetryLink
        <4>1. NoRetry.pc = "idle" /\ retry' = NoRetry
          BY <3>2 DEF RetryUndo, RetryLink, NoRetry
        <4>. QED BY <4>1
      <3>. QED BY <1>5, <3>1, <3>2
    <2>. QED BY <2>3, <2>4 DEF RetriesCounted, NeverRetried
  <1>. QED BY <1>2, <1>3, <1>4, <1>5 DEF Retry

(* refresh_pipeline_batch_status: once created, and as long as nobody      *)
(* retries, the batch is what its site runs add up to or was cancelled,    *)
(* however the tasks of its sites interleave; and without kills no site    *)
(* run of a cancelled batch is active.                                     *)
THEOREM BatchAlwaysAgrees == Spec => []BatchAgrees
  <1>1. Init => Agreed
    <2>1. SUFFICES ASSUME Init PROVE Agreed
      OBVIOUS
    <2>2. Off.pc = "off" /\ NoRetry.pc = "idle"
      BY DEF Off, Fresh, NoRetry
    <2>3. \A s \in Sites, k \in Kinds : job[s][k].pc = "off"
      BY <2>1, <2>2 DEF Init
    <2>. QED BY <2>1, <2>2, <2>3 DEF Init, Agreed, RetriesCounted, AddsUp, Quiet, Settled, Kinds
  <1>2. Inv /\ Agreed /\ [Next]_vars => Agreed'
    <2>1. ASSUME Inv, Agreed, Next PROVE Agreed'
      <3>1. ASSUME NEW s \in Sites, NEW k \in Kinds, Task(s, k) \/ Kill(s, k) \/ Stop(s, k)
            PROVE  Agreed'
        BY <2>1, <3>1, JobStepAgrees, KillAgrees, EnqueueAgrees, LinkAgrees, UpdateSiteAgrees DEF Task
      <3>. QED BY <2>1, <3>1, CreateAgrees, CancelAgrees, RetryAgrees DEF Next
    <2>2. ASSUME Agreed, UNCHANGED vars PROVE Agreed'
      <3>1. RetriesCounted' /\ (NeverRetried' <=> NeverRetried)
        BY <2>2 DEF vars, Agreed, RetriesCounted, NeverRetried
      <3>2. AddsUp'
        BY <2>2, <3>1 DEF vars, Agreed, AddsUp, Refreshed, Statuses
      <3>3. \A s \in Sites : Settled(s)' <=> Settled(s)
        BY <2>2 DEF vars, Settled
      <3>4. Quiet'
        BY <2>2, <3>1, <3>3 DEF vars, Agreed, Quiet, NoneActive
      <3>. QED BY <3>1, <3>2, <3>4 DEF Agreed
    <2>. QED BY <2>1, <2>2
  <1>3. Agreed => BatchAgrees
    BY DEF Agreed, AddsUp, Quiet, NoneActive, Statuses, BatchAgrees
  <1>. QED BY <1>1, <1>2, <1>3, Inductive, PTL DEF Spec
==============================================================================
