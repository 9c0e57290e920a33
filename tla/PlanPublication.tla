--------------------------- MODULE PlanPublication ---------------------------
(***************************************************************************)
(* The publication worker: `_publish_approved_plans` of                    *)
(* app/tasks/publication.py with `apply_planned_edit` of the WordPress     *)
(* connector.  A worker is one running job; `pc` is where it stands:       *)
(*    idle    no job                    commit  written, about to commit   *)
(*    policy  expiring ineligible rows  stale   read by _handle_stale_plan *)
(*    next    between two plans         unbind  about to mark_stale        *)
(*    get     claimed, before the GET   charge  _record_attempt_failure    *)
(*    post    GET done, before the POST fail    read by _fail_plan         *)
(*                                      retire  about to fail the plan     *)
(* From `get` to `commit` one transaction holds the article's advisory     *)
(* lock, the plan row and the bound suggestion rows.                       *)
(***************************************************************************)
EXTENDS PlanStore

CONSTANTS
    Workers,        \* publication jobs that may run at the same time
    PublishScopes   \* what a queue request names: sets of plan ids

VARIABLE worker     \* worker -> [pc, scope, todo, cur, rows]

IdleWorker == [pc |-> "idle", scope |-> {}, todo |-> <<>>, cur |-> None, rows |-> {}]

WorkerPcs == {"idle", "policy", "next", "get", "post", "commit",
              "stale", "unbind", "charge", "fail", "retire"}
Holding == {"get", "post", "commit"}

WorkerTypeOK ==
    worker \in [Workers -> [pc : WorkerPcs, scope : SUBSET PlanIds, todo : Seq(PlanIds),
                            cur : PlanIds \cup {None}, rows : SUBSET Suggestions]]

WorkerInit == worker = [w \in Workers |-> IdleWorker]

GoTo(w, pc) == worker' = [worker EXCEPT ![w].pc = pc]

(* Fault budget: crashes, failed commits, lost bookkeeping. *)
Fault == faults < MaxFaults /\ faults' = faults + 1

------------------------------------------------------------------------------
(* The job starts: the rows the current policy rejects are read, unlocked. *)
WorkerBegin(w) ==
    /\ worker[w].pc = "idle"
    /\ \E scope \in PublishScopes :
          worker' = [worker EXCEPT ![w] =
                        [@ EXCEPT !.pc = "policy", !.scope = scope,
                                  !.rows = {s \in ineligible : sugg[s].status = "approved"}]]
    /\ UNCHANGED storeVars

(* Their flush is an UPDATE by primary key: it waits for the row locks and *)
(* then overwrites whatever status it finds.  The approved plans are       *)
(* loaded after it.                                                        *)
WorkerPolicy(w) ==
    /\ worker[w].pc = "policy"
    /\ \A s \in worker[w].rows : ~RowLocked(s)
    /\ sugg' = [s \in Suggestions |->
                   IF s \in worker[w].rows THEN [sugg[s] EXCEPT !.status = "expired"]
                   ELSE sugg[s]]
    /\ worker' = [worker EXCEPT ![w] =
                     [@ EXCEPT !.pc = "next", !.rows = {},
                        !.todo = SetToSortSeq({p \in worker[w].scope :
                                                  plan[p].status = "approved"}, <)]]
    /\ UNCHANGED <<plan, post, locked, ineligible, screen, signed, sent, late, served,
                   edits, faults>>

(* Mutant: no lock. *)
NoArticleLock(p) == TRUE

(* One publication per source article at a time: pg_advisory_xact_lock. *)
ArticleLockFree(p) ==
    \A q \in locked : plan[q].art.source # plan[p].art.source

AtPlan(w, p) ==
    /\ worker[w].pc = "next"
    /\ worker[w].todo # <<>>
    /\ p = Head(worker[w].todo)
    /\ ArticleLockFree(p)

(* Leave plan p with the given pc; the transaction is over. *)
LeavePlan(w, pc) ==
    worker' = [worker EXCEPT ![w] = [@ EXCEPT !.pc = pc, !.cur = None, !.rows = {}]]

Claimed(w, p, pc) ==
    worker' = [worker EXCEPT ![w] =
                  [@ EXCEPT !.pc = pc, !.todo = Tail(@), !.cur = p, !.rows = BoundTo(p)]]

(* Another worker finished the plan while this one waited for the lock. *)
WorkerSkip(w, p) ==
    /\ AtPlan(w, p)
    /\ plan[p].status # "approved"
    /\ worker' = [worker EXCEPT ![w].todo = Tail(@)]
    /\ UNCHANGED storeVars

(* Mutant: the bound rows are not looked at again. *)
RetiredUnchecked(p) == {}

Retired(p) == {s \in BoundTo(p) : sugg[s].status # "approved"}

(* A bound row is no longer approved: roll back, then _handle_stale_plan. *)
WorkerRetired(w, p) ==
    /\ AtPlan(w, p)
    /\ plan[p].status = "approved"
    /\ Retired(p) # {}
    /\ Claimed(w, p, "stale")
    /\ UNCHANGED storeVars

(* PlanIntegrityError: roll back, then _fail_plan. *)
WorkerRefuse(w, p) ==
    /\ AtPlan(w, p)
    /\ plan[p].status = "approved"
    /\ Retired(p) = {}
    /\ ~VerifyIntegrity(plan[p])
    /\ Claimed(w, p, "fail")
    /\ UNCHANGED storeVars

(* The plan is claimed and verified; the transaction stays open. *)
WorkerClaim(w, p) ==
    /\ AtPlan(w, p)
    /\ plan[p].status = "approved"
    /\ Retired(p) = {}
    /\ VerifyIntegrity(plan[p])
    /\ locked' = locked \cup {p}
    /\ Claimed(w, p, "get")
    /\ UNCHANGED <<sugg, plan, post, ineligible, screen, signed, sent, late, served,
                   edits, faults>>

------------------------------------------------------------------------------
Release(w) == locked' = locked \ {worker[w].cur}

(* apply_planned_edit reads the post, then compares. *)
WorkerGet(w) ==
    /\ worker[w].pc = "get"
    /\ LET art == plan[worker[w].cur].art
           live == post[art.source]
       IN  \/ /\ live = art.upd                       \* already_applied
              /\ GoTo(w, "commit")
              /\ UNCHANGED locked
           \/ /\ live # art.upd /\ live = art.orig    \* still what was approved
              /\ GoTo(w, "post")
              /\ UNCHANGED locked
           \/ /\ live \notin {art.upd, art.orig}      \* StalePlanError
              /\ GoTo(w, "stale")
              /\ Release(w)
    /\ UNCHANGED <<sugg, plan, post, ineligible, screen, signed, sent, late, served,
                   edits, faults>>

(* The GET fails: the only kind of failure, with the POST's, that counts   *)
(* against the suggestions.                                                *)
WorkerGetError(w) ==
    /\ worker[w].pc = "get"
    /\ GoTo(w, "charge")
    /\ Release(w)
    /\ UNCHANGED <<sugg, plan, post, ineligible, screen, signed, sent, late, served,
                   edits, faults>>

(* _post_content: the request carries the stored updated_html. *)
Request(w) == [plan |-> worker[w].cur, html |-> plan[worker[w].cur].art.upd]

WorkerPost(w) ==
    /\ worker[w].pc = "post"
    /\ sent' = sent \cup {Request(w)}
    /\ Save(plan[worker[w].cur].art.source, Request(w).html)
    /\ GoTo(w, "commit")
    /\ UNCHANGED <<sugg, plan, locked, ineligible, screen, signed, late, edits, faults>>

(* Mutant: a POST without an answer is taken for done. *)
PostErrorIgnored(w) ==
    /\ worker[w].pc = "post"
    /\ sent' = sent \cup {Request(w)}
    /\ late' = late \cup {Request(w)}
    /\ GoTo(w, "commit")
    /\ UNCHANGED <<sugg, plan, post, locked, ineligible, screen, signed, served, edits, faults>>

(* The POST fails or times out; WordPress may still carry it out later. *)
WorkerPostError(w) ==
    /\ worker[w].pc = "post"
    /\ sent' = sent \cup {Request(w)}
    /\ late' = late \cup {Request(w)}
    /\ GoTo(w, "charge")
    /\ Release(w)
    /\ UNCHANGED <<sugg, plan, post, ineligible, screen, signed, served, edits, faults>>

(* Every snapshotted row that is still bound becomes applied. *)
WorkerCommit(w) ==
    /\ worker[w].pc = "commit"
    /\ sugg' = [s \in Suggestions |->
                   IF s \in worker[w].rows \cap ItemIds(worker[w].cur)
                   THEN [sugg[s] EXCEPT !.status = "applied", !.attempts = 0]
                   ELSE sugg[s]]
    /\ plan' = [plan EXCEPT ![worker[w].cur].status = "applied"]
    /\ Release(w)
    /\ LeavePlan(w, "next")
    /\ UNCHANGED <<post, ineligible, screen, signed, sent, late, served, edits, faults>>

(* The commit fails: the plan is approved again, nothing is charged. *)
WorkerCommitFails(w) ==
    /\ worker[w].pc = "commit"
    /\ Fault
    /\ Release(w)
    /\ LeavePlan(w, "next")
    /\ UNCHANGED <<sugg, plan, post, ineligible, screen, signed, sent, late, served, edits>>

------------------------------------------------------------------------------
(* _handle_stale_plan reads the plan without a lock ... *)
WorkerStaleRead(w) ==
    /\ worker[w].pc = "stale"
    /\ IF plan[worker[w].cur].status = "approved" THEN GoTo(w, "unbind")
       ELSE LeavePlan(w, "next")
    /\ UNCHANGED storeVars

(* ... and mark_stale writes it by primary key, once the row is free. *)
WorkerMarkStale(w) ==
    /\ worker[w].pc = "unbind"
    /\ worker[w].cur \notin locked
    /\ plan' = [plan EXCEPT ![worker[w].cur].status = "stale"]
    /\ sugg' = [s \in Suggestions |->
                   IF s \in BoundTo(worker[w].cur) THEN [sugg[s] EXCEPT !.plan = None]
                   ELSE sugg[s]]
    /\ LeavePlan(w, "next")
    /\ UNCHANGED <<post, locked, ineligible, screen, signed, sent, late, served, edits, faults>>

(* Mutant: the failure is charged to nobody. *)
NobodyCharged(w) == {}

(* _record_attempt_failure: one more attempt for the rows still approved,  *)
(* quarantine at the limit; the plan fails once it has no row left to try. *)
Charged(w) == {s \in worker[w].rows : sugg[s].status = "approved"}
(* Mutant: off by one. *)
QuarantinedLate(w) == {s \in Charged(w) : sugg[s].attempts + 1 > MaxAttempts}

Quarantined(w) == {s \in Charged(w) : sugg[s].attempts + 1 >= MaxAttempts}

WorkerCharge(w) ==
    /\ worker[w].pc = "charge"
    /\ \A s \in worker[w].rows : ~RowLocked(s)
    /\ sugg' = [s \in Suggestions |->
                   IF s \in Charged(w)
                   THEN [sugg[s] EXCEPT !.attempts = @ + 1,
                            !.status = IF s \in Quarantined(w) THEN "failed" ELSE @]
                   ELSE sugg[s]]
    /\ IF worker[w].rows # {} /\ Quarantined(w) = worker[w].rows
       THEN GoTo(w, "fail") ELSE LeavePlan(w, "next")
    /\ UNCHANGED <<plan, post, locked, ineligible, screen, signed, sent, late, served,
                   edits, faults>>

(* The bookkeeping transaction itself fails: it is rolled back and the     *)
(* worker goes on; the plan stays approved for the next run.               *)
WorkerBookkeepingLost(w) ==
    /\ worker[w].pc \in {"charge", "unbind", "retire"}
    /\ Fault
    /\ LeavePlan(w, "next")
    /\ UNCHANGED <<sugg, plan, post, locked, ineligible, screen, signed, sent, late, served,
                   edits>>

(* _fail_plan: the same unlocked read ... *)
WorkerFailRead(w) ==
    /\ worker[w].pc = "fail"
    /\ IF plan[worker[w].cur].status = "approved" THEN GoTo(w, "retire")
       ELSE LeavePlan(w, "next")
    /\ UNCHANGED storeVars

(* ... and write, which keeps the bound rows' links for the audit trail. *)
WorkerFailPlan(w) ==
    /\ worker[w].pc = "retire"
    /\ worker[w].cur \notin locked
    /\ plan' = [plan EXCEPT ![worker[w].cur].status = "failed"]
    /\ sugg' = [s \in Suggestions |->
                   IF s \in BoundTo(worker[w].cur) THEN [sugg[s] EXCEPT !.status = "failed"]
                   ELSE sugg[s]]
    /\ LeavePlan(w, "next")
    /\ UNCHANGED <<post, locked, ineligible, screen, signed, sent, late, served, edits, faults>>

(* The batch is done: the job returns, or raises for RQ to retry it. *)
WorkerFinish(w) ==
    /\ worker[w].pc = "next"
    /\ worker[w].todo = <<>>
    /\ worker' = [worker EXCEPT ![w] = IdleWorker]
    /\ UNCHANGED storeVars

(* The work horse dies anywhere: its transaction rolls back, its locks go. *)
(* A POST under way may have left the process.                             *)
WorkerCrash(w) ==
    /\ worker[w].pc # "idle"
    /\ Fault
    /\ IF worker[w].pc \in Holding THEN Release(w) ELSE UNCHANGED locked
    /\ \/ UNCHANGED <<sent, late>>
       \/ /\ worker[w].pc = "post"
          /\ sent' = sent \cup {Request(w)}
          /\ late' = late \cup {Request(w)}
    /\ worker' = [worker EXCEPT ![w] = IdleWorker]
    /\ UNCHANGED <<sugg, plan, post, ineligible, screen, signed, served, edits>>

------------------------------------------------------------------------------
(* What a running job does by itself, network errors included. *)
WorkerStep(w) ==
    \/ WorkerBegin(w) \/ WorkerPolicy(w) \/ WorkerFinish(w)
    \/ \E p \in PlanIds : \/ WorkerSkip(w, p) \/ WorkerRetired(w, p)
                          \/ WorkerRefuse(w, p) \/ WorkerClaim(w, p)
    \/ WorkerGet(w) \/ WorkerGetError(w) \/ WorkerPost(w) \/ WorkerPostError(w)
    \/ WorkerCommit(w) \/ WorkerStaleRead(w) \/ WorkerMarkStale(w)
    \/ WorkerCharge(w) \/ WorkerFailRead(w) \/ WorkerFailPlan(w)

(* What can go wrong around it. *)
WorkerFault(w) == WorkerCommitFails(w) \/ WorkerBookkeepingLost(w) \/ WorkerCrash(w)
==============================================================================
