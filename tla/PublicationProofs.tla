-------------------------- MODULE PublicationProofs --------------------------
(***************************************************************************)
(* Nothing but approved bytes reaches WordPress, for any number of         *)
(* suggestions, articles, plans, workers, preparers and editors.           *)
(***************************************************************************)
EXTENDS PublicationSystem, FiniteSetTheorems, SequenceTheorems, TLAPS

(* As much of the types as the argument needs: which functions and which   *)
(* fields there are.  Artifacts themselves stay arbitrary, since they come *)
(* out of a fold.                                                          *)
Shape ==
    /\ DOMAIN plan = PlanIds /\ DOMAIN signed = PlanIds /\ DOMAIN worker = Workers
    /\ \A p \in PlanIds : DOMAIN plan[p] = {"status", "art", "hash", "approvedHash"}
    /\ \A w \in Workers : DOMAIN worker[w] = {"pc", "scope", "todo", "cur", "rows"}
    /\ locked \subseteq PlanIds

(* Every POST so far belongs to a plan that left preparation, and carried  *)
(* what was approved for it.                                               *)
SentOK ==
    /\ \A m \in sent : m.plan \in PlanIds
    /\ ApprovedBytesOnly

Inv == Shape /\ Custody /\ SentOK

LEMMA InitInv == Init => Inv
  <1> SUFFICES ASSUME Init PROVE Inv
    OBVIOUS
  <1> USE DEF Init, StoreInit, WorkerInit
  <1>1. Shape
    BY DEF Shape, AbsentPlan, IdleWorker
  <1>2. Custody
    BY DEF Custody, AbsentPlan, IdleWorker, Holding
  <1>3. SentOK
    BY DEF SentOK, ApprovedBytesOnly
  <1>. QED BY <1>1, <1>2, <1>3 DEF Inv

------------------------------------------------------------------------------
(* Where a worker stands after the three ways of moving it.                *)
LEMMA GoToFact ==
    ASSUME Shape, NEW w \in Workers, NEW pc, GoTo(w, pc)
    PROVE  /\ DOMAIN worker' = Workers
           /\ \A v \in Workers : DOMAIN worker'[v] = {"pc", "scope", "todo", "cur", "rows"}
           /\ worker'[w].pc = pc /\ worker'[w].cur = worker[w].cur
           /\ \A v \in Workers : v # w => worker'[v] = worker[v]
BY DEF Shape, GoTo

LEMMA LeaveFact ==
    ASSUME Shape, NEW w \in Workers, NEW pc, LeavePlan(w, pc)
    PROVE  /\ DOMAIN worker' = Workers
           /\ \A v \in Workers : DOMAIN worker'[v] = {"pc", "scope", "todo", "cur", "rows"}
           /\ worker'[w].pc = pc
           /\ \A v \in Workers : v # w => worker'[v] = worker[v]
BY DEF Shape, LeavePlan

LEMMA ClaimedFact ==
    ASSUME Shape, NEW w \in Workers, NEW p, NEW pc, Claimed(w, p, pc)
    PROVE  /\ DOMAIN worker' = Workers
           /\ \A v \in Workers : DOMAIN worker'[v] = {"pc", "scope", "todo", "cur", "rows"}
           /\ worker'[w].pc = pc /\ worker'[w].cur = p
           /\ \A v \in Workers : v # w => worker'[v] = worker[v]
BY DEF Shape, Claimed

WorkerShape ==
    /\ DOMAIN worker = Workers
    /\ \A v \in Workers : DOMAIN worker[v] = {"pc", "scope", "todo", "cur", "rows"}

(* A step that writes no plan, signature, lock or POST, and in which no    *)
(* worker comes to hold a plan.                                            *)
LEMMA QuietStep ==
    ASSUME Inv, UNCHANGED <<plan, signed, locked, sent>>, WorkerShape',
           \A v \in Workers : worker'[v].pc \in Holding =>
               worker[v].pc \in Holding /\ worker'[v].cur = worker[v].cur
    PROVE  Inv'
  <1>1. Shape'
    BY DEF Inv, Shape, WorkerShape
  <1>2. Custody'
    BY DEF Inv, Custody
  <1>3. SentOK'
    BY DEF Inv, SentOK, ApprovedBytesOnly
  <1>. QED BY <1>1, <1>2, <1>3 DEF Inv

(* A step in which worker w gives up its plan, possibly after a POST whose *)
(* answer it never saw; the plan rows are as before.                       *)
LEMMA ReleaseStep ==
    ASSUME Inv, NEW w \in Workers, worker[w].pc \in Holding, Release(w),
           UNCHANGED <<plan, signed>>, WorkerShape',
           worker'[w].pc \notin Holding,
           \A v \in Workers : v # w => worker'[v] = worker[v],
           sent' = sent \/ sent' = sent \cup {Request(w)}
    PROVE  Inv'
  <1>1. worker[w].cur \in locked /\ worker[w].cur \in PlanIds
    BY DEF Inv, Custody, Shape
  <1>2. Shape'
    BY DEF Inv, Shape, WorkerShape, Release
  <1>3. Custody'
    BY <1>1 DEF Inv, Custody, Release
  <1>4. SentOK'
    BY <1>1 DEF Inv, SentOK, ApprovedBytesOnly, Custody, Request, Hash
  <1>. QED BY <1>2, <1>3, <1>4 DEF Inv

------------------------------------------------------------------------------
LEMMA WorkerInv ==
    ASSUME Inv, NEW w \in Workers, WorkerStep(w) \/ WorkerFault(w)
    PROVE  Inv'
  <1>s. Shape
    BY DEF Inv
  <1>1. CASE WorkerBegin(w)
    <2>1. PICK scope \in PublishScopes :
              worker' = [worker EXCEPT ![w] =
                            [@ EXCEPT !.pc = "policy", !.scope = scope,
                                !.rows = {s \in ineligible : sugg[s].status = "approved"}]]
      BY <1>1 DEF WorkerBegin
    <2>2. WorkerShape' /\ \A v \in Workers : worker'[v].pc \in Holding =>
                              worker[v].pc \in Holding /\ worker'[v].cur = worker[v].cur
      BY <1>s, <2>1 DEF Shape, WorkerShape, Holding
    <2>. QED BY <1>1, <2>2, QuietStep DEF WorkerBegin, storeVars
  <1>2. CASE WorkerPolicy(w)
    <2> DEFINE load == SetToSortSeq({p \in worker[w].scope : plan[p].status = "approved"}, <)
    <2>1. worker' = [worker EXCEPT ![w] =
                        [@ EXCEPT !.pc = "next", !.rows = {}, !.todo = load]]
      BY <1>2 DEF WorkerPolicy
    <2>. HIDE DEF load
    <2>2. WorkerShape' /\ \A v \in Workers : worker'[v].pc \in Holding =>
                              worker[v].pc \in Holding /\ worker'[v].cur = worker[v].cur
      BY <1>s, <2>1 DEF Shape, WorkerShape, Holding
    <2>. QED BY <1>2, <2>2, QuietStep DEF WorkerPolicy
  <1>3. CASE WorkerFinish(w)
    <2>1. WorkerShape' /\ \A v \in Workers : worker'[v].pc \in Holding =>
                              worker[v].pc \in Holding /\ worker'[v].cur = worker[v].cur
      BY <1>3, <1>s DEF WorkerFinish, IdleWorker, Shape, WorkerShape, Holding
    <2>. QED BY <1>3, <2>1, QuietStep DEF WorkerFinish, storeVars
  <1>4. ASSUME NEW p \in PlanIds, WorkerSkip(w, p) PROVE Inv'
    <2>1. worker' = [worker EXCEPT ![w].todo = Tail(@)]
      BY <1>4 DEF WorkerSkip
    <2>2. WorkerShape' /\ \A v \in Workers : worker'[v].pc \in Holding =>
                              worker[v].pc \in Holding /\ worker'[v].cur = worker[v].cur
      BY <1>s, <2>1 DEF Shape, WorkerShape, Holding
    <2>. QED BY <1>4, <2>2, QuietStep DEF WorkerSkip, storeVars
  <1>5. ASSUME NEW p \in PlanIds, WorkerRetired(w, p) \/ WorkerRefuse(w, p) PROVE Inv'
    <2>1. Claimed(w, p, "stale") \/ Claimed(w, p, "fail")
      BY <1>5 DEF WorkerRetired, WorkerRefuse
    <2>2. UNCHANGED storeVars
      BY <1>5 DEF WorkerRetired, WorkerRefuse
    <2>3. WorkerShape' /\ \A v \in Workers : worker'[v].pc \in Holding =>
                              worker[v].pc \in Holding /\ worker'[v].cur = worker[v].cur
      BY <1>s, <2>1, ClaimedFact DEF WorkerShape, Holding
    <2>. QED BY <2>2, <2>3, QuietStep DEF storeVars
  <1>6. ASSUME NEW p \in PlanIds, WorkerClaim(w, p) PROVE Inv'
    <2>1. /\ plan[p].status = "approved" /\ VerifyIntegrity(plan[p])
          /\ locked' = locked \cup {p} /\ ArticleLockFree(p)
          /\ UNCHANGED <<plan, signed, sent>>
          /\ worker[w].pc = "next"
      BY <1>6 DEF WorkerClaim, AtPlan
    <2>2. /\ WorkerShape' /\ worker'[w].cur = p
          /\ \A v \in Workers : v # w => worker'[v] = worker[v]
      BY <1>6, <1>s, ClaimedFact DEF WorkerClaim, WorkerShape
    <2>3. p \notin locked /\ \A q \in locked : plan[q].art.source # plan[p].art.source
      BY <2>1 DEF ArticleLockFree
    <2>4. signed[p] = {Hash(plan[p].art)}
      BY <2>1 DEF Inv, Custody, VerifyIntegrity
    <2>5. Shape'
      BY <2>1, <2>2 DEF Inv, Shape, WorkerShape
    <2>6. Custody'
      BY <2>1, <2>2, <2>3, <2>4 DEF Inv, Custody
    <2>7. SentOK'
      BY <2>1 DEF Inv, SentOK, ApprovedBytesOnly
    <2>. QED BY <2>5, <2>6, <2>7 DEF Inv
  <1>7. CASE WorkerGet(w)
    <2>1. /\ worker[w].pc \in Holding /\ UNCHANGED <<plan, signed, sent>>
          /\ \/ GoTo(w, "commit") /\ UNCHANGED locked
             \/ GoTo(w, "post") /\ UNCHANGED locked
             \/ GoTo(w, "stale") /\ Release(w)
      BY <1>7 DEF WorkerGet, Holding
    <2>2. CASE GoTo(w, "commit") /\ UNCHANGED locked
      BY <1>s, <2>1, <2>2, GoToFact, QuietStep DEF WorkerShape
    <2>3. CASE GoTo(w, "post") /\ UNCHANGED locked
      BY <1>s, <2>1, <2>3, GoToFact, QuietStep DEF WorkerShape
    <2>4. CASE GoTo(w, "stale") /\ Release(w)
      BY <1>s, <2>1, <2>4, GoToFact, ReleaseStep DEF WorkerShape, Holding
    <2>. QED BY <2>1, <2>2, <2>3, <2>4
  <1>8. CASE WorkerGetError(w)
    <2>1. /\ worker[w].pc \in Holding /\ UNCHANGED <<plan, signed, sent>>
          /\ GoTo(w, "charge") /\ Release(w)
      BY <1>8 DEF WorkerGetError, Holding
    <2>. QED BY <1>s, <2>1, GoToFact, ReleaseStep DEF WorkerShape, Holding
  <1>9. CASE WorkerPost(w)
    <2>1. /\ worker[w].pc \in Holding /\ UNCHANGED <<plan, signed, locked>>
          /\ GoTo(w, "commit") /\ sent' = sent \cup {Request(w)}
      BY <1>9 DEF WorkerPost, Holding
    <2>2. worker[w].cur \in locked /\ worker[w].cur \in PlanIds
      BY <2>1 DEF Inv, Custody, Shape
    <2>3. /\ WorkerShape' /\ worker'[w].cur = worker[w].cur
          /\ \A v \in Workers : v # w => worker'[v] = worker[v]
      BY <1>s, <2>1, GoToFact DEF WorkerShape
    <2>4. Shape'
      BY <2>1, <2>3 DEF Inv, Shape, WorkerShape
    <2>5. Custody'
      BY <2>1, <2>3 DEF Inv, Custody
    <2>6. SentOK'
      BY <2>1, <2>2 DEF Inv, SentOK, ApprovedBytesOnly, Custody, Request, Hash
    <2>. QED BY <2>4, <2>5, <2>6 DEF Inv
  <1>10. CASE WorkerPostError(w)
    <2>1. /\ worker[w].pc \in Holding /\ UNCHANGED <<plan, signed>>
          /\ GoTo(w, "charge") /\ Release(w) /\ sent' = sent \cup {Request(w)}
      BY <1>10 DEF WorkerPostError, Holding
    <2>. QED BY <1>s, <2>1, GoToFact, ReleaseStep DEF WorkerShape, Holding
  <1>11. CASE WorkerCommit(w)
    <2> DEFINE c == worker[w].cur
    <2>1. /\ worker[w].pc \in Holding /\ UNCHANGED <<signed, sent>>
          /\ plan' = [plan EXCEPT ![c].status = "applied"]
          /\ locked' = locked \ {c} /\ LeavePlan(w, "next")
      BY <1>11 DEF WorkerCommit, Holding, Release
    <2>2. c \in locked /\ c \in PlanIds
      BY <2>1 DEF Inv, Custody, Shape
    <2>3. /\ WorkerShape' /\ worker'[w].pc \notin Holding
          /\ \A v \in Workers : v # w => worker'[v] = worker[v]
      BY <1>s, <2>1, LeaveFact DEF WorkerShape, Holding
    <2>4. /\ DOMAIN plan' = PlanIds
          /\ \A p \in PlanIds : p # c => plan'[p] = plan[p]
          /\ plan'[c].status = "applied" /\ plan'[c].approvedHash = plan[c].approvedHash
          /\ DOMAIN plan'[c] = DOMAIN plan[c]
      BY <1>s, <2>1, <2>2 DEF Shape
    <2>5. Shape'
      BY <2>1, <2>2, <2>3, <2>4 DEF Inv, Shape, WorkerShape
    <2>6. \A v \in Workers : v # w /\ worker[v].pc \in Holding => worker[v].cur # c
      BY <2>1 DEF Inv, Custody
    <2>7. Custody'
      BY <1>s, <2>1, <2>2, <2>3, <2>4, <2>6 DEF Inv, Custody, Shape
    <2>8. SentOK'
      BY <2>1 DEF Inv, SentOK, ApprovedBytesOnly
    <2>. QED BY <2>5, <2>7, <2>8 DEF Inv
  <1>12. CASE WorkerStaleRead(w) \/ WorkerFailRead(w)
    <2>1. /\ UNCHANGED storeVars
          /\ GoTo(w, "unbind") \/ GoTo(w, "retire") \/ LeavePlan(w, "next")
      BY <1>12 DEF WorkerStaleRead, WorkerFailRead
    <2>2. WorkerShape' /\ \A v \in Workers : worker'[v].pc \in Holding =>
                              worker[v].pc \in Holding /\ worker'[v].cur = worker[v].cur
      BY <1>s, <2>1, GoToFact, LeaveFact DEF WorkerShape, Holding
    <2>. QED BY <2>1, <2>2, QuietStep DEF storeVars
  <1>13. CASE WorkerMarkStale(w) \/ WorkerFailPlan(w)
    <2> DEFINE c == worker[w].cur
    <2>1. /\ c \notin locked /\ UNCHANGED <<locked, signed, sent>> /\ LeavePlan(w, "next")
          /\ \/ plan' = [plan EXCEPT ![c].status = "stale"]
             \/ plan' = [plan EXCEPT ![c].status = "failed"]
      BY <1>13 DEF WorkerMarkStale, WorkerFailPlan
    <2>2. /\ WorkerShape' /\ worker'[w].pc \notin Holding
          /\ \A v \in Workers : v # w => worker'[v] = worker[v]
      BY <1>s, <2>1, LeaveFact DEF WorkerShape, Holding
    <2>3. /\ DOMAIN plan' = PlanIds
          /\ \A p \in PlanIds : p # c => plan'[p] = plan[p]
          /\ c \in PlanIds => /\ plan'[c].status \in {"stale", "failed"}
                              /\ plan'[c].approvedHash = plan[c].approvedHash
                              /\ DOMAIN plan'[c] = DOMAIN plan[c]
      BY <1>s, <2>1 DEF Shape
    <2>4. Shape'
      BY <2>1, <2>2, <2>3 DEF Inv, Shape, WorkerShape
    <2>5. Custody'
      BY <1>s, <2>1, <2>2, <2>3 DEF Inv, Custody, Shape
    <2>6. SentOK'
      BY <2>1 DEF Inv, SentOK, ApprovedBytesOnly
    <2>. QED BY <2>4, <2>5, <2>6 DEF Inv
  <1>14. CASE WorkerCharge(w)
    <2>1. /\ UNCHANGED <<plan, signed, locked, sent>>
          /\ GoTo(w, "fail") \/ LeavePlan(w, "next")
      BY <1>14 DEF WorkerCharge
    <2>2. WorkerShape' /\ \A v \in Workers : worker'[v].pc \in Holding =>
                              worker[v].pc \in Holding /\ worker'[v].cur = worker[v].cur
      BY <1>s, <2>1, GoToFact, LeaveFact DEF WorkerShape, Holding
    <2>. QED BY <2>1, <2>2, QuietStep
  <1>15. CASE WorkerCommitFails(w)
    <2>1. /\ worker[w].pc \in Holding /\ UNCHANGED <<plan, signed, sent>>
          /\ Release(w) /\ LeavePlan(w, "next")
      BY <1>15 DEF WorkerCommitFails, Holding
    <2>. QED BY <1>s, <2>1, LeaveFact, ReleaseStep DEF WorkerShape, Holding
  <1>16. CASE WorkerBookkeepingLost(w)
    <2>1. UNCHANGED <<plan, signed, locked, sent>> /\ LeavePlan(w, "next")
      BY <1>16 DEF WorkerBookkeepingLost
    <2>2. WorkerShape' /\ \A v \in Workers : worker'[v].pc \in Holding =>
                              worker[v].pc \in Holding /\ worker'[v].cur = worker[v].cur
      BY <1>s, <2>1, LeaveFact DEF WorkerShape, Holding
    <2>. QED BY <2>1, <2>2, QuietStep
  <1>17. CASE WorkerCrash(w)
    <2>1. /\ worker' = [worker EXCEPT ![w] = IdleWorker] /\ UNCHANGED <<plan, signed>>
          /\ sent' = sent \/ (worker[w].pc = "post" /\ sent' = sent \cup {Request(w)})
      BY <1>17 DEF WorkerCrash
    <2>2. /\ WorkerShape' /\ worker'[w].pc = "idle"
          /\ \A v \in Workers : v # w => worker'[v] = worker[v]
      BY <1>s, <2>1 DEF Shape, WorkerShape, IdleWorker
    <2>3. CASE worker[w].pc \in Holding
      <3>1. Release(w)
        BY <1>17, <2>3 DEF WorkerCrash
      <3>. QED BY <2>1, <2>2, <2>3, <3>1, ReleaseStep DEF Holding
    <2>4. CASE worker[w].pc \notin Holding
      <3>1. locked' = locked /\ sent' = sent
        BY <1>17, <2>1, <2>4 DEF WorkerCrash, Holding
      <3>. QED BY <2>1, <2>2, <3>1, QuietStep DEF Holding
    <2>. QED BY <2>3, <2>4
  <1>. QED
    BY <1>1, <1>2, <1>3, <1>4, <1>5, <1>6, <1>7, <1>8, <1>9, <1>10, <1>11, <1>12, <1>13,
       <1>14, <1>15, <1>16, <1>17
    DEF WorkerStep, WorkerFault

------------------------------------------------------------------------------
(* A step that leaves the workers, the locks and the POSTs alone and       *)
(* touches only plans that are not locked.                                 *)
LEMMA PlanWriteStep ==
    ASSUME Inv, UNCHANGED <<worker, locked, sent>>,
           DOMAIN plan' = PlanIds, DOMAIN signed' = PlanIds,
           \A p \in PlanIds :
               /\ DOMAIN plan'[p] = {"status", "art", "hash", "approvedHash"}
               /\ plan'[p].approvedHash = signed'[p]
               /\ plan'[p].status = "approved" => signed'[p] # {}
               /\ plan'[p].status \in {"absent", "prepared"} => signed'[p] = {}
               /\ p \in locked => plan'[p] = plan[p]
               /\ signed[p] # {} => signed'[p] = signed[p]
    PROVE  Inv'
  <1>1. Shape'
    BY DEF Inv, Shape
  <1>2. locked \subseteq PlanIds
    BY DEF Inv, Shape
  <1>3. \A p \in locked : plan'[p] = plan[p] /\ signed'[p] = signed[p]
    BY <1>2 DEF Inv, Custody
  <1>4. Custody'
    BY <1>2, <1>3 DEF Inv, Custody
  <1>5. SentOK'
    BY DEF Inv, SentOK, ApprovedBytesOnly
  <1>. QED BY <1>1, <1>4, <1>5 DEF Inv

LEMMA PreparerInv ==
    ASSUME Inv, NEW r \in Preparers, Preparer(r)
    PROVE  Inv'
  <1>1. UNCHANGED <<worker, signed, locked, sent>>
    BY DEF Preparer, PrepStep, PrepStart, PrepPreview, PrepSkip, PrepReread, PrepDiscard,
           PrepReuse, PrepStore, storeVars
  <1>2. CASE UNCHANGED plan
    BY <1>1, <1>2, QuietStep DEF Inv, Shape, WorkerShape
  <1>3. CASE PrepStore(r) /\ plan' # plan
    <2>1. PICK q \in PlanIds :
              /\ IsNextPlanId(q)
              /\ plan' = [p \in PlanIds |->
                     CASE p = q -> [status |-> "prepared", art |-> prep[r].art,
                                    hash |-> Hash(prep[r].art), approvedHash |-> {}]
                       [] p \in Existing(r) -> [plan[p] EXCEPT !.status = "superseded"]
                       [] OTHER -> plan[p]]
      BY <1>3 DEF PrepStore
    <2>2. plan[q].status = "absent"
      BY <2>1 DEF IsNextPlanId, FreePlanIds
    <2>3. q \notin locked /\ signed[q] = {}
      BY <2>2 DEF Inv, Custody
    <2>4. \A p \in Existing(r) : p \notin locked /\ plan[p].status # "absent"
      BY <1>3 DEF PrepStore, Granted, Existing, ActivePlans, ACTIVE_PLAN_STATUSES
    <2>5. \A p \in PlanIds : p \notin Existing(r) /\ p # q => plan'[p] = plan[p]
      BY <2>1
    <2>6. /\ plan'[q].status = "prepared" /\ plan'[q].approvedHash = {}
          /\ DOMAIN plan'[q] = {"status", "art", "hash", "approvedHash"}
      <3> DEFINE new == [status |-> "prepared", art |-> prep[r].art,
                         hash |-> Hash(prep[r].art), approvedHash |-> {}]
      <3>1. q \notin Existing(r)
        BY <2>2, <2>4
      <3>2. plan'[q] = new
        BY <2>1, <3>1
      <3>3. /\ new.status = "prepared" /\ new.approvedHash = {}
            /\ DOMAIN new = {"status", "art", "hash", "approvedHash"}
        OBVIOUS
      <3>. QED BY <3>2, <3>3
    <2>7. \A p \in PlanIds : p \in Existing(r) /\ p # q =>
              plan'[p] = [plan[p] EXCEPT !.status = "superseded"]
      BY <2>1
    <2>8. \A p \in PlanIds : p \in Existing(r) /\ p # q =>
              /\ plan'[p].status = "superseded"
              /\ plan'[p].approvedHash = plan[p].approvedHash
              /\ DOMAIN plan'[p] = {"status", "art", "hash", "approvedHash"}
      BY <2>7 DEF Inv, Shape
    <2>9. \A p \in PlanIds :
              /\ DOMAIN plan'[p] = {"status", "art", "hash", "approvedHash"}
              /\ plan'[p].approvedHash = signed[p]
              /\ plan'[p].status = "approved" => signed[p] # {}
              /\ plan'[p].status \in {"absent", "prepared"} => signed[p] = {}
              /\ p \in locked => plan'[p] = plan[p]
      <3> SUFFICES ASSUME NEW p \in PlanIds
                   PROVE  /\ DOMAIN plan'[p] = {"status", "art", "hash", "approvedHash"}
                          /\ plan'[p].approvedHash = signed[p]
                          /\ plan'[p].status = "approved" => signed[p] # {}
                          /\ plan'[p].status \in {"absent", "prepared"} => signed[p] = {}
                          /\ p \in locked => plan'[p] = plan[p]
        OBVIOUS
      <3>1. CASE p = q
        BY <3>1, <2>3, <2>6
      <3>2. CASE p # q /\ p \in Existing(r)
        BY <3>2, <2>4, <2>8 DEF Inv, Custody
      <3>3. CASE p # q /\ p \notin Existing(r)
        BY <3>3, <2>5 DEF Inv, Shape, Custody
      <3>. QED BY <3>1, <3>2, <3>3
    <2>10. DOMAIN plan' = PlanIds /\ DOMAIN signed = PlanIds
      BY <2>1 DEF Inv, Shape
    <2>. QED BY <1>1, <2>9, <2>10, PlanWriteStep
  <1>. QED
    BY <1>2, <1>3 DEF Preparer, PrepStep, PrepStart, PrepPreview, PrepSkip, PrepReread,
                      PrepDiscard, PrepReuse, storeVars

LEMMA OperatorInv ==
    ASSUME Inv, Operator
    PROVE  Inv'
  <1>1. ASSUME NEW p \in PlanIds, ViewPlan(p) PROVE Inv'
    <2>1. UNCHANGED <<plan, signed, locked, sent, worker>>
      BY <1>1 DEF ViewPlan, Operator
    <2>. QED BY <2>1, QuietStep DEF Inv, Shape, WorkerShape
  <1>2. ASSUME NEW named \in SUBSET PlanIds, Approve(named) PROVE Inv'
    <2>1. \A p \in named : /\ p \notin locked /\ plan[p].status = "prepared"
                           /\ plan[p].hash = screen[p]
      BY <1>2 DEF Approve, Approvable
    <2>2. \A p \in named : signed[p] = {}
      BY <2>1 DEF Inv, Custody
    <2>3. /\ plan' = [p \in PlanIds |->
                   IF p \in named
                   THEN [plan[p] EXCEPT !.status = "approved", !.approvedHash = {plan[p].hash}]
                   ELSE plan[p]]
          /\ signed' = [p \in PlanIds |-> IF p \in named THEN signed[p] \cup {screen[p]}
                                          ELSE signed[p]]
          /\ UNCHANGED <<locked, sent, worker>>
      BY <1>2 DEF Approve, Operator
    <2>4. \A p \in named : /\ plan'[p].status = "approved"
                           /\ plan'[p].approvedHash = {plan[p].hash}
                           /\ DOMAIN plan'[p] = {"status", "art", "hash", "approvedHash"}
                           /\ signed'[p] = {plan[p].hash}
      BY <2>1, <2>2, <2>3 DEF Inv, Shape
    <2>5. \A p \in PlanIds : p \notin named => plan'[p] = plan[p] /\ signed'[p] = signed[p]
      BY <2>3
    <2>6. \A p \in PlanIds :
              /\ DOMAIN plan'[p] = {"status", "art", "hash", "approvedHash"}
              /\ plan'[p].approvedHash = signed'[p]
              /\ plan'[p].status = "approved" => signed'[p] # {}
              /\ plan'[p].status \in {"absent", "prepared"} => signed'[p] = {}
              /\ p \in locked => plan'[p] = plan[p]
              /\ signed[p] # {} => signed'[p] = signed[p]
      <3> SUFFICES ASSUME NEW p \in PlanIds
                   PROVE  /\ DOMAIN plan'[p] = {"status", "art", "hash", "approvedHash"}
                          /\ plan'[p].approvedHash = signed'[p]
                          /\ plan'[p].status = "approved" => signed'[p] # {}
                          /\ plan'[p].status \in {"absent", "prepared"} => signed'[p] = {}
                          /\ p \in locked => plan'[p] = plan[p]
                          /\ signed[p] # {} => signed'[p] = signed[p]
        OBVIOUS
      <3>1. CASE p \in named
        BY <3>1, <2>1, <2>2, <2>4
      <3>2. CASE p \notin named
        BY <3>2, <2>5 DEF Inv, Shape, Custody
      <3>. QED BY <3>1, <3>2
    <2>7. DOMAIN plan' = PlanIds /\ DOMAIN signed' = PlanIds
      BY <2>3
    <2>. QED BY <2>3, <2>6, <2>7, PlanWriteStep
  <1>. QED BY <1>1, <1>2 DEF Operator

LEMMA EditorInv ==
    ASSUME Inv, Editor
    PROVE  Inv'
  <1>1. UNCHANGED <<plan, signed, locked, sent, worker>>
    BY DEF Editor, ReviewStep, Review, ReviewBegin, ReviewEnd, FilterReview, Undo, PolicyRead,
           PolicyWrite, Retire, OnlySuggestions, storeVars
  <1>. QED BY <1>1, QuietStep DEF Inv, Shape, WorkerShape

LEMMA OutsideInv ==
    ASSUME Inv, Outside
    PROVE  Inv'
  <1>1. ASSUME NEW p \in PlanIds, NEW content, NEW rehash \in BOOLEAN, Tamper(p, content, rehash)
        PROVE  Inv'
    <2> DEFINE art == [plan[p].art EXCEPT !.upd = content]
               hash == IF rehash THEN Hash(art) ELSE plan[p].hash
    <2>1. /\ p \notin locked /\ UNCHANGED <<signed, locked, sent, worker>>
          /\ plan' = [plan EXCEPT ![p].art = art, ![p].hash = hash]
      BY <1>1 DEF Tamper, Outside
    <2>. HIDE DEF art, hash
    <2>2. /\ DOMAIN plan' = PlanIds /\ DOMAIN signed' = PlanIds
          /\ \A q \in PlanIds : q # p => plan'[q] = plan[q]
          /\ plan'[p].status = plan[p].status /\ plan'[p].approvedHash = plan[p].approvedHash
          /\ DOMAIN plan'[p] = {"status", "art", "hash", "approvedHash"}
      BY <2>1 DEF Inv, Shape
    <2>3. \A q \in PlanIds :
              /\ DOMAIN plan'[q] = {"status", "art", "hash", "approvedHash"}
              /\ plan'[q].approvedHash = signed'[q]
              /\ plan'[q].status = "approved" => signed'[q] # {}
              /\ plan'[q].status \in {"absent", "prepared"} => signed'[q] = {}
              /\ q \in locked => plan'[q] = plan[q]
      BY <2>1, <2>2 DEF Inv, Shape, Custody
    <2>. QED BY <2>1, <2>2, <2>3, PlanWriteStep
  <1>2. ASSUME UNCHANGED plan PROVE Inv'
    <2>1. UNCHANGED <<signed, locked, sent, worker>>
      BY DEF Outside, HumanEdit, LateEffect, Tamper
    <2>. QED BY <1>2, <2>1, QuietStep DEF Inv, Shape, WorkerShape
  <1>. QED BY <1>1, <1>2 DEF Outside, HumanEdit, LateEffect

LEMMA NextInv == Inv /\ [Next]_vars => Inv'
  <1> SUFFICES ASSUME Inv, [Next]_vars PROVE Inv'
    OBVIOUS
  <1>1. ASSUME NEW w \in Workers, Worker(w) PROVE Inv'
    BY <1>1, WorkerInv DEF Worker
  <1>2. CASE UNCHANGED vars
    BY <1>2, QuietStep DEF vars, storeVars, Inv, Shape, WorkerShape
  <1>. QED
    BY <1>1, <1>2, PreparerInv, OperatorInv, EditorInv, OutsideInv DEF Next

------------------------------------------------------------------------------
(* Custody is an invariant: approved_hash is what was signed, and what an  *)
(* open publication holds is locked, approved, untampered and its own.     *)
THEOREM CustodyHolds == Spec => []Custody
  <1>1. Inv => Custody BY DEF Inv
  <1>. QED BY InitInv, NextInv, <1>1, PTL DEF Spec

(* Every POST of every worker carries the bytes a named human approved,    *)
(* whatever is edited, tampered with, retried, raced or crashed meanwhile. *)
THEOREM OnlyApprovedBytesArePosted == Spec => []ApprovedBytesOnly
  <1>1. Inv => ApprovedBytesOnly BY DEF Inv, SentOK
  <1>. QED BY InitInv, NextInv, <1>1, PTL DEF Spec

------------------------------------------------------------------------------
(* Who writes posts: a worker's POST, a person, or a POST that took effect *)
(* after its worker had given it up.                                       *)
PostShape == DOMAIN post = Articles /\ edits \in Nat

PostKept == post' = post /\ edits' = edits

LEMMA PostStep ==
    ASSUME Next
    PROVE  \/ PostKept
           \/ \E w \in Workers : WorkerPost(w) /\ Worker(w)
           \/ \E a \in Articles : HumanEdit(a)
           \/ \E m \in late : LateEffect(m)
  <1>1. ASSUME NEW w \in Workers, Worker(w), ~WorkerPost(w) PROVE PostKept
    BY <1>1
    DEF Worker, WorkerStep, WorkerFault, WorkerBegin, WorkerPolicy, WorkerFinish, WorkerSkip,
        WorkerRetired, WorkerRefuse, WorkerClaim, WorkerGet, WorkerGetError, WorkerPostError,
        WorkerCommit, WorkerStaleRead, WorkerMarkStale, WorkerCharge, WorkerFailRead,
        WorkerFailPlan, WorkerCommitFails, WorkerBookkeepingLost, WorkerCrash, storeVars, PostKept
  <1>2. ASSUME NEW r \in Preparers, Preparer(r) PROVE PostKept
    BY <1>2 DEF Preparer, PrepStep, PrepStart, PrepPreview, PrepSkip, PrepReread, PrepDiscard,
                PrepReuse, PrepStore, storeVars, PostKept
  <1>3. ASSUME Operator PROVE PostKept
    BY <1>3 DEF Operator, ViewPlan, Approve, PostKept
  <1>4. ASSUME Editor PROVE PostKept
    BY <1>4 DEF Editor, ReviewStep, Review, ReviewBegin, ReviewEnd, FilterReview, Undo,
                PolicyRead, PolicyWrite, Retire, OnlySuggestions, storeVars, PostKept
  <1>5. ASSUME NEW p \in PlanIds, NEW c, NEW rehash, Tamper(p, c, rehash) PROVE PostKept
    BY <1>5 DEF Tamper, PostKept
  <1>. QED BY <1>1, <1>2, <1>3, <1>4, <1>5 DEF Next, Outside

LEMMA PostShapeInv == PostShape /\ [Next]_vars => PostShape'
  <1> SUFFICES ASSUME PostShape, [Next]_vars PROVE PostShape'
    OBVIOUS
  <1>1. CASE PostKept
    BY <1>1 DEF PostShape, PostKept
  <1>2. ASSUME NEW w \in Workers, WorkerPost(w) PROVE PostShape'
    BY <1>2 DEF WorkerPost, Save, PostShape
  <1>3. ASSUME NEW a \in Articles, HumanEdit(a) PROVE PostShape'
    BY <1>3 DEF HumanEdit, Save, PostShape
  <1>4. ASSUME NEW m \in late, LateEffect(m) PROVE PostShape'
    BY <1>4 DEF LateEffect, Save, PostShape
  <1>5. CASE UNCHANGED vars
    BY <1>5 DEF vars, storeVars, PostShape
  <1>. QED BY <1>1, <1>2, <1>3, <1>4, <1>5, PostStep

(* Between a worker's GET and its POST no other worker writes that post:   *)
(* what apply_planned_edit compared is what it overwrites, but for people  *)
(* and late effects.                                                       *)
THEOREM WorkersDoNotInterfere == Spec => NoWorkerInterference
  <1> DEFINE Alone ==
          \A w \in Workers, a \in Articles :
              /\ worker[w].pc = "post" /\ worker'[w].pc = "post"
              /\ plan[worker[w].cur].art.source = a
              /\ edits' = edits /\ late' = late
              => post'[a] = post[a]
  <1>1. Init => PostShape
    BY DEF Init, StoreInit, PostShape
  <1>2. Inv /\ PostShape /\ [Next]_vars => [Alone]_vars
    <2> SUFFICES ASSUME Inv, PostShape, Next, NEW w \in Workers, NEW a \in Articles,
                        worker[w].pc = "post", worker'[w].pc = "post",
                        plan[worker[w].cur].art.source = a, edits' = edits, late' = late
                 PROVE  post'[a] = post[a]
      OBVIOUS
    <2>1. ASSUME NEW v \in Workers, WorkerPost(v) PROVE post'[a] = post[a]
      <3>1. /\ worker[v].pc = "post" /\ GoTo(v, "commit")
            /\ \E c : post' = [post EXCEPT ![plan[worker[v].cur].art.source] = c]
        BY <2>1 DEF WorkerPost, Save
      <3>2. v # w
        BY <3>1, GoToFact DEF Inv
      <3>3. /\ worker[v].cur \in locked /\ worker[w].cur \in locked
            /\ worker[v].cur # worker[w].cur
        BY <3>1, <3>2 DEF Inv, Custody, Holding
      <3>4. plan[worker[v].cur].art.source # a
        BY <3>3 DEF Inv, Custody
      <3>. QED BY <3>1, <3>4 DEF PostShape
    <2>2. ASSUME NEW b \in Articles, HumanEdit(b) PROVE FALSE
      BY <2>2 DEF HumanEdit, PostShape
    <2>3. ASSUME NEW m \in late, LateEffect(m) PROVE FALSE
      BY <2>3 DEF LateEffect
    <2>. QED BY <2>1, <2>2, <2>3, PostStep DEF PostKept
  <1>. QED
    BY <1>1, <1>2, InitInv, NextInv, PostShapeInv, PTL DEF Spec, NoWorkerInterference

------------------------------------------------------------------------------
(* Suggestion rows and what the editors hold: their full types.            *)
RowsOK == sugg \in [Suggestions -> SuggestionRows] /\ ReviewTypeOK /\ ExhaustedIsQuarantined

RowOK(row) == row \in SuggestionRows /\ (row.status = "approved" => row.attempts < MaxAttempts)

LEMMA RowsStep ==
    ASSUME ReviewTypeOK', NEW f, sugg' = f, f = [s \in Suggestions |-> f[s]],
           \A s \in Suggestions : RowOK(f[s])
    PROVE  RowsOK'
BY DEF RowsOK, RowOK, ExhaustedIsQuarantined

(* The ways a row changes.                                                 *)
LEMMA RowChanges ==
    ASSUME NEW row, RowOK(row)
    PROVE  /\ \A st \in SuggestionStatuses \ {"approved"} : RowOK([row EXCEPT !.status = st])
           /\ \A p \in PlanIds \cup {None} : RowOK([row EXCEPT !.plan = p])
           /\ RowOK([row EXCEPT !.status = "applied", !.attempts = 0])
           /\ RowOK([row EXCEPT !.attempts = row.attempts + 1, !.status = "failed"])
           /\ row.attempts + 1 < MaxAttempts =>
                 RowOK([row EXCEPT !.attempts = row.attempts + 1, !.status = row.status])
           /\ \A st \in ReviewStatuses : RowOK(Reviewed(st))
  <1>0. /\ row \in [status : SuggestionStatuses, plan : PlanIds \cup {None}, attempts : Nat]
        /\ row.status = "approved" => row.attempts < MaxAttempts
        /\ MaxAttempts \in Nat /\ 0 < MaxAttempts /\ row.attempts \in Nat
    BY StoreAssumption DEF RowOK, SuggestionRows
  <1>1. \A st \in SuggestionStatuses \ {"approved"} : RowOK([row EXCEPT !.status = st])
    BY <1>0 DEF RowOK, SuggestionRows
  <1>2. \A p \in PlanIds \cup {None} : RowOK([row EXCEPT !.plan = p])
    BY <1>0 DEF RowOK, SuggestionRows
  <1>3. RowOK([row EXCEPT !.status = "applied", !.attempts = 0])
    BY <1>0 DEF RowOK, SuggestionRows, SuggestionStatuses
  <1> DEFINE n == row.attempts + 1
  <1>n. n \in Nat
    BY <1>0
  <1>4. RowOK([row EXCEPT !.attempts = n, !.status = "failed"])
    <2>. HIDE DEF n
    <2>. QED BY <1>0, <1>n DEF RowOK, SuggestionRows, SuggestionStatuses
  <1>5. n < MaxAttempts => RowOK([row EXCEPT !.attempts = n, !.status = row.status])
    <2>. HIDE DEF n
    <2>. QED BY <1>0, <1>n DEF RowOK, SuggestionRows
  <1>6. \A st \in ReviewStatuses : RowOK(Reviewed(st))
    BY <1>0 DEF RowOK, SuggestionRows, SuggestionStatuses, ReviewStatuses, Reviewed
  <1>. QED BY <1>1, <1>2, <1>3, <1>4, <1>5, <1>6

LEMMA RowsOKFact ==
    ASSUME RowsOK
    PROVE  \A s \in Suggestions : RowOK(sugg[s])
BY DEF RowsOK, RowOK, ExhaustedIsQuarantined

LEMMA WorkerRows ==
    ASSUME RowsOK, NEW w \in Workers, Worker(w)
    PROVE  RowsOK'
  <1>0. \A s \in Suggestions : RowOK(sugg[s])
    BY RowsOKFact
  <1>v. UNCHANGED reviewVars
    BY DEF Worker
  <1>r. ReviewTypeOK'
    BY <1>v DEF RowsOK, ReviewTypeOK, reviewVars
  <1>1. CASE sugg' = sugg
    BY <1>1, <1>r DEF RowsOK, ExhaustedIsQuarantined
  <1>2. CASE WorkerPolicy(w)
    <2> DEFINE f == [s \in Suggestions |->
                        IF s \in worker[w].rows THEN [sugg[s] EXCEPT !.status = "expired"]
                        ELSE sugg[s]]
    <2>1. sugg' = f
      BY <1>2 DEF WorkerPolicy
    <2>2. \A s \in Suggestions : RowOK(f[s])
      BY <1>0, RowChanges DEF SuggestionStatuses
    <2>. QED BY <1>r, <2>1, <2>2, RowsStep
  <1>3. CASE WorkerCommit(w)
    <2> DEFINE f == [s \in Suggestions |->
                        IF s \in worker[w].rows \cap ItemIds(worker[w].cur)
                        THEN [sugg[s] EXCEPT !.status = "applied", !.attempts = 0]
                        ELSE sugg[s]]
    <2>1. sugg' = f
      BY <1>3 DEF WorkerCommit
    <2>2. \A s \in Suggestions : RowOK(f[s])
      BY <1>0, RowChanges
    <2>. QED BY <1>r, <2>1, <2>2, RowsStep
  <1>4. CASE WorkerMarkStale(w)
    <2> DEFINE f == [s \in Suggestions |->
                        IF s \in BoundTo(worker[w].cur) THEN [sugg[s] EXCEPT !.plan = None]
                        ELSE sugg[s]]
    <2>1. sugg' = f
      BY <1>4 DEF WorkerMarkStale
    <2>2. \A s \in Suggestions : RowOK(f[s])
      BY <1>0, RowChanges
    <2>. QED BY <1>r, <2>1, <2>2, RowsStep
  <1>5. CASE WorkerFailPlan(w)
    <2> DEFINE f == [s \in Suggestions |->
                        IF s \in BoundTo(worker[w].cur) THEN [sugg[s] EXCEPT !.status = "failed"]
                        ELSE sugg[s]]
    <2>1. sugg' = f
      BY <1>5 DEF WorkerFailPlan
    <2>2. \A s \in Suggestions : RowOK(f[s])
      BY <1>0, RowChanges DEF SuggestionStatuses
    <2>. QED BY <1>r, <2>1, <2>2, RowsStep
  <1>6. CASE WorkerCharge(w)
    <2> DEFINE f == [s \in Suggestions |->
                        IF s \in Charged(w)
                        THEN [sugg[s] EXCEPT !.attempts = @ + 1,
                                 !.status = IF s \in Quarantined(w) THEN "failed" ELSE @]
                        ELSE sugg[s]]
    <2>1. sugg' = f
      BY <1>6 DEF WorkerCharge
    <2>2. \A s \in Suggestions : RowOK(f[s])
      <3> SUFFICES ASSUME NEW s \in Suggestions PROVE RowOK(f[s])
        OBVIOUS
      <3>1. RowOK(sugg[s]) /\ sugg[s].attempts \in Nat /\ MaxAttempts \in Nat
        BY <1>0, StoreAssumption DEF RowOK, SuggestionRows
      <3>2. CASE s \notin Charged(w)
        BY <3>1, <3>2
      <3>3. CASE s \in Quarantined(w)
        BY <3>1, <3>3, RowChanges DEF Quarantined
      <3>4. CASE s \in Charged(w) /\ s \notin Quarantined(w)
        <4>1. sugg[s].attempts + 1 < MaxAttempts
          BY <3>1, <3>4 DEF Quarantined
        <4>. QED BY <3>1, <3>4, <4>1, RowChanges
      <3>. QED BY <3>2, <3>3, <3>4
    <2>. QED BY <1>r, <2>1, <2>2, RowsStep
  <1>7. \/ sugg' = sugg
        \/ WorkerPolicy(w) \/ WorkerCommit(w) \/ WorkerMarkStale(w) \/ WorkerFailPlan(w)
        \/ WorkerCharge(w)
    BY DEF Worker, WorkerStep, WorkerFault, WorkerBegin, WorkerFinish, WorkerSkip,
           WorkerRetired, WorkerRefuse, WorkerClaim, WorkerGet, WorkerGetError, WorkerPost,
           WorkerPostError, WorkerStaleRead, WorkerFailRead, WorkerCommitFails,
           WorkerBookkeepingLost, WorkerCrash, storeVars
  <1>. QED BY <1>1, <1>2, <1>3, <1>4, <1>5, <1>6, <1>7

(* The decision of a reviewer, on any rows.                                *)
LEMMA SetReviewedRows ==
    ASSUME RowsOK, ReviewTypeOK', NEW ids, NEW st \in ReviewStatuses, SetReviewed(ids, st)
    PROVE  RowsOK'
  <1> DEFINE f == [s \in Suggestions |-> IF s \in ids THEN Reviewed(st) ELSE sugg[s]]
  <1>1. sugg' = f
    BY DEF SetReviewed
  <1>2. \A s \in Suggestions : RowOK(f[s])
    BY RowsOKFact, RowChanges
  <1>. QED BY <1>1, <1>2, RowsStep

LEMMA EditorRows ==
    ASSUME RowsOK, Editor
    PROVE  RowsOK'
  <1>0. \A s \in Suggestions : RowOK(sugg[s])
    BY RowsOKFact
  <1>1. ASSUME NEW s \in Suggestions, NEW st \in ReviewStatuses, Review(s, st) PROVE RowsOK'
    <2>1. ReviewTypeOK' /\ SetReviewed({s}, st)
      BY <1>1 DEF Review, RowsOK, ReviewTypeOK, reviewVars
    <2>. QED BY <2>1, SetReviewedRows
  <1>2. ASSUME NEW v \in Reviewers, NEW s \in Suggestions, NEW st \in ReviewStatuses,
               ReviewBegin(v, s, st)
        PROVE  RowsOK'
    <2>1. ApprovedPlans \in SUBSET PlanIds
      BY DEF ApprovedPlans
    <2>2. ReviewTypeOK'
      BY <1>2, <2>1 DEF ReviewBegin, RowsOK, ReviewTypeOK
    <2>. QED BY <1>2, <2>2 DEF ReviewBegin, RowsOK, storeVars, ExhaustedIsQuarantined
  <1>3. ASSUME NEW v \in Reviewers, ReviewEnd(v) PROVE RowsOK'
    <2>1. reviewer[v].status \in ReviewStatuses
      BY <1>3 DEF ReviewEnd, RowsOK, ReviewTypeOK
    <2>2. ReviewTypeOK'
      BY <1>3 DEF ReviewEnd, RowsOK, ReviewTypeOK
    <2>. QED BY <1>3, <2>1, <2>2, SetReviewedRows DEF ReviewEnd
  <1>4. ASSUME NEW o \in Operations, NEW from \in ReviewStatuses,
               NEW to \in {"approved", "rejected"}, FilterReview(o, from, to)
        PROVE  RowsOK'
    <2>1. PICK matched \in SUBSET {s \in Suggestions : sugg[s].status = from} :
              /\ SetReviewed(Reviewable(matched, ApprovedPlans), to)
              /\ operation' = [operation EXCEPT ![o] =
                                  [cohort |-> Reviewable(matched, ApprovedPlans),
                                   from |-> from, to |-> to, undone |-> FALSE]]
      BY <1>4 DEF FilterReview
    <2>2. Reviewable(matched, ApprovedPlans) \in SUBSET Suggestions /\ to \in ReviewStatuses
      BY DEF Reviewable, ReviewStatuses
    <2>3. reviewer' = reviewer /\ policyEdit' = policyEdit
      BY <1>4 DEF FilterReview
    <2>4. [cohort |-> Reviewable(matched, ApprovedPlans), from |-> from, to |-> to,
           undone |-> FALSE] \in [cohort : SUBSET Suggestions, from : ReviewStatuses,
                                  to : ReviewStatuses, undone : BOOLEAN]
      BY <2>2
    <2>5. ReviewTypeOK'
      BY <2>1, <2>3, <2>4 DEF RowsOK, ReviewTypeOK
    <2>. QED BY <2>1, <2>2, <2>5, SetReviewedRows
  <1>5. ASSUME NEW o \in Operations, Undo(o) PROVE RowsOK'
    <2>1. operation[o] \in [cohort : SUBSET Suggestions, from : ReviewStatuses,
                            to : ReviewStatuses, undone : BOOLEAN]
      BY <1>5 DEF Undo, RowsOK, ReviewTypeOK
    <2>2. ReviewTypeOK'
      BY <1>5, <2>1 DEF Undo, RowsOK, ReviewTypeOK
    <2>3. operation[o].from \in ReviewStatuses
      BY <2>1
    <2>. QED BY <1>5, <2>2, <2>3, SetReviewedRows DEF Undo
  <1>6. ASSUME NEW e \in PolicyEdits, NEW banned \in SUBSET External, PolicyRead(e, banned)
        PROVE  RowsOK'
    <2>1. {s \in banned : sugg[s].status \in {"pending", "approved"}} \in SUBSET Suggestions
      BY StoreAssumption
    <2>2. ReviewTypeOK'
      BY <1>6, <2>1 DEF PolicyRead, RowsOK, ReviewTypeOK
    <2>. QED BY <1>6, <2>2 DEF PolicyRead, RowsOK, storeVars, ExhaustedIsQuarantined
  <1>7. ASSUME NEW e \in PolicyEdits, PolicyWrite(e) PROVE RowsOK'
    <2> DEFINE f == [s \in Suggestions |->
                        IF s \in policyEdit[e].rows THEN [sugg[s] EXCEPT !.status = "expired"]
                        ELSE sugg[s]]
    <2>1. sugg' = f
      BY <1>7 DEF PolicyWrite
    <2>2. \A s \in Suggestions : RowOK(f[s])
      BY <1>0, RowChanges DEF SuggestionStatuses
    <2>3. ReviewTypeOK'
      BY <1>7 DEF PolicyWrite, RowsOK, ReviewTypeOK
    <2>. QED BY <2>1, <2>2, <2>3, RowsStep
  <1>8. ASSUME NEW s \in Suggestions, Retire(s) PROVE RowsOK'
    <2> DEFINE f == [sugg EXCEPT ![s].status = "expired"]
    <2>1. sugg' = f
      BY <1>8 DEF Retire
    <2>2. f = [t \in Suggestions |-> f[t]] /\ \A t \in Suggestions : RowOK(f[t])
      BY <1>0, RowChanges DEF RowsOK, SuggestionStatuses
    <2>3. ReviewTypeOK'
      BY <1>8 DEF Retire, RowsOK, ReviewTypeOK, reviewVars
    <2>. QED BY <2>1, <2>2, <2>3, RowsStep
  <1>. QED
    BY <1>1, <1>2, <1>3, <1>4, <1>5, <1>6, <1>7, <1>8 DEF Editor, ReviewStep

LEMMA RowsInv == RowsOK /\ [Next]_vars => RowsOK'
  <1> SUFFICES ASSUME RowsOK, [Next]_vars PROVE RowsOK'
    OBVIOUS
  <1>0. \A s \in Suggestions : RowOK(sugg[s])
    BY RowsOKFact
  <1>1. ASSUME UNCHANGED <<sugg, reviewVars>> PROVE RowsOK'
    BY <1>1 DEF RowsOK, ReviewTypeOK, reviewVars, ExhaustedIsQuarantined
  <1>2. ASSUME NEW r \in Preparers, Preparer(r) PROVE RowsOK'
    <2>1. CASE PrepStart(r)
      <3>1. PICK only \in PrepareScopes :
                sugg' = [s \in Suggestions |->
                            IF s \in Superseded(Row, Selected, Applied, only)
                            THEN [sugg[s] EXCEPT !.status = "expired"] ELSE sugg[s]]
        BY <2>1 DEF PrepStart
      <3> DEFINE f == [s \in Suggestions |->
                          IF s \in Superseded(Row, Selected, Applied, only)
                          THEN [sugg[s] EXCEPT !.status = "expired"] ELSE sugg[s]]
      <3>2. \A s \in Suggestions : RowOK(f[s])
        BY <1>0, RowChanges DEF SuggestionStatuses
      <3>3. ReviewTypeOK'
        BY <1>2 DEF Preparer, RowsOK, ReviewTypeOK, reviewVars
      <3>. QED BY <3>1, <3>2, <3>3, RowsStep
    <2>2. CASE ~PrepStart(r)
      <3>1. UNCHANGED <<sugg, reviewVars>>
        BY <1>2, <2>2 DEF Preparer, PrepStep, PrepPreview, PrepSkip, PrepReread, PrepDiscard,
                          PrepReuse, PrepStore, storeVars
      <3>. QED BY <3>1, <1>1
    <2>. QED BY <2>1, <2>2
  <1>3. ASSUME NEW named \in SUBSET PlanIds, Approve(named), UNCHANGED reviewVars PROVE RowsOK'
    <2> DEFINE f == [s \in Suggestions |->
                        IF \E p \in named : s \in ItemIds(p)
                        THEN [sugg[s] EXCEPT !.plan = CHOOSE p \in named : s \in ItemIds(p)]
                        ELSE sugg[s]]
    <2>1. sugg' = f
      BY <1>3 DEF Approve
    <2>2. \A s \in Suggestions : (\E p \in named : s \in ItemIds(p)) =>
              (CHOOSE p \in named : s \in ItemIds(p)) \in PlanIds
      OBVIOUS
    <2>3. \A s \in Suggestions : RowOK(f[s])
      BY <1>0, <2>2, RowChanges
    <2>4. ReviewTypeOK'
      BY <1>3 DEF RowsOK, ReviewTypeOK, reviewVars
    <2>. QED BY <2>1, <2>3, <2>4, RowsStep
  <1>4. ASSUME Operator PROVE RowsOK'
    BY <1>4, <1>1, <1>3 DEF Operator, ViewPlan
  <1>5. ASSUME Outside PROVE RowsOK'
    BY <1>5, <1>1 DEF Outside, HumanEdit, LateEffect, Tamper
  <1>6. CASE UNCHANGED vars
    BY <1>6, <1>1 DEF vars, storeVars
  <1>. QED BY <1>2, <1>4, <1>5, <1>6, WorkerRows, EditorRows DEF Next

LEMMA RowsInit == Init => RowsOK
BY StoreAssumption
DEF Init, StoreInit, ReviewInit, RowsOK, ReviewTypeOK, SuggestionRows, SuggestionStatuses,
    ExhaustedIsQuarantined

(* A suggestion at its attempt limit is out of the selection until an      *)
(* editor decides on it again, however charges, quarantines, reviews and   *)
(* undos interleave.                                                       *)
THEOREM AttemptsAreLimited == Spec => []ExhaustedIsQuarantined
  <1>1. RowsOK => ExhaustedIsQuarantined
    BY DEF RowsOK
  <1>. QED BY <1>1, RowsInit, RowsInv, PTL DEF Spec

------------------------------------------------------------------------------
(* What each post has had, and what it has now.                            *)
History ==
    /\ DOMAIN post = Articles /\ DOMAIN served = Articles
    /\ \A a \in Articles : post[a] \in served[a]

(* An artifact of an article of the site.                                  *)
Placed(art) == DOMAIN art = {"source", "orig", "upd", "items"} /\ art.source \in Articles

(* The worker has read a plan and is not done with it.                     *)
AtWork == {"get", "post", "commit", "stale", "unbind", "charge", "fail", "retire"}

Placing ==
    /\ DOMAIN prep = Preparers
    /\ \A r \in Preparers :
          /\ DOMAIN prep[r] = {"pc", "todo", "art", "row"}
          /\ prep[r].pc \in {"reread", "store"} => Placed(prep[r].art)
    /\ \A p \in PlanIds : plan[p].status # "absent" => Placed(plan[p].art)
    /\ \A w \in Workers : worker[w].pc \in AtWork =>
          worker[w].cur \in PlanIds /\ plan[worker[w].cur].status # "absent"

Written(p) == plan[p].art.upd \in served[plan[p].art.source]

(* Whoever is about to report success has seen the post carry the edit.    *)
Delivered ==
    /\ \A w \in Workers : worker[w].pc = "commit" => Written(worker[w].cur)
    /\ AppliedWasServed

ServedInv == History /\ Placing /\ Delivered

LEMMA HistoryStep ==
    ASSUME History, [Next]_vars
    PROVE  History' /\ \A a \in Articles : served[a] \subseteq served'[a]
  <1>1. ASSUME NEW a, NEW c, Save(a, c)
        PROVE  History' /\ \A b \in Articles : served[b] \subseteq served'[b]
    BY <1>1 DEF Save, History
  <1>2. ASSUME UNCHANGED <<post, served>>
        PROVE  History' /\ \A b \in Articles : served[b] \subseteq served'[b]
    BY <1>2 DEF History
  <1>3. ASSUME NEW w \in Workers, Worker(w)
        PROVE  UNCHANGED <<post, served>> \/ \E a, c : Save(a, c)
    BY <1>3
    DEF Worker, WorkerStep, WorkerFault, WorkerBegin, WorkerPolicy, WorkerFinish, WorkerSkip,
        WorkerRetired, WorkerRefuse, WorkerClaim, WorkerGet, WorkerGetError, WorkerPost,
        WorkerPostError, WorkerCommit, WorkerStaleRead, WorkerMarkStale, WorkerCharge,
        WorkerFailRead, WorkerFailPlan, WorkerCommitFails, WorkerBookkeepingLost, WorkerCrash,
        storeVars
  <1>4. ASSUME NEW r \in Preparers, Preparer(r) PROVE UNCHANGED <<post, served>>
    BY <1>4 DEF Preparer, PrepStep, PrepStart, PrepPreview, PrepSkip, PrepReread, PrepDiscard,
                PrepReuse, PrepStore, storeVars
  <1>5. ASSUME Operator PROVE UNCHANGED <<post, served>>
    BY <1>5 DEF Operator, ViewPlan, Approve
  <1>6. ASSUME Editor PROVE UNCHANGED <<post, served>>
    BY <1>6 DEF Editor, ReviewStep, Review, ReviewBegin, ReviewEnd, FilterReview, Undo,
                PolicyRead, PolicyWrite, Retire, OnlySuggestions, storeVars
  <1>7. ASSUME Outside PROVE UNCHANGED <<post, served>> \/ \E a, c : Save(a, c)
    BY <1>7 DEF Outside, HumanEdit, LateEffect, Tamper
  <1>8. CASE UNCHANGED vars
    BY <1>8, <1>2 DEF vars, storeVars
  <1>. QED BY <1>1, <1>2, <1>3, <1>4, <1>5, <1>6, <1>7, <1>8 DEF Next

(* A step in which no artifact of a stored plan changes and no plan        *)
(* becomes applied or reaches its commit.                                  *)
LEMMA DeliveredStep ==
    ASSUME ServedInv, Inv, [Next]_vars,
           \A p \in PlanIds :
               (plan'[p].status = "applied" \/ p \in locked) =>
                   plan'[p].art = plan[p].art,
           \A p \in PlanIds : plan'[p].status = "applied" =>
               plan[p].status = "applied" \/ (plan[p].status # "absent" /\ Written(p)),
           \A w \in Workers : worker'[w].pc = "commit" =>
               worker[w].pc = "commit" /\ worker'[w].cur = worker[w].cur
    PROVE  Delivered'
  <1>1. \A a \in Articles : served[a] \subseteq served'[a]
    BY HistoryStep DEF ServedInv
  <1>2. ASSUME NEW p \in PlanIds, plan[p].status # "absent", Written(p),
               plan'[p].art = plan[p].art
        PROVE  Written(p)'
    BY <1>1, <1>2 DEF ServedInv, Placing, Placed, Written
  <1>3. ASSUME NEW w \in Workers, worker'[w].pc = "commit" PROVE Written(worker[w].cur)'
    <2>1. /\ worker[w].pc = "commit" /\ worker'[w].cur = worker[w].cur
          /\ worker[w].cur \in locked /\ worker[w].cur \in PlanIds
      BY <1>3 DEF Inv, Shape, Custody, Holding
    <2>2. Written(worker[w].cur) /\ plan[worker[w].cur].status # "absent"
      BY <2>1 DEF ServedInv, Delivered, Inv, Custody
    <2>3. plan'[worker[w].cur].art = plan[worker[w].cur].art
      BY <2>1
    <2>4. plan'[worker[w].cur].art.upd \in served'[plan'[worker[w].cur].art.source]
      BY <1>1, <2>1, <2>2, <2>3 DEF ServedInv, Placing, Placed, Written
    <2>. QED BY <2>1, <2>4 DEF Written
  <1>4. ASSUME NEW p \in PlanIds, plan'[p].status = "applied" PROVE Written(p)'
    <2>1. plan[p].status # "absent" /\ Written(p)
      BY <1>4 DEF ServedInv, Delivered, AppliedWasServed, Written
    <2>. QED BY <1>2, <1>4, <2>1
  <1>. QED BY <1>3, <1>4 DEF Delivered, AppliedWasServed, Written

(* What a worker's step does to the plans and to who is at a commit.       *)
WorkerEffect(w) ==
    /\ DOMAIN plan' = PlanIds /\ prep' = prep
    /\ \A p \in PlanIds :
          /\ plan'[p].art = plan[p].art
          /\ plan'[p].status = "absent" => plan[p].status = "absent"
          /\ plan[p].status = "absent" /\ plan'[p].status # "absent" =>
                worker[w].pc \in AtWork /\ p = worker[w].cur
          /\ plan'[p].status = "applied" =>
                plan[p].status = "applied" \/ (worker[w].pc = "commit" /\ p = worker[w].cur)
    /\ \A v \in Workers : worker'[v].pc = "commit" =>
          \/ worker[v].pc = "commit" /\ worker'[v].cur = worker[v].cur
          \/ v = w /\ (WorkerGet(w) \/ WorkerPost(w))
    /\ \A v \in Workers : worker'[v].pc \in AtWork =>
          \/ worker[v].pc \in AtWork /\ worker'[v].cur = worker[v].cur
          \/ worker'[v].cur \in PlanIds /\ plan[worker'[v].cur].status = "approved"

LEMMA WorkerEffects ==
    ASSUME Inv, NEW w \in Workers, Worker(w)
    PROVE  WorkerEffect(w)
  <1>s. Shape
    BY DEF Inv
  <1>p. prep' = prep
    BY DEF Worker
  <1>1. ASSUME plan' = plan,
               \A v \in Workers : worker'[v].pc = "commit" =>
                    \/ worker[v].pc = "commit" /\ worker'[v].cur = worker[v].cur
                    \/ v = w /\ (WorkerGet(w) \/ WorkerPost(w)),
               \A v \in Workers : worker'[v].pc \in AtWork =>
                    \/ worker[v].pc \in AtWork /\ worker'[v].cur = worker[v].cur
                    \/ worker'[v].cur \in PlanIds /\ plan[worker'[v].cur].status = "approved"
        PROVE  WorkerEffect(w)
    BY <1>1, <1>p, <1>s DEF WorkerEffect, Shape
  <1>2. ASSUME NEW st \in {"applied", "stale", "failed"}, worker[w].pc \in AtWork,
               plan' = [plan EXCEPT ![worker[w].cur].status = st],
               st = "applied" => worker[w].pc = "commit", LeavePlan(w, "next")
        PROVE  WorkerEffect(w)
    <2>1. DOMAIN plan' = PlanIds
      BY <1>2, <1>s DEF Shape
    <2>2. \A p \in PlanIds : p # worker[w].cur => plan'[p] = plan[p]
      BY <1>2, <1>s DEF Shape
    <2>3. worker[w].cur \in PlanIds => /\ plan'[worker[w].cur].art = plan[worker[w].cur].art
                                       /\ plan'[worker[w].cur].status = st
      BY <1>2, <1>s DEF Shape
    <2>4. \A v \in Workers :
              /\ worker'[v].pc = "commit" => worker[v].pc = "commit" /\ worker'[v].cur = worker[v].cur
              /\ worker'[v].pc \in AtWork => worker[v].pc \in AtWork /\ worker'[v].cur = worker[v].cur
      BY <1>2, <1>s, LeaveFact DEF AtWork
    <2>. QED BY <1>2, <1>p, <2>1, <2>2, <2>3, <2>4 DEF WorkerEffect
  <1>3. CASE WorkerCommit(w)
    BY <1>2, <1>3 DEF WorkerCommit, AtWork
  <1>4. CASE WorkerMarkStale(w) \/ WorkerFailPlan(w)
    BY <1>2, <1>4 DEF WorkerMarkStale, WorkerFailPlan, AtWork
  <1>5. CASE WorkerGet(w) \/ WorkerPost(w)
    <2>1. plan' = plan /\ worker[w].pc \in AtWork /\ \E pc : GoTo(w, pc)
      BY <1>5 DEF WorkerGet, WorkerPost, AtWork
    <2>. QED BY <1>1, <1>5, <1>s, <2>1, GoToFact
  <1>6. ASSUME plan' = plan, worker' = [worker EXCEPT ![w] = IdleWorker] PROVE WorkerEffect(w)
    BY <1>1, <1>6, <1>s DEF Shape, IdleWorker, AtWork
  <1>7. ASSUME plan' = plan, NEW pc, pc # "commit",
               \/ worker[w].pc \in AtWork /\ GoTo(w, pc)
               \/ pc = "next" /\ LeavePlan(w, pc)
               \/ \E p \in PlanIds : plan[p].status = "approved" /\ Claimed(w, p, pc)
        PROVE  WorkerEffect(w)
    <2>1. CASE worker[w].pc \in AtWork /\ GoTo(w, pc)
      BY <1>1, <1>7, <1>s, <2>1, GoToFact
    <2>2. CASE pc = "next" /\ LeavePlan(w, pc)
      BY <1>1, <1>7, <1>s, <2>2, LeaveFact DEF AtWork
    <2>3. ASSUME NEW p \in PlanIds, plan[p].status = "approved", Claimed(w, p, pc)
          PROVE  WorkerEffect(w)
      BY <1>1, <1>7, <1>s, <2>3, ClaimedFact
    <2>. QED BY <1>7, <2>1, <2>2, <2>3
  <1>8. CASE WorkerFinish(w) \/ WorkerCrash(w)
    BY <1>6, <1>8 DEF WorkerFinish, WorkerCrash, storeVars
  <1>9. CASE WorkerGetError(w) \/ WorkerPostError(w)
    BY <1>7, <1>9 DEF WorkerGetError, WorkerPostError, AtWork
  <1>10. CASE WorkerStaleRead(w) \/ WorkerFailRead(w)
    <2>1. /\ plan' = plan /\ worker[w].pc \in AtWork
          /\ GoTo(w, "unbind") \/ GoTo(w, "retire") \/ LeavePlan(w, "next")
      BY <1>10 DEF WorkerStaleRead, WorkerFailRead, storeVars, AtWork
    <2>. QED BY <1>7, <2>1
  <1>11. CASE WorkerCharge(w)
    <2>1. plan' = plan /\ worker[w].pc \in AtWork /\ (GoTo(w, "fail") \/ LeavePlan(w, "next"))
      BY <1>11 DEF WorkerCharge, AtWork
    <2>. QED BY <1>7, <2>1
  <1>12. CASE WorkerCommitFails(w) \/ WorkerBookkeepingLost(w)
    BY <1>7, <1>12 DEF WorkerCommitFails, WorkerBookkeepingLost
  <1>13. ASSUME NEW p \in PlanIds, WorkerRetired(w, p) \/ WorkerRefuse(w, p) \/ WorkerClaim(w, p)
         PROVE  WorkerEffect(w)
    <2>1. /\ plan' = plan /\ plan[p].status = "approved"
          /\ Claimed(w, p, "stale") \/ Claimed(w, p, "fail") \/ Claimed(w, p, "get")
      BY <1>13 DEF WorkerRetired, WorkerRefuse, WorkerClaim, storeVars
    <2>. QED BY <1>7, <2>1
  <1>14. ASSUME NEW p \in PlanIds, WorkerSkip(w, p) PROVE WorkerEffect(w)
    <2>1. plan' = plan /\ worker' = [worker EXCEPT ![w].todo = Tail(@)]
      BY <1>14 DEF WorkerSkip, storeVars
    <2>2. \A v \in Workers : worker'[v].pc = worker[v].pc /\ worker'[v].cur = worker[v].cur
      BY <2>1, <1>s DEF Shape
    <2>. QED BY <1>1, <2>1, <2>2
  <1>15. CASE WorkerBegin(w)
    <2>1. PICK scope \in PublishScopes :
              worker' = [worker EXCEPT ![w] =
                            [@ EXCEPT !.pc = "policy", !.scope = scope,
                                !.rows = {s \in ineligible : sugg[s].status = "approved"}]]
      BY <1>15 DEF WorkerBegin
    <2>2. plan' = plan
      BY <1>15 DEF WorkerBegin, storeVars
    <2>3. \A v \in Workers : v # w => worker'[v] = worker[v]
      BY <2>1, <1>s DEF Shape
    <2>4. worker'[w].pc = "policy"
      BY <2>1, <1>s DEF Shape
    <2>. QED BY <1>1, <2>2, <2>3, <2>4 DEF AtWork
  <1>16. CASE WorkerPolicy(w)
    <2> DEFINE load == SetToSortSeq({p \in worker[w].scope : plan[p].status = "approved"}, <)
    <2>1. plan' = plan /\ worker' = [worker EXCEPT ![w] =
                                        [@ EXCEPT !.pc = "next", !.rows = {}, !.todo = load]]
      BY <1>16 DEF WorkerPolicy
    <2>. HIDE DEF load
    <2>2. worker'[w].pc = "next" /\ \A v \in Workers : v # w => worker'[v] = worker[v]
      BY <2>1, <1>s DEF Shape
    <2>. QED BY <1>1, <2>1, <2>2 DEF AtWork
  <1>. QED
    BY <1>3, <1>4, <1>5, <1>8, <1>9, <1>10, <1>11, <1>12, <1>13, <1>14, <1>15, <1>16
    DEF Worker, WorkerStep, WorkerFault

LEMMA WorkerServes ==
    ASSUME Inv, ServedInv, NEW w \in Workers, Worker(w), Next
    PROVE  ServedInv'
  <1>1. WorkerEffect(w)
    BY WorkerEffects
  <1>2. History' /\ \A a \in Articles : served[a] \subseteq served'[a]
    BY HistoryStep DEF ServedInv
  <1>3. /\ worker[w].pc \in AtWork => plan[worker[w].cur].status # "absent"
        /\ \A p \in PlanIds : plan[p].status # "absent" <=> plan'[p].status # "absent"
    BY <1>1 DEF WorkerEffect, ServedInv, Placing
  <1>4. Placing'
    <2>1. \A r \in Preparers :
              /\ DOMAIN prep'[r] = {"pc", "todo", "art", "row"}
              /\ prep'[r].pc \in {"reread", "store"} => Placed(prep'[r].art)
      BY <1>1 DEF WorkerEffect, ServedInv, Placing
    <2>2. \A p \in PlanIds : plan'[p].status # "absent" => Placed(plan'[p].art)
      BY <1>1, <1>3 DEF WorkerEffect, ServedInv, Placing
    <2>3. \A v \in Workers : worker'[v].pc \in AtWork =>
              worker'[v].cur \in PlanIds /\ plan'[worker'[v].cur].status # "absent"
      BY <1>1, <1>3 DEF WorkerEffect, ServedInv, Placing
    <2>4. DOMAIN prep' = Preparers
      BY <1>1 DEF WorkerEffect, ServedInv, Placing
    <2>. QED BY <2>1, <2>2, <2>3, <2>4 DEF Placing, Placed
  <1>5. ASSUME NEW p \in PlanIds, plan'[p].status # "absent", Written(p) PROVE Written(p)'
    BY <1>1, <1>2, <1>3, <1>5 DEF WorkerEffect, ServedInv, Placing, Placed, Written
  <1>6. ASSUME NEW p \in PlanIds, plan'[p].status = "applied" PROVE Written(p)'
    <2>1. Written(p)
      BY <1>1, <1>6 DEF WorkerEffect, ServedInv, Delivered, AppliedWasServed, Written
    <2>. QED BY <1>5, <1>6, <2>1
  <1>7. ASSUME NEW v \in Workers, worker'[v].pc = "commit" PROVE Written(worker[v].cur)'
    <2> DEFINE c == worker'[v].cur
    <2>0. /\ c \in PlanIds /\ plan'[c].status # "absent" /\ plan'[c].art = plan[c].art
          /\ plan[c].art.source \in Articles
      BY <1>1, <1>3, <1>4, <1>7 DEF Placing, AtWork, WorkerEffect, ServedInv, Placed
    <2>1. CASE worker[v].pc = "commit" /\ c = worker[v].cur
      <3>1. plan[c].art.upd \in served[plan[c].art.source]
        BY <2>1 DEF ServedInv, Delivered, Written
      <3>2. plan'[c].art.upd \in served'[plan'[c].art.source]
        BY <1>2, <2>0, <3>1
      <3>. QED BY <3>2 DEF Written
    <2>2. CASE v = w /\ WorkerGet(w)
      <3>1. /\ worker[w].pc = "get" /\ \E pc : GoTo(w, pc)
            /\ \/ post[plan[worker[w].cur].art.source] = plan[worker[w].cur].art.upd
               \/ GoTo(w, "post") \/ GoTo(w, "stale")
        BY <2>2 DEF WorkerGet
      <3>2. /\ c = worker[w].cur
            /\ post[plan[worker[w].cur].art.source] = plan[worker[w].cur].art.upd
        BY <1>7, <2>2, <3>1, GoToFact DEF Inv
      <3>3. plan[c].art.upd \in served[plan[c].art.source]
        BY <2>0, <3>2 DEF ServedInv, History
      <3>4. plan'[c].art.upd \in served'[plan'[c].art.source]
        BY <1>2, <2>0, <3>3
      <3>. QED BY <3>4 DEF Written
    <2>3. CASE v = w /\ WorkerPost(w)
      <3>1. /\ GoTo(w, "commit")
            /\ Save(plan[worker[w].cur].art.source, plan[worker[w].cur].art.upd)
        BY <2>3 DEF WorkerPost, Request
      <3>2. c = worker[w].cur
        BY <2>3, <3>1, GoToFact DEF Inv
      <3>3. plan'[c].art.upd \in served'[plan'[c].art.source]
        BY <2>0, <3>1, <3>2 DEF Save, ServedInv, History
      <3>. QED BY <3>3 DEF Written
    <2>. QED BY <1>1, <1>7, <2>1, <2>2, <2>3 DEF WorkerEffect
  <1>. QED BY <1>2, <1>4, <1>6, <1>7 DEF ServedInv, Delivered, AppliedWasServed, Written

(* A step of anybody else: plans are stored, signed or rewritten, and none *)
(* of them becomes applied.                                                *)
LEMMA OthersServe ==
    ASSUME Inv, ServedInv, [Next]_vars, worker' = worker, DOMAIN prep' = Preparers,
           \A r \in Preparers :
               /\ DOMAIN prep'[r] = {"pc", "todo", "art", "row"}
               /\ prep'[r].pc \in {"reread", "store"} => Placed(prep'[r].art),
           \A p \in PlanIds :
               /\ plan'[p].status = "applied" => plan[p].status = "applied"
               /\ plan'[p].status = "applied" \/ p \in locked => plan'[p].art = plan[p].art
               /\ plan'[p].status = "absent" => plan[p].status = "absent"
               /\ plan'[p].status # "absent" => Placed(plan'[p].art)
    PROVE  ServedInv'
  <1>1. History'
    BY HistoryStep DEF ServedInv
  <1>2. Placing'
    BY DEF ServedInv, Placing, Placed
  <1>3. Delivered'
    BY DeliveredStep DEF ServedInv, Delivered, AppliedWasServed, Written
  <1>. QED BY <1>1, <1>2, <1>3 DEF ServedInv

LEMMA PreparerServes ==
    ASSUME Inv, ServedInv, NEW r \in Preparers, Preparer(r), Next
    PROVE  ServedInv'
  <1>0. /\ DOMAIN prep = Preparers /\ worker' = worker
        /\ \A q \in Preparers :
              /\ DOMAIN prep[q] = {"pc", "todo", "art", "row"}
              /\ prep[q].pc \in {"reread", "store"} => Placed(prep[q].art)
        /\ \A p \in PlanIds : plan[p].status # "absent" => Placed(plan[p].art)
    BY DEF ServedInv, Placing, Preparer
  <1>1. /\ DOMAIN prep' = Preparers
        /\ \A q \in Preparers :
              /\ DOMAIN prep'[q] = {"pc", "todo", "art", "row"}
              /\ prep'[q].pc \in {"reread", "store"} => Placed(prep'[q].art)
    <2>1. ASSUME NextArticle(r)
          PROVE  /\ DOMAIN prep' = Preparers
                 /\ DOMAIN prep'[r] = {"pc", "todo", "art", "row"}
                 /\ prep'[r].pc \notin {"reread", "store"}
                 /\ \A q \in Preparers : q # r => prep'[q] = prep[q]
      <3> DEFINE left == Tail(prep[r].todo)
                 pc == IF Len(prep[r].todo) > 1 THEN "preview" ELSE "idle"
      <3>1. prep' = [prep EXCEPT ![r] = [IdlePreparer EXCEPT !.todo = left, !.pc = pc]]
        BY <2>1 DEF NextArticle
      <3>2. pc \in {"preview", "idle"}
        OBVIOUS
      <3>. HIDE DEF left, pc
      <3>. QED BY <1>0, <3>1, <3>2 DEF IdlePreparer
    <2>2. CASE PrepStart(r)
      <3>1. PICK only \in PrepareScopes :
                LET batch == PreparedBatch(only)
                IN  prep' = [prep EXCEPT ![r] =
                             [@ EXCEPT !.pc = IF batch = <<>> THEN "idle" ELSE "preview",
                                       !.todo = batch]]
        BY <2>2 DEF PrepStart
      <3> DEFINE todo == PreparedBatch(only)
                 pc == IF todo = <<>> THEN "idle" ELSE "preview"
      <3>2. prep' = [prep EXCEPT ![r] = [@ EXCEPT !.pc = pc, !.todo = todo]]
        BY <3>1
      <3>3. pc \in {"idle", "preview"}
        OBVIOUS
      <3>. HIDE DEF pc, todo
      <3>4. /\ DOMAIN prep' = Preparers
            /\ DOMAIN prep'[r] = {"pc", "todo", "art", "row"} /\ prep'[r].pc = pc
            /\ \A q \in Preparers : q # r => prep'[q] = prep[q]
        BY <1>0, <3>2
      <3>. QED BY <1>0, <3>3, <3>4
    <2>3. CASE PrepPreview(r)
      <3> DEFINE art == Artifact(Source(r), post[Source(r)], Ids(r))
      <3>1. prep' = [prep EXCEPT ![r] = [@ EXCEPT !.pc = "reread", !.art = art]]
        BY <2>3 DEF PrepPreview
      <3>2. Placed(art)
        <4> DEFINE preview == PreviewLinks(post[Source(r)], Ids(r))
        <4>1. art = [source |-> Source(r), orig |-> post[Source(r)], upd |-> preview.content,
                     items |-> preview.items]
          BY DEF Artifact
        <4>. HIDE DEF preview, art
        <4>2. Source(r) \in Articles
          BY <2>3 DEF PrepPreview
        <4>. QED BY <4>1, <4>2 DEF Placed
      <3>. HIDE DEF art
      <3>3. /\ DOMAIN prep' = Preparers
            /\ DOMAIN prep'[r] = {"pc", "todo", "art", "row"} /\ prep'[r].art = art
            /\ \A q \in Preparers : q # r => prep'[q] = prep[q]
        BY <1>0, <3>1
      <3>. QED BY <1>0, <3>2, <3>3
    <2>4. CASE PrepReread(r)
      <3> DEFINE row == IF ActivePlans(Source(r)) = {} THEN None
                        ELSE CHOOSE p \in ActivePlans(Source(r)) : TRUE
      <3>1. /\ prep' = [prep EXCEPT ![r] = [@ EXCEPT !.pc = "store", !.row = row]]
            /\ prep[r].pc = "reread"
        BY <2>4 DEF PrepReread
      <3>. HIDE DEF row
      <3>2. /\ DOMAIN prep' = Preparers
            /\ DOMAIN prep'[r] = {"pc", "todo", "art", "row"} /\ prep'[r].art = prep[r].art
            /\ \A q \in Preparers : q # r => prep'[q] = prep[q]
        BY <1>0, <3>1
      <3>. QED BY <1>0, <3>1, <3>2
    <2>5. CASE NextArticle(r)
      BY <1>0, <2>1, <2>5
    <2>. QED BY <2>2, <2>3, <2>4, <2>5
             DEF Preparer, PrepStep, PrepSkip, PrepDiscard, PrepReuse, PrepStore
  <1>2. \A p \in PlanIds :
            /\ plan'[p].status = "applied" => plan[p].status = "applied"
            /\ plan'[p].status = "applied" \/ p \in locked => plan'[p].art = plan[p].art
            /\ plan'[p].status = "absent" => plan[p].status = "absent"
            /\ plan'[p].status # "absent" => Placed(plan'[p].art)
    <2>1. CASE plan' = plan
      BY <1>0, <2>1
    <2>2. CASE PrepStore(r) /\ plan' # plan
      <3>1. PICK q \in PlanIds :
                /\ IsNextPlanId(q)
                /\ plan' = [p \in PlanIds |->
                     CASE p = q -> [status |-> "prepared", art |-> prep[r].art,
                                    hash |-> Hash(prep[r].art), approvedHash |-> {}]
                       [] p \in Existing(r) -> [plan[p] EXCEPT !.status = "superseded"]
                       [] OTHER -> plan[p]]
        BY <2>2 DEF PrepStore
      <3>2. plan[q].status = "absent" /\ q \notin locked
        BY <3>1 DEF IsNextPlanId, FreePlanIds, Inv, Custody
      <3>3. \A p \in Existing(r) : p \in PlanIds /\ plan[p].status # "absent"
        BY DEF Existing, ActivePlans, ACTIVE_PLAN_STATUSES
      <3>4. Placed(prep[r].art)
        BY <1>0, <2>2 DEF PrepStore, Granted
      <3>5. SUFFICES ASSUME NEW p \in PlanIds
                     PROVE  /\ plan'[p].status = "applied" => plan[p].status = "applied"
                            /\ plan'[p].status = "applied" \/ p \in locked =>
                                   plan'[p].art = plan[p].art
                            /\ plan'[p].status = "absent" => plan[p].status = "absent"
                            /\ plan'[p].status # "absent" => Placed(plan'[p].art)
        OBVIOUS
      <3>6. CASE p = q
        <4> DEFINE new == [status |-> "prepared", art |-> prep[r].art,
                           hash |-> Hash(prep[r].art), approvedHash |-> {}]
        <4>1. plan'[p] = new
          BY <3>1, <3>2, <3>3, <3>6
        <4>2. new.status = "prepared" /\ new.art = prep[r].art
          OBVIOUS
        <4>. QED BY <3>2, <3>4, <3>6, <4>1, <4>2
      <3>7. CASE p # q /\ p \in Existing(r)
        <4>1. plan'[p] = [plan[p] EXCEPT !.status = "superseded"]
          BY <3>1, <3>7
        <4>2. plan'[p].status = "superseded" /\ plan'[p].art = plan[p].art
          BY <4>1 DEF Inv, Shape
        <4>. QED BY <1>0, <3>3, <3>7, <4>2
      <3>8. CASE p # q /\ p \notin Existing(r)
        <4>1. plan'[p] = plan[p]
          BY <3>1, <3>8
        <4>. QED BY <1>0, <4>1
      <3>. QED BY <3>6, <3>7, <3>8
    <2>. QED BY <2>1, <2>2 DEF Preparer, PrepStep, PrepStart, PrepPreview, PrepSkip, PrepReread,
                               PrepDiscard, PrepReuse, storeVars
  <1>. QED BY <1>0, <1>1, <1>2, OthersServe

LEMMA OperatorServes ==
    ASSUME Inv, ServedInv, Operator, Next
    PROVE  ServedInv'
  <1>0. /\ DOMAIN prep' = Preparers /\ worker' = worker
        /\ \A q \in Preparers :
              /\ DOMAIN prep'[q] = {"pc", "todo", "art", "row"}
              /\ prep'[q].pc \in {"reread", "store"} => Placed(prep'[q].art)
        /\ \A p \in PlanIds : plan[p].status # "absent" => Placed(plan[p].art)
    BY DEF ServedInv, Placing, Operator
  <1>1. ASSUME NEW p \in PlanIds, ViewPlan(p) PROVE ServedInv'
    <2>1. plan' = plan
      BY <1>1 DEF ViewPlan
    <2>. QED BY <1>0, <2>1, OthersServe
  <1>2. ASSUME NEW named \in SUBSET PlanIds, Approve(named) PROVE ServedInv'
    <2>1. /\ \A p \in named : p \notin locked /\ plan[p].status = "prepared"
          /\ plan' = [p \in PlanIds |->
                IF p \in named
                THEN [plan[p] EXCEPT !.status = "approved", !.approvedHash = {plan[p].hash}]
                ELSE plan[p]]
      BY <1>2 DEF Approve, Approvable
    <2>2. \A p \in PlanIds : p \notin named => plan'[p] = plan[p]
      BY <2>1
    <2>3. \A p \in named : plan'[p].status = "approved" /\ plan'[p].art = plan[p].art
      BY <2>1 DEF Inv, Shape
    <2>. QED BY <1>0, <2>1, <2>2, <2>3, OthersServe
  <1>. QED BY <1>1, <1>2 DEF Operator

LEMMA OutsideServes ==
    ASSUME Inv, ServedInv, Outside, Next
    PROVE  ServedInv'
  <1>0. /\ DOMAIN prep' = Preparers /\ worker' = worker
        /\ \A q \in Preparers :
              /\ DOMAIN prep'[q] = {"pc", "todo", "art", "row"}
              /\ prep'[q].pc \in {"reread", "store"} => Placed(prep'[q].art)
        /\ \A p \in PlanIds : plan[p].status # "absent" => Placed(plan[p].art)
    BY DEF ServedInv, Placing, Outside
  <1>1. CASE plan' = plan
    BY <1>0, <1>1, OthersServe
  <1>2. ASSUME NEW p \in PlanIds, NEW content, NEW rehash \in BOOLEAN, Tamper(p, content, rehash)
        PROVE  ServedInv'
    <2> DEFINE art == [plan[p].art EXCEPT !.upd = content]
               hash == IF rehash THEN Hash(art) ELSE plan[p].hash
    <2>1. /\ p \notin locked /\ plan[p].status \in {"prepared", "approved"}
          /\ plan' = [plan EXCEPT ![p].art = art, ![p].hash = hash]
      BY <1>2 DEF Tamper, ACTIVE_PLAN_STATUSES
    <2>2. Placed(art)
      BY <1>0, <2>1 DEF Placed
    <2>. HIDE DEF art, hash
    <2>3. /\ \A q \in PlanIds : q # p => plan'[q] = plan[q]
          /\ plan'[p].status = plan[p].status /\ plan'[p].art = art
      BY <2>1 DEF Inv, Shape
    <2>. QED BY <1>0, <2>1, <2>2, <2>3, OthersServe
  <1>. QED BY <1>1, <1>2 DEF Outside, HumanEdit, LateEffect

LEMMA ServedInit == Init => ServedInv
  <1> SUFFICES ASSUME Init PROVE ServedInv
    OBVIOUS
  <1> USE DEF Init, StoreInit, WorkerInit, PrepInit
  <1>1. History
    BY DEF History
  <1>2. Placing
    BY DEF Placing, IdlePreparer, IdleWorker, AbsentPlan, AtWork
  <1>3. Delivered
    BY DEF Delivered, AppliedWasServed, IdleWorker, AbsentPlan
  <1>. QED BY <1>1, <1>2, <1>3 DEF ServedInv

LEMMA ServedStep == Inv /\ ServedInv /\ [Next]_vars => ServedInv'
  <1> SUFFICES ASSUME Inv, ServedInv, [Next]_vars PROVE ServedInv'
    OBVIOUS
  <1>1. ASSUME UNCHANGED <<plan, worker, prep>> PROVE ServedInv'
    BY <1>1, OthersServe DEF ServedInv, Placing
  <1>2. Editor => UNCHANGED <<plan, worker, prep>>
    BY DEF Editor, ReviewStep, Review, ReviewBegin, ReviewEnd, FilterReview, Undo, PolicyRead,
           PolicyWrite, Retire, OnlySuggestions, storeVars
  <1>3. UNCHANGED vars => UNCHANGED <<plan, worker, prep>>
    BY DEF vars, storeVars
  <1>. QED BY <1>1, <1>2, <1>3, WorkerServes, PreparerServes, OperatorServes, OutsideServes
           DEF Next

(* A plan is reported applied only if its post really carried the approved *)
(* edit, whatever crashed, timed out, came late, was edited by people or   *)
(* rewritten out of band, for any number of workers and plans.             *)
THEOREM AppliedMeansServed == Spec => []AppliedWasServed
  <1>1. ServedInv => AppliedWasServed
    BY DEF ServedInv, Delivered
  <1>. QED BY <1>1, ServedInit, ServedStep, InitInv, NextInv, PTL DEF Spec

------------------------------------------------------------------------------
(* The cohort.  `before` is a strict total order on S.                     *)
Orders(S, before) ==
    /\ \A s \in S : <<s, s>> \notin before
    /\ \A s, t \in S : s # t => <<s, t>> \in before \/ <<t, s>> \in before
    /\ \A s, t, u \in S : <<s, t>> \in before /\ <<t, u>> \in before => <<s, u>> \in before

(* sorted: each element once, and in order.  An element's place is the     *)
(* number of elements before it, which no two share, and which takes every *)
(* value below the size of the set.                                        *)
LEMMA InOrderFact ==
    ASSUME NEW S, IsFiniteSet(S), NEW before, Orders(S, before)
    PROVE  /\ InOrder(S, before) \in Seq(S)
           /\ Len(InOrder(S, before)) = Cardinality(S)
           /\ DOMAIN InOrder(S, before) = 1..Cardinality(S)
           /\ \A s \in S : \E i \in 1..Cardinality(S) : InOrder(S, before)[i] = s
           /\ \A i, j \in 1..Cardinality(S) : i < j =>
                 <<InOrder(S, before)[i], InOrder(S, before)[j]>> \in before
  <1> DEFINE Ahead(s) == {t \in S : <<t, s>> \in before}
             rank == [s \in S |-> Cardinality(Ahead(s))]
             n == Cardinality(S)
             seq == InOrder(S, before)
  <1>1. n \in Nat
    BY FS_CardinalityType
  <1>2. \A s \in S : IsFiniteSet(Ahead(s)) /\ rank[s] \in Nat
    BY FS_Subset, FS_CardinalityType
  <1>3. ASSUME NEW s \in S PROVE rank[s] < n
    <2>1. Ahead(s) \in SUBSET S /\ Ahead(s) # S
      BY DEF Orders
    <2>2. Cardinality(Ahead(s)) <= n /\ (n = Cardinality(Ahead(s)) => S = Ahead(s))
      BY <2>1, FS_Subset
    <2>. QED BY <1>1, <1>2, <2>1, <2>2
  <1>4. ASSUME NEW s \in S, NEW t \in S, <<s, t>> \in before PROVE rank[s] < rank[t]
    <2>1. Ahead(s) \in SUBSET Ahead(t)
      BY <1>4 DEF Orders
    <2>2. s \in Ahead(t) /\ s \notin Ahead(s)
      BY <1>4 DEF Orders
    <2>3. /\ Cardinality(Ahead(s)) <= Cardinality(Ahead(t))
          /\ Cardinality(Ahead(t)) = Cardinality(Ahead(s)) => Ahead(t) = Ahead(s)
      BY <1>2, <2>1, FS_Subset
    <2>4. rank[s] <= rank[t] /\ rank[s] # rank[t]
      BY <2>2, <2>3
    <2>5. rank[s] \in Nat /\ rank[t] \in Nat
      BY <1>2
    <2>. HIDE DEF rank
    <2>. QED BY <2>4, <2>5
  <1>5. \A s, t \in S : s # t => rank[s] # rank[t]
    <2>1. ASSUME NEW s \in S, NEW t \in S, s # t PROVE rank[s] # rank[t]
      <3>1. <<s, t>> \in before \/ <<t, s>> \in before
        BY <2>1 DEF Orders
      <3>2. rank[s] < rank[t] \/ rank[t] < rank[s]
        BY <1>4, <3>1
      <3>. QED BY <1>2, <3>2
    <2>. QED BY <2>1
  <1>. HIDE DEF rank
  <1>6. \A v \in 0..(n - 1) : \E s \in S : rank[s] = v
    <2>1. rank \in [S -> 0..(n - 1)]
      BY <1>1, <1>2, <1>3 DEF rank
    <2>2. rank \in Injection(S, 0..(n - 1))
      BY <1>5, <2>1 DEF Injection, IsInjective
    <2>3. IsFiniteSet(0..(n - 1)) /\ Cardinality(0..(n - 1)) = n
      BY <1>1, FS_Interval
    <2>4. rank \in Surjection(S, 0..(n - 1))
      BY <2>2, <2>3, FS_Injection
    <2>. QED BY <2>4 DEF Surjection
  <1>7. DOMAIN seq = 1..n /\ \A i \in 1..n : seq[i] \in S /\ rank[seq[i]] = i - 1
    <2>1. seq = [i \in 1..n |-> CHOOSE s \in S : Cardinality(Ahead(s)) = i - 1]
      BY DEF InOrder
    <2>2. ASSUME NEW i \in 1..n PROVE seq[i] \in S /\ rank[seq[i]] = i - 1
      <3>1. i - 1 \in 0..(n - 1)
        BY <1>1
      <3>2. PICK s \in S : rank[s] = i - 1
        BY <1>6, <3>1
      <3>3. seq[i] = CHOOSE u \in S : Cardinality(Ahead(u)) = i - 1
        BY <2>1
      <3>4. Cardinality(Ahead(s)) = i - 1
        BY <3>2 DEF rank
      <3>5. seq[i] \in S /\ Cardinality(Ahead(seq[i])) = i - 1
        BY <3>3, <3>4
      <3>. QED BY <3>5 DEF rank
    <2>. QED BY <2>1, <2>2
  <1>8. seq \in Seq(S) /\ Len(seq) = n
    <2> DEFINE pick(i) == CHOOSE s \in S : Cardinality(Ahead(s)) = i - 1
    <2>1. seq = [i \in 1..n |-> pick(i)]
      BY DEF InOrder
    <2> HIDE DEF seq, n, pick
    <2>2. \A i \in 1..n : pick(i) \in S
      BY <1>7, <2>1
    <2>. QED BY <1>1, <2>1, <2>2
  <1>9. ASSUME NEW s \in S PROVE \E i \in 1..n : seq[i] = s
    <2> HIDE DEF seq, n
    <2>0. rank[s] \in Nat /\ rank[s] < n
      BY <1>2, <1>3 DEF rank
    <2>1. rank[s] + 1 \in 1..n /\ (rank[s] + 1) - 1 = rank[s]
      BY <1>1, <2>0
    <2>2. seq[rank[s] + 1] \in S /\ rank[seq[rank[s] + 1]] = rank[s]
      BY <1>7, <2>1
    <2>3. seq[rank[s] + 1] = s
      BY <1>5, <2>2
    <2>. QED BY <1>7, <2>1, <2>3
  <1>10. ASSUME NEW i \in 1..n, NEW j \in 1..n, i < j PROVE <<seq[i], seq[j]>> \in before
    <2>1. /\ seq[i] \in S /\ seq[j] \in S /\ i \in Nat /\ j \in Nat
          /\ rank[seq[i]] = i - 1 /\ rank[seq[j]] = j - 1
      BY <1>1, <1>7
    <2>2. ~(rank[seq[j]] < rank[seq[i]]) /\ rank[seq[i]] # rank[seq[j]]
      BY <1>10, <2>1
    <2> HIDE DEF seq
    <2>3. seq[i] # seq[j]
      BY <2>2
    <2>. QED BY <1>4, <2>1, <2>2, <2>3 DEF Orders
  <1>. HIDE DEF seq, n
  <1>11. /\ seq \in Seq(S) /\ Len(seq) = n /\ DOMAIN seq = 1..n
         /\ \A s \in S : \E i \in 1..n : seq[i] = s
         /\ \A i, j \in 1..n : i < j => <<seq[i], seq[j]>> \in before
    BY <1>7, <1>8, <1>9, <1>10
  <1>. QED BY <1>11 DEF seq, n

(* What the selection may rely on: row ids are naturals, scores numbers.   *)
Scored(row, S) ==
    /\ IsFiniteSet(S) /\ S \subseteq Nat
    /\ \A s \in S : row[s].source \in Nat /\ row[s].score \in Int /\ row[s].bm25 \in Int

RowsOf(row, chosen, a) == {s \in chosen : row[s].source = a}

(* The rows of one article: all of them, once, in the order of anchor      *)
(* arbitration.                                                            *)
LEMMA GroupFact ==
    ASSUME NEW row, NEW chosen, Scored(row, chosen), NEW a
    PROVE  /\ GroupOf(row, chosen, a).source = a
           /\ GroupOf(row, chosen, a).ids \in Seq(RowsOf(row, chosen, a))
           /\ \A s \in RowsOf(row, chosen, a) :
                 \E i \in DOMAIN GroupOf(row, chosen, a).ids : GroupOf(row, chosen, a).ids[i] = s
           /\ \A i, j \in DOMAIN GroupOf(row, chosen, a).ids : i < j =>
                 PublicationBefore(row, GroupOf(row, chosen, a).ids[i], GroupOf(row, chosen, a).ids[j])
           /\ RowsOf(row, chosen, a) # {} =>
                 GroupOf(row, chosen, a).ids[1] \in RowsOf(row, chosen, a)
  <1> DEFINE rows == {s \in chosen : row[s].source = a}
             before == {st \in rows \X rows : PublicationBefore(row, st[1], st[2])}
             ids == InOrder(rows, before)
  <1>1. IsFiniteSet(rows)
    BY FS_Subset DEF Scored
  <1>2. \A s \in rows : s \in Nat /\ row[s].score \in Int /\ row[s].bm25 \in Int
    BY DEF Scored
  <1>3. \A s, t \in rows : <<s, t>> \in before <=> PublicationBefore(row, s, t)
    OBVIOUS
  <1>4. Orders(rows, before)
    <2>. HIDE DEF rows, before
    <2>. QED BY <1>2, <1>3 DEF Orders, PublicationBefore, DirectionBefore
  <1>5. GroupOf(row, chosen, a) = [source |-> a, ids |-> ids]
    BY DEF GroupOf
  <1>. HIDE DEF rows, before
  <1>6. /\ ids \in Seq(rows) /\ Len(ids) = Cardinality(rows) /\ DOMAIN ids = 1..Cardinality(rows)
        /\ \A s \in rows : \E i \in 1..Cardinality(rows) : ids[i] = s
        /\ \A i, j \in 1..Cardinality(rows) : i < j => <<ids[i], ids[j]>> \in before
    BY ONLY <1>1, <1>4, InOrderFact
  <1>7. Cardinality(rows) \in Nat
    BY <1>1, FS_CardinalityType
  <1>. HIDE DEF ids
  <1>8. \A i \in DOMAIN ids : ids[i] \in rows
    BY <1>6, <1>7
  <1>9. \A i, j \in DOMAIN ids : i < j => PublicationBefore(row, ids[i], ids[j])
    BY <1>3, <1>6, <1>8
  <1>10. rows # {} => ids[1] \in rows
    <2>1. SUFFICES ASSUME NEW s \in rows PROVE ids[1] \in rows
      OBVIOUS
    <2>2. PICK i \in 1..Cardinality(rows) : ids[i] = s
      BY <1>6
    <2>3. 1 \in DOMAIN ids
      BY <1>6, <1>7, <2>2
    <2>. QED BY <1>8, <2>3
  <1>11. GroupOf(row, chosen, a).source = a /\ GroupOf(row, chosen, a).ids = ids
    BY <1>5
  <1>12. RowsOf(row, chosen, a) = rows
    BY DEF RowsOf, rows
  <1>. QED BY <1>6, <1>8, <1>9, <1>10, <1>11, <1>12

GroupsOf(row, chosen) == {GroupOf(row, chosen, row[s].source) : s \in chosen}

(* The groups of a batch in order, no article twice.                       *)
Sorts(row, chosen, batch) ==
    /\ Scored(row, chosen)
    /\ batch \in Seq(GroupsOf(row, chosen))
    /\ \A g \in GroupsOf(row, chosen) : \E i \in DOMAIN batch : batch[i] = g
    /\ \A i, j \in DOMAIN batch : i < j =>
          batch[i].source # batch[j].source /\ GroupBefore(row, batch[i], batch[j])

(* The batch: one group for each article that has a chosen row, no article *)
(* twice, each with all its chosen rows.                                   *)
LEMMA BatchFact ==
    ASSUME NEW row, NEW selected, NEW applied, NEW only, Scored(row, selected)
    PROVE  Sorts(row, Chosen(row, selected, applied, only),
                 GroupedBatch(row, selected, applied, only))
  <1> DEFINE chosen == Chosen(row, selected, applied, only)
             groups == {GroupOf(row, chosen, row[s].source) : s \in chosen}
             before == {gh \in groups \X groups : GroupBefore(row, gh[1], gh[2])}
             batch == InOrder(groups, before)
  <1>1. chosen \in SUBSET selected
    BY DEF Chosen, Kept
  <1>. HIDE DEF chosen
  <1>2. Scored(row, chosen)
    BY <1>1, FS_Subset DEF Scored
  <1>3. IsFiniteSet(groups)
    <2> DEFINE f == [s \in chosen |-> GroupOf(row, chosen, row[s].source)]
    <2>1. groups = {f[s] : s \in chosen}
      OBVIOUS
    <2>2. f \in Surjection(chosen, groups)
      BY <2>1 DEF Surjection
    <2>. QED BY <1>2, <2>2, FS_Surjection DEF Scored
  <1>4. ASSUME NEW g \in groups
        PROVE  /\ g = GroupOf(row, chosen, g.source)
               /\ g.source \in Nat /\ row[g.ids[1]].score \in Int
    <2>1. PICK s \in chosen : g = GroupOf(row, chosen, row[s].source)
      OBVIOUS
    <2> DEFINE a == row[s].source
    <2>2. s \in RowsOf(row, chosen, a)
      BY DEF RowsOf
    <2>. HIDE DEF a
    <2>3. /\ GroupOf(row, chosen, a).source = a
          /\ GroupOf(row, chosen, a).ids[1] \in RowsOf(row, chosen, a)
      BY ONLY <1>2, <2>2, GroupFact
    <2>4. g = GroupOf(row, chosen, a)
      BY <2>1 DEF a
    <2>5. g.source = a /\ g.ids[1] \in chosen /\ a \in Nat
      BY <1>2, <2>2, <2>3, <2>4 DEF a, Scored, RowsOf
    <2>. QED BY <1>2, <2>4, <2>5 DEF Scored
  <1>5. \A g, h \in groups : <<g, h>> \in before <=> GroupBefore(row, g, h)
    OBVIOUS
  <1>. HIDE DEF groups, before
  <1>6. Orders(groups, before)
    <2>1. \A g, h \in groups : g.source = h.source => g = h
      <3>1. ASSUME NEW g \in groups, NEW h \in groups, g.source = h.source PROVE g = h
        <4>1. g = GroupOf(row, chosen, g.source) /\ h = GroupOf(row, chosen, h.source)
          BY <1>4
        <4>. QED BY <3>1, <4>1
      <3>. QED BY <3>1
    <2>2. \A g \in groups : g.source \in Nat /\ row[g.ids[1]].score \in Int
      BY <1>4
    <2>. QED BY <1>5, <2>1, <2>2 DEF Orders, GroupBefore
  <1>7. /\ batch \in Seq(groups) /\ DOMAIN batch = 1..Cardinality(groups)
        /\ Len(batch) = Cardinality(groups)
        /\ \A g \in groups : \E i \in 1..Cardinality(groups) : batch[i] = g
        /\ \A i, j \in 1..Cardinality(groups) : i < j => <<batch[i], batch[j]>> \in before
    BY ONLY <1>3, <1>6, InOrderFact
  <1>8. GroupedBatch(row, selected, applied, only) = batch
    BY DEF GroupedBatch, batch, before, groups, chosen
  <1>. HIDE DEF batch
  <1>9. ASSUME NEW i \in DOMAIN batch, NEW j \in DOMAIN batch, i < j
        PROVE  GroupBefore(row, batch[i], batch[j]) /\ batch[i].source # batch[j].source
    <2>1. batch[i] \in groups /\ batch[j] \in groups /\ <<batch[i], batch[j]>> \in before
      BY <1>7, <1>9
    <2>2. batch[i].source = batch[j].source => batch[i] = batch[j]
      BY <1>4, <2>1
    <2>. QED BY <1>5, <1>6, <2>1, <2>2 DEF Orders
  <1>10. GroupsOf(row, chosen) = groups
    BY DEF GroupsOf, groups
  <1>11. Sorts(row, chosen, batch)
    BY <1>2, <1>7, <1>9, <1>10 DEF Sorts
  <1>. QED BY <1>8, <1>11 DEF chosen

(* A pair's best row exists.                                               *)
LEMMA BestOfPair ==
    ASSUME NEW row, NEW P, Scored(row, P), P # {}
    PROVE  \E t \in P : \A u \in P \ {t} : DirectionBefore(row, t, u)
  <1> DEFINE before == {st \in P \X P : DirectionBefore(row, st[1], st[2])}
             n == Cardinality(P)
             seq == InOrder(P, before)
  <1>1. \A s, t \in P : <<s, t>> \in before <=> DirectionBefore(row, s, t)
    OBVIOUS
  <1>2. IsFiniteSet(P) /\ \A s \in P : s \in Nat /\ row[s].score \in Int
    BY DEF Scored
  <1>. HIDE DEF before
  <1>3. Orders(P, before)
    BY <1>1, <1>2 DEF Orders, DirectionBefore
  <1>4. /\ seq \in Seq(P) /\ Len(seq) = n /\ DOMAIN seq = 1..n
        /\ \A s \in P : \E i \in 1..n : seq[i] = s
        /\ \A i, j \in 1..n : i < j => <<seq[i], seq[j]>> \in before
    <2>1. IsFiniteSet(P)
      BY <1>2
    <2> QED BY ONLY <1>3, <2>1, InOrderFact
  <1>5. n \in Nat
    BY <1>2, FS_CardinalityType
  <1>. HIDE DEF seq, n
  <1>6. 1 \in 1..n /\ seq[1] \in P
    <2>1. PICK s \in P : TRUE
      OBVIOUS
    <2>2. PICK i \in 1..n : seq[i] = s
      BY <1>4
    <2>. QED BY <1>4, <1>5, <2>2
  <1>7. ASSUME NEW u \in P \ {seq[1]} PROVE DirectionBefore(row, seq[1], u)
    <2>1. PICK i \in 1..n : seq[i] = u
      BY <1>4
    <2>2. 1 < i
      BY <1>5, <1>7, <2>1
    <2>. QED BY <1>1, <1>4, <1>6, <2>1, <2>2
  <1>. QED BY <1>6, <1>7

(* A batch of the chosen rows, each in the group of its article.           *)
Arranged(row, chosen, batch) ==
    /\ BatchRows(batch) = chosen
    /\ batch \in Seq([source : Nat, ids : Seq(chosen)])
    /\ \A i \in DOMAIN batch :
          /\ \A k \in DOMAIN batch[i].ids : row[batch[i].ids[k]].source = batch[i].source
          /\ \A k, l \in DOMAIN batch[i].ids : k < l =>
                PublicationBefore(row, batch[i].ids[k], batch[i].ids[l])
    /\ \A i, j \in DOMAIN batch : i < j =>
          batch[i].source # batch[j].source /\ GroupBefore(row, batch[i], batch[j])

LEMMA SortedIsArranged ==
    ASSUME NEW row, NEW chosen, NEW batch, Sorts(row, chosen, batch)
    PROVE  Arranged(row, chosen, batch)
  <1> DEFINE groups == GroupsOf(row, chosen)
  <1>1. /\ Scored(row, chosen) /\ batch \in Seq(groups)
        /\ \A g \in groups : \E i \in DOMAIN batch : batch[i] = g
        /\ \A i, j \in DOMAIN batch : i < j =>
              batch[i].source # batch[j].source /\ GroupBefore(row, batch[i], batch[j])
    BY DEF Sorts
  <1>2. ASSUME NEW g \in groups
        PROVE  /\ g \in [source : Nat, ids : Seq(chosen)]
               /\ \A k \in DOMAIN g.ids : g.ids[k] \in chosen /\ row[g.ids[k]].source = g.source
               /\ \A k, l \in DOMAIN g.ids : k < l => PublicationBefore(row, g.ids[k], g.ids[l])
    <2>1. PICK s \in chosen : g = GroupOf(row, chosen, row[s].source)
      BY DEF GroupsOf
    <2> DEFINE a == row[s].source
    <2>2. a \in Nat
      BY <1>1 DEF Scored
    <2>3. g = GroupOf(row, chosen, a)
      BY <2>1
    <2>. HIDE DEF a
    <2>4. /\ g.source = a /\ g.ids \in Seq(RowsOf(row, chosen, a))
          /\ \A k, l \in DOMAIN g.ids : k < l => PublicationBefore(row, g.ids[k], g.ids[l])
      BY ONLY <1>1, <2>3, GroupFact
    <2>5. RowsOf(row, chosen, a) \subseteq chosen /\ \A t \in RowsOf(row, chosen, a) : row[t].source = a
      BY DEF RowsOf
    <2>6. \A k \in DOMAIN g.ids : g.ids[k] \in RowsOf(row, chosen, a)
      BY <2>4
    <2>7. g.ids \in Seq(chosen)
      BY <2>4, <2>5, <2>6
    <2>8. g = [source |-> g.source, ids |-> g.ids]
      BY <2>3 DEF GroupOf
    <2>9. g \in [source : Nat, ids : Seq(chosen)]
      BY <2>2, <2>4, <2>7, <2>8
    <2>. QED BY <2>4, <2>5, <2>6, <2>9
  <1>3. ASSUME NEW s \in chosen
        PROVE  \E g \in groups : \E k \in DOMAIN g.ids : g.ids[k] = s
    <2> DEFINE a == row[s].source
    <2>1. GroupOf(row, chosen, a) \in groups
      BY DEF GroupsOf
    <2>2. s \in RowsOf(row, chosen, a)
      BY DEF RowsOf
    <2>3. \E k \in DOMAIN GroupOf(row, chosen, a).ids : GroupOf(row, chosen, a).ids[k] = s
      BY <1>1, <2>2, GroupFact
    <2>. QED BY <2>1, <2>3
  <1>. HIDE DEF groups
  <1>4. \A i \in DOMAIN batch : batch[i] \in groups
    BY <1>1
  <1>5. BatchRows(batch) \subseteq chosen
    BY <1>2, <1>4 DEF BatchRows, ToSet
  <1>6. ASSUME NEW s \in chosen PROVE s \in BatchRows(batch)
    <2>1. PICK g \in groups : \E k \in DOMAIN g.ids : g.ids[k] = s
      BY <1>3
    <2>2. PICK i \in DOMAIN batch : batch[i] = g
      BY <1>1
    <2>. QED BY <2>1, <2>2 DEF BatchRows, ToSet
  <1>7. batch \in Seq([source : Nat, ids : Seq(chosen)])
    <2> DEFINE T == [source : Nat, ids : Seq(chosen)]
    <2>1. \A i \in DOMAIN batch : batch[i] \in T
      BY <1>2, <1>4
    <2>. HIDE DEF T
    <2>2. batch \in Seq(T)
      BY <1>1, <2>1
    <2>. QED BY <2>2 DEF T
  <1>8. BatchRows(batch) = chosen
    BY <1>5, <1>6
  <1>9. \A i \in DOMAIN batch :
          /\ \A k \in DOMAIN batch[i].ids : row[batch[i].ids[k]].source = batch[i].source
          /\ \A k, l \in DOMAIN batch[i].ids : k < l =>
                PublicationBefore(row, batch[i].ids[k], batch[i].ids[l])
    BY <1>2, <1>4
  <1>. QED BY <1>1, <1>7, <1>8, <1>9 DEF Arranged

(* grouped_batch, for every set of rows, any scores and any choice of the  *)
(* named links: one preparation never renders both directions of a pair    *)
(* nor the reverse of an applied link, every row it leaves out has its     *)
(* reverse applied or chosen, and naming links only cuts the batch down.   *)
(* No suggestion links an article to itself.                               *)
THEOREM CohortIsExact ==
    ASSUME NEW row, NEW selected, NEW applied, NEW only, Scored(row, selected),
           \A s \in selected : row[s].source # row[s].target
    PROVE  BatchExact(row, selected, applied, only, GroupedBatch(row, selected, applied, only))
  <1> DEFINE eligible == {s \in selected : ~ReverseApplied(row, applied, s)}
             kept == Kept(row, eligible)
             batch == GroupedBatch(row, selected, applied, only)
             chosen == Chosen(row, selected, applied, only)
             rows == BatchRows(batch)
  <1>1. chosen = kept \cap only
    BY DEF Chosen
  <1>2. Chosen(row, selected, applied, selected) = kept
    BY DEF Chosen, Kept
  <1>3. /\ rows = chosen
        /\ \A i \in DOMAIN batch :
              /\ \A k \in DOMAIN batch[i].ids : row[batch[i].ids[k]].source = batch[i].source
              /\ \A k, l \in DOMAIN batch[i].ids : k < l =>
                    PublicationBefore(row, batch[i].ids[k], batch[i].ids[l])
        /\ \A i, j \in DOMAIN batch : i < j =>
              batch[i].source # batch[j].source /\ GroupBefore(row, batch[i], batch[j])
    <2>1. Arranged(row, chosen, batch)
      BY BatchFact, SortedIsArranged
    <2>. QED BY <2>1 DEF Arranged
  <1>4. BatchRows(GroupedBatch(row, selected, applied, selected)) = kept
    <2>1. Arranged(row, kept, GroupedBatch(row, selected, applied, selected))
      BY <1>2, BatchFact, SortedIsArranged
    <2>. QED BY <2>1 DEF Arranged
  <1>5. kept \subseteq eligible /\ eligible \subseteq selected
    BY DEF Kept
  <1>6. ASSUME NEW s \in kept, NEW t \in kept, Reciprocal(row, s, t) PROVE FALSE
    <2> DEFINE P == PairRows(row, eligible, s)
    <2>1. PairRows(row, eligible, t) = P
      BY <1>6 DEF PairRows, Reciprocal
    <2>2. PICK u \in P : row[u].source = row[s].source /\ \A v \in P \ {u} : DirectionBefore(row, u, v)
      BY DEF Kept
    <2>3. PICK w \in P : row[w].source = row[t].source /\ \A v \in P \ {w} : DirectionBefore(row, w, v)
      BY <2>1 DEF Kept
    <2>4. P \subseteq selected
      BY DEF PairRows
    <2>. HIDE DEF P
    <2>5. /\ u \in Nat /\ w \in Nat /\ row[u].score \in Int /\ row[w].score \in Int
      BY <2>4 DEF Scored
    <2>6. u = w
      <3>1. SUFFICES ASSUME u # w PROVE FALSE
        OBVIOUS
      <3>2. DirectionBefore(row, u, w) /\ DirectionBefore(row, w, u)
        BY <2>2, <2>3, <3>1
      <3>. QED BY <2>5, <3>2 DEF DirectionBefore
    <2>7. row[s].source = row[t].source /\ row[t].source = row[s].target /\ s \in selected
      BY <1>5, <1>6, <2>2, <2>3, <2>6 DEF Reciprocal
    <2>. QED BY <2>7
  <1>7. ASSUME NEW s \in kept, NEW t \in applied PROVE ~Reciprocal(row, s, t)
    BY <1>5 DEF ReverseApplied
  <1>8. ASSUME NEW s \in (selected \cap only) \ chosen, ~ReverseApplied(row, applied, s)
        PROVE  \E t \in selected : /\ Reciprocal(row, s, t)
                                   /\ ~ReverseApplied(row, applied, t)
                                   /\ t \in only => t \in chosen
    <2> DEFINE P == PairRows(row, eligible, s)
    <2>1. s \in eligible /\ s \notin kept
      BY <1>1, <1>8
    <2>2. s \in P /\ P \subseteq eligible
      BY <2>1 DEF PairRows
    <2>3. Scored(row, P)
      <3>1. P \in SUBSET selected
        BY <1>5, <2>2
      <3>. QED BY <3>1, FS_Subset DEF Scored
    <2>4. PICK t \in P : \A u \in P \ {t} : DirectionBefore(row, t, u)
      BY <2>2, <2>3, BestOfPair
    <2>5. {row[t].source, row[t].target} = {row[s].source, row[s].target}
      BY DEF PairRows
    <2>6. row[t].source # row[s].source
      BY <2>1, <2>4 DEF Kept
    <2>7. Reciprocal(row, s, t)
      BY <2>5, <2>6 DEF Reciprocal
    <2>8. PairRows(row, eligible, t) = P
      BY <2>5 DEF PairRows
    <2>9. t \in eligible
      BY <2>2
    <2>10. t \in kept
      BY <2>4, <2>8, <2>9 DEF Kept
    <2>. QED BY <1>1, <2>7, <2>9, <2>10
  <1>9. kept \cap only = chosen
    BY <1>1
  <1>. HIDE DEF eligible, kept, batch, chosen
  <1>10. /\ \A s \in rows, t \in rows \cup applied : ~Reciprocal(row, s, t)
         /\ \A s \in (selected \cap only) \ rows :
               \/ ReverseApplied(row, applied, s)
               \/ \E t \in selected : /\ Reciprocal(row, s, t)
                                      /\ ~ReverseApplied(row, applied, t)
                                      /\ t \in only => t \in rows
         /\ rows = BatchRows(GroupedBatch(row, selected, applied, selected)) \cap only
    BY <1>3, <1>4, <1>6, <1>7, <1>8, <1>9
  <1>. QED BY <1>3, <1>10 DEF BatchExact, batch

------------------------------------------------------------------------------
(* What is bound to an approved plan.                                      *)

(* An artifact renders links of its own article only.                      *)
Owned(art) ==
    \A i \in DOMAIN art.items :
        art.items[i].sid \in Suggestions /\ Row[art.items[i].sid].source = art.source

OwnGroups ==
    {g \in [source : Nat, ids : Seq(Suggestions)] :
        \A k \in DOMAIN g.ids : Row[g.ids[k]].source = g.source}

(* A preparation works through such groups, and freezes the one at its     *)
(* head.                                                                   *)
Proposed(r) ==
    /\ prep[r].todo \in Seq(OwnGroups)
    /\ prep[r].pc # "idle" => prep[r].todo # <<>>
    /\ prep[r].pc \in {"reread", "store"} =>
          Owned(prep[r].art) /\ prep[r].art.source = Source(r)

PlansOwn == \A p \in PlanIds : plan[p].status # "absent" => Owned(plan[p].art)

(* The unique index on active plans.                                       *)
OnePerArticle ==
    \A p, q \in PlanIds :
        /\ plan[p].status \in ACTIVE_PLAN_STATUSES /\ plan[q].status \in ACTIVE_PLAN_STATUSES
        /\ plan[p].art.source = plan[q].art.source
        => p = q

(* The worker's locks keep the bound rows as they were at the claim.       *)
LockedRows == \A p \in locked : \A s \in BoundTo(p) : sugg[s].status = "approved"

BoundInv ==
    /\ \A r \in Preparers : Proposed(r)
    /\ PlansOwn
    /\ OnePerArticle
    /\ ApprovedPlanIsBound
    /\ LockedRows

(* The batch of a preparation: every row in the group of its own article.  *)
LEMMA BatchIsOwn ==
    ASSUME NEW only
    PROVE  PreparedBatch(only) \in Seq(OwnGroups)
  <1> DEFINE groups == GroupedBatch(Row, Selected, Applied, only)
             chosen == Chosen(Row, Selected, Applied, only)
             n == IF Len(groups) < MaxArticles THEN Len(groups) ELSE MaxArticles
  <1>1. Selected \in SUBSET Suggestions
    BY DEF Selected
  <1>2. Scored(Row, Selected)
    BY <1>1, StoreAssumption, FS_Subset DEF Scored
  <1>3. Arranged(Row, chosen, groups)
    BY <1>2, BatchFact, SortedIsArranged
  <1>4. chosen \subseteq Suggestions
    BY <1>1 DEF Chosen, Kept
  <1>5. PreparedBatch(only) = SubSeq(groups, 1, n)
    BY DEF PreparedBatch
  <1>. HIDE DEF groups, chosen
  <1>6. groups \in Seq(OwnGroups)
    <2>1. groups \in Seq([source : Nat, ids : Seq(chosen)])
      BY <1>3 DEF Arranged
    <2>2. ASSUME NEW i \in DOMAIN groups PROVE groups[i] \in OwnGroups
      <3> DEFINE T == [source : Nat, ids : Seq(chosen)]
      <3>1. groups[i] \in T
        <4>. HIDE DEF T
        <4>1. groups \in Seq(T)
          BY <2>1 DEF T
        <4>. QED BY <4>1
      <3>2. groups[i].ids \in Seq(Suggestions)
        BY <1>4, <3>1
      <3>3. groups[i] \in [source : Nat, ids : Seq(Suggestions)]
        BY <3>1, <3>2
      <3>. QED BY <1>3, <3>3 DEF OwnGroups, Arranged
    <2>. QED BY <2>1, <2>2
  <1>7. n \in 0..Len(groups)
    BY <1>6, PrepareAssumption
  <1>. HIDE DEF n
  <1>8. SubSeq(groups, 1, n) \in Seq(OwnGroups)
    BY <1>6, <1>7, SubSeqProperties
  <1>. QED BY <1>5, <1>8

(* What a preparation freezes are the links of the group at its head.      *)
LEMMA ArtifactIsOwn ==
    ASSUME NEW g \in OwnGroups, NEW live
    PROVE  Owned(Artifact(g.source, live, g.ids)) /\ Artifact(g.source, live, g.ids).source = g.source
  <1> DEFINE art == Artifact(g.source, live, g.ids)
             preview == PreviewLinks(live, g.ids)
  <1>1. art.source = g.source /\ art.items = preview.items
    BY DEF Artifact
  <1>2. DOMAIN preview.items = 1..Len(g.ids) /\ \A n \in 1..Len(g.ids) : preview.items[n].sid = g.ids[n]
    BY DEF PreviewLinks
  <1>3. \A n \in 1..Len(g.ids) : g.ids[n] \in Suggestions /\ Row[g.ids[n]].source = g.source
    BY DEF OwnGroups
  <1>. HIDE DEF art, preview
  <1>4. Owned(art)
    BY <1>1, <1>2, <1>3 DEF Owned
  <1>. QED BY <1>1, <1>4 DEF art

(* How a preparer moves on.                                                *)
LEMMA PreparerProposes ==
    ASSUME ServedInv, NEW r \in Preparers, Preparer(r), \A q \in Preparers : Proposed(q)
    PROVE  \A q \in Preparers : Proposed(q)'
  <1>0. /\ DOMAIN prep = Preparers
        /\ \A q \in Preparers : DOMAIN prep[q] = {"pc", "todo", "art", "row"}
        /\ prep[r].todo \in Seq(OwnGroups) /\ (prep[r].pc # "idle" => prep[r].todo # <<>>)
    BY DEF ServedInv, Placing, Proposed
  <1>1. ASSUME NEW v, prep' = [prep EXCEPT ![r] = v], v.todo \in Seq(OwnGroups),
               v.pc # "idle" => v.todo # <<>>,
               v.pc \in {"reread", "store"} => Owned(v.art) /\ v.art.source = Head(v.todo).source
        PROVE  \A q \in Preparers : Proposed(q)'
    <2>1. prep'[r] = v /\ \A q \in Preparers : q # r => prep'[q] = prep[q]
      BY <1>0, <1>1
    <2>2. Proposed(r)'
      BY <1>1, <2>1 DEF Proposed, Source
    <2>3. \A q \in Preparers : q # r => Proposed(q)'
      BY <2>1 DEF Proposed, Source
    <2>. QED BY <2>2, <2>3
  <1>2. ASSUME NextArticle(r), prep[r].pc # "idle" PROVE \A q \in Preparers : Proposed(q)'
    <2> DEFINE left == Tail(prep[r].todo)
               pc == IF Len(prep[r].todo) > 1 THEN "preview" ELSE "idle"
               v == [IdlePreparer EXCEPT !.todo = left, !.pc = pc]
    <2>1. prep' = [prep EXCEPT ![r] = v]
      BY <1>2 DEF NextArticle
    <2>2. /\ left \in Seq(OwnGroups) /\ Len(left) = Len(prep[r].todo) - 1
          /\ Len(prep[r].todo) \in Nat
      BY <1>0, <1>2, HeadTailProperties
    <2>. HIDE DEF left
    <2>4. (pc # "idle" => Len(left) # 0) /\ pc \in {"preview", "idle"}
      <3>1. CASE Len(prep[r].todo) > 1
        <4>1. pc = "preview"
          BY <3>1
        <4>2. Len(left) # 0
          <5> DEFINE n == Len(prep[r].todo)
                     m == Len(left)
          <5>1. n \in Nat /\ m = n - 1 /\ n > 1
            BY ONLY <2>2, <3>1
          <5>. HIDE DEF n, m
          <5>2. m # 0
            BY ONLY <5>1
          <5>. QED BY <5>2 DEF m
        <4>. QED BY <4>1, <4>2
      <3>2. CASE ~(Len(prep[r].todo) > 1)
        BY <3>2
      <3>. QED BY <3>1, <3>2
    <2>5. Len(left) # 0 => left # <<>>
      BY ONLY EmptySeq
    <2>. HIDE DEF pc
    <2>3. v.todo = left /\ v.pc = pc
      BY DEF IdlePreparer
    <2>. HIDE DEF v
    <2>. QED BY <1>1, <2>1, <2>2, <2>3, <2>4, <2>5
  <1>3. CASE PrepStart(r)
    <2>1. PICK only \in PrepareScopes :
              LET batch == PreparedBatch(only)
              IN  prep' = [prep EXCEPT ![r] =
                             [@ EXCEPT !.pc = IF batch = <<>> THEN "idle" ELSE "preview",
                                       !.todo = batch]]
      BY <1>3 DEF PrepStart
    <2> DEFINE todo == PreparedBatch(only)
               pc == IF todo = <<>> THEN "idle" ELSE "preview"
               v == [prep[r] EXCEPT !.pc = pc, !.todo = todo]
    <2>2. prep' = [prep EXCEPT ![r] = v]
      BY <2>1
    <2>3. todo \in Seq(OwnGroups)
      BY BatchIsOwn
    <2>. HIDE DEF todo
    <2>4. (pc # "idle" => todo # <<>>) /\ pc \in {"idle", "preview"}
      OBVIOUS
    <2>. HIDE DEF pc
    <2>5. v.todo = todo /\ v.pc = pc
      BY <1>0
    <2>. HIDE DEF v
    <2>. QED BY <1>1, <2>2, <2>3, <2>4, <2>5
  <1>4. CASE PrepPreview(r)
    <2> DEFINE g == Head(prep[r].todo)
               art == Artifact(g.source, post[g.source], g.ids)
               v == [prep[r] EXCEPT !.pc = "reread", !.art = art]
    <2>1. prep' = [prep EXCEPT ![r] = v] /\ prep[r].pc = "preview"
      BY <1>4 DEF PrepPreview, Source, Ids
    <2>2. g \in OwnGroups
      BY <1>0, <2>1
    <2>. HIDE DEF g
    <2>3. Owned(art) /\ art.source = g.source
      BY <2>2, ArtifactIsOwn
    <2>. HIDE DEF art
    <2>4. v.todo = prep[r].todo /\ v.pc = "reread" /\ v.art = art
      BY <1>0
    <2>. HIDE DEF v
    <2>. QED BY <1>0, <1>1, <2>1, <2>3, <2>4 DEF g
  <1>5. CASE PrepReread(r)
    <2> DEFINE row == IF ActivePlans(Source(r)) = {} THEN None
                      ELSE CHOOSE p \in ActivePlans(Source(r)) : TRUE
               v == [prep[r] EXCEPT !.pc = "store", !.row = row]
    <2>1. prep' = [prep EXCEPT ![r] = v] /\ prep[r].pc = "reread"
      BY <1>5 DEF PrepReread
    <2>. HIDE DEF row
    <2>2. v.todo = prep[r].todo /\ v.pc = "store" /\ v.art = prep[r].art
      BY <1>0
    <2>. HIDE DEF v
    <2>3. Owned(prep[r].art) /\ prep[r].art.source = Head(prep[r].todo).source
      BY <2>1 DEF Proposed, Source
    <2>. QED BY <1>0, <1>1, <2>1, <2>2, <2>3
  <1>6. CASE PrepSkip(r) \/ PrepDiscard(r) \/ PrepReuse(r) \/ PrepStore(r)
    BY <1>2, <1>6 DEF PrepSkip, PrepDiscard, PrepReuse, PrepStore, Granted
  <1>. QED BY <1>3, <1>4, <1>5, <1>6 DEF Preparer, PrepStep

(* A step that leaves the plans alone, and each row bound as it was (its   *)
(* status kept while its plan is locked) or free of a plan that is not     *)
(* approved.                                                               *)
RowsKeepBound ==
    \A s \in Suggestions :
        \/ /\ sugg'[s].plan = sugg[s].plan
           /\ \/ sugg'[s].status = sugg[s].status
              \/ sugg'[s].status \notin {"pending", "rejected"} /\ ~RowLocked(s)
        \/ sugg'[s].plan = None /\ sugg[s].plan \notin ApprovedPlans

LEMMA KeepBound ==
    ASSUME Inv, BoundInv, plan' = plan, locked' \subseteq locked, RowsKeepBound
    PROVE  PlansOwn' /\ OnePerArticle' /\ ApprovedPlanIsBound' /\ LockedRows'
  <1>1. PlansOwn' /\ OnePerArticle'
    BY DEF BoundInv, PlansOwn, OnePerArticle
  <1>2. \A p \in PlanIds : ItemIds(p)' = ItemIds(p)
    BY DEF ItemIds
  <1>3. ASSUME NEW p \in PlanIds, plan[p].status = "approved", NEW s \in ItemIds(p)
        PROVE  s \in Suggestions /\ sugg'[s].plan = p /\ sugg'[s].status \notin {"pending", "rejected"}
    <2>1. s \in Suggestions
      BY <1>3 DEF BoundInv, PlansOwn, Owned, ItemIds
    <2>2. sugg[s].plan = p /\ sugg[s].status \notin {"pending", "rejected"}
      BY <1>3 DEF BoundInv, ApprovedPlanIsBound
    <2>3. sugg[s].plan \in ApprovedPlans
      BY <1>3, <2>2 DEF ApprovedPlans
    <2>. QED BY <2>1, <2>2, <2>3 DEF RowsKeepBound
  <1>4. ASSUME NEW s \in Suggestions, sugg'[s].plan # None
        PROVE  s \in ItemIds(sugg[s].plan)' /\ plan[sugg'[s].plan].status \in {"approved", "applied", "failed"}
    <2>1. sugg'[s].plan = sugg[s].plan
      BY <1>4 DEF RowsKeepBound
    <2>2. s \in ItemIds(sugg[s].plan) /\ plan[sugg[s].plan].status \in {"approved", "applied", "failed"}
      BY <1>4, <2>1 DEF BoundInv, ApprovedPlanIsBound
    <2>3. ItemIds(sugg[s].plan)' = ItemIds(sugg[s].plan)
      BY <2>1 DEF ItemIds
    <2>. QED BY <2>1, <2>2, <2>3
  <1>5. ApprovedPlanIsBound'
    BY <1>2, <1>3, <1>4 DEF ApprovedPlanIsBound
  <1>6. ASSUME NEW p \in locked', NEW s \in Suggestions, sugg'[s].plan = p
        PROVE  sugg'[s].status = "approved"
    <2>1. p \in locked /\ p # None
      BY <1>6, StoreAssumption DEF Inv, Shape
    <2>2. sugg[s].plan = p /\ RowLocked(s)
      BY <1>6, <2>1 DEF RowsKeepBound, RowLocked
    <2>3. sugg[s].status = "approved"
      BY <2>1, <2>2 DEF BoundInv, LockedRows, BoundTo
    <2>. QED BY <1>6, <2>1, <2>2, <2>3 DEF RowsKeepBound
  <1>7. LockedRows'
    BY <1>6 DEF LockedRows, BoundTo
  <1>. QED BY <1>1, <1>5, <1>7

(* A step that ends plan c, and touches no row that is not bound to it.    *)
LEMMA LeaveBound ==
    ASSUME Inv, BoundInv, NEW c \in PlanIds, plan[c].status # "absent",
           NEW st \in {"applied", "stale", "failed"}, plan' = [plan EXCEPT ![c].status = st],
           locked' \subseteq locked \ {c},
           \A s \in Suggestions : sugg[s].plan # c => sugg'[s] = sugg[s],
           \A s \in Suggestions : sugg[s].plan = c =>
               sugg'[s].plan = None \/ (st # "stale" /\ sugg'[s].plan = c)
    PROVE  PlansOwn' /\ OnePerArticle' /\ ApprovedPlanIsBound' /\ LockedRows'
  <1>1. /\ plan'[c].status = st /\ plan'[c].art = plan[c].art
        /\ \A p \in PlanIds : p # c => plan'[p] = plan[p]
    BY DEF Inv, Shape
  <1>2. \A p \in PlanIds : plan'[p].art = plan[p].art /\ ItemIds(p)' = ItemIds(p)
    BY <1>1 DEF ItemIds
  <1>3. PlansOwn' /\ OnePerArticle'
    BY <1>1, <1>2 DEF BoundInv, PlansOwn, OnePerArticle, ACTIVE_PLAN_STATUSES
  <1>4. ASSUME NEW p \in PlanIds, plan'[p].status = "approved", NEW s \in ItemIds(p)
        PROVE  sugg'[s].plan = p /\ sugg'[s].status \notin {"pending", "rejected"}
    <2>1. p # c /\ plan[p].status = "approved"
      BY <1>1, <1>4
    <2>2. s \in Suggestions
      BY <2>1 DEF BoundInv, PlansOwn, Owned, ItemIds
    <2>3. sugg[s].plan = p /\ sugg[s].status \notin {"pending", "rejected"}
      BY <2>1 DEF BoundInv, ApprovedPlanIsBound
    <2>. QED BY <2>1, <2>2, <2>3
  <1>5. ASSUME NEW s \in Suggestions, sugg'[s].plan # None
        PROVE  s \in ItemIds(sugg[s].plan)' /\ plan'[sugg'[s].plan].status \in {"approved", "applied", "failed"}
    <2>1. sugg'[s].plan = sugg[s].plan /\ (sugg[s].plan = c => st # "stale")
      BY <1>5
    <2>2. s \in ItemIds(sugg[s].plan) /\ plan[sugg[s].plan].status \in {"approved", "applied", "failed"}
      BY <1>5, <2>1 DEF BoundInv, ApprovedPlanIsBound
    <2>3. CASE sugg[s].plan = c
      BY <1>1, <1>2, <2>1, <2>2, <2>3
    <2>4. CASE sugg[s].plan # c
      <3>1. plan'[sugg[s].plan] = plan[sugg[s].plan]
        BY <2>4
      <3>2. ItemIds(sugg[s].plan)' = ItemIds(sugg[s].plan)
        BY <2>1, <3>1 DEF ItemIds
      <3>. QED BY <2>1, <2>2, <3>1, <3>2
    <2>. QED BY <2>3, <2>4
  <1>6. ApprovedPlanIsBound'
    BY <1>2, <1>4, <1>5 DEF ApprovedPlanIsBound
  <1>7. ASSUME NEW p \in locked', NEW s \in Suggestions, sugg'[s].plan = p
        PROVE  sugg'[s].status = "approved"
    <2>1. p \in locked /\ p # c /\ p # None
      BY <1>7, StoreAssumption DEF Inv, Shape
    <2>2. sugg[s].plan # c
      BY <1>7, <2>1
    <2>3. sugg'[s] = sugg[s]
      BY <2>2
    <2>. QED BY <1>7, <2>1, <2>3 DEF BoundInv, LockedRows, BoundTo
  <1>8. LockedRows'
    BY <1>7 DEF LockedRows, BoundTo
  <1>. QED BY <1>3, <1>6, <1>8

LEMMA WorkerBound ==
    ASSUME Inv, ServedInv, RowsOK, BoundInv, NEW w \in Workers, Worker(w)
    PROVE  PlansOwn' /\ OnePerArticle' /\ ApprovedPlanIsBound' /\ LockedRows'
  <1>0. /\ sugg \in [Suggestions -> SuggestionRows]
        /\ worker[w].pc \in AtWork => worker[w].cur \in PlanIds /\ plan[worker[w].cur].status # "absent"
    BY DEF RowsOK, ServedInv, Placing
  <1>q. ASSUME sugg' = sugg, plan' = plan, locked' \subseteq locked
        PROVE  PlansOwn' /\ OnePerArticle' /\ ApprovedPlanIsBound' /\ LockedRows'
    <2>1. RowsKeepBound
      BY <1>q DEF RowsKeepBound
    <2>. QED BY <1>q, <2>1, KeepBound
  <1>1. CASE WorkerPolicy(w)
    <2>1. /\ \A s \in worker[w].rows : ~RowLocked(s)
          /\ sugg' = [s \in Suggestions |->
                         IF s \in worker[w].rows THEN [sugg[s] EXCEPT !.status = "expired"] ELSE sugg[s]]
          /\ plan' = plan /\ locked' = locked
      BY <1>1 DEF WorkerPolicy
    <2>2. RowsKeepBound
      BY <1>0, <2>1 DEF RowsKeepBound, SuggestionRows
    <2>. QED BY <2>1, <2>2, KeepBound
  <1>2. CASE WorkerCharge(w)
    <2>1. /\ \A s \in worker[w].rows : ~RowLocked(s)
          /\ sugg' = [s \in Suggestions |->
                         IF s \in Charged(w)
                         THEN [sugg[s] EXCEPT !.attempts = @ + 1,
                                  !.status = IF s \in Quarantined(w) THEN "failed" ELSE @]
                         ELSE sugg[s]]
          /\ plan' = plan /\ locked' = locked
      BY <1>2 DEF WorkerCharge
    <2>2. \A s \in Charged(w) : ~RowLocked(s)
      BY <2>1 DEF Charged
    <2>3. \A s \in Suggestions : s \notin Charged(w) => sugg'[s] = sugg[s]
      BY <2>1
    <2>4. ASSUME NEW s \in Suggestions, s \in Charged(w)
          PROVE  sugg'[s].plan = sugg[s].plan /\ sugg'[s].status \in {"failed", sugg[s].status}
      <3>1. sugg'[s] = [sugg[s] EXCEPT !.attempts = sugg[s].attempts + 1,
                           !.status = IF s \in Quarantined(w) THEN "failed" ELSE sugg[s].status]
        BY <2>1, <2>4
      <3>2. sugg[s] \in SuggestionRows
        BY <1>0
      <3>. QED BY <3>1, <3>2 DEF SuggestionRows
    <2>5. RowsKeepBound
      BY <2>2, <2>3, <2>4 DEF RowsKeepBound
    <2>. QED BY <2>1, <2>5, KeepBound
  <1>3. ASSUME NEW p \in PlanIds, WorkerClaim(w, p)
        PROVE  PlansOwn' /\ OnePerArticle' /\ ApprovedPlanIsBound' /\ LockedRows'
    <2>1. /\ locked' = locked \cup {p} /\ sugg' = sugg /\ plan' = plan
          /\ \A s \in BoundTo(p) : sugg[s].status = "approved"
      BY <1>3 DEF WorkerClaim, Retired
    <2>2. LockedRows'
      BY <2>1 DEF LockedRows, BoundTo, BoundInv
    <2>3. PlansOwn' /\ OnePerArticle' /\ ApprovedPlanIsBound'
      BY <2>1 DEF BoundInv, PlansOwn, OnePerArticle, ApprovedPlanIsBound, ItemIds
    <2>. QED BY <2>2, <2>3
  <1>4. CASE WorkerCommit(w)
    <2> DEFINE c == worker[w].cur
    <2>1. /\ sugg' = [s \in Suggestions |->
                         IF s \in worker[w].rows \cap ItemIds(c)
                         THEN [sugg[s] EXCEPT !.status = "applied", !.attempts = 0] ELSE sugg[s]]
          /\ plan' = [plan EXCEPT ![c].status = "applied"]
          /\ locked' = locked \ {c} /\ worker[w].pc = "commit"
      BY <1>4 DEF WorkerCommit, Release
    <2>2. c \in locked /\ c \in PlanIds /\ plan[c].status = "approved"
      BY <2>1 DEF Inv, Shape, Custody, Holding
    <2>3. \A s \in ItemIds(c) : sugg[s].plan = c
      BY <2>2 DEF BoundInv, ApprovedPlanIsBound
    <2>. HIDE DEF c
    <2>4. \A s \in Suggestions : sugg[s].plan # c => sugg'[s] = sugg[s]
      BY <2>1, <2>3
    <2>5. \A s \in Suggestions : sugg'[s].plan = sugg[s].plan
      BY <1>0, <2>1 DEF SuggestionRows
    <2>6. \A s \in Suggestions : sugg[s].plan = c =>
              sugg'[s].plan = None \/ ("applied" # "stale" /\ sugg'[s].plan = c)
      BY <2>5
    <2>7. plan[c].status # "absent" /\ "applied" \in {"applied", "stale", "failed"}
      BY <2>2
    <2>8. locked' \subseteq locked \ {c}
      BY <2>1
    <2>. QED BY <2>1, <2>2, <2>4, <2>6, <2>7, <2>8, LeaveBound
  <1>5. CASE WorkerMarkStale(w)
    <2> DEFINE c == worker[w].cur
    <2>1. /\ sugg' = [s \in Suggestions |->
                         IF s \in BoundTo(c) THEN [sugg[s] EXCEPT !.plan = None] ELSE sugg[s]]
          /\ plan' = [plan EXCEPT ![c].status = "stale"]
          /\ locked' = locked /\ c \notin locked /\ worker[w].pc = "unbind"
      BY <1>5 DEF WorkerMarkStale
    <2>2. c \in PlanIds /\ plan[c].status # "absent"
      BY <1>0, <2>1 DEF AtWork
    <2>. HIDE DEF c
    <2>3. \A s \in Suggestions : sugg[s].plan # c => sugg'[s] = sugg[s]
      BY <2>1 DEF BoundTo
    <2>4. \A s \in Suggestions : sugg[s].plan = c =>
              sugg'[s].plan = None \/ ("stale" # "stale" /\ sugg'[s].plan = c)
      BY <1>0, <2>1 DEF BoundTo, SuggestionRows
    <2>5. "stale" \in {"applied", "stale", "failed"} /\ locked' \subseteq locked \ {c}
      BY <2>1
    <2>. QED BY <2>1, <2>2, <2>3, <2>4, <2>5, LeaveBound
  <1>6. CASE WorkerFailPlan(w)
    <2> DEFINE c == worker[w].cur
    <2>1. /\ sugg' = [s \in Suggestions |->
                         IF s \in BoundTo(c) THEN [sugg[s] EXCEPT !.status = "failed"] ELSE sugg[s]]
          /\ plan' = [plan EXCEPT ![c].status = "failed"]
          /\ locked' = locked /\ c \notin locked /\ worker[w].pc = "retire"
      BY <1>6 DEF WorkerFailPlan
    <2>2. c \in PlanIds /\ plan[c].status # "absent"
      BY <1>0, <2>1 DEF AtWork
    <2>. HIDE DEF c
    <2>3. \A s \in Suggestions : sugg[s].plan # c => sugg'[s] = sugg[s]
      BY <2>1 DEF BoundTo
    <2>4. \A s \in Suggestions : sugg'[s].plan = sugg[s].plan
      BY <1>0, <2>1 DEF BoundTo, SuggestionRows
    <2>5. \A s \in Suggestions : sugg[s].plan = c =>
              sugg'[s].plan = None \/ ("failed" # "stale" /\ sugg'[s].plan = c)
      BY <2>4
    <2>6. "failed" \in {"applied", "stale", "failed"} /\ locked' \subseteq locked \ {c}
      BY <2>1
    <2>. QED BY <2>1, <2>2, <2>3, <2>5, <2>6, LeaveBound
  <1>7. ASSUME WorkerStep(w) \/ WorkerFault(w),
               ~WorkerPolicy(w), ~WorkerCharge(w), ~WorkerCommit(w), ~WorkerMarkStale(w),
               ~WorkerFailPlan(w), ~\E p \in PlanIds : WorkerClaim(w, p)
        PROVE  sugg' = sugg /\ plan' = plan /\ locked' \subseteq locked
    BY <1>7
    DEF WorkerStep, WorkerFault, WorkerBegin, WorkerFinish, WorkerSkip, WorkerRetired, WorkerRefuse,
        WorkerGet, WorkerGetError, WorkerPost, WorkerPostError, WorkerStaleRead, WorkerFailRead,
        WorkerCommitFails, WorkerBookkeepingLost, WorkerCrash, Release, storeVars
  <1>. QED BY <1>q, <1>1, <1>2, <1>3, <1>4, <1>5, <1>6, <1>7 DEF Worker

LEMMA PreparerBound ==
    ASSUME Inv, ServedInv, RowsOK, BoundInv, NEW r \in Preparers, Preparer(r)
    PROVE  PlansOwn' /\ OnePerArticle' /\ ApprovedPlanIsBound' /\ LockedRows'
  <1>0. sugg \in [Suggestions -> SuggestionRows]
    BY DEF RowsOK
  <1>1. CASE PrepStart(r)
    <2>1. PICK only \in PrepareScopes :
              sugg' = [s \in Suggestions |->
                          IF s \in Superseded(Row, Selected, Applied, only)
                          THEN [sugg[s] EXCEPT !.status = "expired"] ELSE sugg[s]]
      BY <1>1 DEF PrepStart
    <2>2. plan' = plan /\ locked' = locked
      BY <1>1 DEF PrepStart
    <2>3. \A s \in Superseded(Row, Selected, Applied, only) : sugg[s].plan = None
      BY DEF Superseded, Selected
    <2>. HIDE DEF Superseded
    <2>4. \A s \in Suggestions : sugg[s].plan = None => ~RowLocked(s)
      BY StoreAssumption DEF Inv, Shape, RowLocked
    <2>5. RowsKeepBound
      BY <1>0, <2>1, <2>3, <2>4 DEF RowsKeepBound, SuggestionRows
    <2>. QED BY <2>2, <2>5, KeepBound
  <1>2. CASE sugg' = sugg /\ plan' = plan /\ locked' = locked
    <2>1. RowsKeepBound
      BY <1>2 DEF RowsKeepBound
    <2>. QED BY <1>2, <2>1, KeepBound
  <1>3. CASE PrepStore(r) /\ plan' # plan
    <2>1. PICK q \in PlanIds :
              /\ IsNextPlanId(q)
              /\ plan' = [p \in PlanIds |->
                   CASE p = q -> [status |-> "prepared", art |-> prep[r].art,
                                  hash |-> Hash(prep[r].art), approvedHash |-> {}]
                     [] p \in Existing(r) -> [plan[p] EXCEPT !.status = "superseded"]
                     [] OTHER -> plan[p]]
      BY <1>3 DEF PrepStore
    <2>2. /\ ActivePlans(Source(r)) \subseteq Existing(r) /\ prep[r].pc = "store"
          /\ ApprovedMeanwhile(r) = {} /\ sugg' = sugg /\ locked' = locked
      BY <1>3 DEF PrepStore, Granted
    <2>3. plan[q].status = "absent" /\ q \notin locked
      BY <2>1 DEF IsNextPlanId, FreePlanIds, Inv, Custody
    <2>4. \A p \in Existing(r) : p \in PlanIds /\ plan[p].status = "prepared" /\ p # q
      BY <2>2, <2>3 DEF Existing, ActivePlans, ACTIVE_PLAN_STATUSES, ApprovedMeanwhile
    <2>5. plan'[q].status = "prepared" /\ plan'[q].art = prep[r].art
      <3> DEFINE new == [status |-> "prepared", art |-> prep[r].art,
                         hash |-> Hash(prep[r].art), approvedHash |-> {}]
      <3>1. plan'[q] = new
        BY <2>1, <2>4
      <3>. QED BY <3>1
    <2>6. \A p \in Existing(r) : plan'[p].status = "superseded" /\ plan'[p].art = plan[p].art
      <3>1. \A p \in Existing(r) : plan'[p] = [plan[p] EXCEPT !.status = "superseded"]
        BY <2>1, <2>4
      <3>2. \A p \in Existing(r) : DOMAIN plan[p] = {"status", "art", "hash", "approvedHash"}
        BY <2>4 DEF Inv, Shape
      <3>. QED BY <3>1, <3>2
    <2>7. \A p \in PlanIds : p # q /\ p \notin Existing(r) => plan'[p] = plan[p]
      BY <2>1
    <2>8. Owned(prep[r].art) /\ prep[r].art.source = Source(r)
      BY <2>2 DEF BoundInv, Proposed
    <2>9. PlansOwn'
      <3> SUFFICES ASSUME NEW p \in PlanIds, plan'[p].status # "absent" PROVE Owned(plan'[p].art)
        BY DEF PlansOwn
      <3>1. CASE p = q
        BY <2>5, <2>8, <3>1
      <3>2. CASE p # q
        <4>1. plan'[p].art = plan[p].art /\ plan[p].status # "absent"
          BY <2>4, <2>6, <2>7, <3>2
        <4>. QED BY <4>1 DEF BoundInv, PlansOwn
      <3>. QED BY <3>1, <3>2
    <2>10. \A p \in PlanIds : p # q /\ plan'[p].status \in ACTIVE_PLAN_STATUSES =>
               /\ plan[p].status \in ACTIVE_PLAN_STATUSES /\ plan'[p].art = plan[p].art
               /\ plan[p].art.source # Source(r)
      <3> SUFFICES ASSUME NEW p \in PlanIds, p # q, plan'[p].status \in ACTIVE_PLAN_STATUSES
                   PROVE  /\ plan[p].status \in ACTIVE_PLAN_STATUSES /\ plan'[p].art = plan[p].art
                          /\ plan[p].art.source # Source(r)
        OBVIOUS
      <3>1. p \notin Existing(r)
        BY <2>6 DEF ACTIVE_PLAN_STATUSES
      <3>2. plan'[p] = plan[p]
        BY <2>7, <3>1
      <3>. QED BY <2>2, <3>1, <3>2 DEF ActivePlans
    <2>11. OnePerArticle'
      BY <2>5, <2>8, <2>10 DEF OnePerArticle, BoundInv
    <2>12. \A p \in PlanIds : plan[p].status \in {"approved", "applied", "failed"} => plan'[p] = plan[p]
      BY <2>3, <2>4, <2>7
    <2>13. \A p \in PlanIds : plan'[p].status = "approved" => plan'[p] = plan[p]
      BY <2>5, <2>6, <2>7
    <2>14. ApprovedPlanIsBound'
      <3>1. ASSUME NEW p \in PlanIds, plan'[p].status = "approved", NEW s \in ItemIds(p)'
            PROVE  sugg'[s].plan = p /\ sugg'[s].status \notin {"pending", "rejected"}
        <4>1. plan'[p] = plan[p]
          BY <2>13, <3>1
        <4>2. s \in ItemIds(p)
          BY <3>1, <4>1 DEF ItemIds
        <4>. QED BY <2>2, <3>1, <4>1, <4>2 DEF BoundInv, ApprovedPlanIsBound
      <3>2. ASSUME NEW s \in Suggestions, sugg'[s].plan # None
            PROVE  s \in ItemIds(sugg[s].plan)' /\ plan'[sugg'[s].plan].status \in {"approved", "applied", "failed"}
        <4>1. /\ sugg'[s] = sugg[s] /\ s \in ItemIds(sugg[s].plan) /\ sugg[s].plan \in PlanIds
              /\ plan[sugg[s].plan].status \in {"approved", "applied", "failed"}
          BY <1>0, <2>2, <3>2 DEF BoundInv, ApprovedPlanIsBound, SuggestionRows
        <4>2. plan'[sugg[s].plan] = plan[sugg[s].plan]
          BY <2>12, <4>1
        <4>. QED BY <4>1, <4>2 DEF ItemIds
      <3>. QED BY <3>1, <3>2 DEF ApprovedPlanIsBound
    <2>15. LockedRows'
      BY <2>2 DEF BoundInv, LockedRows, BoundTo
    <2>. QED BY <2>9, <2>11, <2>14, <2>15
  <1>4. PrepStart(r) \/ (sugg' = sugg /\ locked' = locked /\ (PrepStore(r) \/ plan' = plan))
    BY DEF Preparer, PrepStep, PrepPreview, PrepSkip, PrepReread, PrepDiscard, PrepReuse, PrepStore,
           storeVars
  <1>. QED BY <1>1, <1>2, <1>3, <1>4

LEMMA OperatorBound ==
    ASSUME Inv, RowsOK, BoundInv, Operator
    PROVE  PlansOwn' /\ OnePerArticle' /\ ApprovedPlanIsBound' /\ LockedRows'
  <1>0. sugg \in [Suggestions -> SuggestionRows]
    BY DEF RowsOK
  <1>1. ASSUME NEW p \in PlanIds, ViewPlan(p)
        PROVE  PlansOwn' /\ OnePerArticle' /\ ApprovedPlanIsBound' /\ LockedRows'
    <2>1. sugg' = sugg /\ plan' = plan /\ locked' = locked
      BY <1>1 DEF ViewPlan
    <2>2. RowsKeepBound
      BY <2>1 DEF RowsKeepBound
    <2>. QED BY <2>1, <2>2, KeepBound
  <1>2. ASSUME NEW named \in SUBSET PlanIds, Approve(named)
        PROVE  PlansOwn' /\ OnePerArticle' /\ ApprovedPlanIsBound' /\ LockedRows'
    <2>1. /\ \A p \in named : p \notin locked /\ plan[p].status = "prepared" /\ ItemIds(p) \subseteq Selected
          /\ plan' = [p \in PlanIds |->
                IF p \in named
                THEN [plan[p] EXCEPT !.status = "approved", !.approvedHash = {plan[p].hash}]
                ELSE plan[p]]
          /\ sugg' = [s \in Suggestions |->
                IF \E p \in named : s \in ItemIds(p)
                THEN [sugg[s] EXCEPT !.plan = CHOOSE p \in named : s \in ItemIds(p)]
                ELSE sugg[s]]
          /\ locked' = locked
      BY <1>2 DEF Approve, Approvable
    <2>2. \A p \in PlanIds : p \notin named => plan'[p] = plan[p]
      BY <2>1
    <2>3. \A p \in named : plan'[p].status = "approved" /\ plan'[p].art = plan[p].art
      BY <2>1 DEF Inv, Shape
    <2>4. \A p \in PlanIds : plan'[p].art = plan[p].art /\ ItemIds(p)' = ItemIds(p)
      BY <2>2, <2>3 DEF ItemIds
    <2>5. PlansOwn' /\ OnePerArticle'
      <3>1. \A p \in PlanIds :
                /\ plan'[p].status \in ACTIVE_PLAN_STATUSES => plan[p].status \in ACTIVE_PLAN_STATUSES
                /\ plan'[p].status # "absent" => plan[p].status # "absent"
        BY <2>1, <2>2 DEF ACTIVE_PLAN_STATUSES
      <3>. QED BY <2>4, <3>1 DEF BoundInv, PlansOwn, OnePerArticle
    <2>6. ASSUME NEW p \in named, NEW q \in named, NEW s \in ItemIds(p), s \in ItemIds(q)
          PROVE  p = q
      <3>1. Row[s].source = plan[p].art.source /\ Row[s].source = plan[q].art.source
        BY <2>1, <2>6 DEF BoundInv, PlansOwn, Owned, ItemIds
      <3>. QED BY <2>1, <3>1 DEF BoundInv, OnePerArticle, ACTIVE_PLAN_STATUSES
    <2>7. ASSUME NEW p \in named, NEW s \in ItemIds(p)
          PROVE  /\ s \in Suggestions /\ sugg[s].plan = None
                 /\ sugg'[s].plan = p /\ sugg'[s].status = "approved"
      <3>1. s \in Suggestions /\ sugg[s].status = "approved" /\ sugg[s].plan = None
        BY <2>1 DEF Selected
      <3>2. (CHOOSE q \in named : s \in ItemIds(q)) = p
        BY <2>6
      <3>3. sugg'[s] = [sugg[s] EXCEPT !.plan = p]
        BY <2>1, <3>1, <3>2
      <3>4. sugg[s] \in SuggestionRows
        BY <1>0, <3>1
      <3>. QED BY <3>1, <3>3, <3>4 DEF SuggestionRows
    <2>8. \A s \in Suggestions : (\A p \in named : s \notin ItemIds(p)) => sugg'[s] = sugg[s]
      BY <2>1
    <2>9. ASSUME NEW p \in PlanIds, plan'[p].status = "approved", NEW s \in ItemIds(p)
          PROVE  sugg'[s].plan = p /\ sugg'[s].status \notin {"pending", "rejected"}
      <3>1. CASE p \in named
        BY <2>7, <3>1
      <3>2. CASE p \notin named
        <4>1. plan[p].status = "approved"
          BY <2>2, <2>9, <3>2
        <4>2. sugg[s].plan = p /\ sugg[s].status \notin {"pending", "rejected"} /\ s \in Suggestions
          BY <4>1 DEF BoundInv, ApprovedPlanIsBound, PlansOwn, Owned, ItemIds
        <4>3. p # None
          BY StoreAssumption
        <4>4. \A q \in named : s \notin ItemIds(q)
          BY <2>7, <4>2, <4>3
        <4>. QED BY <2>8, <4>2, <4>4
      <3>. QED BY <3>1, <3>2
    <2>10. ASSUME NEW s \in Suggestions, sugg'[s].plan # None
           PROVE  s \in ItemIds(sugg[s].plan)' /\ plan'[sugg'[s].plan].status \in {"approved", "applied", "failed"}
      <3>1. CASE \E p \in named : s \in ItemIds(p)
        <4>1. PICK p \in named : s \in ItemIds(p)
          BY <3>1
        <4>2. sugg'[s].plan = p
          BY <2>7, <4>1
        <4>3. s \in ItemIds(p)'
          BY <2>4, <4>1
        <4>. QED BY <2>3, <4>2, <4>3 DEF ItemIds
      <3>2. CASE \A p \in named : s \notin ItemIds(p)
        <4>1. /\ sugg'[s] = sugg[s] /\ s \in ItemIds(sugg[s].plan) /\ sugg[s].plan \in PlanIds
              /\ plan[sugg[s].plan].status \in {"approved", "applied", "failed"}
          BY <1>0, <2>8, <2>10, <3>2 DEF BoundInv, ApprovedPlanIsBound, SuggestionRows
        <4>2. plan'[sugg[s].plan] = plan[sugg[s].plan]
          BY <2>1, <2>2, <4>1
        <4>. QED BY <4>1, <4>2 DEF ItemIds
      <3>. QED BY <3>1, <3>2
    <2>11. ApprovedPlanIsBound'
      BY <2>4, <2>9, <2>10 DEF ApprovedPlanIsBound
    <2>12. ASSUME NEW p \in locked, NEW s \in Suggestions, sugg'[s].plan = p
           PROVE  sugg'[s].status = "approved"
      <3>1. ASSUME NEW q \in named, s \in ItemIds(q) PROVE FALSE
        <4>1. sugg'[s].plan = q
          BY <2>7, <3>1
        <4>. QED BY <2>1, <2>12, <4>1
      <3>2. sugg'[s] = sugg[s]
        BY <2>8, <3>1
      <3>. QED BY <2>12, <3>2 DEF BoundInv, LockedRows, BoundTo
    <2>13. LockedRows'
      BY <2>1, <2>12 DEF LockedRows, BoundTo
    <2>. QED BY <2>5, <2>11, <2>13
  <1>. QED BY <1>1, <1>2 DEF Operator

(* Every editor but the two races of README section 5.                     *)
LEMMA EditorBound ==
    ASSUME Inv, RowsOK, BoundInv, Reviewers = {}, Operations = {}, Editor
    PROVE  PlansOwn' /\ OnePerArticle' /\ ApprovedPlanIsBound' /\ LockedRows'
  <1>0. sugg \in [Suggestions -> SuggestionRows]
    BY DEF RowsOK
  <1>1. plan' = plan /\ locked' = locked
    BY DEF Editor, ReviewStep, Review, ReviewBegin, ReviewEnd, FilterReview, Undo, PolicyRead,
           PolicyWrite, Retire, OnlySuggestions, storeVars
  <1>2. ASSUME NEW s \in Suggestions, NEW status \in ReviewStatuses, Review(s, status)
        PROVE  RowsKeepBound
    <2>1. /\ sugg[s].plan \notin ApprovedPlans
          /\ sugg' = [t \in Suggestions |-> IF t \in {s} THEN Reviewed(status) ELSE sugg[t]]
      BY <1>2 DEF Review, Reviewable, SetReviewed
    <2>. QED BY <2>1 DEF RowsKeepBound, Reviewed
  <1>3. ASSUME NEW e \in PolicyEdits, PolicyWrite(e) PROVE RowsKeepBound
    BY <1>0, <1>3 DEF PolicyWrite, RowsKeepBound, SuggestionRows
  <1>4. ASSUME NEW s \in Suggestions, Retire(s) PROVE RowsKeepBound
    BY <1>0, <1>4 DEF Retire, RowsKeepBound, SuggestionRows
  <1>5. ASSUME sugg' = sugg PROVE RowsKeepBound
    BY <1>5 DEF RowsKeepBound
  <1>6. RowsKeepBound
    BY <1>2, <1>3, <1>4, <1>5 DEF Editor, ReviewStep, PolicyRead, storeVars
  <1>. QED BY <1>1, <1>6, KeepBound

LEMMA OutsideBound ==
    ASSUME Inv, ServedInv, RowsOK, BoundInv, Outside
    PROVE  PlansOwn' /\ OnePerArticle' /\ ApprovedPlanIsBound' /\ LockedRows'
  <1>1. sugg' = sugg /\ locked' = locked
    BY DEF Outside, HumanEdit, LateEffect, Tamper
  <1>2. CASE plan' = plan
    <2>1. RowsKeepBound
      BY <1>1 DEF RowsKeepBound
    <2>. QED BY <1>1, <1>2, <2>1, KeepBound
  <1>3. ASSUME NEW p \in PlanIds, NEW content, NEW rehash \in BOOLEAN, Tamper(p, content, rehash)
        PROVE  PlansOwn' /\ OnePerArticle' /\ ApprovedPlanIsBound' /\ LockedRows'
    <2> DEFINE art == [plan[p].art EXCEPT !.upd = content]
               hash == IF rehash THEN Hash(art) ELSE plan[p].hash
    <2>1. plan' = [plan EXCEPT ![p].art = art, ![p].hash = hash] /\ plan[p].status # "absent"
      BY <1>3 DEF Tamper, ACTIVE_PLAN_STATUSES
    <2>2. art.source = plan[p].art.source /\ art.items = plan[p].art.items
      BY <2>1 DEF ServedInv, Placing, Placed
    <2>. HIDE DEF art, hash
    <2>3. /\ \A q \in PlanIds : q # p => plan'[q] = plan[q]
          /\ plan'[p].status = plan[p].status /\ plan'[p].art = art
      BY <2>1 DEF Inv, Shape
    <2>4. \A q \in PlanIds : /\ plan'[q].status = plan[q].status
                             /\ plan'[q].art.source = plan[q].art.source
                             /\ plan'[q].art.items = plan[q].art.items
      BY <2>2, <2>3
    <2>5. \A q \in PlanIds : ItemIds(q)' = ItemIds(q)
      BY <2>4 DEF ItemIds
    <2>6. PlansOwn' /\ OnePerArticle'
      BY <2>4 DEF BoundInv, PlansOwn, OnePerArticle, Owned
    <2>7. \A s \in Suggestions : sugg[s].plan # None => sugg[s].plan \in PlanIds
      BY DEF RowsOK, SuggestionRows
    <2>8. ApprovedPlanIsBound'
      <3>1. ASSUME NEW s \in Suggestions, sugg'[s].plan # None
            PROVE  s \in ItemIds(sugg[s].plan)' /\ plan'[sugg'[s].plan].status \in {"approved", "applied", "failed"}
        <4> DEFINE q == sugg[s].plan
        <4>1. q \in PlanIds /\ s \in ItemIds(q) /\ plan[q].status \in {"approved", "applied", "failed"}
          BY <1>1, <2>7, <3>1 DEF BoundInv, ApprovedPlanIsBound
        <4>2. plan'[q].status = plan[q].status /\ plan'[q].art.items = plan[q].art.items
          BY <2>4, <4>1
        <4>. QED BY <1>1, <4>1, <4>2 DEF ItemIds
      <3>. QED BY <1>1, <2>4, <2>5, <3>1 DEF BoundInv, ApprovedPlanIsBound
    <2>9. LockedRows'
      BY <1>1 DEF BoundInv, LockedRows, BoundTo
    <2>. QED BY <2>6, <2>8, <2>9
  <1>. QED BY <1>2, <1>3 DEF Outside, HumanEdit, LateEffect

LEMMA BoundStep ==
    ASSUME Inv, ServedInv, RowsOK, BoundInv, Reviewers = {}, Operations = {}, [Next]_vars
    PROVE  BoundInv'
  <1>1. ASSUME prep' = prep PROVE \A r \in Preparers : Proposed(r)'
    BY <1>1 DEF BoundInv, Proposed, Source
  <1>2. \A r \in Preparers : Proposed(r)'
    BY <1>1, PreparerProposes
    DEF BoundInv, Next, Worker, Operator, Editor, Outside, vars
  <1>3. CASE UNCHANGED vars
    BY <1>3 DEF vars, storeVars, BoundInv, Proposed, Source, PlansOwn, OnePerArticle,
                ApprovedPlanIsBound, LockedRows, BoundTo, ItemIds
  <1>4. ASSUME Next PROVE PlansOwn' /\ OnePerArticle' /\ ApprovedPlanIsBound' /\ LockedRows'
    BY <1>4, WorkerBound, PreparerBound, OperatorBound, EditorBound, OutsideBound DEF Next
  <1>. QED BY <1>2, <1>3, <1>4 DEF BoundInv

LEMMA BoundInit == Init => BoundInv
  <1> SUFFICES ASSUME Init PROVE BoundInv
    OBVIOUS
  <1> USE DEF Init, StoreInit, PrepInit
  <1>1. \A r \in Preparers : Proposed(r)
    BY EmptySeq DEF Proposed, IdlePreparer
  <1>2. PlansOwn /\ OnePerArticle
    BY DEF PlansOwn, OnePerArticle, AbsentPlan, ACTIVE_PLAN_STATUSES
  <1>3. ApprovedPlanIsBound /\ LockedRows
    BY DEF ApprovedPlanIsBound, LockedRows, AbsentPlan
  <1>. QED BY <1>1, <1>2, <1>3 DEF BoundInv

(* While the editors' two races stay out (a review that waited behind an   *)
(* approval, an undo of a filtered review; both undo the approval, see     *)
(* README section 5), whatever workers, preparers, operators, single       *)
(* reviews, policy updates, retirements and out-of-band rewrites do: every *)
(* row an approved plan renders is bound to it and none has been reviewed  *)
(* away, and a row is only bound to a plan that renders it and was         *)
(* approved.                                                               *)
THEOREM ApprovedPlansAreBound ==
    ASSUME Reviewers = {}, Operations = {}
    PROVE  Spec => []ApprovedPlanIsBound
  <1>1. BoundInv => ApprovedPlanIsBound
    BY DEF BoundInv
  <1>2. Inv /\ ServedInv /\ RowsOK /\ BoundInv /\ [Next]_vars => BoundInv'
    BY BoundStep
  <1>. QED BY <1>1, <1>2, InitInv, NextInv, ServedInit, ServedStep, RowsInit, RowsInv, BoundInit, PTL
           DEF Spec

(* Under the same condition, when a worker is about to send an edit, every *)
(* link in it is still one its reviewer wants: the claim's look at the     *)
(* rows is not stale, because the locks keep those rows until the commit.  *)
THEOREM OnlyWantedLinksArePosted ==
    ASSUME Reviewers = {}, Operations = {}
    PROVE  Spec => []PostsOnlyWanted
  <1>1. Inv /\ BoundInv => PostsOnlyWanted
    <2> SUFFICES ASSUME Inv, BoundInv, NEW w \in Workers, worker[w].pc = "post",
                        NEW s \in ItemIds(worker[w].cur)
                 PROVE  sugg[s].status = "approved"
      BY DEF PostsOnlyWanted
    <2>1. /\ worker[w].cur \in locked /\ worker[w].cur \in PlanIds
          /\ plan[worker[w].cur].status = "approved"
      BY DEF Inv, Shape, Custody, Holding
    <2>2. s \in Suggestions /\ sugg[s].plan = worker[w].cur
      BY <2>1 DEF BoundInv, ApprovedPlanIsBound, PlansOwn, Owned, ItemIds
    <2>. QED BY <2>1, <2>2 DEF BoundInv, LockedRows, BoundTo
  <1>2. Inv /\ ServedInv /\ RowsOK /\ BoundInv /\ [Next]_vars => BoundInv'
    BY BoundStep
  <1>. QED BY <1>1, <1>2, InitInv, NextInv, ServedInit, ServedStep, RowsInit, RowsInv, BoundInit, PTL
           DEF Spec
==============================================================================
