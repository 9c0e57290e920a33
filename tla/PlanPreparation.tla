--------------------------- MODULE PlanPreparation ---------------------------
(***************************************************************************)
(* Preparation and approval: `prepare_site`, `_prepare_one` and            *)
(* `approve_plans` of app/services/publication_plan_service.py.  A         *)
(* preparer is one preparation job:                                        *)
(*    idle     no job              reread  artifact rendered               *)
(*    preview  before the GET      store   the locking re-read has chosen  *)
(*                                         its row and waits for its locks *)
(* The re-read is a READ COMMITTED `SELECT ... FOR UPDATE`: it picks its   *)
(* row from the statement's snapshot, waits, and keeps the row only if it  *)
(* still is an active plan once the lock is granted.                       *)
(***************************************************************************)
EXTENDS PlanStore

CONSTANTS
    Preparers,       \* preparation jobs that may run at the same time
    PrepareScopes,   \* what a request names: sets of suggestions
    MaxArticles      \* articles per preparation

ASSUME PrepareAssumption == MaxArticles \in Nat \ {0}

VARIABLE prep        \* preparer -> [pc, todo, art, row]

IdlePreparer == [pc |-> "idle", todo |-> <<>>, art |-> None, row |-> None]

Groups == [source : Articles, ids : Seq(Suggestions)]

PrepTypeOK ==
    prep \in [Preparers -> [pc : {"idle", "preview", "reread", "store"}, todo : Seq(Groups),
                            art : Artifacts \cup {None}, row : PlanIds \cup {None}]]

PrepInit == prep = [r \in Preparers |-> IdlePreparer]

FreePlanIds == {p \in PlanIds : plan[p].status = "absent"}

(* The next value of the plan id sequence. *)
IsNextPlanId(p) == p \in FreePlanIds /\ \A q \in FreePlanIds : p <= q

------------------------------------------------------------------------------
(* groups[:max_articles]: what one preparation works through. *)
PreparedBatch(only) ==
    LET groups == GroupedBatch(Row, Selected, Applied, only)
    IN  SubSeq(groups, 1, IF Len(groups) < MaxArticles THEN Len(groups) ELSE MaxArticles)

(* prepare_site: select the cohort, expire what is linked the other way.   *)
PrepStart(r) ==
    /\ prep[r].pc = "idle"
    /\ FreePlanIds # {}
    /\ \E only \in PrepareScopes :
          LET batch == PreparedBatch(only)
          IN  /\ prep' = [prep EXCEPT ![r] =
                             [@ EXCEPT !.pc = IF batch = <<>> THEN "idle" ELSE "preview",
                                       !.todo = batch]]
              /\ sugg' = [s \in Suggestions |->
                             IF s \in Superseded(Row, Selected, Applied, only)
                             THEN [sugg[s] EXCEPT !.status = "expired"] ELSE sugg[s]]
    /\ UNCHANGED <<plan, post, locked, ineligible, screen, signed, sent, late, served,
                   edits, faults>>

(* Done with the first article of the batch. *)
NextArticle(r) ==
    prep' = [prep EXCEPT ![r] =
                [IdlePreparer EXCEPT !.todo = Tail(prep[r].todo),
                    !.pc = IF Len(prep[r].todo) > 1 THEN "preview" ELSE "idle"]]

Source(r) == Head(prep[r].todo).source
Ids(r) == Head(prep[r].todo).ids

(* The live post is read and the whole edit rendered. *)
PrepPreview(r) ==
    /\ prep[r].pc = "preview"
    /\ Source(r) \in Articles
    /\ \A p \in ActivePlans(Source(r)) : plan[p].status # "approved"
    /\ prep' = [prep EXCEPT ![r] =
                   [@ EXCEPT !.pc = "reread",
                             !.art = Artifact(Source(r), post[Source(r)], Ids(r))]]
    /\ UNCHANGED storeVars

(* An approved plan covers the article, or the post cannot be read. *)
PrepSkip(r) ==
    /\ prep[r].pc = "preview"
    /\ NextArticle(r)
    /\ UNCHANGED storeVars

(* _active_plan(lock=True): the snapshot names the row to lock. *)
PrepReread(r) ==
    /\ prep[r].pc = "reread"
    /\ prep' = [prep EXCEPT ![r] =
                   [@ EXCEPT !.pc = "store",
                             !.row = IF ActivePlans(Source(r)) = {} THEN None
                                     ELSE CHOOSE p \in ActivePlans(Source(r)) : TRUE]]
    /\ UNCHANGED storeVars

(* The locks are granted: the row is judged as it is now. *)
Granted(r) ==
    /\ prep[r].pc = "store"
    /\ prep[r].row \notin locked
    /\ \A i \in DOMAIN Ids(r) : ~RowLocked(Ids(r)[i])

Existing(r) == ActivePlans(Source(r)) \cap {prep[r].row}

(* Mutant: the row found by the re-read is replaced whatever became of it. *)
NeverApproved(r) == {}

(* Approved while the artifact was rendered. *)
ApprovedMeanwhile(r) == {p \in Existing(r) : plan[p].status = "approved"}

StillSelected(r) == \A i \in DOMAIN Ids(r) : Ids(r)[i] \in Selected

(* Approved meanwhile, or a row is no longer selected: nothing is stored. *)
PrepDiscard(r) ==
    /\ Granted(r)
    /\ ApprovedMeanwhile(r) # {} \/ ~StillSelected(r)
    /\ NextArticle(r)
    /\ UNCHANGED storeVars

(* The same artifact is offered again under its own plan. *)
PrepReuse(r) ==
    /\ Granted(r)
    /\ StillSelected(r)
    /\ ApprovedMeanwhile(r) = {}
    /\ \E p \in Existing(r) :
          /\ plan[p].hash = Hash(prep[r].art)
          /\ screen' = [screen EXCEPT ![p] = plan[p].hash]
    /\ NextArticle(r)
    /\ UNCHANGED <<sugg, plan, post, locked, ineligible, signed, sent, late, served, edits,
                   faults>>

(* A new row replaces the prepared one; the unique index on active plans   *)
(* rolls the transaction back when another row holds the article.          *)
PrepStore(r) ==
    /\ Granted(r)
    /\ StillSelected(r)
    /\ ApprovedMeanwhile(r) = {}
    /\ \A p \in Existing(r) : plan[p].hash # Hash(prep[r].art)
    /\ \/ /\ ActivePlans(Source(r)) \subseteq Existing(r)
          /\ \E q \in PlanIds :
                /\ IsNextPlanId(q)
                /\ plan' = [p \in PlanIds |->
                     CASE p = q -> [status |-> "prepared", art |-> prep[r].art,
                                    hash |-> Hash(prep[r].art), approvedHash |-> {}]
                       [] p \in Existing(r) -> [plan[p] EXCEPT !.status = "superseded"]
                       [] OTHER -> plan[p]]
                /\ screen' = [screen EXCEPT ![q] = Hash(prep[r].art)]
       \/ /\ ~(ActivePlans(Source(r)) \subseteq Existing(r))
          /\ UNCHANGED <<plan, screen>>
    /\ NextArticle(r)
    /\ UNCHANGED <<sugg, post, locked, ineligible, signed, sent, late, served, edits, faults>>

PrepStep(r) ==
    \/ PrepStart(r) \/ PrepPreview(r) \/ PrepSkip(r) \/ PrepReread(r)
    \/ PrepDiscard(r) \/ PrepReuse(r) \/ PrepStore(r)

------------------------------------------------------------------------------
(* publication_plan_html: the operator reloads the plan as it is stored. *)
ViewPlan(p) ==
    /\ plan[p].status # "absent"
    /\ screen[p] # plan[p].hash
    /\ screen' = [screen EXCEPT ![p] = plan[p].hash]
    /\ UNCHANGED <<sugg, plan, post, locked, ineligible, signed, sent, late, served, edits,
                   faults>>

Approvable(p) ==
    /\ p \notin locked
    /\ plan[p].status = "prepared"
    /\ plan[p].hash = screen[p]
    /\ VerifyIntegrity(plan[p])
    /\ ItemIds(p) \subseteq Selected

(* approve_plans: all the named plans, or none of them. *)
Approve(named) ==
    /\ named # {}
    /\ \A p \in named : Approvable(p)
    /\ plan' = [p \in PlanIds |->
                   IF p \in named
                   THEN [plan[p] EXCEPT !.status = "approved", !.approvedHash = {plan[p].hash}]
                   ELSE plan[p]]
    /\ sugg' = [s \in Suggestions |->
                   IF \E p \in named : s \in ItemIds(p)
                   THEN [sugg[s] EXCEPT !.plan = CHOOSE p \in named : s \in ItemIds(p)]
                   ELSE sugg[s]]
    /\ signed' = [p \in PlanIds |-> IF p \in named THEN signed[p] \cup {screen[p]}
                                   ELSE signed[p]]
    /\ UNCHANGED <<post, locked, ineligible, screen, sent, late, served, edits, faults>>
==============================================================================
