-------------------------- MODULE PublicationSystem --------------------------
(***************************************************************************)
(* Preparation, approval, review and publication over one store: the whole *)
(* path a link takes from an editor's selection to the customer's post.    *)
(***************************************************************************)
EXTENDS PlanPublication, PlanPreparation, SuggestionReview

CONSTANT TamperedHtml   \* contents an out-of-band UPDATE may leave in a plan

vars == <<storeVars, worker, prep, reviewVars>>

TypeOK == StoreTypeOK /\ WorkerTypeOK /\ PrepTypeOK /\ ReviewTypeOK

Init == StoreInit /\ WorkerInit /\ PrepInit /\ ReviewInit

Worker(w) == (WorkerStep(w) \/ WorkerFault(w)) /\ UNCHANGED <<prep, reviewVars>>

Preparer(r) == PrepStep(r) /\ UNCHANGED <<worker, reviewVars>>

Operator ==
    /\ \/ \E p \in PlanIds : ViewPlan(p)
       \/ \E named \in SUBSET PlanIds : Approve(named)
    /\ UNCHANGED <<worker, prep, reviewVars>>

Editor == ReviewStep /\ UNCHANGED <<worker, prep>>

Outside ==
    /\ \/ \E a \in Articles : HumanEdit(a)
       \/ \E m \in late : LateEffect(m)
       \/ \E p \in PlanIds, c \in TamperedHtml, rehash \in BOOLEAN : Tamper(p, c, rehash)
    /\ UNCHANGED <<worker, prep, reviewVars>>

Next ==
    \/ \E w \in Workers : Worker(w)
    \/ \E r \in Preparers : Preparer(r)
    \/ Operator
    \/ Editor
    \/ Outside

Spec == Init /\ [][Next]_vars

(* People and the network owe nothing; a queued job runs to its end, and   *)
(* an approved plan keeps being queued until it is resolved.               *)
FairSpec ==
    Spec /\ \A w \in Workers : WF_vars(WorkerStep(w) /\ UNCHANGED <<prep, reviewVars>>)

------------------------------------------------------------------------------
(* The promise of immutable plans: every POST the worker ever issues       *)
(* carries exactly the updated_html of the artifact whose hash a named     *)
(* human sent with the approval of that plan.                              *)
ApprovedBytesOnly ==
    \A m \in sent : /\ signed[m.plan] # {}
                    /\ \A h \in signed[m.plan] : m.html = h.sha256.upd

(* Why no other bytes can leave: approved_hash is what the humans sent;    *)
(* what an open publication holds is approved, still hashes to that value, *)
(* and no other worker holds the same plan or the same article.            *)
Custody ==
    /\ \A p \in PlanIds :
          /\ plan[p].approvedHash = signed[p]
          /\ plan[p].status = "approved" => signed[p] # {}
          /\ plan[p].status \in {"absent", "prepared"} => signed[p] = {}
    /\ \A p \in locked :
          plan[p].status = "approved" /\ signed[p] = {Hash(plan[p].art)}
    /\ \A w \in Workers : worker[w].pc \in Holding => worker[w].cur \in locked
    /\ \A v, w \in Workers :
          worker[v].pc \in Holding /\ worker[w].pc \in Holding /\ v # w =>
              worker[v].cur # worker[w].cur
    /\ \A p, q \in locked : plan[p].art.source = plan[q].art.source => p = q

(* models/publication_plan.py: prepared -> approved -> applied, prepared   *)
(* -> superseded, approved -> stale | failed, and nothing else: an         *)
(* approved plan is never superseded and a terminal one never moves.       *)
PlanMoves ==
    {<<"absent", "prepared">>, <<"prepared", "approved">>, <<"prepared", "superseded">>,
     <<"approved", "applied">>, <<"approved", "stale">>, <<"approved", "failed">>}

PlanLifecycle ==
    [][\A p \in PlanIds : plan'[p].status # plan[p].status =>
          <<plan[p].status, plan'[p].status>> \in PlanMoves]_vars

(* models/suggestion.py: a published link stays applied, and stays bound   *)
(* to the plan that published it, whatever runs beside the worker.         *)
AppliedIsFinal ==
    [][\A s \in Suggestions : sugg[s].status = "applied" =>
          sugg'[s].status = "applied" /\ sugg'[s].plan = sugg[s].plan]_vars

(* approve_plans and the review guard: while a plan is approved, every row *)
(* it renders is bound to it and none has been reviewed away; and a row is *)
(* only ever bound to a plan that renders it and that was approved.        *)
ApprovedPlanIsBound ==
    /\ \A p \in PlanIds : plan[p].status = "approved" =>
          \A s \in ItemIds(p) : sugg[s].plan = p /\ sugg[s].status \notin {"pending", "rejected"}
    /\ \A s \in Suggestions : sugg[s].plan # None =>
          /\ s \in ItemIds(sugg[s].plan)
          /\ plan[sugg[s].plan].status \in {"approved", "applied", "failed"}

(* _bound_to_an_approved_plan: when the worker is about to send an edit,   *)
(* every link in it is still a link its reviewer wants.                    *)
PostsOnlyWanted ==
    \A w \in Workers : worker[w].pc = "post" =>
        \A s \in ItemIds(worker[w].cur) : sugg[s].status = "approved"

(* A plan, and a suggestion, are reported applied only if the post really  *)
(* carried the approved edit at some moment, whatever crashed, timed out   *)
(* or was retried on the way.                                              *)
AppliedWasServed ==
    \A p \in PlanIds : plan[p].status = "applied" =>
        plan[p].art.upd \in served[plan[p].art.source]

(* The advisory lock: between a worker's GET and its POST no other worker  *)
(* writes that post; only WordPress itself can (a person, or a late POST). *)
NoWorkerInterference ==
    [][\A w \in Workers, a \in Articles :
          /\ worker[w].pc = "post" /\ worker'[w].pc = "post"
          /\ plan[worker[w].cur].art.source = a
          /\ edits' = edits /\ late' = late
          => post'[a] = post[a]]_vars

(* grouped_batch, "this is the gate that stops the second from being       *)
(* rendered": a link and its reverse are never both published.             *)
NoMutualLinks ==
    \A s, t \in Applied : ~Reciprocal(Row, s, t)

(* publish_max_suggestion_attempts: a row at the limit is out of the       *)
(* selection until an editor decides on it again.                          *)
ExhaustedIsQuarantined ==
    \A s \in Suggestions : sugg[s].status = "approved" => sugg[s].attempts < MaxAttempts

(* An approved plan is applied, goes stale or fails: even a post that can  *)
(* never be reached is retried a bounded number of times.                  *)
ApprovedIsResolved ==
    \A p \in PlanIds : plan[p].status = "approved" ~> plan[p].status # "approved"
==============================================================================
