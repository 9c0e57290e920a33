--------------------------- MODULE SuggestionReview --------------------------
(***************************************************************************)
(* Everything else that writes suggestion rows while plans are prepared,   *)
(* approved and published: the review endpoints of                         *)
(* app/api/routes/suggestions.py, the external-link policy and the         *)
(* retirement of rows whose article or pool source went away.              *)
(*                                                                         *)
(* `Review` is an UPDATE that meets no concurrent writer.  `reviewer` is   *)
(* one that does: under READ COMMITTED it re-checks the row it waited for, *)
(* but its NOT EXISTS over publication_plans keeps the snapshot of the     *)
(* statement's start.                                                      *)
(***************************************************************************)
EXTENDS PlanStore

CONSTANTS
    Reviewers,    \* review statements that may be in flight
    Operations,   \* filtered bulk reviews that may be made (and undone)
    PolicyEdits   \* external-link policy updates that may be in flight

VARIABLES
    reviewer,     \* reviewer -> [row, status, approved] or None
    operation,    \* operation -> [cohort, from, to, undone] or None
    policyEdit    \* update -> [ineligible, rows] or None

reviewVars == <<reviewer, operation, policyEdit>>

ReviewStatuses == {"pending", "approved", "rejected"}
UNREVIEWABLE == {"applied", "expired"}

ReviewTypeOK ==
    /\ reviewer \in [Reviewers -> [row : Suggestions, status : ReviewStatuses,
                                   approved : SUBSET PlanIds] \cup {None}]
    /\ operation \in [Operations -> [cohort : SUBSET Suggestions, from : ReviewStatuses,
                                     to : ReviewStatuses, undone : BOOLEAN] \cup {None}]
    /\ policyEdit \in [PolicyEdits -> [ineligible : SUBSET External,
                                       rows : SUBSET Suggestions] \cup {None}]

ReviewInit ==
    /\ reviewer = [v \in Reviewers |-> None]
    /\ operation = [o \in Operations |-> None]
    /\ policyEdit = [e \in PolicyEdits |-> None]

ApprovedPlans == {p \in PlanIds : plan[p].status = "approved"}

(* The rows of `ids` that _review_matching may move, judged against the    *)
(* given set of approved plans.                                            *)
Reviewable(ids, approvedPlans) ==
    {s \in ids : sugg[s].status \notin UNREVIEWABLE /\ sugg[s].plan \notin approvedPlans}

(* _review_values: the decision, with the publication history cleared. *)
Reviewed(status) == [status |-> status, plan |-> None, attempts |-> 0]

SetReviewed(ids, status) ==
    sugg' = [s \in Suggestions |-> IF s \in ids THEN Reviewed(status) ELSE sugg[s]]

OnlySuggestions ==
    UNCHANGED <<plan, post, locked, ineligible, screen, signed, sent, late, served, edits,
                faults>>

------------------------------------------------------------------------------
(* review_suggestion and bulk_review, row by row. *)
Review(s, status) ==
    /\ s \in Reviewable(Suggestions, ApprovedPlans)
    /\ ~RowLocked(s)
    /\ sugg[s] # Reviewed(status)
    /\ SetReviewed({s}, status)
    /\ OnlySuggestions
    /\ UNCHANGED reviewVars

(* The statement starts: its snapshot is taken, the row qualifies. *)
ReviewBegin(v, s, status) ==
    /\ reviewer[v] = None
    /\ s \in Reviewable(Suggestions, ApprovedPlans)
    /\ reviewer' = [reviewer EXCEPT ![v] =
                       [row |-> s, status |-> status, approved |-> ApprovedPlans]]
    /\ UNCHANGED <<storeVars, operation, policyEdit>>

(* The row lock is granted: the row is re-checked as it is now, the plans  *)
(* as they were.                                                           *)
ReviewEnd(v) ==
    /\ reviewer[v] # None
    /\ ~RowLocked(reviewer[v].row)
    /\ SetReviewed(Reviewable({reviewer[v].row}, reviewer[v].approved), reviewer[v].status)
    /\ reviewer' = [reviewer EXCEPT ![v] = None]
    /\ OnlySuggestions
    /\ UNCHANGED <<operation, policyEdit>>

(* bulk_review_by_filter: the moved rows are recorded for the undo. *)
FilterReview(o, from, to) ==
    /\ operation[o] = None
    /\ \E matched \in SUBSET {s \in Suggestions : sugg[s].status = from} :
          /\ \A s \in matched : ~RowLocked(s)
          /\ Reviewable(matched, ApprovedPlans) # {}
          /\ SetReviewed(Reviewable(matched, ApprovedPlans), to)
          /\ operation' = [operation EXCEPT ![o] =
                              [cohort |-> Reviewable(matched, ApprovedPlans),
                               from |-> from, to |-> to, undone |-> FALSE]]
    /\ OnlySuggestions
    /\ UNCHANGED <<reviewer, policyEdit>>

(* undo_filtered_bulk_review: every row of the cohort that still has the   *)
(* status the operation gave it.                                           *)
UndoRows(o) == {s \in operation[o].cohort : sugg[s].status = operation[o].to}

Undo(o) ==
    /\ operation[o] # None
    /\ ~operation[o].undone
    /\ \A s \in UndoRows(o) : ~RowLocked(s)
    /\ SetReviewed(UndoRows(o), operation[o].from)
    /\ operation' = [operation EXCEPT ![o].undone = TRUE]
    /\ OnlySuggestions
    /\ UNCHANGED <<reviewer, policyEdit>>

------------------------------------------------------------------------------
(* update_external_link_policy reads the rows it will expire ... *)
PolicyRead(e, banned) ==
    /\ policyEdit[e] = None
    /\ banned # ineligible
    /\ policyEdit' = [policyEdit EXCEPT ![e] =
          [ineligible |-> banned,
           rows |-> {s \in banned : sugg[s].status \in {"pending", "approved"}}]]
    /\ UNCHANGED <<storeVars, reviewer, operation>>

(* ... and flushes them by primary key, waiting only for the row locks. *)
PolicyWrite(e) ==
    /\ policyEdit[e] # None
    /\ \A s \in policyEdit[e].rows : ~RowLocked(s)
    /\ sugg' = [s \in Suggestions |->
                   IF s \in policyEdit[e].rows THEN [sugg[s] EXCEPT !.status = "expired"]
                   ELSE sugg[s]]
    /\ ineligible' = policyEdit[e].ineligible
    /\ policyEdit' = [policyEdit EXCEPT ![e] = None]
    /\ UNCHANGED <<plan, post, locked, screen, signed, sent, late, served, edits, faults,
                   reviewer, operation>>

(* A crawl deactivates the article, or a pool source is revoked: one       *)
(* guarded UPDATE.                                                         *)
Retire(s) ==
    /\ sugg[s].status \in {"pending", "approved"}
    /\ ~RowLocked(s)
    /\ sugg' = [sugg EXCEPT ![s].status = "expired"]
    /\ OnlySuggestions
    /\ UNCHANGED reviewVars

ReviewStep ==
    \/ \E s \in Suggestions, status \in ReviewStatuses : Review(s, status)
    \/ \E v \in Reviewers, s \in Suggestions, status \in ReviewStatuses :
          ReviewBegin(v, s, status)
    \/ \E v \in Reviewers : ReviewEnd(v)
    \/ \E o \in Operations, from \in ReviewStatuses, to \in {"approved", "rejected"} :
          FilterReview(o, from, to)
    \/ \E o \in Operations : Undo(o)
    \/ \E e \in PolicyEdits, banned \in SUBSET External : PolicyRead(e, banned)
    \/ \E e \in PolicyEdits : PolicyWrite(e)
    \/ \E s \in Suggestions : Retire(s)
==============================================================================
