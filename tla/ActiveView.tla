------------------------------ MODULE ActiveView -----------------------------
(***************************************************************************)
(* What the readers of a site's content are promised: the active articles  *)
(* and the active links between them change in one step, either because a  *)
(* complete crawl replaces the whole view or because an import extends it. *)
(* No reader ever meets half a crawl, and a crawl that fell short of the   *)
(* last recorded one replaces nothing.                                     *)
(***************************************************************************)
EXTENDS Integers, FiniteSets

CONSTANTS
    Article,        \* article rows
    Enough(_, _)    \* Enough(n, last): n articles are a complete crawl

VARIABLES
    active,     \* articles in the view
    link,       \* links in the view
    last,       \* articles of the last run that succeeded, 0 before the first
    waiting     \* suggestions, as pairs of articles, that wait for a decision

viewVars == <<active, link, last, waiting>>

\* Links a crawl or an import may report: both ends are its own articles.
LinksAmong(A) == {p \in A \X A : p[1] # p[2]}

Init ==
    /\ active = {}
    /\ link = {}
    /\ last = 0
    /\ waiting = {}

\* A crawl (or an import that says it is complete) becomes the view; what
\* waits for a decision on a page that is gone expires with it.
Replace(A, L) ==
    /\ A # {}
    /\ Enough(Cardinality(A), last)
    /\ active' = A
    /\ link' = L
    /\ last' = Cardinality(A)
    /\ waiting' = waiting \cap (A \X A)

\* An import of some pages adds to the view and takes nothing away.
Extend(A, L) ==
    /\ active' = active \cup A
    /\ link' = link \cup L
    /\ last' = Cardinality(A)
    /\ UNCHANGED waiting

\* Analyses propose and reviewers decide; neither touches the view.
Decide ==
    /\ waiting' \in SUBSET (Article \X Article)
    /\ UNCHANGED <<active, link, last>>

Next ==
    \/ \E A \in SUBSET Article : \E L \in SUBSET LinksAmong(A) : Replace(A, L) \/ Extend(A, L)
    \/ Decide

Spec == Init /\ [][Next]_viewVars
==============================================================================
