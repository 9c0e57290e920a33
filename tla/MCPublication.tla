---------------------------- MODULE MCPublication ----------------------------
(***************************************************************************)
(* Values for the constants of PublicationSystem.                          *)
(***************************************************************************)
EXTENDS PublicationSystem

(* Two links of one article, to two different targets. *)
OneArticle ==
    [s \in 1..2 |-> [source |-> 1, target |-> s + 1, url |-> s + 1, score |-> s, bm25 |-> 0]]

(* A link and its reverse. *)
Pair ==
    [s \in 1..2 |-> [source |-> s, target |-> 3 - s, url |-> 3 - s, score |-> 1, bm25 |-> 0]]

(* A single link. *)
OneLink == [s \in {1} |-> OneArticle[1]]

(* Only the first suggestion's anchor occurs, and only in the first text. *)
MCAnchors == [t \in Texts |-> IF t = "t1" THEN {1} ELSE {}]

EachOrAll == {Suggestions} \cup {{s} : s \in Suggestions}
AllPlans == {PlanIds}

(* The out-of-band edit drops the link, or moves it out of the prose. *)
MCTampered == {[text |-> "t1", links |-> l] : l \in {{}, {[url |-> 2, kind |-> "block"]}}}
==============================================================================
