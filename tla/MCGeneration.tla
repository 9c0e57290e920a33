---------------------------- MODULE MCGeneration -----------------------------
(***************************************************************************)
(* Two instances in one, of which each behaviour exercises one.            *)
(*    shared  two articles of customer 11, its third being retired first,  *)
(*            and one of a pool; customer 12, whose articles are left out, *)
(*            embeds the pool too                                          *)
(*    limits  three articles of customer 11, the pool being revoked first; *)
(*            three analyses take turns, and editors free rows             *)
(***************************************************************************)
EXTENDS SuggestionGeneration, TLC

VARIABLE part

MCSiteOf == [a \in Articles |-> IF a = 4 THEN 21 ELSE 11]

Symmetry == Permutations(Jobs)

MCScopes == {Articles, {1}}

Started == {j \in Jobs : job[j].pc # "idle"}

(* Bounds: two analyses, one change. *)
Shared ==
    /\ changes' \in {1, 2} /\ active' \subseteq {1, 2, 4}
    /\ changes = 0 => active' = {1, 2, 4}
    /\ Cardinality(Started') <= 2

(* Bounds: one customer, no reader and no failure, two decisions of        *)
(* editors; every analysis writes.                                         *)
Limits ==
    /\ changes' > 0 /\ trusted' = {}
    /\ \A j \in Started' : job'[j].site \in {None, 11} /\ ~job'[j].compare
    /\ active' = Articles /\ enabled' = Customers /\ UNCHANGED version
    /\ \A r \in Readers : job'[r].pc = "idle"
    /\ faults' = 0

MCInit == Init /\ part \in {"shared", "limits"}

MCNext ==
    \/ part = "shared" /\ Next /\ Shared /\ UNCHANGED part
    \/ part = "limits" /\ Next /\ Limits /\ UNCHANGED part

MCSpec == MCInit /\ [][MCNext]_<<part, vars>>
==============================================================================
