------------------------------- MODULE MCJobs --------------------------------
(***************************************************************************)
(* DurableJobs on small instances; the configurations give the constants.  *)
(***************************************************************************)
EXTENDS DurableJobs, TLC

(* Requests are interchangeable, and so are workers. *)
Symmetry == Permutations(Callers) \cup Permutations(Horses)
==============================================================================
