-------------------------- MODULE MCPublicationJobs --------------------------
(***************************************************************************)
(* Publication jobs, for TLC: what several of them write, and the counters *)
(* that one of them reports.  What is written does not depend on the       *)
(* counters, so each behaviour exercises one of the two.                   *)
(***************************************************************************)
EXTENDS MCPublication, PublicationProgress

VARIABLE part

JobsInit ==
    /\ part \in {"writes", "counters"}
    /\ Init
    /\ ProgressInit
    /\ part = "writes" => ever = 0

(* RQ is done with the job that counts. *)
JobOver == attempt = "over" /\ UNCHANGED progressVars

JobsNext ==
    \/ part = "writes" /\ Next /\ UNCHANGED <<part, progressVars>>
    \/ part = "counters" /\ (ProgressNext \/ JobOver) /\ UNCHANGED <<part, vars>>

JobsSpec == JobsInit /\ [][JobsNext]_<<part, vars, progressVars>>
==============================================================================
