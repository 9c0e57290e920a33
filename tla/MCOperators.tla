----------------------------- MODULE MCOperators -----------------------------
(***************************************************************************)
(* What people do to the installation, for TLC: the dashboard's accounts   *)
(* and the sites. The two share nothing, so each behaviour exercises one.  *)
(***************************************************************************)
EXTENDS DashboardAccess, PoolSources

VARIABLE part

\* Two sites on one property, as example.com and blog.example.com.
MCSame == Sites \X Sites

Init ==
    /\ part \in {"access", "sites"}
    /\ AccessInit
    /\ PoolInit

Next ==
    \/ part = "access" /\ AccessNext /\ UNCHANGED <<part, poolVars>>
    \/ part = "sites" /\ PoolNext /\ UNCHANGED <<part, accessVars>>

Spec == Init /\ [][Next]_<<part, accessVars, poolVars>>
==============================================================================
