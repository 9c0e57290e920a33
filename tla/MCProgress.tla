----------------------------- MODULE MCProgress ------------------------------
(***************************************************************************)
(* PublicationProgress with every batch of up to MaxLinks links.           *)
(***************************************************************************)
EXTENDS PublicationProgress

(* publication_progress.py docstring, "reconciled to internally consistent *)
(* final counters when the run succeeds or becomes terminal": every failed *)
(* run accounts for each link once.  _mark_run_lost fails a run and leaves *)
(* its counters as they were.                                              *)
EveryFailureAddsUp ==
    status = "failed" =>
        stored.applied + stored.failed + stored.skipped = stored.total
==============================================================================
