-------------------------- MODULE MCBlockSubmission --------------------------
(* Values for TLC. *)
EXTENDS BlockSubmission, TLC

CONSTANTS t1, t2, t3

\* Two miners submit, one of them follows the chain as well; one reports.
CallsOps == (t1 :> {"submit", "stats"}) @@ (t2 :> {"submit", "update"})
         @@ (t3 :> {"update", "stats"})

=============================================================================
