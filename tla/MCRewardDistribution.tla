------------------------ MODULE MCRewardDistribution ------------------------
(* Values for TLC.  Rewards of 2, 1 and 0, and fees, reach the largest     *)
(* amount within the bound.                                                *)
EXTENDS RewardDistribution, TLC

CONSTANTS t1, t2, t3, m1, m2

\* Two nodes record and pay at once while a third task pays and reports.
CallsOps == (t1 :> {"reward"})
         @@ (t2 :> {"reward", "payout"})
         @@ (t3 :> {"payout", "stats"})
=============================================================================
