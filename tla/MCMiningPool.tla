---------------------------- MODULE MCMiningPool ----------------------------
(* Values for TLC.  Two miners compete for MaxMiners places; difficulties  *)
(* 1 and 2 stand on either side of the pool's minimum.                     *)
EXTENDS MiningPool, TLC

CONSTANTS t1, t2, t3, m1, m2, w1, w2

PoolSymmetry == Permutations({t1, t2}) \cup Permutations(Miners)

Everybody(ops) == [t \in Tasks |-> ops]

\* Two front ends and a back office that reports and keeps house.
CallsOps == (t1 :> {"register", "unregister", "submit"})
         @@ (t2 :> {"register", "unregister", "submit"})
         @@ (t3 :> {"payout", "detailed", "clear", "fee"})
EstimateOps == Everybody({"submit", "estimate", "clear"})
DeadlockOps == Everybody({"register", "submit"})

\* A front end, a reporter and the one task that refreshes the work.
ReturnsOps == (t1 :> {"register", "unregister"})
           @@ (t2 :> {"submit", "stats", "efficiency"})
           @@ (t3 :> {"distribute", "estimate"})
=============================================================================
