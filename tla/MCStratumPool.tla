---------------------------- MODULE MCStratumPool ----------------------------
(* Values for TLC.                                                         *)
EXTENDS StratumPool, TLC

CONSTANTS t1, t2, t3

\* Two connections, the second of which serves HTTP and spawned syncs when
\* no miner is on it, and the periodic sync.
CallsOps == (t1 :> {"miner"}) @@ (t2 :> {"miner", "post", "stats", "background"})
         @@ (t3 :> {"sync"})

\* One connection, one task for HTTP and spawned syncs, the periodic sync.
SyncOps == (t1 :> {"miner"}) @@ (t2 :> {"post", "stats", "background"})
        @@ (t3 :> {"sync"})

\* A claimed block, a block its miner does not claim, one whose nonce cannot
\* be sent, and a hash that is none.
SomeShares == {
  [height |-> 1, strength |-> 2, sendable |-> TRUE, is_block |-> TRUE],
  [height |-> 2, strength |-> 2, sendable |-> TRUE, is_block |-> FALSE],
  [height |-> 0, strength |-> 2, sendable |-> FALSE, is_block |-> FALSE],
  [height |-> 0, strength |-> 0, sendable |-> FALSE, is_block |-> TRUE]}
=============================================================================
