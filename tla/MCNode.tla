------------------------------ MODULE MCNode ------------------------------
(* Values for TLC.  The address ab ends with the address b.                *)
EXTENDS Node, TLC

CONSTANTS main, t1, t2, p, q, blocks, ab, b

MCEndings == (blocks :> {}) @@ (ab :> {b}) @@ (b :> {})

MCChannels == (main :> {}) @@ (t1 :> {ab, b}) @@ (t2 :> {blocks, b})

MCOthers == {[channel |-> b, height |-> 0]}

\* Two handlers of blocks, in a process that is shut down or just ends.
BlockCalls == (main :> {"shutdown", "crash"})
           @@ (t1 :> {"submitblock"})
           @@ (t2 :> {"submitblock"})

\* Two connections while events are announced.
SocketCalls == (main :> {"announce"})
            @@ (t1 :> {"connect"})
            @@ (t2 :> {"connect"})

\* A block's way to a subscriber.
BothCalls == (main :> {"announce"})
          @@ (t1 :> {"submitblock"})
          @@ (t2 :> {"connect"})

MCWorkloads == {BlockCalls, SocketCalls, BothCalls}
=============================================================================
