------------------------- MODULE MCDifficultyManager -------------------------
(* Values for TLC.  An interval of one block and two timestamps make the   *)
(* ratio fall below, between and above its bounds.                         *)
EXTENDS DifficultyManager, TLC

CONSTANTS t1, t2, t3

\* Two tasks adjust; a third one feeds them, overrides and reports.
CallsOps == (t1 :> {"calculate", "record"})
         @@ (t2 :> {"calculate", "stats"})
         @@ (t3 :> {"record", "set", "stats"})
=============================================================================
