--------------------------- MODULE MCPoWConsensus ---------------------------
(* Values for TLC.                                                         *)
EXTENDS PoWConsensus, TLC

CONSTANTS t1, t2

\* One who mines, and one who runs the engine, submits proofs from elsewhere
\* and puts older work back.
CallsOps == (t1 :> {"work", "set", "mine", "submit"})
         @@ (t2 :> {"init", "take", "set", "foreign", "submit", "reset", "report"})

AloneOps == [t \in Tasks |-> {"init", "work", "mine", "submit"}]

\* A hash below every target, with two leading zero bits, and one between
\* the targets of the difficulties 7 and 8.
SomeHashes == {
  [tail |-> << >>, zeros |-> 2],
  [tail |-> <<5, 0, 0, 0, 0, 0, 0, 0>>, zeros |-> 0]}

\* Proofs for the second block of the mined chain and the first of another.
SomeProofs == {
  [chain |-> place[1], height |-> place[2], hash |-> [tail |-> << >>, zeros |-> 2],
   difficulty |-> 0] : place \in {<<0, 2>>, <<1, 1>>}}
=============================================================================
