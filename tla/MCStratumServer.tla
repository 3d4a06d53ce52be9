--------------------------- MODULE MCStratumServer ---------------------------
(* Values for TLC.                                                         *)
EXTENDS StratumServer, TLC

CONSTANTS acceptor, owner, h1, h2, ip

HandlersSymmetric == Permutations({h1, h2})
=============================================================================
