--------------------------- MODULE BlockValidator ---------------------------
(***************************************************************************)
(* What a validator says of blocks (src/src/block_validator.rs).  It keeps *)
(* nothing but its configuration, and has a target of its own: as many     *)
(* leading zero bits as the difficulty's logarithm, then ones.             *)
(***************************************************************************)
EXTENDS ProofOfWork

\* The check of the difficulty in validate_header.
ValidDifficulty(difficulty) == difficulty \in MinDifficulty..MaxDifficulty

\* calculate_target_from_difficulty and the comparison of a hash with it.
\* (The f64 logarithm is exact enough below 2^47.)
WithinTarget(hash, difficulty) == hash.zeros >= Log2(difficulty)

\* validate_proof_of_work.  The hash is taken to be the header's.
ValidProof(header, proof) ==
  /\ proof.chain = header.chain /\ proof.height = header.height
  /\ WithinTarget(proof.hash, header.difficulty)

\* validate_difficulty_adjustment.  saturating_mul makes no difference: no
\* difficulty is above what it saturates at.
DifficultyFollows(previous, current) ==
  current \in previous \div 4 .. 4 * previous
=============================================================================
