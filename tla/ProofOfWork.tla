----------------------------- MODULE ProofOfWork -----------------------------
(***************************************************************************)
(* Hashes, targets and retargeting: the arithmetic the engine and the      *)
(* miners share (src/src/work.rs, src/src/difficulty.rs).                  *)
(*                                                                         *)
(* A hash and a target are 64 bytes, compared from the first one on.       *)
(* Every target begins with 56 bytes 0xFF, so only the last eight of it    *)
(* are kept, and of a hash the last eight if it begins like that, too; any *)
(* other hash is below every target.                                       *)
(***************************************************************************)
EXTENDS Integers, Sequences, FiniteSets

CONSTANTS
  TargetBlockTime,  \* milliseconds
  MinDifficulty,
  MaxDifficulty,
  WordRange         \* 2^64: times are u64

ASSUME WorkAssumption ==
  /\ {TargetBlockTime, MinDifficulty, MaxDifficulty} \subseteq Nat
  /\ WordRange \in Nat \ {0}
  /\ 0 < MinDifficulty /\ MinDifficulty <= MaxDifficulty

Byte == 0..255

\* zeros: the bits that are 0 at the beginning of the hash.
Hash == [tail : {<< >>}, zeros : 0..512] \cup [tail : [1..8 -> Byte], zeros : {0}]

\* 1u64 << e
TwoTo[e \in 0..64] == IF e = 0 THEN 1 ELSE 2 * TwoTo[e - 1]

\* u64::ilog2
IsLog2(e, n) == TwoTo[e] <= n /\ n < TwoTo[e + 1]
Log2(n) == CHOOSE e \in 0..63 : IsLog2(e, n)

\* The last eight bytes of calculate_target_from_difficulty.  Of the 64 bits
\* at the end, ilog2 are kept; what is shifted is the one byte before those
\* that are cleared.
Target(difficulty) ==
  LET bits == 64 - Log2(difficulty)
      kept == 8 - bits \div 8
  IN  [i \in 1..8 |->
         IF difficulty = 1 \/ i < kept THEN 255
         ELSE IF i > kept THEN 0
         ELSE IF kept = 8 THEN 255 ELSE 255 \div TwoTo[bits % 8]]

\* Slices of bytes compare like words in a dictionary.
AtMost(s, t) ==
  \/ s = << >> \/ s = t
  \/ \E i \in DOMAIN s : s[i] < t[i] /\ \A j \in 1..(i - 1) : s[j] = t[j]

Meets(hash, difficulty) == AtMost(hash.tail, Target(difficulty))

\* get_difficulty_from_hash, which WorkProof's builder calls.
Achieved(hash) == 
  IF hash.zeros >= 64 THEN TwoTo[64] - 1 ELSE TwoTo[hash.zeros]

\* What create_work_package hands out.  The difficulty stands for the target.
Package == [chain : Nat, height : Nat, block : Nat, timestamp : Nat,
            difficulty : Nat]

\* The fields the work id is hashed from: not the merkle root, for one.
WorkId(work) == <<work.chain, work.height, work.block, work.timestamp>>

-----------------------------------------------------------------------------
\* The f64 product current * (expected / elapsed), with the ratio clamped to
\* 1/4..4 and the result cut to an integer.  Where the exact product is an
\* integer and the ratio is not, rounding may leave it just below.  For
\* difficulties up to 2^53: f64 rounds a larger one, up or down.
Scaled(current, expected, elapsed) ==
  IF expected >= 4 * elapsed THEN {4 * current}
  ELSE IF 4 * expected <= elapsed THEN {current \div 4}
  ELSE LET exact == (current * expected) \div elapsed
           short == expected % elapsed # 0 /\ (current * expected) % elapsed = 0
       IN  {exact} \cup {p \in {exact - 1} : short /\ p >= 0}

WithinLimits(d) ==
  IF d < MinDifficulty THEN MinDifficulty
  ELSE IF d > MaxDifficulty THEN MaxDifficulty ELSE d

\* adjust_difficulty_kadena_style, for a period of at least one block.
AdjustedDifficulties(current, blocks, elapsed) ==
  IF elapsed = 0 THEN {current}
  ELSE {WithinLimits(d) :
          d \in Scaled(current, (blocks * TargetBlockTime) % WordRange, elapsed)}
=============================================================================
