-------------------------------- MODULE Miner --------------------------------
(***************************************************************************)
(* The miner of one chain (src/src/miner.rs), and what its callers have in *)
(* their hands.                                                            *)
(*                                                                         *)
(* The miner keeps the work it was given, its statistics and the times of  *)
(* its last proofs behind three fair locks, and the number of its hashes   *)
(* in an atomic counter that no lock protects.  Several tasks may mine     *)
(* with it at once.  Each tries nonces, looks every CheckInterval hashes   *)
(* whether there is other work, and records what it has found.             *)
(***************************************************************************)
EXTENDS LockedTasks, ProofOfWork

CONSTANTS
  Chain,          \* the chain this miner belongs to
  Hashes,         \* what a nonce may hash to
  CheckInterval,  \* 1_000_000 hashes
  KeptTimes,      \* 100 proofs
  Ops,            \* the operations each task calls in this instance
  MaxHashes,      \* bound: no nonce is tried beyond this counter
  MaxHeight       \* bound: no work is mined for a higher block

ASSUME MinerAssumption ==
  /\ Chain \in Nat
  /\ Hashes \subseteq Hash
  /\ {CheckInterval, KeptTimes} \subseteq Nat \ {0}
  /\ {MaxHashes, MaxHeight} \subseteq Nat

VARIABLES
  current_work,  \* Option<WorkPackage>
  stats,         \* MinerStats: the counts
  proof_times,   \* Vec<u64>: its length
  total_hashes,  \* AtomicU64
  package,       \* the work package each caller has, or None
  proof          \* the proof each caller has, or None

minerVars == <<current_work, stats, proof_times, total_hashes>>
callerVars == <<package, proof>>

MinerLocks == {"work", "stats", "times"}

NewStats == [valid_proofs |-> 0, total_hashes |-> 0]

\* difficulty: of the work the proof was mined for, 0 if that is not known.
Proof == [chain : Nat, height : Nat, hash : Hash, difficulty : Nat]

\* since: hashes since the last look for new work.
\* stale (history): hashes since the work was last seen to be the current one.
Mining == [work : Package, since : Nat, stale : Nat, hash : Hash \cup {None}]

\* Bound: a caller asks for work when it has neither work nor a proof left.
EmptyHanded(t) == package[t] = None /\ proof[t] = None

Call(t, op, value, point, lock, mode) ==
  op \in Ops[t] /\ Enter(t, value, point, lock, mode)

-----------------------------------------------------------------------------
(* set_work and get_current_work.                                          *)

SetWork(t) ==
  /\ package[t] # None /\ package[t].chain = Chain
  /\ Call(t, "set", package[t], "set_work", "work", "write")
  /\ package' = [package EXCEPT ![t] = None]
  /\ UNCHANGED <<minerVars, proof>>

SetWorkStore(t) ==
  /\ Reached(t, "set_work", "work")
  /\ current_work' = arg[t]
  /\ Return(t)
  /\ UNCHANGED <<stats, proof_times, total_hashes, callerVars>>

GetCurrentWork(t) ==
  /\ EmptyHanded(t)
  /\ Call(t, "take", None, "take_work", "work", "read")
  /\ UNCHANGED <<minerVars, callerVars>>

GetCurrentWorkCopy(t) ==
  /\ Reached(t, "take_work", "work")
  /\ package' = [package EXCEPT ![t] = current_work]
  /\ Return(t)
  /\ UNCHANGED <<minerVars, proof>>

-----------------------------------------------------------------------------
(* mine_work_with_address.  mine_continuous is a caller that takes the     *)
(* current work, mines it and lets go of the proof, for ever.              *)

MineWork(t) ==
  /\ "mine" \in Ops[t] /\ pc[t] = "idle"
  /\ package[t] # None /\ package[t].chain = Chain
  /\ package[t].height <= MaxHeight
  /\ Keep(t, [work |-> package[t], since |-> 0, stale |-> 0, hash |-> None])
  /\ Move(t, "mine_hash")
  /\ package' = [package EXCEPT ![t] = None]
  /\ UNCHANGED <<minerVars, proof>>

\* There is no other work than this one, as far as the work id tells.
StillCurrent(work) == current_work = None \/ WorkId(current_work) = WorkId(work)

\* One turn of the loop, up to the next lock or nonce.
TryNonce(t) ==
  /\ pc[t] = "mine_hash" /\ total_hashes < MaxHashes
  /\ total_hashes' = total_hashes + 1
  /\ \E hash \in Hashes :
       LET found == Meets(hash, arg[t].work.difficulty)
           since == arg[t].since + 1
           stale == IF StillCurrent(arg[t].work) THEN 0 ELSE arg[t].stale + 1
       IN  \/ /\ found
              /\ Keep(t, [arg[t] EXCEPT !.since = since, !.stale = stale,
                                        !.hash = hash])
              /\ Await(t, "mine_found", "stats", "write")
           \/ /\ ~found /\ since < CheckInterval
              /\ Keep(t, [arg[t] EXCEPT !.since = since, !.stale = stale])
              /\ UNCHANGED <<pc, locks>>
           \/ /\ ~found /\ since >= CheckInterval
              /\ Keep(t, [arg[t] EXCEPT !.since = 0, !.stale = stale])
              /\ Await(t, "mine_check", "work", "read")
  /\ UNCHANGED <<current_work, stats, proof_times, callerVars>>

MineFound(t) ==
  /\ Reached(t, "mine_found", "stats")
  /\ stats' = [valid_proofs |-> stats.valid_proofs + 1,
               total_hashes |-> total_hashes]
  /\ Await(t, "mine_times", "times", "write")
  /\ UNCHANGED <<current_work, proof_times, total_hashes, callerVars, arg>>

MineProof(t) ==
  /\ Reached(t, "mine_times", "times")
  /\ proof_times' = IF proof_times = KeptTimes THEN KeptTimes ELSE proof_times + 1
  /\ LET work == arg[t].work
     IN  proof' = [proof EXCEPT ![t] =
           [chain |-> work.chain, height |-> work.height,
            hash |-> arg[t].hash, difficulty |-> work.difficulty]]
  /\ Return(t)
  /\ UNCHANGED <<current_work, stats, total_hashes, package>>

\* Variant: only work for a higher block counts as other work.
MineCheckHeight(t) ==
  /\ Reached(t, "mine_check", "work")
  /\ IF current_work # None /\ current_work.height > arg[t].work.height
     THEN Return(t)
     ELSE /\ Drop(t, "work", "mine_checked")
          /\ Keep(t, [arg[t] EXCEPT !.stale = IF StillCurrent(arg[t].work) THEN 0 ELSE @])
  /\ UNCHANGED <<minerVars, callerVars>>

MineCheck(t) ==
  /\ Reached(t, "mine_check", "work")
  /\ IF StillCurrent(arg[t].work)
     THEN /\ Drop(t, "work", "mine_checked")
          /\ Keep(t, [arg[t] EXCEPT !.stale = 0])
     ELSE Return(t)
  /\ UNCHANGED <<minerVars, callerVars>>

MineAsk(t) ==
  /\ pc[t] = "mine_checked"
  /\ Await(t, "mine_stats", "stats", "write")
  /\ UNCHANGED <<minerVars, callerVars, arg>>

MineUpdate(t) ==
  /\ Reached(t, "mine_stats", "stats")
  /\ stats' = [stats EXCEPT !.total_hashes = total_hashes]
  /\ Drop(t, "stats", "mine_hash")
  /\ UNCHANGED <<current_work, proof_times, total_hashes, callerVars, arg>>

-----------------------------------------------------------------------------
(* reset_stats: the counter is an atomic, and cleared after the rest.      *)

ResetStats(t) ==
  /\ Call(t, "reset", None, "reset_stats", "stats", "write")
  /\ UNCHANGED <<minerVars, callerVars>>

\* Variant: the statistics are unlocked before the counter is cleared.
ResetClearUnlocks(t) ==
  /\ Reached(t, "reset_stats", "stats")
  /\ stats' = NewStats
  /\ Drop(t, "stats", "reset_counter")
  /\ UNCHANGED <<current_work, proof_times, total_hashes, callerVars, arg>>

ResetClear(t) ==
  /\ Reached(t, "reset_stats", "stats")
  /\ stats' = NewStats
  /\ Move(t, "reset_counter")
  /\ UNCHANGED <<current_work, proof_times, total_hashes, callerVars, arg>>

ResetCounter(t) ==
  /\ pc[t] = "reset_counter"
  /\ total_hashes' = 0
  /\ Return(t)
  /\ UNCHANGED <<current_work, stats, proof_times, callerVars>>

-----------------------------------------------------------------------------
MinerBegin(t) ==
  SetWork(t) \/ GetCurrentWork(t) \/ MineWork(t) \/ ResetStats(t)

MinerContinue(t) ==
  \/ SetWorkStore(t) \/ GetCurrentWorkCopy(t)
  \/ TryNonce(t) \/ MineFound(t) \/ MineProof(t)
  \/ MineCheck(t) \/ MineAsk(t) \/ MineUpdate(t)
  \/ ResetClear(t) \/ ResetCounter(t)

MinerInit ==
  /\ current_work = None
  /\ stats = NewStats /\ proof_times = 0 /\ total_hashes = 0
  /\ package = [t \in Tasks |-> None]
  /\ proof = [t \in Tasks |-> None]

MinerPoints == {"set_work", "take_work", "mine_hash", "mine_found",
                "mine_times", "mine_check", "mine_checked", "mine_stats",
                "reset_stats", "reset_counter"}

MiningPoints == {"mine_hash", "mine_found", "mine_times", "mine_check",
                 "mine_checked", "mine_stats"}
=============================================================================
