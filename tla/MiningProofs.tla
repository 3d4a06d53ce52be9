---------------------------- MODULE MiningProofs ----------------------------
(***************************************************************************)
(* Theorems about the two ends of mining: the consensus engine with the    *)
(* miner of one of its chains, for any number of tasks, chains and blocks; *)
(* and the Stratum client of a mining thread, for any number of            *)
(* connections, shares, keepalives and faults.                             *)
(***************************************************************************)
EXTENDS PoWConsensus, StratumClient, LockedTasksProofs, SequenceTheorems

-----------------------------------------------------------------------------
(* The engine's locks.                                                     *)

EngineLocks == LockInv(Locks, Points, Wants, HeldAt)

\* A task between two calls has no guard and waits for none.
LEMMA IdleHoldsNothing ==
  /\ "idle" \in Points
  /\ \A l \in Locks : Wants["idle"][l] = "none"
  /\ HeldAt["idle"] = {}
BY DEF Points, MinerPoints, Locks, MinerLocks, Wants, Writes, Reads, HeldAt

\* The tables have an entry for every segment that asks for a lock,
AskedFor(from, got, to, lock, mode) ==
  Asks(Locks, Points, Wants, HeldAt, from, got, to, lock, mode)

LEMMA TablesAsk ==
  /\ AskedFor("idle", {}, "init_states", "states", "write")
  /\ AskedFor("init_states", {"states"}, "init_miners", "miners", "write")
  /\ AskedFor("idle", {}, "work_states", "states", "read")
  /\ AskedFor("idle", {}, "submit_states", "states", "write")
  /\ AskedFor("submit_states", {"states"}, "submit_history", "history", "write")
  /\ AskedFor("idle", {}, "report_states", "states", "read")
  /\ AskedFor("report_states", {"states"}, "report_history", "history", "read")
  /\ AskedFor("idle", {}, "report_stats", "stats", "read")
  /\ AskedFor("idle", {}, "set_work", "work", "write")
  /\ AskedFor("idle", {}, "take_work", "work", "read")
  /\ AskedFor("idle", {}, "reset_stats", "stats", "write")
  /\ AskedFor("mine_hash", {}, "mine_found", "stats", "write")
  /\ AskedFor("mine_hash", {}, "mine_check", "work", "read")
  /\ AskedFor("mine_found", {"stats"}, "mine_times", "times", "write")
  /\ AskedFor("mine_checked", {}, "mine_stats", "stats", "write")
BY DEF AskedFor, Asks, Points, MinerPoints, Locks, MinerLocks, Wants, Writes,
   Reads, HeldAt

\* for every one that drops a guard, and for every one that goes on.
LEMMA TablesGoOn ==
  /\ Drops(Locks, Points, Wants, HeldAt, "work_states", {"states"}, "states",
           "work_copied")
  /\ Drops(Locks, Points, Wants, HeldAt, "mine_check", {"work"}, "work",
           "mine_checked")
  /\ Drops(Locks, Points, Wants, HeldAt, "mine_stats", {"stats"}, "stats",
           "mine_hash")
  /\ Moves(Locks, Points, Wants, HeldAt, "idle", {}, "mine_hash")
  /\ Moves(Locks, Points, Wants, HeldAt, "reset_stats", {"stats"}, "reset_counter")
BY DEF Drops, Moves, Points, MinerPoints, Locks, MinerLocks, Wants, Writes,
   Reads, HeldAt

\* Starting an operation asks for one lock, or for none.
LEMMA BeginKeepsLocks ==
  ASSUME EngineLocks, NEW t \in Tasks, Begin(t) \/ MinerBegin(t)
  PROVE  EngineLocks'
<1> USE DEF EngineLocks
<1>1. ASSUME NEW to, NEW lock, NEW mode, AskedFor("idle", {}, to, lock, mode),
             \E op, v : Call(t, op, v, to, lock, mode)
      PROVE  EngineLocks'
  BY <1>1, EnterKeepsLocks DEF AskedFor, Call
<1>2. CASE InitializeChain(t)
  BY <1>1, <1>2, TablesAsk DEF InitializeChain
<1>3. CASE CreateWorkPackage(t)
  BY <1>1, <1>3, TablesAsk DEF CreateWorkPackage
<1>4. CASE SubmitBlock(t)
  BY <1>1, <1>4, TablesAsk DEF SubmitBlock
<1>5. CASE Report(t)
  BY <1>1, <1>5, TablesAsk DEF Report
<1>6. CASE SetWork(t)
  BY <1>1, <1>6, TablesAsk DEF SetWork
<1>7. CASE GetCurrentWork(t)
  BY <1>1, <1>7, TablesAsk DEF GetCurrentWork
<1>8. CASE ResetStats(t)
  BY <1>1, <1>8, TablesAsk DEF ResetStats
<1>9. CASE MineWork(t)
  <2>1. pc[t] = "idle" /\ Move(t, "mine_hash")
    BY <1>9 DEF MineWork
  <2>2. QED
    BY <2>1, TablesGoOn, MovesKeepsLocks
<1>10. QED
  BY <1>2, <1>3, <1>4, <1>5, <1>6, <1>7, <1>8, <1>9 DEF Begin, MinerBegin

\* So does asking for one more lock, if the tables have the entry.
LEMMA AwaitKeeps ==
  ASSUME EngineLocks, NEW t \in Tasks, NEW from, NEW got, NEW to, NEW lock, NEW mode,
         AskedFor(from, got, to, lock, mode),
         pc[t] = from, \A l \in got : Holds(locks[l], t),
         Await(t, to, lock, mode)
  PROVE  EngineLocks'
BY AsksKeepsLocks DEF AskedFor, EngineLocks

\* Every later segment of the engine has the guards it runs under and asks for
\* the next lock, drops one, or returns.
LEMMA ContinueKeepsLocks ==
  ASSUME EngineLocks, NEW t \in Tasks, Continue(t)
  PROVE  EngineLocks'
<1> USE DEF EngineLocks
<1>1. CASE InitializeState(t)
  <2>1. /\ pc[t] = "init_states" /\ Holds(locks["states"], t)
        /\ Await(t, "init_miners", "miners", "write")
    BY <1>1 DEF InitializeState, Reached
  <2>2. AskedFor("init_states", {"states"}, "init_miners", "miners", "write")
    BY TablesAsk
  <2>3. QED
    BY <2>1, <2>2, AwaitKeeps
<1>2. CASE WorkCopy(t)
  <2>1. /\ pc[t] = "work_states" /\ Holds(locks["states"], t)
        /\ Drop(t, "states", "work_copied")
    BY <1>2 DEF WorkCopy, Reached
  <2>2. QED
    BY <2>1, TablesGoOn, DropsKeepsLocks
<1>3. CASE SubmitAccepted(t)
  <2>1. /\ pc[t] = "submit_states" /\ Holds(locks["states"], t)
        /\ Await(t, "submit_history", "history", "write")
    BY <1>3 DEF SubmitAccepted, Reached
  <2>2. AskedFor("submit_states", {"states"}, "submit_history", "history", "write")
    BY TablesAsk
  <2>3. QED
    BY <2>1, <2>2, AwaitKeeps
<1>4. CASE ReportBoth(t)
  <2>1. /\ pc[t] = "report_states" /\ Holds(locks["states"], t)
        /\ Await(t, "report_history", "history", "read")
    BY <1>4 DEF ReportBoth, Reached
  <2>2. AskedFor("report_states", {"states"}, "report_history", "history", "read")
    BY TablesAsk
  <2>3. QED
    BY <2>1, <2>2, AwaitKeeps
<1>5. CASE \/ InitializeKnown(t) \/ InitializeMiner(t) \/ WorkUnknown(t)
           \/ WorkPackage(t) \/ SubmitRefused(t) \/ SubmitRecord(t) \/ Reported(t)
  BY <1>5, ReturnKeepsLocks, IdleHoldsNothing
     DEF InitializeKnown, InitializeMiner, WorkUnknown, WorkPackage,
         SubmitRefused, SubmitRecord, Reported
<1>6. QED
  BY <1>1, <1>2, <1>3, <1>4, <1>5 DEF Continue

\* And so has every later segment of the miner.
LEMMA MinerContinueKeepsLocks ==
  ASSUME EngineLocks, NEW t \in Tasks, MinerContinue(t)
  PROVE  EngineLocks'
<1> USE DEF EngineLocks
<1>1. CASE TryNonce(t)
  <2>1. /\ pc[t] = "mine_hash"
        /\ \/ Await(t, "mine_found", "stats", "write")
           \/ UNCHANGED <<pc, locks>>
           \/ Await(t, "mine_check", "work", "read")
    BY <1>1 DEF TryNonce
  <2>2. CASE Await(t, "mine_found", "stats", "write")
    <3>1. AskedFor("mine_hash", {}, "mine_found", "stats", "write")
      BY TablesAsk
    <3>2. QED
      BY <2>1, <2>2, <3>1, AwaitKeeps
  <2>3. CASE Await(t, "mine_check", "work", "read")
    <3>1. AskedFor("mine_hash", {}, "mine_check", "work", "read")
      BY TablesAsk
    <3>2. QED
      BY <2>1, <2>3, <3>1, AwaitKeeps
  <2>4. CASE UNCHANGED <<pc, locks>>
    BY <2>4, UntouchedLocks
  <2>5. QED
    BY <2>1, <2>2, <2>3, <2>4
<1>2. CASE MineFound(t)
  <2>1. /\ pc[t] = "mine_found" /\ Holds(locks["stats"], t)
        /\ Await(t, "mine_times", "times", "write")
    BY <1>2 DEF MineFound, Reached
  <2>2. AskedFor("mine_found", {"stats"}, "mine_times", "times", "write")
    BY TablesAsk
  <2>3. QED
    BY <2>1, <2>2, AwaitKeeps
<1>3. CASE MineCheck(t)
  <2>1. /\ pc[t] = "mine_check" /\ Holds(locks["work"], t)
        /\ Drop(t, "work", "mine_checked") \/ Return(t)
    BY <1>3 DEF MineCheck, Reached
  <2>2. CASE Drop(t, "work", "mine_checked")
    BY <2>1, <2>2, TablesGoOn, DropsKeepsLocks
  <2>3. CASE Return(t)
    BY <2>3, ReturnKeepsLocks, IdleHoldsNothing
  <2>4. QED
    BY <2>1, <2>2, <2>3
<1>4. CASE MineAsk(t)
  <2>1. pc[t] = "mine_checked" /\ Await(t, "mine_stats", "stats", "write")
    BY <1>4 DEF MineAsk
  <2>2. AskedFor("mine_checked", {}, "mine_stats", "stats", "write")
    BY TablesAsk
  <2>3. QED
    BY <2>1, <2>2, AwaitKeeps
<1>5. CASE MineUpdate(t)
  <2>1. /\ pc[t] = "mine_stats" /\ Holds(locks["stats"], t)
        /\ Drop(t, "stats", "mine_hash")
    BY <1>5 DEF MineUpdate, Reached
  <2>2. QED
    BY <2>1, TablesGoOn, DropsKeepsLocks
<1>6. CASE ResetClear(t)
  <2>1. /\ pc[t] = "reset_stats" /\ Holds(locks["stats"], t)
        /\ Move(t, "reset_counter")
    BY <1>6 DEF ResetClear, Reached
  <2>2. QED
    BY <2>1, TablesGoOn, MovesKeepsLocks
<1>7. CASE \/ SetWorkStore(t) \/ GetCurrentWorkCopy(t) \/ MineProof(t)
           \/ ResetCounter(t)
  BY <1>7, ReturnKeepsLocks, IdleHoldsNothing
     DEF SetWorkStore, GetCurrentWorkCopy, MineProof, ResetCounter
<1>8. QED
  BY <1>1, <1>2, <1>3, <1>4, <1>5, <1>6, <1>7 DEF MinerContinue

\* Each task holds exactly the guards its place in the code implies: the
\* chains until a new one has its miner and a new block its record, the
\* miner's statistics until a proof has its time.
THEOREM EngineLocksHeld == Spec => []EngineLocks
<1>1. Init => EngineLocks
  BY NoCallsKeepLocks, IdleHoldsNothing DEF Init, EngineLocks
<1>2. EngineLocks /\ [Next]_vars => EngineLocks'
  <2>1. CASE UNCHANGED vars
    BY <2>1, UntouchedLocks DEF vars, taskVars, EngineLocks
  <2>2. CASE \E t \in Tasks : Begin(t) \/ Continue(t) \/ MinerStep(t)
    BY <2>2, BeginKeepsLocks, ContinueKeepsLocks, MinerContinueKeepsLocks
       DEF MinerStep
  <2>3. QED
    BY <2>1, <2>2 DEF Next
<1>3. QED
  BY <1>1, <1>2, PTL DEF Spec

-----------------------------------------------------------------------------
(* Waiting for locks.                                                      *)

\* The chains come before the miners and the record, a miner's statistics
\* before its times.
Room == [l \in Locks |-> IF l \in {"states", "stats"} THEN 1 ELSE 0]

LEMMA LocksInOrder ==
  \A point \in Points : InOrder(Locks, Wants, HeldAt, Room, point)
BY DEF InOrder, Points, MinerPoints, Locks, MinerLocks, Wants, Writes, Reads,
   HeldAt, Room

\* Initializing, making work, submitting, mining and reporting never wait for
\* each other in a circle.
THEOREM ConsensusNeverLocksUp == Spec => []NoDeadlock
<1>1. EngineLocks => NoDeadlock
  <2>1. SUFFICES ASSUME EngineLocks, NEW D \in SUBSET Tasks, Stuck(D)
                 PROVE  FALSE
    BY DEF NoDeadlock, Deadlock
  <2>2. Room \in [Locks -> Nat]
    BY DEF Room
  <2>3. \A t \in D : pc[t] \in Points
    BY <2>1 DEF EngineLocks, LockInv
  <2>4. QED
    BY <2>1, <2>2, <2>3, LocksInOrder, CircleLeavesOrder DEF EngineLocks
<1>2. QED
  BY <1>1, EngineLocksHeld, PTL

-----------------------------------------------------------------------------
(* Powers of two, difficulties and their adjustment.                       *)

\* The powers are what their definition says: it defines a function.
LEMMA PowersUnfold ==
  /\ TwoTo[0] = 1
  /\ \A e \in 1..64 : TwoTo[e] = 2 * TwoTo[e - 1]
<1> DEFINE step(f, e) == IF e = 0 THEN 1 ELSE 2 * f[e - 1]
           Good == {m \in 0..64 : \E f : f = [e \in 0..m |-> step(f, e)]}
<1>1. 0 \in Good
  <2> DEFINE f == [e \in 0..0 |-> 1]
  <2>1. f = [e \in 0..0 |-> step(f, e)]
    OBVIOUS
  <2> HIDE DEF f
  <2>2. QED
    BY <2>1
<1>2. ASSUME NEW m \in 1..64, m - 1 \in Good PROVE m \in Good
  <2>1. PICK f : f = [e \in 0..(m - 1) |-> step(f, e)]
    BY <1>2
  <2> DEFINE g == [e \in 0..m |-> IF e = m THEN 2 * f[m - 1] ELSE f[e]]
  <2>2. ASSUME NEW e \in 0..m PROVE g[e] = step(g, e)
    <3>1. CASE e = m
      <4>1. g[e] = 2 * f[e - 1] /\ g[e - 1] = f[e - 1] /\ e # 0
        BY <3>1
      <4>2. QED
        BY <4>1
    <3>2. CASE e # m
      <4>1. e \in 0..(m - 1) /\ g[e] = f[e] /\ (e # 0 => g[e - 1] = f[e - 1])
        BY <3>2
      <4> HIDE DEF g
      <4>2. f[e] = step(f, e)
        BY <2>1, <4>1
      <4>3. QED
        BY <4>1, <4>2
    <3>3. QED
      BY <3>1, <3>2
  <2>3. g = [e \in 0..m |-> g[e]]
    OBVIOUS
  <2> HIDE DEF g, step
  <2>4. g = [e \in 0..m |-> step(g, e)]
    BY <2>2, <2>3
  <2>5. QED
    BY <2>4
<1> HIDE DEF Good, step
<1>3. 64 \in Good
  <2> DEFINE n == 64
  <2>1. n \in Nat /\ (\A m \in 1..n : m - 1 \in Good => m \in Good) /\ n = 64
    BY <1>2
  <2> HIDE DEF n
  <2>2. \A m \in 0..n : m \in Good
    BY <1>1, <2>1, ClimbsTo
  <2>3. QED
    BY <2>1, <2>2
<1>4. \E f : f = [e \in 0..64 |-> step(f, e)]
  BY <1>3 DEF Good
<1> DEFINE powers == CHOOSE f : f = [e \in 0..64 |-> step(f, e)]
<1>5. powers = [e \in 0..64 |-> step(powers, e)]
  BY <1>4
<1>6. TwoTo = powers
  BY DEF TwoTo, step
<1> HIDE DEF powers
<1>7. QED
  BY <1>5, <1>6 DEF step

LEMMA PowersPositive == \A e \in 0..64 : TwoTo[e] \in Nat \ {0}
<1> DEFINE Good == {e \in 0..64 : TwoTo[e] \in Nat \ {0}}
           n == 64
<1>1. 0 \in Good
  BY PowersUnfold
<1>2. ASSUME NEW e \in 1..n, e - 1 \in Good PROVE e \in Good
  BY <1>2, PowersUnfold
<1>3. n \in Nat /\ n = 64
  OBVIOUS
<1> HIDE DEF n, Good
<1>4. \A e \in 0..n : e \in Good
  BY <1>1, <1>2, <1>3, ClimbsTo
<1>5. QED
  BY <1>3, <1>4 DEF Good

\* A hash achieves a difficulty.
LEMMA AchievedIsNat == ASSUME NEW hash \in Hash PROVE Achieved(hash) \in Nat
<1>1. hash.zeros \in 0..512
  BY DEF Hash
<1>2. CASE hash.zeros >= 64
  BY <1>2, PowersPositive DEF Achieved
<1>3. CASE hash.zeros < 64
  BY <1>1, <1>3, PowersPositive DEF Achieved
<1>4. QED
  BY <1>1, <1>2, <1>3

\* Division, and what may be cancelled from a product.
LEMMA Quotient ==
  ASSUME NEW a \in Nat, NEW b \in Nat \ {0}
  PROVE  /\ a \div b \in Nat /\ a % b \in 0..(b - 1)
         /\ a = (a \div b) * b + (a % b)
<1>1. a = b * (a \div b) + (a % b) /\ a % b \in 0..(b - 1) /\ a \div b \in Int
  BY Z3
<1>2. a \div b \in Nat
  BY Z3
<1>3. QED
  BY <1>1, <1>2, Z3

LEMMA Cancel ==
  ASSUME NEW a \in Int, NEW b \in Int, NEW s \in Nat \ {0}, a * s < b * s
  PROVE  a < b
<1>1. SUFFICES ASSUME a >= b PROVE FALSE
  OBVIOUS
<1>2. a * s >= b * s
  BY <1>1, Z3
<1>3. QED
  BY <1>2, Z3

\* The product moves a difficulty by a factor between 1/4 and 4, whichever way
\* it is rounded.
LEMMA ScaledBounds ==
  ASSUME NEW current \in Nat, NEW expected \in Nat, NEW elapsed \in Nat \ {0},
         NEW d \in Scaled(current, expected, elapsed)
  PROVE  d \in Nat /\ current \div 4 <= d /\ d <= 4 * current
<1>1. CASE expected >= 4 * elapsed
  BY <1>1 DEF Scaled
<1>2. CASE ~(expected >= 4 * elapsed) /\ 4 * expected <= elapsed
  BY <1>2 DEF Scaled
<1>3. CASE expected < 4 * elapsed /\ elapsed < 4 * expected
  <2> DEFINE total == current * expected
             low == current \div 4
  <2>1. total \in Nat /\ low \in Nat /\ 4 * low <= current
    <3>1. total \in Nat
      BY Z3
    <3>2. low \in Nat /\ 4 * low <= current
      OBVIOUS
    <3>3. QED
      BY <3>1, <3>2
  <2>a. /\ total \div elapsed \in Nat /\ total % elapsed \in 0..(elapsed - 1)
        /\ total = (total \div elapsed) * elapsed + (total % elapsed)
    <3>1. total \in Nat
      BY <2>1
    <3> HIDE DEF total, low
    <3>2. QED
      BY <3>1, Quotient, Zenon
  <2> DEFINE exact == total \div elapsed
  <2>2. /\ exact \in Nat /\ total % elapsed \in 0..(elapsed - 1)
        /\ total = exact * elapsed + (total % elapsed)
    BY <2>a, Zenon
  <2>3. d = exact \/ (d = exact - 1 /\ d >= 0 /\ total % elapsed = 0)
    BY <1>3 DEF Scaled
  <2> DEFINE rest == total % elapsed
  <2>4. total <= (4 * current) * elapsed /\ low * elapsed <= total
    <3>1. current * expected <= current * (4 * elapsed)
      BY <1>3, Z3
    <3>2. low * elapsed <= low * (4 * expected)
      BY <1>3, <2>1, Z3
    <3>3. (4 * low) * expected <= current * expected
      BY <2>1, Z3
    <3>4. QED
      BY <3>1, <3>2, <3>3, Z3
  <2>5. low > 0 => low * elapsed < total
    <3>1. low > 0 => low * elapsed < low * (4 * expected)
      BY <1>3, <2>1, Z3
    <3>2. (4 * low) * expected <= current * expected
      BY <2>1, Z3
    <3>3. QED
      BY <3>1, <3>2, Z3
  <2>6. rest \in 0..(elapsed - 1) /\ total = exact * elapsed + rest
    BY <2>2
  <2> HIDE DEF total, exact, low, rest
  <2>7. exact < 4 * current + 1
    <3>1. exact * elapsed < (4 * current + 1) * elapsed
      BY <2>1, <2>2, <2>4, <2>6, Z3
    <3>2. QED
      BY <2>2, <3>1, Cancel
  <2>8. low < exact + 1
    <3>1. low * elapsed < (exact + 1) * elapsed
      BY <2>1, <2>2, <2>4, <2>6, Z3
    <3>2. QED
      BY <2>1, <2>2, <3>1, Cancel
  <2>9. rest = 0 /\ low > 0 => low < exact
    <3>1. rest = 0 /\ low > 0 => low * elapsed < exact * elapsed
      BY <2>1, <2>2, <2>5, <2>6, Z3
    <3>2. QED
      BY <2>1, <2>2, <3>1, Cancel
  <2>10. low <= d /\ d <= 4 * current /\ d \in Nat
    BY <2>1, <2>2, <2>3, <2>7, <2>8, <2>9 DEF rest
  <2>11. QED
    BY <2>10 DEF low
<1>4. QED
  BY <1>1, <1>2, <1>3

\* A validator of the same configuration lets an adjustment pass.
LEMMA AdjustedModerately ==
  ASSUME NEW current \in Nat, NEW blocks \in Nat, NEW elapsed \in Nat,
         NEW d \in AdjustedDifficulties(current, blocks, elapsed)
  PROVE  /\ d \in Nat
         /\ d = current \/ ValidDifficulty(d)
         /\ Moderate(current, d)
<1> DEFINE expected == (blocks * TargetBlockTime) % WordRange
<1>1. /\ MinDifficulty \in Nat /\ MaxDifficulty \in Nat /\ TargetBlockTime \in Nat
      /\ WordRange \in Nat \ {0} /\ 0 < MinDifficulty
      /\ MinDifficulty <= MaxDifficulty
  BY WorkAssumption
<1>2. CASE elapsed = 0
  <2>1. d = current
    BY <1>2 DEF AdjustedDifficulties
  <2>2. QED
    BY <1>1, <2>1 DEF Moderate, DifficultyFollows, ValidDifficulty
<1>3. CASE elapsed # 0
  <2>1. PICK e \in Scaled(current, expected, elapsed) : d = WithinLimits(e)
    BY <1>3 DEF AdjustedDifficulties
  <2>2. expected \in Nat
    <3>1. blocks * TargetBlockTime \in Nat
      BY <1>1, Z3
    <3>2. QED
      BY <1>1, <3>1, Quotient
  <2> HIDE DEF expected
  <2>3. e \in Nat /\ current \div 4 <= e /\ e <= 4 * current
    BY <1>3, <2>2, ScaledBounds
  <2>4. d \in MinDifficulty..MaxDifficulty
    BY <1>1, <2>1, <2>3 DEF WithinLimits
  <2>5. current \in MinDifficulty..MaxDifficulty =>
          d \in current \div 4 .. 4 * current
    BY <1>1, <2>1, <2>3 DEF WithinLimits
  <2>6. QED
    BY <1>1, <2>4, <2>5 DEF Moderate, DifficultyFollows, ValidDifficulty
<1>4. QED
  BY <1>2, <1>3

\* A chain with its new block, adjusted or not.
LEMMA RetargetedState ==
  ASSUME NEW s \in ChainState, NEW now \in Nat, NEW after \in Retargeted(s, now)
  PROVE  /\ after \in ChainState
         /\ after.current_height = s.current_height
         /\ after.total_work = s.total_work
         /\ IF s.blocks_in_period < AdjustmentInterval THEN after = s
            ELSE /\ after.blocks_in_period = 0
                 /\ Moderate(s.current_difficulty, after.current_difficulty)
                 /\ \/ after.current_difficulty = s.current_difficulty
                    \/ ValidDifficulty(after.current_difficulty)
<1> DEFINE elapsed == ((now - s.period_start_time) * 1000) % WordRange
<1>1. CASE s.blocks_in_period < AdjustmentInterval
  BY <1>1 DEF Retargeted
<1>2. CASE ~(s.blocks_in_period < AdjustmentInterval)
  <2>1. /\ s.current_height \in Nat /\ s.current_difficulty \in Nat
        /\ s.total_work \in Nat /\ s.blocks_in_period \in Nat
        /\ s.period_start_time \in Nat
    BY DEF ChainState
  <2>2. elapsed \in Nat
    BY <2>1, WorkAssumption
  <2>3. PICK d \in AdjustedDifficulties(s.current_difficulty, s.blocks_in_period,
                                        elapsed) :
          after = [s EXCEPT !.current_difficulty = d, !.blocks_in_period = 0,
                            !.period_start_time = now]
    BY <1>2 DEF Retargeted
  <2> HIDE DEF elapsed
  <2>4. /\ d \in Nat
        /\ d = s.current_difficulty \/ ValidDifficulty(d)
        /\ Moderate(s.current_difficulty, d)
    BY <2>1, <2>2, <2>3, AdjustedModerately
  <2>5. /\ after \in ChainState
        /\ after.current_height = s.current_height
        /\ after.total_work = s.total_work
        /\ after.blocks_in_period = 0 /\ after.current_difficulty = d
    BY <2>3, <2>4 DEF ChainState
  <2>6. QED
    BY <1>2, <2>4, <2>5
<1>3. QED
  BY <1>1, <1>2

LEMMA WithBlockTyped ==
  ASSUME NEW s \in ChainState, NEW hash \in Hash
  PROVE  /\ WithBlock(s, hash) \in ChainState
         /\ WithBlock(s, hash).current_height = s.current_height + 1
         /\ WithBlock(s, hash).current_difficulty = s.current_difficulty
         /\ WithBlock(s, hash).blocks_in_period = s.blocks_in_period + 1
         /\ WithBlock(s, hash).total_work = s.total_work + Achieved(hash)
<1>1. Achieved(hash) \in Nat
  BY AchievedIsNat
<1> DEFINE higher == [s EXCEPT !.current_height = @ + 1]
           longer == [higher EXCEPT !.blocks_in_period = @ + 1]
<1>2. /\ higher \in ChainState
      /\ higher.current_height = s.current_height + 1
      /\ higher.current_difficulty = s.current_difficulty
      /\ higher.blocks_in_period = s.blocks_in_period
      /\ higher.total_work = s.total_work
  BY DEF ChainState
<1> HIDE DEF higher
<1>3. /\ longer \in ChainState
      /\ longer.current_height = s.current_height + 1
      /\ longer.current_difficulty = s.current_difficulty
      /\ longer.blocks_in_period = s.blocks_in_period + 1
      /\ longer.total_work = s.total_work
  BY <1>2 DEF ChainState
<1>4. WithBlock(s, hash) = [longer EXCEPT !.total_work = @ + Achieved(hash)]
  BY DEF WithBlock, higher
<1> HIDE DEF longer
<1>5. QED
  BY <1>1, <1>3, <1>4 DEF ChainState

-----------------------------------------------------------------------------
(* Types.                                                                  *)

EngineTypes ==
  /\ chain_states \in [Chains -> ChainState \cup {None}]
  /\ miners \subseteq Chains
  /\ block_history \in Seq(BlockRecord)

MinerTypes ==
  /\ current_work \in OfChains(Package) \cup {None}
  /\ stats \in [valid_proofs : Nat, total_hashes : Nat]
  /\ proof_times \in Nat /\ total_hashes \in Nat

CallerTypes ==
  /\ package \in [Tasks -> OfChains(Package) \cup {None}]
  /\ proof \in [Tasks -> OfChains(Proof) \cup {None}]

DataTypes == EngineTypes /\ MinerTypes /\ CallerTypes

ArgTypes == DOMAIN arg = Tasks /\ \A t \in Tasks : arg[t] \in ArgOf(pc[t])

LEMMA TypeOKIs == TypeOK <=> DataTypes /\ EngineLocks /\ ArgTypes
BY DEF TypeOK, DataTypes, EngineTypes, MinerTypes, CallerTypes, EngineLocks, ArgTypes

\* What a task that mines keeps, and what each point keeps.
MiningAt(point) ==
  {m \in Mining : /\ m.work \in OfChains(Package)
                  /\ point \in {"mine_found", "mine_times"} => m.hash \in Hash}

LEMMA MiningAtIs ==
  ASSUME NEW point, NEW m
  PROVE  m \in MiningAt(point) <=>
           /\ m \in Mining /\ m.work \in OfChains(Package)
           /\ point \in {"mine_found", "mine_times"} => m.hash \in Hash
BY Zenon DEF MiningAt

LEMMA ArgTable ==
  /\ \A point \in {"init_states", "init_miners"} : ArgOf(point) = [chain : Chains]
  /\ ArgOf("work_states") = [chain : Chains, block : Nat]
  /\ ArgOf("work_copied") =
       [chain : Chains, block : Nat, height : Nat, difficulty : Nat]
  /\ \A point \in {"submit_states", "submit_history"} :
       ArgOf(point) = OfChains(Proof)
  /\ ArgOf("set_work") = OfChains(Package)
  /\ \A point \in MiningPoints : ArgOf(point) = MiningAt(point)
  /\ \A point \in {"idle", "report_states", "report_history", "report_stats",
                   "take_work", "reset_stats", "reset_counter"} :
       ArgOf(point) = {None}
BY DEF ArgOf, MiningPoints, MiningAt

\* One task moves at a time.
LEMMA OthersStay ==
  ASSUME ArgTypes, pc \in [Tasks -> Points], NEW t \in Tasks,
         Begin(t) \/ Continue(t) \/ MinerBegin(t) \/ MinerContinue(t)
  PROVE  /\ DOMAIN arg' = Tasks
         /\ \A u \in Tasks \ {t} : pc'[u] = pc[u] /\ arg'[u] = arg[u]
<1> USE DEF ArgTypes
<1>1. CASE Begin(t)
  BY <1>1 DEF Begin, InitializeChain, CreateWorkPackage, SubmitBlock, Report,
     Call, Enter
<1>2. CASE Continue(t)
  BY <1>2 DEF Continue, InitializeKnown, InitializeState, InitializeMiner,
     WorkUnknown, WorkCopy, WorkPackage, SubmitRefused, SubmitAccepted,
     SubmitRecord, ReportBoth, Reported, Await, Drop, Keep, Return
<1>3. CASE MinerBegin(t)
  BY <1>3 DEF MinerBegin, SetWork, GetCurrentWork, MineWork, ResetStats,
     Call, Enter, Keep, Move
<1>4. CASE MinerContinue(t)
  BY <1>4 DEF MinerContinue, SetWorkStore, GetCurrentWorkCopy, TryNonce,
     MineFound, MineProof, MineCheck, MineAsk, MineUpdate, ResetClear,
     ResetCounter, Await, Drop, Keep, Move, Return
<1>5. QED
  BY <1>1, <1>2, <1>3, <1>4

\* Returning leaves no argument.
LEMMA ReturnTyped ==
  ASSUME ArgTypes, pc \in [Tasks -> Points], NEW t \in Tasks, Return(t)
  PROVE  pc'[t] = "idle" /\ arg'[t] \in ArgOf(pc'[t])
BY ArgTable DEF Return, ArgTypes

\* A step of the engine's callers.
LEMMA BeginTypes ==
  ASSUME DataTypes, ArgTypes, pc \in [Tasks -> Points], NEW t \in Tasks, Begin(t)
  PROVE  DataTypes' /\ arg'[t] \in ArgOf(pc'[t])
<1> USE DEF ArgTypes
<1>a. ASSUME UNCHANGED <<engineVars, minerVars, callerVars>> PROVE DataTypes'
  BY <1>a DEF engineVars, minerVars, callerVars, DataTypes, EngineTypes,
     MinerTypes, CallerTypes
<1>1. CASE InitializeChain(t)
  <2>1. PICK c \in Chains :
          Call(t, "init", [chain |-> c], "init_states", "states", "write")
    BY <1>1 DEF InitializeChain
  <2>2. pc'[t] = "init_states" /\ arg'[t] = [chain |-> c]
    BY <2>1 DEF Call, Enter
  <2>3. QED
    BY <1>1, <1>a, <2>2, ArgTable DEF InitializeChain
<1>2. CASE CreateWorkPackage(t)
  <2>1. PICK c \in WorkChains, b \in BlockHashes :
          Call(t, "work", [chain |-> c, block |-> b], "work_states", "states", "read")
    BY <1>2 DEF CreateWorkPackage
  <2>2. pc'[t] = "work_states" /\ arg'[t] = [chain |-> c, block |-> b]
    BY <2>1 DEF Call, Enter
  <2>3. c \in Chains /\ b \in Nat
    BY ConsensusAssumption
  <2>4. QED
    BY <1>2, <1>a, <2>2, <2>3, ArgTable DEF CreateWorkPackage
<1>3. CASE SubmitBlock(t)
  <2>1. PICK p \in {proof[t]} \cup ForeignProofs :
          /\ p # None
          /\ Call(t, "submit", p, "submit_states", "states", "write")
          /\ proof' = [proof EXCEPT ![t] = IF p = @ THEN None ELSE @]
    BY <1>3 DEF SubmitBlock
  <2>2. p \in OfChains(Proof)
    BY <2>1, ConsensusAssumption DEF DataTypes, CallerTypes, OfChains
  <2>3. pc'[t] = "submit_states" /\ arg'[t] = p
    BY <2>1 DEF Call, Enter
  <2>4. arg'[t] \in ArgOf(pc'[t])
    BY <2>2, <2>3, ArgTable
  <2>5. proof' \in [Tasks -> OfChains(Proof) \cup {None}]
    BY <2>1 DEF DataTypes, CallerTypes
  <2>6. UNCHANGED <<engineVars, minerVars, package>>
    BY <1>3 DEF SubmitBlock
  <2>7. QED
    BY <2>4, <2>5, <2>6 DEF engineVars, minerVars, DataTypes, EngineTypes,
       MinerTypes, CallerTypes
<1>4. CASE Report(t)
  <2>1. /\ pc'[t] \in {"report_states", "report_stats"} /\ arg'[t] = None
        /\ UNCHANGED <<engineVars, minerVars, callerVars>>
    BY <1>4 DEF Report, Call, Enter
  <2>2. QED
    BY <1>a, <2>1, ArgTable
<1>5. QED
  BY <1>1, <1>2, <1>3, <1>4 DEF Begin

\* A block is only recorded on a chain there is, and a chain stays.
BlocksHaveChains ==
  \A t \in Tasks : pc[t] = "submit_history" => chain_states[arg[t].chain] # None

\* A segment that leaves the chains, the miner and the callers' hands alone
\* and returns.
LEMMA OnlyReturns ==
  ASSUME DataTypes, ArgTypes, pc \in [Tasks -> Points], NEW t \in Tasks, Return(t),
         UNCHANGED <<engineVars, minerVars, callerVars>>
  PROVE  DataTypes' /\ arg'[t] \in ArgOf(pc'[t])
BY ReturnTyped DEF engineVars, minerVars, callerVars, DataTypes, EngineTypes,
   MinerTypes, CallerTypes

\* What becomes of a chain whose next block is accepted.
LEMMA AcceptedState ==
  ASSUME EngineTypes, ArgTypes, NEW t \in Tasks, SubmitAccepted(t)
  PROVE  /\ arg[t] \in OfChains(Proof)
         /\ arg[t].chain \in Chains /\ arg[t].hash \in Hash
         /\ chain_states[arg[t].chain] \in ChainState
         /\ \E now \in Nat, after \in ChainState :
              /\ after \in Retargeted(WithBlock(chain_states[arg[t].chain], arg[t].hash), now)
              /\ chain_states' = [chain_states EXCEPT ![arg[t].chain] = after]
<1> DEFINE c == arg[t].chain
<1>1. arg[t] \in OfChains(Proof)
  BY ArgTable DEF SubmitAccepted, Reached, ArgTypes
<1>2. c \in Chains /\ arg[t].hash \in Hash
  BY <1>1 DEF OfChains, Proof
<1>3. chain_states[c] \in ChainState
  BY <1>2 DEF SubmitAccepted, Acceptable, EngineTypes
<1>4. PICK now \in Clock : \E s \in Retargeted(WithBlock(chain_states[c], arg[t].hash), now) :
        chain_states' = [chain_states EXCEPT ![c] = s]
  BY DEF SubmitAccepted
<1>5. PICK s \in Retargeted(WithBlock(chain_states[c], arg[t].hash), now) :
        chain_states' = [chain_states EXCEPT ![c] = s]
  BY <1>4
<1>6. now \in Nat /\ WithBlock(chain_states[c], arg[t].hash) \in ChainState
  BY <1>2, <1>3, WithBlockTyped, ConsensusAssumption
<1>7. s \in ChainState
  BY <1>5, <1>6, RetargetedState
<1>8. QED
  BY <1>1, <1>2, <1>3, <1>5, <1>6, <1>7

\* The later segments of the engine.
LEMMA ContinueTypes ==
  ASSUME DataTypes, ArgTypes, pc \in [Tasks -> Points], NEW t \in Tasks, Continue(t),
         BlocksHaveChains
  PROVE  DataTypes' /\ arg'[t] \in ArgOf(pc'[t])
<1> USE DEF ArgTypes
<1>a. ASSUME UNCHANGED <<minerVars, callerVars>>, EngineTypes' PROVE DataTypes'
  BY <1>a DEF minerVars, callerVars, DataTypes, MinerTypes, CallerTypes
<1>b. EngineTypes
  BY DEF DataTypes
<1>1. CASE \/ InitializeKnown(t) \/ WorkUnknown(t) \/ SubmitRefused(t) \/ Reported(t)
  BY <1>1, OnlyReturns DEF InitializeKnown, WorkUnknown, SubmitRefused, Reported
<1>2. CASE InitializeState(t)
  <2>1. pc[t] = "init_states" /\ pc'[t] = "init_miners" /\ arg' = arg
    BY <1>2 DEF InitializeState, Reached, Await
  <2>2. arg[t] \in [chain : Chains]
    BY <2>1, ArgTable
  <2>3. PICK now \in Clock :
          chain_states' = [chain_states EXCEPT ![arg[t].chain] = NewChain(now)]
    BY <1>2 DEF InitializeState
  <2>4. NewChain(now) \in ChainState
    BY ConsensusAssumption DEF NewChain, ChainState
  <2>5. EngineTypes'
    BY <1>2, <1>b, <2>3, <2>4 DEF InitializeState, EngineTypes
  <2>6. DataTypes'
    BY <1>2, <1>a, <2>5 DEF InitializeState
  <2>7. QED
    BY <2>1, <2>2, <2>6, ArgTable
<1>3. CASE InitializeMiner(t)
  <2>1. pc[t] = "init_miners" /\ Return(t)
    BY <1>3 DEF InitializeMiner, Reached
  <2>2. arg[t] \in [chain : Chains]
    BY <2>1, ArgTable
  <2>3. EngineTypes'
    BY <1>3, <1>b, <2>2 DEF InitializeMiner, EngineTypes
  <2>4. DataTypes'
    BY <1>3, <1>a, <2>3 DEF InitializeMiner
  <2>5. QED
    BY <2>1, <2>4, ReturnTyped
<1>4. CASE WorkCopy(t)
  <2>1. pc[t] = "work_states" /\ pc'[t] = "work_copied"
    BY <1>4 DEF WorkCopy, Reached, Drop
  <2>2. arg[t] \in [chain : Chains, block : Nat]
    BY <2>1, ArgTable
  <2>3. chain_states[arg[t].chain] \in ChainState
    BY <1>4, <1>b, <2>2 DEF WorkCopy, EngineTypes
  <2>4. arg'[t] = [chain |-> arg[t].chain, block |-> arg[t].block,
                   height |-> chain_states[arg[t].chain].current_height + 1,
                   difficulty |-> chain_states[arg[t].chain].current_difficulty]
    BY <1>4 DEF WorkCopy, Keep
  <2>5. arg'[t] \in [chain : Chains, block : Nat, height : Nat, difficulty : Nat]
    BY <2>2, <2>3, <2>4 DEF ChainState
  <2>6. DataTypes'
    BY <1>4 DEF WorkCopy, engineVars, minerVars, callerVars, DataTypes,
       EngineTypes, MinerTypes, CallerTypes
  <2>7. QED
    BY <2>1, <2>5, <2>6, ArgTable
<1>5. CASE WorkPackage(t)
  <2>1. pc[t] = "work_copied" /\ Return(t)
    BY <1>5 DEF WorkPackage
  <2>2. arg[t] \in [chain : Chains, block : Nat, height : Nat, difficulty : Nat]
    BY <2>1, ArgTable
  <2>3. PICK now \in Clock : package' = [package EXCEPT ![t] = PackageAt(arg[t], now)]
    BY <1>5 DEF WorkPackage
  <2>4. PackageAt(arg[t], now) \in OfChains(Package)
    <3>1. now \in Nat
      BY ConsensusAssumption
    <3>2. PackageAt(arg[t], now) \in Package
      <4>1. /\ arg[t].chain \in Nat /\ arg[t].block \in Nat /\ arg[t].height \in Nat
            /\ arg[t].difficulty \in Nat
        <5>1. Chains \subseteq Nat
          BY ConsensusAssumption
        <5>2. QED
          BY <2>2, <5>1
      <4>2. QED
        BY <3>1, <4>1 DEF PackageAt, Package
    <3>3. PackageAt(arg[t], now).chain \in Chains
      BY <2>2 DEF PackageAt
    <3>4. QED
      BY <3>2, <3>3 DEF OfChains
  <2>5. CallerTypes'
    BY <1>5, <2>3, <2>4 DEF WorkPackage, DataTypes, CallerTypes
  <2>6. DataTypes'
    BY <1>5, <2>5 DEF WorkPackage, engineVars, minerVars, DataTypes,
       EngineTypes, MinerTypes
  <2>7. QED
    BY <2>1, <2>6, ReturnTyped
<1>6. CASE SubmitAccepted(t)
  <2>1. pc[t] = "submit_states" /\ pc'[t] = "submit_history" /\ arg' = arg
    BY <1>6 DEF SubmitAccepted, Reached, Await
  <2>2. /\ arg[t] \in OfChains(Proof)
        /\ \E after \in ChainState :
             chain_states' = [chain_states EXCEPT ![arg[t].chain] = after]
    BY <1>6, <1>b, AcceptedState
  <2>3. EngineTypes'
    BY <1>6, <1>b, <2>2 DEF SubmitAccepted, EngineTypes
  <2>4. DataTypes'
    BY <1>6, <1>a, <2>3 DEF SubmitAccepted
  <2>5. QED
    BY <2>1, <2>2, <2>4, ArgTable
<1>7. CASE SubmitRecord(t)
  <2>1. pc[t] = "submit_history" /\ Return(t)
    BY <1>7 DEF SubmitRecord, Reached
  <2>2. arg[t] \in OfChains(Proof)
    BY <2>1, ArgTable
  <2>3. arg[t].chain \in Chains /\ arg[t].hash \in Hash /\ arg[t].height \in Nat
    BY <2>2 DEF OfChains, Proof
  <2>4. chain_states[arg[t].chain] \in ChainState
    BY <1>b, <2>1, <2>3 DEF BlocksHaveChains, EngineTypes
  <2>5. [chain |-> arg[t].chain, height |-> arg[t].height, hash |-> arg[t].hash,
         difficulty |-> chain_states[arg[t].chain].current_difficulty] \in BlockRecord
    BY <2>3, <2>4 DEF BlockRecord, ChainState
  <2>6. EngineTypes'
    BY <1>7, <1>b, <2>5 DEF SubmitRecord, EngineTypes
  <2>7. DataTypes'
    BY <1>7, <1>a, <2>6 DEF SubmitRecord
  <2>8. QED
    BY <2>1, <2>7, ReturnTyped
<1>8. CASE ReportBoth(t)
  <2>1. pc[t] = "report_states" /\ pc'[t] = "report_history" /\ arg' = arg
    BY <1>8 DEF ReportBoth, Reached, Await
  <2>2. DataTypes'
    BY <1>8 DEF ReportBoth, engineVars, minerVars, callerVars, DataTypes,
       EngineTypes, MinerTypes, CallerTypes
  <2>3. QED
    BY <2>1, <2>2, ArgTable
<1>9. QED
  BY <1>1, <1>2, <1>3, <1>4, <1>5, <1>6, <1>7, <1>8 DEF Continue

\* What the miner's callers ask of it.
LEMMA MinerBeginTypes ==
  ASSUME MinerTypes, CallerTypes, ArgTypes, pc \in [Tasks -> Points],
         NEW t \in Tasks, MinerBegin(t)
  PROVE  MinerTypes' /\ CallerTypes' /\ arg'[t] \in ArgOf(pc'[t])
<1> USE DEF ArgTypes
<1>1. MinerTypes' /\ CallerTypes'
  BY DEF MinerBegin, SetWork, GetCurrentWork, MineWork, ResetStats, minerVars,
     callerVars, MinerTypes, CallerTypes
<1>2. package[t] # None => package[t] \in OfChains(Package)
  BY DEF CallerTypes
<1>3. CASE SetWork(t)
  <2>1. pc'[t] = "set_work" /\ arg'[t] = package[t] /\ package[t] # None
    BY <1>3 DEF SetWork, Call, Enter
  <2>2. QED
    BY <1>1, <1>2, <2>1, ArgTable
<1>4. CASE GetCurrentWork(t) \/ ResetStats(t)
  <2>1. pc'[t] \in {"take_work", "reset_stats"} /\ arg'[t] = None
    BY <1>4 DEF GetCurrentWork, ResetStats, Call, Enter
  <2>2. QED
    BY <1>1, <2>1, ArgTable
<1>5. CASE MineWork(t)
  <2>1. /\ pc'[t] = "mine_hash"
        /\ arg'[t] = [work |-> package[t], since |-> 0, stale |-> 0, hash |-> None]
        /\ package[t] # None
    BY <1>5 DEF MineWork, Keep, Move
  <2>2. arg'[t] \in Mining /\ arg'[t].work \in OfChains(Package)
    BY <1>2, <2>1 DEF Mining, OfChains
  <2>3. QED
    <3>1. arg'[t] \in MiningAt("mine_hash")
      BY <2>2, MiningAtIs
    <3>2. QED
      BY <1>1, <2>1, <3>1, ArgTable DEF MiningPoints
<1>6. QED
  BY <1>3, <1>4, <1>5 DEF MinerBegin

\* What a mining task keeps.
LEMMA MiningArg ==
  ASSUME ArgTypes, NEW t \in Tasks, pc[t] \in MiningPoints
  PROVE  /\ arg[t] \in Mining /\ arg[t].work \in OfChains(Package)
         /\ pc[t] \in {"mine_found", "mine_times"} => arg[t].hash \in Hash
<1>1. arg[t] \in ArgOf(pc[t])
  BY DEF ArgTypes
<1>2. arg[t] \in MiningAt(pc[t])
  BY <1>1, ArgTable
<1>3. QED
  BY <1>2, MiningAtIs, Zenon

\* One turn of the loop, in the three ways it may go.
LEMMA TryNonceSteps ==
  ASSUME ArgTypes, pc \in [Tasks -> Points], NEW t \in Tasks, TryNonce(t)
  PROVE  /\ arg[t] \in Mining /\ arg[t].work \in OfChains(Package)
         /\ arg'[t] \in Mining /\ arg'[t].work = arg[t].work
         /\ arg'[t].stale = IF StillCurrent(arg[t].work) THEN 0 ELSE arg[t].stale + 1
         /\ \/ /\ pc'[t] = "mine_found" /\ arg'[t].hash \in Hashes
               /\ Meets(arg'[t].hash, arg[t].work.difficulty)
            \/ /\ pc'[t] = "mine_hash" /\ arg'[t].since = arg[t].since + 1
               /\ arg'[t].since < CheckInterval
            \/ /\ pc'[t] = "mine_check" /\ arg'[t].since = 0
<1> DEFINE next == arg[t].since + 1
           old == IF StillCurrent(arg[t].work) THEN 0 ELSE arg[t].stale + 1
           m == arg[t]
           after == arg'[t]
<1>1. PICK hash \in Hashes :
        \/ /\ Meets(hash, arg[t].work.difficulty)
           /\ Keep(t, [arg[t] EXCEPT !.since = next, !.stale = old, !.hash = hash])
           /\ Await(t, "mine_found", "stats", "write")
        \/ /\ next < CheckInterval
           /\ Keep(t, [arg[t] EXCEPT !.since = next, !.stale = old])
           /\ UNCHANGED <<pc, locks>>
        \/ /\ next >= CheckInterval
           /\ Keep(t, [arg[t] EXCEPT !.since = 0, !.stale = old])
           /\ Await(t, "mine_check", "work", "read")
  BY DEF TryNonce
<1>2. pc[t] = "mine_hash"
  BY DEF TryNonce
<1>3. m \in Mining /\ m.work \in OfChains(Package)
  BY <1>2, MiningArg DEF MiningPoints
<1>4. next \in Nat /\ old \in Nat /\ hash \in Hash /\ 0 \in Nat
  BY <1>3, MinerAssumption DEF Mining
<1> HIDE DEF next, old
<1>5. \/ /\ pc'[t] = "mine_found"
         /\ after = [m EXCEPT !.since = next, !.stale = old, !.hash = hash]
         /\ Meets(hash, m.work.difficulty)
      \/ /\ pc'[t] = "mine_hash" /\ next < CheckInterval
         /\ after = [m EXCEPT !.since = next, !.stale = old]
      \/ /\ pc'[t] = "mine_check" /\ next >= CheckInterval
         /\ after = [m EXCEPT !.since = 0, !.stale = old]
  BY <1>1, <1>2 DEF ArgTypes, Keep, Await
<1>6. /\ next = m.since + 1
      /\ old = IF StillCurrent(m.work) THEN 0 ELSE m.stale + 1
  BY DEF next, old
<1> DEFINE current == StillCurrent(m.work)
<1> HIDE DEF m, after, current
<1>7. /\ after \in Mining /\ after.work = m.work /\ after.stale = old
      /\ pc'[t] = "mine_found" => after.hash = hash
      /\ pc'[t] = "mine_hash" => after.since = next
      /\ pc'[t] = "mine_check" => after.since = 0
  <2>1. CASE /\ pc'[t] = "mine_found"
             /\ after = [m EXCEPT !.since = next, !.stale = old, !.hash = hash]
    BY <1>3, <1>4, <2>1 DEF Mining
  <2>2. CASE /\ pc'[t] = "mine_hash"
             /\ after = [m EXCEPT !.since = next, !.stale = old]
    BY <1>3, <1>4, <2>2 DEF Mining
  <2>3. CASE /\ pc'[t] = "mine_check"
             /\ after = [m EXCEPT !.since = 0, !.stale = old]
    BY <1>3, <1>4, <2>3 DEF Mining
  <2>4. QED
    BY <1>5, <2>1, <2>2, <2>3
<1>8. QED
  BY <1>3, <1>5, <1>6, <1>7 DEF m, after

\* The later segments of the miner.
LEMMA MinerContinueTypes ==
  ASSUME MinerTypes, CallerTypes, ArgTypes, pc \in [Tasks -> Points],
         NEW t \in Tasks, MinerContinue(t)
  PROVE  MinerTypes' /\ CallerTypes' /\ arg'[t] \in ArgOf(pc'[t])
<1>1. CASE SetWorkStore(t) \/ GetCurrentWorkCopy(t)
  <2>1. Return(t)
    BY <1>1 DEF SetWorkStore, GetCurrentWorkCopy
  <2>2. SetWorkStore(t) => arg[t] \in OfChains(Package)
    BY ArgTable DEF SetWorkStore, Reached, ArgTypes
  <2>3. MinerTypes' /\ CallerTypes'
    BY <1>1, <2>2 DEF SetWorkStore, GetCurrentWorkCopy, callerVars, minerVars,
       MinerTypes, CallerTypes
  <2>4. QED
    BY <2>1, <2>3, ReturnTyped
<1>2. CASE TryNonce(t)
  <2>1. pc[t] = "mine_hash" /\ total_hashes' = total_hashes + 1
        /\ UNCHANGED <<current_work, stats, proof_times, callerVars>>
    BY <1>2 DEF TryNonce
  <2>2. MinerTypes' /\ CallerTypes'
    BY <2>1 DEF callerVars, MinerTypes, CallerTypes
  <2>3. /\ arg'[t] \in Mining /\ arg'[t].work \in OfChains(Package)
        /\ pc'[t] \in {"mine_found", "mine_hash", "mine_check"}
        /\ pc'[t] = "mine_found" => arg'[t].hash \in Hashes
    BY <1>2, TryNonceSteps
  <2>4. arg'[t] \in MiningAt(pc'[t]) /\ pc'[t] \in MiningPoints
    BY <2>3, MiningAtIs, MinerAssumption DEF MiningPoints
  <2>5. QED
    BY <2>2, <2>4, ArgTable
<1>3. CASE MineFound(t)
  <2>1. pc[t] = "mine_found" /\ pc'[t] = "mine_times" /\ arg' = arg
    BY <1>3 DEF MineFound, Reached, Await
  <2>2. MinerTypes' /\ CallerTypes'
    BY <1>3 DEF MineFound, callerVars, MinerTypes, CallerTypes
  <2>3. arg'[t] \in MiningAt(pc'[t])
    BY <2>1, MiningArg, MiningAtIs DEF MiningPoints
  <2>4. QED
    BY <2>1, <2>2, <2>3, ArgTable DEF MiningPoints
<1>4. CASE MineProof(t)
  <2>1. pc[t] = "mine_times" /\ Return(t)
    BY <1>4 DEF MineProof, Reached
  <2>2. arg[t].work \in OfChains(Package) /\ arg[t].hash \in Hash
    BY <2>1, MiningArg DEF MiningPoints
  <2> DEFINE p == [chain |-> arg[t].work.chain, height |-> arg[t].work.height,
                   hash |-> arg[t].hash, difficulty |-> arg[t].work.difficulty]
  <2>3. p \in OfChains(Proof)
    BY <2>2 DEF OfChains, Package, Proof
  <2>4. proof' = [proof EXCEPT ![t] = p] /\ package' = package
    BY <1>4 DEF MineProof
  <2>5. CallerTypes'
    BY <2>3, <2>4 DEF CallerTypes
  <2>6. MinerTypes'
    BY <1>4, MinerAssumption DEF MineProof, MinerTypes
  <2>7. QED
    BY <2>1, <2>5, <2>6, ReturnTyped
<1>5. CASE MineCheck(t)
  <2>1. pc[t] = "mine_check" /\ UNCHANGED <<minerVars, callerVars>>
    BY <1>5 DEF MineCheck, Reached
  <2>2. MinerTypes' /\ CallerTypes'
    BY <2>1 DEF minerVars, callerVars, MinerTypes, CallerTypes
  <2>3. CASE Return(t)
    BY <2>2, <2>3, ReturnTyped
  <2>4. CASE Drop(t, "work", "mine_checked") /\ Keep(t, [arg[t] EXCEPT !.stale = 0])
    <3>1. arg[t] \in Mining /\ arg[t].work \in OfChains(Package)
      BY <2>1, MiningArg DEF MiningPoints
    <3>2. pc'[t] = "mine_checked" /\ arg'[t] = [arg[t] EXCEPT !.stale = 0]
      BY <2>4 DEF ArgTypes, Drop, Keep
    <3>3. arg'[t] \in Mining /\ arg'[t].work = arg[t].work
      BY <3>1, <3>2 DEF Mining
    <3>4. arg'[t] \in MiningAt("mine_checked")
      BY <3>1, <3>3, MiningAtIs
    <3>5. QED
      BY <2>2, <3>2, <3>4, ArgTable DEF MiningPoints
  <2>5. QED
    BY <1>5, <2>3, <2>4 DEF MineCheck
<1>6. CASE MineAsk(t) \/ MineUpdate(t)
  <2>1. /\ pc[t] \in {"mine_checked", "mine_stats"}
        /\ pc'[t] \in {"mine_stats", "mine_hash"} /\ arg' = arg
    BY <1>6 DEF MineAsk, MineUpdate, Reached, Await, Drop
  <2>2. MinerTypes' /\ CallerTypes'
    BY <1>6 DEF MineAsk, MineUpdate, minerVars, callerVars, MinerTypes, CallerTypes
  <2>3. arg'[t] \in MiningAt(pc'[t])
    BY <2>1, MiningArg, MiningAtIs DEF MiningPoints
  <2>4. QED
    BY <2>1, <2>2, <2>3, ArgTable DEF MiningPoints
<1>7. CASE ResetClear(t)
  <2>1. pc[t] = "reset_stats" /\ pc'[t] = "reset_counter" /\ arg' = arg
    BY <1>7 DEF ResetClear, Reached, Move
  <2>2. arg'[t] \in ArgOf(pc'[t])
    BY <2>1, ArgTable DEF ArgTypes
  <2>3. MinerTypes' /\ CallerTypes'
    BY <1>7 DEF ResetClear, NewStats, callerVars, MinerTypes, CallerTypes
  <2>4. QED
    BY <2>2, <2>3
<1>8. CASE ResetCounter(t)
  <2>1. MinerTypes' /\ CallerTypes'
    BY <1>8 DEF ResetCounter, callerVars, MinerTypes, CallerTypes
  <2>2. QED
    BY <1>8, <2>1, ReturnTyped DEF ResetCounter
<1>9. QED
  BY <1>1, <1>2, <1>3, <1>4, <1>5, <1>6, <1>7, <1>8 DEF MinerContinue

-----------------------------------------------------------------------------
(* The engine's state has its type, and it never records a block of a      *)
(* chain that was not initialized.                                         *)

Typed == TypeOK /\ BlocksHaveChains

LEMMA InitTyped == ASSUME Init PROVE Typed
<1>1. EngineLocks
  BY NoCallsKeepLocks, IdleHoldsNothing DEF Init, EngineLocks
<1>2. DataTypes
  BY DEF Init, MinerInit, NewStats, DataTypes, EngineTypes, MinerTypes, CallerTypes
<1>3. ArgTypes /\ BlocksHaveChains
  BY ArgTable DEF Init, NoCalls, ArgTypes, BlocksHaveChains
<1>4. QED
  BY <1>1, <1>2, <1>3, TypeOKIs DEF Typed

\* A chain stays once it is there.
LEMMA ChainsStay ==
  ASSUME Typed, NEW t \in Tasks, Begin(t) \/ Continue(t) \/ MinerStep(t)
  PROVE  \A c \in Chains : chain_states[c] # None => chain_states'[c] # None
<1>1. chain_states \in [Chains -> ChainState \cup {None}] /\ EngineTypes /\ ArgTypes
  BY TypeOKIs DEF Typed, TypeOK, DataTypes
<1>2. CASE InitializeState(t)
  <2>1. PICK now \in Clock :
          chain_states' = [chain_states EXCEPT ![arg[t].chain] = NewChain(now)]
    BY <1>2 DEF InitializeState
  <2>2. chain_states[arg[t].chain] = None
    BY <1>2 DEF InitializeState
  <2>3. QED
    BY <1>1, <2>1, <2>2
<1>3. CASE SubmitAccepted(t)
  BY <1>1, <1>3, AcceptedState, NoneAssumption
<1>4. CASE ~InitializeState(t) /\ ~SubmitAccepted(t)
  <2>1. chain_states' = chain_states
    BY <1>4 DEF Begin, Continue, MinerStep, InitializeChain, CreateWorkPackage,
       SubmitBlock, Report, InitializeKnown, InitializeMiner, WorkUnknown,
       WorkCopy, WorkPackage, SubmitRefused, SubmitRecord, ReportBoth, Reported,
       engineVars
  <2>2. QED
    BY <2>1
<1>5. QED
  BY <1>2, <1>3, <1>4

LEMMA NextTyped == ASSUME Typed, [Next]_vars PROVE Typed'
<1>1. DataTypes /\ EngineLocks /\ ArgTypes /\ BlocksHaveChains
  BY TypeOKIs DEF Typed
<1>2. pc \in [Tasks -> Points]
  BY <1>1 DEF EngineLocks, LockInv
<1>3. CASE UNCHANGED vars
  BY <1>1, <1>3 DEF vars, engineVars, minerVars, callerVars, taskVars, Typed,
     TypeOK, EngineLocks, LockInv, LockDiscipline, BlocksHaveChains
<1>4. ASSUME NEW t \in Tasks, Begin(t) \/ Continue(t) \/ MinerStep(t)
      PROVE  Typed'
  <2>1. Begin(t) \/ Continue(t) \/ MinerBegin(t) \/ MinerContinue(t)
    BY <1>4 DEF MinerStep
  <2>2. EngineLocks'
    BY <1>1, <2>1, BeginKeepsLocks, ContinueKeepsLocks, MinerContinueKeepsLocks
  <2>3. /\ DOMAIN arg' = Tasks
        /\ \A u \in Tasks \ {t} : pc'[u] = pc[u] /\ arg'[u] = arg[u]
    BY <1>1, <1>2, <2>1, OthersStay
  <2>4. DataTypes' /\ arg'[t] \in ArgOf(pc'[t])
    <3>1. CASE Begin(t)
      BY <1>1, <1>2, <3>1, BeginTypes
    <3>2. CASE Continue(t)
      BY <1>1, <1>2, <3>2, ContinueTypes
    <3>3. CASE MinerStep(t)
      <4>1. /\ MinerTypes' /\ CallerTypes' /\ arg'[t] \in ArgOf(pc'[t])
            /\ UNCHANGED engineVars
        BY <1>1, <1>2, <3>3, MinerBeginTypes, MinerContinueTypes
           DEF MinerStep, DataTypes
      <4>2. QED
        BY <1>1, <4>1 DEF engineVars, DataTypes, EngineTypes
    <3>4. QED
      BY <1>4, <3>1, <3>2, <3>3
  <2>5. ArgTypes'
    BY <1>1, <2>3, <2>4 DEF ArgTypes
  <2>6. BlocksHaveChains'
    <3>1. SUFFICES ASSUME NEW u \in Tasks, pc'[u] = "submit_history"
                   PROVE  chain_states'[arg'[u].chain] # None
      BY DEF BlocksHaveChains
    <3>2. CASE u = t
      <4>1. SubmitAccepted(t)
        BY <1>2, <1>4, <3>1, <3>2
           DEF Begin, Continue, MinerStep, MinerBegin, MinerContinue,
           InitializeChain, CreateWorkPackage, SubmitBlock, Report,
           InitializeKnown, InitializeState, InitializeMiner, WorkUnknown,
           WorkCopy, WorkPackage, SubmitRefused, SubmitRecord, ReportBoth,
           Reported, SetWork, GetCurrentWork, MineWork, ResetStats, SetWorkStore,
           GetCurrentWorkCopy, TryNonce, MineFound, MineProof, MineCheck, MineAsk,
           MineUpdate, ResetClear, ResetCounter, Call, Enter, Await, Drop, Move,
           Return
      <4>2. arg' = arg
        BY <4>1 DEF SubmitAccepted
      <4>3. EngineTypes
        BY <1>1 DEF DataTypes
      <4>4. QED
        BY <1>1, <3>2, <4>1, <4>2, <4>3, AcceptedState, NoneAssumption DEF EngineTypes
    <3>3. CASE u # t
      <4>1. pc[u] = "submit_history" /\ arg'[u] = arg[u]
        BY <2>3, <3>1, <3>3
      <4>2. arg[u] \in OfChains(Proof)
        BY <1>1, <4>1, ArgTable DEF ArgTypes
      <4>3. arg[u].chain \in Chains /\ chain_states[arg[u].chain] # None
        BY <1>1, <4>1, <4>2 DEF OfChains, BlocksHaveChains
      <4>4. QED
        BY <1>4, <4>1, <4>3, ChainsStay
    <3>4. QED
      BY <3>2, <3>3
  <2>7. QED
    BY <2>2, <2>4, <2>5, <2>6
       DEF Typed, TypeOK, EngineLocks, DataTypes, ArgTypes, EngineTypes,
       MinerTypes, CallerTypes
<1>5. QED
  BY <1>3, <1>4 DEF Next

\* The engine's state has its type, whatever its callers do and in whichever
\* order they get the locks.
THEOREM ConsensusTypeCorrect == Spec => []TypeOK
<1>1. Typed => TypeOK
  BY DEF Typed
<1>2. QED
  BY <1>1, InitTyped, NextTyped, PTL DEF Spec

-----------------------------------------------------------------------------
(* The miner's statistics.                                                 *)

\* A step of the engine leaves the miner alone,
LEMMA EngineApart ==
  ASSUME pc \in [Tasks -> Points], NEW t \in Tasks, Begin(t) \/ Continue(t)
  PROVE  /\ UNCHANGED minerVars
         /\ pc[t] \notin MinerPoints /\ pc'[t] \notin MinerPoints
<1>1. CASE Begin(t)
  BY <1>1 DEF Begin, InitializeChain, CreateWorkPackage, SubmitBlock, Report,
     Call, Enter, MinerPoints
<1>2. CASE Continue(t)
  BY <1>2 DEF Continue, InitializeKnown, InitializeState, InitializeMiner,
     WorkUnknown, WorkCopy, WorkPackage, SubmitRefused, SubmitAccepted,
     SubmitRecord, ReportBoth, Reported, Reached, Await, Drop, Return, MinerPoints
<1>3. QED
  BY <1>1, <1>2

\* and the other way round.
LEMMA MinerApart ==
  ASSUME pc \in [Tasks -> Points], NEW t \in Tasks, MinerBegin(t) \/ MinerContinue(t)
  PROVE  /\ pc[t] \in MinerPoints \cup {"idle"}
         /\ pc'[t] \in MinerPoints \cup {"idle"}
<1>1. CASE MinerBegin(t)
  BY <1>1 DEF MinerBegin, SetWork, GetCurrentWork, MineWork, ResetStats,
     Call, Enter, Move, MinerPoints
<1>2. CASE MinerContinue(t)
  BY <1>2 DEF MinerContinue, SetWorkStore, GetCurrentWorkCopy, TryNonce,
     MineFound, MineProof, MineCheck, MineAsk, MineUpdate, ResetClear,
     ResetCounter, Reached, Await, Drop, Move, Return, MinerPoints
<1>3. QED
  BY <1>1, <1>2

\* Whoever records a proof or resets the statistics has them to itself.
LEMMA OneAtStats ==
  ASSUME EngineLocks, NEW t \in Tasks, NEW u \in Tasks,
         pc[t] \in {"mine_times", "reset_counter"},
         pc[u] \in {"mine_times", "reset_counter"} \/ Holds(locks["stats"], u)
  PROVE  t = u
<1>1. /\ "stats" \in Locks
      /\ \A p \in {"mine_times", "reset_counter"} :
           "stats" \in HeldAt[p] /\ Wants[p]["stats"] = "write"
  BY DEF Locks, MinerLocks, HeldAt, Wants, Points, MinerPoints, Writes
<1>2. Holds(locks["stats"], t) /\ Holds(locks["stats"], u)
  BY <1>1 DEF EngineLocks, LockInv, LockDiscipline
<1>3. QED
  BY <1>1, <1>2, OneHolder DEF EngineLocks

Recording == \E t \in Tasks : pc[t] = "mine_times"
Resetting == \E t \in Tasks : pc[t] = "reset_counter"

\* The statistics count a proof before its time is kept, and they are cleared
\* before the counter is.
StatsInv ==
  /\ stats.total_hashes <= total_hashes
  /\ Resetting => stats.total_hashes = 0
  /\ \/ stats.valid_proofs <= proof_times
     \/ proof_times = KeptTimes
     \/ Recording /\ stats.valid_proofs <= proof_times + 1

LEMMA MinerKeepsStats ==
  ASSUME Typed, StatsInv, NEW t \in Tasks, MinerBegin(t) \/ MinerContinue(t)
  PROVE  StatsInv'
<1>1. /\ EngineLocks /\ ArgTypes /\ pc \in [Tasks -> Points]
      /\ stats \in [valid_proofs : Nat, total_hashes : Nat]
      /\ proof_times \in Nat /\ total_hashes \in Nat /\ KeptTimes \in Nat
  BY TypeOKIs, MinerAssumption DEF Typed, DataTypes, MinerTypes, EngineLocks, LockInv
<1>2. \A u \in Tasks \ {t} : pc'[u] = pc[u]
  BY <1>1, OthersStay
<1>3. CASE MineFound(t)
  <2>1. /\ Holds(locks["stats"], t) /\ pc'[t] = "mine_times"
        /\ stats'.valid_proofs = stats.valid_proofs + 1
        /\ stats'.total_hashes = total_hashes
        /\ UNCHANGED <<proof_times, total_hashes>>
    BY <1>1, <1>3 DEF MineFound, Reached, Await
  <2>2. ~Recording /\ ~Resetting
    <3>1. \A u \in Tasks : pc[u] \notin {"mine_times", "reset_counter"}
      <4>1. pc[t] = "mine_found"
        BY <1>3 DEF MineFound, Reached
      <4>2. QED
        BY <1>1, <2>1, <4>1, OneAtStats
    <3>2. QED
      BY <3>1 DEF Recording, Resetting
  <2>3. Recording' /\ ~Resetting'
    BY <1>2, <2>1, <2>2 DEF Recording, Resetting
  <2>4. QED
    BY <1>1, <2>1, <2>2, <2>3 DEF StatsInv
<1>4. CASE MineProof(t)
  <2>1. /\ pc[t] = "mine_times" /\ pc'[t] = "idle"
        /\ proof_times' = IF proof_times = KeptTimes THEN KeptTimes ELSE proof_times + 1
        /\ UNCHANGED <<stats, total_hashes>>
    BY <1>1, <1>4 DEF MineProof, Reached, Return
  <2>2. Resetting' => Resetting
    BY <1>2, <2>1 DEF Resetting
  <2>3. QED
    BY <1>1, <2>1, <2>2 DEF StatsInv
<1>5. CASE ResetClear(t)
  <2>1. /\ stats'.valid_proofs = 0 /\ stats'.total_hashes = 0
        /\ UNCHANGED <<proof_times, total_hashes>>
    BY <1>5 DEF ResetClear, NewStats
  <2>2. QED
    BY <1>1, <2>1 DEF StatsInv
<1>6. CASE ResetCounter(t)
  <2>1. /\ pc[t] = "reset_counter" /\ pc'[t] = "idle" /\ total_hashes' = 0
        /\ UNCHANGED <<stats, proof_times>>
    BY <1>1, <1>6 DEF ResetCounter, Return
  <2>2. Resetting /\ (Recording => Recording')
    BY <1>2, <2>1 DEF Recording, Resetting
  <2>3. QED
    BY <1>1, <2>1, <2>2 DEF StatsInv
<1>7. CASE MineUpdate(t)
  <2>1. /\ pc[t] = "mine_stats" /\ Holds(locks["stats"], t) /\ pc'[t] = "mine_hash"
        /\ stats'.valid_proofs = stats.valid_proofs
        /\ stats'.total_hashes = total_hashes
        /\ UNCHANGED <<proof_times, total_hashes>>
    BY <1>1, <1>7 DEF MineUpdate, Reached, Drop
  <2>2. \A u \in Tasks : pc[u] # "reset_counter"
    BY <1>1, <2>1, OneAtStats
  <2>3. ~Resetting' /\ (Recording => Recording')
    BY <1>2, <2>1, <2>2 DEF Recording, Resetting
  <2>4. QED
    BY <1>1, <2>1, <2>3 DEF StatsInv
<1>8. CASE TryNonce(t)
  <2>1. /\ total_hashes' = total_hashes + 1 /\ UNCHANGED <<stats, proof_times>>
        /\ pc[t] = "mine_hash"
    BY <1>8 DEF TryNonce
  <2>2. pc'[t] \in {"mine_found", "mine_hash", "mine_check"}
    BY <1>1, <1>8, TryNonceSteps
  <2>3. (Resetting' => Resetting) /\ (Recording => Recording')
    BY <1>2, <2>1, <2>2 DEF Recording, Resetting
  <2>4. QED
    BY <1>1, <2>1, <2>3 DEF StatsInv
<1>9. CASE \/ MinerBegin(t) \/ SetWorkStore(t) \/ GetCurrentWorkCopy(t)
           \/ MineCheck(t) \/ MineAsk(t)
  <2>1. /\ UNCHANGED <<stats, proof_times, total_hashes>>
        /\ pc[t] \notin {"mine_times", "reset_counter"}
        /\ pc'[t] # "reset_counter"
    BY <1>1, <1>9 DEF MinerBegin, SetWork, GetCurrentWork, MineWork, ResetStats,
       SetWorkStore, GetCurrentWorkCopy, MineCheck, MineAsk, minerVars,
       Call, Enter, Reached, Await, Drop, Move, Return
  <2>2. (Resetting' => Resetting) /\ (Recording => Recording')
    BY <1>2, <2>1 DEF Recording, Resetting
  <2>3. QED
    BY <1>1, <2>1, <2>2 DEF StatsInv
<1>10. QED
  BY <1>3, <1>4, <1>5, <1>6, <1>7, <1>8, <1>9 DEF MinerContinue

LEMMA NextKeepsStats == ASSUME Typed, StatsInv, [Next]_vars PROVE StatsInv'
<1>1. /\ EngineLocks /\ ArgTypes /\ pc \in [Tasks -> Points]
  BY TypeOKIs DEF Typed, EngineLocks, LockInv
<1>2. CASE UNCHANGED vars
  BY <1>2 DEF vars, engineVars, minerVars, callerVars, taskVars, StatsInv,
     Recording, Resetting
<1>3. ASSUME NEW t \in Tasks, Begin(t) \/ Continue(t) PROVE StatsInv'
  <2>1. /\ UNCHANGED minerVars
        /\ pc[t] \notin MinerPoints /\ pc'[t] \notin MinerPoints
    BY <1>1, <1>3, EngineApart
  <2>2. \A u \in Tasks \ {t} : pc'[u] = pc[u]
    BY <1>1, <1>3, OthersStay
  <2>3. (Resetting' <=> Resetting) /\ (Recording' <=> Recording)
    BY <2>1, <2>2 DEF Recording, Resetting, MinerPoints
  <2>4. QED
    BY <2>1, <2>3 DEF minerVars, StatsInv
<1>4. QED
  BY <1>2, <1>3, MinerKeepsStats DEF Next, MinerStep

\* Statistics that can be read count no hash the counter does not, and no
\* proof whose time was not kept, as far as times are.
THEOREM StatsTrailHashesHolds == Spec => []StatsTrailHashes
<1>1. Init => StatsInv
  BY MinerAssumption DEF Init, MinerInit, NewStats, StatsInv
<1>2. Typed /\ StatsInv => StatsTrailHashes
  <2>1. SUFFICES ASSUME Typed, StatsInv, ~WriteHeld(locks["stats"])
                 PROVE  ~Recording
    BY DEF StatsInv, StatsTrailHashes
  <2>2. SUFFICES ASSUME NEW t \in Tasks, pc[t] = "mine_times" PROVE FALSE
    BY DEF Recording
  <2>3. /\ "stats" \in Locks /\ "stats" \in HeldAt["mine_times"]
        /\ Wants["mine_times"]["stats"] = "write"
    BY DEF Locks, MinerLocks, HeldAt, Wants, Points, MinerPoints, Writes
  <2>4. EngineLocks
    BY <2>1, TypeOKIs DEF Typed
  <2>5. HoldsWrite(locks["stats"], t) /\ t \in DOMAIN locks["stats"]
    BY <2>2, <2>3, <2>4 DEF EngineLocks, LockInv, LockDiscipline, HoldsWrite, WellFormed
  <2>6. QED
    BY <2>1, <2>5 DEF WriteHeld
<1>3. QED
  BY <1>1, <1>2, InitTyped, NextTyped, NextKeepsStats, PTL DEF Spec

-----------------------------------------------------------------------------
(* Stale work.                                                             *)

\* A task that goes on mining has looked for other work within its last
\* CheckInterval hashes; one that looks, or has found a proof, may just have
\* made that many on work that was replaced.
MinesOn(point, m) ==
  /\ point \in {"mine_hash", "mine_checked", "mine_stats"} =>
       m.stale <= m.since /\ m.since < CheckInterval
  /\ point = "mine_check" => m.since = 0
  /\ point \in MiningPoints => m.stale <= CheckInterval

StaleInv == \A t \in Tasks : MinesOn(pc[t], arg[t])

\* A task that does not mine has nothing to show.
LEMMA NotMining == \A point, m : point \notin MiningPoints => MinesOn(point, m)
BY DEF MinesOn, MiningPoints

LEMMA MinerKeepsStale ==
  ASSUME ArgTypes, pc \in [Tasks -> Points], StaleInv, NEW t \in Tasks,
         MinerBegin(t) \/ MinerContinue(t)
  PROVE  MinesOn(pc'[t], arg'[t])
<1>1. CheckInterval \in Nat \ {0} /\ DOMAIN arg = Tasks /\ MinesOn(pc[t], arg[t])
  BY MinerAssumption DEF ArgTypes, StaleInv
<1>2. CASE MineWork(t)
  <2>1. /\ pc'[t] = "mine_hash" /\ arg'[t].since = 0 /\ arg'[t].stale = 0
    BY <1>1, <1>2 DEF MineWork, Keep, Move
  <2>2. QED
    BY <1>1, <2>1 DEF MinesOn
<1>3. CASE TryNonce(t)
  <2>1. pc[t] = "mine_hash" /\ pc[t] \in MiningPoints
    BY <1>3 DEF TryNonce, MiningPoints
  <2>2. /\ arg[t] \in Mining /\ arg'[t] \in Mining
        /\ arg'[t].stale = IF StillCurrent(arg[t].work) THEN 0 ELSE arg[t].stale + 1
        /\ \/ pc'[t] = "mine_found"
           \/ /\ pc'[t] = "mine_hash" /\ arg'[t].since = arg[t].since + 1
              /\ arg'[t].since < CheckInterval
           \/ /\ pc'[t] = "mine_check" /\ arg'[t].since = 0
    BY <1>3, TryNonceSteps
  <2>3. /\ arg[t].stale \in Nat /\ arg[t].since \in Nat /\ arg'[t].stale \in Nat
        /\ arg[t].stale <= arg[t].since /\ arg[t].since < CheckInterval
    BY <1>1, <2>1, <2>2 DEF Mining, MinesOn
  <2>4. arg'[t].stale <= arg[t].since + 1 /\ arg'[t].stale <= CheckInterval
    BY <1>1, <2>2, <2>3
  <2>5. QED
    BY <1>1, <2>2, <2>3, <2>4 DEF MinesOn
<1>4. CASE MineFound(t) \/ MineAsk(t) \/ MineUpdate(t)
  <2>1. /\ arg' = arg
        /\ \/ pc[t] = "mine_found" /\ pc'[t] = "mine_times"
           \/ pc[t] = "mine_checked" /\ pc'[t] = "mine_stats"
           \/ pc[t] = "mine_stats" /\ pc'[t] = "mine_hash"
    BY <1>4 DEF MineFound, MineAsk, MineUpdate, Reached, Await, Drop
  <2>2. QED
    BY <1>1, <2>1 DEF MinesOn, MiningPoints
<1>5. CASE MineCheck(t)
  <2>1. pc[t] = "mine_check" /\ pc[t] \in MiningPoints
    BY <1>5 DEF MineCheck, Reached, MiningPoints
  <2>2. CASE Drop(t, "work", "mine_checked") /\ Keep(t, [arg[t] EXCEPT !.stale = 0])
    <3>1. pc'[t] = "mine_checked" /\ arg'[t] = [arg[t] EXCEPT !.stale = 0]
      BY <1>1, <2>2 DEF Drop, Keep
    <3>2. arg[t] \in Mining
      BY <2>1, MiningArg
    <3>3. arg'[t].stale = 0 /\ arg'[t].since = arg[t].since
      BY <3>1, <3>2 DEF Mining
    <3>4. arg[t].since = 0
      BY <1>1, <2>1 DEF MinesOn
    <3>5. QED
      BY <1>1, <3>1, <3>3, <3>4 DEF MinesOn
  <2>3. CASE Return(t)
    BY <2>3, NotMining DEF Return, MiningPoints
  <2>4. QED
    BY <1>5, <2>2, <2>3 DEF MineCheck
<1>6. CASE \/ SetWork(t) \/ GetCurrentWork(t) \/ ResetStats(t)
           \/ SetWorkStore(t) \/ GetCurrentWorkCopy(t) \/ MineProof(t)
           \/ ResetClear(t) \/ ResetCounter(t)
  <2>1. pc'[t] \in {"set_work", "take_work", "reset_stats", "idle", "reset_counter"}
    BY <1>6 DEF SetWork, GetCurrentWork, ResetStats, SetWorkStore,
       GetCurrentWorkCopy, MineProof, ResetClear, ResetCounter, Call, Enter,
       Move, Return
  <2>2. QED
    BY <2>1, NotMining DEF MiningPoints
<1>7. QED
  BY <1>2, <1>3, <1>4, <1>5, <1>6 DEF MinerBegin, MinerContinue

LEMMA NextKeepsStale == ASSUME Typed, StaleInv, [Next]_vars PROVE StaleInv'
<1>1. ArgTypes /\ pc \in [Tasks -> Points]
  BY TypeOKIs DEF Typed, EngineLocks, LockInv
<1>2. CASE UNCHANGED vars
  BY <1>2 DEF vars, taskVars, StaleInv
<1>3. ASSUME NEW t \in Tasks, Begin(t) \/ Continue(t) \/ MinerBegin(t) \/ MinerContinue(t)
      PROVE  StaleInv'
  <2>1. \A u \in Tasks \ {t} : pc'[u] = pc[u] /\ arg'[u] = arg[u]
    BY <1>1, <1>3, OthersStay
  <2>2. MinesOn(pc'[t], arg'[t])
    <3>1. CASE Begin(t) \/ Continue(t)
      BY <1>1, <3>1, EngineApart, NotMining DEF MinerPoints, MiningPoints
    <3>2. CASE MinerBegin(t) \/ MinerContinue(t)
      BY <1>1, <3>2, MinerKeepsStale
    <3>3. QED
      BY <1>3, <3>1, <3>2
  <2>3. QED
    BY <2>1, <2>2 DEF StaleInv
<1>4. QED
  BY <1>2, <1>3 DEF Next, MinerStep

\* Nobody mines on replaced work for more than CheckInterval hashes.
THEOREM StaleHashesBoundedHolds == Spec => []StaleHashesBounded
<1>1. Init => StaleInv
  BY NotMining DEF Init, NoCalls, MiningPoints, StaleInv
<1>2. StaleInv => StaleHashesBounded
  BY DEF StaleInv, MinesOn, StaleHashesBounded
<1>3. QED
  BY <1>1, <1>2, InitTyped, NextTyped, NextKeepsStale, PTL DEF Spec

-----------------------------------------------------------------------------
(* The record of one chain.                                                *)

\* Division with rest is unique, and what it says of the next number.
LEMMA OneQuotient ==
  ASSUME NEW q \in Int, NEW p \in Int, NEW b \in Nat \ {0},
         NEW r \in 0..(b - 1), NEW s \in 0..(b - 1), q * b + r = p * b + s
  PROVE  q = p /\ r = s
<1>1. q * b \in Int /\ p * b \in Int
  BY Z3
<1>2. q < p + 1
  <2>1. (p + 1) * b = p * b + b
    BY Z3
  <2>2. q * b < (p + 1) * b
    BY <1>1, <2>1
  <2>3. QED
    BY <2>2, Cancel
<1>3. p < q + 1
  <2>1. (q + 1) * b = q * b + b
    BY Z3
  <2>2. p * b < (q + 1) * b
    BY <1>1, <2>1
  <2>3. QED
    BY <2>2, Cancel
<1>4. q = p
  BY <1>2, <1>3
<1>5. QED
  BY <1>1, <1>4

LEMMA NextRest ==
  ASSUME NEW h \in Nat, NEW b \in Nat \ {0}
  PROVE  (h + 1) % b = IF (h % b) + 1 < b THEN (h % b) + 1 ELSE 0
<1> DEFINE q == h \div b
           r == h % b
           p == (h + 1) \div b
           s == (h + 1) % b
<1>1. q \in Nat /\ r \in 0..(b - 1) /\ h = q * b + r
  BY Quotient
<1>2. p \in Nat /\ s \in 0..(b - 1) /\ h + 1 = p * b + s
  <2>1. h + 1 \in Nat
    OBVIOUS
  <2>2. QED
    BY <2>1, Quotient
<1> HIDE DEF q, r, p, s
<1>a. q * b \in Int
  BY <1>1, Z3
<1>3. CASE r + 1 < b
  <2>1. r + 1 \in 0..(b - 1) /\ q * b + (r + 1) = p * b + s
    BY <1>1, <1>2, <1>3, <1>a
  <2>2. s = r + 1
    BY <1>1, <1>2, <2>1, OneQuotient
  <2>3. QED
    BY <1>3, <2>2 DEF r, s
<1>4. CASE ~(r + 1 < b)
  <2>1. (q + 1) * b = q * b + b
    BY <1>1, Z3
  <2>2. 0 \in 0..(b - 1) /\ (q + 1) * b + 0 = p * b + s
    BY <1>1, <1>2, <1>4, <1>a, <2>1
  <2>3. s = 0
    BY <1>1, <1>2, <2>2, OneQuotient
  <2>4. QED
    BY <1>4, <2>3 DEF r, s
<1>5. QED
  BY <1>3, <1>4

\* The blocks of a chain have the heights up to this one, each once.
Numbered(records, c, height) ==
  /\ \A i \in BlocksOf(records, c) : records[i].height \in 1..height
  /\ \A i, j \in BlocksOf(records, c) : records[i].height = records[j].height => i = j
  /\ \A h \in 1..height : \E i \in BlocksOf(records, c) : records[i].height = h

\* So the difficulty after a height is that of one block.
LEMMA DifficultyOfBlock ==
  ASSUME NEW records, NEW c, NEW height \in Nat, Numbered(records, c, height),
         NEW i \in BlocksOf(records, c)
  PROVE  DifficultyAfter(records, c, records[i].height) = records[i].difficulty
<1> DEFINE h == records[i].height
           there(j) == j \in BlocksOf(records, c) /\ records[j].height = h
<1>1. h \in 1..height
  BY DEF Numbered
<1>2. there(CHOOSE j : there(j))
  <2>1. there(i)
    OBVIOUS
  <2> HIDE DEF there
  <2>2. QED
    BY <2>1, Zenon
<1>3. (CHOOSE j : there(j)) = i
  BY <1>2 DEF Numbered
<1>4. (CHOOSE j \in BlocksOf(records, c) : records[j].height = h) = i
  BY <1>3, Zenon
<1>5. h # 0
  BY <1>1
<1> HIDE DEF h
<1>6. QED
  BY <1>4, <1>5 DEF DifficultyAfter, h

\* A chain in this state and its record agree.
Whole(records, c, s) ==
  /\ IsRecordOf(records, c, s)
  /\ Numbered(records, c, s.current_height)
  /\ OnSchedule(records, c, s)

\* Blocks of other chains do not matter, and those of a chain are finitely many.
LEMMA OneMoreBlock ==
  ASSUME NEW records \in Seq(BlockRecord), NEW r \in BlockRecord
  PROVE  /\ Append(records, r) \in Seq(BlockRecord)
         /\ \A c : /\ IsFiniteSet(BlocksOf(records, c))
                   /\ Len(records) + 1 \notin BlocksOf(records, c)
                   /\ BlocksOf(records, c) \subseteq 1..Len(records)
                   /\ BlocksOf(Append(records, r), c) =
                        IF c = r.chain THEN BlocksOf(records, c) \cup {Len(records) + 1}
                                       ELSE BlocksOf(records, c)
         /\ \A i \in 1..Len(records) : Append(records, r)[i] = records[i]
         /\ Append(records, r)[Len(records) + 1] = r
<1> DEFINE n == Len(records)
           more == Append(records, r)
<1>1. /\ n \in Nat /\ DOMAIN records = 1..n
      /\ more \in Seq(BlockRecord) /\ Len(more) = n + 1 /\ DOMAIN more = 1..(n + 1)
      /\ \A i \in 1..n : more[i] = records[i]
      /\ more[n + 1] = r
  BY AppendProperties
<1> HIDE DEF n, more
<1>2. ASSUME NEW c
      PROVE  /\ IsFiniteSet(BlocksOf(records, c)) /\ n + 1 \notin BlocksOf(records, c)
             /\ BlocksOf(records, c) \subseteq 1..n
             /\ BlocksOf(more, c) =
                  IF c = r.chain THEN BlocksOf(records, c) \cup {n + 1}
                                 ELSE BlocksOf(records, c)
  <2>1. BlocksOf(records, c) \subseteq 1..n
    BY <1>1 DEF BlocksOf
  <2>2. IsFiniteSet(1..n)
    BY <1>1, FS_Interval
  <2>3. IsFiniteSet(BlocksOf(records, c))
    BY <2>1, <2>2, FS_Subset
  <2>4. n + 1 \notin BlocksOf(records, c)
    BY <1>1, <2>1
  <2>5. \A i : i \in BlocksOf(more, c) <=>
               \/ i \in BlocksOf(records, c)
               \/ i = n + 1 /\ c = r.chain
    BY <1>1 DEF BlocksOf
  <2>6. QED
    BY <2>1, <2>3, <2>4, <2>5
<1>3. QED
  BY <1>1, <1>2 DEF n, more

\* One more block does not change what the difficulty was before.
LEMMA DifficultyStays ==
  ASSUME NEW records \in Seq(BlockRecord), NEW r \in BlockRecord, NEW c,
         NEW height \in Nat, Numbered(records, c, height),
         NEW reached \in Nat, Numbered(Append(records, r), c, reached),
         NEW h \in 0..height
  PROVE  DifficultyAfter(Append(records, r), c, h) = DifficultyAfter(records, c, h)
<1>1. CASE h = 0
  BY <1>1 DEF DifficultyAfter
<1>2. CASE h # 0
  <2>1. PICK i \in BlocksOf(records, c) : records[i].height = h
    BY <1>2 DEF Numbered
  <2>2. i \in BlocksOf(Append(records, r), c) /\ Append(records, r)[i] = records[i]
    BY OneMoreBlock
  <2>3. DifficultyAfter(records, c, h) = records[i].difficulty
    BY <2>1, DifficultyOfBlock
  <2>4. DifficultyAfter(Append(records, r), c, Append(records, r)[i].height)
          = Append(records, r)[i].difficulty
    <3> DEFINE more == Append(records, r)
    <3>1. i \in BlocksOf(more, c) /\ Numbered(more, c, reached)
      BY <2>2
    <3> HIDE DEF more
    <3>2. DifficultyAfter(more, c, more[i].height) = more[i].difficulty
      BY <3>1, DifficultyOfBlock
    <3>3. QED
      BY <3>2 DEF more
  <2>5. QED
    BY <2>1, <2>2, <2>3, <2>4
<1>3. QED
  BY <1>1, <1>2

\* The work of a chain's blocks is not changed by a block of another chain, and
\* grows with one of its own.
LEMMA WorkGrows ==
  ASSUME NEW records \in Seq(BlockRecord), NEW r \in BlockRecord, NEW c
  PROVE  /\ WorkOfBlocks(records, c) \in Nat
         /\ WorkOfBlocks(Append(records, r), c) =
              IF c = r.chain THEN WorkOfBlocks(records, c) + Achieved(r.hash)
                             ELSE WorkOfBlocks(records, c)
<1> DEFINE n == Len(records)
           more == Append(records, r)
           S == BlocksOf(records, c)
           old == [i \in DOMAIN records |-> Achieved(records[i].hash)]
           new == [i \in DOMAIN more |-> Achieved(more[i].hash)]
<1>1. /\ n \in Nat /\ DOMAIN records = 1..n
      /\ more \in Seq(BlockRecord) /\ DOMAIN more = 1..(n + 1)
      /\ \A i \in 1..n : more[i] = records[i] /\ records[i] \in BlockRecord
      /\ more[n + 1] = r
  <2>1. Len(more) = n + 1 /\ more \in Seq(BlockRecord)
    BY AppendProperties
  <2>2. DOMAIN more = 1..Len(more) /\ DOMAIN records = 1..n /\ n \in Nat
    BY <2>1
  <2>3. \A i \in 1..n : records[i] \in BlockRecord
    BY <2>2
  <2>4. (\A i \in 1..n : more[i] = records[i]) /\ more[n + 1] = r
    BY AppendProperties
  <2> HIDE DEF more
  <2>5. QED
    BY <2>1, <2>2, <2>3, <2>4
<1>2. /\ IsFiniteSet(S) /\ n + 1 \notin S /\ S \subseteq 1..n
      /\ BlocksOf(more, c) = IF c = r.chain THEN S \cup {n + 1} ELSE S
  BY OneMoreBlock
<1> HIDE DEF n, more, S
<1>3. \A i \in S : old[i] \in Nat /\ new[i] = old[i]
  <2>1. SUFFICES ASSUME NEW i \in S PROVE old[i] \in Nat /\ new[i] = old[i]
    OBVIOUS
  <2>2. records[i].hash \in Hash /\ i \in 1..n /\ i \in 1..(n + 1)
    BY <1>1, <1>2 DEF BlockRecord
  <2>3. QED
    BY <1>1, <2>2, AchievedIsNat
<1>4. new[n + 1] = Achieved(r.hash) /\ Achieved(r.hash) \in Nat
  <2>1. r.hash \in Hash /\ n + 1 \in 1..(n + 1)
    BY <1>1 DEF BlockRecord
  <2>2. QED
    BY <1>1, <2>1, AchievedIsNat
<1>5. WorkOfBlocks(records, c) = SumFunctionOnSet(old, S)
  BY DEF WorkOfBlocks, S
<1>6. WorkOfBlocks(more, c) = SumFunctionOnSet(new, BlocksOf(more, c))
  BY DEF WorkOfBlocks
<1> HIDE DEF old, new
<1>7. SumFunctionOnSet(old, S) \in Nat
  BY <1>2, <1>3, SumIsNat
<1>8. CASE c = r.chain
  <2>1. \A i \in S \cup {n + 1} : new[i] \in Nat
    BY <1>3, <1>4
  <2>2. \A i \in S : old[i] = new[i]
    BY <1>3
  <2>3. SumFunctionOnSet(new, S \cup {n + 1}) = SumFunctionOnSet(old, S) + new[n + 1]
    BY <1>2, <2>1, <2>2, SumAdd
  <2>4. QED
    BY <1>2, <1>4, <1>5, <1>6, <1>7, <1>8, <2>3 DEF more
<1>9. CASE c # r.chain
  <2>1. SumFunctionOnSet(new, S) = SumFunctionOnSet(old, S)
    BY <1>2, <1>3, SumCongruent
  <2>2. QED
    BY <1>2, <1>5, <1>6, <1>7, <1>9, <2>1 DEF more
<1>10. QED
  BY <1>8, <1>9

\* A block of another chain leaves a chain whole.
LEMMA WholeElsewhere ==
  ASSUME NEW records \in Seq(BlockRecord), NEW r \in BlockRecord, NEW c, c # r.chain,
         NEW s \in ChainState, Whole(records, c, s)
  PROVE  Whole(Append(records, r), c, s)
<1> DEFINE more == Append(records, r)
           S == BlocksOf(records, c)
<1>1. /\ BlocksOf(more, c) = S /\ \A i \in S : more[i] = records[i]
  BY OneMoreBlock
<1>2. /\ s.current_height \in Nat
      /\ AdjustmentInterval \in Nat \ {0}
  BY ConsensusAssumption DEF ChainState
<1>3. WorkOfBlocks(more, c) = WorkOfBlocks(records, c)
  BY WorkGrows
<1>4. Numbered(more, c, s.current_height)
  <2> HIDE DEF more
  <2>1. QED
    BY <1>1 DEF Whole, Numbered
<1>5. \A h \in 0..s.current_height :
        DifficultyAfter(more, c, h) = DifficultyAfter(records, c, h)
  BY <1>2, <1>4, DifficultyStays DEF Whole
<1> HIDE DEF more
<1>6. IsRecordOf(more, c, s)
  BY <1>1, <1>3 DEF Whole, IsRecordOf
<1>7. OnSchedule(more, c, s)
  BY <1>2, <1>5 DEF Whole, OnSchedule
<1>8. QED
  BY <1>4, <1>6, <1>7 DEF Whole, more

\* A chain whose next block is accepted is whole once the block is recorded.
LEMMA WholeNext ==
  ASSUME NEW records \in Seq(BlockRecord), NEW c \in Chains,
         NEW s \in ChainState, Whole(records, c, s),
         NEW hash \in Hash, NEW now \in Nat,
         NEW after \in Retargeted(WithBlock(s, hash), now),
         NEW r \in BlockRecord, r.chain = c, r.height = s.current_height + 1,
         r.hash = hash, r.difficulty = after.current_difficulty
  PROVE  Whole(Append(records, r), c, after)
<1> DEFINE n == Len(records)
           more == Append(records, r)
           S == BlocksOf(records, c)
           T == BlocksOf(more, c)
           height == s.current_height
           mid == WithBlock(s, hash)
<1>1. /\ height \in Nat /\ s.blocks_in_period \in Nat /\ s.total_work \in Nat
      /\ s.current_difficulty \in Nat /\ Achieved(hash) \in Nat
      /\ AdjustmentInterval \in Nat \ {0} /\ n \in Nat
  BY ConsensusAssumption, AchievedIsNat DEF ChainState
<1>2. /\ mid \in ChainState /\ mid.current_height = height + 1
      /\ mid.current_difficulty = s.current_difficulty
      /\ mid.blocks_in_period = s.blocks_in_period + 1
      /\ mid.total_work = s.total_work + Achieved(hash)
  BY WithBlockTyped
<1>3. /\ after \in ChainState /\ after.current_height = height + 1
      /\ after.total_work = s.total_work + Achieved(hash)
      /\ IF mid.blocks_in_period < AdjustmentInterval THEN after = mid
         ELSE /\ after.blocks_in_period = 0
              /\ Moderate(s.current_difficulty, after.current_difficulty)
  BY <1>2, RetargetedState
<1>4. /\ IsFiniteSet(S) /\ n + 1 \notin S /\ S \subseteq 1..n
      /\ T = S \cup {n + 1}
      /\ \A i \in S : more[i] = records[i]
      /\ more[n + 1] = r
  BY OneMoreBlock
<1>5. /\ Cardinality(S) = height
      /\ \A i \in S : records[i].height = Cardinality(S \cap 1..i)
      /\ WorkOfBlocks(records, c) = s.total_work
  BY DEF Whole, IsRecordOf
<1>6. WorkOfBlocks(more, c) = s.total_work + Achieved(hash)
  BY <1>5, WorkGrows
<1>7. /\ \A i \in S : records[i].height \in 1..height
      /\ \A i, j \in S : records[i].height = records[j].height => i = j
      /\ \A h \in 1..height : \E i \in S : records[i].height = h
  BY DEF Whole, Numbered
<1>8. /\ s.current_difficulty = DifficultyAfter(records, c, height)
      /\ s.blocks_in_period = height % AdjustmentInterval
      /\ \A h \in 1..height :
           IF h % AdjustmentInterval = 0
           THEN Moderate(DifficultyAfter(records, c, h - 1), DifficultyAfter(records, c, h))
           ELSE DifficultyAfter(records, c, h) = DifficultyAfter(records, c, h - 1)
  BY DEF Whole, OnSchedule
<1>9. Numbered(more, c, height + 1)
  <2> HIDE DEF more, S, height
  <2>1. ASSUME NEW i \in T PROVE more[i].height \in 1..(height + 1)
    <3>1. CASE i \in S
      <4>1. more[i].height \in 1..height
        BY <1>4, <1>7, <3>1, Zenon
      <4>2. QED
        BY <1>1, <4>1
    <3>2. CASE i = n + 1
      <4>1. more[i].height = height + 1
        BY <1>4, <3>2 DEF height
      <4>2. QED
        BY <1>1, <4>1
    <3>3. QED
      BY <1>4, <3>1, <3>2
  <2>2. ASSUME NEW i \in T, NEW j \in T, more[i].height = more[j].height PROVE i = j
    <3>1. ASSUME NEW k \in S PROVE more[k].height < height + 1
      <4>1. more[k].height \in 1..height
        BY <1>4, <1>7, Zenon
      <4>2. QED
        BY <1>1, <4>1
    <3>2. more[n + 1].height = height + 1
      BY <1>4 DEF height
    <3>3. QED
      <4>1. CASE i \in S /\ j \in S
        BY <1>4, <1>7, <2>2, <4>1
      <4>2. CASE i = n + 1 /\ j \in S
        BY <1>1, <1>4, <1>7, <2>2, <3>1, <3>2, <4>2
      <4>3. CASE i \in S /\ j = n + 1
        BY <1>1, <1>4, <1>7, <2>2, <3>1, <3>2, <4>3
      <4>4. QED
        BY <1>4, <4>1, <4>2, <4>3
  <2>3. ASSUME NEW h \in 1..(height + 1) PROVE \E i \in T : more[i].height = h
    <3>1. CASE h = height + 1
      BY <1>4, <3>1 DEF height
    <3>2. CASE h # height + 1
      <4>1. PICK i \in S : records[i].height = h
        BY <1>1, <1>7, <3>2
      <4>2. QED
        BY <1>4, <4>1
    <3>3. QED
      BY <3>1, <3>2
  <2> HIDE DEF T
  <2>4. QED
    BY <2>1, <2>2, <2>3 DEF Numbered, T
<1>10. IsRecordOf(more, c, after)
  <2>1. Cardinality(T) = height + 1
    <3> HIDE DEF S, T, n, height
    <3>1. Cardinality(S \cup {n + 1}) = Cardinality(S) + 1
      BY <1>4, FS_AddElement
    <3>2. QED
      BY <1>4, <1>5, <3>1
  <2>2. ASSUME NEW i \in T PROVE more[i].height = Cardinality(T \cap 1..i)
    <3>1. CASE i = n + 1
      <4>1. T \cap 1..i = T
        <5> HIDE DEF S, n
        <5>1. T \subseteq 1..i
          BY <1>1, <1>4, <3>1
        <5>2. QED
          BY <5>1
      <4>2. more[i].height = height + 1
        BY <1>4, <3>1
      <4>3. QED
        BY <2>1, <4>1, <4>2
    <3>2. CASE i \in S
      <4>1. T \cap 1..i = S \cap 1..i
        <5> HIDE DEF S, T, n, more
        <5>1. i \in 1..n
          BY <1>4, <3>2
        <5>2. n + 1 \notin 1..i
          BY <1>1, <5>1
        <5>3. QED
          BY <1>4, <5>2
      <4>2. QED
        BY <1>4, <1>5, <3>2, <4>1
    <3>3. QED
      BY <1>4, <3>1, <3>2
  <2> HIDE DEF more
  <2>3. QED
    BY <1>3, <1>5, <1>6, <2>1, <2>2 DEF IsRecordOf, T
<1>11. OnSchedule(more, c, after)
  <2>1. ASSUME NEW h \in 0..height
        PROVE  DifficultyAfter(more, c, h) = DifficultyAfter(records, c, h)
    <3>1. Numbered(records, c, height) /\ height + 1 \in Nat
      BY <1>1 DEF Whole
    <3> HIDE DEF height
    <3>2. QED
      BY <1>1, <1>9, <3>1, DifficultyStays DEF more
  <2>2. DifficultyAfter(more, c, height + 1) = after.current_difficulty
    <3>1. n + 1 \in T /\ more[n + 1].height = height + 1
          /\ more[n + 1].difficulty = after.current_difficulty
      BY <1>4
    <3>2. height + 1 \in Nat
      BY <1>1
    <3> HIDE DEF more, height
    <3>3. DifficultyAfter(more, c, more[n + 1].height) = more[n + 1].difficulty
      BY <1>9, <3>1, <3>2, DifficultyOfBlock DEF T
    <3>4. QED
      BY <3>1, <3>3
  <2>3. (height + 1) % AdjustmentInterval =
          IF s.blocks_in_period + 1 < AdjustmentInterval THEN s.blocks_in_period + 1 ELSE 0
    <3>1. (height + 1) % AdjustmentInterval =
            IF (height % AdjustmentInterval) + 1 < AdjustmentInterval
            THEN (height % AdjustmentInterval) + 1 ELSE 0
      <4> HIDE DEF height
      <4>1. QED
        BY <1>1, NextRest
    <3>2. QED
      BY <1>8, <3>1
  <2> HIDE DEF more, height, mid, n, S, T
  <2>4. after.blocks_in_period = (height + 1) % AdjustmentInterval
    BY <1>1, <1>2, <1>3, <2>3
  <2>5. IF (height + 1) % AdjustmentInterval = 0
        THEN Moderate(s.current_difficulty, after.current_difficulty)
        ELSE after.current_difficulty = s.current_difficulty
    BY <1>1, <1>2, <1>3, <2>3
  <2>6. DifficultyAfter(more, c, height) = s.current_difficulty
    BY <1>1, <1>8, <2>1
  <2>7. ASSUME NEW h \in 1..(height + 1)
        PROVE  IF h % AdjustmentInterval = 0
               THEN Moderate(DifficultyAfter(more, c, h - 1), DifficultyAfter(more, c, h))
               ELSE DifficultyAfter(more, c, h) = DifficultyAfter(more, c, h - 1)
    <3>1. CASE h = height + 1
      <4>1. h - 1 = height
        BY <1>1, <3>1
      <4>2. QED
        BY <2>2, <2>5, <2>6, <3>1, <4>1
    <3>2. CASE h # height + 1
      <4>1. h \in 1..height /\ h \in 0..height /\ h - 1 \in 0..height
        BY <1>1, <3>2
      <4>2. QED
        BY <1>8, <2>1, <4>1
    <3>3. QED
      BY <3>1, <3>2
  <2>8. QED
    BY <1>3, <2>2, <2>4, <2>7 DEF OnSchedule
<1>12. Numbered(more, c, after.current_height)
  BY <1>3, <1>9
<1>13. QED
  BY <1>10, <1>11, <1>12 DEF Whole

\* A chain without a block is whole.
LEMMA WholeFirst ==
  ASSUME NEW records, NEW c, BlocksOf(records, c) = {}, NEW now
  PROVE  Whole(records, c, NewChain(now))
<1> DEFINE s == NewChain(now)
<1>1. /\ s.current_height = 0 /\ s.current_difficulty = InitialDifficulty
      /\ s.total_work = 0 /\ s.blocks_in_period = 0
  BY DEF NewChain
<1> HIDE DEF s
<1>2. IsRecordOf(records, c, s)
  BY <1>1, FS_EmptySet, SumOfFew DEF IsRecordOf, WorkOfBlocks
<1>3. Numbered(records, c, s.current_height)
  BY <1>1 DEF Numbered
<1>4. OnSchedule(records, c, s)
  <2>1. 0 % AdjustmentInterval = 0
    BY ConsensusAssumption
  <2>2. DifficultyAfter(records, c, 0) = InitialDifficulty
    BY DEF DifficultyAfter
  <2>3. QED
    BY <1>1, <2>1, <2>2 DEF OnSchedule
<1>5. QED
  BY <1>2, <1>3, <1>4 DEF Whole, s

-----------------------------------------------------------------------------
(* Every chain with its miner and its record.                              *)

Difficulties == {InitialDifficulty} \cup MinDifficulty..MaxDifficulty

WholeChains(chains, records) ==
  \A c \in Chains :
    IF chains[c] = None THEN BlocksOf(records, c) = {}
    ELSE Whole(records, c, chains[c]) /\ chains[c].current_difficulty \in Difficulties

\* The record a task is about to write.
RecordBy(t) ==
  [chain |-> arg[t].chain, height |-> arg[t].height, hash |-> arg[t].hash,
   difficulty |-> chain_states[arg[t].chain].current_difficulty]

\* Each chain has its miner, or somebody is about to make it; and the record
\* is whole, or will be with what somebody is about to write.
ChainsInv ==
  /\ \A c \in Chains : chain_states[c] # None <=>
       \/ c \in miners
       \/ \E t \in Tasks : pc[t] = "init_miners" /\ arg[t].chain = c
  /\ \/ \E t \in Tasks : pc[t] = "submit_history"
     \/ WholeChains(chain_states, block_history)
  /\ \A t \in Tasks : pc[t] = "submit_history" =>
       WholeChains(chain_states, Append(block_history, RecordBy(t)))

\* Whoever is about to make a miner or to record a block has the chains to
\* itself.
LEMMA OneAtStates ==
  ASSUME EngineLocks, NEW t \in Tasks, NEW u \in Tasks,
         pc[t] \in {"init_miners", "submit_history"},
         pc[u] \in {"init_miners", "submit_history"} \/ Holds(locks["states"], u)
  PROVE  t = u
<1>1. /\ "states" \in Locks
      /\ \A p \in {"init_miners", "submit_history"} :
           "states" \in HeldAt[p] /\ Wants[p]["states"] = "write"
  BY DEF Locks, MinerLocks, HeldAt, Wants, Points, MinerPoints, Writes
<1>2. Holds(locks["states"], t) /\ Holds(locks["states"], u)
  BY <1>1 DEF EngineLocks, LockInv, LockDiscipline
<1>3. QED
  BY <1>1, <1>2, OneHolder DEF EngineLocks

\* Most segments leave the chains and their record alone.
ChainSteps(t) ==
  InitializeState(t) \/ InitializeMiner(t) \/ SubmitAccepted(t) \/ SubmitRecord(t)

LEMMA OtherSegments ==
  ASSUME pc \in [Tasks -> Points], NEW t \in Tasks,
         Begin(t) \/ Continue(t) \/ MinerStep(t), ~ChainSteps(t)
  PROVE  /\ UNCHANGED engineVars
         /\ pc[t] \notin {"init_miners", "submit_history"}
         /\ pc'[t] \notin {"init_miners", "submit_history"}
<1>1. CASE Begin(t)
  BY <1>1 DEF Begin, InitializeChain, CreateWorkPackage, SubmitBlock, Report,
     Call, Enter
<1>2. CASE Continue(t)
  BY <1>2 DEF ChainSteps, Continue, InitializeKnown, WorkUnknown, WorkCopy,
     WorkPackage, SubmitRefused, ReportBoth, Reported, Reached, Await, Drop, Return
<1>3. CASE MinerStep(t)
  BY <1>3, MinerApart DEF MinerStep, MinerPoints
<1>4. QED
  BY <1>1, <1>2, <1>3

LEMMA OthersKeepChains ==
  ASSUME ChainsInv, UNCHANGED engineVars,
         \A u \in Tasks :
           \/ pc'[u] = pc[u] /\ arg'[u] = arg[u]
           \/ /\ pc[u] \notin {"init_miners", "submit_history"}
              /\ pc'[u] \notin {"init_miners", "submit_history"}
  PROVE  ChainsInv'
<1>1. \A u \in Tasks : pc'[u] \in {"init_miners", "submit_history"} =>
                         pc'[u] = pc[u] /\ arg'[u] = arg[u]
  OBVIOUS
<1>2. \A u \in Tasks : pc[u] \in {"init_miners", "submit_history"} =>
                         pc'[u] = pc[u] /\ arg'[u] = arg[u]
  OBVIOUS
<1>3. \A c : (\E u \in Tasks : pc'[u] = "init_miners" /\ arg'[u].chain = c) <=>
             (\E u \in Tasks : pc[u] = "init_miners" /\ arg[u].chain = c)
  BY <1>1, <1>2
<1>4. \A u \in Tasks : pc'[u] = "submit_history" => RecordBy(u)' = RecordBy(u)
  BY <1>1 DEF RecordBy, engineVars
<1>5. chain_states' = chain_states /\ miners' = miners /\ block_history' = block_history
  BY DEF engineVars
<1>6. WholeChains(chain_states, block_history)' <=> WholeChains(chain_states, block_history)
  BY <1>5 DEF WholeChains
<1>7. \A u \in Tasks : pc'[u] = "submit_history" =>
        WholeChains(chain_states, Append(block_history, RecordBy(u)))'
  <2>1. SUFFICES ASSUME NEW u \in Tasks, pc'[u] = "submit_history"
                 PROVE  WholeChains(chain_states, Append(block_history, RecordBy(u)))'
    OBVIOUS
  <2>2. RecordBy(u)' = RecordBy(u)
    BY <1>4, <2>1
  <2>3. WholeChains(chain_states, Append(block_history, RecordBy(u)))
    BY <1>1, <2>1 DEF ChainsInv
  <2>4. QED
    BY <1>5, <2>2, <2>3 DEF WholeChains
<1>8. QED
  BY <1>1, <1>2, <1>3, <1>5, <1>6, <1>7 DEF ChainsInv

LEMMA StartKeepsChains ==
  ASSUME Typed, ChainsInv, NEW t \in Tasks, InitializeState(t)
  PROVE  ChainsInv'
<1> DEFINE c == arg[t].chain
<1>1. /\ EngineLocks /\ ArgTypes /\ EngineTypes /\ pc \in [Tasks -> Points]
  BY TypeOKIs DEF Typed, DataTypes, EngineLocks, LockInv
<1>2. /\ pc[t] = "init_states" /\ Holds(locks["states"], t) /\ c \in Chains
      /\ pc'[t] = "init_miners" /\ arg' = arg
      /\ UNCHANGED <<miners, block_history>>
  <2>1. /\ pc[t] = "init_states" /\ Holds(locks["states"], t)
        /\ pc'[t] = "init_miners" /\ arg' = arg
        /\ UNCHANGED <<miners, block_history>>
    BY <1>1 DEF InitializeState, Reached, Await
  <2>2. arg[t] \in [chain : Chains]
    BY <1>1, <2>1, ArgTable DEF ArgTypes
  <2>3. QED
    BY <2>1, <2>2
<1>3. \A u \in Tasks \ {t} : pc'[u] = pc[u]
  BY <1>1, OthersStay DEF Continue
<1>4. \A u \in Tasks : pc[u] \notin {"init_miners", "submit_history"}
  BY <1>1, <1>2, OneAtStates
<1>5. \A u \in Tasks : /\ pc'[u] # "submit_history"
                       /\ pc'[u] = "init_miners" => u = t
  BY <1>2, <1>3, <1>4
<1>6. PICK now \in Clock : chain_states' = [chain_states EXCEPT ![c] = NewChain(now)]
  BY DEF InitializeState
<1>7. chain_states[c] = None /\ NewChain(now) # None
  <2>1. NewChain(now) \in ChainState
    BY ConsensusAssumption DEF NewChain, ChainState
  <2>2. QED
    BY <2>1, NoneAssumption DEF InitializeState
<1>8. chain_states'[c] # None /\ \A d \in Chains \ {c} : chain_states'[d] = chain_states[d]
  BY <1>1, <1>2, <1>6, <1>7 DEF EngineTypes
<1>9. \A d \in Chains : chain_states'[d] # None <=>
        \/ d \in miners'
        \/ \E u \in Tasks : pc'[u] = "init_miners" /\ arg'[u].chain = d
  BY <1>2, <1>4, <1>5, <1>7, <1>8 DEF ChainsInv
<1>10. WholeChains(chain_states, block_history)
  BY <1>4 DEF ChainsInv
<1>11. WholeChains(chain_states', block_history')
  <2>1. SUFFICES ASSUME NEW d \in Chains
                 PROVE  IF chain_states'[d] = None THEN BlocksOf(block_history, d) = {}
                        ELSE /\ Whole(block_history, d, chain_states'[d])
                             /\ chain_states'[d].current_difficulty \in Difficulties
    BY <1>2 DEF WholeChains
  <2>2. CASE d = c
    <3>1. BlocksOf(block_history, c) = {}
      BY <1>2, <1>7, <1>10 DEF WholeChains
    <3>2. chain_states'[c] = NewChain(now)
      BY <1>1, <1>2, <1>6 DEF EngineTypes
    <3>3. NewChain(now).current_difficulty \in Difficulties
      BY DEF NewChain, Difficulties
    <3>4. Whole(block_history, c, NewChain(now))
      BY <3>1, WholeFirst
    <3>5. QED
      BY <1>8, <2>2, <3>2, <3>3, <3>4
  <2>3. CASE d # c
    BY <1>8, <1>10, <2>3 DEF WholeChains
  <2>4. QED
    BY <2>2, <2>3
<1>12. QED
  BY <1>5, <1>9, <1>11 DEF ChainsInv

LEMMA MinerMadeKeepsChains ==
  ASSUME Typed, ChainsInv, NEW t \in Tasks, InitializeMiner(t)
  PROVE  ChainsInv'
<1>1. /\ EngineLocks /\ ArgTypes /\ pc \in [Tasks -> Points]
  BY TypeOKIs DEF Typed, EngineLocks, LockInv
<1>2. /\ pc[t] = "init_miners" /\ pc'[t] = "idle"
      /\ miners' = miners \cup {arg[t].chain}
      /\ UNCHANGED <<chain_states, block_history>>
  BY <1>1 DEF InitializeMiner, Reached, Return
<1>3. \A u \in Tasks \ {t} : pc'[u] = pc[u] /\ arg'[u] = arg[u]
  BY <1>1, OthersStay DEF Continue
<1>4. \A u \in Tasks : pc[u] # "submit_history" /\ pc'[u] # "submit_history"
  BY <1>1, <1>2, <1>3, OneAtStates
<1>5. ASSUME NEW c \in Chains
      PROVE  chain_states'[c] # None <=>
               \/ c \in miners'
               \/ \E u \in Tasks : pc'[u] = "init_miners" /\ arg'[u].chain = c
  <2>1. chain_states'[c] # None <=>
          \/ c \in miners
          \/ \E u \in Tasks : pc[u] = "init_miners" /\ arg[u].chain = c
    BY <1>2 DEF ChainsInv
  <2>2. (\E u \in Tasks : pc[u] = "init_miners" /\ arg[u].chain = c) <=>
          \/ c = arg[t].chain
          \/ \E u \in Tasks : pc'[u] = "init_miners" /\ arg'[u].chain = c
    BY <1>2, <1>3
  <2>3. QED
    BY <1>2, <2>1, <2>2
<1>6. WholeChains(chain_states, block_history)'
  BY <1>2, <1>4 DEF ChainsInv, WholeChains
<1>7. QED
  BY <1>4, <1>5, <1>6 DEF ChainsInv

LEMMA AcceptedKeepsChains ==
  ASSUME Typed, ChainsInv, NEW t \in Tasks, SubmitAccepted(t)
  PROVE  ChainsInv'
<1> DEFINE c == arg[t].chain
           s == chain_states[c]
           hash == arg[t].hash
<1>1. /\ EngineLocks /\ ArgTypes /\ EngineTypes /\ pc \in [Tasks -> Points]
  BY TypeOKIs DEF Typed, DataTypes, EngineLocks, LockInv
<1>2. /\ pc[t] = "submit_states" /\ Holds(locks["states"], t)
      /\ pc'[t] = "submit_history" /\ arg' = arg
      /\ UNCHANGED <<miners, block_history>>
  BY <1>1 DEF SubmitAccepted, Reached, Await
<1>3. \A u \in Tasks \ {t} : pc'[u] = pc[u]
  BY <1>1, OthersStay DEF Continue
<1>4. \A u \in Tasks : pc[u] \notin {"init_miners", "submit_history"}
  BY <1>1, <1>2, OneAtStates
<1>5. /\ arg[t] \in OfChains(Proof) /\ c \in Chains /\ hash \in Hash /\ s \in ChainState
      /\ \E now \in Nat, after \in ChainState :
           /\ after \in Retargeted(WithBlock(s, hash), now)
           /\ chain_states' = [chain_states EXCEPT ![c] = after]
  BY <1>1, AcceptedState
<1>6. PICK now \in Nat, after \in ChainState :
        /\ after \in Retargeted(WithBlock(s, hash), now)
        /\ chain_states' = [chain_states EXCEPT ![c] = after]
  BY <1>5
<1>7. arg[t].height = s.current_height + 1 /\ s # None
  BY DEF SubmitAccepted, Acceptable, Extends
<1>8. chain_states'[c] = after /\ after # None
      /\ \A d \in Chains \ {c} : chain_states'[d] = chain_states[d]
  BY <1>1, <1>5, <1>6, NoneAssumption DEF EngineTypes
<1> DEFINE r == [chain |-> c, height |-> arg[t].height, hash |-> hash,
                 difficulty |-> after.current_difficulty]
<1>9. RecordBy(t)' = r
  BY <1>2, <1>8 DEF RecordBy
<1>10. r \in BlockRecord
  <2>1. arg[t].height \in Nat /\ after.current_difficulty \in Nat
    BY <1>5, <1>6 DEF OfChains, Proof, ChainState
  <2>2. QED
    BY <1>5, <2>1 DEF BlockRecord
<1>11. /\ r.chain = c /\ r.height = s.current_height + 1 /\ r.hash = hash
       /\ r.difficulty = after.current_difficulty
  BY <1>7
<1>12. WholeChains(chain_states, block_history)
  BY <1>4 DEF ChainsInv
<1>13. block_history \in Seq(BlockRecord)
  BY <1>1 DEF EngineTypes
<1>14. Whole(block_history, c, s) /\ s.current_difficulty \in Difficulties
  BY <1>5, <1>7, <1>12 DEF WholeChains
<1> HIDE DEF r, c, s, hash
<1>15. Whole(Append(block_history, r), c, after)
  BY <1>5, <1>6, <1>10, <1>11, <1>13, <1>14, WholeNext
<1>16. after.current_difficulty \in Difficulties
  <2>1. /\ WithBlock(s, hash) \in ChainState
        /\ WithBlock(s, hash).current_difficulty = s.current_difficulty
    BY <1>5, WithBlockTyped
  <2>2. \/ after.current_difficulty = s.current_difficulty
        \/ ValidDifficulty(after.current_difficulty)
    BY <1>6, <2>1, RetargetedState
  <2>3. QED
    BY <1>14, <2>2 DEF Difficulties, ValidDifficulty
<1>17. ASSUME NEW d \in Chains \ {c}
       PROVE  IF chain_states[d] = None THEN BlocksOf(Append(block_history, r), d) = {}
              ELSE /\ Whole(Append(block_history, r), d, chain_states[d])
                   /\ chain_states[d].current_difficulty \in Difficulties
  <2>1. d # r.chain /\ d \in Chains
    BY <1>11
  <2>2. CASE chain_states[d] = None
    BY <1>10, <1>12, <1>13, <2>1, <2>2, OneMoreBlock DEF WholeChains
  <2>3. CASE chain_states[d] # None
    <3>1. /\ chain_states[d] \in ChainState /\ Whole(block_history, d, chain_states[d])
          /\ chain_states[d].current_difficulty \in Difficulties
      BY <1>1, <1>12, <2>1, <2>3 DEF EngineTypes, WholeChains
    <3>2. Whole(Append(block_history, r), d, chain_states[d])
      BY <1>10, <1>13, <2>1, <3>1, WholeElsewhere
    <3>3. QED
      BY <2>3, <3>1, <3>2
  <2>4. QED
    BY <2>2, <2>3
<1>18. WholeChains(chain_states', Append(block_history, r))
  BY <1>8, <1>15, <1>16, <1>17 DEF WholeChains
<1>19. WholeChains(chain_states, Append(block_history, RecordBy(t)))'
  BY <1>2, <1>9, <1>18
<1>20. \A u \in Tasks : pc'[u] # "init_miners" /\ (pc'[u] = "submit_history" => u = t)
  BY <1>2, <1>3, <1>4
<1>21. \A d \in Chains : chain_states'[d] # None <=> d \in miners'
  <2>1. \A d \in Chains : chain_states[d] # None <=> d \in miners
    BY <1>4 DEF ChainsInv
  <2>2. s = chain_states[c]
    BY DEF s
  <2>3. QED
    BY <1>2, <1>5, <1>7, <1>8, <2>1, <2>2
<1>22. \A u \in Tasks : pc'[u] = "submit_history" =>
         WholeChains(chain_states, Append(block_history, RecordBy(u)))'
  BY <1>19, <1>20
<1>23. QED
  BY <1>2, <1>20, <1>21, <1>22 DEF ChainsInv

LEMMA RecordKeepsChains ==
  ASSUME Typed, ChainsInv, NEW t \in Tasks, SubmitRecord(t)
  PROVE  ChainsInv'
<1>1. /\ EngineLocks /\ ArgTypes /\ pc \in [Tasks -> Points]
  BY TypeOKIs DEF Typed, EngineLocks, LockInv
<1>2. /\ pc[t] = "submit_history" /\ pc'[t] = "idle"
      /\ block_history' = Append(block_history, RecordBy(t))
      /\ UNCHANGED <<chain_states, miners>>
  BY <1>1 DEF SubmitRecord, Reached, Return, RecordBy
<1>3. \A u \in Tasks \ {t} : pc'[u] = pc[u] /\ arg'[u] = arg[u]
  BY <1>1, OthersStay DEF Continue
<1>4. \A u \in Tasks \ {t} : pc[u] \notin {"init_miners", "submit_history"}
  BY <1>1, <1>2, OneAtStates
<1>5. \A u \in Tasks : /\ pc[u] # "init_miners"
                       /\ pc'[u] \notin {"init_miners", "submit_history"}
  BY <1>2, <1>3, <1>4
<1>6. WholeChains(chain_states, Append(block_history, RecordBy(t)))
  BY <1>2 DEF ChainsInv
<1>7. WholeChains(chain_states, block_history)'
  BY <1>2, <1>6 DEF WholeChains
<1>8. QED
  BY <1>2, <1>5, <1>7 DEF ChainsInv

LEMMA NextKeepsChains == ASSUME Typed, ChainsInv, [Next]_vars PROVE ChainsInv'
<1>1. ArgTypes /\ pc \in [Tasks -> Points]
  BY TypeOKIs DEF Typed, EngineLocks, LockInv
<1>2. CASE UNCHANGED vars
  BY <1>2, OthersKeepChains DEF vars, taskVars
<1>3. ASSUME NEW t \in Tasks, Begin(t) \/ Continue(t) \/ MinerStep(t)
      PROVE  ChainsInv'
  <2>1. CASE ChainSteps(t)
    BY <2>1, StartKeepsChains, MinerMadeKeepsChains, AcceptedKeepsChains,
       RecordKeepsChains DEF ChainSteps
  <2>2. CASE ~ChainSteps(t)
    <3>1. /\ UNCHANGED engineVars
          /\ pc[t] \notin {"init_miners", "submit_history"}
          /\ pc'[t] \notin {"init_miners", "submit_history"}
      BY <1>1, <1>3, <2>2, OtherSegments
    <3>2. \A u \in Tasks \ {t} : pc'[u] = pc[u] /\ arg'[u] = arg[u]
      BY <1>1, <1>3, OthersStay DEF MinerStep
    <3>3. QED
      BY <3>1, <3>2, OthersKeepChains
  <2>3. QED
    BY <2>1, <2>2
<1>4. QED
  BY <1>2, <1>3 DEF Next

LEMMA InitWhole == ASSUME Init PROVE ChainsInv
<1>1. \A c : BlocksOf(block_history, c) = {}
  BY DEF Init, BlocksOf
<1>2. \A t \in Tasks : pc[t] = "idle"
  BY DEF Init, NoCalls
<1>3. (\A c \in Chains : chain_states[c] = None) /\ miners = {}
  BY DEF Init
<1>4. QED
  BY <1>1, <1>2, <1>3 DEF ChainsInv, WholeChains

\* Who may read the chains sees nobody half-way.
LEMMA ReadersSeeAll ==
  ASSUME Typed, ChainsInv, ~WriteHeld(locks["states"])
  PROVE  miners = Started /\ WholeChains(chain_states, block_history)
<1>1. \A t \in Tasks : pc[t] \notin {"init_miners", "submit_history"}
  <2>1. SUFFICES ASSUME NEW t \in Tasks, pc[t] \in {"init_miners", "submit_history"}
                 PROVE  FALSE
    OBVIOUS
  <2>2. /\ "states" \in Locks
        /\ \A p \in {"init_miners", "submit_history"} :
             "states" \in HeldAt[p] /\ Wants[p]["states"] = "write"
    BY DEF Locks, MinerLocks, HeldAt, Wants, Points, MinerPoints, Writes
  <2>3. EngineLocks
    BY TypeOKIs DEF Typed
  <2>4. HoldsWrite(locks["states"], t) /\ t \in DOMAIN locks["states"]
    BY <2>1, <2>2, <2>3 DEF EngineLocks, LockInv, LockDiscipline, HoldsWrite, WellFormed
  <2>5. QED
    BY <2>4 DEF WriteHeld
<1>2. miners \subseteq Chains
  BY DEF Typed, TypeOK
<1>3. QED
  BY <1>1, <1>2 DEF ChainsInv, Started

\* Every chain that can be read has its miner and the whole of its record.
THEOREM ChainsWholeHolds == Spec => []ChainsWhole
<1>1. Typed /\ ChainsInv => ChainsWhole
  BY ReadersSeeAll DEF WholeChains, Whole, ChainsWhole, Started
<1>2. QED
  BY <1>1, InitTyped, NextTyped, InitWhole, NextKeepsChains, PTL DEF Spec

\* Difficulties change on schedule, by what a validator lets pass.
THEOREM RetargetsOnScheduleHolds == Spec => []RetargetsOnSchedule
<1>1. Typed /\ ChainsInv => RetargetsOnSchedule
  BY ReadersSeeAll DEF WholeChains, Whole, RetargetsOnSchedule, Started
<1>2. QED
  BY <1>1, InitTyped, NextTyped, InitWhole, NextKeepsChains, PTL DEF Spec

-----------------------------------------------------------------------------
(* Work under way.                                                         *)

\* A hash that a validator passes meets the engine's target.
LEMMA ValidMeets ==
  ASSUME NEW h \in Hash, NEW d \in Difficulties, WithinTarget(h, d)
  PROVE  Meets(h, d)
<1>1. CASE h.tail = << >>
  BY <1>1 DEF Meets, AtMost
<1>2. CASE h \in [tail : [1..8 -> Byte], zeros : {0}]
  <2>1. Log2(d) \in 0..63 /\ IsLog2(Log2(d), d)
    <3>1. \E e \in 0..63 : IsLog2(e, d)
      BY DifficultyAssumption DEF Difficulties
    <3>2. QED
      BY <3>1, Zenon DEF Log2
  <2>2. Log2(d) = 0
    BY <1>2, <2>1 DEF WithinTarget
  <2>3. d = 1
    <3>1. TwoTo[0] = 1 /\ TwoTo[1] = 2
      BY PowersUnfold
    <3>2. d \in Nat
      BY ConsensusAssumption, WorkAssumption DEF Difficulties
    <3>3. IsLog2(0, d)
      BY <2>1, <2>2
    <3>4. QED
      BY <3>1, <3>2, <3>3 DEF IsLog2
  <2>4. \A i \in 1..8 : Target(d)[i] = 255
    BY <2>3 DEF Target
  <2>5. DOMAIN Target(d) = 1..8 /\ Target(d) = [i \in 1..8 |-> Target(d)[i]]
    BY DEF Target
  <2> DEFINE tail == h.tail
             target == Target(d)
             Less == {i \in 1..8 : tail[i] # 255}
  <2>6. tail \in [1..8 -> Byte]
    BY <1>2
  <2> HIDE DEF tail, target
  <2>7. CASE Less = {}
    <3>1. tail = target
      BY <2>4, <2>5, <2>6, <2>7 DEF target
    <3>2. QED
      BY <3>1 DEF Meets, AtMost, tail, target
  <2>8. CASE Less # {}
    <3>1. PICK i \in Less : \A j \in Less : i <= j
      <4>1. Less \in SUBSET Nat
        OBVIOUS
      <4> HIDE DEF Less
      <4>2. QED
        BY <2>8, <4>1, NatMin
    <3>2. i \in DOMAIN tail /\ tail[i] < target[i]
      BY <2>4, <2>6 DEF target, Byte
    <3>3. \A j \in 1..(i - 1) : tail[j] = target[j]
      BY <2>4, <2>6, <3>1 DEF target
    <3>4. QED
      BY <3>2, <3>3 DEF Meets, AtMost, tail, target
  <2>9. QED
    BY <2>7, <2>8
<1>3. QED
  BY <1>1, <1>2 DEF Hash

\* Work is good for the next block of its chain, or its height is taken.
GoodWork(w, chains) ==
  /\ w.chain \in Chains /\ chains[w.chain] # None
  /\ w.height \in Nat /\ w.height <= chains[w.chain].current_height + 1
  /\ w.height = chains[w.chain].current_height + 1 =>
       w.difficulty = chains[w.chain].current_difficulty

\* The work a task has at a point.
WorkAt(point, m) ==
  CASE point \in {"work_copied", "set_work", "submit_states"} -> {m}
    [] point \in MiningPoints -> {m.work}
    [] OTHER -> {}

LEMMA WorkTable ==
  \A m :
    /\ \A point \in {"work_copied", "set_work", "submit_states"} :
         WorkAt(point, m) = {m}
    /\ \A point \in MiningPoints : WorkAt(point, m) = {m.work}
BY DEF WorkAt, MiningPoints

Holding(t) == WorkAt(pc[t], arg[t]) \cup ({package[t], proof[t], current_work} \ {None})

WorkInv ==
  /\ \A t \in Tasks : \A w \in Holding(t) :
       w.difficulty # 0 => GoodWork(w, chain_states)
  /\ \A w \in {current_work} \ {None} :
       w.difficulty # 0 => GoodWork(w, chain_states)

\* Another block of the chain takes the height of the work.
LEMMA GoodStays ==
  ASSUME Typed, NEW t \in Tasks, Begin(t) \/ Continue(t) \/ MinerStep(t),
         NEW w, GoodWork(w, chain_states)
  PROVE  GoodWork(w, chain_states')
<1>1. /\ EngineTypes /\ ArgTypes /\ pc \in [Tasks -> Points]
      /\ chain_states \in [Chains -> ChainState \cup {None}]
  BY TypeOKIs DEF Typed, DataTypes, EngineTypes, EngineLocks, LockInv
<1>2. w.chain \in Chains /\ chain_states[w.chain] \in ChainState
  BY <1>1 DEF GoodWork
<1>3. CASE SubmitAccepted(t)
  <2>1. /\ arg[t].chain \in Chains /\ arg[t].hash \in Hash
        /\ chain_states[arg[t].chain] \in ChainState
        /\ \E now \in Nat, after \in ChainState :
             /\ after \in Retargeted(WithBlock(chain_states[arg[t].chain], arg[t].hash), now)
             /\ chain_states' = [chain_states EXCEPT ![arg[t].chain] = after]
    BY <1>1, <1>3, AcceptedState
  <2> DEFINE s == chain_states[arg[t].chain]
             hash == arg[t].hash
  <2>2. PICK now \in Nat, after \in ChainState :
          /\ after \in Retargeted(WithBlock(s, hash), now)
          /\ chain_states' = [chain_states EXCEPT ![arg[t].chain] = after]
    BY <2>1
  <2>3. s \in ChainState /\ hash \in Hash
    BY <2>1
  <2> HIDE DEF s, hash
  <2>4. after.current_height = s.current_height + 1
    BY <2>2, <2>3, WithBlockTyped, RetargetedState
  <2>5. CASE w.chain = arg[t].chain
    <3>1. chain_states'[w.chain] = after /\ after # None
      BY <1>1, <1>2, <2>2, <2>5, NoneAssumption
    <3>2. w.height <= s.current_height + 1 /\ w.height \in Nat
      BY <2>5 DEF GoodWork, s
    <3>3. s.current_height \in Nat
      BY <2>3 DEF ChainState
    <3>4. QED
      BY <1>2, <2>4, <3>1, <3>2, <3>3 DEF GoodWork
  <2>6. CASE w.chain # arg[t].chain
    <3>1. chain_states'[w.chain] = chain_states[w.chain]
      BY <1>1, <1>2, <2>2, <2>6
    <3>2. QED
      BY <3>1 DEF GoodWork
  <2>7. QED
    BY <2>5, <2>6
<1>4. CASE InitializeState(t)
  <2>1. chain_states'[w.chain] = chain_states[w.chain]
    BY <1>1, <1>2, <1>4, NoneAssumption DEF InitializeState
  <2>2. QED
    BY <2>1 DEF GoodWork
<1>5. CASE ~SubmitAccepted(t) /\ ~InitializeState(t)
  <2>1. chain_states' = chain_states
    BY <1>5 DEF Begin, Continue, MinerStep, InitializeChain, CreateWorkPackage,
       SubmitBlock, Report, InitializeKnown, InitializeMiner, WorkUnknown,
       WorkCopy, WorkPackage, SubmitRefused, SubmitRecord, ReportBoth, Reported,
       engineVars
  <2>2. QED
    BY <2>1 DEF GoodWork
<1>6. QED
  BY <1>3, <1>4, <1>5

\* Work of the same height and difficulty.
Descends(w, v) ==
  w.chain = v.chain /\ w.height = v.height /\ w.difficulty = v.difficulty

LEMMA GoodDescends ==
  ASSUME NEW w, NEW v, NEW chains, Descends(w, v), GoodWork(v, chains)
  PROVE  GoodWork(w, chains)
BY DEF Descends, GoodWork

\* What a task has in its hands after a step of its own it had before, or made
\* of what it had, or copied from the chain; or no package it came from is
\* known.
Known(t, w) == w.difficulty = 0 \/ \E v \in Holding(t) : Descends(w, v)

LEMMA EngineHands ==
  ASSUME ArgTypes, CallerTypes, pc \in [Tasks -> Points], NEW t \in Tasks,
         Begin(t) \/ Continue(t), ~WorkCopy(t),
         NEW w \in Holding(t)'
  PROVE  Known(t, w)
<1> USE DEF ArgTypes
<1>1. CASE Begin(t) /\ ~SubmitBlock(t)
  <2>1. /\ pc'[t] \in {"init_states", "work_states", "report_states", "report_stats"}
        /\ UNCHANGED <<minerVars, callerVars>>
    BY <1>1 DEF Begin, InitializeChain, CreateWorkPackage, Report, Call, Enter
  <2>2. w \in Holding(t)
    BY <2>1 DEF Holding, WorkAt, MiningPoints, minerVars, callerVars
  <2>3. QED
    BY <2>2 DEF Known, Descends
<1>2. CASE SubmitBlock(t)
  <2>1. PICK p \in {proof[t]} \cup ForeignProofs :
          /\ p # None
          /\ Call(t, "submit", p, "submit_states", "states", "write")
          /\ proof' = [proof EXCEPT ![t] = IF p = @ THEN None ELSE @]
    BY <1>2 DEF SubmitBlock
  <2>2. pc'[t] = "submit_states" /\ arg'[t] = p
    BY <2>1 DEF Call, Enter
  <2>3. proof'[t] \in {proof[t], None} /\ UNCHANGED <<current_work, package>>
    BY <1>2, <2>1 DEF SubmitBlock, minerVars, CallerTypes
  <2>4. w = p \/ w \in {package[t], proof[t], current_work} \ {None}
    BY <2>2, <2>3, WorkTable DEF Holding
  <2>5. p \in ForeignProofs => p.difficulty = 0
    BY ConsensusAssumption
  <2>6. p \in Holding(t) \/ p.difficulty = 0
    BY <2>1, <2>5 DEF Holding
  <2>7. QED
    BY <2>4, <2>6 DEF Holding, Known, Descends
<1>3. CASE WorkPackage(t)
  <2>1. PICK now \in Clock : package' = [package EXCEPT ![t] = PackageAt(arg[t], now)]
    BY <1>3 DEF WorkPackage
  <2>2. /\ pc[t] = "work_copied" /\ pc'[t] = "idle"
        /\ UNCHANGED <<current_work, proof>>
    BY <1>3 DEF WorkPackage, Return, minerVars
  <2>3. package'[t] = PackageAt(arg[t], now)
    BY <2>1 DEF CallerTypes
  <2>4. w = PackageAt(arg[t], now) \/ w \in {proof[t], current_work} \ {None}
    BY <2>2, <2>3 DEF Holding, WorkAt, MiningPoints
  <2>5. arg[t] \in Holding(t)
    BY <2>2, WorkTable DEF Holding
  <2>6. Descends(PackageAt(arg[t], now), arg[t])
    BY DEF PackageAt, Descends
  <2>7. QED
    BY <2>4, <2>5, <2>6 DEF Holding, Known, Descends
<1>4. CASE Continue(t) /\ ~WorkPackage(t)
  <2>1. /\ pc'[t] \in {"init_miners", "submit_history", "report_history", "idle"}
        /\ UNCHANGED <<minerVars, callerVars>>
    BY <1>4 DEF Continue, InitializeKnown, InitializeState, InitializeMiner,
       WorkUnknown, SubmitRefused, SubmitAccepted, SubmitRecord, ReportBoth,
       Reported, Await, Return
  <2>2. w \in Holding(t)
    BY <2>1 DEF Holding, WorkAt, MiningPoints, minerVars, callerVars
  <2>3. QED
    BY <2>2 DEF Known, Descends
<1>5. QED
  BY <1>1, <1>2, <1>3, <1>4

\* The miner's callers take work from each other: a step may also leave other
\* current work than before, which is work the task has had.
LEMMA MinerHands ==
  ASSUME ArgTypes, CallerTypes, pc \in [Tasks -> Points], NEW t \in Tasks,
         MinerBegin(t) \/ MinerContinue(t),
         NEW w \in Holding(t)'
  PROVE  Known(t, w)
<1> USE DEF ArgTypes
<1>a. ASSUME w \in Holding(t) PROVE Known(t, w)
  BY <1>a DEF Known, Descends
<1>1. CASE SetWork(t)
  <2>1. pc'[t] = "set_work" /\ arg'[t] = package[t] /\ package[t] # None
    BY <1>1 DEF SetWork, Call, Enter
  <2>2. package'[t] = None /\ UNCHANGED <<current_work, proof>>
    BY <1>1 DEF SetWork, minerVars, CallerTypes
  <2>3. QED
    BY <1>a, <2>1, <2>2, WorkTable DEF Holding
<1>2. CASE SetWorkStore(t)
  <2>1. pc[t] = "set_work" /\ pc'[t] = "idle" /\ current_work' = arg[t]
        /\ UNCHANGED <<package, proof>>
    BY <1>2 DEF SetWorkStore, Reached, Return, callerVars
  <2>2. arg[t] \in Holding(t)
    BY <2>1, WorkTable DEF Holding
  <2>3. w = arg[t] \/ w \in {package[t], proof[t]} \ {None}
    BY <2>1 DEF Holding, WorkAt, MiningPoints
  <2>4. QED
    BY <1>a, <2>2, <2>3 DEF Holding
<1>3. CASE GetCurrentWorkCopy(t)
  <2>1. pc'[t] = "idle" /\ package'[t] = current_work
        /\ UNCHANGED <<current_work, proof>>
    BY <1>3 DEF GetCurrentWorkCopy, Return, minerVars, CallerTypes
  <2>2. w \in Holding(t)
    BY <2>1 DEF Holding, WorkAt, MiningPoints
  <2>3. QED
    BY <1>a, <2>2
<1>4. CASE MineWork(t)
  <2>1. /\ pc'[t] = "mine_hash" /\ package[t] # None
        /\ arg'[t] = [work |-> package[t], since |-> 0, stale |-> 0, hash |-> None]
    BY <1>4 DEF MineWork, Keep, Move
  <2>2. arg'[t].work = package[t] /\ package'[t] = None
        /\ UNCHANGED <<current_work, proof>>
    BY <1>4, <2>1 DEF MineWork, minerVars, CallerTypes
  <2>3. WorkAt(pc'[t], arg'[t]) = {package[t]}
    BY <2>1, <2>2, WorkTable DEF MiningPoints
  <2>4. w \in Holding(t)
    BY <2>1, <2>2, <2>3 DEF Holding
  <2>5. QED
    BY <1>a, <2>4
<1>5. CASE TryNonce(t) \/ MineFound(t) \/ MineAsk(t) \/ MineUpdate(t) \/ MineCheck(t)
  <2>1. /\ pc[t] \in MiningPoints
        /\ \/ pc'[t] \in MiningPoints /\ arg'[t].work = arg[t].work
           \/ pc'[t] = "idle"
        /\ UNCHANGED <<current_work, package, proof>>
    <3>1. CASE TryNonce(t)
      <4>1. pc[t] = "mine_hash" /\ UNCHANGED <<current_work, package, proof>>
        BY <3>1 DEF TryNonce, callerVars
      <4>2. /\ pc'[t] \in {"mine_found", "mine_hash", "mine_check"}
            /\ arg'[t].work = arg[t].work
        BY <3>1, TryNonceSteps
      <4>3. QED
        BY <4>1, <4>2 DEF MiningPoints
    <3>2. CASE MineFound(t) \/ MineAsk(t) \/ MineUpdate(t)
      BY <3>2 DEF MineFound, MineAsk, MineUpdate, Reached, Await, Drop,
         MiningPoints, minerVars, callerVars
    <3>3. CASE MineCheck(t)
      <4>1. /\ pc[t] = "mine_check" /\ pc[t] \in MiningPoints
            /\ UNCHANGED <<current_work, package, proof>>
        BY <3>3 DEF MineCheck, Reached, minerVars, callerVars, MiningPoints
      <4>2. CASE Return(t)
        BY <4>1, <4>2 DEF Return
      <4>3. CASE Drop(t, "work", "mine_checked") /\ Keep(t, [arg[t] EXCEPT !.stale = 0])
        <5>1. pc'[t] = "mine_checked" /\ arg'[t] = [arg[t] EXCEPT !.stale = 0]
          BY <4>3 DEF Drop, Keep
        <5>2. arg[t] \in Mining
          BY <4>1, MiningArg
        <5>3. arg'[t].work = arg[t].work
          BY <5>1, <5>2 DEF Mining
        <5>4. QED
          BY <4>1, <5>1, <5>3 DEF MiningPoints
      <4>4. QED
        BY <3>3, <4>2, <4>3 DEF MineCheck
    <3>4. QED
      BY <1>5, <3>1, <3>2, <3>3
  <2>2. WorkAt(pc[t], arg[t]) = {arg[t].work}
    BY <2>1, WorkTable
  <2>3. WorkAt(pc'[t], arg'[t]) \subseteq {arg[t].work}
    <3>1. WorkAt("idle", arg'[t]) = {}
      BY DEF WorkAt, MiningPoints
    <3>2. QED
      BY <2>1, <3>1, WorkTable
  <2>4. w \in Holding(t)
    BY <2>1, <2>2, <2>3 DEF Holding
  <2>5. QED
    BY <1>a, <2>4
<1>6. CASE MineProof(t)
  <2>1. pc[t] = "mine_times" /\ pc[t] \in MiningPoints /\ pc'[t] = "idle"
        /\ UNCHANGED <<current_work, package>>
    BY <1>6 DEF MineProof, Reached, Return, MiningPoints
  <2> DEFINE p == [chain |-> arg[t].work.chain, height |-> arg[t].work.height,
                   hash |-> arg[t].hash, difficulty |-> arg[t].work.difficulty]
  <2>2. proof'[t] = p
    BY <1>6 DEF MineProof, CallerTypes
  <2>3. arg[t].work \in Holding(t)
    BY <2>1, WorkTable DEF Holding
  <2>4. Descends(p, arg[t].work)
    BY DEF Descends
  <2>5. WorkAt(pc'[t], arg'[t]) = {}
    BY <2>1 DEF WorkAt, MiningPoints
  <2> HIDE DEF p
  <2>6. w = p \/ w \in {package[t], current_work} \ {None}
    BY <2>1, <2>2, <2>5 DEF Holding
  <2>7. QED
    BY <1>a, <2>3, <2>4, <2>6 DEF Holding, Known
<1>7. CASE GetCurrentWork(t) \/ ResetStats(t) \/ ResetClear(t) \/ ResetCounter(t)
  <2>1. /\ pc'[t] \in {"take_work", "reset_stats", "reset_counter", "idle"}
        /\ UNCHANGED <<current_work, package, proof>>
    BY <1>7 DEF GetCurrentWork, ResetStats, ResetClear, ResetCounter, Call, Enter,
       Move, Return, minerVars, callerVars
  <2>2. w \in Holding(t)
    BY <2>1 DEF Holding, WorkAt, MiningPoints
  <2>3. QED
    BY <1>a, <2>2
<1>8. QED
  BY <1>1, <1>2, <1>3, <1>4, <1>5, <1>6, <1>7 DEF MinerBegin, MinerContinue

\* Other tasks' hands are not touched.
LEMMA OthersHands ==
  ASSUME ArgTypes, CallerTypes, pc \in [Tasks -> Points], NEW t \in Tasks,
         Begin(t) \/ Continue(t) \/ MinerBegin(t) \/ MinerContinue(t),
         NEW u \in Tasks \ {t}
  PROVE  package'[u] = package[u] /\ proof'[u] = proof[u]
<1>1. CASE Begin(t) \/ Continue(t)
  BY <1>1 DEF Begin, Continue, InitializeChain, CreateWorkPackage, SubmitBlock,
     Report, InitializeKnown, InitializeState, InitializeMiner, WorkUnknown,
     WorkCopy, WorkPackage, SubmitRefused, SubmitAccepted, SubmitRecord,
     ReportBoth, Reported, callerVars, CallerTypes
<1>2. CASE MinerBegin(t) \/ MinerContinue(t)
  BY <1>2 DEF MinerBegin, MinerContinue, SetWork, GetCurrentWork, MineWork,
     ResetStats, SetWorkStore, GetCurrentWorkCopy, TryNonce, MineFound, MineProof,
     MineCheck, MineAsk, MineUpdate, ResetClear, ResetCounter, callerVars,
     CallerTypes
<1>3. QED
  BY <1>1, <1>2

LEMMA NextKeepsWork == ASSUME Typed, WorkInv, [Next]_vars PROVE WorkInv'
<1>1. /\ ArgTypes /\ CallerTypes /\ EngineTypes /\ pc \in [Tasks -> Points]
  BY TypeOKIs DEF Typed, DataTypes, EngineLocks, LockInv
<1>2. CASE UNCHANGED vars
  BY <1>2 DEF vars, engineVars, minerVars, callerVars, taskVars, WorkInv, Holding
<1>3. ASSUME NEW t \in Tasks, Begin(t) \/ Continue(t) \/ MinerStep(t)
      PROVE  WorkInv'
  <2>1. Begin(t) \/ Continue(t) \/ MinerBegin(t) \/ MinerContinue(t)
    BY <1>3 DEF MinerStep
  <2>2. ASSUME NEW u \in Tasks, NEW w, Known(u, w), w.difficulty # 0
        PROVE  GoodWork(w, chain_states')
    <3>1. PICK v \in Holding(u) : Descends(w, v)
      BY <2>2 DEF Known
    <3>2. GoodWork(v, chain_states)
      BY <2>2, <3>1 DEF WorkInv, Descends
    <3>3. GoodWork(w, chain_states)
      BY <3>1, <3>2, GoodDescends
    <3>4. QED
      BY <1>3, <3>3, GoodStays
  <2>3. ASSUME NEW w \in Holding(t)', w.difficulty # 0
        PROVE  GoodWork(w, chain_states')
    <3>1. CASE ~WorkCopy(t)
      <4>1. Known(t, w)
        BY <1>1, <2>1, <2>3, <3>1, EngineHands, MinerHands
      <4>2. QED
        BY <2>2, <2>3, <4>1
    <3>2. CASE WorkCopy(t)
      <4>1. pc[t] = "work_states" /\ pc'[t] = "work_copied"
            /\ UNCHANGED <<chain_states, current_work, package, proof>>
        BY <1>1, <3>2 DEF WorkCopy, Reached, Drop, engineVars, minerVars, callerVars
      <4>2. arg[t] \in [chain : Chains, block : Nat]
        BY <1>1, <4>1, ArgTable DEF ArgTypes
      <4>3. chain_states[arg[t].chain] \in ChainState
        BY <1>1, <3>2, <4>2 DEF WorkCopy, EngineTypes
      <4>4. arg'[t] = [chain |-> arg[t].chain, block |-> arg[t].block,
                       height |-> chain_states[arg[t].chain].current_height + 1,
                       difficulty |-> chain_states[arg[t].chain].current_difficulty]
        BY <1>1, <3>2 DEF WorkCopy, Keep, ArgTypes
      <4>5. GoodWork(arg'[t], chain_states')
        BY <4>1, <4>2, <4>3, <4>4, NoneAssumption DEF GoodWork, ChainState
      <4>6. w = arg'[t] \/ w \in Holding(t)
        BY <4>1, WorkTable DEF Holding
      <4>7. w \in Holding(t) => Known(t, w)
        BY DEF Known, Descends
      <4>8. QED
        BY <2>2, <2>3, <4>5, <4>6, <4>7
    <3>3. QED
      BY <3>1, <3>2
  <2>4. ASSUME NEW u \in Tasks \ {t}, NEW w \in Holding(u)', w.difficulty # 0
        PROVE  GoodWork(w, chain_states')
    <3>1. /\ pc'[u] = pc[u] /\ arg'[u] = arg[u]
          /\ package'[u] = package[u] /\ proof'[u] = proof[u]
      BY <1>1, <2>1, OthersStay, OthersHands
    <3>2. w \in Holding(u) \/ w \in Holding(t)'
      BY <3>1 DEF Holding
    <3>3. w \in Holding(u) => Known(u, w)
      BY DEF Known, Descends
    <3>4. QED
      BY <2>2, <2>3, <2>4, <3>2, <3>3
  <2>5. \A w \in {current_work'} \ {None} : w \in Holding(t)'
    BY DEF Holding
  <2>6. QED
    BY <2>3, <2>4, <2>5 DEF WorkInv
<1>4. QED
  BY <1>2, <1>3 DEF Next

\* Chains are in a difficulty they were configured or adjusted to.
LEMMA InForce ==
  ASSUME ChainsInv, NEW c \in Chains, chain_states[c] # None
  PROVE  chain_states[c].current_difficulty \in Difficulties
BY DEF ChainsInv, WholeChains

\* Work stays good for its chain's next block, and a proof of it that a
\* validator passes is acceptable, until another block takes its height.
THEOREM WorkGoodUntilTakenHolds == Spec => []WorkGoodUntilTaken
<1>1. Init => WorkInv
  <2>1. SUFFICES ASSUME Init
                 PROVE  current_work = None /\ \A t \in Tasks : Holding(t) = {}
    BY DEF WorkInv
  <2>2. /\ pc = [t \in Tasks |-> "idle"] /\ current_work = None
        /\ package = [t \in Tasks |-> None] /\ proof = [t \in Tasks |-> None]
    BY <2>1 DEF Init, NoCalls, MinerInit
  <2>3. \A m : WorkAt("idle", m) = {}
    BY DEF WorkAt, MiningPoints
  <2>4. QED
    BY <2>2, <2>3 DEF Holding
<1>2. ASSUME Typed, ChainsInv, WorkInv, NEW w \in WorkUnderWay
      PROVE  /\ GoodWork(w, chain_states)
             /\ chain_states[w.chain].current_difficulty \in Difficulties
  <2>1. w # None /\ w.difficulty # 0
        /\ (w = current_work \/ \E t \in Tasks : w \in WorkOf(t) \cup {package[t], proof[t]})
    <3>1. /\ w # None /\ w.difficulty # 0
          /\ w \in (UNION {WorkOf(t) \cup {package[t], proof[t]} : t \in Tasks})
                     \cup {current_work}
      BY <1>2 DEF WorkUnderWay
    <3>2. QED
      BY <3>1
  <2>2. \A t \in Tasks : WorkOf(t) = WorkAt(pc[t], arg[t])
    BY DEF WorkOf, WorkAt
  <2>3. w = current_work \/ \E t \in Tasks : w \in Holding(t)
    BY <2>1, <2>2 DEF Holding
  <2>4. GoodWork(w, chain_states)
    BY <1>2, <2>1, <2>3 DEF WorkInv
  <2>5. QED
    BY <1>2, <2>4, InForce DEF GoodWork
<1>3. ASSUME NEW w, NEW s, NEW h \in Hashes, s # None, Extends(w, s),
             w.difficulty = s.current_difficulty, s.current_difficulty \in Difficulties,
             ValidProof(w, [chain |-> w.chain, height |-> w.height, hash |-> h])
      PROVE  Acceptable([chain |-> w.chain, height |-> w.height, hash |-> h], s)
  <2>1. WithinTarget(h, s.current_difficulty) /\ h \in Hash
    BY <1>3, MinerAssumption DEF ValidProof
  <2>2. Meets(h, s.current_difficulty)
    BY <1>3, <2>1, ValidMeets
  <2>3. QED
    BY <1>3, <2>2 DEF Acceptable, Extends
<1>4. Typed /\ ChainsInv /\ WorkInv => WorkGoodUntilTaken
  <2>1. SUFFICES ASSUME Typed, ChainsInv, WorkInv, NEW w \in WorkUnderWay
                 PROVE  LET s == chain_states[w.chain]
                        IN  /\ s # None /\ w.height <= s.current_height + 1
                            /\ Extends(w, s) =>
                                 /\ w.difficulty = s.current_difficulty
                                 /\ \A h \in Hashes :
                                      LET p == [chain |-> w.chain, height |-> w.height,
                                                hash |-> h]
                                      IN  ValidProof(w, p) => Acceptable(p, s)
    BY DEF WorkGoodUntilTaken
  <2> DEFINE s == chain_states[w.chain]
  <2>2. /\ s # None /\ w.height <= s.current_height + 1
        /\ Extends(w, s) => w.difficulty = s.current_difficulty
        /\ s.current_difficulty \in Difficulties
    BY <1>2, <2>1 DEF GoodWork, Extends
  <2> HIDE DEF s
  <2>3. ASSUME Extends(w, s), NEW h \in Hashes,
               ValidProof(w, [chain |-> w.chain, height |-> w.height, hash |-> h])
        PROVE  Acceptable([chain |-> w.chain, height |-> w.height, hash |-> h], s)
    BY <1>3, <2>2, <2>3
  <2>4. QED
    BY <2>2, <2>3 DEF s
<1>5. QED
  BY <1>1, <1>4, InitTyped, NextTyped, InitWhole, NextKeepsChains, NextKeepsWork,
     PTL DEF Spec

-----------------------------------------------------------------------------
(* The Stratum client.                                                     *)
(*                                                                         *)
(* One connection: what holds of its lines, and how a step may change it.  *)

\* subscribe comes before authorize, "true" only from an authorized
\* connection, and ids grow along the queue.
LinesInOrder(k) ==
  /\ k.authorized => \A i \in DOMAIN k.up : k.up[i].method # "subscribe"
  /\ \A i \in DOMAIN k.down : k.down[i].result = "true" => k.authorized
  /\ \A i, j \in DOMAIN k.up : i < j =>
       /\ k.up[i].method = "authorize" => k.up[j].method # "subscribe"
       /\ k.up[i].id < k.up[j].id

\* Nobody has asked for authorization on it.
Fresh(k) ==
  /\ ~k.authorized
  /\ \A i \in DOMAIN k.up : k.up[i].method # "authorize"

\* Lines are read, cut or lost, or the connection closes.
Shrinks(k, n) ==
  /\ n \in Conn /\ n.authorized = k.authorized
  /\ n.up \in {k.up, << >>}
  /\ \/ n.down \in {k.down, << >>}
     \/ /\ k.down # << >>
        /\ n.down \in {Tail(k.down), [k.down EXCEPT ![1] = Remainder]}

\* The client sends a request.
Grows(k, n, id, method) ==
  /\ n = [k EXCEPT !.up = Append(@, [id |-> id, method |-> method])]
  /\ id \in Nat \ {0} /\ method \in Methods
  /\ \A i \in DOMAIN k.up : k.up[i].id < id

\* The pool handles the first request.
Answers(k, n, result) ==
  /\ n \in Conn /\ k.up # << >> /\ n.up = Tail(k.up)
  /\ result \in Results
  /\ n.down \in {k.down,
                 Append(k.down, [id |-> Head(k.up).id, result |-> result])}
  /\ \/ Head(k.up).method = "subscribe" /\ ~n.authorized
     \/ Head(k.up).method = "authorize" /\ (k.authorized => n.authorized)
     \/ n.authorized = k.authorized
  /\ result = "true" => n.authorized

LEMMA ShrinksKeeps ==
  ASSUME NEW k \in Conn, NEW n, LinesInOrder(k), Shrinks(k, n)
  PROVE  /\ LinesInOrder(n) /\ (Fresh(k) => Fresh(n))
         /\ DOMAIN n.up \subseteq DOMAIN k.up
         /\ \A i \in DOMAIN n.up : n.up[i] = k.up[i]
         /\ \A i \in DOMAIN n.down :
              n.down[i] = Remainder \/ \E j \in DOMAIN k.down : n.down[i] = k.down[j]
<1>1. k.up \in Seq(Request) /\ k.down \in Seq(Answer)
  BY DEF Conn
<1>2. DOMAIN n.up \subseteq DOMAIN k.up
      /\ \A i \in DOMAIN n.up : n.up[i] = k.up[i]
  BY <1>1 DEF Shrinks
<1>3. \A i \in DOMAIN n.down :
        n.down[i] = Remainder \/ \E j \in DOMAIN k.down : n.down[i] = k.down[j]
  <2>1. CASE n.down \in {k.down, << >>}
    BY <2>1
  <2>2. CASE k.down # << >> /\ n.down = Tail(k.down)
    <3>1. /\ Len(n.down) = Len(k.down) - 1
          /\ \A i \in 1..Len(n.down) : n.down[i] = k.down[i + 1]
      BY <1>1, <2>2, HeadTailProperties
    <3>2. DOMAIN n.down = 1..Len(n.down) /\ DOMAIN k.down = 1..Len(k.down)
          /\ Len(k.down) \in Nat
      BY <1>1, <2>2
    <3>3. \A i \in DOMAIN n.down : i + 1 \in DOMAIN k.down
      BY <1>1, <3>1, <3>2
    <3>4. QED
      BY <3>1, <3>2, <3>3
  <2>3. CASE k.down # << >> /\ n.down = [k.down EXCEPT ![1] = Remainder]
    BY <1>1, <2>3
  <2>4. QED
    BY <2>1, <2>2, <2>3 DEF Shrinks
<1>4. QED
  BY <1>2, <1>3 DEF LinesInOrder, Fresh, Shrinks, Remainder

LEMMA GrowsKeeps ==
  ASSUME NEW k \in Conn, NEW n, NEW id, NEW method,
         LinesInOrder(k), Grows(k, n, id, method),
         method = "subscribe" => Fresh(k)
  PROVE  /\ n \in Conn /\ LinesInOrder(n)
         /\ n.authorized = k.authorized
         /\ Fresh(k) /\ method # "authorize" => Fresh(n)
         /\ n.down = k.down
         /\ \A i \in DOMAIN n.up :
              \/ i \in DOMAIN k.up /\ n.up[i] = k.up[i]
              \/ n.up[i] = [id |-> id, method |-> method]
<1>1. k.up \in Seq(Request) /\ [id |-> id, method |-> method] \in Request
  BY DEF Conn, Grows, Request
<1>2. /\ n.up = Append(k.up, [id |-> id, method |-> method])
      /\ n.down = k.down /\ n.authorized = k.authorized
      /\ n.open = k.open /\ n.reset = k.reset /\ n.subscribed = k.subscribed
      /\ n = [up |-> n.up, down |-> k.down, open |-> k.open,
              reset |-> k.reset, subscribed |-> k.subscribed,
              authorized |-> k.authorized]
  BY DEF Conn, Grows
<1>3. /\ n.up \in Seq(Request) /\ Len(k.up) \in Nat
      /\ DOMAIN n.up = 1..(Len(k.up) + 1) /\ DOMAIN k.up = 1..Len(k.up)
      /\ \A i \in DOMAIN k.up : n.up[i] = k.up[i]
      /\ n.up[Len(k.up) + 1] = [id |-> id, method |-> method]
  BY <1>1, <1>2
<1>4. n \in Conn
  BY <1>2, <1>3 DEF Conn
<1>5. \A i \in DOMAIN n.up : i \in DOMAIN k.up \/ i = Len(k.up) + 1
  BY <1>3
<1>6. LinesInOrder(n)
  <2>1. n.authorized => \A i \in DOMAIN n.up : n.up[i].method # "subscribe"
    BY <1>2, <1>3, <1>5 DEF LinesInOrder, Fresh
  <2>2. ASSUME NEW i \in DOMAIN n.up, NEW j \in DOMAIN n.up, i < j
        PROVE  /\ n.up[i].method = "authorize" => n.up[j].method # "subscribe"
               /\ n.up[i].id < n.up[j].id
    <3>1. i \in DOMAIN k.up
      BY <1>3, <2>2
    <3>2. CASE j \in DOMAIN k.up
      BY <1>3, <2>2, <3>1, <3>2 DEF LinesInOrder
    <3>3. CASE j = Len(k.up) + 1
      BY <1>3, <3>1, <3>3 DEF Fresh, Grows
    <3>4. QED
      BY <1>5, <3>2, <3>3
  <2>3. QED
    BY <1>2, <2>1, <2>2 DEF LinesInOrder
<1>7. QED
  BY <1>2, <1>3, <1>4, <1>5, <1>6 DEF Fresh

LEMMA AnswersKeeps ==
  ASSUME NEW k \in Conn, NEW n, NEW result, LinesInOrder(k), Answers(k, n, result)
  PROVE  /\ LinesInOrder(n) /\ (k.authorized => n.authorized)
         /\ Fresh(k) => Fresh(n)
         /\ Head(k.up) = k.up[1]
         /\ \A i \in DOMAIN n.up : /\ i + 1 \in DOMAIN k.up
                                   /\ n.up[i] = k.up[i + 1]
                                   /\ n.up[i].id # Head(k.up).id
         /\ \A i \in DOMAIN n.down :
              \/ \E j \in DOMAIN k.down : n.down[i] = k.down[j]
              \/ n.down[i] = [id |-> Head(k.up).id, result |-> result]
<1>1. k.up \in Seq(Request) /\ k.down \in Seq(Answer) /\ k.up # << >>
      /\ n.up = Tail(k.up) /\ Len(k.up) \in Nat
  BY DEF Conn, Answers
<1>2. /\ Head(k.up) = k.up[1] /\ 1 \in DOMAIN k.up
      /\ Len(n.up) = Len(k.up) - 1 /\ DOMAIN n.up = 1..Len(n.up)
      /\ DOMAIN k.up = 1..Len(k.up)
      /\ \A i \in 1..Len(n.up) : n.up[i] = k.up[i + 1]
  BY <1>1, HeadTailProperties
<1>3. \A i \in DOMAIN n.up : /\ i + 1 \in DOMAIN k.up /\ n.up[i] = k.up[i + 1]
                             /\ 1 < i + 1
  BY <1>1, <1>2
<1>4. \A i \in DOMAIN n.up : k.up[i + 1].id # k.up[1].id
  <2> SUFFICES ASSUME NEW i \in DOMAIN n.up PROVE k.up[i + 1].id # k.up[1].id
    OBVIOUS
  <2>1. k.up[1].id < k.up[i + 1].id
    BY <1>2, <1>3 DEF LinesInOrder
  <2>2. k.up[1] \in Request
    BY <1>1, <1>2
  <2>3. QED
    BY <2>1, <2>2 DEF Request
<1>5. \A i \in DOMAIN n.down :
        \/ \E j \in DOMAIN k.down : n.down[i] = k.down[j]
        \/ n.down[i] = [id |-> Head(k.up).id, result |-> result]
  <2> DEFINE line == [id |-> Head(k.up).id, result |-> result]
  <2>1. n.down = k.down \/ n.down = Append(k.down, line)
    BY DEF Answers
  <2>0. k.up[1] \in Request /\ result \in Results
    BY <1>1, <1>2 DEF Answers
  <2>2. line \in Answer
    BY <1>2, <2>0 DEF Request, Answer
  <2> HIDE DEF line
  <2>3. CASE n.down = Append(k.down, line)
    <3>1. /\ DOMAIN n.down = 1..(Len(k.down) + 1) /\ Len(k.down) \in Nat
          /\ DOMAIN k.down = 1..Len(k.down)
          /\ \A i \in DOMAIN k.down : n.down[i] = k.down[i]
          /\ n.down[Len(k.down) + 1] = line
      BY <1>1, <2>2, <2>3
    <3>2. QED
      BY <3>1 DEF line
  <2>4. QED
    BY <2>1, <2>3
<1>6. k.authorized => n.authorized
  BY <1>2 DEF LinesInOrder, Answers
<1>7. LinesInOrder(n)
  <2>1. ASSUME n.authorized, NEW i \in DOMAIN n.up
        PROVE  n.up[i].method # "subscribe"
    <3>1. i + 1 \in DOMAIN k.up /\ n.up[i] = k.up[i + 1] /\ 1 < i + 1
      BY <1>3
    <3>2. CASE Head(k.up).method = "authorize"
      BY <1>2, <3>1, <3>2 DEF LinesInOrder
    <3>3. CASE k.authorized
      BY <3>1, <3>3 DEF LinesInOrder
    <3>4. QED
      BY <2>1, <3>2, <3>3 DEF Answers
  <2>2. \A i \in DOMAIN n.down : n.down[i].result = "true" => n.authorized
    BY <1>5, <1>6 DEF LinesInOrder, Answers
  <2>3. ASSUME NEW i \in DOMAIN n.up, NEW j \in DOMAIN n.up, i < j
        PROVE  /\ n.up[i].method = "authorize" => n.up[j].method # "subscribe"
               /\ n.up[i].id < n.up[j].id
    <3>1. i + 1 < j + 1
      BY <1>2, <2>3
    <3>2. QED
      BY <1>3, <3>1 DEF LinesInOrder
  <2>4. QED
    BY <2>1, <2>2, <2>3 DEF LinesInOrder
<1>8. Fresh(k) => Fresh(n)
  <2>1. Fresh(k) => Head(k.up).method # "authorize"
    BY <1>2 DEF Fresh
  <2>2. Fresh(k) => ~n.authorized
    BY <2>1 DEF Fresh, Answers
  <2>3. QED
    BY <1>3, <2>2 DEF Fresh
<1>9. QED
  BY <1>2, <1>3, <1>4, <1>5, <1>6, <1>7, <1>8

-----------------------------------------------------------------------------
(* A step, as what it does to the connections.                             *)

Replaces(c, n) ==
  c \in DOMAIN conns /\ conns' = [conns EXCEPT ![c] = n]

\* No request is sent and none is handled.
Quiet ==
  /\ nextId' \in {nextId, nextId + 1} /\ log' = log
  /\ \/ conns' = conns
     \/ conns' = Append(conns, NewConn)
     \/ \E c \in DOMAIN conns : \E n \in Conn :
          Replaces(c, n) /\ Shrinks(conns[c], n)

\* A request is sent; only the handshake subscribes and authorizes.
Sends(method) ==
  /\ nextId' = nextId + 1 /\ log' = log
  /\ method = "subscribe" => miner = "sub_send"
  /\ method = "authorize" => miner = "auth_send"
  /\ miner = "share_send" /\ miner' = "share_read" => method = "submit"
  /\ writer \in DOMAIN conns /\ method \in Methods
  /\ Replaces(writer, [conns[writer] EXCEPT !.up =
                        Append(@, [id |-> nextId, method |-> method])])

\* A request is handled: a share goes to the log, with the answer it gets.
Handles(c) ==
  /\ UNCHANGED <<nextId, miner, reader, writer, state, waiting, accepted, rejected>>
  /\ c \in DOMAIN conns /\ conns[c].up # << >>
  /\ \E n \in Conn, result \in Results :
       /\ Replaces(c, n) /\ Answers(conns[c], n, result)
       /\ \/ /\ log' = log
             /\ Head(conns[c].up).method # "submit"
          \/ \E outcome \in Outcomes :
               /\ log' = log \cup {[id |-> Head(conns[c].up).id, as |-> outcome]}
               /\ (result = "false") = (outcome = "refused")

\* The types a step on the connections needs.
WorldTyped ==
  /\ conns \in Seq(Conn)
  /\ {reader, writer} \subseteq 0..Len(conns)
  /\ nextId \in Nat \ {0}
  /\ log \subseteq [id : Nat \ {0}, as : Outcomes]

LEMMA NewConnTyped == NewConn \in Conn /\ LinesInOrder(NewConn) /\ Fresh(NewConn)
BY DEF NewConn, Conn, LinesInOrder, Fresh

LEMMA SendIsOneOf ==
  ASSUME WorldTyped, NEW method \in Methods, SendOk(method), log' = log,
         method = "subscribe" => miner = "sub_send",
         method = "authorize" => miner = "auth_send",
         miner = "share_send" /\ miner' = "share_read" => method = "submit"
  PROVE  Quiet \/ Sends(method)
<1>1. writer \in DOMAIN conns /\ conns[writer] \in Conn
  BY DEF WorldTyped, SendOk
<1>2. CASE conns[writer].open
  BY <1>1, <1>2 DEF SendOk, Sends, Replaces
<1>3. CASE ~conns[writer].open
  <2> DEFINE n == [conns[writer] EXCEPT !.reset = TRUE]
  <2>1. n \in Conn /\ Shrinks(conns[writer], n)
    BY <1>1 DEF Conn, Shrinks
  <2>2. Replaces(writer, n)
    BY <1>1, <1>3 DEF SendOk, Replaces
  <2>3. QED
    BY <1>1, <2>1, <2>2 DEF Quiet, SendOk
<1>4. QED
  BY <1>2, <1>3

LEMMA ReadIsQuiet ==
  ASSUME WorldTyped, reader # 0, ReadLine \/ ReadFails, UNCHANGED <<nextId, log>>
  PROVE  Quiet
<1> DEFINE k == conns[reader]
           Less(down) == [k EXCEPT !.down = down]
<1>1. reader \in DOMAIN conns /\ k \in Conn
  BY DEF WorldTyped
<1>2. k.up \in Seq(Request) /\ k.down \in Seq(Answer) /\ Remainder \in Answer
  BY <1>1 DEF Conn, Remainder, Answer, Results
<1>3. CASE conns' = conns
  BY <1>3 DEF Quiet
<1>4. CASE Lines # << >> /\ conns' = [conns EXCEPT ![reader].down = Tail(@)]
  <2>1. Tail(k.down) \in Seq(Answer) /\ k.down # << >>
    BY <1>2, <1>4, HeadTailProperties DEF Lines
  <2>2. Less(Tail(k.down)) \in Conn /\ Shrinks(k, Less(Tail(k.down)))
    BY <1>1, <2>1 DEF Conn, Shrinks
  <2>3. Replaces(reader, Less(Tail(k.down)))
    BY <1>1, <1>4 DEF Replaces
  <2>4. QED
    BY <1>1, <2>2, <2>3 DEF Quiet
<1>5. CASE Lines # << >> /\ conns' = [conns EXCEPT ![reader].down[1] = Remainder]
  <2> DEFINE cut == [k.down EXCEPT ![1] = Remainder]
  <2>1. cut \in Seq(Answer) /\ k.down # << >>
    BY <1>2, <1>5 DEF Lines
  <2>2. Less(cut) \in Conn /\ Shrinks(k, Less(cut))
    BY <1>1, <2>1 DEF Conn, Shrinks
  <2>3. Replaces(reader, Less(cut))
    BY <1>1, <1>5 DEF Replaces
  <2>4. QED
    BY <1>1, <2>2, <2>3 DEF Quiet
<1>6. QED
  BY <1>3, <1>4, <1>5 DEF ReadLine, ReadFails

\* Before reading the thread has a connection.
ReadsSome == miner \in InUse => reader = writer /\ reader # 0

LEMMA HandlesOneOf ==
  ASSUME WorldTyped, NEW c \in DOMAIN conns, PoolHandles(c)
  PROVE  Handles(c)
<1> DEFINE k == conns[c]
           first == Head(k.up)
           n(result, subscribed, authorized) ==
             [k EXCEPT !.up = Tail(@),
                       !.down = IF c = reader
                         THEN Append(@, [id |-> first.id, result |-> result])
                         ELSE @,
                       !.subscribed = subscribed, !.authorized = authorized]
<1>1. conns[c] \in Conn /\ k.up # << >>
  BY DEF WorldTyped, PoolHandles
<1>2. k.up \in Seq(Request) /\ k.down \in Seq(Answer)
      /\ k.subscribed \in BOOLEAN /\ k.authorized \in BOOLEAN
  BY <1>1 DEF Conn
<1>3. Tail(k.up) \in Seq(Request) /\ first \in Request
  BY <1>1, <1>2, HeadTailProperties
<1>4. ASSUME NEW result \in Results, NEW subscribed \in BOOLEAN,
             NEW authorized \in BOOLEAN
      PROVE  LET r == n(result, subscribed, authorized) IN
             /\ r \in Conn /\ r.up = Tail(k.up) /\ r.authorized = authorized
             /\ r.down \in {k.down, Append(k.down, [id |-> first.id, result |-> result])}
  <2> DEFINE line == [id |-> first.id, result |-> result]
  <2>1. line \in Answer
    BY <1>3 DEF Request, Answer
  <2>2. Append(k.down, line) \in Seq(Answer)
    BY <1>2, <2>1
  <2>3. QED
    BY <1>1, <1>3, <2>2 DEF Conn
<1>5. ASSUME NEW result \in Results, NEW subscribed \in BOOLEAN,
             NEW authorized \in BOOLEAN,
             conns' = [conns EXCEPT
               ![c].up = Tail(@),
               ![c].down = IF c = reader
                 THEN Append(@, [id |-> first.id, result |-> result]) ELSE @,
               ![c].subscribed = subscribed, ![c].authorized = authorized]
      PROVE  Replaces(c, n(result, subscribed, authorized))
  BY <1>1, <1>5 DEF Replaces
<1> HIDE DEF n
<1>6. CASE HandleSubscribe(c)
  <2>1. Replaces(c, n("array", TRUE, FALSE))
    BY <1>5, <1>6 DEF HandleSubscribe, Reply, Knows, Results
  <2>2. "array" \in Results
    BY DEF Results
  <2>3. Answers(k, n("array", TRUE, FALSE), "array")
    BY <1>1, <1>4, <1>6, <2>2 DEF HandleSubscribe, Answers
  <2>4. n("array", TRUE, FALSE) \in Conn
    BY <1>4, <2>2
  <2>5. QED
    BY <1>1, <1>6, <2>1, <2>2, <2>3, <2>4
       DEF Handles, HandleSubscribe, PoolHandles, client, thread, verdicts
<1>7. CASE HandleAuthorize(c)
  <2>1. PICK result \in {"true", "false"}, subscribed \in BOOLEAN,
             authorized \in BOOLEAN :
          /\ Replaces(c, n(result, subscribed, authorized))
          /\ k.authorized => authorized
          /\ result = "true" => authorized
    <3>1. CASE k.subscribed
      <4>1. Replaces(c, n("true", TRUE, TRUE))
        BY <1>5, <1>7, <3>1 DEF HandleAuthorize, Reply, Knows, Results
      <4>2. QED
        BY <4>1
    <3>2. CASE ~k.subscribed
      <4>1. Replaces(c, n("false", k.subscribed, k.authorized))
        BY <1>2, <1>5, <1>7, <3>2 DEF HandleAuthorize, Reply, Results
      <4>2. QED
        BY <1>2, <4>1
    <3>3. QED
      BY <3>1, <3>2
  <2>2. result \in Results
    BY DEF Results
  <2>3. Answers(k, n(result, subscribed, authorized), result)
    BY <1>1, <1>4, <1>7, <2>1, <2>2 DEF HandleAuthorize, Answers
  <2>4. n(result, subscribed, authorized) \in Conn
    BY <1>4, <2>2
  <2>5. QED
    BY <1>1, <1>7, <2>1, <2>2, <2>3, <2>4
       DEF Handles, HandleAuthorize, PoolHandles, client, thread, verdicts
<1>8. CASE HandleSubmit(c)
  <2>1. PICK outcome \in Outcomes :
          /\ Reply(c, first.id, IF outcome = "refused" THEN "false" ELSE "null", k)
          /\ log' = log \cup {[id |-> first.id, as |-> outcome]}
    BY <1>8 DEF HandleSubmit, Outcomes
  <2> DEFINE result == IF outcome = "refused" THEN "false" ELSE "null"
             m == n(result, k.subscribed, k.authorized)
  <2>2. result \in Results /\ (result = "false") = (outcome = "refused")
        /\ result # "true"
    BY DEF Results
  <2>3. Replaces(c, m)
    BY <1>2, <1>5, <2>1, <2>2 DEF Reply
  <2>4. m \in Conn /\ m.up = Tail(k.up) /\ m.authorized = k.authorized
        /\ m.down \in {k.down, Append(k.down, [id |-> first.id, result |-> result])}
    BY <1>2, <1>4, <2>2
  <2> HIDE DEF result, m
  <2>5. Answers(k, m, result)
    BY <1>1, <2>2, <2>4 DEF Answers
  <2>6. QED
    BY <1>1, <2>1, <2>2, <2>3, <2>4, <2>5
       DEF Handles, PoolHandles, client, thread, verdicts
<1>9. CASE HandlePing(c)
  <2>1. "pong" \in Results
    BY DEF Results
  <2>2. Replaces(c, n("pong", k.subscribed, k.authorized))
    BY <1>2, <1>5, <1>9, <2>1 DEF HandlePing, Reply
  <2>3. Answers(k, n("pong", k.subscribed, k.authorized), "pong")
    BY <1>1, <1>2, <1>4, <2>1 DEF Answers
  <2>4. n("pong", k.subscribed, k.authorized) \in Conn
    BY <1>2, <1>4, <2>1
  <2>5. QED
    BY <1>1, <1>9, <2>1, <2>2, <2>3, <2>4
       DEF Handles, HandlePing, PoolHandles, client, thread, verdicts
<1>10. QED
  BY <1>6, <1>7, <1>8, <1>9 DEF PoolHandles

LEMMA ClosesIsQuiet ==
  ASSUME WorldTyped, NEW c \in DOMAIN conns, PoolCloses(c)
  PROVE  Quiet
<1>1. conns[c] \in Conn
  BY DEF WorldTyped
<1>2. PICK down \in {conns[c].down, << >>} :
        conns' = [conns EXCEPT ![c].open = FALSE, ![c].up = << >>, ![c].down = down]
  BY DEF PoolCloses
<1> DEFINE n == [conns[c] EXCEPT !.open = FALSE, !.up = << >>, !.down = down]
<1>3. n \in Conn /\ Shrinks(conns[c], n)
  <2>1. << >> \in Seq(Request) /\ << >> \in Seq(Answer)
    OBVIOUS
  <2>2. /\ n.up = << >> /\ n.down = down /\ n.authorized = conns[c].authorized
        /\ n.open = FALSE
    BY <1>1 DEF Conn
  <2>3. down \in Seq(Answer)
    BY <1>1, <1>2, <2>1 DEF Conn
  <2>4. n \in Conn
    BY <1>1, <2>1, <2>3 DEF Conn
  <2> HIDE DEF n
  <2>5. QED
    BY <1>2, <2>2, <2>4 DEF Shrinks
<1>4. Replaces(c, n)
  BY <1>1, <1>2 DEF Replaces
<1>5. QED
  BY <1>3, <1>4 DEF Quiet, PoolCloses, client

LEMMA DropIsQuiet == ASSUME WorldTyped, DropReader PROVE Quiet
<1>1. CASE reader = 0
  BY <1>1 DEF DropReader, Proceed, Quiet
<1>2. CASE reader # 0
  <2> DEFINE n == [conns[reader] EXCEPT !.down = << >>]
  <2>1. reader \in DOMAIN conns /\ conns[reader] \in Conn
    BY <1>2 DEF WorldTyped
  <2>2. n \in Conn /\ Shrinks(conns[reader], n)
    <3>1. << >> \in Seq(Answer)
      OBVIOUS
    <3>2. n \in Conn /\ n.up = conns[reader].up /\ n.down = << >>
          /\ n.authorized = conns[reader].authorized
      BY <2>1, <3>1 DEF Conn
    <3> HIDE DEF n
    <3>3. QED
      BY <3>2 DEF Shrinks
  <2>3. Replaces(reader, n)
    BY <1>2, <2>1 DEF DropReader, Replaces
  <2>4. QED
    BY <2>1, <2>2, <2>3 DEF DropReader, Proceed, Quiet
<1>3. QED
  BY <1>1, <1>2

\* Every step is of one of three kinds.
LEMMA StepKinds ==
  ASSUME WorldTyped, ReadsSome, ClientNext
  PROVE  Quiet \/ (\E method \in Methods : Sends(method))
               \/ (\E c \in DOMAIN conns : Handles(c))
<1>1. CASE \/ ConnectRefused \/ SetReader \/ SetWriter \/ SetConnected
           \/ HealthCheck \/ DropWriter \/ SetDisconnected \/ FindShare
           \/ KeepaliveCheck \/ KeepaliveFailed
  BY <1>1 DEF Quiet, ConnectRefused, ConnectFails, Proceed, SetReader, SetWriter,
              SetConnected, HealthCheck, DropWriter, SetDisconnected, FindShare,
              KeepaliveCheck, KeepaliveFailed
<1>2. CASE SubscribeSend \/ AuthorizeSend \/ ShareSend \/ KeepaliveSend
  <2>1. CASE SendFails
    <3>1. log' = log
      BY <1>2 DEF SubscribeSend, AuthorizeSend, HandshakeSend, ConnectFails,
                  ShareSend, KeepaliveSend, Proceed
    <3>2. QED
      BY <2>1, <3>1 DEF Quiet, SendFails
  <2>2. CASE ~SendFails
    <3>1. PICK method \in Methods :
            /\ SendOk(method) /\ log' = log
            /\ method = "subscribe" => miner = "sub_send"
            /\ method = "authorize" => miner = "auth_send"
            /\ miner = "share_send" /\ miner' = "share_read" => method = "submit"
      BY <1>2, <2>2 DEF SubscribeSend, AuthorizeSend, HandshakeSend, ShareSend,
                        KeepaliveSend, Proceed, Methods
    <3>2. QED
      BY <3>1, SendIsOneOf
  <2>3. QED
    BY <2>1, <2>2
<1>3. CASE \/ SubscribeFails \/ Subscribed \/ AuthorizeFails \/ Authorized
           \/ ShareFails \/ ShareSkips \/ ShareAnswered
  <2>1. (ReadLine \/ ReadFails) /\ UNCHANGED <<nextId, log>>
    BY <1>3 DEF SubscribeFails, Subscribed, AuthorizeFails, Authorized,
                HandshakeFails, HandshakeRefused, ConnectFails, ShareFails,
                ShareSkips, ShareAnswered, Proceed
  <2>2. miner \in InUse
    BY <1>3 DEF SubscribeFails, Subscribed, AuthorizeFails, Authorized,
                HandshakeFails, HandshakeRefused, ShareFails,
                ShareSkips, ShareAnswered, Proceed, InUse
  <2>3. QED
    BY <2>1, <2>2, ReadIsQuiet DEF ReadsSome
<1>4. QED
  BY <1>1, <1>2, <1>3, HandlesOneOf, ClosesIsQuiet, DropIsQuiet
     DEF ClientNext, MiningLoop, Connect, Reconnect, SubmitShare, Keepalive

-----------------------------------------------------------------------------
(* What each kind of step does to the lines of all connections.            *)

Paths == \A c \in DOMAIN conns : LinesInOrder(conns[c])

OldRequest(c, r) ==
  c \in DOMAIN conns /\ \E i \in DOMAIN conns[c].up : r = conns[c].up[i]
OldAnswer(c, a) ==
  c \in DOMAIN conns /\ \E i \in DOMAIN conns[c].down : a = conns[c].down[i]

\* No connection goes away or loses its authorization, and none gets one that
\* nobody has asked for.
ConnsStay ==
  /\ conns' \in Seq(Conn) /\ Len(conns) <= Len(conns')
  /\ \A c \in DOMAIN conns :
       /\ c \in DOMAIN conns'
       /\ conns[c].authorized => conns'[c].authorized
       /\ Fresh(conns[c]) /\ miner # "auth_send" => Fresh(conns'[c])
  /\ \A c \in DOMAIN conns' : c \notin DOMAIN conns => Fresh(conns'[c])

LEMMA ReplacedLines ==
  ASSUME WorldTyped, NEW c, NEW n \in Conn, Replaces(c, n)
  PROVE  /\ conns' \in Seq(Conn) /\ Len(conns') = Len(conns)
         /\ DOMAIN conns' = DOMAIN conns
         /\ conns[c] \in Conn /\ conns'[c] = n
         /\ \A d \in DOMAIN conns \ {c} : conns'[d] = conns[d]
BY DEF WorldTyped, Replaces

LEMMA QuietLines ==
  ASSUME WorldTyped, Paths, Quiet
  PROVE  /\ ConnsStay /\ Paths'
         /\ \A c \in DOMAIN conns' :
              /\ \A i \in DOMAIN conns'[c].up : OldRequest(c, conns'[c].up[i])
              /\ \A i \in DOMAIN conns'[c].down :
                   conns'[c].down[i] = Remainder \/ OldAnswer(c, conns'[c].down[i])
<1>1. CASE conns' = conns
  BY <1>1 DEF ConnsStay, Paths, OldRequest, OldAnswer, WorldTyped
<1>2. CASE conns' = Append(conns, NewConn)
  <2>1. /\ conns' \in Seq(Conn) /\ Len(conns') = Len(conns) + 1
        /\ Len(conns) \in Nat
        /\ DOMAIN conns = 1..Len(conns) /\ DOMAIN conns' = 1..(Len(conns) + 1)
        /\ \A c \in DOMAIN conns : conns'[c] = conns[c]
        /\ conns'[Len(conns) + 1] = NewConn
    BY <1>2, NewConnTyped DEF WorldTyped
  <2>2. NewConn.up = << >> /\ NewConn.down = << >>
    BY DEF NewConn
  <2>3. \A c \in DOMAIN conns' : c \in DOMAIN conns \/ conns'[c] = NewConn
    BY <2>1
  <2>4. ConnsStay
    BY <2>1, <2>3, NewConnTyped DEF ConnsStay
  <2>5. Paths'
    BY <2>1, <2>3, NewConnTyped DEF Paths
  <2>6. QED
    BY <2>1, <2>2, <2>3, <2>4, <2>5 DEF OldRequest, OldAnswer
<1>3. CASE \E c \in DOMAIN conns : \E n \in Conn :
             Replaces(c, n) /\ Shrinks(conns[c], n)
  <2>1. PICK c \in DOMAIN conns, n \in Conn :
          Replaces(c, n) /\ Shrinks(conns[c], n)
    BY <1>3
  <2>2. /\ conns' \in Seq(Conn) /\ Len(conns') = Len(conns) /\ Len(conns) \in Nat
        /\ DOMAIN conns' = DOMAIN conns /\ conns[c] \in Conn /\ conns'[c] = n
        /\ \A d \in DOMAIN conns \ {c} : conns'[d] = conns[d]
    BY <2>1, ReplacedLines DEF WorldTyped
  <2>3. /\ LinesInOrder(n) /\ (Fresh(conns[c]) => Fresh(n))
        /\ DOMAIN n.up \subseteq DOMAIN conns[c].up
        /\ \A i \in DOMAIN n.up : n.up[i] = conns[c].up[i]
        /\ \A i \in DOMAIN n.down :
             \/ n.down[i] = Remainder
             \/ \E j \in DOMAIN conns[c].down : n.down[i] = conns[c].down[j]
        /\ n.authorized = conns[c].authorized
    BY <2>1, <2>2, ShrinksKeeps DEF Paths, Shrinks
  <2>4. ConnsStay
    BY <2>2, <2>3 DEF ConnsStay
  <2>5. Paths'
    BY <2>2, <2>3 DEF Paths
  <2>6. QED
    BY <2>2, <2>3, <2>4, <2>5 DEF OldRequest, OldAnswer
<1>4. QED
  BY <1>1, <1>2, <1>3 DEF Quiet

\* The handshake subscribes on a connection that nobody has authorized.
SubscribesFresh == miner = "sub_send" => Fresh(conns[writer])

\* Every id that is under way, or in the log, was taken before.
IdsTaken ==
  /\ \A c \in DOMAIN conns :
       /\ \A i \in DOMAIN conns[c].up : conns[c].up[i].id < nextId
       /\ \A i \in DOMAIN conns[c].down : conns[c].down[i].id < nextId
  /\ \A l \in log : l.id < nextId

LEMMA SendLines ==
  ASSUME WorldTyped, Paths, IdsTaken, SubscribesFresh,
         NEW method \in Methods, Sends(method)
  PROVE  /\ ConnsStay /\ Paths'
         /\ \A c \in DOMAIN conns' :
              /\ c \in DOMAIN conns
              /\ \A i \in DOMAIN conns'[c].up :
                   \/ OldRequest(c, conns'[c].up[i])
                   \/ c = writer /\ conns'[c].up[i] = [id |-> nextId, method |-> method]
              /\ conns'[c].down = conns[c].down
<1> DEFINE n == [conns[writer] EXCEPT !.up =
                   Append(@, [id |-> nextId, method |-> method])]
<1>1. writer \in DOMAIN conns /\ conns[writer] \in Conn /\ LinesInOrder(conns[writer])
      /\ Replaces(writer, n) /\ Len(conns) \in Nat
  BY DEF WorldTyped, Sends, Paths
<1>2. Grows(conns[writer], n, nextId, method)
  BY <1>1 DEF Grows, IdsTaken, WorldTyped
<1> HIDE DEF n
<1>3. /\ n \in Conn /\ LinesInOrder(n) /\ n.authorized = conns[writer].authorized
      /\ Fresh(conns[writer]) /\ method # "authorize" => Fresh(n)
      /\ n.down = conns[writer].down
      /\ \A i \in DOMAIN n.up :
           \/ i \in DOMAIN conns[writer].up /\ n.up[i] = conns[writer].up[i]
           \/ n.up[i] = [id |-> nextId, method |-> method]
  <2>1. method = "subscribe" => Fresh(conns[writer])
    BY DEF Sends, SubscribesFresh
  <2>2. QED
    BY <1>1, <1>2, <2>1, GrowsKeeps
<1>4. /\ conns' \in Seq(Conn) /\ Len(conns') = Len(conns)
      /\ DOMAIN conns' = DOMAIN conns /\ conns'[writer] = n
      /\ \A d \in DOMAIN conns \ {writer} : conns'[d] = conns[d]
  BY <1>1, <1>3, ReplacedLines
<1>5. ConnsStay
  <2>1. method = "authorize" => miner = "auth_send"
    BY DEF Sends
  <2>2. QED
    BY <1>1, <1>3, <1>4, <2>1 DEF ConnsStay
<1>6. Paths'
  BY <1>3, <1>4 DEF Paths
<1>7. ASSUME NEW c \in DOMAIN conns'
      PROVE  /\ c \in DOMAIN conns
             /\ \A i \in DOMAIN conns'[c].up :
                  \/ OldRequest(c, conns'[c].up[i])
                  \/ c = writer /\ conns'[c].up[i] = [id |-> nextId, method |-> method]
             /\ conns'[c].down = conns[c].down
  BY <1>3, <1>4 DEF OldRequest
<1>8. QED
  BY <1>5, <1>6, <1>7

LEMMA HandleLines ==
  ASSUME WorldTyped, Paths, NEW c \in DOMAIN conns, Handles(c)
  PROVE  /\ ConnsStay /\ Paths'
         /\ \E i \in DOMAIN conns[c].up : Head(conns[c].up) = conns[c].up[i]
         /\ \A d \in DOMAIN conns' : \A i \in DOMAIN conns'[d].up :
              /\ OldRequest(d, conns'[d].up[i])
              /\ d = c => conns'[d].up[i].id # Head(conns[c].up).id
         /\ \E result \in Results :
              /\ \A d \in DOMAIN conns' : \A i \in DOMAIN conns'[d].down :
                   \/ OldAnswer(d, conns'[d].down[i])
                   \/ conns'[d].down[i] = [id |-> Head(conns[c].up).id, result |-> result]
              /\ \/ /\ log' = log
                    /\ Head(conns[c].up).method # "submit"
                 \/ \E outcome \in Outcomes :
                      /\ log' = log \cup {[id |-> Head(conns[c].up).id, as |-> outcome]}
                      /\ (result = "false") = (outcome = "refused")
<1>1. PICK n \in Conn, result \in Results :
        /\ Replaces(c, n) /\ Answers(conns[c], n, result)
        /\ \/ /\ log' = log
              /\ Head(conns[c].up).method # "submit"
           \/ \E outcome \in Outcomes :
                /\ log' = log \cup {[id |-> Head(conns[c].up).id, as |-> outcome]}
                /\ (result = "false") = (outcome = "refused")
  BY DEF Handles
<1>2. /\ conns' \in Seq(Conn) /\ Len(conns') = Len(conns) /\ Len(conns) \in Nat
      /\ DOMAIN conns' = DOMAIN conns /\ conns[c] \in Conn /\ conns'[c] = n
      /\ \A d \in DOMAIN conns \ {c} : conns'[d] = conns[d]
  BY <1>1, ReplacedLines DEF WorldTyped
<1>3. /\ LinesInOrder(n) /\ (conns[c].authorized => n.authorized)
      /\ Fresh(conns[c]) => Fresh(n)
      /\ Head(conns[c].up) = conns[c].up[1]
      /\ \A i \in DOMAIN n.up : /\ i + 1 \in DOMAIN conns[c].up
                                /\ n.up[i] = conns[c].up[i + 1]
                                /\ n.up[i].id # Head(conns[c].up).id
      /\ \A i \in DOMAIN n.down :
           \/ \E j \in DOMAIN conns[c].down : n.down[i] = conns[c].down[j]
           \/ n.down[i] = [id |-> Head(conns[c].up).id, result |-> result]
  BY <1>1, <1>2, AnswersKeeps DEF Paths
<1>4. 1 \in DOMAIN conns[c].up
  BY <1>2 DEF Handles, Conn
<1>5. ConnsStay
  BY <1>2, <1>3 DEF ConnsStay
<1>6. Paths'
  BY <1>2, <1>3 DEF Paths
<1>7. ASSUME NEW d \in DOMAIN conns', NEW i \in DOMAIN conns'[d].up
      PROVE  /\ OldRequest(d, conns'[d].up[i])
             /\ d = c => conns'[d].up[i].id # Head(conns[c].up).id
  <2>1. CASE d = c
    BY <1>2, <1>3, <2>1 DEF OldRequest
  <2>2. CASE d # c
    BY <1>2, <2>2 DEF OldRequest
  <2>3. QED
    BY <2>1, <2>2
<1>8. ASSUME NEW d \in DOMAIN conns', NEW i \in DOMAIN conns'[d].down
      PROVE  \/ OldAnswer(d, conns'[d].down[i])
             \/ conns'[d].down[i] = [id |-> Head(conns[c].up).id, result |-> result]
  <2>1. CASE d = c
    BY <1>2, <1>3, <2>1 DEF OldAnswer
  <2>2. CASE d # c
    BY <1>2, <2>2 DEF OldAnswer
  <2>3. QED
    BY <2>1, <2>2
<1>9. QED
  BY <1>1, <1>3, <1>4, <1>5, <1>6, <1>7, <1>8

-----------------------------------------------------------------------------
(* Ids: no two requests have the same, and an answer agrees with the log.  *)

IdsApart ==
  /\ IdsTaken
  /\ \A c, d \in DOMAIN conns : \A i \in DOMAIN conns[c].up :
       /\ c # d => \A j \in DOMAIN conns[d].up : conns[c].up[i].id # conns[d].up[j].id
       /\ \A j \in DOMAIN conns[d].down : conns[c].up[i].id # conns[d].down[j].id
  /\ \A c \in DOMAIN conns : \A l \in log :
       /\ \A i \in DOMAIN conns[c].up : conns[c].up[i].id # l.id
       /\ \A i \in DOMAIN conns[c].down : conns[c].down[i].id = l.id =>
            ((conns[c].down[i].result = "false") <=> (l.as = "refused"))

\* The same, of single requests and answers.
LEMMA Apart ==
  ASSUME IdsApart, WorldTyped
  PROVE  /\ \A c, r : OldRequest(c, r) =>
              r \in Request /\ r.id < nextId /\ \A l \in log : r.id # l.id
         /\ \A c, a : OldAnswer(c, a) =>
              /\ a \in Answer /\ a.id < nextId
              /\ \A l \in log : a.id = l.id => ((a.result = "false") <=> (l.as = "refused"))
         /\ \A c, d, r, q : OldRequest(c, r) /\ OldRequest(d, q) /\ c # d => r.id # q.id
         /\ \A c, d, r, a : OldRequest(c, r) /\ OldAnswer(d, a) => r.id # a.id
<1>1. \A c \in DOMAIN conns : /\ conns[c].up \in Seq(Request)
                              /\ conns[c].down \in Seq(Answer)
  <2>1. \A c \in DOMAIN conns : conns[c] \in Conn
    BY DEF WorldTyped
  <2>2. QED
    BY <2>1 DEF Conn
<1>2. \A c, r : OldRequest(c, r) =>
        r \in Request /\ r.id < nextId /\ \A l \in log : r.id # l.id
  BY <1>1 DEF OldRequest, IdsApart, IdsTaken
<1>3. \A c, a : OldAnswer(c, a) =>
        /\ a \in Answer /\ a.id < nextId
        /\ \A l \in log : a.id = l.id => ((a.result = "false") <=> (l.as = "refused"))
  BY <1>1 DEF OldAnswer, IdsApart, IdsTaken
<1>4. \A c, d, r, q : OldRequest(c, r) /\ OldRequest(d, q) /\ c # d => r.id # q.id
  BY DEF OldRequest, IdsApart
<1>5. \A c, d, r, a : OldRequest(c, r) /\ OldAnswer(d, a) => r.id # a.id
  BY DEF OldRequest, OldAnswer, IdsApart
<1>6. QED
  BY <1>2, <1>3, <1>4, <1>5

\* It is enough to look at requests and answers one by one.
LEMMA ApartNext ==
  ASSUME \A c \in DOMAIN conns' : \A i \in DOMAIN conns'[c].up :
           /\ conns'[c].up[i].id < nextId'
           /\ \A l \in log' : conns'[c].up[i].id # l.id,
         \A c \in DOMAIN conns' : \A i \in DOMAIN conns'[c].down :
           /\ conns'[c].down[i].id < nextId'
           /\ \A l \in log' : conns'[c].down[i].id = l.id =>
                ((conns'[c].down[i].result = "false") <=> (l.as = "refused")),
         \A c, d \in DOMAIN conns' : \A i \in DOMAIN conns'[c].up :
           /\ c # d => \A j \in DOMAIN conns'[d].up :
                conns'[c].up[i].id # conns'[d].up[j].id
           /\ \A j \in DOMAIN conns'[d].down :
                conns'[c].up[i].id # conns'[d].down[j].id,
         \A l \in log' : l.id < nextId'
  PROVE  IdsApart'
BY DEF IdsApart, IdsTaken

LEMMA QuietApart ==
  ASSUME WorldTyped, Paths, IdsApart, Quiet
  PROVE  IdsApart'
<1>1. \A c \in DOMAIN conns' :
        /\ \A i \in DOMAIN conns'[c].up : OldRequest(c, conns'[c].up[i])
        /\ \A i \in DOMAIN conns'[c].down :
             conns'[c].down[i] = Remainder \/ OldAnswer(c, conns'[c].down[i])
  BY QuietLines
<1>2. /\ nextId' \in {nextId, nextId + 1} /\ log' = log /\ nextId \in Nat \ {0}
      /\ \A l \in log : l.id \in Nat \ {0} /\ l.id < nextId
  BY DEF Quiet, WorldTyped, IdsApart, IdsTaken
<1>3. Remainder.id = 0
  BY DEF Remainder
<1>4. \A c \in DOMAIN conns' : \A i \in DOMAIN conns'[c].up :
        /\ conns'[c].up[i].id < nextId' /\ conns'[c].up[i].id \in Nat \ {0}
        /\ \A l \in log' : conns'[c].up[i].id # l.id
  BY <1>1, <1>2, Apart DEF Request
<1>5. \A c \in DOMAIN conns' : \A i \in DOMAIN conns'[c].down :
        /\ conns'[c].down[i].id < nextId'
        /\ \A l \in log' : conns'[c].down[i].id = l.id =>
             ((conns'[c].down[i].result = "false") <=> (l.as = "refused"))
  BY <1>1, <1>2, <1>3, Apart DEF Answer
<1>6. \A c, d \in DOMAIN conns' : \A i \in DOMAIN conns'[c].up :
        /\ c # d => \A j \in DOMAIN conns'[d].up :
             conns'[c].up[i].id # conns'[d].up[j].id
        /\ \A j \in DOMAIN conns'[d].down :
             conns'[c].up[i].id # conns'[d].down[j].id
  BY <1>1, <1>3, <1>4, Apart
<1>7. QED
  BY <1>2, <1>4, <1>5, <1>6, ApartNext

LEMMA SendApart ==
  ASSUME WorldTyped, Paths, IdsApart, SubscribesFresh,
         NEW method \in Methods, Sends(method)
  PROVE  IdsApart'
<1> DEFINE new == [id |-> nextId, method |-> method]
<1>1. \A c \in DOMAIN conns' :
        /\ c \in DOMAIN conns
        /\ \A i \in DOMAIN conns'[c].up :
             OldRequest(c, conns'[c].up[i]) \/ (c = writer /\ conns'[c].up[i] = new)
        /\ conns'[c].down = conns[c].down
  BY SendLines DEF IdsApart
<1>2. /\ nextId' = nextId + 1 /\ log' = log /\ nextId \in Nat \ {0}
      /\ \A l \in log : l.id \in Nat \ {0} /\ l.id < nextId
  BY DEF Sends, WorldTyped, IdsApart, IdsTaken
<1>3. new.id = nextId
  OBVIOUS
<1> HIDE DEF new
<1>4. \A c \in DOMAIN conns' : \A i \in DOMAIN conns'[c].down :
        OldAnswer(c, conns'[c].down[i])
  BY <1>1 DEF OldAnswer
<1>5. \A c \in DOMAIN conns' : \A i \in DOMAIN conns'[c].up :
        /\ conns'[c].up[i].id < nextId'
        /\ \A l \in log' : conns'[c].up[i].id # l.id
  BY <1>1, <1>2, <1>3, Apart DEF Request
<1>6. \A c \in DOMAIN conns' : \A i \in DOMAIN conns'[c].down :
        /\ conns'[c].down[i].id < nextId /\ conns'[c].down[i].id \in Nat
        /\ \A l \in log' : conns'[c].down[i].id = l.id =>
             ((conns'[c].down[i].result = "false") <=> (l.as = "refused"))
  BY <1>2, <1>4, Apart DEF Answer
<1>7. \A c, d \in DOMAIN conns' : \A i \in DOMAIN conns'[c].up :
        /\ c # d => \A j \in DOMAIN conns'[d].up :
             conns'[c].up[i].id # conns'[d].up[j].id
        /\ \A j \in DOMAIN conns'[d].down :
             conns'[c].up[i].id # conns'[d].down[j].id
  <2> SUFFICES ASSUME NEW c \in DOMAIN conns', NEW d \in DOMAIN conns',
                      NEW i \in DOMAIN conns'[c].up
               PROVE  /\ c # d => \A j \in DOMAIN conns'[d].up :
                           conns'[c].up[i].id # conns'[d].up[j].id
                      /\ \A j \in DOMAIN conns'[d].down :
                           conns'[c].up[i].id # conns'[d].down[j].id
    OBVIOUS
  <2>1. CASE c = writer /\ conns'[c].up[i] = new
    BY <1>1, <1>2, <1>3, <1>6, <2>1, Apart DEF Request
  <2>2. CASE OldRequest(c, conns'[c].up[i])
    BY <1>1, <1>2, <1>3, <1>4, <2>2, Apart DEF Request
  <2>3. QED
    BY <1>1, <2>1, <2>2
<1>8. QED
  BY <1>2, <1>5, <1>6, <1>7, ApartNext

LEMMA HandleApart ==
  ASSUME WorldTyped, Paths, IdsApart, NEW c \in DOMAIN conns, Handles(c)
  PROVE  IdsApart'
<1> DEFINE first == Head(conns[c].up)
<1>1. OldRequest(c, first)
  BY HandleLines DEF OldRequest
<1>2. \A d \in DOMAIN conns' : \A i \in DOMAIN conns'[d].up :
        /\ OldRequest(d, conns'[d].up[i])
        /\ d = c => conns'[d].up[i].id # first.id
  BY HandleLines
<1>3. PICK result \in Results :
        /\ \A d \in DOMAIN conns' : \A i \in DOMAIN conns'[d].down :
             \/ OldAnswer(d, conns'[d].down[i])
             \/ conns'[d].down[i] = [id |-> first.id, result |-> result]
        /\ \/ log' = log
           \/ \E outcome \in Outcomes :
                /\ log' = log \cup {[id |-> first.id, as |-> outcome]}
                /\ (result = "false") = (outcome = "refused")
  BY HandleLines
<1>4. nextId' = nextId /\ nextId \in Nat
  BY DEF Handles, WorldTyped
<1>5. /\ first.id \in Nat /\ first.id < nextId
      /\ \A l \in log : /\ first.id # l.id
                        /\ l.id < nextId /\ l.id \in Nat
  BY <1>1, Apart DEF IdsApart, IdsTaken, WorldTyped, Request
<1> DEFINE answer == [id |-> first.id, result |-> result]
<1>6. answer.id = first.id /\ answer.result = result
  OBVIOUS
<1>7. \A l \in log' :
        /\ l \in log \/ l.id = first.id
        /\ l.id = first.id => ((result = "false") <=> (l.as = "refused"))
  BY <1>3, <1>5
<1> HIDE DEF first, answer
<1>8. \A d \in DOMAIN conns' : \A i \in DOMAIN conns'[d].up :
        conns'[d].up[i].id # first.id
  BY <1>1, <1>2, Apart
<1>9. \A d \in DOMAIN conns' : \A i \in DOMAIN conns'[d].down :
        OldAnswer(d, conns'[d].down[i]) \/ conns'[d].down[i] = answer
  BY <1>3 DEF answer
<1>10. \A d \in DOMAIN conns' : \A i \in DOMAIN conns'[d].up :
        /\ conns'[d].up[i].id < nextId'
        /\ \A l \in log' : conns'[d].up[i].id # l.id
  BY <1>2, <1>4, <1>7, <1>8, Apart DEF Request
<1>11. \A d \in DOMAIN conns' : \A i \in DOMAIN conns'[d].down :
        /\ conns'[d].down[i].id < nextId'
        /\ \A l \in log' : conns'[d].down[i].id = l.id =>
             ((conns'[d].down[i].result = "false") <=> (l.as = "refused"))
  <2> SUFFICES ASSUME NEW d \in DOMAIN conns', NEW i \in DOMAIN conns'[d].down
               PROVE  /\ conns'[d].down[i].id < nextId'
                      /\ \A l \in log' : conns'[d].down[i].id = l.id =>
                           ((conns'[d].down[i].result = "false") <=> (l.as = "refused"))
    OBVIOUS
  <2>1. CASE conns'[d].down[i] = answer
    BY <1>4, <1>5, <1>6, <1>7, <2>1
  <2>2. CASE OldAnswer(d, conns'[d].down[i])
    <3>1. conns'[d].down[i].id # first.id
      BY <1>1, <2>2, Apart
    <3>2. QED
      BY <1>4, <1>7, <2>2, <3>1, Apart DEF Answer
  <2>3. QED
    BY <1>9, <2>1, <2>2
<1>12. \A d, e \in DOMAIN conns' : \A i \in DOMAIN conns'[d].up :
        /\ d # e => \A j \in DOMAIN conns'[e].up :
             conns'[d].up[i].id # conns'[e].up[j].id
        /\ \A j \in DOMAIN conns'[e].down :
             conns'[d].up[i].id # conns'[e].down[j].id
  BY <1>2, <1>6, <1>8, <1>9, Apart
<1>13. \A l \in log' : l.id < nextId'
  BY <1>4, <1>5, <1>7
<1>14. QED
  BY <1>10, <1>11, <1>12, <1>13, ApartNext

LEMMA StepApart ==
  ASSUME WorldTyped, Paths, IdsApart, ReadsSome, SubscribesFresh, ClientNext
  PROVE  IdsApart'
BY StepKinds, QuietApart, SendApart, HandleApart

-----------------------------------------------------------------------------
(* The share that is waited for, and what was said of those before.        *)

\* Its request is a submission, and when it is answered it is in the log.
WaitOk ==
  miner = "share_read" =>
    /\ waiting \in Nat \ {0} /\ waiting < nextId
    /\ \A c, r : OldRequest(c, r) /\ r.id = waiting => r.method = "submit"
    /\ \A c, a : OldAnswer(c, a) /\ a.id = waiting => \E l \in log : l.id = waiting

\* The thread begins to wait when it sends the share.
Waits ==
  miner' = "share_read" =>
    \/ miner = "share_read" /\ waiting' = waiting
    \/ miner = "share_send" /\ waiting' = nextId /\ nextId' = nextId + 1

LEMMA WaitStep ==
  ASSUME ClientNext
  PROVE  Waits
<1>1. CASE \E c \in DOMAIN conns : PoolHandles(c) \/ PoolCloses(c)
  BY <1>1 DEF PoolHandles, PoolCloses, thread, Waits
<1>2. CASE Connect
  BY <1>2 DEF Connect, SetReader, SetWriter, SetConnected, SubscribeSend,
              SubscribeFails, Subscribed, AuthorizeSend, AuthorizeFails, Authorized,
              HandshakeSend, HandshakeFails, HandshakeRefused, ConnectFails,
              Proceed, Waits
<1>3. CASE HealthCheck \/ Reconnect \/ ConnectRefused \/ FindShare \/ Keepalive
  BY <1>3 DEF HealthCheck, Reconnect, DropReader, DropWriter, SetDisconnected,
              ConnectRefused, FindShare, Keepalive, KeepaliveCheck, KeepaliveSend,
              KeepaliveFailed, ConnectFails, Proceed, thread, Waits
<1>4. CASE SubmitShare
  BY <1>4 DEF SubmitShare, ShareSend, SendOk, ShareFails, ShareSkips,
              ShareAnswered, Proceed, thread, Waits
<1>5. QED
  BY <1>1, <1>2, <1>3, <1>4 DEF ClientNext, MiningLoop

LEMMA QuietWait ==
  ASSUME WorldTyped, Paths, IdsApart, WaitOk, Waits, Quiet
  PROVE  WaitOk'
<1> SUFFICES ASSUME miner' = "share_read"
             PROVE  /\ waiting' \in Nat \ {0} /\ waiting' < nextId'
                    /\ \A c, r : OldRequest(c, r)' /\ r.id = waiting' => r.method = "submit"
                    /\ \A c, a : OldAnswer(c, a)' /\ a.id = waiting' =>
                         \E l \in log' : l.id = waiting'
  BY DEF WaitOk
<1>1. /\ \A c, r : OldRequest(c, r)' => OldRequest(c, r)
      /\ \A c, a : OldAnswer(c, a)' => a = Remainder \/ OldAnswer(c, a)
  BY QuietLines DEF OldRequest, OldAnswer
<1>2. /\ \A c, r : OldRequest(c, r) => r.id # nextId
      /\ \A c, a : OldAnswer(c, a) => a.id # nextId
  BY Apart DEF WorldTyped, Request, Answer
<1>3. nextId \in Nat \ {0} /\ nextId' \in {nextId, nextId + 1} /\ log' = log
      /\ Remainder.id = 0
  BY DEF WorldTyped, Quiet, Remainder
<1>4. CASE miner = "share_read" /\ waiting' = waiting
  BY <1>1, <1>3, <1>4 DEF WaitOk
<1>5. CASE waiting' = nextId /\ nextId' = nextId + 1
  BY <1>1, <1>2, <1>3, <1>5
<1>6. QED
  BY <1>4, <1>5 DEF Waits

LEMMA SendWait ==
  ASSUME WorldTyped, Paths, IdsApart, SubscribesFresh, WaitOk, Waits,
         NEW method \in Methods, Sends(method)
  PROVE  WaitOk'
<1> SUFFICES ASSUME miner' = "share_read"
             PROVE  /\ waiting' \in Nat \ {0} /\ waiting' < nextId'
                    /\ \A c, r : OldRequest(c, r)' /\ r.id = waiting' => r.method = "submit"
                    /\ \A c, a : OldAnswer(c, a)' /\ a.id = waiting' =>
                         \E l \in log' : l.id = waiting'
  BY DEF WaitOk
<1> DEFINE new == [id |-> nextId, method |-> method]
<1>1. /\ \A c, r : OldRequest(c, r)' => OldRequest(c, r) \/ r = new
      /\ \A c, a : OldAnswer(c, a)' => OldAnswer(c, a)
  <2>1. IdsTaken
    BY DEF IdsApart
  <2>2. \A c \in DOMAIN conns' :
          /\ c \in DOMAIN conns
          /\ \A i \in DOMAIN conns'[c].up :
               OldRequest(c, conns'[c].up[i]) \/ conns'[c].up[i] = new
          /\ conns'[c].down = conns[c].down
    BY <2>1, SendLines
  <2> HIDE DEF new
  <2>3. \A c, r : OldRequest(c, r)' => OldRequest(c, r) \/ r = new
    BY <2>2 DEF OldRequest
  <2>4. \A c, a : OldAnswer(c, a)' => OldAnswer(c, a)
    BY <2>2 DEF OldAnswer
  <2>5. QED
    BY <2>3, <2>4
<1>2. /\ \A c, r : OldRequest(c, r) => r.id # nextId
      /\ \A c, a : OldAnswer(c, a) => a.id # nextId
  BY Apart DEF WorldTyped, Request, Answer
<1>3. nextId \in Nat \ {0} /\ nextId' = nextId + 1 /\ log' = log
      /\ new.id = nextId /\ new.method = method
  BY DEF WorldTyped, Sends
<1> HIDE DEF new
<1>4. CASE miner = "share_read" /\ waiting' = waiting
  <2>1. waiting \in Nat /\ waiting # nextId /\ waiting < nextId + 1
    BY <1>3, <1>4 DEF WaitOk
  <2>2. QED
    BY <1>1, <1>3, <1>4, <2>1 DEF WaitOk
<1>5. CASE miner = "share_send" /\ waiting' = nextId
  <2>1. method = "submit"
    BY <1>5 DEF Sends
  <2>2. QED
    BY <1>1, <1>2, <1>3, <1>5, <2>1
<1>6. QED
  BY <1>4, <1>5 DEF Waits

LEMMA HandleWait ==
  ASSUME WorldTyped, Paths, IdsApart, WaitOk,
         NEW c \in DOMAIN conns, Handles(c)
  PROVE  WaitOk'
<1> SUFFICES ASSUME miner' = "share_read"
             PROVE  /\ waiting' \in Nat \ {0} /\ waiting' < nextId'
                    /\ \A d, r : OldRequest(d, r)' /\ r.id = waiting' => r.method = "submit"
                    /\ \A d, a : OldAnswer(d, a)' /\ a.id = waiting' =>
                         \E l \in log' : l.id = waiting'
  BY DEF WaitOk
<1> DEFINE first == Head(conns[c].up)
<1>1. miner = "share_read" /\ waiting' = waiting /\ nextId' = nextId
  BY DEF Handles
<1>2. OldRequest(c, first)
  BY HandleLines DEF OldRequest
<1>3. \A d, r : OldRequest(d, r)' => OldRequest(d, r)
  BY HandleLines DEF OldRequest
<1>4. /\ \A d, a : OldAnswer(d, a)' => OldAnswer(d, a) \/ a.id = first.id
      /\ log \subseteq log'
      /\ first.method = "submit" => \E l \in log' : l.id = first.id
  <2>1. PICK result \in Results :
          /\ \A d \in DOMAIN conns' : \A i \in DOMAIN conns'[d].down :
               \/ OldAnswer(d, conns'[d].down[i])
               \/ conns'[d].down[i] = [id |-> first.id, result |-> result]
          /\ \/ log' = log /\ first.method # "submit"
             \/ \E outcome \in Outcomes :
                  log' = log \cup {[id |-> first.id, as |-> outcome]}
    BY HandleLines
  <2> HIDE DEF first
  <2>2. \A d, a : OldAnswer(d, a)' => OldAnswer(d, a) \/ a.id = first.id
    BY <2>1 DEF OldAnswer
  <2>3. log \subseteq log' /\ (first.method = "submit" => \E l \in log' : l.id = first.id)
    <3>1. CASE log' = log /\ first.method # "submit"
      BY <3>1
    <3>2. CASE \E outcome \in Outcomes :
                 log' = log \cup {[id |-> first.id, as |-> outcome]}
      <4>1. PICK outcome : log' = log \cup {[id |-> first.id, as |-> outcome]}
        BY <3>2
      <4>2. [id |-> first.id, as |-> outcome] \in log'
        BY <4>1
      <4>3. QED
        BY <4>1, <4>2
    <3>3. QED
      BY <2>1, <3>1, <3>2
  <2>4. QED
    BY <2>2, <2>3
<1> HIDE DEF first
<1>5. \A d, a : OldAnswer(d, a)' /\ a.id = waiting => \E l \in log' : l.id = waiting
  BY <1>1, <1>2, <1>4 DEF WaitOk
<1>6. QED
  BY <1>1, <1>3, <1>5 DEF WaitOk

LEMMA StepWait ==
  ASSUME WorldTyped, Paths, IdsApart, ReadsSome, SubscribesFresh, WaitOk, ClientNext
  PROVE  WaitOk'
BY StepKinds, WaitStep, QuietWait, SendWait, HandleWait

\* What was called accepted was counted, what was called rejected was not.
VerdictOk ==
  /\ \A id \in accepted : \E l \in log : l.id = id /\ l.as # "refused"
  /\ \A id \in rejected : /\ \E l \in log : l.id = id
                          /\ \A l \in log : l.id = id => l.as = "refused"

LEMMA VerdictStep ==
  ASSUME ClientNext
  PROVE  ShareAnswered \/ UNCHANGED <<accepted, rejected>>
<1>1. CASE \E c \in DOMAIN conns : PoolHandles(c) \/ PoolCloses(c)
  BY <1>1 DEF PoolHandles, PoolCloses, verdicts
<1>2. CASE Connect
  BY <1>2 DEF Connect, SetReader, SetWriter, SetConnected, SubscribeSend,
              SubscribeFails, Subscribed, AuthorizeSend, AuthorizeFails, Authorized,
              HandshakeSend, HandshakeFails, HandshakeRefused, ConnectFails, verdicts
<1>3. CASE HealthCheck \/ Reconnect \/ ConnectRefused \/ FindShare \/ Keepalive
  BY <1>3 DEF HealthCheck, Reconnect, DropReader, DropWriter, SetDisconnected,
              ConnectRefused, FindShare, Keepalive, KeepaliveCheck, KeepaliveSend,
              KeepaliveFailed, ConnectFails, verdicts
<1>4. CASE SubmitShare
  BY <1>4 DEF SubmitShare, ShareSend, ShareFails, ShareSkips, verdicts
<1>5. QED
  BY <1>1, <1>2, <1>3, <1>4 DEF ClientNext, MiningLoop

\* The answer that is taken was made with the entry of the log.
LEMMA AnsweredVerdict ==
  ASSUME WorldTyped, ReadsSome, IdsApart, WaitOk, VerdictOk, ShareAnswered
  PROVE  VerdictOk'
<1> DEFINE answer == Head(Lines)
<1>1. OldAnswer(reader, answer)
  <2>0. miner = "share_read" /\ Lines # << >>
    BY DEF ShareAnswered, Proceed, ReadLine
  <2>1. reader \in DOMAIN conns /\ Lines # << >> /\ Lines \in Seq(Answer)
    <3>1. reader # 0
      BY <2>0 DEF ReadsSome, InUse
    <3>2. reader \in DOMAIN conns /\ conns[reader] \in Conn
      BY <3>1 DEF WorldTyped
    <3>3. QED
      BY <2>0, <3>2 DEF Lines, Conn
  <2>2. answer = Lines[1] /\ 1 \in DOMAIN Lines
    BY <2>1, HeadTailProperties
  <2>3. QED
    BY <2>1, <2>2 DEF OldAnswer, Lines
<1>2. answer.id = waiting /\ miner = "share_read" /\ log' = log
  BY DEF ShareAnswered, Answered, Proceed
<1>3. /\ \E l \in log : l.id = waiting
      /\ \A l \in log : l.id = waiting => ((answer.result = "false") <=> (l.as = "refused"))
  BY <1>1, <1>2, Apart DEF WaitOk
<1> HIDE DEF answer
<1>4. CASE answer.result = "false"
  <2>1. rejected' = rejected \cup {waiting} /\ accepted' = accepted
    BY <1>4 DEF ShareAnswered, answer
  <2>2. QED
    BY <1>2, <1>3, <1>4, <2>1 DEF VerdictOk
<1>5. CASE answer.result # "false"
  <2>1. accepted' = accepted \cup {waiting} /\ rejected' = rejected
    BY <1>5 DEF ShareAnswered, answer
  <2>2. QED
    BY <1>2, <1>3, <1>5, <2>1 DEF VerdictOk
<1>6. QED
  BY <1>4, <1>5

\* A share that is handled has no entry yet.
LEMMA HandleVerdict ==
  ASSUME WorldTyped, Paths, IdsApart, VerdictOk,
         NEW c \in DOMAIN conns, Handles(c)
  PROVE  VerdictOk'
<1> DEFINE first == Head(conns[c].up)
<1>1. OldRequest(c, first)
  BY HandleLines DEF OldRequest
<1>2. \A l \in log : l.id # first.id
  BY <1>1, Apart
<1>3. accepted' = accepted /\ rejected' = rejected
  BY DEF Handles
<1>4. CASE log' = log
  BY <1>3, <1>4 DEF VerdictOk
<1>5. CASE \E outcome \in Outcomes :
             log' = log \cup {[id |-> first.id, as |-> outcome]}
  <2> HIDE DEF first
  <2>1. log \subseteq log' /\ \A l \in log' : l \in log \/ l.id = first.id
    BY <1>5
  <2>2. \A id \in accepted : \E l \in log' : l.id = id /\ l.as # "refused"
    BY <2>1 DEF VerdictOk
  <2>3. \A id \in rejected : /\ \E l \in log' : l.id = id
                             /\ \A l \in log' : l.id = id => l.as = "refused"
    BY <1>2, <2>1 DEF VerdictOk
  <2>4. QED
    BY <1>3, <2>2, <2>3 DEF VerdictOk
<1>6. QED
  BY <1>4, <1>5 DEF Handles

LEMMA StepVerdict ==
  ASSUME WorldTyped, Paths, IdsApart, ReadsSome, SubscribesFresh, WaitOk,
         VerdictOk, ClientNext
  PROVE  VerdictOk'
<1>1. CASE ShareAnswered
  BY <1>1, AnsweredVerdict
<1>2. CASE UNCHANGED <<accepted, rejected>> /\ log' = log
  BY <1>2 DEF VerdictOk
<1>3. CASE \E c \in DOMAIN conns : Handles(c)
  BY <1>3, HandleVerdict
<1>4. QED
  BY <1>1, <1>2, <1>3, StepKinds, VerdictStep DEF Quiet, Sends

-----------------------------------------------------------------------------
(* Where the thread is, and its connection.                                *)

Mines == {"mining", "share_send", "share_read"}

\* The state says authorized only while the thread mines; the connection is
\* new until the handshake has subscribed on it.
Control ==
  /\ ReadsSome
  /\ miner = "set_writer" => reader = Len(conns) /\ reader # 0 /\ Fresh(conns[reader])
  /\ miner = "set_connected" => reader = writer /\ reader # 0 /\ Fresh(conns[reader])
  /\ SubscribesFresh
  /\ state = "Authorized" => miner \in Mines /\ conns[writer].authorized

\* Another task or the pool acts, or the thread skips a line.
Rests ==
  /\ UNCHANGED <<miner, reader, writer>> /\ DOMAIN conns' = DOMAIN conns
  /\ state' \in {state, "Disconnected"}

\* The thread has no connection that it uses.
Leaves ==
  /\ miner' \in {"socket", "retry", "ended", "drop_reader", "drop_writer",
                 "set_disconnected"}
  /\ state' # "Authorized"

\* It uses the one it has.
Works ==
  /\ miner \in InUse /\ miner' \in InUse \ {"sub_send"}
  /\ UNCHANGED <<reader, writer>>
  /\ state' = "Authorized" => state = "Authorized" /\ miner' \in Mines

LEMMA ControlKinds ==
  ASSUME WorldTyped, Control, ClientNext
  PROVE  \/ Rests \/ Leaves \/ Works
         \/ SetReader \/ SetWriter \/ SetConnected \/ Authorized
<1>1. CASE \E c \in DOMAIN conns : PoolHandles(c) \/ PoolCloses(c)
  <2>1. CASE \E c \in DOMAIN conns : PoolHandles(c)
    BY <2>1, HandlesOneOf DEF Handles, Replaces, Rests
  <2>2. CASE \E c \in DOMAIN conns : PoolCloses(c)
    BY <2>2 DEF PoolCloses, client, Rests
  <2>3. QED
    BY <1>1, <2>1, <2>2
<1>2. CASE Keepalive
  BY <1>2 DEF Keepalive, KeepaliveCheck, KeepaliveSend, KeepaliveFailed,
              SendOk, SendFails, client, Rests
<1>3. CASE ConnectRefused \/ HealthCheck \/ Reconnect \/ FindShare
  BY <1>3 DEF ConnectRefused, ConnectFails, HealthCheck, Reconnect, DropReader,
              DropWriter, SetDisconnected, FindShare, Proceed, Unauthorized,
              client, Control, Mines, InUse, Leaves, Works
<1>4. CASE SubmitShare
  BY <1>4 DEF SubmitShare, ShareSend, ShareFails, ShareSkips, ShareAnswered,
              SendOk, SendFails, ReadLine, Proceed, client,
              Control, Mines, InUse, Rests, Works
<1>5. CASE SubscribeSend \/ AuthorizeSend
  BY <1>5 DEF SubscribeSend, AuthorizeSend, HandshakeSend, ConnectFails,
              SendOk, SendFails, Proceed, client, Control, Mines, InUse,
              Leaves, Works
<1>6. CASE SubscribeFails \/ AuthorizeFails \/ Subscribed
  BY <1>6 DEF SubscribeFails, AuthorizeFails, Subscribed, HandshakeFails,
              HandshakeRefused, ConnectFails, Proceed, client, Control, Mines,
              InUse, Leaves, Works
<1>7. QED
  BY <1>1, <1>2, <1>3, <1>4, <1>5, <1>6 DEF ClientNext, MiningLoop, Connect

LEMMA SameLength ==
  ASSUME NEW m \in Nat, NEW n \in Nat, 1..m = 1..n
  PROVE  m = n
<1>1. \A i \in Nat : 1 <= i => (i <= m <=> i <= n)
  OBVIOUS
<1>2. QED
  BY <1>1

LEMMA StepControl ==
  ASSUME WorldTyped, Paths, ConnsStay, Control, ClientNext
  PROVE  Control'
<1>1. /\ DOMAIN conns = 1..Len(conns) /\ DOMAIN conns' = 1..Len(conns')
      /\ Len(conns) \in Nat /\ Len(conns') \in Nat
      /\ reader \in 0..Len(conns) /\ writer \in 0..Len(conns)
  BY DEF WorldTyped, ConnsStay
<1>2. miner \in InUse => reader = writer /\ writer \in DOMAIN conns
  <2>1. miner \in InUse => reader = writer /\ reader # 0
    BY DEF Control, ReadsSome
  <2>2. QED
    BY <1>1, <2>1
<1>3. CASE Rests
  <2>1. Len(conns') = Len(conns)
    <3>1. 1..Len(conns') = 1..Len(conns)
      BY <1>1, <1>3 DEF Rests
    <3>2. QED
      BY <1>1, <3>1, SameLength
  <2>2. /\ miner' = miner /\ reader' = reader /\ writer' = writer
        /\ state' = "Authorized" => state = "Authorized"
    BY <1>3 DEF Rests
  <2>3. state' = "Authorized" => miner' \in Mines /\ conns'[writer'].authorized
    <3> SUFFICES ASSUME state' = "Authorized"
                 PROVE  miner' \in Mines /\ conns'[writer'].authorized
      OBVIOUS
    <3>1. miner \in Mines /\ conns[writer].authorized
      BY <2>2 DEF Control
    <3>2. writer \in DOMAIN conns
      BY <1>2, <2>2, <3>1 DEF Mines, InUse
    <3>3. QED
      BY <2>2, <3>1, <3>2 DEF ConnsStay
  <2>4. \A c \in DOMAIN conns :
          Fresh(conns[c]) /\ miner # "auth_send" => Fresh(conns'[c])
    BY DEF ConnsStay
  <2>5. miner = "set_writer" =>
          reader = Len(conns') /\ reader # 0 /\ Fresh(conns'[reader])
    BY <1>1, <2>1, <2>4 DEF Control
  <2>6. miner = "set_connected" =>
          reader = writer /\ reader # 0 /\ Fresh(conns'[reader])
    BY <1>1, <2>4 DEF Control
  <2>7. miner = "sub_send" => Fresh(conns'[writer])
    BY <1>2, <2>4 DEF Control, SubscribesFresh, InUse
  <2>8. QED
    BY <2>2, <2>3, <2>5, <2>6, <2>7 DEF Control, ReadsSome, SubscribesFresh
<1>4. CASE Leaves
  BY <1>4 DEF Leaves, Control, ReadsSome, SubscribesFresh, InUse
<1>5. CASE Works
  <2>1. reader' = writer' /\ writer' = writer /\ writer \in DOMAIN conns
    BY <1>5, <1>2 DEF Works
  <2>2. state' = "Authorized" => miner' \in Mines /\ conns'[writer'].authorized
    BY <1>5, <2>1 DEF Works, Control, ConnsStay
  <2>3. QED
    BY <1>1, <1>5, <2>1, <2>2 DEF Works, Control, ReadsSome, SubscribesFresh, InUse
<1>6. CASE SetReader
  <2>1. /\ miner' = "set_writer" /\ state' = state /\ miner = "socket"
        /\ reader' = Len(conns) + 1 /\ conns' = Append(conns, NewConn)
    BY <1>6 DEF SetReader, Proceed
  <2>2. Len(conns') = Len(conns) + 1 /\ conns'[Len(conns) + 1] = NewConn
    BY <1>1, <2>1, NewConnTyped DEF WorldTyped
  <2>3. QED
    BY <1>1, <2>1, <2>2, NewConnTyped
       DEF Control, ReadsSome, SubscribesFresh, InUse, Mines
<1>7. CASE SetWriter
  BY <1>7 DEF SetWriter, Proceed, Control, ReadsSome, SubscribesFresh, InUse, Mines
<1>8. CASE SetConnected
  BY <1>8 DEF SetConnected, Proceed, Control, ReadsSome, SubscribesFresh, InUse
<1>9. CASE Authorized
  <2>1. /\ miner = "auth_read" /\ miner' = "mining"
        /\ reader' = reader /\ writer' = writer
    BY <1>9 DEF Authorized, Proceed
  <2>2. reader = writer /\ writer \in DOMAIN conns
    BY <1>2, <2>1 DEF InUse
  <2>3. Lines # << >> /\ Head(Lines).result = "true"
    BY <1>9 DEF Authorized, ReadLine
  <2>4. Lines \in Seq(Answer)
    <3>1. conns[reader] \in Conn
      BY <2>2 DEF WorldTyped
    <3>2. QED
      BY <3>1 DEF Lines, Conn
  <2>5. Head(Lines) = Lines[1] /\ 1 \in DOMAIN Lines
    BY <2>3, <2>4, HeadTailProperties
  <2>6. conns[writer].authorized
    BY <2>2, <2>3, <2>5 DEF Paths, LinesInOrder, Lines
  <2>7. conns'[writer'].authorized
    BY <2>1, <2>2, <2>6 DEF ConnsStay
  <2>8. QED
    BY <2>1, <2>2, <2>7 DEF Control, ReadsSome, SubscribesFresh, InUse, Mines
<1>10. QED
  BY <1>3, <1>4, <1>5, <1>6, <1>7, <1>8, <1>9, ControlKinds

-----------------------------------------------------------------------------
(* Types.                                                                  *)

Budget == [shares : Nat, pings : Nat, faults : Nat]

LEMMA SpendTyped ==
  ASSUME budget \in Budget, NEW what \in {"shares", "pings", "faults"}, Spend(what)
  PROVE  budget' \in Budget
BY DEF Budget, Spend

LEMMA BudgetStep ==
  ASSUME budget \in Budget, ClientNext
  PROVE  budget' \in Budget
<1>1. \/ Spend("shares") \/ Spend("pings") \/ Spend("faults") \/ UNCHANGED budget
  <2>1. CASE \E c \in DOMAIN conns : PoolHandles(c) \/ PoolCloses(c)
    BY <2>1 DEF PoolHandles, PoolCloses
  <2>2. CASE Connect
    BY <2>2 DEF Connect, SetReader, SetWriter, SetConnected, SubscribeSend,
                SubscribeFails, Subscribed, AuthorizeSend, AuthorizeFails,
                Authorized, HandshakeSend, HandshakeFails, HandshakeRefused,
                ReadLine, ReadFails
  <2>3. CASE HealthCheck \/ Reconnect \/ ConnectRefused \/ FindShare \/ Keepalive
    BY <2>3 DEF HealthCheck, Reconnect, DropReader, DropWriter, SetDisconnected,
                ConnectRefused, FindShare, Keepalive, KeepaliveCheck,
                KeepaliveSend, KeepaliveFailed
  <2>4. CASE SubmitShare
    BY <2>4 DEF SubmitShare, ShareSend, ShareFails, ShareSkips, ShareAnswered,
                ReadLine, ReadFails
  <2>5. QED
    BY <2>1, <2>2, <2>3, <2>4 DEF ClientNext, MiningLoop
<1>2. QED
  BY <1>1, SpendTyped

\* The variables of the client and its tasks.
TasksTyped ==
  /\ state \in States /\ miner \in ThreadPoints /\ waiting \in Nat
  /\ started \in BOOLEAN /\ attempts \in Nat
  /\ keeper \in {"idle", "checked", "failed"}
  /\ {accepted, rejected} \subseteq SUBSET Nat

LEMMA TasksStep ==
  ASSUME TasksTyped, nextId \in Nat, ClientNext
  PROVE  TasksTyped'
<1>1. CASE \E c \in DOMAIN conns : PoolHandles(c) \/ PoolCloses(c)
  BY <1>1 DEF PoolHandles, PoolCloses, client, thread, verdicts, TasksTyped
<1>2. CASE Connect
  <2>1. CASE ConnectFails /\ state' \in {state, "Disconnected"}
    BY <2>1 DEF ConnectFails, thread, verdicts, TasksTyped, States, ThreadPoints
  <2>2. CASE ~ConnectFails
    BY <1>2, <2>2
       DEF Connect, SetReader, SetWriter, SetConnected, SubscribeSend,
           SubscribeFails, Subscribed, AuthorizeSend, AuthorizeFails, Authorized,
           HandshakeSend, HandshakeFails, HandshakeRefused, SendOk, Proceed,
           client, thread, verdicts, TasksTyped, States, ThreadPoints
  <2>3. QED
    BY <1>2, <2>1, <2>2
       DEF Connect, SetReader, SetWriter, SetConnected, SubscribeSend,
           SubscribeFails, Subscribed, AuthorizeSend, AuthorizeFails, Authorized,
           HandshakeSend, HandshakeFails, HandshakeRefused, SendFails, Proceed,
           client, ConnectFails, thread, verdicts, TasksTyped, States, ThreadPoints
<1>3. CASE HealthCheck \/ Reconnect \/ ConnectRefused \/ FindShare \/ Keepalive
  BY <1>3 DEF HealthCheck, Reconnect, DropReader, DropWriter, SetDisconnected,
              ConnectRefused, FindShare, Keepalive, KeepaliveCheck, KeepaliveSend,
              KeepaliveFailed, ConnectFails, SendOk, SendFails, Proceed,
              client, thread, verdicts, TasksTyped, States, ThreadPoints
<1>4. CASE SubmitShare
  BY <1>4 DEF SubmitShare, ShareSend, ShareFails, ShareSkips, ShareAnswered,
              SendOk, SendFails, Proceed, client, thread, verdicts,
              TasksTyped, States, ThreadPoints
<1>5. QED
  BY <1>1, <1>2, <1>3, <1>4 DEF ClientNext, MiningLoop

LEMMA WorldStep ==
  ASSUME WorldTyped, Paths, ConnsStay, Control, ClientNext
  PROVE  WorldTyped'
<1>1. /\ conns \in Seq(Conn) /\ conns' \in Seq(Conn)
      /\ Len(conns) \in Nat /\ Len(conns') \in Nat /\ Len(conns) <= Len(conns')
      /\ reader \in 0..Len(conns) /\ writer \in 0..Len(conns)
  BY DEF WorldTyped, ConnsStay
<1>2. reader' \in 0..Len(conns') /\ writer' \in 0..Len(conns')
  <2>1. \/ SetReader
        \/ reader' \in {reader, 0} /\ writer' \in {writer, 0, Len(conns)}
    BY DEF ClientNext, MiningLoop, Connect, SetWriter, SetConnected, SubscribeSend,
           SubscribeFails, Subscribed, AuthorizeSend, AuthorizeFails, Authorized,
           HandshakeSend, HandshakeFails, HandshakeRefused, SendOk, SendFails,
           HealthCheck, Reconnect, DropReader, DropWriter, SetDisconnected,
           ConnectRefused, FindShare, Keepalive, KeepaliveCheck, KeepaliveSend,
           KeepaliveFailed, SubmitShare, ShareSend, ShareFails, ShareSkips,
           ShareAnswered, PoolHandles, PoolCloses, client
  <2>2. CASE SetReader
    <3>1. reader' = Len(conns) + 1 /\ writer' = writer
          /\ Len(conns') = Len(conns) + 1
      BY <1>1, <2>2, NewConnTyped DEF SetReader
    <3>2. QED
      BY <1>1, <3>1
  <2>3. QED
    BY <1>1, <2>1, <2>2
<1>3. nextId' \in Nat \ {0} /\ log' \subseteq [id : Nat \ {0}, as : Outcomes]
  <2>1. CASE Quiet \/ \E method \in Methods : Sends(method)
    <3>1. nextId' \in {nextId, nextId + 1} /\ log' = log
      BY <2>1 DEF Quiet, Sends
    <3>2. QED
      BY <3>1 DEF WorldTyped
  <2>2. ASSUME NEW c \in DOMAIN conns, Handles(c)
        PROVE  nextId' \in Nat \ {0} /\ log' \subseteq [id : Nat \ {0}, as : Outcomes]
    <3>1. Head(conns[c].up) \in Request
      <4>1. PICK i \in DOMAIN conns[c].up : Head(conns[c].up) = conns[c].up[i]
        BY <2>2, HandleLines
      <4>2. conns[c] \in Conn
        BY DEF WorldTyped
      <4>3. QED
        BY <4>1, <4>2 DEF Conn
    <3>2. QED
      BY <2>2, <3>1 DEF Handles, WorldTyped, Request
  <2>3. QED
    BY <2>1, <2>2, StepKinds DEF Control
<1>4. QED
  BY <1>1, <1>2, <1>3 DEF WorldTyped

-----------------------------------------------------------------------------
(* The inductive invariant.                                                *)

\* Types; the lines of each connection; ids; what is said of shares; and
\* where the thread is.
ClientInv ==
  /\ WorldTyped /\ TasksTyped /\ budget \in Budget
  /\ Paths /\ IdsApart
  /\ WaitOk /\ VerdictOk
  /\ Control

LEMMA InitInv == ClientInit => ClientInv
<1> SUFFICES ASSUME ClientInit PROVE ClientInv
  OBVIOUS
<1>1. WorldTyped /\ Paths /\ IdsApart
  BY DEF ClientInit, WorldTyped, Paths, IdsApart, IdsTaken
<1>2. TasksTyped
  BY DEF ClientInit, TasksTyped, States, ThreadPoints
<1>3. budget \in Budget
  BY ClientAssumption DEF ClientInit, Budget
<1>4. WaitOk /\ VerdictOk /\ Control
  BY DEF ClientInit, WaitOk, VerdictOk, Control, ReadsSome, SubscribesFresh, InUse
<1>5. QED
  BY <1>1, <1>2, <1>3, <1>4 DEF ClientInv

LEMMA NextInv == ClientInv /\ [ClientNext]_clientVars => ClientInv'
<1> SUFFICES ASSUME ClientInv, [ClientNext]_clientVars PROVE ClientInv'
  OBVIOUS
<1>1. CASE UNCHANGED clientVars
  <2>1. UNCHANGED <<conns, reader, writer, state, nextId, miner, waiting, started,
                    attempts, keeper, log, accepted, rejected, budget>>
    BY <1>1 DEF clientVars, client, thread, verdicts
  <2>2. WorldTyped' /\ TasksTyped' /\ (budget \in Budget)'
    BY <2>1 DEF ClientInv, WorldTyped, TasksTyped
  <2>3. Paths' /\ IdsApart'
    BY <2>1 DEF ClientInv, Paths, IdsApart, IdsTaken
  <2>4. WaitOk' /\ VerdictOk'
    BY <2>1 DEF ClientInv, WaitOk, VerdictOk, OldRequest, OldAnswer
  <2>5. Control'
    BY <2>1 DEF ClientInv, Control, ReadsSome, SubscribesFresh
  <2>6. QED
    BY <2>2, <2>3, <2>4, <2>5 DEF ClientInv
<1>2. CASE ClientNext
  <2>1. WorldTyped /\ Paths /\ IdsApart /\ IdsTaken /\ ReadsSome /\ SubscribesFresh
    BY DEF ClientInv, IdsApart, Control
  <2>2. ConnsStay /\ Paths'
    BY <1>2, <2>1, StepKinds, QuietLines, SendLines, HandleLines
  <2>3. WorldTyped' /\ Control'
    BY <1>2, <2>1, <2>2, WorldStep, StepControl DEF ClientInv
  <2>4. TasksTyped' /\ (budget \in Budget)'
    BY <1>2, <2>1, TasksStep, BudgetStep DEF ClientInv, WorldTyped
  <2>5. IdsApart'
    BY <1>2, <2>1, StepApart
  <2>6. WaitOk' /\ VerdictOk'
    BY <1>2, <2>1, StepWait, StepVerdict DEF ClientInv
  <2>7. QED
    BY <2>2, <2>3, <2>4, <2>5, <2>6 DEF ClientInv
<1>3. QED
  BY <1>1, <1>2

LEMMA InvHolds == ClientSpec => []ClientInv
BY InitInv, NextInv, PTL DEF ClientSpec

\* Every variable keeps its type, and whenever the thread uses its connection
\* it reads from the one it writes to, although connect and reconnect of
\* stratum_client.rs set the two under two locks.
THEOREM ClientTypeCorrect == ClientSpec => []ClientTypeOK
<1>1. ClientInv => ClientTypeOK
  BY DEF ClientInv, WorldTyped, TasksTyped, Budget, Control, ReadsSome, ClientTypeOK
<1>2. QED
  BY <1>1, InvHolds, PTL

\* is_authorized tells the truth: the pool has authorized the connection the
\* client uses, for whatever connections were made, lost or given up before.
THEOREM AuthorizedBelievedHolds == ClientSpec => []AuthorizedBelieved
<1>1. ClientInv => AuthorizedBelieved
  BY DEF ClientInv, Control, ReadsSome, Mines, InUse, AuthorizedBelieved
<1>2. QED
  BY <1>1, InvHolds, PTL

\* What submit_share says of a share is what the pool made of that share,
\* whatever answers came late, were lost or belong to keepalives.
THEOREM AnswersMatchHolds == ClientSpec => []AnswersMatch
<1>1. ClientInv => AnswersMatch
  BY DEF ClientInv, VerdictOk, AnswersMatch
<1>2. QED
  BY <1>1, InvHolds, PTL
=============================================================================
