----------------------- MODULE DifficultyManagerProofs -----------------------
(***************************************************************************)
(* Theorems about the difficulty adjustment manager, for any number of     *)
(* tasks, any interval, target and bounds, and any block times.            *)
(***************************************************************************)
EXTENDS DifficultyManager, LockedTasksProofs, SequenceTheorems

-----------------------------------------------------------------------------
(* The locks.                                                              *)

ManagerLocks == LockInv(Locks, Points, Wants, HeldAt)

\* A task between two calls has no guard and waits for none.
LEMMA IdleHoldsNothing ==
  /\ "idle" \in Points
  /\ \A l \in Locks : Wants["idle"][l] = "none"
  /\ HeldAt["idle"] = {}
BY DEF Points, Locks, Wants, Writes, Reads, HeldAt

\* Starting an operation asks for its first lock, or for none yet.
LEMMA BeginKeepsLocks ==
  ASSUME ManagerLocks, NEW t \in Tasks, Begin(t)
  PROVE  ManagerLocks'
<1> USE DEF ManagerLocks
<1>1. CASE \E s \in Timestamps : RecordBlockTime(t, s)
  <2>1. pc[t] = "idle" /\ Move(t, "rec_called")
    BY <1>1 DEF RecordBlockTime
  <2>2. /\ \A l \in Locks : Wants["rec_called"][l] = Wants["idle"][l]
        /\ "rec_called" \in Points /\ HeldAt["rec_called"] = {}
    BY DEF Points, Locks, Wants, Writes, Reads, HeldAt
  <2>3. QED
    BY <2>1, <2>2, MoveKeepsLocks
<1>2. CASE CalculateNewDifficulty(t)
  <2>1. Asks(Locks, Points, Wants, HeldAt, "idle", {},
             "calc_times", "times", "read")
    BY DEF Asks, Points, Locks, Wants, Writes, Reads, HeldAt
  <2>2. QED
    BY <1>2, <2>1, EnterKeepsLocks DEF CalculateNewDifficulty, Call
<1>3. CASE \E d \in Overrides : SetDifficulty(t, d)
  <2>1. Asks(Locks, Points, Wants, HeldAt, "idle", {},
             "set_current", "current", "write")
    BY DEF Asks, Points, Locks, Wants, Writes, Reads, HeldAt
  <2>2. QED
    BY <1>3, <2>1, EnterKeepsLocks DEF SetDifficulty, Call
<1>4. CASE GetStats(t)
  <2>1. Asks(Locks, Points, Wants, HeldAt, "idle", {},
             "stats_current", "current", "read")
    BY DEF Asks, Points, Locks, Wants, Writes, Reads, HeldAt
  <2>2. QED
    BY <1>4, <2>1, EnterKeepsLocks DEF GetStats, Call
<1>5. QED
  BY <1>1, <1>2, <1>3, <1>4 DEF Begin

\* Every later segment has the guards it runs under and asks for the next
\* lock, or returns.
LEMMA ContinueKeepsLocks ==
  ASSUME ManagerLocks, NEW t \in Tasks, Continue(t)
  PROVE  ManagerLocks'
<1> USE DEF ManagerLocks
<1>1. CASE RecordAwait(t)
  <2>1. Asks(Locks, Points, Wants, HeldAt, "rec_called", {},
             "rec_times", "times", "write")
    BY DEF Asks, Points, Locks, Wants, Writes, Reads, HeldAt
  <2>2. QED
    BY <1>1, <2>1, AsksKeepsLocks DEF RecordAwait
<1>2. CASE RecordPush(t)
  BY <1>2, ReturnKeepsLocks, IdleHoldsNothing DEF RecordPush
<1>3. CASE CalculateSkip(t)
  <2>1. Asks(Locks, Points, Wants, HeldAt, "calc_times", {"times"},
             "calc_skip", "current", "read")
    BY DEF Asks, Points, Locks, Wants, Writes, Reads, HeldAt
  <2>2. QED
    BY <1>3, <2>1, AsksKeepsLocks DEF CalculateSkip, Reached
<1>4. CASE CalculateUnchanged(t)
  BY <1>4, ReturnKeepsLocks, IdleHoldsNothing DEF CalculateUnchanged
<1>5. CASE CalculateRatio(t)
  <2>1. Asks(Locks, Points, Wants, HeldAt, "calc_times", {"times"},
             "calc_read", "current", "read")
    BY DEF Asks, Points, Locks, Wants, Writes, Reads, HeldAt
  <2>2. QED
    BY <1>5, <2>1, AsksKeepsLocks DEF CalculateRatio, Reached
<1>6. CASE CalculateRead(t)
  <2>1. Drops(Locks, Points, Wants, HeldAt, "calc_read", {"current"},
              "current", "calc_computed")
    BY DEF Drops, Points, Locks, Wants, Writes, Reads, HeldAt
  <2>2. QED
    <3>1. /\ pc[t] = "calc_read" /\ Holds(locks["current"], t)
          /\ Drop(t, "current", "calc_computed")
      BY <1>6 DEF CalculateRead, Reached
    <3>2. QED
      BY <2>1, <3>1, DropsKeepsLocks
<1>7. CASE CalculateRecord(t)
  <2>1. Asks(Locks, Points, Wants, HeldAt, "calc_history", {"history"},
             "calc_current", "current", "write")
    BY DEF Asks, Points, Locks, Wants, Writes, Reads, HeldAt
  <2>2. /\ pc[t] = "calc_history" /\ Holds(locks["history"], t)
        /\ Await(t, "calc_current", "current", "write")
    BY <1>7 DEF CalculateRecord, Reached
  <2>3. QED
    BY <2>1, <2>2, AsksKeepsLocks
<1>8. CASE CalculateUpdate(t)
  BY <1>8, ReturnKeepsLocks, IdleHoldsNothing DEF CalculateUpdate
<1>9. CASE SetStore(t)
  BY <1>9, ReturnKeepsLocks, IdleHoldsNothing DEF SetStore
<1>10. CASE StatsCurrent(t)
  <2>1. Drops(Locks, Points, Wants, HeldAt, "stats_current", {"current"},
              "current", "stats_copied")
    BY DEF Drops, Points, Locks, Wants, Writes, Reads, HeldAt
  <2>2. QED
    BY <1>10, <2>1, DropsKeepsLocks DEF StatsCurrent, Reached
<1>11. CASE StatsHistory(t)
  <2>1. Asks(Locks, Points, Wants, HeldAt, "stats_history", {"history"},
             "stats_times", "times", "read")
    BY DEF Asks, Points, Locks, Wants, Writes, Reads, HeldAt
  <2>2. QED
    BY <1>11, <2>1, AsksKeepsLocks DEF StatsHistory, Reached
<1>12. CASE StatsReport(t)
  BY <1>12, ReturnKeepsLocks, IdleHoldsNothing DEF StatsReport
<1>13. CASE CalculateAsk(t)
  <2>1. Asks(Locks, Points, Wants, HeldAt, "calc_computed", {},
             "calc_history", "history", "write")
    BY DEF Asks, Points, Locks, Wants, Writes, Reads, HeldAt
  <2>2. QED
    BY <1>13, <2>1, AsksKeepsLocks DEF CalculateAsk
<1>14. CASE StatsAsk(t)
  <2>1. Asks(Locks, Points, Wants, HeldAt, "stats_copied", {},
             "stats_history", "history", "read")
    BY DEF Asks, Points, Locks, Wants, Writes, Reads, HeldAt
  <2>2. QED
    BY <1>14, <2>1, AsksKeepsLocks DEF StatsAsk
<1>15. QED
  BY <1>1, <1>2, <1>3, <1>4, <1>5, <1>6, <1>7, <1>8, <1>9, <1>10, <1>11,
     <1>12, <1>13, <1>14 DEF Continue

\* Each task always holds exactly the guards its place in the code implies:
\* an adjustment has the block times from the first read to the last write.
THEOREM ManagerLocksHeld == Spec => []ManagerLocks
<1>1. Init => ManagerLocks
  BY NoCallsKeepLocks, IdleHoldsNothing DEF Init, ManagerLocks
<1>2. ManagerLocks /\ [Next]_vars => ManagerLocks'
  <2>1. CASE UNCHANGED vars
    BY <2>1, UntouchedLocks DEF vars, taskVars, ManagerLocks
  <2>2. CASE \E t \in Tasks : Begin(t) \/ Continue(t)
    BY <2>2, BeginKeepsLocks, ContinueKeepsLocks
  <2>3. QED
    BY <2>1, <2>2 DEF Next
<1>3. QED
  BY <1>1, <1>2, PTL DEF Spec

-----------------------------------------------------------------------------
(* Arithmetic.                                                             *)

LEMMA Quotient ==
  ASSUME NEW a \in Nat, NEW b \in Nat \ {0}
  PROVE  /\ a \div b \in Nat
         /\ (a \div b) * b <= a
         /\ a < (a \div b) * b + b
         /\ a % b = 0 => a = (a \div b) * b
<1>1. a = b * (a \div b) + (a % b) /\ a % b \in 0..(b - 1) /\ a \div b \in Int
  BY Z3
<1>2. a \div b \in Nat
  BY Z3
<1>3. QED
  BY <1>1, <1>2, Z3

LEMMA Cancel ==
  ASSUME NEW a \in Int, NEW b \in Int, NEW s \in Nat \ {0}, a * s <= b * s
  PROVE  a <= b
<1>1. SUFFICES ASSUME a >= b + 1 PROVE FALSE
  OBVIOUS
<1>2. a * s >= (b + 1) * s
  BY <1>1, Z3
<1>3. QED
  BY <1>2, Z3

LEMMA Monotone ==
  ASSUME NEW a \in Nat, NEW b \in Int, NEW c \in Int, b <= c
  PROVE  a * b <= a * c
BY Z3

\* An adjustment moves the difficulty by a factor between 1/4 and 4, rounded
\* down, whatever the block times are.
LEMMA ProductBounds ==
  ASSUME NEW previous \in Nat, Expected \in Nat, Span \in Nat \ {0},
         NEW p \in Products(previous)
  PROVE  p \in Nat /\ previous - 4 <= 4 * p /\ p <= 4 * previous
<1>1. CASE Expected > 4 * Span
  BY <1>1 DEF Products
<1>2. CASE ~(Expected > 4 * Span) /\ 4 * Expected < Span
  <2>1. p = previous \div 4
    BY <1>2 DEF Products
  <2>2. QED
    BY <2>1
<1>3. CASE ~(Expected > 4 * Span) /\ ~(4 * Expected < Span)
  <2> DEFINE total == previous * Expected
             exact == total \div Span
  <2>1. /\ p = exact \/ (p = exact - 1 /\ p >= 0 /\ total % Span = 0)
        /\ total \in Nat
    BY <1>3 DEF Products
  <2>2. /\ exact \in Nat
        /\ exact * Span <= total
        /\ total < exact * Span + Span
        /\ total % Span = 0 => total = exact * Span
    BY <2>1, Quotient
  <2>3. total <= previous * (4 * Span) /\ previous * Span <= previous * (4 * Expected)
    BY <1>3, Monotone
  <2> HIDE DEF total, exact
  <2>4. exact * Span <= (4 * previous) * Span
    BY <2>1, <2>2, <2>3, Z3
  <2>5. exact <= 4 * previous
    BY <2>2, <2>4, Cancel
  <2>6. previous * Span <= 4 * total
    BY <2>3, Z3 DEF total
  <2>7. previous <= 4 * exact + 4
    <3>1. previous * Span <= (4 * exact + 4) * Span
      BY <2>1, <2>2, <2>6, Z3
    <3>2. QED
      BY <2>2, <3>1, Cancel
  <2>8. total % Span = 0 => previous <= 4 * exact
    <3>1. total % Span = 0 => previous * Span <= (4 * exact) * Span
      BY <2>1, <2>2, <2>6, Z3
    <3>2. QED
      BY <2>2, <3>1, Cancel
  <2>9. QED
    BY <2>1, <2>2, <2>5, <2>7, <2>8
<1>4. QED
  BY <1>1, <1>2, <1>3

-----------------------------------------------------------------------------
(* Types.                                                                  *)

DataTypes ==
  /\ times \in Seq(BlockTime)
  /\ current \in Nat
  /\ history \in Seq(Adjustment)
  /\ nextHeight \in Nat
  /\ overridden \in BOOLEAN

\* The window keeps blocks and is never longer than the interval allows.
LEMMA WindowProperties ==
  ASSUME NEW blocks \in Seq(BlockTime)
  PROVE  /\ Window(blocks) \in Seq(BlockTime)
         /\ Len(Window(blocks)) <= AdjustmentInterval + 1
         /\ Len(blocks) > 0 => Len(Window(blocks)) > 0
         /\ \A i \in 1..Len(Window(blocks)) :
              /\ i + Len(blocks) - Len(Window(blocks)) \in 1..Len(blocks)
              /\ Window(blocks)[i] = blocks[i + Len(blocks) - Len(Window(blocks))]
<1>a. AdjustmentInterval \in Nat \ {0} /\ Len(blocks) \in Nat
  BY DifficultyAssumption
<1>1. CASE Len(blocks) > AdjustmentInterval + 1
  <2> DEFINE first == Len(blocks) - AdjustmentInterval
             cut == SubSeq(blocks, first, Len(blocks))
  <2>1. first \in 1..Len(blocks) /\ Window(blocks) = cut
    BY <1>a, <1>1 DEF Window
  <2>2. \A i \in first..Len(blocks) : blocks[i] \in BlockTime
    BY <1>a, <2>1
  <2>3. /\ cut \in Seq(BlockTime)
        /\ Len(cut) = Len(blocks) - first + 1
        /\ \A i \in 1..(Len(blocks) - first + 1) : cut[i] = blocks[first + i - 1]
    BY <1>a, <2>1, <2>2, SubSeqProperties
  <2> HIDE DEF cut
  <2>4. Len(cut) = AdjustmentInterval + 1
    BY <1>a, <2>3
  <2>5. ASSUME NEW i \in 1..Len(cut)
        PROVE  /\ i + Len(blocks) - Len(cut) \in 1..Len(blocks)
               /\ cut[i] = blocks[i + Len(blocks) - Len(cut)]
    <3>1. first + i - 1 = i + Len(blocks) - Len(cut)
      BY <1>a, <2>4
    <3>2. i \in 1..(Len(blocks) - first + 1)
      BY <2>3
    <3>3. cut[i] = blocks[first + i - 1]
      BY <2>3, <3>2
    <3>4. first + i - 1 \in 1..Len(blocks)
      BY <1>a, <2>1, <3>2
    <3>5. QED
      BY <3>1, <3>3, <3>4
  <2>6. QED
    BY <1>a, <1>1, <2>1, <2>3, <2>4, <2>5
<1>2. CASE ~(Len(blocks) > AdjustmentInterval + 1)
  <2>1. Window(blocks) = blocks
    BY <1>2 DEF Window
  <2>2. QED
    BY <1>a, <1>2, <2>1
<1>3. QED
  BY <1>1, <1>2

\* What a calculation makes of a window that is not empty.
LEMMA PeriodTypes ==
  ASSUME times \in Seq(BlockTime), Len(times) > 0
  PROVE  Expected \in Nat /\ Span \in Nat
<1>1. /\ times[1] \in BlockTime /\ times[Len(times)] \in BlockTime
      /\ WordRange \in Nat \ {0} /\ TargetBlockTime \in Nat
  BY DifficultyAssumption
<1>2. Span \in Nat /\ Period \in Nat
  BY <1>1 DEF Span, Period, BlockTime
<1>3. Period * TargetBlockTime \in Nat
  BY <1>1, <1>2
<1>4. QED
  BY <1>1, <1>2, <1>3 DEF Expected

\* One task moves at a time.
LEMMA OthersStay ==
  ASSUME DOMAIN arg = Tasks, pc \in [Tasks -> Points], NEW t \in Tasks,
         Begin(t) \/ Continue(t)
  PROVE  /\ DOMAIN arg' = Tasks
         /\ \A u \in Tasks \ {t} : pc'[u] = pc[u] /\ arg'[u] = arg[u]
<1>1. CASE Begin(t)
  BY <1>1 DEF Begin, RecordBlockTime, CalculateNewDifficulty, SetDifficulty,
     GetStats, Call, Enter, Move, Keep
<1>2. CASE \/ RecordAwait(t) \/ RecordPush(t) \/ CalculateSkip(t)
           \/ CalculateUnchanged(t) \/ CalculateRatio(t) \/ CalculateRead(t)
           \/ CalculateAsk(t)
  BY <1>2 DEF RecordAwait, RecordPush, CalculateSkip, CalculateUnchanged,
     CalculateRatio, CalculateRead, CalculateAsk, Await, Drop, Return, Keep
<1>3. CASE \/ CalculateRecord(t) \/ CalculateUpdate(t) \/ SetStore(t)
           \/ StatsCurrent(t) \/ StatsAsk(t) \/ StatsHistory(t)
           \/ StatsReport(t)
  BY <1>3 DEF CalculateRecord, CalculateUpdate, SetStore, StatsCurrent,
     StatsAsk, StatsHistory, StatsReport, Await, Drop, Return
<1>4. QED
  BY <1>1, <1>2, <1>3 DEF Continue

-----------------------------------------------------------------------------
(* An adjustment keeps the block times, so its ratio stays good.           *)

RatioReady == \A t \in Tasks : pc[t] \in Adjusting => Enough /\ Span > 0

\* Nobody records a block while an adjustment is under way.
LEMMA NoRecordMeanwhile ==
  ASSUME ManagerLocks, NEW t \in Tasks, NEW u \in Tasks,
         Reached(t, "rec_times", "times"), pc[u] \in Adjusting
  PROVE  FALSE
<1>1. /\ "times" \in Locks /\ Wants[pc[t]]["times"] = "write"
      /\ "times" \in HeldAt[pc[u]]
  BY DEF Reached, Adjusting, Points, Locks, Wants, Writes, HeldAt
<1>2. Holds(locks["times"], t) /\ Holds(locks["times"], u)
  BY <1>1 DEF Reached, ManagerLocks, LockInv, LockDiscipline
<1>3. t = u
  BY <1>1, <1>2, OneHolder DEF ManagerLocks
<1>4. QED
  BY <1>3 DEF Reached, Adjusting

\* Every step of a task but these leaves the blocks and the history alone.
LEMMA Bystander ==
  ASSUME pc \in [Tasks -> Points], DOMAIN arg = Tasks, NEW t \in Tasks,
         Begin(t) \/ Continue(t)
  PROVE  \/ \E s \in Timestamps : RecordBlockTime(t, s)
         \/ RecordAwait(t) \/ RecordPush(t)
         \/ CalculateRatio(t) \/ CalculateRead(t) \/ CalculateAsk(t)
         \/ CalculateRecord(t) \/ CalculateUpdate(t) \/ SetStore(t)
         \/ /\ pc[t] \notin Adjusting \cup {"rec_called", "rec_times"}
            /\ pc'[t] \notin Adjusting \cup {"rec_called", "rec_times"}
            /\ UNCHANGED data
<1>1. CASE Begin(t)
  BY <1>1 DEF Begin, CalculateNewDifficulty, SetDifficulty, GetStats, Call,
     Enter, Adjusting
<1>2. CASE \/ CalculateSkip(t) \/ CalculateUnchanged(t)
           \/ StatsCurrent(t) \/ StatsAsk(t) \/ StatsHistory(t)
           \/ StatsReport(t)
  BY <1>2 DEF CalculateSkip, CalculateUnchanged, StatsCurrent, StatsAsk,
     StatsHistory, StatsReport, Await, Drop, Return, Reached, Adjusting
<1>3. QED
  BY <1>1, <1>2 DEF Continue

LEMMA RatioStep ==
  ASSUME ManagerLocks, DOMAIN arg = Tasks, RatioReady, [Next]_vars
  PROVE  RatioReady'
<1>a. pc \in [Tasks -> Points]
  BY DEF ManagerLocks, LockInv
<1>1. CASE UNCHANGED vars
  BY <1>1 DEF vars, data, taskVars, RatioReady, Enough, Span
<1>2. ASSUME NEW t \in Tasks, Begin(t) \/ Continue(t)
      PROVE  RatioReady'
  <2>a. \A u \in Tasks \ {t} : pc'[u] = pc[u]
    BY <1>a, <1>2, OthersStay
  <2>1. CASE RecordPush(t)
    <3>1. pc'[t] = "idle"
      BY <1>a, <2>1 DEF RecordPush, Return
    <3>2. \A u \in Tasks : pc[u] \notin Adjusting
      BY <2>1, NoRecordMeanwhile DEF RecordPush
    <3>3. QED
      BY <2>a, <3>1, <3>2 DEF RatioReady, Adjusting
  <2>2. CASE CalculateRatio(t)
    BY <2>a, <2>2 DEF CalculateRatio, data, RatioReady, Enough, Span
  <2>3. CASE times' = times /\ (pc[t] \in Adjusting \/ pc'[t] \notin Adjusting)
    BY <2>a, <2>3 DEF RatioReady, Enough, Span
  <2>4. CASE \/ \E s \in Timestamps : RecordBlockTime(t, s)
             \/ RecordAwait(t) \/ SetStore(t)
    <3>1. times' = times /\ pc'[t] \in {"rec_called", "rec_times", "idle"}
      BY <1>a, <2>4 DEF RecordBlockTime, RecordAwait, SetStore, Move, Await,
         Return, data
    <3>2. QED
      BY <2>3, <3>1 DEF Adjusting
  <2>5. CASE \/ CalculateRead(t) \/ CalculateAsk(t)
             \/ CalculateRecord(t) \/ CalculateUpdate(t)
    BY <2>3, <2>5 DEF CalculateRead, CalculateAsk, CalculateRecord,
       CalculateUpdate, data, Reached, Adjusting
  <2>6. QED
    BY <1>a, <1>2, <2>1, <2>2, <2>3, <2>4, <2>5, Bystander DEF data
<1>3. QED
  BY <1>1, <1>2 DEF Next

-----------------------------------------------------------------------------
(* Type correctness.                                                       *)

\* What one step has to show: the data stay typed, and the task that moves
\* keeps an argument that fits the place it has reached.
LEMMA TypeStep ==
  ASSUME TypeOK, ManagerLocks', NEW t \in Tasks, Begin(t) \/ Continue(t),
         DataTypes', arg'[t] \in ArgOf(pc'[t])
  PROVE  TypeOK'
<1>1. /\ pc \in [Tasks -> Points] /\ DOMAIN arg = Tasks
      /\ \A u \in Tasks : arg[u] \in ArgOf(pc[u])
  BY DEF TypeOK, LockInv
<1>2. /\ DOMAIN arg' = Tasks
      /\ \A u \in Tasks \ {t} : pc'[u] = pc[u] /\ arg'[u] = arg[u]
  BY <1>1, OthersStay
<1>3. \A u \in Tasks : arg'[u] \in ArgOf(pc'[u])
  BY <1>1, <1>2 DEF ArgOf, Computed
<1>4. QED
  BY <1>2, <1>3 DEF TypeOK, DataTypes, ManagerLocks

LEMMA ClampBounds ==
  ASSUME NEW x \in Int
  PROVE  /\ Clamp(MinDifficulty, x, MaxDifficulty) \in Nat
         /\ MinDifficulty <= Clamp(MinDifficulty, x, MaxDifficulty)
         /\ Clamp(MinDifficulty, x, MaxDifficulty) <= MaxDifficulty
         /\ Clamp(MinDifficulty, x, MaxDifficulty) \in
               {x, MinDifficulty, MaxDifficulty}
         /\ x < MinDifficulty => Clamp(MinDifficulty, x, MaxDifficulty) = MinDifficulty
         /\ x > MaxDifficulty => Clamp(MinDifficulty, x, MaxDifficulty) = MaxDifficulty
         /\ x \in MinDifficulty..MaxDifficulty =>
              Clamp(MinDifficulty, x, MaxDifficulty) = x
BY DifficultyAssumption DEF Clamp

\* The adjustment calculate_new_difficulty computes is typed and bounded.
LEMMA AdjustmentComputed ==
  ASSUME TypeOK, RatioReady, NEW t \in Tasks, CalculateRead(t)
  PROVE  arg'[t] \in Adjustment /\ Bounded(arg'[t])
<1>1. /\ times \in Seq(BlockTime) /\ current \in Nat /\ DOMAIN arg = Tasks
  BY DEF TypeOK
<1>2. Enough /\ Span > 0
  BY DEF CalculateRead, Reached, RatioReady, Adjusting
<1>3. Len(times) > 0
  BY <1>1, <1>2, DifficultyAssumption DEF Enough
<1>4. Expected \in Nat /\ Span \in Nat \ {0}
  BY <1>1, <1>2, <1>3, PeriodTypes
<1>5. PICK p \in Products(current) :
        arg'[t] = [previous |-> current,
                   new |-> Clamp(MinDifficulty, p, MaxDifficulty),
                   newest |-> times[Len(times)].height]
  BY <1>1 DEF CalculateRead, Keep
<1>6. p \in Nat /\ current - 4 <= 4 * p /\ p <= 4 * current
  BY <1>1, <1>4, ProductBounds
<1> DEFINE new == Clamp(MinDifficulty, p, MaxDifficulty)
<1>7. /\ new \in Nat /\ MinDifficulty <= new /\ new <= MaxDifficulty
      /\ p < MinDifficulty => new = MinDifficulty
      /\ p > MaxDifficulty => new = MaxDifficulty
      /\ p \in MinDifficulty..MaxDifficulty => new = p
  BY <1>6, ClampBounds
<1> HIDE DEF new
<1>8. current \in MinDifficulty..MaxDifficulty =>
        current - 4 <= 4 * new /\ new <= 4 * current
  BY <1>1, <1>6, <1>7, DifficultyAssumption
<1>9. arg'[t].new = new /\ arg'[t].previous = current
  BY <1>5 DEF new
<1>10. arg'[t] \in Adjustment
  <2>1. times[Len(times)] \in BlockTime
    BY <1>1, <1>3
  <2>2. times[Len(times)].height \in Nat
    BY <2>1 DEF BlockTime
  <2>3. QED
    BY <1>1, <1>5, <1>7, <2>2 DEF Adjustment, new
<1>11. QED
  BY <1>7, <1>8, <1>9, <1>10 DEF Bounded

LEMMA BeginTypes ==
  ASSUME TypeOK, ManagerLocks', NEW t \in Tasks, Begin(t)
  PROVE  TypeOK'
<1>1. /\ DataTypes /\ pc \in [Tasks -> Points] /\ DOMAIN arg = Tasks
  BY DEF TypeOK, DataTypes, LockInv
<1>2. DataTypes'
  <2>1. CASE \E s \in Timestamps : RecordBlockTime(t, s)
    BY <1>1, <2>1 DEF RecordBlockTime, DataTypes
  <2>2. CASE UNCHANGED data
    BY <1>1, <2>2 DEF data, DataTypes
  <2>3. QED
    BY <2>1, <2>2 DEF Begin, CalculateNewDifficulty, SetDifficulty, GetStats,
       Call
<1>3. arg'[t] \in ArgOf(pc'[t])
  <2>1. CASE \E s \in Timestamps : RecordBlockTime(t, s)
    BY <1>1, <2>1, DifficultyAssumption
       DEF RecordBlockTime, Move, Keep, ArgOf, Computed, BlockTime, DataTypes
  <2>2. CASE CalculateNewDifficulty(t) \/ GetStats(t)
    BY <1>1, <2>2 DEF CalculateNewDifficulty, GetStats, Call, Enter, ArgOf, Computed
  <2>3. CASE \E d \in Overrides : SetDifficulty(t, d)
    BY <1>1, <2>3, DifficultyAssumption DEF SetDifficulty, Call, Enter, ArgOf, Computed
  <2>4. QED
    BY <2>1, <2>2, <2>3 DEF Begin
<1>4. QED
  BY <1>2, <1>3, TypeStep

LEMMA ContinueTypes ==
  ASSUME TypeOK, RatioReady, ManagerLocks', NEW t \in Tasks, Continue(t)
  PROVE  TypeOK'
<1>1. /\ DataTypes /\ pc \in [Tasks -> Points] /\ DOMAIN arg = Tasks
      /\ arg[t] \in ArgOf(pc[t])
  BY DEF TypeOK, DataTypes, LockInv
<1>2. SUFFICES DataTypes' /\ arg'[t] \in ArgOf(pc'[t])
  BY TypeStep
<1>3. CASE \/ RecordAwait(t) \/ CalculateSkip(t) \/ CalculateRatio(t)
           \/ CalculateAsk(t)
  BY <1>1, <1>3 DEF RecordAwait, CalculateSkip, CalculateRatio, CalculateAsk,
     Reached, Await, ArgOf, Computed, data, DataTypes
<1>4. CASE \/ CalculateUnchanged(t) \/ StatsReport(t)
           \/ StatsCurrent(t) \/ StatsAsk(t) \/ StatsHistory(t)
  BY <1>1, <1>4 DEF CalculateUnchanged, StatsReport, StatsCurrent, StatsAsk,
     StatsHistory, Reached, Await, Drop, Return, ArgOf, Computed, data,
     DataTypes
<1>5. CASE RecordPush(t)
  <2>1. arg[t] \in BlockTime
    BY <1>1, <1>5 DEF RecordPush, Reached, ArgOf, Computed
  <2>2. Append(times, arg[t]) \in Seq(BlockTime)
    BY <1>1, <2>1 DEF DataTypes
  <2>3. times' \in Seq(BlockTime)
    BY <1>5, <2>2, WindowProperties DEF RecordPush
  <2>4. QED
    BY <1>1, <1>5, <2>3 DEF RecordPush, Return, ArgOf, Computed, DataTypes
<1>6. CASE CalculateRead(t)
  <2>1. arg'[t] \in Adjustment /\ pc'[t] = "calc_computed"
    BY <1>1, <1>6, AdjustmentComputed DEF CalculateRead, Drop
  <2>2. QED
    BY <1>1, <1>6, <2>1 DEF CalculateRead, ArgOf, Computed, data, DataTypes
<1>7. CASE CalculateRecord(t)
  <2>1. arg[t] \in Adjustment /\ arg' = arg /\ pc'[t] = "calc_current"
    BY <1>1, <1>7 DEF CalculateRecord, Reached, Await, ArgOf, Computed
  <2>2. QED
    BY <1>1, <1>7, <2>1 DEF CalculateRecord, ArgOf, Computed, DataTypes
<1>8. CASE CalculateUpdate(t)
  <2>1. arg[t] \in Adjustment
    BY <1>1, <1>8 DEF CalculateUpdate, Reached, ArgOf, Computed
  <2>2. QED
    BY <1>1, <1>8, <2>1
       DEF CalculateUpdate, Return, ArgOf, Computed, DataTypes, Adjustment
<1>9. CASE SetStore(t)
  BY <1>1, <1>9 DEF SetStore, Reached, Return, ArgOf, Computed, DataTypes
<1>10. QED
  BY <1>3, <1>4, <1>5, <1>6, <1>7, <1>8, <1>9 DEF Continue

\* Every reachable state is well typed: no adjustment divides by zero or
\* leaves the naturals, and no wrapped height or time reaches the records.
THEOREM ManagerTypeCorrect == Spec => [](TypeOK /\ RatioReady)
<1>1. Init => TypeOK /\ RatioReady
  <2>1. SUFFICES ASSUME Init PROVE TypeOK /\ RatioReady
    OBVIOUS
  <2>2. LockInv(Locks, Points, Wants, HeldAt)
    BY <2>1, NoCallsKeepLocks, IdleHoldsNothing DEF Init
  <2>3. /\ DOMAIN arg = Tasks
        /\ \A t \in Tasks : pc[t] = "idle" /\ arg[t] \in ArgOf(pc[t])
    BY <2>1 DEF Init, NoCalls, ArgOf, Computed
  <2>4. RatioReady
    BY <2>3 DEF RatioReady, Adjusting
  <2>5. times \in Seq(BlockTime) /\ history \in Seq(Adjustment)
    BY <2>1, EmptySeq DEF Init
  <2>6. current \in Nat /\ nextHeight \in Nat /\ overridden \in BOOLEAN
    BY <2>1, DifficultyAssumption DEF Init
  <2>7. QED
    BY <2>2, <2>3, <2>4, <2>5, <2>6 DEF TypeOK
<1>2. ManagerLocks /\ ManagerLocks' /\ TypeOK /\ RatioReady /\ [Next]_vars
        => TypeOK' /\ RatioReady'
  <2>1. SUFFICES ASSUME ManagerLocks, ManagerLocks', TypeOK, RatioReady,
                        [Next]_vars
                 PROVE  TypeOK' /\ RatioReady'
    OBVIOUS
  <2>2. RatioReady'
    BY <2>1, RatioStep DEF TypeOK
  <2>3. CASE UNCHANGED vars
    BY <2>1, <2>2, <2>3 DEF TypeOK, ManagerLocks, vars, data, taskVars
  <2>4. CASE \E t \in Tasks : Begin(t) \/ Continue(t)
    BY <2>1, <2>2, <2>4, BeginTypes, ContinueTypes
  <2>5. QED
    BY <2>1, <2>3, <2>4 DEF Next
<1>3. QED
  BY <1>1, <1>2, ManagerLocksHeld, PTL DEF Spec

-----------------------------------------------------------------------------
(* The record of an adjustment and its update are two locks apart.         *)

\* One adjustment at a time is between its record and its update, and the
\* history has no other holder then.
LEMMA OneUpdating ==
  ASSUME ManagerLocks, NEW t \in Tasks, NEW u \in Updating,
         \/ Reached(t, "calc_history", "history")
         \/ t \in Updating
  PROVE  t = u
<1>1. /\ "history" \in Locks /\ u \in Tasks /\ pc[u] = "calc_current"
      /\ "history" \in HeldAt["calc_current"]
      /\ Wants["calc_current"]["history"] = "write"
      /\ "calc_current" \in Points
  BY DEF Updating, Locks, Points, Wants, Writes, HeldAt
<1>2. Holds(locks["history"], u)
  BY <1>1 DEF ManagerLocks, LockInv, LockDiscipline
<1>3. Holds(locks["history"], t)
  BY <1>1 DEF Reached, Updating, ManagerLocks, LockInv, LockDiscipline
<1>4. QED
  BY <1>1, <1>2, <1>3, OneHolder DEF ManagerLocks

LEMMA HistoryStep ==
  ASSUME TypeOK, HistoryInv, [Next]_vars
  PROVE  HistoryInv'
<1>a. /\ ManagerLocks /\ pc \in [Tasks -> Points] /\ DOMAIN arg = Tasks
      /\ history \in Seq(Adjustment) /\ \A t \in Tasks : arg[t] \in ArgOf(pc[t])
  BY DEF TypeOK, ManagerLocks, LockInv
<1>1. CASE UNCHANGED vars
  BY <1>1 DEF vars, data, taskVars, HistoryInv, Updating, SetBy
<1>2. ASSUME NEW t \in Tasks, Begin(t) \/ Continue(t)
      PROVE  HistoryInv'
  <2>a. \A u \in Tasks \ {t} : pc'[u] = pc[u] /\ arg'[u] = arg[u]
    BY <1>a, <1>2, OthersStay
  <2>1. CASE CalculateRecord(t)
    <3>1. Updating = {}
      BY <1>a, <2>1, OneUpdating DEF CalculateRecord, Reached, Updating
    <3>2. Updating' = {t} /\ arg' = arg
      BY <1>a, <2>a, <2>1, <3>1 DEF CalculateRecord, Await, Updating
    <3>3. arg[t] \in Adjustment
      BY <1>a, <2>1 DEF CalculateRecord, Reached, ArgOf, Computed
    <3>4. /\ history' = Append(history, arg[t])
          /\ history' # << >> /\ history'[Len(history')] = arg[t]
          /\ Len(history') - 1 = Len(history)
          /\ \A i \in 1..Len(history) : history'[i] = history[i]
      BY <1>a, <2>1, <3>3 DEF CalculateRecord
    <3>5. SetBy(history', Len(history') - 1) = SetBy(history, Len(history))
      BY <1>a, <3>4 DEF SetBy
    <3>6. current' = current /\ overridden' = overridden
      BY <2>1 DEF CalculateRecord
    <3>7. QED
      BY <3>1, <3>2, <3>4, <3>5, <3>6 DEF HistoryInv
  <2>2. CASE CalculateUpdate(t)
    <3>1. t \in Updating /\ Updating = {t}
      BY <1>a, <2>2, OneUpdating DEF CalculateUpdate, Reached, Updating
    <3>2. Updating' = {}
      BY <1>a, <2>a, <2>2, <3>1 DEF CalculateUpdate, Return, Updating
    <3>3. /\ history' = history /\ current' = arg[t].new
          /\ history # << >> /\ history[Len(history)] = arg[t]
      BY <2>2, <3>1 DEF CalculateUpdate, HistoryInv
    <3>4. Len(history) # 0
      BY <1>a, <3>3
    <3>5. QED
      BY <3>2, <3>3, <3>4 DEF HistoryInv, SetBy
  <2>3. CASE SetStore(t)
    <3>1. overridden' = TRUE /\ history' = history
      BY <2>3 DEF SetStore
    <3>2. Updating' = Updating /\ \A u \in Updating : arg'[u] = arg[u]
      BY <1>a, <2>a, <2>3 DEF SetStore, Reached, Return, Updating
    <3>3. QED
      BY <3>1, <3>2 DEF HistoryInv
  <2>4. CASE /\ pc[t] # "calc_current" /\ pc'[t] # "calc_current"
             /\ UNCHANGED <<history, current, overridden>>
    <3>1. Updating' = Updating /\ \A u \in Updating : arg'[u] = arg[u]
      BY <1>a, <2>a, <2>4 DEF Updating
    <3>2. QED
      BY <2>4, <3>1 DEF HistoryInv, SetBy
  <2>5. CASE (\E s \in Timestamps : RecordBlockTime(t, s)) \/ RecordAwait(t)
    BY <1>a, <2>4, <2>5 DEF RecordBlockTime, RecordAwait, Move, Await, data
  <2>6. CASE RecordPush(t)
    BY <1>a, <2>4, <2>6 DEF RecordPush, Reached, Return
  <2>7. CASE CalculateRatio(t) \/ CalculateRead(t) \/ CalculateAsk(t)
    BY <1>a, <2>4, <2>7 DEF CalculateRatio, CalculateRead, CalculateAsk,
       Reached, Await, Drop, data
  <2>8. QED
    BY <1>a, <1>2, <2>1, <2>2, <2>3, <2>4, <2>5, <2>6, <2>7, Bystander
       DEF data, Adjusting
<1>3. QED
  BY <1>1, <1>2 DEF Next

-----------------------------------------------------------------------------
(* Every adjustment is bounded.                                            *)

LEMMA BoundsStep ==
  ASSUME TypeOK, RatioReady, BoundsInv, [Next]_vars
  PROVE  BoundsInv'
<1>a. /\ pc \in [Tasks -> Points] /\ DOMAIN arg = Tasks
      /\ history \in Seq(Adjustment) /\ \A t \in Tasks : arg[t] \in ArgOf(pc[t])
  BY DEF TypeOK, LockInv
<1>1. CASE UNCHANGED vars
  BY <1>1 DEF vars, data, taskVars, BoundsInv, ToRecord
<1>2. ASSUME NEW t \in Tasks, Begin(t) \/ Continue(t)
      PROVE  BoundsInv'
  <2>a. \A u \in Tasks \ {t} : pc'[u] = pc[u] /\ arg'[u] = arg[u]
    BY <1>a, <1>2, OthersStay
  <2>1. CASE CalculateRead(t)
    <3>1. Bounded(arg'[t]) /\ history' = history
      BY <2>1, AdjustmentComputed DEF CalculateRead, data
    <3>2. QED
      BY <1>a, <2>a, <3>1 DEF BoundsInv, ToRecord
  <2>2. CASE CalculateRecord(t)
    <3>1. Bounded(arg[t]) /\ arg[t] \in Adjustment /\ pc'[t] = "calc_current"
      BY <1>a, <2>2 DEF CalculateRecord, Reached, Await, BoundsInv, ToRecord,
            ArgOf, Computed
    <3>2. \A i \in 1..Len(history') : Bounded(history'[i])
      BY <1>a, <2>2, <3>1 DEF CalculateRecord, BoundsInv
    <3>3. QED
      BY <2>a, <3>1, <3>2 DEF BoundsInv, ToRecord
  <2>3. CASE pc'[t] \notin {"calc_computed", "calc_history"} /\ history' = history
    BY <2>a, <2>3 DEF BoundsInv, ToRecord
  <2>7. CASE CalculateAsk(t)
    <3>1. /\ pc[t] = "calc_computed" /\ arg' = arg /\ history' = history
          /\ pc'[t] = "calc_history"
      BY <1>a, <2>7 DEF CalculateAsk, Await, data
    <3>2. QED
      BY <2>a, <3>1 DEF BoundsInv, ToRecord
  <2>4. CASE \/ \E s \in Timestamps : RecordBlockTime(t, s)
             \/ RecordAwait(t) \/ RecordPush(t) \/ CalculateRatio(t)
    BY <1>a, <2>3, <2>4 DEF RecordBlockTime, RecordAwait, RecordPush,
       CalculateRatio, Move, Await, Return, data
  <2>5. CASE CalculateUpdate(t) \/ SetStore(t)
    BY <1>a, <2>3, <2>5 DEF CalculateUpdate, SetStore, Return
  <2>6. QED
    BY <1>a, <1>2, <2>1, <2>2, <2>3, <2>4, <2>5, <2>7, Bystander DEF data, Adjusting
<1>3. QED
  BY <1>1, <1>2 DEF Next

\* However the recorded times are ordered, and whatever a wrapped difference
\* of them makes of the ratio, every adjustment in the history lies within
\* the bounds and moves a difficulty that did by at most a factor of four.
THEOREM AdjustmentsBoundedHolds == Spec => []AdjustmentsBounded
<1>1. Init => BoundsInv
  BY DEF Init, NoCalls, BoundsInv, ToRecord
<1>2. TypeOK /\ RatioReady /\ BoundsInv /\ [Next]_vars => BoundsInv'
  BY BoundsStep
<1>3. BoundsInv => AdjustmentsBounded
  BY DEF BoundsInv, AdjustmentsBounded
<1>4. QED
  BY <1>1, <1>2, <1>3, ManagerTypeCorrect, PTL DEF Spec

\* Whoever reads the history finds only bounded moves and, of a manager nobody
\* has overridden, in its last record the difficulty in force.
THEOREM HistoryAgreesHolds == Spec => []HistoryAgrees
<1>1. Init => HistoryInv
  BY DEF Init, NoCalls, HistoryInv, Updating, SetBy
<1>2. TypeOK /\ HistoryInv /\ [Next]_vars => HistoryInv'
  BY HistoryStep
<1>3. TypeOK /\ HistoryInv /\ AdjustmentsBounded => HistoryAgrees
  <2>1. SUFFICES ASSUME TypeOK, HistoryInv, ~overridden, Updating # {}
                 PROVE  WriteHeld(locks["history"])
    BY DEF HistoryAgrees, HistoryInv, AdjustmentsBounded
  <2>2. PICK u \in Tasks : pc[u] = "calc_current"
    BY <2>1 DEF Updating
  <2>3. /\ "history" \in Locks /\ "history" \in HeldAt[pc[u]]
        /\ Wants[pc[u]]["history"] = "write"
    BY <2>2 DEF Locks, Points, Wants, Writes, HeldAt
  <2>4. /\ Holds(locks["history"], u)
        /\ locks["history"][u].mode = "write"
        /\ u \in DOMAIN locks["history"]
    BY <2>1, <2>3 DEF TypeOK, LockInv, LockDiscipline, WellFormed, Requests
  <2>5. QED
    BY <2>4 DEF WriteHeld, HoldsWrite
<1>4. QED
  BY <1>1, <1>2, <1>3, ManagerTypeCorrect, AdjustmentsBoundedHolds, PTL DEF Spec

-----------------------------------------------------------------------------
(* What an adjustment overlooks.                                           *)

\* A new record changes nothing about what an adjustment had overlooked
\* before it.
LEMMA SameBlocksKept ==
  ASSUME NEW log \in Seq(Adjustment), NEW a \in Adjustment,
         NEW n \in 0..Len(log), NEW r, SameBlocksSince(log, r, n)
  PROVE  /\ SameBlocksSince(Append(log, a), r, n)
         /\ n = Len(log) /\ a.newest = r.newest =>
              SameBlocksSince(Append(log, a), r, n + 1)
<1> DEFINE more == Append(log, a)
<1>1. /\ \A k \in 1..Len(log) : more[k] = log[k]
      /\ more[Len(log) + 1] = a
      /\ Len(log) \in Nat
  OBVIOUS
<1> HIDE DEF more
<1>2. PICK j \in 0..n : /\ r.previous = SetBy(log, j)
                        /\ \A k \in (j + 1)..n : log[k].newest = r.newest
  BY DEF SameBlocksSince
<1>3. SetBy(more, j) = SetBy(log, j)
  BY <1>1 DEF SetBy
<1>4. \A k \in (j + 1)..n : more[k].newest = r.newest
  BY <1>1, <1>2
<1>5. SameBlocksSince(more, r, n)
  BY <1>2, <1>3, <1>4 DEF SameBlocksSince
<1>6. ASSUME n = Len(log), a.newest = r.newest
      PROVE  SameBlocksSince(more, r, n + 1)
  <2>1. \A k \in (j + 1)..(n + 1) : more[k].newest = r.newest
    BY <1>1, <1>4, <1>6
  <2>2. j \in 0..(n + 1)
    OBVIOUS
  <2>3. QED
    BY <1>2, <1>3, <2>1, <2>2 DEF SameBlocksSince
<1>7. QED
  BY <1>5, <1>6 DEF more

LEMMA OverlookStep ==
  ASSUME TypeOK, HistoryInv, OverlookInv, [Next]_vars
  PROVE  OverlookInv'
<1>a. /\ ManagerLocks /\ pc \in [Tasks -> Points] /\ DOMAIN arg = Tasks
      /\ history \in Seq(Adjustment) /\ \A t \in Tasks : arg[t] \in ArgOf(pc[t])
  BY DEF TypeOK, ManagerLocks, LockInv
<1>1. CASE UNCHANGED vars
  BY <1>1 DEF vars, data, taskVars, OverlookInv, OverlooksSameBlocksOnly,
     ToRecord
<1>2. ASSUME NEW t \in Tasks, Begin(t) \/ Continue(t)
      PROVE  OverlookInv'
  <2>a. \A u \in Tasks \ {t} : pc'[u] = pc[u] /\ arg'[u] = arg[u]
    BY <1>a, <1>2, OthersStay
  <2>1. CASE RecordPush(t)
    <3>1. pc'[t] = "idle" /\ history' = history /\ overridden' = overridden
      BY <1>a, <2>1 DEF RecordPush, Return
    <3>2. \A u \in Tasks : pc'[u] \notin Computed
      BY <1>a, <2>a, <2>1, <3>1, NoRecordMeanwhile
         DEF RecordPush, Adjusting, Computed
    <3>3. QED
      BY <3>1, <3>2 DEF OverlookInv, OverlooksSameBlocksOnly, ToRecord, Computed
  <2>2. CASE CalculateRead(t)
    <3>1. /\ arg'[t].newest = times[Len(times)].height
          /\ arg'[t].previous = current
          /\ UNCHANGED <<times, history, current, overridden>>
      BY <1>a, <2>2 DEF CalculateRead, Keep, data
    <3>2. ASSUME ~overridden
          PROVE  SameBlocksSince(history, arg'[t], Len(history))
      <4>1. CASE Updating = {}
        <5>1. arg'[t].previous = SetBy(history, Len(history))
          BY <3>1, <3>2, <4>1 DEF HistoryInv
        <5>2. Len(history) \in 0..Len(history)
          BY <1>a
        <5>3. (Len(history) + 1)..Len(history) = {}
          BY <1>a
        <5>4. QED
          BY <5>1, <5>2, <5>3 DEF SameBlocksSince
      <4>2. CASE Updating # {}
        <5>1. PICK u \in Updating : TRUE
          BY <4>2
        <5>2. u \in Tasks /\ pc[u] = "calc_current"
          BY DEF Updating
        <5>3. /\ history # << >>
              /\ history[Len(history)].newest = times[Len(times)].height
          BY <5>2 DEF HistoryInv, OverlookInv, Computed
        <5>4. arg'[t].previous = SetBy(history, Len(history) - 1)
          BY <3>1, <3>2, <4>2 DEF HistoryInv
        <5>5. Len(history) \in Nat \ {0}
          BY <1>a, <5>3
        <5>6. /\ Len(history) - 1 \in 0..Len(history)
              /\ \A k \in ((Len(history) - 1) + 1)..Len(history) : k = Len(history)
          BY <5>5
        <5>7. QED
          BY <3>1, <5>3, <5>4, <5>6 DEF SameBlocksSince
      <4>3. QED
        BY <4>1, <4>2
    <3>3. QED
      BY <2>a, <3>1, <3>2 DEF OverlookInv, OverlooksSameBlocksOnly, ToRecord
  <2>3. CASE CalculateRecord(t)
    <3>1. /\ t \in ToRecord /\ arg[t] \in Adjustment
          /\ arg[t].newest = times[Len(times)].height
      BY <1>a, <2>3 DEF CalculateRecord, Reached, ToRecord, ArgOf, Computed,
         OverlookInv
    <3>2. /\ history' = Append(history, arg[t]) /\ arg' = arg
          /\ UNCHANGED <<times, overridden>>
          /\ pc'[t] = "calc_current"
      BY <1>a, <2>3 DEF CalculateRecord, Await
    <3>3. \A u \in Tasks : pc'[u] \in Computed =>
            arg'[u].newest = times'[Len(times')].height
      BY <2>a, <3>1, <3>2 DEF OverlookInv
    <3>4. ASSUME ~overridden, NEW u \in ToRecord'
          PROVE  SameBlocksSince(history', arg[u], Len(history) + 1)
      <4>1. u \in ToRecord /\ u # t /\ arg[u].newest = arg[t].newest
        BY <2>a, <3>1, <3>2 DEF ToRecord, OverlookInv, Computed
      <4>2. SameBlocksSince(history, arg[u], Len(history))
        BY <3>4, <4>1 DEF OverlookInv
      <4>3. Len(history) \in 0..Len(history)
        BY <1>a
      <4>4. QED
        BY <1>a, <3>1, <3>2, <4>1, <4>2, <4>3, SameBlocksKept
    <3>5. ASSUME ~overridden, NEW i \in 1..(Len(history) + 1)
          PROVE  SameBlocksSince(history', history'[i], i - 1)
      <4>1. CASE i = Len(history) + 1
        <5>1. SameBlocksSince(history, arg[t], Len(history))
          BY <3>1, <3>5 DEF OverlookInv
        <5>2. Len(history) \in 0..Len(history) /\ i - 1 = Len(history)
          BY <1>a, <4>1
        <5>3. history'[i] = arg[t]
          BY <1>a, <3>1, <3>2, <4>1
        <5>4. QED
          BY <1>a, <3>1, <3>2, <5>1, <5>2, <5>3, SameBlocksKept
      <4>2. CASE i \in 1..Len(history)
        <5>1. SameBlocksSince(history, history[i], i - 1)
          BY <3>5, <4>2 DEF OverlookInv, OverlooksSameBlocksOnly
        <5>2. i - 1 \in 0..Len(history)
          BY <1>a, <4>2
        <5>3. history'[i] = history[i]
          BY <1>a, <3>1, <3>2, <4>2
        <5>4. QED
          BY <1>a, <3>1, <3>2, <5>1, <5>2, <5>3, SameBlocksKept
      <4>3. QED
        BY <1>a, <4>1, <4>2
    <3>6. Len(history') = Len(history) + 1
      BY <1>a, <3>1, <3>2
    <3>7. QED
      BY <3>2, <3>3, <3>4, <3>5, <3>6 DEF OverlookInv, OverlooksSameBlocksOnly
  <2>4. CASE CalculateAsk(t)
    <3>1. /\ UNCHANGED <<times, history, overridden, arg>>
          /\ pc[t] = "calc_computed" /\ pc'[t] = "calc_history"
      BY <1>a, <2>4 DEF CalculateAsk, Await, data
    <3>2. \A u \in Tasks : pc'[u] \in Computed => pc[u] \in Computed
      BY <2>a, <3>1 DEF Computed
    <3>3. ToRecord' = ToRecord
      BY <2>a, <3>1 DEF ToRecord
    <3>4. QED
      BY <3>1, <3>2, <3>3 DEF OverlookInv, OverlooksSameBlocksOnly
  <2>5. CASE /\ pc'[t] \notin Computed /\ UNCHANGED <<times, history>>
             /\ ~overridden' => ~overridden
    <3>1. \A u \in Tasks : pc'[u] \in Computed =>
            u # t /\ pc[u] \in Computed /\ arg'[u] = arg[u]
      BY <2>a, <2>5
    <3>2. \A u \in ToRecord' : u \in ToRecord /\ arg'[u] = arg[u]
      BY <3>1, <2>a DEF ToRecord, Computed
    <3>3. \A u \in Tasks : pc'[u] \in Computed =>
            arg'[u].newest = times'[Len(times')].height
      BY <2>5, <3>1 DEF OverlookInv
    <3>4. ASSUME ~overridden'
          PROVE  \A u \in ToRecord' :
                   SameBlocksSince(history', arg'[u], Len(history'))
      <4>1. \A u \in ToRecord : SameBlocksSince(history, arg[u], Len(history))
        BY <2>5, <3>4 DEF OverlookInv
      <4>2. QED
        BY <2>5, <3>2, <4>1
    <3>5. OverlooksSameBlocksOnly'
      BY <2>5 DEF OverlookInv, OverlooksSameBlocksOnly
    <3>6. QED
      BY <3>3, <3>4, <3>5 DEF OverlookInv
  <2>6. CASE \/ \E s \in Timestamps : RecordBlockTime(t, s)
             \/ RecordAwait(t) \/ CalculateRatio(t)
    <3>1. /\ pc'[t] \in {"rec_called", "rec_times", "calc_read"}
          /\ UNCHANGED <<times, history, overridden>>
      BY <1>a, <2>6 DEF RecordBlockTime, RecordAwait, CalculateRatio, Move,
         Await, data
    <3>2. QED
      BY <2>5, <3>1 DEF Computed
  <2>7. CASE CalculateUpdate(t) \/ SetStore(t)
    BY <1>a, <2>5, <2>7 DEF CalculateUpdate, SetStore, Return, Computed
  <2>8. QED
    BY <1>a, <1>2, <2>1, <2>2, <2>3, <2>4, <2>5, <2>6, <2>7, Bystander
       DEF data, Adjusting, Computed
<1>3. QED
  BY <1>1, <1>2 DEF Next

-----------------------------------------------------------------------------
(* The window holds different blocks, and the ones about to be recorded    *)
(* are not among them.                                                     *)

\* Pushing a block that differs from those of the window.
LEMMA PushKeepsDistinct ==
  ASSUME NEW blocks \in Seq(BlockTime), NEW b \in BlockTime,
         \A i \in 1..Len(blocks) : blocks[i].height # b.height,
         \A i, j \in 1..Len(blocks) :
           blocks[i].height = blocks[j].height => i = j,
         NEW pushed, pushed = Window(Append(blocks, b))
  PROVE  /\ pushed \in Seq(BlockTime)
         /\ Len(pushed) <= AdjustmentInterval + 1
         /\ \A i \in 1..Len(pushed) :
              \/ pushed[i] = b
              \/ \E j \in 1..Len(blocks) : pushed[i] = blocks[j]
         /\ \A i, j \in 1..Len(pushed) :
              pushed[i].height = pushed[j].height => i = j
<1> DEFINE more == Append(blocks, b)
<1>1. /\ more \in Seq(BlockTime) /\ Len(more) = Len(blocks) + 1
      /\ Len(blocks) \in Nat /\ more[Len(more)] = b
      /\ \A i \in 1..Len(blocks) : more[i] = blocks[i]
  OBVIOUS
<1>p. pushed = Window(more)
  OBVIOUS
<1> HIDE DEF more
<1>2. /\ pushed \in Seq(BlockTime)
      /\ Len(pushed) <= AdjustmentInterval + 1
      /\ \A i \in 1..Len(pushed) :
           i + Len(more) - Len(pushed) \in 1..Len(more)
           /\ pushed[i] = more[i + Len(more) - Len(pushed)]
  BY <1>1, <1>p, WindowProperties
<1>3. \A i, j \in 1..Len(more) : more[i].height = more[j].height => i = j
  <2>1. ASSUME NEW i \in 1..Len(more), NEW j \in 1..Len(more),
               more[i].height = more[j].height
        PROVE  i = j
    <3>1. CASE i \in 1..Len(blocks) /\ j \in 1..Len(blocks)
      BY <1>1, <2>1, <3>1
    <3>2. CASE i \in 1..Len(blocks) /\ j = Len(more)
      BY <1>1, <2>1, <3>2
    <3>3. CASE i = Len(more) /\ j \in 1..Len(blocks)
      BY <1>1, <2>1, <3>3
    <3>4. QED
      BY <1>1, <3>1, <3>2, <3>3
  <2>2. QED
    BY <2>1
<1>4. Len(pushed) \in Nat /\ Len(more) \in Nat
  BY <1>1, <1>2
<1>5. ASSUME NEW i \in 1..Len(pushed), NEW j \in 1..Len(pushed),
             pushed[i].height = pushed[j].height
      PROVE  i = j
  <2>1. PICK k \in 1..Len(more) :
          k = i + Len(more) - Len(pushed) /\ pushed[i] = more[k]
    BY <1>2
  <2>2. PICK m \in 1..Len(more) :
          m = j + Len(more) - Len(pushed) /\ pushed[j] = more[m]
    BY <1>2
  <2>3. k = m
    BY <1>3, <1>5, <2>1, <2>2
  <2>4. QED
    BY <1>4, <2>1, <2>2, <2>3
<1>6. ASSUME NEW i \in 1..Len(pushed)
      PROVE  pushed[i] = b \/ \E j \in 1..Len(blocks) : pushed[i] = blocks[j]
  <2>1. CASE i + Len(more) - Len(pushed) = Len(more)
    BY <1>1, <1>2, <2>1
  <2>2. CASE i + Len(more) - Len(pushed) \in 1..Len(blocks)
    BY <1>1, <1>2, <2>2
  <2>3. QED
    BY <1>1, <1>2, <1>4, <2>1, <2>2
<1>7. QED
  BY <1>2, <1>5, <1>6

LEMMA WindowStep ==
  ASSUME TypeOK, RatioReady, RatioReady', WindowInv, [Next]_vars
  PROVE  WindowInv'
<1>a. /\ pc \in [Tasks -> Points] /\ DOMAIN arg = Tasks /\ nextHeight \in Nat
      /\ times \in Seq(BlockTime) /\ \A t \in Tasks : arg[t] \in ArgOf(pc[t])
  BY DEF TypeOK, LockInv
<1>b. \A t \in Recording : t \in Tasks /\ arg[t] \in BlockTime
  BY <1>a DEF Recording, ArgOf, Computed
<1>1. CASE UNCHANGED vars
  BY <1>1 DEF vars, data, taskVars, WindowInv, WindowStable, Recording,
     Enough, Span
<1>2. ASSUME NEW t \in Tasks, Begin(t) \/ Continue(t)
      PROVE  WindowInv'
  <2>a. \A u \in Tasks \ {t} : pc'[u] = pc[u] /\ arg'[u] = arg[u]
    BY <1>a, <1>2, OthersStay
  <2>1. CASE \E s \in Timestamps : RecordBlockTime(t, s)
    <3>1. /\ Recording' = Recording \cup {t} /\ t \notin Recording
          /\ times' = times /\ nextHeight' = nextHeight + 1
          /\ arg'[t].height = nextHeight
      BY <1>a, <2>a, <2>1 DEF RecordBlockTime, Move, Keep, Recording
    <3>2. \A u \in Recording : arg'[u] = arg[u]
      BY <1>b, <2>a, <3>1
    <3>3. \A i \in 1..Len(times) : times[i].height \in Nat
      <4>1. \A i \in 1..Len(times) : times[i] \in BlockTime
        BY <1>a
      <4>2. QED
        BY <4>1 DEF BlockTime
    <3>4. \A u \in Recording : arg[u].height \in Nat
      BY <1>b DEF BlockTime
    <3>5. WindowStable'
      BY <3>1 DEF WindowInv, WindowStable, RatioReady, Adjusting
    <3>6. QED
      BY <1>a, <3>1, <3>2, <3>3, <3>4, <3>5 DEF WindowInv
  <2>2. CASE RecordPush(t)
    <3>1. t \in Recording /\ arg[t] \in BlockTime
      BY <1>b, <2>2 DEF RecordPush, Reached, Recording
    <3>2. Recording' = Recording \ {t}
      BY <1>a, <2>a, <2>2 DEF RecordPush, Return, Recording
    <3>3. \A u \in Recording' : u \in Recording /\ arg'[u] = arg[u]
      BY <1>b, <2>a, <3>2
    <3>4. times' = Window(Append(times, arg[t])) /\ nextHeight' = nextHeight
      BY <2>2 DEF RecordPush
    <3>5. /\ \A i \in 1..Len(times) : times[i].height # arg[t].height
          /\ \A i, j \in 1..Len(times) : times[i].height = times[j].height => i = j
      BY <3>1 DEF WindowInv, WindowStable
    <3>6. /\ Len(times') <= AdjustmentInterval + 1
          /\ \A i \in 1..Len(times') :
               \/ times'[i] = arg[t]
               \/ \E j \in 1..Len(times) : times'[i] = times[j]
          /\ \A i, j \in 1..Len(times') :
               times'[i].height = times'[j].height => i = j
      <4>1. times \in Seq(BlockTime) /\ times' = Window(Append(times, arg[t]))
        BY <1>a, <3>4
      <4>2. QED
        BY <3>1, <3>5, <4>1, PushKeepsDistinct
    <3>7. WindowStable'
      BY <3>6 DEF WindowStable, RatioReady, Adjusting
    <3>8. \A i \in 1..Len(times') : times'[i].height < nextHeight'
      BY <3>1, <3>4, <3>6 DEF WindowInv
    <3>9. \A u \in Recording' :
            /\ arg'[u].height < nextHeight'
            /\ \A i \in 1..Len(times') : times'[i].height # arg'[u].height
            /\ \A v \in Recording' : arg'[v].height = arg'[u].height => v = u
      <4>1. TAKE u \in Recording'
      <4>2. u \in Recording /\ u # t /\ arg'[u] = arg[u]
        BY <3>2, <3>3
      <4>3. arg[t].height # arg[u].height
        BY <3>1, <4>2 DEF WindowInv
      <4>4. \A i \in 1..Len(times) : times[i].height # arg[u].height
        BY <4>2 DEF WindowInv
      <4>5. \A i \in 1..Len(times') : times'[i].height # arg'[u].height
        BY <3>6, <4>2, <4>3, <4>4
      <4>6. QED
        BY <3>3, <3>4, <4>2, <4>5 DEF WindowInv
    <3>10. QED
      BY <3>7, <3>8, <3>9 DEF WindowInv
  <2>3. CASE Recording' = Recording /\ UNCHANGED <<times, nextHeight>>
             /\ \A u \in Recording : arg'[u] = arg[u]
    <3>1. WindowStable'
      BY <2>3 DEF WindowInv, WindowStable, RatioReady, Adjusting
    <3>2. QED
      BY <2>3, <3>1 DEF WindowInv
  <2>4. CASE RecordAwait(t)
    <3>1. Recording' = Recording /\ arg' = arg /\ UNCHANGED data
      BY <1>a, <2>a, <2>4 DEF RecordAwait, Await, Recording
    <3>2. QED
      BY <2>3, <3>1 DEF data
  <2>5. CASE /\ t \notin Recording
             /\ pc'[t] \notin {"rec_called", "rec_times"}
             /\ UNCHANGED <<times, nextHeight>>
    <3>1. Recording' = Recording
      BY <2>a, <2>5 DEF Recording
    <3>2. \A u \in Recording : arg'[u] = arg[u]
      BY <1>b, <2>a, <2>5
    <3>3. QED
      BY <2>3, <2>5, <3>1, <3>2
  <2>6. CASE CalculateRatio(t) \/ CalculateRead(t) \/ CalculateAsk(t)
    BY <1>a, <2>5, <2>6 DEF CalculateRatio, CalculateRead, CalculateAsk,
       Reached, Await, Drop, data, Recording
  <2>7. CASE CalculateRecord(t) \/ CalculateUpdate(t) \/ SetStore(t)
    BY <1>a, <2>5, <2>7 DEF CalculateRecord, CalculateUpdate, SetStore,
       Reached, Await, Return, Recording
  <2>8. QED
    BY <1>a, <1>2, <2>1, <2>2, <2>4, <2>5, <2>6, <2>7, Bystander
       DEF data, Adjusting, Recording
<1>3. QED
  BY <1>1, <1>2 DEF Next

\* What an adjustment has read of the window, and computed from it, stays
\* good to its end, and the history is never more than the record it holds
\* ahead of the difficulty.
THEOREM ManagerInvHolds == Spec => []ManagerInv
<1>1. Init => ManagerInv
  <2>1. SUFFICES ASSUME Init PROVE ManagerInv
    OBVIOUS
  <2>2. /\ times = << >> /\ history = << >> /\ current = InitialDifficulty
        /\ \A t \in Tasks : pc[t] = "idle"
    BY <2>1 DEF Init, NoCalls
  <2>3. HistoryInv /\ BoundsInv /\ OverlookInv
    BY <2>2 DEF HistoryInv, BoundsInv, OverlookInv, Updating, ToRecord,
       Computed, OverlooksSameBlocksOnly, SetBy
  <2>4. WindowInv
    <3>1. Len(times) = 0 /\ Recording = {}
      BY <2>2 DEF Recording
    <3>2. QED
      BY <2>2, <3>1, DifficultyAssumption DEF WindowInv, WindowStable, Adjusting
  <2>5. QED
    BY <2>3, <2>4 DEF ManagerInv
<1>2. ASSUME TypeOK, RatioReady, TypeOK', RatioReady', ManagerInv, [Next]_vars
      PROVE  ManagerInv'
  <2>1. OverlookInv'
    BY <1>2, OverlookStep DEF ManagerInv
  <2>2. HistoryInv' /\ BoundsInv'
    BY <1>2, HistoryStep, BoundsStep DEF ManagerInv
  <2>3. WindowInv'
    BY <1>2, WindowStep DEF ManagerInv
  <2>4. QED
    BY <2>1, <2>2, <2>3 DEF ManagerInv
<1>3. QED
  BY <1>1, <1>2, ManagerTypeCorrect, PTL DEF Spec

\* No block is counted twice or leaves the window before its time, and an
\* adjustment under way never loses its blocks to the ones recorded since.
THEOREM WindowStableHolds == Spec => []WindowStable
<1>1. ManagerInv => WindowStable
  BY DEF ManagerInv, WindowInv
<1>2. QED
  BY <1>1, ManagerInvHolds, PTL

\* However many calls of calculate_new_difficulty pass each other by, an
\* adjustment misses none that was computed from older blocks than its own.
THEOREM OverlooksSameBlocksOnlyHolds == Spec => []OverlooksSameBlocksOnly
<1>1. ManagerInv => OverlooksSameBlocksOnly
  BY DEF ManagerInv, OverlookInv
<1>2. QED
  BY <1>1, ManagerInvHolds, PTL

-----------------------------------------------------------------------------
(* Waiting for locks.                                                      *)

\* An order of the locks that begins as given; the difficulty comes last.
Order(first) ==
  [l \in Locks |-> IF l = "current" THEN 0 ELSE IF l = first THEN 2 ELSE 1]

\* Only calculate_new_difficulty, which keeps the times, then asks for the
\* history.
LEMMA AdjustmentsAskOutOfOrder ==
  \A point \in Points \ {"calc_history"} :
    InOrder(Locks, Wants, HeldAt, Order("history"), point)
BY DEF InOrder, Points, Locks, Wants, Writes, Reads, HeldAt, Order

\* Only get_stats, which keeps the history, then asks for the times.
LEMMA ReportsAskOutOfOrder ==
  \A point \in Points \ {"stats_times"} :
    InOrder(Locks, Wants, HeldAt, Order("times"), point)
BY DEF InOrder, Points, Locks, Wants, Writes, Reads, HeldAt, Order

\* A circle needs an adjustment, a report and, as both only read the times, a
\* record_block_time that asks to write them.
THEOREM DeadlockShapeHolds == Spec => []DeadlockShape
<1>1. ManagerLocks => DeadlockShape
  <2>1. SUFFICES ASSUME ManagerLocks, NEW D \in SUBSET Tasks, Stuck(D)
                 PROVE  /\ \E t \in D : pc[t] = "calc_history"
                        /\ \E t \in D : pc[t] = "stats_times"
                        /\ \E t \in D : pc[t] = "rec_times"
    BY DEF DeadlockShape
  <2>2. Order("history") \in [Locks -> Nat] /\ Order("times") \in [Locks -> Nat]
    BY DEF Order
  <2>3. \A t \in D : pc[t] \in Points
    BY <2>1 DEF ManagerLocks, LockInv
  <2>4. \E t \in D : pc[t] = "calc_history"
    <3>1. \E t \in D : ~InOrder(Locks, Wants, HeldAt, Order("history"), pc[t])
      BY <2>1, <2>2, CircleLeavesOrder DEF ManagerLocks
    <3>2. QED
      BY <2>3, <3>1, AdjustmentsAskOutOfOrder
  <2>5. PICK t \in D : pc[t] = "stats_times"
    <3>1. \E t \in D : ~InOrder(Locks, Wants, HeldAt, Order("times"), pc[t])
      BY <2>1, <2>2, CircleLeavesOrder DEF ManagerLocks
    <3>2. QED
      BY <2>3, <3>1, ReportsAskOutOfOrder
  <2>6. PICK u \in D, l \in DOMAIN locks : Blocks(locks[l], u, t)
    BY <2>1 DEF Stuck
  <2>7. /\ l \in Locks /\ Wants["stats_times"][l] # "none"
        /\ l \notin HeldAt["stats_times"]
        /\ "write" \in {Wants[pc[u]][l], Wants["stats_times"][l]}
    BY <2>1, <2>5, <2>6, BlockedAwaits DEF ManagerLocks
  <2>8. l = "times" /\ Wants[pc[u]]["times"] = "write"
    BY <2>7 DEF Locks, Wants, HeldAt, Points, Writes, Reads
  <2>9. pc[u] = "rec_times"
    BY <2>3, <2>8 DEF Locks, Wants, Writes, Reads
  <2>10. QED
    BY <2>4, <2>5, <2>9
<1>2. QED
  BY <1>1, ManagerLocksHeld, PTL
=============================================================================
