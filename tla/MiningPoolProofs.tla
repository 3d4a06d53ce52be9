-------------------------- MODULE MiningPoolProofs --------------------------
(***************************************************************************)
(* Theorems about the mining pool, for any number of tasks and miners and  *)
(* any values of the bounds.                                               *)
(***************************************************************************)
EXTENDS MiningPool, LockedTasksProofs, FiniteSetTheorems

-----------------------------------------------------------------------------
(* The locks: each task holds exactly the guards its place in the code     *)
(* says it holds.                                                          *)

PoolLocks == LockInv(Locks, Points, Wants, HeldAt)

\* A task between two calls has no guard and waits for none.
LEMMA IdleHoldsNothing ==
  /\ "idle" \in Points
  /\ \A l \in Locks : Wants["idle"][l] = "none"
  /\ HeldAt["idle"] = {}
BY DEF Points, Locks, Wants, Writes, Reads, HeldAt, RegPoints, UnregPoints,
   SharePoints

-----------------------------------------------------------------------------
(* Every step of the pool keeps the locks in order.                        *)

\* Starting an operation asks for its first lock.
LEMMA BeginKeepsLocks ==
  ASSUME PoolLocks, NEW t \in Tasks, Begin(t)
  PROVE  PoolLocks'
<1>1. CASE \E m \in Miners : RegisterMiner(t, m)
  <2>1. \E v : Enter(t, v, "reg_miners", "miners", "write")
    BY <1>1 DEF RegisterMiner, Call
  <2>2. Asks(Locks, Points, Wants, HeldAt, "idle", {}, "reg_miners", "miners", "write")
    BY DEF Asks, Points, Locks, Wants, Writes, Reads, HeldAt, RegPoints,
       UnregPoints, SharePoints
  <2>3. QED
    BY <2>1, <2>2, EnterKeepsLocks DEF PoolLocks
<1>2. CASE \E m \in Miners : UnregisterMiner(t, m)
  <2>1. \E v : Enter(t, v, "unreg_miners", "miners", "write")
    BY <1>2 DEF UnregisterMiner, Call
  <2>2. Asks(Locks, Points, Wants, HeldAt, "idle", {}, "unreg_miners", "miners", "write")
    BY DEF Asks, Points, Locks, Wants, Writes, Reads, HeldAt, RegPoints,
       UnregPoints, SharePoints
  <2>3. QED
    BY <2>1, <2>2, EnterKeepsLocks DEF PoolLocks
<1>3. CASE \E s \in Share : SubmitShare(t, s)
  <2>1. \E v : Enter(t, v, "share_stats", "stats", "write")
    BY <1>3 DEF SubmitShare, Call
  <2>2. Asks(Locks, Points, Wants, HeldAt, "idle", {}, "share_stats", "stats", "write")
    BY DEF Asks, Points, Locks, Wants, Writes, Reads, HeldAt, RegPoints,
       UnregPoints, SharePoints
  <2>3. QED
    BY <2>1, <2>2, EnterKeepsLocks DEF PoolLocks
<1>4. CASE \E m \in Miners, a \in Amounts : ProcessPayout(t, m, a)
  <2>1. \E v : Enter(t, v, "pay_accounts", "accounts", "write")
    BY <1>4 DEF ProcessPayout, Call
  <2>2. Asks(Locks, Points, Wants, HeldAt, "idle", {}, "pay_accounts", "accounts", "write")
    BY DEF Asks, Points, Locks, Wants, Writes, Reads, HeldAt, RegPoints,
       UnregPoints, SharePoints
  <2>3. QED
    BY <2>1, <2>2, EnterKeepsLocks DEF PoolLocks
<1>5. CASE \E a \in Amounts : AddPoolFee(t, a)
  <2>1. \E v : Enter(t, v, "fee_stats", "stats", "write")
    BY <1>5 DEF AddPoolFee, Call
  <2>2. Asks(Locks, Points, Wants, HeldAt, "idle", {}, "fee_stats", "stats", "write")
    BY DEF Asks, Points, Locks, Wants, Writes, Reads, HeldAt, RegPoints,
       UnregPoints, SharePoints
  <2>3. QED
    BY <2>1, <2>2, EnterKeepsLocks DEF PoolLocks
<1>6. CASE ClearOldShares(t)
  <2>1. pc[t] = "idle" /\ Move(t, "clear_clock")
    BY <1>6 DEF ClearOldShares
  <2>2. /\ \A l \in Locks : Wants["clear_clock"][l] = Wants["idle"][l]
        /\ "clear_clock" \in Points /\ HeldAt["clear_clock"] = {}
    BY DEF Points, Locks, Wants, Writes, Reads, HeldAt, RegPoints,
       UnregPoints, SharePoints
  <2>3. QED
    BY <2>1, <2>2, MoveKeepsLocks DEF PoolLocks
<1>7. CASE \E m \in Miners : CalculateMinerPayout(t, m)
  <2>1. \E v : Enter(t, v, "est_own", "shares", "read")
    BY <1>7 DEF CalculateMinerPayout, Call
  <2>2. Asks(Locks, Points, Wants, HeldAt, "idle", {}, "est_own", "shares", "read")
    BY DEF Asks, Points, Locks, Wants, Writes, Reads, HeldAt, RegPoints,
       UnregPoints, SharePoints
  <2>3. QED
    BY <2>1, <2>2, EnterKeepsLocks DEF PoolLocks
<1>8. CASE \E w \in Works : DistributeWork(t, w)
  <2>1. \E v : Enter(t, v, "dist_miners", "miners", "read")
    BY <1>8 DEF DistributeWork, Call
  <2>2. Asks(Locks, Points, Wants, HeldAt, "idle", {}, "dist_miners", "miners", "read")
    BY DEF Asks, Points, Locks, Wants, Writes, Reads, HeldAt, RegPoints,
       UnregPoints, SharePoints
  <2>3. QED
    BY <2>1, <2>2, EnterKeepsLocks DEF PoolLocks
<1>9. CASE GetStats(t)
  <2>1. \E v : Enter(t, v, "stats_stats", "stats", "read")
    BY <1>9 DEF GetStats, Call
  <2>2. Asks(Locks, Points, Wants, HeldAt, "idle", {}, "stats_stats", "stats", "read")
    BY DEF Asks, Points, Locks, Wants, Writes, Reads, HeldAt, RegPoints,
       UnregPoints, SharePoints
  <2>3. QED
    BY <2>1, <2>2, EnterKeepsLocks DEF PoolLocks
<1>10. CASE GetDetailedStats(t)
  <2>1. \E v : Enter(t, v, "det_stats", "stats", "read")
    BY <1>10 DEF GetDetailedStats, Call
  <2>2. Asks(Locks, Points, Wants, HeldAt, "idle", {}, "det_stats", "stats", "read")
    BY DEF Asks, Points, Locks, Wants, Writes, Reads, HeldAt, RegPoints,
       UnregPoints, SharePoints
  <2>3. QED
    BY <2>1, <2>2, EnterKeepsLocks DEF PoolLocks
<1>11. CASE GetPoolEfficiency(t)
  <2>1. \E v : Enter(t, v, "eff_stats", "stats", "read")
    BY <1>11 DEF GetPoolEfficiency, Call
  <2>2. Asks(Locks, Points, Wants, HeldAt, "idle", {}, "eff_stats", "stats", "read")
    BY DEF Asks, Points, Locks, Wants, Writes, Reads, HeldAt, RegPoints,
       UnregPoints, SharePoints
  <2>3. QED
    BY <2>1, <2>2, EnterKeepsLocks DEF PoolLocks
<1>12. QED
  BY <1>1, <1>2, <1>3, <1>4, <1>5, <1>6, <1>7, <1>8, <1>9, <1>10, <1>11
     DEF Begin

\* Every later segment has the guards it runs under and asks for the next
\* lock, or returns.
LEMMA ContinueKeepsLocks ==
  ASSUME PoolLocks, NEW t \in Tasks, Continue(t)
  PROVE  PoolLocks'
<1> USE DEF PoolLocks
<1>a. DOMAIN locks = Locks /\ LockDiscipline(Wants, HeldAt)
  BY DEF LockInv
<1>1. CASE RegisterRefused(t)
  BY <1>1, ReturnKeepsLocks, IdleHoldsNothing DEF RegisterRefused
<1>2. CASE RegisterInsert(t)
  <2>1. Asks(Locks, Points, Wants, HeldAt, "reg_miners", {"miners"},
             "reg_accounts", "accounts", "write")
    BY DEF Asks, Points, Locks, Wants, Writes, Reads, HeldAt, RegPoints,
       UnregPoints, SharePoints
  <2>2. QED
    BY <1>2, <2>1, AsksKeepsLocks DEF RegisterInsert, Reached
<1>3. CASE RegisterAccount(t)
  <2>1. Asks(Locks, Points, Wants, HeldAt, "reg_accounts", {"accounts"},
             "reg_stats", "stats", "write")
    BY DEF Asks, Points, Locks, Wants, Writes, Reads, HeldAt, RegPoints,
       UnregPoints, SharePoints
  <2>2. QED
    BY <1>3, <2>1, AsksKeepsLocks DEF RegisterAccount, Reached
<1>4. CASE RegisterCount(t)
  BY <1>4, ReturnKeepsLocks, IdleHoldsNothing DEF RegisterCount
<1>5. CASE UnregisterRemove(t)
  <2>1. Asks(Locks, Points, Wants, HeldAt, "unreg_miners", {"miners"},
             "unreg_accounts", "accounts", "write")
    BY DEF Asks, Points, Locks, Wants, Writes, Reads, HeldAt, RegPoints,
       UnregPoints, SharePoints
  <2>2. QED
    BY <1>5, <2>1, AsksKeepsLocks DEF UnregisterRemove, Reached
<1>6. CASE UnregisterAccount(t)
  <2>1. Asks(Locks, Points, Wants, HeldAt, "unreg_accounts", {"accounts"},
             "unreg_stats", "stats", "write")
    BY DEF Asks, Points, Locks, Wants, Writes, Reads, HeldAt, RegPoints,
       UnregPoints, SharePoints
  <2>2. QED
    BY <1>6, <2>1, AsksKeepsLocks DEF UnregisterAccount, Reached
<1>7. CASE UnregisterCount(t)
  BY <1>7, ReturnKeepsLocks, IdleHoldsNothing DEF UnregisterCount
<1>8. CASE ShareRejected(t)
  BY <1>8, ReturnKeepsLocks, IdleHoldsNothing DEF ShareRejected
<1>9. CASE ShareAccepted(t)
  <2>1. Asks(Locks, Points, Wants, HeldAt, "share_stats", {"stats"},
             "share_accounts", "accounts", "write")
    BY DEF Asks, Points, Locks, Wants, Writes, Reads, HeldAt, RegPoints,
       UnregPoints, SharePoints
  <2>2. QED
    BY <1>9, <2>1, AsksKeepsLocks DEF ShareAccepted, Reached
<1>10. CASE ShareCredit(t)
  <2>1. Asks(Locks, Points, Wants, HeldAt, "share_accounts", {"accounts"},
             "share_shares", "shares", "write")
    BY DEF Asks, Points, Locks, Wants, Writes, Reads, HeldAt, RegPoints,
       UnregPoints, SharePoints
  <2>2. QED
    BY <1>10, <2>1, AsksKeepsLocks DEF ShareCredit, Reached
<1>11. CASE SharePush(t)
  BY <1>11, ReturnKeepsLocks, IdleHoldsNothing DEF SharePush
<1>12. CASE PayoutCredit(t)
  BY <1>12, ReturnKeepsLocks, IdleHoldsNothing DEF PayoutCredit
<1>13. CASE FeeAdd(t)
  BY <1>13, ReturnKeepsLocks, IdleHoldsNothing DEF FeeAdd
<1>14. CASE ClearAwait(t)
  <2>1. Asks(Locks, Points, Wants, HeldAt, "clear_clock", {},
             "clear_shares", "shares", "write")
    BY DEF Asks, Points, Locks, Wants, Writes, Reads, HeldAt, RegPoints,
       UnregPoints, SharePoints
  <2>2. QED
    BY <1>14, <2>1, AsksKeepsLocks DEF ClearAwait, Reached
<1>15. CASE ClearRetain(t)
  BY <1>15, ReturnKeepsLocks, IdleHoldsNothing DEF ClearRetain
<1>16. CASE EstimateNothing(t)
  BY <1>16, ReturnKeepsLocks, IdleHoldsNothing DEF EstimateNothing
<1>17. CASE EstimateOwn(t)
  <2>1. Drops(Locks, Points, Wants, HeldAt, "est_own", {"shares"}, "shares",
              "est_added")
    BY SMTT(60) DEF Drops, Points, Locks, Wants, Writes, Reads, HeldAt, RegPoints,
       UnregPoints, SharePoints
  <2>2. QED
    BY <1>17, <2>1, DropsKeepsLocks DEF EstimateOwn, Reached
<1>18. CASE EstimateAll(t)
  BY <1>18, ReturnKeepsLocks, IdleHoldsNothing DEF EstimateAll
<1>19. CASE DistributeToNobody(t)
  BY <1>19, ReturnKeepsLocks, IdleHoldsNothing DEF DistributeToNobody
<1>20. CASE DistributeStart(t)
  BY <1>a, <1>20, MoveKeepsLocks DEF DistributeStart, Reached, Points, Locks,
     Wants, Writes, Reads, HeldAt, RegPoints, UnregPoints, SharePoints
<1>21. CASE \E m \in Miners : SetWork(t, m)
  BY <1>21, UntouchedLocks DEF SetWork
<1>22. CASE DistributeDone(t)
  <2>1. Asks(Locks, Points, Wants, HeldAt, "dist_each", {},
             "dist_work", "work", "write")
    BY DEF Asks, Points, Locks, Wants, Writes, Reads, HeldAt, RegPoints,
       UnregPoints, SharePoints
  <2>2. QED
    BY <1>22, <2>1, AsksKeepsLocks DEF DistributeDone, Reached
<1>23. CASE DistributeRemember(t)
  BY <1>23, ReturnKeepsLocks, IdleHoldsNothing DEF DistributeRemember
<1>24. CASE StatsCopy(t)
  <2>1. Drops(Locks, Points, Wants, HeldAt, "stats_stats", {"stats"}, "stats",
              "stats_copied")
    BY SMTT(60) DEF Drops, Points, Locks, Wants, Writes, Reads, HeldAt, RegPoints,
       UnregPoints, SharePoints
  <2>2. QED
    BY <1>24, <2>1, DropsKeepsLocks DEF StatsCopy, Reached
<1>25. CASE StatsReport(t)
  BY <1>25, ReturnKeepsLocks, IdleHoldsNothing DEF StatsReport
<1>26. CASE DetailedCopy(t)
  <2>1. Drops(Locks, Points, Wants, HeldAt, "det_stats", {"stats"}, "stats",
              "det_copied")
    BY SMTT(60) DEF Drops, Points, Locks, Wants, Writes, Reads, HeldAt, RegPoints,
       UnregPoints, SharePoints
  <2>2. QED
    BY <1>26, <2>1, DropsKeepsLocks DEF DetailedCopy, Reached
<1>27. CASE DetailedMiners(t)
  <2>1. Asks(Locks, Points, Wants, HeldAt, "det_miners", {"miners"},
             "det_shares", "shares", "read")
    BY DEF Asks, Points, Locks, Wants, Writes, Reads, HeldAt, RegPoints,
       UnregPoints, SharePoints
  <2>2. QED
    BY <1>27, <2>1, AsksKeepsLocks DEF DetailedMiners, Reached
<1>28. CASE DetailedReport(t)
  BY <1>28, ReturnKeepsLocks, IdleHoldsNothing DEF DetailedReport
<1>29. CASE EfficiencyStats(t)
  <2>1. Asks(Locks, Points, Wants, HeldAt, "eff_stats", {"stats"},
             "eff_shares", "shares", "read")
    BY DEF Asks, Points, Locks, Wants, Writes, Reads, HeldAt, RegPoints,
       UnregPoints, SharePoints
  <2>2. QED
    BY <1>29, <2>1, AsksKeepsLocks DEF EfficiencyStats, Reached
<1>30. CASE EfficiencyReport(t)
  BY <1>30, ReturnKeepsLocks, IdleHoldsNothing DEF EfficiencyReport
<1>31. CASE EstimateAsk(t)
  <2>1. Asks(Locks, Points, Wants, HeldAt, "est_added", {},
             "est_all", "shares", "read")
    BY SMTT(60) DEF Asks, Points, Locks, Wants, Writes, Reads, HeldAt, RegPoints,
       UnregPoints, SharePoints
  <2>2. QED
    BY <1>31, <2>1, AsksKeepsLocks DEF EstimateAsk
<1>32. CASE StatsAsk(t)
  <2>1. Asks(Locks, Points, Wants, HeldAt, "stats_copied", {},
             "stats_miners", "miners", "read")
    BY DEF Asks, Points, Locks, Wants, Writes, Reads, HeldAt, RegPoints,
       UnregPoints, SharePoints
  <2>2. QED
    BY <1>32, <2>1, AsksKeepsLocks DEF StatsAsk
<1>33. CASE DetailedAsk(t)
  <2>1. Asks(Locks, Points, Wants, HeldAt, "det_copied", {},
             "det_miners", "miners", "read")
    BY SMTT(60) DEF Asks, Points, Locks, Wants, Writes, Reads, HeldAt, RegPoints,
       UnregPoints, SharePoints
  <2>2. QED
    BY <1>33, <2>1, AsksKeepsLocks DEF DetailedAsk
<1>34. QED
  BY <1>1, <1>2, <1>3, <1>4, <1>5, <1>6, <1>7, <1>8, <1>9, <1>10, <1>11,
     <1>12, <1>13, <1>14, <1>15, <1>16, <1>17, <1>18, <1>19, <1>20,
     <1>21, <1>22, <1>23, <1>24, <1>25, <1>26, <1>27, <1>28, <1>29, <1>30,
     <1>31, <1>32, <1>33
     DEF Continue

\* Each task always holds exactly the guards its place in the code implies:
\* no path of a method keeps a guard too long or loses one too early, so a
\* segment of code always runs under the locks it was written for.
THEOREM LocksHeld == Spec => []PoolLocks
<1>1. Init => PoolLocks
  BY NoCallsKeepLocks, IdleHoldsNothing DEF Init, PoolLocks
<1>2. PoolLocks /\ [Next]_vars => PoolLocks'
  <2>1. CASE Tick \/ UNCHANGED vars
    BY <2>1, UntouchedLocks DEF Tick, vars, taskVars, PoolLocks
  <2>2. CASE \E t \in Tasks : Begin(t) \/ Continue(t)
    BY <2>2, BeginKeepsLocks, ContinueKeepsLocks
  <2>3. QED
    BY <2>1, <2>2 DEF Next
<1>3. QED
  BY <1>1, <1>2, PTL DEF Spec

-----------------------------------------------------------------------------
(* Types.                                                                  *)

DataTypes ==
  /\ now \in 0..MaxTime
  /\ DOMAIN miners \subseteq Miners
  /\ miners \in [DOMAIN miners -> Works \cup {None}]
  /\ DOMAIN accounts \subseteq Miners
  /\ accounts \in [DOMAIN accounts -> Account]
  /\ stats \in Stats
  /\ shares \subseteq Pushed
  /\ totalShares \in Nat
  /\ currentWork \in Works \cup {None}
  /\ cleared \subseteq Nat

ArgTypes ==
  /\ DOMAIN arg = Tasks
  /\ \A t \in Tasks : arg[t] \in ArgOf(pc[t])

\* HashMap::insert and remove keep the type of a map.
LEMMA MapTypes ==
  ASSUME NEW K, NEW V, NEW map, DOMAIN map \subseteq K,
         map \in [DOMAIN map -> V], NEW key \in K, NEW value \in V
  PROVE  /\ DOMAIN Insert(map, key, value) = DOMAIN map \cup {key}
         /\ DOMAIN Insert(map, key, value) \subseteq K
         /\ Insert(map, key, value) \in [DOMAIN Insert(map, key, value) -> V]
         /\ DOMAIN Remove(map, key) = DOMAIN map \ {key}
         /\ DOMAIN Remove(map, key) \subseteq K
         /\ Remove(map, key) \in [DOMAIN Remove(map, key) -> V]
BY DEF Insert, Remove

\* A task moves to another point with the argument that belongs there.
LEMMA ArgStep ==
  ASSUME ArgTypes, pc \in [Tasks -> Points], NEW t \in Tasks, NEW point,
         NEW value \in ArgOf(point),
         pc' = [pc EXCEPT ![t] = point],
         \/ arg' = [arg EXCEPT ![t] = value]
         \/ arg' = arg /\ arg[t] = value
  PROVE  ArgTypes'
BY DEF ArgTypes

\* A task that returns needs no argument.
LEMMA ReturnArg ==
  ASSUME ArgTypes, pc \in [Tasks -> Points], NEW t \in Tasks, Return(t)
  PROVE  ArgTypes'
<1>1. None \in ArgOf("idle")
  BY DEF ArgOf, Detailing, RegPoints, UnregPoints, SharePoints
<1>2. QED
  BY <1>1, ArgStep DEF Return

\* Starting an operation changes no shared data and stores a typed argument.
LEMMA BeginTypes ==
  ASSUME TypeOK, NEW t \in Tasks, Begin(t)
  PROVE  DataTypes' /\ ArgTypes'
<1>1. DataTypes'
  <2>1. UNCHANGED <<now, data>>
    BY DEF Begin, RegisterMiner, UnregisterMiner, SubmitShare, ProcessPayout,
       AddPoolFee, ClearOldShares, CalculateMinerPayout, DistributeWork,
       GetStats, GetDetailedStats, GetPoolEfficiency, Call
  <2>2. QED
    BY <2>1 DEF TypeOK, DataTypes, data
<1>2. PICK point, value :
        /\ value \in ArgOf(point)
        /\ pc' = [pc EXCEPT ![t] = point]
        /\ arg' = [arg EXCEPT ![t] = value]
  <2>1. CASE \E m \in Miners : RegisterMiner(t, m)
    BY <2>1
       DEF RegisterMiner, Call, Enter, Move, ArgOf, Detailing, RegPoints, UnregPoints,
       SharePoints
  <2>2. CASE \E m \in Miners : UnregisterMiner(t, m)
    BY <2>2
       DEF UnregisterMiner, Call, Enter, Move, ArgOf, Detailing, RegPoints, UnregPoints,
       SharePoints
  <2>3. CASE \E s \in Share : SubmitShare(t, s)
    BY <2>3
       DEF SubmitShare, Call, Enter, Move, ArgOf, Detailing, RegPoints, UnregPoints,
       SharePoints
  <2>4. CASE \E m \in Miners, a \in Amounts : ProcessPayout(t, m, a)
    BY <2>4, PoolAssumption
       DEF ProcessPayout, Call, Enter, Move, ArgOf, Detailing, RegPoints, UnregPoints,
       SharePoints
  <2>5. CASE \E a \in Amounts : AddPoolFee(t, a)
    BY <2>5, PoolAssumption
       DEF AddPoolFee, Call, Enter, Move, ArgOf, Detailing, RegPoints, UnregPoints,
       SharePoints
  <2>6. CASE ClearOldShares(t)
    BY <2>6
       DEF ClearOldShares, Keep, Move, TypeOK, ArgOf, Detailing, RegPoints, UnregPoints,
       SharePoints
  <2>7. CASE \E m \in Miners : CalculateMinerPayout(t, m)
    BY <2>7
       DEF CalculateMinerPayout, Call, Enter, Move, ArgOf, Detailing, RegPoints, UnregPoints,
       SharePoints
  <2>8. CASE \E w \in Works : DistributeWork(t, w)
    BY <2>8
       DEF DistributeWork, Call, Enter, Move, ArgOf, Detailing, RegPoints, UnregPoints,
       SharePoints
  <2>9. CASE GetStats(t)
    BY <2>9
       DEF GetStats, Call, Enter, Move, ArgOf, Detailing, RegPoints, UnregPoints,
       SharePoints
  <2>10. CASE GetDetailedStats(t)
    BY <2>10
       DEF GetDetailedStats, Call, Enter, Move, ArgOf, Detailing, RegPoints, UnregPoints,
       SharePoints
  <2>11. CASE GetPoolEfficiency(t)
    BY <2>11
       DEF GetPoolEfficiency, Call, Enter, Move, ArgOf, Detailing, RegPoints, UnregPoints,
       SharePoints
  <2>12. QED
    BY <2>1, <2>2, <2>3, <2>4, <2>5, <2>6, <2>7, <2>8, <2>9, <2>10, <2>11
     DEF Begin
<1>3. QED
  BY <1>1, <1>2, ArgStep DEF TypeOK, ArgTypes

\* What a task carries at each point.
LEMMA ArgAt ==
  ASSUME TypeOK, NEW t \in Tasks
  PROVE  /\ pc[t] \in RegPoints \cup UnregPoints => arg[t] \in Miners
         /\ pc[t] \in SharePoints => arg[t] \in Share
         /\ pc[t] = "pay_accounts" => arg[t] \in [miner : Miners, amount : Nat]
         /\ pc[t] = "fee_stats" => arg[t] \in [amount : Nat]
         /\ pc[t] \in {"dist_each", "dist_work"} =>
              arg[t] \in [work : Works, todo : SUBSET Miners]
         /\ pc[t] = "dist_miners" => arg[t] \in Works
         /\ pc[t] \in Detailing => arg[t] \in Stats
<1>1. arg[t] \in ArgOf(pc[t])
  BY DEF TypeOK
<1>2. QED
  BY <1>1 DEF ArgOf, Detailing, RegPoints, UnregPoints, SharePoints

\* Every step keeps the types of the shared data.
LEMMA ContinueDataTypes ==
  ASSUME TypeOK, NEW t \in Tasks, Continue(t)
  PROVE  DataTypes'
<1>a. DataTypes
  BY DEF TypeOK, DataTypes
<1> USE DEF DataTypes
<1>1. CASE \/ RegisterRefused(t) \/ ClearAwait(t) \/ EstimateNothing(t)
            \/ EstimateOwn(t) \/ EstimateAll(t) \/ DistributeToNobody(t)
            \/ DistributeStart(t) \/ DistributeDone(t) \/ StatsCopy(t)
            \/ StatsReport(t) \/ DetailedCopy(t) \/ DetailedMiners(t)
            \/ DetailedReport(t) \/ EfficiencyStats(t) \/ EfficiencyReport(t)
            \/ EstimateAsk(t) \/ StatsAsk(t) \/ DetailedAsk(t)
  BY <1>a, <1>1 DEF RegisterRefused, ClearAwait, EstimateNothing,
     EstimateOwn, EstimateAsk, EstimateAll, StatsAsk, DetailedAsk, DistributeToNobody,
     DistributeStart, DistributeDone, StatsCopy,
     StatsReport, DetailedCopy, DetailedMiners,
     DetailedReport, EfficiencyStats, EfficiencyReport, data
<1>2. CASE RegisterInsert(t)
  <2>1. arg[t] \in Miners
    BY <1>2, ArgAt DEF RegisterInsert, Reached, RegPoints
  <2>2. /\ DOMAIN miners' \subseteq Miners
        /\ miners' \in [DOMAIN miners' -> Works \cup {None}]
    BY <1>a, <1>2, <2>1 DEF RegisterInsert, Insert
  <2>3. QED
    BY <1>a, <1>2, <2>2 DEF RegisterInsert
<1>3. CASE RegisterAccount(t)
  <2>0. NewAccount \in Account
    BY DEF NewAccount, Account
  <2>1. arg[t] \in Miners
    BY <1>3, ArgAt DEF RegisterAccount, Reached, RegPoints
  <2>2. /\ DOMAIN accounts' \subseteq Miners
        /\ accounts' \in [DOMAIN accounts' -> Account]
    BY <1>a, <1>3, <2>1, <2>0 DEF RegisterAccount, Insert
  <2>3. QED
    BY <1>a, <1>3, <2>2 DEF RegisterAccount
<1>4. CASE RegisterCount(t)
  <2>1. IsFiniteSet(DOMAIN miners) /\ Cardinality(DOMAIN miners) \in Nat
    BY <1>a, PoolAssumption, FS_Subset, FS_CardinalityType
  <2>2. QED
    BY <1>a, <1>4, <2>1 DEF RegisterCount, Stats
<1>5. CASE UnregisterRemove(t)
  <2>1. arg[t] \in Miners
    BY <1>5, ArgAt DEF UnregisterRemove, Reached, UnregPoints
  <2>2. /\ DOMAIN miners' \subseteq Miners
        /\ miners' \in [DOMAIN miners' -> Works \cup {None}]
    BY <1>a, <1>5, <2>1 DEF UnregisterRemove, Remove
  <2>3. QED
    BY <1>a, <1>5, <2>2 DEF UnregisterRemove
<1>6. CASE UnregisterAccount(t)
  <2>1. arg[t] \in Miners
    BY <1>6, ArgAt DEF UnregisterAccount, Reached, UnregPoints
  <2>2. /\ DOMAIN accounts' \subseteq Miners
        /\ accounts' \in [DOMAIN accounts' -> Account]
    BY <1>a, <1>6, <2>1 DEF UnregisterAccount, Remove
  <2>3. QED
    BY <1>a, <1>6, <2>2 DEF UnregisterAccount
<1>7. CASE UnregisterCount(t)
  <2>1. IsFiniteSet(DOMAIN miners) /\ Cardinality(DOMAIN miners) \in Nat
    BY <1>a, PoolAssumption, FS_Subset, FS_CardinalityType
  <2>2. QED
    BY <1>a, <1>7, <2>1 DEF UnregisterCount, Stats
<1>8. CASE ShareRejected(t)
  BY <1>a, <1>8, ArgAt
     DEF ShareRejected, Reached, SharePoints, Stats
<1>9. CASE ShareAccepted(t)
  <2> DEFINE b == IF arg[t].is_block THEN stats.blocks_found + 1
                                     ELSE stats.blocks_found
             n == stats.shares_accepted + 1
  <2>1. b \in Nat /\ n \in Nat
    BY <1>a DEF Stats
  <2>2. /\ stats' = [stats EXCEPT !.blocks_found = b, !.shares_accepted = n]
        /\ totalShares' = totalShares + 1
        /\ UNCHANGED <<now, miners, accounts, shares, currentWork, cleared>>
    BY <1>9 DEF ShareAccepted, CountShare
  <2> HIDE DEF b, n
  <2>3. stats' \in Stats
    BY <1>a, <2>1, <2>2 DEF Stats
  <2>4. QED
    BY <1>a, <2>2, <2>3
<1>10. CASE ShareCredit(t)
  BY <1>a, <1>10, ArgAt
     DEF ShareCredit, Reached, SharePoints, Account, Share
<1>11. CASE SharePush(t)
  BY <1>a, <1>11, ArgAt
     DEF SharePush, Reached, SharePoints, Share, Pushed, Stamp
<1>12. CASE PayoutCredit(t)
  <2> DEFINE m == arg[t].miner
             owed == accounts[m].pending_payout + arg[t].amount
             earned == accounts[m].total_earnings + arg[t].amount
  <2>1. arg[t].amount \in Nat
    BY <1>12, ArgAt DEF PayoutCredit, Reached
  <2>2. accounts' =
          IF m \in DOMAIN accounts
          THEN [accounts EXCEPT ![m] =
                  [accounts[m] EXCEPT !.pending_payout = owed,
                                      !.total_earnings = earned]]
          ELSE accounts
    BY <1>12 DEF PayoutCredit
  <2>3. m \in DOMAIN accounts =>
          accounts[m] \in Account /\ owed \in Nat /\ earned \in Nat
    BY <1>a, <2>1 DEF Account
  <2> HIDE DEF m, owed, earned
  <2>4. m \in DOMAIN accounts =>
          [accounts[m] EXCEPT !.pending_payout = owed,
                              !.total_earnings = earned] \in Account
    BY <2>3 DEF Account
  <2>5. /\ DOMAIN accounts' = DOMAIN accounts
        /\ accounts' \in [DOMAIN accounts -> Account]
    BY <1>a, <2>2, <2>4
  <2>6. QED
    BY <1>a, <1>12, <2>5 DEF PayoutCredit
<1>13. CASE FeeAdd(t)
  BY <1>a, <1>13, ArgAt
     DEF FeeAdd, Reached, Stats
<1>14. CASE ClearRetain(t)
  BY <1>a, <1>14, ArgAt
     DEF ClearRetain, Reached, Pushed
<1>15. CASE \E m \in Miners : SetWork(t, m)
  <2>1. PICK m \in Miners : SetWork(t, m)
    BY <1>15
  <2>2. arg[t].work \in Works
    BY <2>1, ArgAt DEF SetWork
  <2>3. /\ DOMAIN miners' \subseteq Miners
        /\ miners' \in [DOMAIN miners' -> Works \cup {None}]
    BY <1>a, <2>1, <2>2 DEF SetWork
  <2>4. /\ now' = now /\ accounts' = accounts /\ stats' = stats
        /\ shares' = shares /\ totalShares' = totalShares
        /\ currentWork' = currentWork /\ cleared' = cleared
    BY <2>1 DEF SetWork
  <2>5. QED
    BY <1>a, <2>3, <2>4
<1>16. CASE DistributeRemember(t)
  BY <1>a, <1>16, ArgAt
     DEF DistributeRemember, Reached
<1>17. QED
  BY <1>1, <1>2, <1>3, <1>4, <1>5, <1>6, <1>7, <1>8, <1>9, <1>10, <1>11,
     <1>12, <1>13, <1>14, <1>15, <1>16 DEF Continue

\* Every step leaves each task the arguments its new point needs.
LEMMA ContinueArgTypes ==
  ASSUME TypeOK, NEW t \in Tasks, Continue(t)
  PROVE  ArgTypes'
<1>a. /\ ArgTypes /\ pc \in [Tasks -> Points]
      /\ arg[t] \in ArgOf(pc[t])
  BY DEF TypeOK, ArgTypes
<1>b. stats \in Stats /\ DOMAIN miners \subseteq Miners /\ shares \subseteq Pushed
  BY DEF TypeOK
<1>1. CASE \/ RegisterRefused(t) \/ RegisterCount(t) \/ UnregisterCount(t)
            \/ ShareRejected(t) \/ SharePush(t) \/ PayoutCredit(t)
            \/ FeeAdd(t) \/ ClearRetain(t) \/ EstimateNothing(t)
            \/ EstimateAll(t) \/ DistributeToNobody(t) \/ DistributeRemember(t)
            \/ StatsReport(t) \/ DetailedReport(t) \/ EfficiencyReport(t)
  BY <1>a, <1>1, ReturnArg DEF RegisterRefused, RegisterCount, UnregisterCount,
     ShareRejected, SharePush, PayoutCredit, FeeAdd,
     ClearRetain, EstimateNothing, EstimateAll, DistributeToNobody,
     DistributeRemember, StatsReport, DetailedReport, EfficiencyReport
<1>2. CASE RegisterInsert(t)
  <2>1. /\ pc' = [pc EXCEPT ![t] = "reg_accounts"]
        /\ arg' = arg /\ ArgOf(pc[t]) = ArgOf("reg_accounts")
    BY <1>2 DEF RegisterInsert, Reached, Await, ArgOf, Detailing, RegPoints,
       UnregPoints, SharePoints
  <2>2. QED
    BY <1>a, <2>1, ArgStep
<1>3. CASE RegisterAccount(t)
  <2>1. /\ pc' = [pc EXCEPT ![t] = "reg_stats"]
        /\ arg' = arg /\ ArgOf(pc[t]) = ArgOf("reg_stats")
    BY <1>3 DEF RegisterAccount, Reached, Await, ArgOf, Detailing, RegPoints,
       UnregPoints, SharePoints
  <2>2. QED
    BY <1>a, <2>1, ArgStep
<1>4. CASE UnregisterRemove(t)
  <2>1. /\ pc' = [pc EXCEPT ![t] = "unreg_accounts"]
        /\ arg' = arg /\ ArgOf(pc[t]) = ArgOf("unreg_accounts")
    BY <1>4 DEF UnregisterRemove, Reached, Await, ArgOf, Detailing, RegPoints,
       UnregPoints, SharePoints
  <2>2. QED
    BY <1>a, <2>1, ArgStep
<1>5. CASE UnregisterAccount(t)
  <2>1. /\ pc' = [pc EXCEPT ![t] = "unreg_stats"]
        /\ arg' = arg /\ ArgOf(pc[t]) = ArgOf("unreg_stats")
    BY <1>5 DEF UnregisterAccount, Reached, Await, ArgOf, Detailing, RegPoints,
       UnregPoints, SharePoints
  <2>2. QED
    BY <1>a, <2>1, ArgStep
<1>6. CASE ShareAccepted(t)
  <2>1. /\ pc' = [pc EXCEPT ![t] = "share_accounts"]
        /\ arg' = arg /\ ArgOf(pc[t]) = ArgOf("share_accounts")
    BY <1>6 DEF ShareAccepted, Reached, Await, ArgOf, Detailing, RegPoints,
       UnregPoints, SharePoints
  <2>2. QED
    BY <1>a, <2>1, ArgStep
<1>7. CASE ShareCredit(t)
  <2>1. /\ pc' = [pc EXCEPT ![t] = "share_shares"]
        /\ arg' = arg /\ ArgOf(pc[t]) = ArgOf("share_shares")
    BY <1>7 DEF ShareCredit, Reached, Await, ArgOf, Detailing, RegPoints,
       UnregPoints, SharePoints
  <2>2. QED
    BY <1>a, <2>1, ArgStep
<1>8. CASE ClearAwait(t)
  <2>1. /\ pc' = [pc EXCEPT ![t] = "clear_shares"]
        /\ arg' = arg /\ ArgOf(pc[t]) = ArgOf("clear_shares")
    BY <1>8 DEF ClearAwait, Reached, Await, ArgOf, Detailing, RegPoints,
       UnregPoints, SharePoints
  <2>2. QED
    BY <1>a, <2>1, ArgStep
<1>9. CASE DistributeDone(t)
  <2>1. /\ pc' = [pc EXCEPT ![t] = "dist_work"]
        /\ arg' = arg /\ ArgOf(pc[t]) = ArgOf("dist_work")
    BY <1>9 DEF DistributeDone, Reached, Await, ArgOf, Detailing, RegPoints,
       UnregPoints, SharePoints
  <2>2. QED
    BY <1>a, <2>1, ArgStep
<1>10. CASE DetailedMiners(t)
  <2>1. /\ pc' = [pc EXCEPT ![t] = "det_shares"]
        /\ arg' = arg /\ ArgOf(pc[t]) = ArgOf("det_shares")
    BY <1>10 DEF DetailedMiners, Reached, Await, ArgOf, Detailing, RegPoints,
       UnregPoints, SharePoints
  <2>2. QED
    BY <1>a, <2>1, ArgStep
<1>11. CASE EfficiencyStats(t)
  <2>1. /\ pc' = [pc EXCEPT ![t] = "eff_shares"]
        /\ arg' = arg /\ ArgOf(pc[t]) = ArgOf("eff_shares")
    BY <1>11 DEF EfficiencyStats, Reached, Await, ArgOf, Detailing, RegPoints,
       UnregPoints, SharePoints
  <2>2. QED
    BY <1>a, <2>1, ArgStep
<1>12. CASE EstimateOwn(t)
  <2>1. /\ pc' = [pc EXCEPT ![t] = "est_added"]
        /\ arg' = [arg EXCEPT ![t] = [own |-> SharesOf(arg[t])]]
    BY <1>12 DEF EstimateOwn, Drop, Keep
  <2>2. [own |-> SharesOf(arg[t])] \in ArgOf("est_added")
    BY <1>b, <1>12 DEF EstimateOwn, SharesOf, ArgOf, Detailing, RegPoints, UnregPoints,
       SharePoints
  <2>3. QED
    BY <1>a, <2>1, <2>2, ArgStep
<1>13. CASE DistributeStart(t)
  <2>1. /\ pc' = [pc EXCEPT ![t] = "dist_each"]
        /\ arg' = [arg EXCEPT ![t] = [work |-> arg[t], todo |-> DOMAIN miners]]
    BY <1>13 DEF DistributeStart, Move, Keep
  <2>2. [work |-> arg[t], todo |-> DOMAIN miners] \in ArgOf("dist_each")
    BY <1>b, <1>13, ArgAt
     DEF DistributeStart, Reached, ArgOf, Detailing, RegPoints, UnregPoints,
       SharePoints
  <2>3. QED
    BY <1>a, <2>1, <2>2, ArgStep
<1>14. CASE StatsCopy(t)
  <2>1. /\ pc' = [pc EXCEPT ![t] = "stats_copied"]
        /\ arg' = [arg EXCEPT ![t] = stats]
    BY <1>14 DEF StatsCopy, Drop, Keep
  <2>2. stats \in ArgOf("stats_copied")
    BY <1>b, <1>14 DEF StatsCopy, ArgOf, Detailing, RegPoints, UnregPoints,
       SharePoints
  <2>3. QED
    BY <1>a, <2>1, <2>2, ArgStep
<1>15. CASE DetailedCopy(t)
  <2>1. /\ pc' = [pc EXCEPT ![t] = "det_copied"]
        /\ arg' = [arg EXCEPT ![t] = stats]
    BY <1>15 DEF DetailedCopy, Drop, Keep
  <2>2. stats \in ArgOf("det_copied")
    BY <1>b, <1>15 DEF DetailedCopy, ArgOf, Detailing, RegPoints, UnregPoints,
       SharePoints
  <2>3. QED
    BY <1>a, <2>1, <2>2, ArgStep
<1>16. CASE \E m \in Miners : SetWork(t, m)
  <2>1. PICK m \in Miners : SetWork(t, m)
    BY <1>16
  <2>2. /\ pc' = [pc EXCEPT ![t] = "dist_each"]
        /\ arg' = [arg EXCEPT ![t] = [arg[t] EXCEPT !.todo = @ \ {m}]]
    BY <1>a, <2>1 DEF SetWork, Keep
  <2>3. arg[t] \in [work : Works, todo : SUBSET Miners]
    BY <2>1, ArgAt DEF SetWork
  <2>4. [arg[t] EXCEPT !.todo = @ \ {m}] \in ArgOf("dist_each")
    BY <2>3 DEF ArgOf, Detailing, RegPoints, UnregPoints, SharePoints
  <2>5. QED
    BY <1>a, <2>2, <2>4, ArgStep
<1>17. CASE EstimateAsk(t)
  <2>1. /\ pc' = [pc EXCEPT ![t] = "est_all"]
        /\ arg' = arg /\ ArgOf(pc[t]) = ArgOf("est_all")
    BY <1>17 DEF EstimateAsk, Await, ArgOf, Detailing, RegPoints, UnregPoints,
       SharePoints
  <2>2. QED
    BY <1>a, <2>1, ArgStep
<1>18. CASE StatsAsk(t)
  <2>1. /\ pc' = [pc EXCEPT ![t] = "stats_miners"]
        /\ arg' = arg /\ ArgOf(pc[t]) = ArgOf("stats_miners")
    BY <1>18 DEF StatsAsk, Await, ArgOf, Detailing, RegPoints, UnregPoints,
       SharePoints
  <2>2. QED
    BY <1>a, <2>1, ArgStep
<1>19. CASE DetailedAsk(t)
  <2>1. /\ pc' = [pc EXCEPT ![t] = "det_miners"]
        /\ arg' = arg /\ ArgOf(pc[t]) = ArgOf("det_miners")
    BY <1>19 DEF DetailedAsk, Await, ArgOf, Detailing, RegPoints, UnregPoints,
       SharePoints
  <2>2. QED
    BY <1>a, <2>1, ArgStep
<1>20. QED
  BY <1>1, <1>2, <1>3, <1>4, <1>5, <1>6, <1>7, <1>8, <1>9, <1>10,
     <1>11, <1>12, <1>13, <1>14, <1>15, <1>16, <1>17, <1>18, <1>19
     DEF Continue

\* Every reachable state is well typed: a task never works with an argument
\* of another operation, a count never turns negative, and the five locks
\* keep their order of service.
THEOREM TypeCorrect == Spec => []TypeOK
<1>1. Init => TypeOK
  <2>1. SUFFICES ASSUME Init PROVE TypeOK
    OBVIOUS
  <2>2. DataTypes
    BY <2>1, PoolAssumption DEF Init, DataTypes, Stats
  <2>3. ArgTypes
    BY <2>1 DEF Init, NoCalls, ArgTypes, ArgOf, Detailing, RegPoints, UnregPoints, SharePoints
  <2>4. /\ DOMAIN locks = Locks
        /\ \A l \in Locks : WellFormed(locks[l], Tasks)
        /\ pc \in [Tasks -> Points]
    BY <2>1, NoCallsKeepLocks, IdleHoldsNothing DEF Init, LockInv
  <2>5. QED
    BY <2>2, <2>3, <2>4 DEF TypeOK, DataTypes, ArgTypes
<1>2. PoolLocks' /\ TypeOK /\ [Next]_vars => TypeOK'
  <2>1. SUFFICES ASSUME PoolLocks', TypeOK, [Next]_vars
                 PROVE  DataTypes' /\ ArgTypes'
    BY DEF TypeOK, PoolLocks, LockInv, DataTypes, ArgTypes
  <2>2. CASE Tick
    BY <2>1, <2>2, PoolAssumption DEF Tick, data, taskVars, TypeOK, DataTypes, ArgTypes
  <2>3. CASE UNCHANGED vars
    BY <2>1, <2>3 DEF vars, data, taskVars, TypeOK, DataTypes, ArgTypes
  <2>4. CASE \E t \in Tasks : Begin(t) \/ Continue(t)
    BY <2>1, <2>4, BeginTypes, ContinueDataTypes, ContinueArgTypes
  <2>5. QED
    BY <2>1, <2>2, <2>3, <2>4 DEF Next
<1>3. QED
  BY <1>1, <1>2, LocksHeld, PTL DEF Spec

-----------------------------------------------------------------------------
(* What a step leaves alone.                                               *)

\* A step of t moves no other task and touches no other task's arguments.
LEMMA OthersStay ==
  ASSUME TypeOK, NEW t \in Tasks, Begin(t) \/ Continue(t),
         NEW u \in Tasks \ {t}
  PROVE  pc'[u] = pc[u] /\ arg'[u] = arg[u]
<1>a. pc \in [Tasks -> Points] /\ DOMAIN arg = Tasks
  BY DEF TypeOK
<1>1. CASE Begin(t)
  BY <1>a, <1>1 DEF Begin, RegisterMiner, UnregisterMiner, SubmitShare,
     ProcessPayout, AddPoolFee, ClearOldShares,
     CalculateMinerPayout, DistributeWork, GetStats,
     GetDetailedStats, GetPoolEfficiency,
     Call, Enter, Move, Keep
<1>2. CASE Continue(t)
  <2>1. CASE \/ RegisterRefused(t) \/ RegisterInsert(t) \/ RegisterAccount(t)
             \/ RegisterCount(t) \/ UnregisterRemove(t)
    BY <1>a, <2>1 DEF RegisterRefused, RegisterInsert, RegisterAccount,
       RegisterCount, UnregisterRemove, Await,
       Drop, Return, Keep
  <2>2. CASE \/ UnregisterAccount(t) \/ UnregisterCount(t) \/ ShareRejected(t)
             \/ ShareAccepted(t) \/ ShareCredit(t)
    BY <1>a, <2>2 DEF UnregisterAccount, UnregisterCount, ShareRejected,
       ShareAccepted, ShareCredit, Await,
       Drop, Return, Keep
  <2>3. CASE \/ SharePush(t) \/ PayoutCredit(t) \/ FeeAdd(t)
             \/ ClearAwait(t) \/ ClearRetain(t)
    BY <1>a, <2>3 DEF SharePush, PayoutCredit, FeeAdd,
       ClearAwait, ClearRetain, Await,
       Drop, Return, Keep
  <2>4. CASE \/ EstimateNothing(t) \/ EstimateOwn(t) \/ EstimateAll(t)
             \/ DistributeToNobody(t) \/ DistributeStart(t)
    BY <1>a, <2>4 DEF EstimateNothing, EstimateOwn, EstimateAll,
       DistributeToNobody, DistributeStart, Move, Await,
       Drop, Return, Keep
  <2>5. CASE \/ (\E m \in Miners : SetWork(t, m)) \/ DistributeDone(t)
             \/ DistributeRemember(t)
             \/ StatsCopy(t) \/ StatsReport(t)
    BY <1>a, <2>5 DEF SetWork, DistributeDone, DistributeRemember,
       StatsCopy, StatsReport, Await,
       Drop, Return, Keep
  <2>6. CASE \/ DetailedCopy(t) \/ DetailedMiners(t) \/ DetailedReport(t)
             \/ EfficiencyStats(t) \/ EfficiencyReport(t)
    BY <1>a, <2>6 DEF DetailedCopy, DetailedMiners, DetailedReport,
       EfficiencyStats, EfficiencyReport, Await,
       Drop, Return, Keep
  <2>7. CASE EstimateAsk(t) \/ StatsAsk(t) \/ DetailedAsk(t)
    BY <1>a, <2>7 DEF EstimateAsk, StatsAsk, DetailedAsk, Await
  <2>8. QED
    BY <1>2, <2>1, <2>2, <2>3, <2>4, <2>5, <2>6, <2>7 DEF Continue
<1>3. QED
  BY <1>1, <1>2

\* Only the two registry operations touch the registry.
LEMMA RegistryBystander ==
  ASSUME TypeOK, NEW t \in Tasks, Begin(t) \/ Continue(t)
  PROVE  \/ RegisterInsert(t) \/ RegisterAccount(t) \/ RegisterCount(t)
         \/ UnregisterRemove(t) \/ UnregisterAccount(t) \/ UnregisterCount(t)
         \/ /\ pc[t] \notin CountBehind /\ pc'[t] \notin CountBehind
            /\ DOMAIN miners' = DOMAIN miners
            /\ DOMAIN accounts' = DOMAIN accounts
            /\ stats'.connected_miners = stats.connected_miners
<1>a. pc \in [Tasks -> Points]
  BY DEF TypeOK
<1>1. CASE Begin(t)
  BY <1>a, <1>1 DEF Begin, RegisterMiner, UnregisterMiner, SubmitShare,
     ProcessPayout, AddPoolFee, ClearOldShares,
     CalculateMinerPayout, DistributeWork, GetStats,
     GetDetailedStats, GetPoolEfficiency,
     Call, Enter, Move, data, AccountsBehind, CountBehind, CountShare, Stats, TypeOK
<1>2. CASE \/ RegisterRefused(t) \/ ShareRejected(t) \/ ShareAccepted(t)
           \/ ShareCredit(t)
  BY <1>a, <1>2 DEF RegisterRefused, ShareRejected, ShareAccepted,
     ShareCredit, Reached, Await,
     Drop, Return, data,
     AccountsBehind, CountBehind, CountShare, Stats, TypeOK
<1>3. CASE \/ SharePush(t) \/ PayoutCredit(t) \/ FeeAdd(t)
           \/ ClearAwait(t)
  BY <1>a, <1>3 DEF SharePush, PayoutCredit, FeeAdd,
     ClearAwait, Reached, Await,
     Drop, Return, data,
     AccountsBehind, CountBehind, CountShare, Stats, TypeOK
<1>4. CASE \/ ClearRetain(t) \/ EstimateNothing(t) \/ EstimateOwn(t)
           \/ EstimateAll(t)
  BY <1>a, <1>4 DEF ClearRetain, EstimateNothing, EstimateOwn,
     EstimateAll, Reached, Await,
     Drop, Return, data,
     AccountsBehind, CountBehind, CountShare, Stats, TypeOK
<1>5. CASE \/ DistributeToNobody(t) \/ DistributeStart(t)
           \/ (\E m \in Miners : SetWork(t, m))
           \/ DistributeDone(t)
  BY <1>a, <1>5 DEF DistributeToNobody, DistributeStart, SetWork,
     DistributeDone, Reached, Move, Await,
     Drop, Return, data,
     AccountsBehind, CountBehind, CountShare, Stats, TypeOK
<1>6. CASE \/ DistributeRemember(t) \/ StatsCopy(t) \/ StatsReport(t)
           \/ DetailedCopy(t)
  BY <1>a, <1>6 DEF DistributeRemember, StatsCopy, StatsReport,
     DetailedCopy, Reached, Await,
     Drop, Return, data,
     AccountsBehind, CountBehind, CountShare, Stats, TypeOK
<1>7. CASE \/ DetailedMiners(t) \/ DetailedReport(t) \/ EfficiencyStats(t)
           \/ EfficiencyReport(t)
  BY <1>a, <1>7 DEF DetailedMiners, DetailedReport, EfficiencyStats,
     EfficiencyReport, Reached, Await,
     Drop, Return, data,
     AccountsBehind, CountBehind, CountShare, Stats, TypeOK
<1>8. CASE EstimateAsk(t) \/ StatsAsk(t) \/ DetailedAsk(t)
  BY <1>a, <1>8 DEF EstimateAsk, StatsAsk, DetailedAsk, Await, data,
     AccountsBehind, CountBehind
<1>9. QED
  BY <1>1, <1>2, <1>3, <1>4, <1>5, <1>6, <1>7, <1>8 DEF Continue

-----------------------------------------------------------------------------
(* The registry.                                                           *)

\* register_miner and unregister_miner keep the miners' write guard across
\* all their updates: at most one of them is half done.
LEMMA OneRegistrar ==
  ASSUME PoolLocks, NEW t \in Tasks, NEW u \in Tasks,
         \/ pc[t] \in CountBehind
         \/ Reached(t, "reg_miners", "miners")
         \/ Reached(t, "unreg_miners", "miners"),
         pc[u] \in CountBehind
  PROVE  t = u
<1>1. /\ "miners" \in Locks
      /\ Wants[pc[u]]["miners"] = "write"
  BY DEF Points, Locks, Wants, Writes, RegPoints, UnregPoints, AccountsBehind,
         CountBehind
<1>2. Holds(locks["miners"], t) /\ Holds(locks["miners"], u)
  BY DEF PoolLocks, LockInv, LockDiscipline, Locks, HeldAt, Reached, AccountsBehind,
         CountBehind
<1>3. QED
  BY <1>1, <1>2, OneHolder DEF PoolLocks

\* The set of the miners stays finite.
LEMMA RegisteredFinite ==
  ASSUME TypeOK
  PROVE  /\ IsFiniteSet(DOMAIN miners)
         /\ Cardinality(DOMAIN miners) \in Nat
BY PoolAssumption, FS_Subset, FS_CardinalityType DEF TypeOK

\* Every step keeps the registry behind by what is owed, no more.
LEMMA RegistryStep ==
  ASSUME TypeOK, PoolLocks, RegistryInv, [Next]_vars
  PROVE  RegistryInv'
<1>a. pc \in [Tasks -> Points] /\ DOMAIN arg = Tasks
  BY DEF TypeOK
<1>1. CASE Tick \/ UNCHANGED vars
  BY <1>1 DEF Tick, vars, taskVars, data, RegistryInv
<1>2. ASSUME NEW t \in Tasks, Begin(t) \/ Continue(t)
      PROVE  RegistryInv'
  <2>a. \A u \in Tasks \ {t} : pc'[u] = pc[u] /\ arg'[u] = arg[u]
    BY <1>2, OthersStay
  <2>1. CASE RegisterInsert(t)
    <3>1. /\ pc[t] = "reg_miners" /\ pc'[t] = "reg_accounts"
          /\ arg' = arg /\ accounts' = accounts /\ stats' = stats
          /\ DOMAIN miners' = DOMAIN miners \cup {arg[t]}
          /\ arg[t] \notin DOMAIN miners
      BY <1>a, <2>1 DEF RegisterInsert, Reached, Await, Insert
    <3>2. \A u \in Tasks : pc[u] \notin CountBehind
      BY <2>1, <3>1, OneRegistrar DEF RegisterInsert, CountBehind,
         AccountsBehind
    <3>3. DOMAIN accounts = DOMAIN miners
      BY <3>2 DEF RegistryInv, CountBehind
    <3>4. Cardinality(DOMAIN miners') <= MaxMiners
      <4>1. Cardinality(DOMAIN miners') = Cardinality(DOMAIN miners) + 1
        BY <3>1, RegisteredFinite, FS_AddElement
      <4>2. Cardinality(DOMAIN miners) < MaxMiners
        BY <2>1, RegisteredFinite, PoolAssumption DEF RegisterInsert, PoolFull
      <4>3. QED
        BY <4>1, <4>2, RegisteredFinite, PoolAssumption
    <3>5. \A u \in Tasks \ {t} : pc'[u] \notin CountBehind
      BY <2>a, <3>2
    <3>6. DOMAIN accounts' = DOMAIN miners' \ {arg'[t]} /\ arg'[t] \in DOMAIN miners'
      BY <3>1, <3>3
    <3>7. pc'[t] \in AccountsBehind /\ pc'[t] \in CountBehind
      BY <3>1 DEF CountBehind, AccountsBehind
    <3>8. \A u \in Tasks : pc'[u] \in AccountsBehind => u = t
      BY <3>5 DEF CountBehind
    <3>9. \A u \in Tasks : pc'[u] # "unreg_accounts"
      BY <3>1, <3>8 DEF AccountsBehind
    <3>10. QED
      BY <3>4, <3>6, <3>7, <3>8, <3>9 DEF RegistryInv, AccountsBehind
  <2>2. CASE RegisterAccount(t)
    <3>1. /\ pc[t] = "reg_accounts" /\ pc'[t] = "reg_stats"
          /\ arg' = arg /\ miners' = miners /\ stats' = stats
          /\ DOMAIN accounts' = DOMAIN accounts \cup {arg[t]}
      BY <1>a, <2>2 DEF RegisterAccount, Reached, Await, Insert
    <3>2. \A u \in Tasks \ {t} : pc[u] \notin CountBehind
      BY <3>1, OneRegistrar DEF CountBehind, AccountsBehind
    <3>3. DOMAIN accounts' = DOMAIN miners
      BY <3>1 DEF RegistryInv
    <3>4. QED
      BY <2>a, <3>1, <3>2, <3>3 DEF RegistryInv, CountBehind, AccountsBehind
  <2>3. CASE RegisterCount(t) \/ UnregisterCount(t)
    <3>1. /\ pc[t] \in {"reg_stats", "unreg_stats"} /\ pc'[t] = "idle"
          /\ miners' = miners /\ accounts' = accounts
      BY <1>a, <2>3
         DEF RegisterCount, UnregisterCount, Reached, Return
    <3>2. stats'.connected_miners = Cardinality(DOMAIN miners)
      BY <2>3 DEF RegisterCount, UnregisterCount, TypeOK, Stats
    <3>3. \A u \in Tasks \ {t} : pc[u] \notin CountBehind
      BY <3>1, OneRegistrar DEF CountBehind, AccountsBehind
    <3>4. DOMAIN accounts = DOMAIN miners
      BY <3>1, <3>3 DEF RegistryInv, CountBehind, AccountsBehind
    <3>5. QED
      BY <2>a, <3>1, <3>2, <3>3, <3>4
         DEF RegistryInv, CountBehind, AccountsBehind
  <2>4. CASE UnregisterRemove(t)
    <3>1. /\ pc[t] = "unreg_miners" /\ pc'[t] = "unreg_accounts"
          /\ arg' = arg /\ accounts' = accounts /\ stats' = stats
          /\ DOMAIN miners' = DOMAIN miners \ {arg[t]}
      BY <1>a, <2>4 DEF UnregisterRemove, Reached, Await, Remove
    <3>2. \A u \in Tasks : pc[u] \notin CountBehind
      BY <2>4, <3>1, OneRegistrar DEF UnregisterRemove, CountBehind,
         AccountsBehind
    <3>3. DOMAIN accounts = DOMAIN miners
      BY <3>2 DEF RegistryInv, CountBehind
    <3>4. Cardinality(DOMAIN miners') <= MaxMiners
      <4>1. /\ Cardinality(DOMAIN miners') <= Cardinality(DOMAIN miners)
            /\ Cardinality(DOMAIN miners') \in Nat
        BY <3>1, RegisteredFinite, FS_Subset, FS_CardinalityType
      <4>2. QED
        BY <4>1, RegisteredFinite, PoolAssumption DEF RegistryInv
    <3>5. QED
      BY <2>a, <3>1, <3>2, <3>3, <3>4
         DEF RegistryInv, CountBehind, AccountsBehind
  <2>5. CASE UnregisterAccount(t)
    <3>1. /\ pc[t] = "unreg_accounts" /\ pc'[t] = "unreg_stats"
          /\ arg' = arg /\ miners' = miners /\ stats' = stats
          /\ DOMAIN accounts' = DOMAIN accounts \ {arg[t]}
      BY <1>a, <2>5 DEF UnregisterAccount, Reached, Await, Remove
    <3>2. \A u \in Tasks \ {t} : pc[u] \notin CountBehind
      BY <3>1, OneRegistrar DEF CountBehind, AccountsBehind
    <3>3. DOMAIN accounts' = DOMAIN miners
      BY <3>1 DEF RegistryInv
    <3>4. QED
      BY <2>a, <3>1, <3>2, <3>3 DEF RegistryInv, CountBehind, AccountsBehind
  <2>6. CASE /\ pc[t] \notin CountBehind /\ pc'[t] \notin CountBehind
             /\ DOMAIN miners' = DOMAIN miners
             /\ DOMAIN accounts' = DOMAIN accounts
             /\ stats'.connected_miners = stats.connected_miners
    BY <2>a, <2>6 DEF RegistryInv, CountBehind, AccountsBehind
  <2>7. QED
    BY <1>2, <2>1, <2>2, <2>3, <2>4, <2>5, <2>6, RegistryBystander
<1>3. QED
  BY <1>1, <1>2 DEF Next

\* Between the locks of register_miner and unregister_miner the accounts and
\* the published count are behind the miners by exactly the updates still
\* owed.
THEOREM RegistryInvariant == Spec => []RegistryInv
<1>1. Init => RegistryInv
  BY PoolAssumption, FS_EmptySet
     DEF Init, NoCalls, RegistryInv, AccountsBehind, CountBehind
<1>2. TypeOK /\ PoolLocks /\ RegistryInv /\ [Next]_vars => RegistryInv'
  BY RegistryStep
<1>3. QED
  BY <1>1, <1>2, TypeCorrect, LocksHeld, PTL DEF Spec

\* Whoever may read the miners finds each with exactly one account and the
\* published count right and within max_miners, however register_miner,
\* unregister_miner and everything else interleave.
THEOREM RegistryStaysConsistent == Spec => []RegistryConsistent
<1>1. TypeOK /\ PoolLocks /\ RegistryInv => RegistryConsistent
  <2>1. SUFFICES ASSUME TypeOK, PoolLocks, RegistryInv,
                        ~WriteHeld(locks["miners"])
                 PROVE  /\ DOMAIN accounts = DOMAIN miners
                        /\ stats.connected_miners = Cardinality(DOMAIN miners)
                        /\ stats.connected_miners <= MaxMiners
    BY DEF RegistryConsistent
  <2>2. ASSUME NEW t \in Tasks
        PROVE  pc[t] \notin CountBehind
    <3>1. ~HoldsWrite(locks["miners"], t)
      BY <2>1 DEF WriteHeld, PoolLocks, LockInv, WellFormed, Locks
    <3>2. pc[t] \in CountBehind => HoldsWrite(locks["miners"], t)
      <4>1. \A p \in CountBehind : /\ p \in Points
                                  /\ Wants[p]["miners"] = "write"
                                  /\ "miners" \in HeldAt[p]
        BY DEF CountBehind, AccountsBehind, Points, HeldAt, Wants, Writes,
           Reads, Locks, RegPoints, UnregPoints, SharePoints
      <4>2. DOMAIN locks = Locks /\ LockDiscipline(Wants, HeldAt)
        BY <2>1 DEF PoolLocks, LockInv
      <4>3. "miners" \in DOMAIN locks
        BY <4>2 DEF Locks
      <4>4. QED
        BY <4>1, <4>2, <4>3 DEF HoldsWrite, LockDiscipline
    <3>3. QED
      BY <3>1, <3>2
  <2>3. QED
    BY <2>1, <2>2 DEF RegistryInv, AccountsBehind, CountBehind
<1>2. QED
  BY <1>1, RegistryInvariant, TypeCorrect, LocksHeld, PTL

-----------------------------------------------------------------------------
(* The log of shares.                                                      *)

\* Only submit_share and clear_old_shares touch the log; the report carries
\* the counters it copied.
LEMMA LogBystander ==
  ASSUME TypeOK, NEW t \in Tasks, Begin(t) \/ Continue(t)
  PROVE  \/ ShareAccepted(t) \/ ShareCredit(t) \/ SharePush(t)
         \/ ClearRetain(t) \/ DetailedCopy(t) \/ DetailedAsk(t)
         \/ DetailedMiners(t)
         \/ /\ pc[t] \notin LogBehind
            /\ pc'[t] \notin LogBehind \cup Detailing
            /\ shares' = shares /\ cleared' = cleared
            /\ totalShares' = totalShares
            /\ stats'.shares_accepted = stats.shares_accepted
<1>a. pc \in [Tasks -> Points]
  BY DEF TypeOK
<1>1. CASE Begin(t)
  BY <1>a, <1>1 DEF Begin, RegisterMiner, UnregisterMiner, SubmitShare,
     ProcessPayout, AddPoolFee, ClearOldShares,
     CalculateMinerPayout, DistributeWork, GetStats,
     GetDetailedStats, GetPoolEfficiency,
     Call, Enter, Move, data, LogBehind, Detailing, Stats, TypeOK
<1>2. CASE \/ RegisterRefused(t) \/ RegisterInsert(t) \/ RegisterAccount(t)
           \/ RegisterCount(t)
  BY <1>a, <1>2 DEF RegisterRefused, RegisterInsert, RegisterAccount,
     RegisterCount, Reached, Await,
     Drop, Return, data,
     LogBehind, Detailing, Stats, TypeOK
<1>3. CASE \/ UnregisterRemove(t) \/ UnregisterAccount(t) \/ UnregisterCount(t)
           \/ ShareRejected(t)
  BY <1>a, <1>3 DEF UnregisterRemove, UnregisterAccount, UnregisterCount,
     ShareRejected, Reached, Await,
     Drop, Return, data,
     LogBehind, Detailing, Stats, TypeOK
<1>4. CASE \/ PayoutCredit(t) \/ FeeAdd(t) \/ ClearAwait(t)
           \/ EstimateNothing(t)
  BY <1>a, <1>4 DEF PayoutCredit, FeeAdd, ClearAwait,
     EstimateNothing, Reached, Await,
     Drop, Return, data,
     LogBehind, Detailing, Stats, TypeOK
<1>5. CASE \/ EstimateOwn(t) \/ EstimateAll(t) \/ DistributeToNobody(t)
           \/ DistributeStart(t)
  BY <1>a, <1>5 DEF EstimateOwn, EstimateAll, DistributeToNobody,
     DistributeStart, Reached, Move, Await,
     Drop, Return, data,
     LogBehind, Detailing, Stats, TypeOK
<1>6. CASE \/ (\E m \in Miners : SetWork(t, m)) \/ DistributeDone(t)
           \/ DistributeRemember(t)
           \/ StatsCopy(t)
  BY <1>a, <1>6 DEF SetWork, DistributeDone, DistributeRemember,
     StatsCopy, Reached, Await,
     Drop, Return, data,
     LogBehind, Detailing, Stats, TypeOK
<1>7. CASE \/ StatsReport(t) \/ DetailedReport(t) \/ EfficiencyStats(t)
           \/ EfficiencyReport(t)
  BY <1>a, <1>7 DEF StatsReport, DetailedReport, EfficiencyStats,
     EfficiencyReport, Reached, Await,
     Drop, Return, data,
     LogBehind, Detailing, Stats, TypeOK
<1>8. CASE EstimateAsk(t) \/ StatsAsk(t)
  BY <1>a, <1>8 DEF EstimateAsk, StatsAsk, Await, data, LogBehind, Detailing
<1>9. QED
  BY <1>1, <1>2, <1>3, <1>4, <1>5, <1>6, <1>7, <1>8 DEF Continue

\* submit_share keeps the counters' write guard from the count to the push:
\* at most one share is counted and not yet logged, and nobody reads the
\* counters meanwhile.
LEMMA OneSubmitter ==
  ASSUME PoolLocks, NEW t \in Tasks, NEW u \in Tasks,
         \/ pc[t] \in LogBehind
         \/ Reached(t, "share_stats", "stats")
         \/ Reached(t, "det_stats", "stats"),
         pc[u] \in LogBehind
  PROVE  t = u
<1>1. /\ "stats" \in Locks
      /\ Wants[pc[u]]["stats"] = "write"
  BY DEF Points, Locks, Wants, Writes, SharePoints, LogBehind
<1>2. Holds(locks["stats"], t) /\ Holds(locks["stats"], u)
  BY DEF PoolLocks, LockInv, LockDiscipline, Points, SharePoints, Locks, HeldAt,
         Reached, LogBehind
<1>3. QED
  BY <1>1, <1>2, OneHolder DEF PoolLocks

\* Every step keeps the log behind by the share being submitted, no more.
LEMMA LogStep ==
  ASSUME TypeOK, PoolLocks, LogInv, [Next]_vars
  PROVE  LogInv'
<1>a. /\ pc \in [Tasks -> Points] /\ DOMAIN arg = Tasks
      /\ totalShares \in Nat /\ stats \in Stats
  BY DEF TypeOK
<1>1. CASE Tick \/ UNCHANGED vars
  BY <1>1 DEF Tick, vars, taskVars, data, LogInv, Logged
<1>2. ASSUME NEW t \in Tasks, Begin(t) \/ Continue(t)
      PROVE  LogInv'
  <2>a. \A u \in Tasks \ {t} : pc'[u] = pc[u] /\ arg'[u] = arg[u]
    BY <1>2, OthersStay
  <2>1. CASE ShareAccepted(t)
    <3>1. /\ pc[t] = "share_stats" /\ pc'[t] = "share_accounts"
          /\ arg' = arg /\ shares' = shares /\ cleared' = cleared
          /\ totalShares' = totalShares + 1
      BY <1>a, <2>1 DEF ShareAccepted, CountShare, Reached, Await
    <3>2. stats'.shares_accepted = stats.shares_accepted + 1
      BY <1>a, <2>1 DEF ShareAccepted, CountShare, Stats
    <3>3. \A u \in Tasks : pc[u] \notin LogBehind
      BY <2>1, <3>1, OneSubmitter DEF ShareAccepted, LogBehind
    <3>4. Logged \cup cleared = 1..(totalShares' - 1) /\ totalShares' > 0
      BY <1>a, <3>1, <3>3 DEF LogInv
    <3>5. QED
      BY <1>a, <2>a, <3>1, <3>2, <3>3, <3>4 DEF LogInv, Logged, LogBehind, Detailing
  <2>2. CASE ShareCredit(t)
    <3>1. /\ pc[t] = "share_accounts" /\ pc'[t] = "share_shares"
          /\ arg' = arg /\ shares' = shares /\ cleared' = cleared
          /\ totalShares' = totalShares /\ stats' = stats
      BY <1>a, <2>2 DEF ShareCredit, Reached, Await
    <3>2. QED
      BY <2>a, <3>1 DEF LogInv, Logged, LogBehind, Detailing
  <2>3. CASE SharePush(t)
    <3> DEFINE pushed == Stamp(arg[t], totalShares)
    <3>1. /\ pc[t] = "share_shares" /\ pc'[t] = "idle"
          /\ shares' = shares \cup {pushed} /\ cleared' = cleared
          /\ totalShares' = totalShares /\ stats' = stats
      BY <1>a, <2>3 DEF SharePush, Reached, Return
    <3>2. pushed.id = totalShares
      BY DEF Stamp
    <3> HIDE DEF pushed
    <3>3. \A u \in Tasks \ {t} : pc[u] \notin LogBehind
      BY <3>1, OneSubmitter DEF LogBehind
    <3>4. /\ totalShares > 0
          /\ Logged \cup cleared = 1..(totalShares - 1)
          /\ totalShares \notin Logged \cup cleared
      BY <1>a, <3>1 DEF LogInv, LogBehind
    <3>5. Logged' = Logged \cup {totalShares}
      BY <3>1, <3>2 DEF Logged
    <3>6. Logged' \cup cleared' = 1..totalShares'
      BY <1>a, <3>1, <3>4, <3>5
    <3>7. \A r, s \in shares' : r.id = s.id => r = s
      BY <3>1, <3>2, <3>4 DEF LogInv, Logged
    <3>8. Logged' \cap cleared' = {}
      BY <3>1, <3>4, <3>5 DEF LogInv
    <3>9. QED
      BY <2>a, <3>1, <3>3, <3>5, <3>6, <3>7, <3>8 DEF LogInv, LogBehind, Detailing
  <2>4. CASE ClearRetain(t)
    <3> DEFINE old == {s \in shares : Age(arg[t].at, s) > ClearAge}
    <3>1. /\ pc[t] = "clear_shares" /\ pc'[t] = "idle"
          /\ shares' = shares \ old
          /\ cleared' = cleared \cup {s.id : s \in old}
          /\ totalShares' = totalShares /\ stats' = stats
      BY <1>a, <2>4 DEF ClearRetain, Reached, Return
    <3>2. old \subseteq shares
      OBVIOUS
    <3> HIDE DEF old
    <3>3. Logged' \cup cleared' = Logged \cup cleared
      BY <3>1, <3>2 DEF Logged
    <3>4. Logged' \cap cleared' = {}
      BY <3>1, <3>2 DEF Logged, LogInv
    <3>5. QED
      BY <2>a, <3>1, <3>3, <3>4 DEF LogInv, LogBehind, Detailing
  <2>5. CASE DetailedCopy(t) \/ DetailedAsk(t) \/ DetailedMiners(t)
    <3>1. /\ pc'[t] \in Detailing
          /\ pc[t] \notin LogBehind
          /\ shares' = shares /\ cleared' = cleared
          /\ totalShares' = totalShares /\ stats' = stats
      BY <1>a, <2>5
         DEF DetailedCopy, DetailedAsk, DetailedMiners, Reached, Await, Drop,
             data, LogBehind, Detailing
    <3>2. 1..arg'[t].shares_accepted \subseteq Logged \cup cleared
      <4>1. CASE DetailedAsk(t) \/ DetailedMiners(t)
        BY <4>1 DEF DetailedAsk, DetailedMiners, Reached, LogInv, Detailing
      <4>2. CASE DetailedCopy(t)
        <5>1. \A u \in Tasks : pc[u] \notin LogBehind
          BY <3>1, <4>2, OneSubmitter DEF DetailedCopy
        <5>2. arg'[t] = stats
          BY <1>a, <4>2 DEF DetailedCopy, Keep
        <5>3. QED
          BY <5>1, <5>2 DEF LogInv
      <4>3. QED
        BY <2>5, <4>1, <4>2
    <3>3. QED
      BY <2>a, <3>1, <3>2 DEF LogInv, Logged, LogBehind, Detailing
  <2>6. CASE /\ pc[t] \notin LogBehind
             /\ pc'[t] \notin LogBehind \cup Detailing
             /\ shares' = shares /\ cleared' = cleared
             /\ totalShares' = totalShares
             /\ stats'.shares_accepted = stats.shares_accepted
    BY <2>a, <2>6 DEF LogInv, Logged
  <2>7. QED
    BY <1>2, <2>1, <2>2, <2>3, <2>4, <2>5, <2>6, LogBystander
<1>3. QED
  BY <1>1, <1>2 DEF Next

\* Between the locks of submit_share the log is behind the counters by
\* exactly the share that is being submitted.
THEOREM LogInvariant == Spec => []LogInv
<1>1. Init => LogInv
  BY DEF Init, NoCalls, LogInv, Logged, LogBehind, Detailing
<1>2. TypeOK /\ PoolLocks /\ LogInv /\ [Next]_vars => LogInv'
  BY LogStep
<1>3. QED
  BY <1>1, <1>2, TypeCorrect, LocksHeld, PTL DEF Spec

\* Whoever may read the counters finds every counted share in the log
\* exactly once, unless clear_old_shares removed it.
THEOREM LogStaysComplete == Spec => []LogComplete
<1>1. TypeOK /\ PoolLocks /\ LogInv => LogComplete
  <2>1. SUFFICES ASSUME TypeOK, PoolLocks, LogInv,
                        ~WriteHeld(locks["stats"])
                 PROVE  \A t \in Tasks : pc[t] \notin LogBehind
    BY DEF LogComplete, LogInv, Logged
  <2>2. ASSUME NEW t \in Tasks, pc[t] \in LogBehind
        PROVE  HoldsWrite(locks["stats"], t)
    <3>1. \A p \in LogBehind : /\ p \in Points
                              /\ Wants[p]["stats"] = "write"
                              /\ "stats" \in HeldAt[p]
      BY DEF LogBehind, Points, HeldAt, Wants, Writes, Reads, Locks,
         RegPoints, UnregPoints, SharePoints
    <3>2. DOMAIN locks = Locks /\ LockDiscipline(Wants, HeldAt)
      BY <2>1 DEF PoolLocks, LockInv
    <3>3. "stats" \in DOMAIN locks
      BY <3>2 DEF Locks
    <3>4. QED
      BY <2>2, <3>1, <3>2, <3>3 DEF HoldsWrite, LockDiscipline
  <2>3. QED
    BY <2>1, <2>2 DEF WriteHeld, PoolLocks, LockInv, WellFormed, Locks
<1>2. QED
  BY <1>1, LogInvariant, TypeCorrect, LocksHeld, PTL

\* The detailed report, put together under three locks one after another,
\* never counts a share it cannot find.
THEOREM ReportStaysComplete == Spec => []DetailedReportComplete
<1>1. LogInv => DetailedReportComplete
  BY DEF LogInv, DetailedReportComplete, Reached, Logged, Detailing
<1>2. QED
  BY <1>1, LogInvariant, PTL

\* The inductive invariant of the pool: the guards are where the code says
\* they are, and what is half updated is behind by what their holders owe.
THEOREM PoolInvariant == Spec => []PoolInv
<1>1. PoolLocks /\ RegistryInv /\ LogInv => PoolInv
  BY DEF PoolLocks, LockInv, PoolInv
<1>2. QED
  BY <1>1, LocksHeld, RegistryInvariant, LogInvariant, PTL

-----------------------------------------------------------------------------
(* Waiting for locks.                                                      *)

\* The locks from the one that comes first in an order that begins as given.
Order(first, second) ==
  [l \in Locks |-> IF l = "miners" THEN 3 ELSE IF l = first THEN 2
                   ELSE IF l = second THEN 1 ELSE 0]

\* Only submit_share, which keeps the stats, then asks for the accounts.
LEMMA SharesAskOutOfOrder ==
  \A point \in Points \ {"share_accounts"} :
    InOrder(Locks, Wants, HeldAt, Order("accounts", "stats"), point)
BY DEF InOrder, Points, Locks, Wants, Writes, Reads, HeldAt, Order,
   RegPoints, UnregPoints, SharePoints

\* Only register_miner and unregister_miner, which keep the accounts, then
\* ask for the stats.
LEMMA RegistrationsAskOutOfOrder ==
  \A point \in Points \ {"reg_stats", "unreg_stats"} :
    InOrder(Locks, Wants, HeldAt, Order("stats", "accounts"), point)
BY DEF InOrder, Points, Locks, Wants, Writes, Reads, HeldAt, Order,
   RegPoints, UnregPoints, SharePoints

\* Calls wait for each other in a circle only when a submit_share that keeps
\* stats meets a register_miner or unregister_miner that keeps accounts.
THEOREM DeadlockShapeHolds == Spec => []DeadlockShape
<1>1. PoolLocks => DeadlockShape
  <2>1. SUFFICES ASSUME PoolLocks, NEW D \in SUBSET Tasks, Stuck(D)
                 PROVE  /\ \E t \in D : pc[t] = "share_accounts"
                        /\ \E t \in D : pc[t] \in {"reg_stats", "unreg_stats"}
    BY DEF DeadlockShape
  <2>2. /\ Order("accounts", "stats") \in [Locks -> Nat]
        /\ Order("stats", "accounts") \in [Locks -> Nat]
    BY DEF Order
  <2>3. \A t \in D : pc[t] \in Points
    BY <2>1 DEF PoolLocks, LockInv
  <2>4. \E t \in D : pc[t] = "share_accounts"
    <3>1. \E t \in D : ~InOrder(Locks, Wants, HeldAt, Order("accounts", "stats"),
                               pc[t])
      BY <2>1, <2>2, CircleLeavesOrder DEF PoolLocks
    <3>2. QED
      BY <2>3, <3>1, SharesAskOutOfOrder
  <2>5. \E t \in D : pc[t] \in {"reg_stats", "unreg_stats"}
    <3>1. \E t \in D : ~InOrder(Locks, Wants, HeldAt, Order("stats", "accounts"),
                               pc[t])
      BY <2>1, <2>2, CircleLeavesOrder DEF PoolLocks
    <3>2. QED
      BY <2>3, <3>1, RegistrationsAskOutOfOrder
  <2>6. QED
    BY <2>4, <2>5
<1>2. QED
  BY <1>1, LocksHeld, PTL

-----------------------------------------------------------------------------
(* What callers see.                                                       *)

\* A payout asked for is one that callers may ask for.
PaysAmounts == \A t \in Tasks : pc[t] = "pay_accounts" => arg[t].amount \in Amounts

\* What no step but a few changes: no share is between its count and its
\* push, and what callers see stays.
Unseen(t) ==
  /\ pc[t] \notin LogBehind /\ pc'[t] \notin LogBehind
  /\ accounts' = accounts /\ shares' = shares /\ totalShares' = totalShares
  /\ stats'.shares_accepted = stats.shares_accepted
  /\ stats'.shares_rejected = stats.shares_rejected
  /\ stats'.blocks_found = stats.blocks_found

\* Only these steps are seen.
LEMMA OnlyTheseAreSeen ==
  ASSUME TypeOK, NEW t \in Tasks, Begin(t) \/ Continue(t)
  PROVE  \/ RegisterAccount(t) \/ UnregisterAccount(t)
         \/ ShareRejected(t) \/ ShareAccepted(t) \/ ShareCredit(t)
         \/ SharePush(t) \/ PayoutCredit(t) \/ ClearRetain(t)
         \/ Unseen(t)
<1>a. pc \in [Tasks -> Points] /\ stats \in Stats
  BY DEF TypeOK
<1> USE DEF Unseen, LogBehind
<1>1. CASE Begin(t)
  <2>1. UNCHANGED data /\ pc[t] = "idle"
    BY <1>1 DEF Begin, RegisterMiner, UnregisterMiner, SubmitShare,
       ProcessPayout, AddPoolFee, ClearOldShares, CalculateMinerPayout,
       DistributeWork, GetStats, GetDetailedStats, GetPoolEfficiency,
       Call, Enter
  <2>2. pc'[t] \notin LogBehind
    BY <1>a, <1>1 DEF Begin, RegisterMiner, UnregisterMiner, SubmitShare,
       ProcessPayout, AddPoolFee, ClearOldShares, CalculateMinerPayout,
       DistributeWork, GetStats, GetDetailedStats, GetPoolEfficiency,
       Call, Enter, Move
  <2>3. QED
    BY <2>1, <2>2 DEF data
<1>2. CASE \/ RegisterRefused(t) \/ RegisterInsert(t) \/ UnregisterRemove(t)
  BY <1>a, <1>2 DEF RegisterRefused, RegisterInsert, UnregisterRemove,
     Reached, Await, Return, data
<1>3. CASE RegisterCount(t) \/ UnregisterCount(t) \/ FeeAdd(t)
  BY <1>a, <1>3 DEF RegisterCount, UnregisterCount, FeeAdd, Reached, Return, Stats
<1>4. CASE \/ ClearAwait(t) \/ EstimateNothing(t) \/ EstimateOwn(t)
           \/ EstimateAsk(t) \/ EstimateAll(t)
  BY <1>a, <1>4 DEF ClearAwait, EstimateNothing, EstimateOwn, EstimateAsk,
     EstimateAll, Reached, Await, Drop, Return, data
<1>5. CASE \/ DistributeToNobody(t) \/ DistributeStart(t)
           \/ (\E m \in Miners : SetWork(t, m))
           \/ DistributeDone(t) \/ DistributeRemember(t)
  BY <1>a, <1>5 DEF DistributeToNobody, DistributeStart, SetWork,
     DistributeDone, DistributeRemember, Reached, Move, Await, Return, data
<1>6. CASE StatsCopy(t) \/ StatsAsk(t) \/ StatsReport(t)
  BY <1>a, <1>6 DEF StatsCopy, StatsAsk, StatsReport, Reached, Await, Drop,
     Return, data
<1>7. CASE \/ DetailedCopy(t) \/ DetailedAsk(t) \/ DetailedMiners(t)
           \/ DetailedReport(t)
  BY <1>a, <1>7 DEF DetailedCopy, DetailedAsk, DetailedMiners, DetailedReport,
     Reached, Await, Drop, Return, data
<1>8. CASE EfficiencyStats(t) \/ EfficiencyReport(t)
  BY <1>a, <1>8 DEF EfficiencyStats, EfficiencyReport, Reached, Await, Return,
     data
<1>9. QED
  BY <1>1, <1>2, <1>3, <1>4, <1>5, <1>6, <1>7, <1>8 DEF Continue

\* A step outside submit_share changes nothing between a share's count and
\* its push.
LEMMA OutsideSubmit ==
  ASSUME TypeOK, NEW t \in Tasks, Begin(t) \/ Continue(t),
         pc[t] \notin LogBehind, pc'[t] \notin LogBehind,
         totalShares' = totalShares
  PROVE  /\ Counted' = Counted /\ Unpushed' = Unpushed
         /\ {u \in Counted' : arg'[u].is_block} = {u \in Counted : arg[u].is_block}
<1>1. \A u \in Tasks \ {t} : pc'[u] = pc[u] /\ arg'[u] = arg[u]
  BY OthersStay
<1>2. Counted' = Counted
  BY <1>1 DEF Counted, LogBehind
<1>3. \A u \in Counted : arg'[u] = arg[u]
  BY <1>1 DEF Counted, LogBehind
<1>4. {u \in Tasks : pc'[u] = "share_shares"} = {u \in Tasks : pc[u] = "share_shares"}
  BY <1>1 DEF LogBehind
<1>5. \A u \in Tasks : pc[u] = "share_shares" => arg'[u] = arg[u]
  BY <1>1 DEF LogBehind
<1>6. Unpushed' = Unpushed
  BY <1>4, <1>5 DEF Unpushed
<1>7. QED
  BY <1>2, <1>3, <1>6

\* A step outside submit_share changes the counts only with the statistics,
\* and the log only with the shares.
LEMMA OutsideSubmitCounts ==
  ASSUME TypeOK, NEW t \in Tasks, Begin(t) \/ Continue(t),
         pc[t] \notin LogBehind, pc'[t] \notin LogBehind,
         totalShares' = totalShares
  PROVE  /\ stats'.shares_accepted = stats.shares_accepted => accepted' = accepted
         /\ stats'.blocks_found = stats.blocks_found => blocks' = blocks
         /\ shares' = shares => log' = log
         /\ shares' \subseteq shares => log' \subseteq log
<1>1. /\ Counted' = Counted /\ Unpushed' = Unpushed
      /\ {u \in Counted' : arg'[u].is_block} = {u \in Counted : arg[u].is_block}
  BY OutsideSubmit
<1>2. QED
  BY <1>1 DEF accepted, blocks, log

\* While one submit_share is between the count and the push, no other is.
LEMMA OneCounted ==
  ASSUME PoolLocks, NEW t \in Tasks,
         pc[t] \in LogBehind \/ Reached(t, "share_stats", "stats")
  PROVE  /\ Counted = IF pc[t] = "share_accounts" THEN {t} ELSE {}
         /\ {u \in Tasks : pc[u] = "share_shares"} =
              IF pc[t] = "share_shares" THEN {t} ELSE {}
<1>1. \A u \in Tasks : pc[u] \in LogBehind => u = t
  BY OneSubmitter
<1>2. QED
  BY <1>1 DEF Counted, LogBehind

-----------------------------------------------------------------------------
(* The steps that are seen are steps of the atomic pool.                   *)

LEMMA SameCardinality == \A S : Atomic!Cardinality(S) = Cardinality(S)
BY Zenon DEF Atomic!Cardinality, Cardinality

LEMMA RegisterIsAtomic ==
  ASSUME TypeOK, RegistryInv, NEW t \in Tasks, RegisterAccount(t)
  PROVE  Atomic!Next
<1>1. /\ pc[t] = "reg_accounts" /\ pc'[t] = "reg_stats" /\ arg[t] \in Miners
      /\ accounts' = Insert(accounts, arg[t], NewAccount)
      /\ stats' = stats /\ shares' = shares /\ totalShares' = totalShares
  BY ArgAt DEF RegisterAccount, Reached, Await, TypeOK, RegPoints
<1>2. /\ arg[t] \in DOMAIN miners
      /\ DOMAIN accounts = DOMAIN miners \ {arg[t]}
      /\ Cardinality(DOMAIN miners) <= MaxMiners
  BY <1>1 DEF RegistryInv
<1>3. Cardinality(DOMAIN registry) < MaxMiners
  <2>1. Cardinality(DOMAIN accounts) = Cardinality(DOMAIN miners) - 1
    BY <1>2, RegisteredFinite, FS_RemoveElement
  <2>2. DOMAIN registry = DOMAIN accounts
    BY DEF registry
  <2>3. QED
    BY <1>2, <2>1, <2>2, RegisteredFinite, PoolAssumption
<1>4. arg[t] \notin DOMAIN registry
  BY <1>2 DEF registry
<1>5. registry' = [k \in DOMAIN registry \cup {arg[t]} |->
                     IF k = arg[t] THEN [shares |-> 0, earned |-> 0]
                                   ELSE registry[k]]
  BY <1>1 DEF registry, Insert, NewAccount
<1>6. UNCHANGED <<accepted, rejected, blocks, log>>
  BY <1>1, OutsideSubmitCounts DEF LogBehind, rejected, Continue
<1>7. Atomic!Register(arg[t])
  BY <1>3, <1>4, <1>5, <1>6, SameCardinality DEF Atomic!Register
<1>8. QED
  BY <1>1, <1>7 DEF Atomic!Next

LEMMA UnregisterIsAtomic ==
  ASSUME TypeOK, NEW t \in Tasks, UnregisterAccount(t)
  PROVE  Atomic!Next
<1>1. /\ pc[t] = "unreg_accounts" /\ pc'[t] = "unreg_stats" /\ arg[t] \in Miners
      /\ accounts' = Remove(accounts, arg[t])
      /\ stats' = stats /\ shares' = shares /\ totalShares' = totalShares
  BY ArgAt DEF UnregisterAccount, Reached, Await, TypeOK, UnregPoints
<1>2. registry' = [k \in DOMAIN registry \ {arg[t]} |-> registry[k]]
  BY <1>1 DEF registry, Remove
<1>3. UNCHANGED <<accepted, rejected, blocks, log>>
  BY <1>1, OutsideSubmitCounts DEF LogBehind, rejected, Continue
<1>4. Atomic!Unregister(arg[t])
  BY <1>2, <1>3 DEF Atomic!Unregister
<1>5. QED
  BY <1>1, <1>4 DEF Atomic!Next

LEMMA RejectIsAtomic ==
  ASSUME TypeOK, NEW t \in Tasks, ShareRejected(t)
  PROVE  Atomic!Next
<1>1. /\ pc[t] = "share_stats" /\ pc'[t] = "idle"
      /\ accounts' = accounts /\ shares' = shares /\ totalShares' = totalShares
      /\ stats' = [stats EXCEPT !.shares_rejected = @ + 1] /\ stats \in Stats
  BY DEF ShareRejected, Reached, Return, TypeOK
<1>2. /\ stats'.shares_rejected = stats.shares_rejected + 1
      /\ stats'.shares_accepted = stats.shares_accepted
      /\ stats'.blocks_found = stats.blocks_found
  BY <1>1 DEF Stats
<1>3. UNCHANGED <<registry, accepted, blocks, log>>
  BY <1>1, <1>2, OutsideSubmitCounts DEF LogBehind, registry, Continue
<1>4. rejected' = rejected + 1
  BY <1>2 DEF rejected
<1>5. QED
  BY <1>3, <1>4 DEF Atomic!Reject, Atomic!Next

LEMMA PayoutIsAtomic ==
  ASSUME TypeOK, PaysAmounts, NEW t \in Tasks, PayoutCredit(t)
  PROVE  Atomic!Next \/ UNCHANGED Atomic!vars
<1> DEFINE m == arg[t].miner
           a == arg[t].amount
           owed == accounts[m].pending_payout + a
           earned == accounts[m].total_earnings + a
<1>1. /\ pc[t] = "pay_accounts" /\ pc'[t] = "idle" /\ m \in Miners /\ a \in Amounts
      /\ stats' = stats /\ shares' = shares /\ totalShares' = totalShares
  BY ArgAt DEF PayoutCredit, Reached, Return, TypeOK, PaysAmounts
<1>2. UNCHANGED <<accepted, rejected, blocks, log>>
  BY <1>1, OutsideSubmitCounts DEF LogBehind, rejected, Continue
<1>3. CASE m \notin DOMAIN accounts
  <2>1. accounts' = accounts
    BY <1>3 DEF PayoutCredit
  <2>2. registry' = registry
    BY <2>1 DEF registry
  <2>3. QED
    BY <1>2, <2>2 DEF Atomic!vars
<1>4. CASE m \in DOMAIN accounts
  <2>1. accounts' = [accounts EXCEPT ![m] =
                       [accounts[m] EXCEPT !.pending_payout = owed,
                                           !.total_earnings = earned]]
    BY <1>4 DEF PayoutCredit
  <2>2. accounts[m] \in Account /\ accounts \in [DOMAIN accounts -> Account]
    BY <1>4 DEF TypeOK
  <2>3. registry[m] = [shares |-> accounts[m].total_shares,
                       earned |-> accounts[m].total_earnings]
    BY <1>4 DEF registry
  <2> HIDE DEF m, owed
  <2>4. registry' = [registry EXCEPT ![m].earned = @ + a]
    <3>1. DOMAIN registry = DOMAIN accounts /\ DOMAIN registry' = DOMAIN accounts
      BY <2>1 DEF registry
    <3>2. registry'[m] = [shares |-> accounts[m].total_shares, earned |-> earned]
      BY <1>4, <2>1, <2>2 DEF registry, Account
    <3>3. \A k \in DOMAIN accounts \ {m} : registry'[k] = registry[k]
      BY <2>1 DEF registry
    <3>4. registry'[m] = [registry[m] EXCEPT !.earned = registry[m].earned + a]
      BY <2>3, <3>2
    <3>5. registry' = [k \in DOMAIN accounts |-> registry'[k]]
      BY <2>1 DEF registry
    <3>6. QED
      BY <1>4, <3>1, <3>3, <3>4, <3>5
  <2>5. Atomic!Pay(m, a)
    BY <1>2, <1>4, <2>4 DEF Atomic!Pay, registry
  <2>6. QED
    BY <1>1, <2>5 DEF Atomic!Next, m
<1>5. QED
  BY <1>3, <1>4

LEMMA ClearIsAtomic ==
  ASSUME TypeOK, NEW t \in Tasks, ClearRetain(t)
  PROVE  Atomic!Next
<1>1. /\ pc[t] = "clear_shares" /\ pc'[t] = "idle" /\ shares' \subseteq shares
      /\ accounts' = accounts /\ stats' = stats /\ totalShares' = totalShares
  BY DEF ClearRetain, Reached, Return, TypeOK
<1>2. /\ UNCHANGED <<registry, accepted, rejected, blocks>>
      /\ log' \subseteq log
  BY <1>1, OutsideSubmitCounts DEF LogBehind, rejected, registry, Continue
<1>3. QED
  BY <1>2 DEF Atomic!Expire, Atomic!Next

\* The count is not seen before the account is credited.
LEMMA CountIsUnseen ==
  ASSUME TypeOK, PoolLocks, NEW t \in Tasks, ShareAccepted(t), PoolLocks'
  PROVE  UNCHANGED Atomic!vars
<1>1. /\ pc[t] = "share_stats" /\ pc'[t] = "share_accounts" /\ arg' = arg
      /\ Reached(t, "share_stats", "stats")
      /\ accounts' = accounts /\ shares' = shares
      /\ stats \in Stats /\ arg[t] \in Share /\ CountShare(arg[t])
  BY ArgAt DEF ShareAccepted, Reached, Await, TypeOK, SharePoints
<1>2. \A u \in Tasks \ {t} : pc'[u] = pc[u]
  BY OthersStay DEF Continue
<1>3. Counted = {} /\ {u \in Tasks : pc[u] = "share_shares"} = {}
  BY <1>1, OneCounted
<1>4. Counted' = {t} /\ {u \in Tasks : pc'[u] = "share_shares"} = {}
  BY <1>1, <1>2, <1>3 DEF Counted
<1>5. /\ Cardinality(Counted) = 0 /\ Cardinality(Counted') = 1
      /\ Cardinality({u \in Counted : arg[u].is_block}) = 0
      /\ Cardinality({u \in Counted' : arg'[u].is_block}) =
           IF arg[t].is_block THEN 1 ELSE 0
  <2>1. {u \in Counted : arg[u].is_block} = {}
    BY <1>3
  <2>2. {u \in Counted' : arg'[u].is_block} = IF arg[t].is_block THEN {t} ELSE {}
    BY <1>1, <1>4
  <2>3. QED
    BY <1>3, <1>4, <2>1, <2>2, FS_EmptySet, FS_Singleton
<1>6. /\ stats'.shares_accepted = stats.shares_accepted + 1
      /\ stats'.shares_rejected = stats.shares_rejected
      /\ stats'.blocks_found =
           IF arg[t].is_block THEN stats.blocks_found + 1 ELSE stats.blocks_found
  BY <1>1 DEF CountShare, Stats
<1>7. accepted' = accepted /\ rejected' = rejected /\ blocks' = blocks
  BY <1>1, <1>5, <1>6 DEF accepted, rejected, blocks, Stats
<1>8. Unpushed = {} /\ Unpushed' = {}
  BY <1>3, <1>4 DEF Unpushed
<1>9. registry' = registry /\ log' = log
  BY <1>1, <1>8 DEF registry, log
<1>10. QED
  BY <1>7, <1>9 DEF Atomic!vars

\* Nor is the push.
LEMMA PushIsUnseen ==
  ASSUME TypeOK, PoolLocks, NEW t \in Tasks, SharePush(t)
  PROVE  UNCHANGED Atomic!vars
<1>1. /\ pc[t] = "share_shares" /\ pc'[t] = "idle"
      /\ shares' = shares \cup {Stamp(arg[t], totalShares)}
      /\ accounts' = accounts /\ stats' = stats /\ totalShares' = totalShares
  BY DEF SharePush, Reached, Return, TypeOK
<1>2. \A u \in Tasks \ {t} : pc'[u] = pc[u]
  BY OthersStay DEF Continue
<1>3. Counted = {} /\ {u \in Tasks : pc[u] = "share_shares"} = {t}
  BY <1>1, OneCounted DEF LogBehind
<1>4. Counted' = {} /\ {u \in Tasks : pc'[u] = "share_shares"} = {}
  BY <1>1, <1>2, <1>3 DEF Counted
<1>5. Unpushed = {Stamp(arg[t], totalShares)} /\ Unpushed' = {}
  BY <1>3, <1>4 DEF Unpushed
<1>6. log' = log
  BY <1>1, <1>5 DEF log
<1>7. {u \in Counted : arg[u].is_block} = {} /\ {u \in Counted' : arg'[u].is_block} = {}
  BY <1>3, <1>4
<1>8. UNCHANGED <<registry, accepted, rejected, blocks>>
  BY <1>1, <1>3, <1>4, <1>7 DEF registry, accepted, rejected, blocks
<1>9. QED
  BY <1>6, <1>8 DEF Atomic!vars

\* A share is accepted when its account is credited.
LEMMA CreditIsAtomic ==
  ASSUME TypeOK, PoolLocks, LogInv, NEW t \in Tasks, ShareCredit(t)
  PROVE  Atomic!Next
<1> DEFINE share == arg[t]
           m == share.miner_id
<1>1. /\ pc[t] = "share_accounts" /\ pc'[t] = "share_shares" /\ arg' = arg
      /\ shares' = shares /\ stats' = stats /\ totalShares' = totalShares
      /\ stats \in Stats /\ share \in Share
  BY ArgAt DEF ShareCredit, Reached, Await, TypeOK, SharePoints
<1>2. \A u \in Tasks \ {t} : pc'[u] = pc[u]
  BY OthersStay DEF Continue
<1>3. Counted = {t} /\ {u \in Tasks : pc[u] = "share_shares"} = {}
  BY <1>1, OneCounted DEF LogBehind
<1>4. Counted' = {} /\ {u \in Tasks : pc'[u] = "share_shares"} = {t}
  BY <1>1, <1>2, <1>3 DEF Counted
<1>5. Cardinality(Counted) = 1 /\ Cardinality(Counted') = 0
  BY <1>3, <1>4, FS_EmptySet, FS_Singleton
<1>6. accepted' = accepted + 1 /\ accepted + 1 = totalShares
  BY <1>1, <1>5 DEF accepted, Stats, LogInv
<1>7. blocks' = IF share.is_block THEN blocks + 1 ELSE blocks
  <2>1. /\ {u \in Counted : arg[u].is_block} = IF share.is_block THEN {t} ELSE {}
        /\ {u \in Counted' : arg'[u].is_block} = {}
    BY <1>3, <1>4
  <2>2. /\ Cardinality({u \in Counted : arg[u].is_block}) =
             IF share.is_block THEN 1 ELSE 0
        /\ Cardinality({u \in Counted' : arg'[u].is_block}) = 0
    BY <2>1, FS_EmptySet, FS_Singleton
  <2>3. QED
    BY <1>1, <2>2 DEF blocks, Stats
<1>8. log' = log \cup {[number |-> accepted + 1, share |-> share]}
  <2>1. Unpushed = {}
    BY <1>3 DEF Unpushed
  <2>2. Unpushed' = {Stamp(share, totalShares)}
    BY <1>1, <1>4 DEF Unpushed
  <2>3. share = [miner_id |-> share.miner_id, difficulty |-> share.difficulty,
                 timestamp |-> share.timestamp, is_block |-> share.is_block]
    BY <1>1 DEF Share
  <2> DEFINE pushed == Stamp(share, totalShares)
             entry(s) == [number |-> s.id,
                          share |-> [miner_id |-> s.miner_id, difficulty |-> s.difficulty,
                                     timestamp |-> s.timestamp, is_block |-> s.is_block]]
  <2>4. entry(pushed) = [number |-> accepted + 1, share |-> share]
    BY <1>6, <2>3 DEF Stamp
  <2>5. log = {entry(s) : s \in shares} /\ log' = {entry(s) : s \in shares \cup {pushed}}
    BY <1>1, <2>1, <2>2 DEF log
  <2> HIDE DEF entry, pushed
  <2>6. QED
    BY <2>4, <2>5
<1>9. registry' = IF m \in DOMAIN registry
                  THEN [registry EXCEPT ![m].shares = @ + 1] ELSE registry
  <2>1. CASE m \notin DOMAIN accounts
    BY <2>1 DEF ShareCredit, registry
  <2>2. CASE m \in DOMAIN accounts
    <3>1. accounts' = [accounts EXCEPT ![m] =
                         [accounts[m] EXCEPT !.total_shares =
                            accounts[m].total_shares + 1]]
      BY <2>2 DEF ShareCredit
    <3>2. accounts[m] \in Account /\ accounts \in [DOMAIN accounts -> Account]
      BY <2>2 DEF TypeOK
    <3>3. registry[m] = [shares |-> accounts[m].total_shares,
                         earned |-> accounts[m].total_earnings]
      BY <2>2 DEF registry
    <3> HIDE DEF m, share
    <3>4. DOMAIN registry = DOMAIN accounts /\ DOMAIN registry' = DOMAIN accounts
      BY <3>1 DEF registry
    <3>5. registry'[m] = [shares |-> accounts[m].total_shares + 1,
                          earned |-> accounts[m].total_earnings]
      BY <2>2, <3>1, <3>2 DEF registry, Account
    <3>6. \A k \in DOMAIN accounts \ {m} : registry'[k] = registry[k]
      BY <3>1 DEF registry
    <3>7. registry'[m] = [registry[m] EXCEPT !.shares = registry[m].shares + 1]
      BY <3>3, <3>5
    <3>8. registry' = [k \in DOMAIN accounts |-> registry'[k]]
      BY <3>1 DEF registry
    <3>9. QED
      BY <2>2, <3>4, <3>6, <3>7, <3>8
  <2>3. QED
    BY <2>1, <2>2
<1>10. rejected' = rejected
  BY <1>1 DEF rejected
<1>11. Atomic!Accept(share)
  BY <1>6, <1>7, <1>8, <1>9, <1>10 DEF Atomic!Accept
<1>12. QED
  BY <1>1, <1>11 DEF Atomic!Next

\* Only a call puts a task where a payout, or a distribution, begins.
LEMMA NothingBegins ==
  ASSUME TypeOK, NEW t \in Tasks, Continue(t)
  PROVE  pc'[t] \notin {"pay_accounts", "dist_miners"}
<1>a. pc \in [Tasks -> Points]
  BY DEF TypeOK
<1>1. CASE \/ RegisterRefused(t) \/ RegisterCount(t) \/ UnregisterCount(t)
           \/ ShareRejected(t) \/ SharePush(t) \/ PayoutCredit(t)
           \/ FeeAdd(t) \/ ClearRetain(t) \/ EstimateNothing(t)
           \/ EstimateAll(t) \/ DistributeToNobody(t) \/ DistributeRemember(t)
           \/ StatsReport(t) \/ DetailedReport(t) \/ EfficiencyReport(t)
  BY <1>a, <1>1 DEF RegisterRefused, RegisterCount, UnregisterCount,
     ShareRejected, SharePush, PayoutCredit, FeeAdd, ClearRetain,
     EstimateNothing, EstimateAll, DistributeToNobody, DistributeRemember,
     StatsReport, DetailedReport, EfficiencyReport, Return
<1>2. CASE \/ RegisterInsert(t) \/ RegisterAccount(t) \/ UnregisterRemove(t)
           \/ UnregisterAccount(t) \/ ShareAccepted(t) \/ ShareCredit(t)
           \/ ClearAwait(t) \/ EstimateAsk(t) \/ DistributeDone(t)
           \/ StatsAsk(t) \/ DetailedAsk(t) \/ DetailedMiners(t)
           \/ EfficiencyStats(t)
  BY <1>a, <1>2 DEF RegisterInsert, RegisterAccount, UnregisterRemove,
     UnregisterAccount, ShareAccepted, ShareCredit, ClearAwait, EstimateAsk,
     DistributeDone, StatsAsk, DetailedAsk, DetailedMiners, EfficiencyStats,
     Await
<1>3. CASE \/ EstimateOwn(t) \/ DistributeStart(t)
           \/ (\E m \in Miners : SetWork(t, m)) \/ StatsCopy(t) \/ DetailedCopy(t)
  BY <1>a, <1>3 DEF EstimateOwn, DistributeStart, SetWork, StatsCopy,
     DetailedCopy, Drop, Move
<1>4. QED
  BY <1>1, <1>2, <1>3 DEF Continue

\* Payouts are of amounts that may be asked for.
LEMMA PaysAmountsStep ==
  ASSUME TypeOK, PaysAmounts, [Next]_vars
  PROVE  PaysAmounts'
<1>1. CASE Tick \/ UNCHANGED vars
  BY <1>1 DEF Tick, vars, taskVars, PaysAmounts
<1>2. ASSUME NEW t \in Tasks, Begin(t) \/ Continue(t)
      PROVE  PaysAmounts'
  <2>1. \A u \in Tasks \ {t} : pc'[u] = pc[u] /\ arg'[u] = arg[u]
    BY <1>2, OthersStay
  <2>2. pc'[t] = "pay_accounts" => arg'[t].amount \in Amounts
    <3>a. pc \in [Tasks -> Points] /\ DOMAIN arg = Tasks
      BY DEF TypeOK
    <3>1. CASE Begin(t)
      BY <3>a, <3>1 DEF Begin, RegisterMiner, UnregisterMiner, SubmitShare,
         ProcessPayout, AddPoolFee, ClearOldShares, CalculateMinerPayout,
         DistributeWork, GetStats, GetDetailedStats, GetPoolEfficiency,
         Call, Enter, Move
    <3>2. CASE Continue(t)
      BY <3>2, NothingBegins
    <3>3. QED
      BY <1>2, <3>1, <3>2
  <2>3. QED
    BY <2>1, <2>2 DEF PaysAmounts
<1>3. QED
  BY <1>1, <1>2 DEF Next

\* Whatever its callers do, the pool looks to them as if register_miner,
\* unregister_miner, submit_share, process_payout and clear_old_shares each
\* happened at once: every step is one of these or is not seen.
THEOREM PoolImplementsAtomicPool == Spec => ImplementsAtomicPool
<1>1. Init => Atomic!Init
  <2>1. SUFFICES ASSUME Init PROVE Atomic!Init
    OBVIOUS
  <2>2. Counted = {} /\ {u \in Tasks : pc[u] = "share_shares"} = {}
    BY <2>1 DEF Init, NoCalls, Counted
  <2>3. Unpushed = {} /\ {u \in Counted : arg[u].is_block} = {}
    BY <2>2 DEF Unpushed
  <2>4. registry = << >>
    BY <2>1 DEF Init, registry
  <2>5. accepted = 0 /\ rejected = 0 /\ blocks = 0
    BY <2>1, <2>2, <2>3, FS_EmptySet DEF Init, accepted, rejected, blocks
  <2>6. log = {}
    BY <2>1, <2>3 DEF Init, log
  <2>7. QED
    BY <2>4, <2>5, <2>6 DEF Atomic!Init
<1>2. /\ TypeOK /\ PoolLocks /\ PoolLocks' /\ RegistryInv /\ LogInv /\ PaysAmounts
      /\ [Next]_vars
      => [Atomic!Next]_(Atomic!vars)
  <2>1. SUFFICES ASSUME TypeOK, PoolLocks, PoolLocks', RegistryInv, LogInv,
                        PaysAmounts, [Next]_vars
                 PROVE  Atomic!Next \/ UNCHANGED Atomic!vars
    OBVIOUS
  <2>2. CASE Tick \/ UNCHANGED vars
    BY <2>2 DEF Tick, vars, taskVars, data, Atomic!vars, registry, accepted,
       rejected, blocks, log, Counted, Unpushed
  <2>3. ASSUME NEW t \in Tasks, Begin(t) \/ Continue(t)
        PROVE  Atomic!Next \/ UNCHANGED Atomic!vars
    <3>1. CASE Unseen(t)
      BY <2>1, <2>3, <3>1, OutsideSubmitCounts
         DEF Unseen, Atomic!vars, registry, rejected
    <3>2. QED
      BY <2>1, <2>3, <3>1, OnlyTheseAreSeen, RegisterIsAtomic, UnregisterIsAtomic,
         RejectIsAtomic, CountIsUnseen, CreditIsAtomic, PushIsUnseen,
         PayoutIsAtomic, ClearIsAtomic
  <2>4. QED
    BY <2>1, <2>2, <2>3 DEF Next
<1>3. Init => PaysAmounts
  BY DEF Init, NoCalls, PaysAmounts
<1>4. TypeOK /\ PaysAmounts /\ [Next]_vars => PaysAmounts'
  BY PaysAmountsStep
<1>5. QED
  BY <1>1, <1>2, <1>3, <1>4, TypeCorrect, LocksHeld, RegistryInvariant,
     LogInvariant, PTL DEF Spec, ImplementsAtomicPool, Atomic!Spec

-----------------------------------------------------------------------------
(* Work.                                                                   *)

\* The work is refreshed by one task.
OneDistributor ==
  \A t, u \in Tasks : "distribute" \in Ops[t] /\ "distribute" \in Ops[u] => t = u

HandingOut == {"dist_each", "dist_work"}

\* Who hands out work keeps the miners, so that all of them have it in the
\* end; then it becomes the pool's.
WorkInv ==
  /\ \A t \in Tasks : pc[t] \in {"dist_miners"} \cup HandingOut => "distribute" \in Ops[t]
  /\ \A t \in Tasks : pc[t] = "dist_each" =>
       \A m \in DOMAIN miners : m \in arg[t].todo \/ miners[m] = arg[t].work
  /\ \A t \in Tasks : pc[t] = "dist_work" =>
       \A m \in DOMAIN miners : miners[m] = arg[t].work
  /\ WorkAgreement

\* Only these steps touch the work of the pool or of a miner.
LEMMA WorkBystander ==
  ASSUME TypeOK, NEW t \in Tasks, Begin(t) \/ Continue(t)
  PROVE  \/ RegisterInsert(t) \/ UnregisterRemove(t) \/ DistributeStart(t)
         \/ (\E m \in Miners : SetWork(t, m))
         \/ DistributeDone(t) \/ DistributeRemember(t)
         \/ /\ pc[t] \notin HandingOut /\ pc'[t] \notin HandingOut
            /\ pc'[t] = "dist_miners" => "distribute" \in Ops[t]
            /\ miners' = miners /\ currentWork' = currentWork
<1>a. pc \in [Tasks -> Points]
  BY DEF TypeOK
<1>b. Continue(t) => pc'[t] # "dist_miners"
  BY NothingBegins
<1> USE DEF HandingOut
<1>1. CASE Begin(t)
  BY <1>a, <1>1 DEF Begin, RegisterMiner, UnregisterMiner, SubmitShare,
     ProcessPayout, AddPoolFee, ClearOldShares, CalculateMinerPayout,
     DistributeWork, GetStats, GetDetailedStats, GetPoolEfficiency,
     Call, Enter, Move, data
<1>2. CASE \/ RegisterRefused(t) \/ RegisterAccount(t) \/ RegisterCount(t)
           \/ UnregisterAccount(t) \/ UnregisterCount(t)
  BY <1>a, <1>b, <1>2 DEF Continue, RegisterRefused, RegisterAccount, RegisterCount,
     UnregisterAccount, UnregisterCount, Reached, Await, Return, data
<1>3. CASE \/ ShareRejected(t) \/ ShareAccepted(t) \/ ShareCredit(t)
           \/ SharePush(t) \/ PayoutCredit(t) \/ FeeAdd(t)
  BY <1>a, <1>b, <1>3 DEF Continue, ShareRejected, ShareAccepted, ShareCredit,
     SharePush, PayoutCredit, FeeAdd, Reached, Await, Return
<1>4. CASE \/ ClearAwait(t) \/ ClearRetain(t) \/ EstimateNothing(t)
           \/ EstimateOwn(t) \/ EstimateAsk(t) \/ EstimateAll(t)
           \/ DistributeToNobody(t)
  BY <1>a, <1>b, <1>4 DEF Continue, ClearAwait, ClearRetain, EstimateNothing,
     EstimateOwn, EstimateAsk, EstimateAll, DistributeToNobody, Reached, Await,
     Drop, Return, data
<1>5. CASE StatsCopy(t) \/ StatsAsk(t) \/ StatsReport(t)
  BY <1>a, <1>b, <1>5 DEF Continue, StatsCopy, StatsAsk, StatsReport, Reached,
     Await, Drop, Return, data
<1>6. CASE \/ DetailedCopy(t) \/ DetailedAsk(t) \/ DetailedMiners(t)
           \/ DetailedReport(t) \/ EfficiencyStats(t) \/ EfficiencyReport(t)
  BY <1>a, <1>b, <1>6 DEF Continue, DetailedCopy, DetailedAsk, DetailedMiners,
     DetailedReport, EfficiencyStats, EfficiencyReport, Reached, Await, Drop,
     Return, data
<1>7. QED
  BY <1>1, <1>2, <1>3, <1>4, <1>5, <1>6 DEF Continue

\* Nobody registers or unregisters while work is handed out.
LEMMA NobodyHandsOut ==
  ASSUME PoolLocks, NEW t \in Tasks,
         Reached(t, "reg_miners", "miners") \/ Reached(t, "unreg_miners", "miners")
  PROVE  \A u \in Tasks : pc[u] \notin HandingOut
<1>1. SUFFICES ASSUME NEW u \in Tasks, pc[u] \in HandingOut
               PROVE  FALSE
  OBVIOUS
<1>2. /\ "miners" \in Locks
      /\ Wants[pc[t]]["miners"] = "write"
  BY DEF Points, Locks, Wants, Writes, RegPoints, UnregPoints, Reached
<1>3. Holds(locks["miners"], t) /\ Holds(locks["miners"], u)
  BY <1>1 DEF PoolLocks, LockInv, LockDiscipline, Points, Locks, HeldAt, Reached,
     HandingOut
<1>4. t = u
  BY <1>2, <1>3, OneHolder DEF PoolLocks
<1>5. QED
  BY <1>1, <1>4 DEF Reached, HandingOut

LEMMA WorkStep ==
  ASSUME OneDistributor, TypeOK, PoolLocks, WorkInv, [Next]_vars
  PROVE  WorkInv'
<1>a. pc \in [Tasks -> Points] /\ DOMAIN arg = Tasks
  BY DEF TypeOK
<1>1. CASE Tick \/ UNCHANGED vars
  BY <1>1 DEF Tick, vars, taskVars, data, WorkInv, WorkAgreement, Distributing
<1>2. ASSUME NEW t \in Tasks, Begin(t) \/ Continue(t)
      PROVE  WorkInv'
  <2>a. \A u \in Tasks \ {t} : pc'[u] = pc[u] /\ arg'[u] = arg[u]
    BY <1>2, OthersStay
  <2> USE DEF HandingOut
  <2>1. CASE RegisterInsert(t)
    <3>1. /\ pc'[t] = "reg_accounts" /\ currentWork' = currentWork
          /\ DOMAIN miners' = DOMAIN miners \cup {arg[t]}
          /\ \A m \in DOMAIN miners' : miners'[m] = IF m = arg[t] THEN None ELSE miners[m]
      BY <1>a, <2>1 DEF RegisterInsert, Await, Insert
    <3>2. \A u \in Tasks : pc[u] \notin HandingOut
      BY <2>1, NobodyHandsOut DEF RegisterInsert
    <3>3. \A m \in DOMAIN miners : miners[m] \in {None, currentWork}
      BY <3>2 DEF WorkInv, WorkAgreement, Distributing
    <3>4. QED
      BY <2>a, <3>1, <3>2, <3>3 DEF WorkInv, WorkAgreement
  <2>2. CASE UnregisterRemove(t)
    <3>1. /\ pc'[t] = "unreg_accounts" /\ currentWork' = currentWork
          /\ DOMAIN miners' \subseteq DOMAIN miners
          /\ \A m \in DOMAIN miners' : miners'[m] = miners[m]
      BY <1>a, <2>2 DEF UnregisterRemove, Await, Remove
    <3>2. \A u \in Tasks : pc[u] \notin HandingOut
      BY <2>2, NobodyHandsOut DEF UnregisterRemove
    <3>3. \A m \in DOMAIN miners : miners[m] \in {None, currentWork}
      BY <3>2 DEF WorkInv, WorkAgreement, Distributing
    <3>4. QED
      BY <2>a, <3>1, <3>2, <3>3 DEF WorkInv, WorkAgreement
  <2>3. CASE \/ DistributeStart(t) \/ (\E m \in Miners : SetWork(t, m))
             \/ DistributeDone(t) \/ DistributeRemember(t)
    <3>1. pc[t] \in {"dist_miners"} \cup HandingOut
      BY <2>3 DEF DistributeStart, SetWork, DistributeDone, DistributeRemember, Reached
    <3>2. \A u \in Tasks \ {t} : pc[u] \notin {"dist_miners"} \cup HandingOut
      BY <3>1 DEF OneDistributor, WorkInv
    <3>3. "distribute" \in Ops[t]
      BY <3>1 DEF WorkInv
    <3>4. CASE DistributeStart(t)
      <4>1. /\ pc'[t] = "dist_each" /\ arg'[t].todo = DOMAIN miners
            /\ miners' = miners
        BY <1>a, <3>4 DEF DistributeStart, Move, Keep, data
      <4>2. QED
        BY <2>a, <3>2, <3>3, <4>1 DEF WorkInv, WorkAgreement, Distributing
    <3>5. CASE \E m \in Miners : SetWork(t, m)
      <4>1. PICK m \in Miners : SetWork(t, m)
        BY <3>5
      <4>2. arg[t] \in [work : Works, todo : SUBSET Miners]
        BY <4>1, ArgAt DEF SetWork
      <4>3. /\ pc[t] = "dist_each" /\ pc'[t] = "dist_each"
            /\ arg'[t].work = arg[t].work /\ arg'[t].todo = arg[t].todo \ {m}
            /\ DOMAIN miners' = DOMAIN miners
            /\ \A k \in DOMAIN miners : miners'[k] = IF k = m THEN arg[t].work ELSE miners[k]
        BY <1>a, <4>1, <4>2 DEF SetWork, Keep
      <4>4. \A k \in DOMAIN miners : k \in arg[t].todo \/ miners[k] = arg[t].work
        BY <4>3 DEF WorkInv
      <4>5. QED
        BY <2>a, <3>2, <3>3, <4>3, <4>4 DEF WorkInv, WorkAgreement, Distributing
    <3>6. CASE DistributeDone(t)
      <4>1. /\ pc[t] = "dist_each" /\ pc'[t] = "dist_work" /\ arg' = arg
            /\ arg[t].todo = {} /\ miners' = miners
        BY <1>a, <3>6 DEF DistributeDone, Await, data
      <4>2. \A m \in DOMAIN miners : miners[m] = arg[t].work
        BY <4>1 DEF WorkInv
      <4>3. QED
        BY <2>a, <3>2, <3>3, <4>1, <4>2 DEF WorkInv, WorkAgreement, Distributing
    <3>7. CASE DistributeRemember(t)
      <4>1. /\ pc[t] = "dist_work" /\ pc'[t] = "idle" /\ miners' = miners
            /\ currentWork' = arg[t].work
        BY <1>a, <3>7 DEF DistributeRemember, Reached, Return
      <4>2. \A m \in DOMAIN miners : miners[m] = arg[t].work
        BY <4>1 DEF WorkInv
      <4>3. QED
        BY <2>a, <3>2, <4>1, <4>2 DEF WorkInv, WorkAgreement, Distributing
    <3>8. QED
      BY <2>3, <3>4, <3>5, <3>6, <3>7
  <2>4. CASE /\ pc[t] \notin HandingOut /\ pc'[t] \notin HandingOut
             /\ pc'[t] = "dist_miners" => "distribute" \in Ops[t]
             /\ miners' = miners /\ currentWork' = currentWork
    BY <2>a, <2>4 DEF WorkInv, WorkAgreement, Distributing
  <2>5. QED
    BY <1>2, <2>1, <2>2, <2>3, <2>4, WorkBystander
<1>3. QED
  BY <1>1, <1>2 DEF Next

\* While one task refreshes the work, every registered miner works on the
\* pool's between its calls of distribute_work, or registered since.
THEOREM WorkAgreementHolds ==
  ASSUME OneDistributor
  PROVE  Spec => []WorkAgreement
<1>1. Init => WorkInv
  BY DEF Init, NoCalls, WorkInv, WorkAgreement, Distributing, HandingOut
<1>2. TypeOK /\ PoolLocks /\ WorkInv /\ [Next]_vars => WorkInv'
  BY WorkStep
<1>3. WorkInv => WorkAgreement
  BY DEF WorkInv
<1>4. QED
  BY <1>1, <1>2, <1>3, TypeCorrect, LocksHeld, PTL DEF Spec
=============================================================================
