----------------------------- MODULE MiningPool -----------------------------
(***************************************************************************)
(* The in-process mining pool (src/src/mining_pool.rs).                    *)
(*                                                                         *)
(* A pool is five values, each behind its own fair RwLock, and an atomic   *)
(* counter.  Any number of tasks call its methods at once; a method keeps  *)
(* its guards until it returns unless the code drops one earlier, and then *)
(* the action says so.                                                     *)
(***************************************************************************)
EXTENDS LockedTasks, Naturals, Integers, FiniteSets, FiniteSetsExt, Functions

CONSTANTS
  Miners,            \* the miner ids callers use
  ValidAddresses,    \* the ids validate_miner_address accepts
  Works,             \* work packages
  Difficulties,      \* difficulties of the shares callers submit
  Amounts,           \* payout and fee amounts callers pass
  Ops,               \* the operations each task calls in this instance
  MaxMiners,         \* PoolConfig::max_miners
  MinShareDifficulty,\* PoolConfig::min_share_difficulty
  FeePercent,        \* PoolConfig::pool_fee_percentage
  BlockReward,       \* the reward calculate_miner_payout is asked to divide
  ShareWindow,       \* a share may be this old (3600 in the code)
  ClearAge,          \* the age clear_old_shares is called with
  ClockRange,        \* 2^64: ages are u64 differences
  Skew,              \* how far a share's clock may be ahead of the pool's
  MaxTime,           \* bound: the clock stops here
  MaxShares,         \* bound: shares submitted in one behaviour
  MaxEarnings        \* bound: no new payout or fee call beyond this

OpNames == {"register", "unregister", "submit", "payout", "fee", "clear",
            "estimate", "distribute", "stats", "detailed", "efficiency"}

ASSUME PoolAssumption ==
  /\ IsFiniteSet(Miners) /\ IsFiniteSet(Tasks)
  /\ ValidAddresses \subseteq Miners
  /\ Ops \in [Tasks -> SUBSET OpNames]
  /\ Difficulties \subseteq Nat \ {0} /\ Amounts \subseteq Nat
  /\ {MaxMiners, MinShareDifficulty, BlockReward, ShareWindow, ClearAge,
      Skew, MaxTime, MaxShares, MaxEarnings} \subseteq Nat
  /\ FeePercent \in 0..100
  /\ ClockRange \in Nat /\ ClockRange > MaxTime + Skew
  /\ None \notin Works

VARIABLES
  now,          \* SystemTime::now(), in seconds
  miners,       \* HashMap<id, Arc<Miner>>: each miner's current_work
  accounts,     \* HashMap<id, MinerAccount>
  stats,        \* PoolStats
  shares,       \* Vec<MinerShare>: each share with the number it was given
  totalShares,  \* the atomic counter total_shares
  currentWork,  \* Option<WorkPackage>
  cleared       \* history: the numbers of the shares clear_old_shares removed

data == <<miners, accounts, stats, shares, totalShares, currentWork, cleared>>
vars == <<now, data, taskVars>>

Locks == {"miners", "accounts", "stats", "shares", "work"}

Account == [total_shares : Nat, total_earnings : Nat, pending_payout : Nat]
Stats == [connected_miners : Nat, shares_accepted : Nat, shares_rejected : Nat,
          blocks_found : Nat, pool_fee_collected : Nat]
Times == 0..(MaxTime + Skew)
Share == [miner_id : Miners, difficulty : Difficulties, timestamp : Times,
          is_block : BOOLEAN]
Pushed == [id : Nat, miner_id : Miners, difficulty : Difficulties,
           timestamp : Times, is_block : BOOLEAN]

NewAccount == [total_shares |-> 0, total_earnings |-> 0, pending_payout |-> 0]

-----------------------------------------------------------------------------
(* A caller of this instance starts an operation.                          *)

Call(t, op, value, point, lock, mode) ==
  /\ op \in Ops[t]
  /\ Enter(t, value, point, lock, mode)
  /\ UNCHANGED <<now, data>>

\* HashMap::insert and HashMap::remove.
Insert(map, key, value) ==
  [k \in DOMAIN map \cup {key} |-> IF k = key THEN value ELSE map[k]]
Remove(map, key) == [k \in DOMAIN map \ {key} |-> map[k]]

-----------------------------------------------------------------------------
(* register_miner: miners, then accounts, then stats, all kept.            *)

RegisterMiner(t, m) == Call(t, "register", m, "reg_miners", "miners", "write")

PoolFull == Cardinality(DOMAIN miners) >= MaxMiners

RegisterRefused(t) ==
  /\ Reached(t, "reg_miners", "miners")
  /\ PoolFull \/ arg[t] \in DOMAIN miners
  /\ Return(t)
  /\ UNCHANGED <<now, data>>

RegisterInsert(t) ==
  /\ Reached(t, "reg_miners", "miners")
  /\ ~PoolFull /\ arg[t] \notin DOMAIN miners
  /\ miners' = Insert(miners, arg[t], None)
  /\ Await(t, "reg_accounts", "accounts", "write")
  /\ UNCHANGED <<now, accounts, stats, shares, totalShares, currentWork,
                 cleared, arg>>

RegisterAccount(t) ==
  /\ Reached(t, "reg_accounts", "accounts")
  /\ accounts' = Insert(accounts, arg[t], NewAccount)
  /\ Await(t, "reg_stats", "stats", "write")
  /\ UNCHANGED <<now, miners, stats, shares, totalShares, currentWork,
                 cleared, arg>>

RegisterCount(t) ==
  /\ Reached(t, "reg_stats", "stats")
  /\ stats' = [stats EXCEPT !.connected_miners = Cardinality(DOMAIN miners)]
  /\ Return(t)
  /\ UNCHANGED <<now, miners, accounts, shares, totalShares, currentWork,
                 cleared>>

-----------------------------------------------------------------------------
(* unregister_miner: the same three locks; an unknown id is not an error.  *)

UnregisterMiner(t, m) ==
  Call(t, "unregister", m, "unreg_miners", "miners", "write")

UnregisterRemove(t) ==
  /\ Reached(t, "unreg_miners", "miners")
  /\ miners' = Remove(miners, arg[t])
  /\ Await(t, "unreg_accounts", "accounts", "write")
  /\ UNCHANGED <<now, accounts, stats, shares, totalShares, currentWork,
                 cleared, arg>>

\* Variant: an account with a pending payout survives its miner.
UnregisterKeepsOwed(t) ==
  /\ Reached(t, "unreg_accounts", "accounts")
  /\ accounts' = [m \in {k \in DOMAIN accounts :
                            k # arg[t] \/ accounts[k].pending_payout > 0}
                    |-> accounts[m]]
  /\ Await(t, "unreg_stats", "stats", "write")
  /\ UNCHANGED <<now, miners, stats, shares, totalShares, currentWork,
                 cleared, arg>>

UnregisterAccount(t) ==
  /\ Reached(t, "unreg_accounts", "accounts")
  /\ accounts' = Remove(accounts, arg[t])
  /\ Await(t, "unreg_stats", "stats", "write")
  /\ UNCHANGED <<now, miners, stats, shares, totalShares, currentWork,
                 cleared, arg>>

UnregisterCount(t) ==
  /\ Reached(t, "unreg_stats", "stats")
  /\ stats' = [stats EXCEPT !.connected_miners = Cardinality(DOMAIN miners)]
  /\ Return(t)
  /\ UNCHANGED <<now, miners, accounts, shares, totalShares, currentWork,
                 cleared>>

-----------------------------------------------------------------------------
(* submit_share: stats, then accounts, then shares, all kept.  The clock   *)
(* is read once stats is locked.                                           *)

Submitting == {t \in Tasks : pc[t] = "share_stats"}
ShareBudget ==
  stats.shares_accepted + stats.shares_rejected + Cardinality(Submitting)
    < MaxShares

SubmitShare(t, share) ==
  /\ ShareBudget
  /\ share.timestamp <= now + Skew
  /\ Call(t, "submit", share, "share_stats", "stats", "write")

Refusable(share) == \/ share.difficulty < MinShareDifficulty
                    \/ now > share.timestamp + ShareWindow

ShareRejected(t) ==
  /\ Reached(t, "share_stats", "stats")
  /\ Refusable(arg[t])
  /\ stats' = [stats EXCEPT !.shares_rejected = @ + 1]
  /\ Return(t)
  /\ UNCHANGED <<now, miners, accounts, shares, totalShares, currentWork,
                 cleared>>

CountShare(share) ==
  /\ stats' = [stats EXCEPT
                 !.blocks_found = IF share.is_block THEN @ + 1 ELSE @,
                 !.shares_accepted = @ + 1]
  /\ totalShares' = totalShares + 1

\* Variant: the counters are unlocked as soon as they are updated.
ShareAcceptedUnlocks(t) ==
  /\ Reached(t, "share_stats", "stats")
  /\ ~Refusable(arg[t])
  /\ CountShare(arg[t])
  /\ AwaitAfter(t, "stats", "share_accounts", "accounts", "write")
  /\ UNCHANGED <<now, miners, accounts, shares, currentWork, cleared, arg>>

ShareAccepted(t) ==
  /\ Reached(t, "share_stats", "stats")
  /\ ~Refusable(arg[t])
  /\ CountShare(arg[t])
  /\ Await(t, "share_accounts", "accounts", "write")
  /\ UNCHANGED <<now, miners, accounts, shares, currentWork, cleared, arg>>

\* The share of an id without an account is kept all the same.
ShareCredit(t) ==
  /\ Reached(t, "share_accounts", "accounts")
  /\ accounts' = IF arg[t].miner_id \in DOMAIN accounts
                 THEN [accounts EXCEPT ![arg[t].miner_id].total_shares = @ + 1]
                 ELSE accounts
  /\ Await(t, "share_shares", "shares", "write")
  /\ UNCHANGED <<now, miners, stats, shares, totalShares, currentWork,
                 cleared, arg>>

\* The number of the share pushed last: submit_share still holds stats, so
\* it is the value of the counter.
Stamp(share, n) == [id |-> n, miner_id |-> share.miner_id,
                    difficulty |-> share.difficulty,
                    timestamp |-> share.timestamp, is_block |-> share.is_block]

\* Variant: the share of an id without an account is dropped.
SharePushKnown(t) ==
  /\ Reached(t, "share_shares", "shares")
  /\ shares' = IF arg[t].miner_id \in DOMAIN accounts
               THEN shares \cup {Stamp(arg[t], totalShares)} ELSE shares
  /\ Return(t)
  /\ UNCHANGED <<now, miners, accounts, stats, totalShares, currentWork,
                 cleared>>

SharePush(t) ==
  /\ Reached(t, "share_shares", "shares")
  /\ shares' = shares \cup {Stamp(arg[t], totalShares)}
  /\ Return(t)
  /\ UNCHANGED <<now, miners, accounts, stats, totalShares, currentWork,
                 cleared>>

-----------------------------------------------------------------------------
(* clear_old_shares: the clock is read before the lock is asked for, so    *)
(* other tasks, and the clock, may move in between; ages are u64           *)
(* differences that wrap.                                                  *)

Age(at, share) == (at - share.timestamp) % ClockRange

ClearOldShares(t) ==
  /\ "clear" \in Ops[t]
  /\ pc[t] = "idle"
  /\ Move(t, "clear_clock")
  /\ Keep(t, [at |-> now])
  /\ UNCHANGED <<now, data>>

ClearAwait(t) ==
  /\ pc[t] = "clear_clock"
  /\ Await(t, "clear_shares", "shares", "write")
  /\ UNCHANGED <<now, data, arg>>

ClearRetain(t) ==
  LET old == {s \in shares : Age(arg[t].at, s) > ClearAge}
  IN  /\ Reached(t, "clear_shares", "shares")
      /\ shares' = shares \ old
      /\ cleared' = cleared \cup {s.id : s \in old}
      /\ Return(t)
      /\ UNCHANGED <<now, miners, accounts, stats, totalShares, currentWork>>

-----------------------------------------------------------------------------
(* process_payout and add_pool_fee: one lock each.                         *)

ProcessPayout(t, m, amount) ==
  /\ m \in ValidAddresses /\ amount > 0
  /\ m \in DOMAIN accounts => accounts[m].total_earnings < MaxEarnings
  /\ Call(t, "payout", [miner |-> m, amount |-> amount],
          "pay_accounts", "accounts", "write")

\* Variant: a payout to an unknown id opens an account (entry().or_insert()).
PayoutOpensAccount(t) ==
  /\ Reached(t, "pay_accounts", "accounts")
  /\ accounts' = IF arg[t].miner \in DOMAIN accounts THEN accounts
                 ELSE Insert(accounts, arg[t].miner,
                             [NewAccount EXCEPT !.pending_payout = arg[t].amount])
  /\ Return(t)
  /\ UNCHANGED <<now, miners, stats, shares, totalShares, currentWork,
                 cleared>>

PayoutCredit(t) ==
  /\ Reached(t, "pay_accounts", "accounts")
  /\ LET m == arg[t].miner
         Credited(a) ==
           [a EXCEPT !.pending_payout = @ + arg[t].amount,
                     !.total_earnings = @ + arg[t].amount]
     IN  accounts' = IF m \in DOMAIN accounts
                     THEN [accounts EXCEPT ![m] = Credited(@)] ELSE accounts
  /\ Return(t)
  /\ UNCHANGED <<now, miners, stats, shares, totalShares, currentWork,
                 cleared>>

AddPoolFee(t, amount) ==
  /\ stats.pool_fee_collected < MaxEarnings
  /\ Call(t, "fee", [amount |-> amount], "fee_stats", "stats", "write")

FeeAdd(t) ==
  /\ Reached(t, "fee_stats", "stats")
  /\ stats' = [stats EXCEPT !.pool_fee_collected = @ + arg[t].amount]
  /\ Return(t)
  /\ UNCHANGED <<now, miners, accounts, shares, totalShares, currentWork,
                 cleared>>

-----------------------------------------------------------------------------
(* calculate_miner_payout: the shares lock is taken twice, once inside     *)
(* get_miner_shares and once to add up everybody's shares.  The f64 ratio  *)
(* is modelled as an exact fraction, rounded down as the final cast does.  *)

Difficulty(log) == MapThenSumSet(LAMBDA s : s.difficulty, log)
SharesOf(m) == {s \in shares : s.miner_id = m}
PoolFee == (BlockReward * FeePercent) \div 100
MinerPayout(own, all) == ((BlockReward - PoolFee) * own) \div all

CalculateMinerPayout(t, m) ==
  /\ m \in ValidAddresses
  /\ Call(t, "estimate", m, "est_own", "shares", "read")

EstimateNothing(t) ==
  /\ Reached(t, "est_own", "shares")
  /\ SharesOf(arg[t]) = {}
  /\ Return(t)
  /\ UNCHANGED <<now, data>>

EstimateOwn(t) ==
  /\ Reached(t, "est_own", "shares")
  /\ SharesOf(arg[t]) # {}
  /\ Keep(t, [own |-> SharesOf(arg[t])])
  /\ Drop(t, "shares", "est_added")
  /\ UNCHANGED <<now, data>>

EstimateAsk(t) ==
  /\ pc[t] = "est_added"
  /\ Await(t, "est_all", "shares", "read")
  /\ UNCHANGED <<now, data, arg>>

EstimateAll(t) ==
  /\ Reached(t, "est_all", "shares")
  /\ Return(t)
  /\ UNCHANGED <<now, data>>

-----------------------------------------------------------------------------
(* distribute_work: under miners.read, hand the package to each miner in   *)
(* the map's arbitrary order (one await of Miner::set_work each), then     *)
(* remember it as the pool's current work.                                 *)

DistributeWork(t, work) ==
  Call(t, "distribute", work, "dist_miners", "miners", "read")

DistributeToNobody(t) ==
  /\ Reached(t, "dist_miners", "miners")
  /\ DOMAIN miners = {}
  /\ Return(t)
  /\ UNCHANGED <<now, data>>

DistributeStart(t) ==
  /\ Reached(t, "dist_miners", "miners")
  /\ DOMAIN miners # {}
  /\ Move(t, "dist_each")
  /\ Keep(t, [work |-> arg[t], todo |-> DOMAIN miners])
  /\ UNCHANGED <<now, data>>

\* Variant: a miner that still has work is left to finish it.
SetWorkIfIdle(t, m) ==
  /\ pc[t] = "dist_each"
  /\ m \in arg[t].todo
  /\ miners' = [miners EXCEPT ![m] = IF @ = None THEN arg[t].work ELSE @]
  /\ Keep(t, [arg[t] EXCEPT !.todo = @ \ {m}])
  /\ UNCHANGED <<now, accounts, stats, shares, totalShares, currentWork,
                 cleared, locks, pc>>

SetWork(t, m) ==
  /\ pc[t] = "dist_each"
  /\ m \in arg[t].todo
  /\ miners' = [miners EXCEPT ![m] = arg[t].work]
  /\ Keep(t, [arg[t] EXCEPT !.todo = @ \ {m}])
  /\ UNCHANGED <<now, accounts, stats, shares, totalShares, currentWork,
                 cleared, locks, pc>>

DistributeDone(t) ==
  /\ pc[t] = "dist_each"
  /\ arg[t].todo = {}
  /\ Await(t, "dist_work", "work", "write")
  /\ UNCHANGED <<now, data, arg>>

DistributeRemember(t) ==
  /\ Reached(t, "dist_work", "work")
  /\ currentWork' = arg[t].work
  /\ Return(t)
  /\ UNCHANGED <<now, miners, accounts, stats, shares, totalShares, cleared>>

-----------------------------------------------------------------------------
(* The reports.  get_stats and get_detailed_stats copy the counters and    *)
(* drop that guard before they go on; get_pool_efficiency keeps it.        *)

GetStats(t) == Call(t, "stats", None, "stats_stats", "stats", "read")

StatsCopy(t) ==
  /\ Reached(t, "stats_stats", "stats")
  /\ Keep(t, stats)
  /\ Drop(t, "stats", "stats_copied")
  /\ UNCHANGED <<now, data>>

StatsAsk(t) ==
  /\ pc[t] = "stats_copied"
  /\ Await(t, "stats_miners", "miners", "read")
  /\ UNCHANGED <<now, data, arg>>

\* Variant: copy again if the counters moved meanwhile.
StatsReportRetries(t) ==
  /\ Reached(t, "stats_miners", "miners")
  /\ UNCHANGED <<now, data>>
  /\ IF arg[t] = stats THEN Return(t)
     ELSE /\ Keep(t, None)
          /\ AwaitAfter(t, "miners", "stats_stats", "stats", "read")

StatsReport(t) ==
  /\ Reached(t, "stats_miners", "miners")
  /\ Return(t)
  /\ UNCHANGED <<now, data>>

GetDetailedStats(t) == Call(t, "detailed", None, "det_stats", "stats", "read")

\* Variant: the counters stay locked while the report is put together.
DetailedCopyKeeps(t) ==
  /\ Reached(t, "det_stats", "stats")
  /\ Keep(t, stats)
  /\ Await(t, "det_miners", "miners", "read")
  /\ UNCHANGED <<now, data>>

DetailedCopy(t) ==
  /\ Reached(t, "det_stats", "stats")
  /\ Keep(t, stats)
  /\ Drop(t, "stats", "det_copied")
  /\ UNCHANGED <<now, data>>

DetailedAsk(t) ==
  /\ pc[t] = "det_copied"
  /\ Await(t, "det_miners", "miners", "read")
  /\ UNCHANGED <<now, data, arg>>

DetailedMiners(t) ==
  /\ Reached(t, "det_miners", "miners")
  /\ Await(t, "det_shares", "shares", "read")
  /\ UNCHANGED <<now, data, arg>>

DetailedReport(t) ==
  /\ Reached(t, "det_shares", "shares")
  /\ Return(t)
  /\ UNCHANGED <<now, data>>

GetPoolEfficiency(t) ==
  Call(t, "efficiency", None, "eff_stats", "stats", "read")

EfficiencyStats(t) ==
  /\ Reached(t, "eff_stats", "stats")
  /\ Await(t, "eff_shares", "shares", "read")
  /\ UNCHANGED <<now, data, arg>>

EfficiencyReport(t) ==
  /\ Reached(t, "eff_shares", "shares")
  /\ Return(t)
  /\ UNCHANGED <<now, data>>

-----------------------------------------------------------------------------
Tick == /\ now < MaxTime
        /\ now' = now + 1
        /\ UNCHANGED <<data, taskVars>>

\* A caller starts an operation.
Begin(t) ==
  \/ \E m \in Miners : RegisterMiner(t, m)
  \/ \E m \in Miners : UnregisterMiner(t, m)
  \/ \E s \in Share : SubmitShare(t, s)
  \/ \E m \in Miners, a \in Amounts : ProcessPayout(t, m, a)
  \/ \E a \in Amounts : AddPoolFee(t, a)
  \/ ClearOldShares(t)
  \/ \E m \in Miners : CalculateMinerPayout(t, m)
  \/ \E w \in Works : DistributeWork(t, w)
  \/ GetStats(t)
  \/ GetDetailedStats(t)
  \/ GetPoolEfficiency(t)

\* An operation goes on, or returns.
Continue(t) ==
  \/ RegisterRefused(t) \/ RegisterInsert(t)
  \/ RegisterAccount(t) \/ RegisterCount(t)
  \/ UnregisterRemove(t) \/ UnregisterAccount(t) \/ UnregisterCount(t)
  \/ ShareRejected(t) \/ ShareAccepted(t) \/ ShareCredit(t) \/ SharePush(t)
  \/ PayoutCredit(t) \/ FeeAdd(t) \/ ClearAwait(t) \/ ClearRetain(t)
  \/ EstimateNothing(t) \/ EstimateOwn(t) \/ EstimateAsk(t) \/ EstimateAll(t)
  \/ DistributeToNobody(t) \/ DistributeStart(t)
  \/ (\E m \in Miners : SetWork(t, m))
  \/ DistributeDone(t) \/ DistributeRemember(t)
  \/ StatsCopy(t) \/ StatsAsk(t) \/ StatsReport(t)
  \/ DetailedCopy(t) \/ DetailedAsk(t) \/ DetailedMiners(t)
  \/ DetailedReport(t)
  \/ EfficiencyStats(t) \/ EfficiencyReport(t)

Init ==
  /\ now = 0
  /\ miners = << >> /\ accounts = << >>
  /\ stats = [connected_miners |-> 0, shares_accepted |-> 0,
              shares_rejected |-> 0, blocks_found |-> 0,
              pool_fee_collected |-> 0]
  /\ shares = {} /\ totalShares = 0 /\ currentWork = None
  /\ cleared = {}
  /\ NoCalls(Locks)

Next == Tick \/ \E t \in Tasks : Begin(t) \/ Continue(t)

Spec == Init /\ [][Next]_vars

\* The runtime polls a task again once the lock it waits for is granted.
\* Nobody promises that callers call, or that the clock moves.
FairSpec == Spec /\ \A t \in Tasks : WF_vars(Continue(t))

-----------------------------------------------------------------------------
(* Types.                                                                  *)

RegPoints == {"reg_miners", "reg_accounts", "reg_stats"}
UnregPoints == {"unreg_miners", "unreg_accounts", "unreg_stats"}
SharePoints == {"share_stats", "share_accounts", "share_shares"}
Detailing == {"det_copied", "det_miners", "det_shares"}
Points == RegPoints \cup UnregPoints \cup SharePoints \cup
  {"idle", "pay_accounts", "fee_stats", "clear_clock", "clear_shares",
   "est_own", "est_added", "est_all", "dist_miners", "dist_each", "dist_work",
   "stats_stats", "stats_copied", "stats_miners",
   "det_stats", "det_copied", "det_miners", "det_shares",
   "eff_stats", "eff_shares"}

ArgOf(point) ==
  CASE point \in RegPoints \cup UnregPoints \cup {"est_own"} -> Miners
    [] point \in SharePoints -> Share
    [] point = "pay_accounts" -> [miner : Miners, amount : Nat]
    [] point = "fee_stats" -> [amount : Nat]
    [] point \in {"clear_clock", "clear_shares"} -> [at : 0..MaxTime]
    [] point \in {"est_added", "est_all"} -> [own : SUBSET Pushed]
    [] point = "dist_miners" -> Works
    [] point \in {"dist_each", "dist_work"} -> [work : Works, todo : SUBSET Miners]
    [] point \in {"stats_copied", "stats_miners"} \cup Detailing -> Stats
    [] OTHER -> {None}

TypeOK ==
  /\ now \in 0..MaxTime
  /\ DOMAIN miners \subseteq Miners
  /\ miners \in [DOMAIN miners -> Works \cup {None}]
  /\ DOMAIN accounts \subseteq Miners
  /\ accounts \in [DOMAIN accounts -> Account]
  /\ stats \in Stats
  /\ shares \subseteq Pushed
  /\ totalShares \in Nat
  /\ currentWork \in Works \cup {None}
  /\ cleared \subseteq Nat
  /\ DOMAIN locks = Locks
  /\ \A l \in Locks : WellFormed(locks[l], Tasks)
  /\ pc \in [Tasks -> Points]
  /\ DOMAIN arg = Tasks
  /\ \A t \in Tasks : arg[t] \in ArgOf(pc[t])

-----------------------------------------------------------------------------
(* Which guards a task has at each await point.                            *)

Writes ==
  [miners |-> RegPoints \cup UnregPoints,
   accounts |-> {"reg_accounts", "reg_stats", "unreg_accounts", "unreg_stats",
                 "share_accounts", "share_shares", "pay_accounts"},
   stats |-> SharePoints \cup {"reg_stats", "unreg_stats", "fee_stats"},
   shares |-> {"share_shares", "clear_shares"},
   work |-> {"dist_work"}]

Reads ==
  [miners |-> {"dist_miners", "dist_each", "dist_work", "stats_miners",
               "det_miners", "det_shares"},
   accounts |-> {},
   stats |-> {"stats_stats", "det_stats", "eff_stats", "eff_shares"},
   shares |-> {"est_own", "est_all", "det_shares", "eff_shares"},
   work |-> {}]

Wants == [point \in Points |-> [lock \in Locks |->
            IF point \in Writes[lock] THEN "write"
            ELSE IF point \in Reads[lock] THEN "read" ELSE "none"]]

HeldAt == [point \in Points |->
  CASE point \in {"reg_accounts", "unreg_accounts", "dist_each", "dist_work",
                  "det_shares"} -> {"miners"}
    [] point \in {"reg_stats", "unreg_stats"} -> {"miners", "accounts"}
    [] point \in {"share_accounts", "eff_shares"} -> {"stats"}
    [] point = "share_shares" -> {"stats", "accounts"}
    [] OTHER -> {}]

-----------------------------------------------------------------------------
(* What a reader of the pool may rely on.                                  *)

\* Whoever can read the miners (register_miner and unregister_miner keep the
\* guard across all three updates) finds an account for exactly the
\* registered ids and a connected_miners count that agrees with them.
RegistryConsistent ==
  ~WriteHeld(locks["miners"]) =>
    /\ DOMAIN accounts = DOMAIN miners
    /\ stats.connected_miners = Cardinality(DOMAIN miners)
    /\ stats.connected_miners <= MaxMiners

\* Whoever can read the counters finds that every share submit_share counted
\* is in the log, unless clear_old_shares took it out: none is lost between
\* the count and the push, and none is logged twice or uncounted.
LogComplete ==
  ~WriteHeld(locks["stats"]) =>
    /\ totalShares = stats.shares_accepted
    /\ {s.id : s \in shares} \cup cleared = 1..stats.shares_accepted
    /\ {s.id : s \in shares} \cap cleared = {}
    /\ \A r, s \in shares : r.id = s.id => r = s

\* get_detailed_stats copies the counters first and reads the shares later,
\* under other locks: its report never counts a share it has not added up.
DetailedReportComplete ==
  \A t \in Tasks : Reached(t, "det_shares", "shares") =>
    1..arg[t].shares_accepted \subseteq {s.id : s \in shares} \cup cleared

\* calculate_miner_payout never answers more than the block reward less the
\* pool's fee, although it takes the shares lock twice.
PayoutWithinReward ==
  \A t \in Tasks :
    Reached(t, "est_all", "shares") /\ Difficulty(shares) > 0 =>
      MinerPayout(Difficulty(arg[t].own), Difficulty(shares)) <= BlockReward - PoolFee

-----------------------------------------------------------------------------
(* Why the registry and the log are consistent: what holds between the     *)
(* locks of an operation that is half done.                                *)

\* register_miner and unregister_miner, from the first change on.
AccountsBehind == {"reg_accounts", "unreg_accounts"}
CountBehind == AccountsBehind \cup {"reg_stats", "unreg_stats"}

RegistryInv ==
  /\ Cardinality(DOMAIN miners) <= MaxMiners
  /\ \A t \in Tasks : pc[t] = "reg_accounts" =>
       /\ arg[t] \in DOMAIN miners
       /\ DOMAIN accounts = DOMAIN miners \ {arg[t]}
  /\ \A t \in Tasks : pc[t] = "unreg_accounts" =>
       DOMAIN miners = DOMAIN accounts \ {arg[t]}
  /\ (\A t \in Tasks : pc[t] \notin AccountsBehind) =>
       DOMAIN accounts = DOMAIN miners
  /\ (\A t \in Tasks : pc[t] \notin CountBehind) =>
       stats.connected_miners = Cardinality(DOMAIN miners)

\* submit_share between the count and the push.
LogBehind == {"share_accounts", "share_shares"}

Logged == {s.id : s \in shares}

LogInv ==
  /\ totalShares = stats.shares_accepted
  /\ \A t \in Tasks : pc[t] \in LogBehind =>
       totalShares > 0 /\ Logged \cup cleared = 1..(totalShares - 1)
  /\ (\A t \in Tasks : pc[t] \notin LogBehind) =>
       Logged \cup cleared = 1..totalShares
  /\ Logged \cap cleared = {}
  /\ \A r, s \in shares : r.id = s.id => r = s
  /\ \A t \in Tasks : pc[t] \in Detailing =>
       1..arg[t].shares_accepted \subseteq Logged \cup cleared

\* The inductive invariant: each task holds the guards its place in the code
\* says it holds, and the registry and the log are behind by exactly the
\* updates that the guards' holders still owe.
PoolInv == LockDiscipline(Wants, HeldAt) /\ RegistryInv /\ LogInv

-----------------------------------------------------------------------------
(* Waiting for locks.                                                      *)

\* Any circle has a submit_share that keeps stats and waits for accounts and
\* a register_miner or unregister_miner that keeps accounts and waits for
\* stats: the other eight operations take their locks in one order.
DeadlockShape ==
  \A D \in SUBSET Tasks : Stuck(D) =>
    /\ \E t \in D : pc[t] = "share_accounts"
    /\ \E t \in D : pc[t] \in {"reg_stats", "unreg_stats"}

\* Every call returns, unless some calls wait for each other in a circle:
\* no error path keeps a guard, and no reader or writer is starved.
CallsReturn ==
  \A t \in Tasks : pc[t] # "idle" ~> (pc[t] = "idle" \/ Deadlock)

-----------------------------------------------------------------------------
(* Work.                                                                   *)

Distributing == \E t \in Tasks : pc[t] \in {"dist_each", "dist_work"}

\* Between distributions every registered miner works on the pool's current
\* work, or registered since and has none yet.
WorkAgreement ==
  ~Distributing =>
    \A m \in DOMAIN miners : miners[m] \in {None, currentWork}

-----------------------------------------------------------------------------
(* The pool implements the atomic one.  A share takes effect when its      *)
(* account is credited, a registration when the account appears.           *)

Counted == {t \in Tasks : pc[t] = "share_accounts"}
Unpushed == {Stamp(arg[t], totalShares) :
               t \in {u \in Tasks : pc[u] = "share_shares"}}

registry == [m \in DOMAIN accounts |->
               [shares |-> accounts[m].total_shares,
                earned |-> accounts[m].total_earnings]]
accepted == stats.shares_accepted - Cardinality(Counted)
rejected == stats.shares_rejected
blocks == stats.blocks_found - Cardinality({t \in Counted : arg[t].is_block})
log == {[number |-> s.id,
         share |-> [miner_id |-> s.miner_id, difficulty |-> s.difficulty,
                    timestamp |-> s.timestamp, is_block |-> s.is_block]] :
          s \in shares \cup Unpushed}

Atomic == INSTANCE AtomicPool WITH Shares <- Share

\* Callers see each of submit_share, register_miner, unregister_miner,
\* process_payout and clear_old_shares happen in one step.
ImplementsAtomicPool == Atomic!Spec
=============================================================================
