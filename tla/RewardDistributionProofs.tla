----------------------- MODULE RewardDistributionProofs -----------------------
(***************************************************************************)
(* Theorems about the reward ledger, for any number of tasks and miners    *)
(* and any amounts.                                                        *)
(***************************************************************************)
EXTENDS RewardDistribution, LockedTasksProofs, FiniteSetTheorems,
        SequenceTheorems

-----------------------------------------------------------------------------
(* The locks.                                                              *)

LedgerLocks == LockInv(Locks, Points, Wants, HeldAt)

\* A task between two calls has no guard and waits for none.
LEMMA IdleHoldsNothing ==
  /\ "idle" \in Points
  /\ \A l \in Locks : Wants["idle"][l] = "none"
  /\ HeldAt["idle"] = {}
BY DEF Points, Locks, Wants, Writes, Reads, HeldAt

\* Starting an operation asks for the accounts.
LEMMA BeginKeepsLocks ==
  ASSUME LedgerLocks, NEW t \in Tasks, Begin(t)
  PROVE  LedgerLocks'
<1> USE DEF LedgerLocks
<1>1. CASE \E m \in Miners, h \in Heights, fees \in Fees :
             RecordBlockReward(t, m, h, fees)
  <2>1. Asks(Locks, Points, Wants, HeldAt, "idle", {},
             "rew_accounts", "accounts", "write")
    BY DEF Asks, Points, Locks, Wants, Writes, Reads, HeldAt
  <2>2. \E v : Enter(t, v, "rew_accounts", "accounts", "write")
    BY <1>1 DEF RecordBlockReward, Call
  <2>3. QED
    BY <2>1, <2>2, EnterKeepsLocks
<1>2. CASE \E m \in Miners, amount \in Amounts : ProcessPayout(t, m, amount)
  <2>1. Asks(Locks, Points, Wants, HeldAt, "idle", {},
             "pay_accounts", "accounts", "write")
    BY DEF Asks, Points, Locks, Wants, Writes, Reads, HeldAt
  <2>2. \E v : Enter(t, v, "pay_accounts", "accounts", "write")
    BY <1>2 DEF ProcessPayout, Call
  <2>3. QED
    BY <2>1, <2>2, EnterKeepsLocks
<1>3. CASE GetStats(t)
  <2>1. Asks(Locks, Points, Wants, HeldAt, "idle", {},
             "stats_accounts", "accounts", "read")
    BY DEF Asks, Points, Locks, Wants, Writes, Reads, HeldAt
  <2>2. QED
    BY <1>3, <2>1, EnterKeepsLocks DEF GetStats, Call
<1>4. QED
  BY <1>1, <1>2, <1>3 DEF Begin

\* Every later segment has the guards it runs under and asks for the next
\* lock, or returns.
LEMMA ContinueKeepsLocks ==
  ASSUME LedgerLocks, NEW t \in Tasks, Continue(t)
  PROVE  LedgerLocks'
<1> USE DEF LedgerLocks
<1>1. CASE RewardCredit(t)
  <2>1. Asks(Locks, Points, Wants, HeldAt, "rew_accounts", {"accounts"},
             "rew_history", "history", "write")
    BY DEF Asks, Points, Locks, Wants, Writes, Reads, HeldAt
  <2>2. /\ pc[t] = "rew_accounts" /\ Holds(locks["accounts"], t)
        /\ Await(t, "rew_history", "history", "write")
    BY <1>1 DEF RewardCredit, Reached
  <2>3. QED
    BY <2>1, <2>2, AsksKeepsLocks
<1>2. CASE PayoutMark(t)
  <2>1. Asks(Locks, Points, Wants, HeldAt, "pay_accounts", {"accounts"},
             "pay_total", "distributed", "write")
    BY DEF Asks, Points, Locks, Wants, Writes, Reads, HeldAt
  <2>2. /\ pc[t] = "pay_accounts" /\ Holds(locks["accounts"], t)
        /\ Await(t, "pay_total", "distributed", "write")
    BY <1>2 DEF PayoutMark, Reached
  <2>3. QED
    BY <2>1, <2>2, AsksKeepsLocks
<1>3. CASE StatsAccounts(t)
  <2>1. Asks(Locks, Points, Wants, HeldAt, "stats_accounts", {"accounts"},
             "stats_history", "history", "read")
    BY DEF Asks, Points, Locks, Wants, Writes, Reads, HeldAt
  <2>2. /\ pc[t] = "stats_accounts" /\ Holds(locks["accounts"], t)
        /\ Await(t, "stats_history", "history", "read")
    BY <1>3 DEF StatsAccounts, Reached
  <2>3. QED
    BY <2>1, <2>2, AsksKeepsLocks
<1>4. CASE StatsHistory(t)
  <2>1. Asks(Locks, Points, Wants, HeldAt, "stats_history", {"history"},
             "stats_total", "distributed", "read")
    BY DEF Asks, Points, Locks, Wants, Writes, Reads, HeldAt
  <2>2. /\ pc[t] = "stats_history" /\ Holds(locks["history"], t)
        /\ Await(t, "stats_total", "distributed", "read")
    BY <1>4 DEF StatsHistory, Reached
  <2>3. QED
    BY <2>1, <2>2, AsksKeepsLocks
<1>5. CASE \/ RewardRecord(t) \/ PayoutRefused(t) \/ PayoutTotal(t)
           \/ StatsReport(t)
  BY <1>5, ReturnKeepsLocks, IdleHoldsNothing
     DEF RewardRecord, PayoutRefused, PayoutTotal, StatsReport
<1>6. QED
  BY <1>1, <1>2, <1>3, <1>4, <1>5 DEF Continue

\* Each task holds exactly the guards its place in the code implies: the
\* accounts from the first change of a reward or a payout to the last.
THEOREM LedgerLocksHeld == Spec => []LedgerLocks
<1>1. Init => LedgerLocks
  BY NoCallsKeepLocks, IdleHoldsNothing DEF Init, LedgerLocks
<1>2. LedgerLocks /\ [Next]_vars => LedgerLocks'
  <2>1. CASE UNCHANGED vars
    BY <2>1, UntouchedLocks DEF vars, taskVars, LedgerLocks
  <2>2. CASE \E t \in Tasks : Begin(t) \/ Continue(t)
    BY <2>2, BeginKeepsLocks, ContinueKeepsLocks
  <2>3. QED
    BY <2>1, <2>2 DEF Next
<1>3. QED
  BY <1>1, <1>2, PTL DEF Spec

-----------------------------------------------------------------------------
(* Amounts.                                                                *)

LEMMA PlusBounded ==
  ASSUME NEW a \in Nat, NEW b \in Nat
  PROVE  /\ Plus(a, b) \in Money
         /\ Plus(a, b) < MaxAmount => Plus(a, b) = a + b
         /\ Plus(a, b) = MaxAmount \/ Plus(a, b) = a + b
BY RewardAssumption DEF Plus, Money

\* A reward keeps an account balanced, saturated or not.
LEMMA RewardedBalanced ==
  ASSUME NEW a \in Account, Balanced(a), NEW amount \in Money
  PROVE  Rewarded(a, amount) \in Account /\ Balanced(Rewarded(a, amount))
<1>1. /\ a.total_rewards \in Money /\ a.pending_rewards \in Money
      /\ a.paid_rewards \in Money /\ a.blocks_found \in Nat
  BY DEF Account
<1>2. MaxAmount \in Nat
  BY RewardAssumption
<1>3. /\ Plus(a.total_rewards, amount) \in Money
      /\ Plus(a.pending_rewards, amount) \in Money
  <2>1. a.total_rewards \in Nat /\ a.pending_rewards \in Nat /\ amount \in Nat
    BY <1>1, <1>2 DEF Money
  <2>2. QED
    BY <2>1, PlusBounded
<1>4. /\ Rewarded(a, amount).total_rewards = Plus(a.total_rewards, amount)
      /\ Rewarded(a, amount).pending_rewards = Plus(a.pending_rewards, amount)
      /\ Rewarded(a, amount).paid_rewards = a.paid_rewards
  BY DEF Rewarded, Account
<1>5. Rewarded(a, amount) \in Account
  <2>1. a.blocks_found + 1 \in Nat
    BY <1>1
  <2>2. QED
    BY <1>3, <2>1 DEF Rewarded, Account
<1>6. Balanced(Rewarded(a, amount))
  BY <1>1, <1>2, <1>4 DEF Balanced, Plus, Money
<1>7. QED
  BY <1>5, <1>6

Paid(a, amount) ==
  [a EXCEPT !.pending_rewards = @ - amount, !.paid_rewards = Plus(@, amount)]

\* A payout within the balance and the pending rewards does too, and it never
\* saturates.
LEMMA PaidBalanced ==
  ASSUME NEW a \in Account, Balanced(a), NEW amount \in Nat,
         Balance(a) >= amount, a.pending_rewards >= amount
  PROVE  Paid(a, amount) \in Account /\ Balanced(Paid(a, amount))
<1>1. /\ a.total_rewards \in Money /\ a.pending_rewards \in Money
      /\ a.paid_rewards \in Money /\ a.blocks_found \in Nat
  BY DEF Account
<1>2. MaxAmount \in Nat
  BY RewardAssumption
<1>3. a.paid_rewards + amount <= a.total_rewards
  BY <1>1, <1>2 DEF Balance, Balanced, Money
<1>4. Plus(a.paid_rewards, amount) = a.paid_rewards + amount
  BY <1>1, <1>2, <1>3 DEF Plus, Money
<1>5. /\ Paid(a, amount).total_rewards = a.total_rewards
      /\ Paid(a, amount).pending_rewards = a.pending_rewards - amount
      /\ Paid(a, amount).paid_rewards = a.paid_rewards + amount
  BY <1>4 DEF Paid, Account
<1>6. Balanced(Paid(a, amount))
  BY <1>1, <1>2, <1>3, <1>5 DEF Balanced, Money
<1>7. a.pending_rewards - amount \in Money /\ a.paid_rewards + amount \in Money
  BY <1>1, <1>2, <1>3 DEF Money
<1>8. Paid(a, amount) \in Account
  BY <1>1, <1>4, <1>7 DEF Paid, Account
<1>9. QED
  BY <1>6, <1>8

-----------------------------------------------------------------------------
(* Type correctness and the balance of the accounts.                       *)

AccountsTyped ==
  /\ DOMAIN accounts \subseteq Miners
  /\ accounts \in [DOMAIN accounts -> Account]

DataTypes == AccountsTyped /\ history \in Seq(Reward) /\ distributed \in Money

\* One task moves at a time.
LEMMA OthersStay ==
  ASSUME DOMAIN arg = Tasks, pc \in [Tasks -> Points], NEW t \in Tasks,
         Begin(t) \/ Continue(t)
  PROVE  /\ DOMAIN arg' = Tasks
         /\ \A u \in Tasks \ {t} : pc'[u] = pc[u] /\ arg'[u] = arg[u]
<1>1. CASE Begin(t)
  BY <1>1 DEF Begin, RecordBlockReward, ProcessPayout, GetStats, Call, Enter
<1>2. CASE Continue(t)
  BY <1>2 DEF Continue, RewardCredit, RewardRecord, PayoutRefused, PayoutMark,
     PayoutTotal, StatsAccounts, StatsHistory, StatsReport, Await, Return
<1>3. QED
  BY <1>1, <1>2

\* Crediting a reward keeps the accounts typed and balanced.
LEMMA CreditBalances ==
  ASSUME AccountsTyped, AccountsBalanced, NEW reward \in Reward, Credit(reward)
  PROVE  (AccountsTyped /\ AccountsBalanced)'
<1>1. reward.miner \in Miners /\ reward.total_reward \in Money
  BY DEF Reward
<1>2. AccountOf(reward.miner) \in Account /\ Balanced(AccountOf(reward.miner))
  <2>1. CASE reward.miner \in DOMAIN accounts
    BY <2>1 DEF AccountOf, AccountsTyped, AccountsBalanced
  <2>2. CASE reward.miner \notin DOMAIN accounts
    <3>1. NewAccount \in Account
      BY RewardAssumption DEF NewAccount, Account, Money
    <3>2. Balanced(NewAccount)
      BY RewardAssumption DEF Balanced, NewAccount
    <3>3. QED
      BY <2>2, <3>1, <3>2 DEF AccountOf
  <2>3. QED
    BY <2>1, <2>2
<1>3. DOMAIN accounts' = DOMAIN accounts \cup {reward.miner}
  BY DEF Credit
<1>4. ASSUME NEW m \in DOMAIN accounts'
      PROVE  accounts'[m] \in Account /\ Balanced(accounts'[m])
  <2>1. CASE m = reward.miner
    <3>1. accounts'[m] = Rewarded(AccountOf(m), reward.total_reward)
      BY <1>3, <2>1 DEF Credit
    <3>2. QED
      BY <1>1, <1>2, <2>1, <3>1, RewardedBalanced
  <2>2. CASE m # reward.miner
    BY <1>3, <1>4, <2>2 DEF Credit, AccountsTyped, AccountsBalanced
  <2>3. QED
    BY <2>1, <2>2
<1>5. accounts' = [m \in DOMAIN accounts' |-> accounts'[m]]
  BY DEF Credit
<1>6. QED
  BY <1>1, <1>3, <1>4, <1>5 DEF AccountsTyped, AccountsBalanced

\* Taking a payout from an account that can afford it does too.
LEMMA MarkPaidBalances ==
  ASSUME AccountsTyped, AccountsBalanced, NEW payout \in Payout,
         Payable(payout), MarkPaid(payout)
  PROVE  (AccountsTyped /\ AccountsBalanced)'
<1>1. payout.amount \in Nat /\ payout.miner \in DOMAIN accounts
  BY DEF Payout, Payable
<1>2. /\ DOMAIN accounts' = DOMAIN accounts
      /\ accounts'[payout.miner] = Paid(accounts[payout.miner], payout.amount)
      /\ \A m \in DOMAIN accounts \ {payout.miner} : accounts'[m] = accounts[m]
      /\ accounts' = [m \in DOMAIN accounts' |-> accounts'[m]]
  BY <1>1 DEF MarkPaid, Paid, AccountsTyped
<1>3. /\ Paid(accounts[payout.miner], payout.amount) \in Account
      /\ Balanced(Paid(accounts[payout.miner], payout.amount))
  BY <1>1, PaidBalanced DEF Payable, AccountsTyped, AccountsBalanced
<1>4. QED
  BY <1>2, <1>3 DEF AccountsTyped, AccountsBalanced

\* A step keeps the data typed and the accounts balanced, and the task that
\* moves carries what fits the place it has reached.
LEMMA StepTypes ==
  ASSUME TypeOK, AccountsBalanced, NEW t \in Tasks, Begin(t) \/ Continue(t)
  PROVE  DataTypes' /\ AccountsBalanced' /\ arg'[t] \in ArgOf(pc'[t])
<1>a. /\ pc \in [Tasks -> Points] /\ DOMAIN arg = Tasks
      /\ DataTypes /\ arg[t] \in ArgOf(pc[t])
  BY DEF TypeOK, LockInv, DataTypes, AccountsTyped
<1>1. ASSUME UNCHANGED data
      PROVE  DataTypes' /\ AccountsBalanced'
  BY <1>a, <1>1 DEF data, DataTypes, AccountsTyped, AccountsBalanced
<1>2. ASSUME Return(t)
      PROVE  arg'[t] \in ArgOf(pc'[t])
  BY <1>a, <1>2 DEF Return, ArgOf
<1>3. CASE \E m \in Miners, h \in Heights, fees \in Fees :
             RecordBlockReward(t, m, h, fees)
  <2>1. PICK m \in Miners, h \in Heights, fees \in Fees :
          RecordBlockReward(t, m, h, fees)
    BY <1>3
  <2>2. /\ pc'[t] = "rew_accounts" /\ UNCHANGED data
        /\ arg'[t] = [miner |-> m,
                      total_reward |-> Plus(BlockReward(h), fees)]
    BY <1>a, <2>1 DEF RecordBlockReward, Call, Enter
  <2>3. Plus(BlockReward(h), fees) \in Money
    BY RewardAssumption, PlusBounded
  <2>4. arg'[t] \in Reward
    BY <2>2, <2>3 DEF Reward
  <2>5. QED
    BY <1>1, <2>2, <2>4 DEF ArgOf
<1>4. CASE \E m \in Miners, amount \in Amounts : ProcessPayout(t, m, amount)
  <2>1. PICK m \in Miners, amount \in Amounts : ProcessPayout(t, m, amount)
    BY <1>4
  <2>2. /\ pc'[t] = "pay_accounts" /\ UNCHANGED data
        /\ arg'[t] = [miner |-> m, amount |-> amount]
    BY <1>a, <2>1 DEF ProcessPayout, Call, Enter
  <2>3. arg'[t] \in Payout
    BY <2>2, RewardAssumption DEF Payout
  <2>4. QED
    BY <1>1, <2>2, <2>3 DEF ArgOf
<1>5. CASE GetStats(t)
  <2>1. pc'[t] = "stats_accounts" /\ UNCHANGED data /\ arg'[t] = None
    BY <1>a, <1>5 DEF GetStats, Call, Enter
  <2>2. QED
    BY <1>1, <2>1 DEF ArgOf
<1>6. CASE RewardCredit(t)
  <2>1. /\ pc[t] = "rew_accounts" /\ pc'[t] = "rew_history"
        /\ arg' = arg /\ Credit(arg[t]) /\ UNCHANGED <<history, distributed>>
    BY <1>a, <1>6 DEF RewardCredit, Reached, Await
  <2>2. arg[t] \in Reward
    BY <1>a, <2>1 DEF ArgOf
  <2>3. (AccountsTyped /\ AccountsBalanced)'
    BY <1>a, <2>1, <2>2, CreditBalances DEF DataTypes
  <2>4. QED
    BY <1>a, <2>1, <2>2, <2>3 DEF DataTypes, ArgOf
<1>7. CASE RewardRecord(t)
  <2>1. /\ pc[t] = "rew_history" /\ history' = Append(history, arg[t])
        /\ Return(t) /\ UNCHANGED <<accounts, distributed>>
    BY <1>7 DEF RewardRecord, Reached
  <2>2. arg[t] \in Reward
    BY <1>a, <2>1 DEF ArgOf
  <2>3. history' \in Seq(Reward)
    BY <1>a, <2>1, <2>2 DEF DataTypes
  <2>4. QED
    BY <1>a, <1>2, <2>1, <2>3 DEF DataTypes, AccountsTyped, AccountsBalanced
<1>8. CASE PayoutMark(t)
  <2>1. /\ pc[t] = "pay_accounts" /\ pc'[t] = "pay_total"
        /\ arg' = arg /\ Payable(arg[t]) /\ MarkPaid(arg[t])
        /\ UNCHANGED <<history, distributed>>
    BY <1>a, <1>8 DEF PayoutMark, Reached, Await
  <2>2. arg[t] \in Payout
    BY <1>a, <2>1 DEF ArgOf
  <2>3. (AccountsTyped /\ AccountsBalanced)'
    BY <1>a, <2>1, <2>2, MarkPaidBalances DEF DataTypes
  <2>4. QED
    BY <1>a, <2>1, <2>2, <2>3 DEF DataTypes, ArgOf
<1>9. CASE PayoutTotal(t)
  <2>1. /\ pc[t] = "pay_total" /\ Return(t)
        /\ distributed' = Plus(distributed, arg[t].amount)
        /\ UNCHANGED <<accounts, history>>
    BY <1>9 DEF PayoutTotal, Reached
  <2>2. arg[t] \in Payout
    BY <1>a, <2>1 DEF ArgOf
  <2>3. arg[t].amount \in Nat /\ distributed \in Nat
    BY <1>a, <2>2, RewardAssumption DEF Payout, DataTypes, Money
  <2>4. distributed' \in Money
    BY <2>1, <2>3, PlusBounded
  <2>5. QED
    BY <1>a, <1>2, <2>1, <2>4 DEF DataTypes, AccountsTyped, AccountsBalanced
<1>10. CASE StatsAccounts(t) \/ StatsHistory(t)
  <2>1. /\ pc[t] \in {"stats_accounts", "stats_history"}
        /\ pc'[t] \in {"stats_history", "stats_total"}
        /\ arg' = arg /\ UNCHANGED data
    BY <1>a, <1>10 DEF StatsAccounts, StatsHistory, Reached, Await
  <2>2. QED
    BY <1>a, <1>1, <2>1 DEF ArgOf
<1>11. CASE PayoutRefused(t) \/ StatsReport(t)
  BY <1>1, <1>2, <1>11 DEF PayoutRefused, StatsReport
<1>12. QED
  BY <1>3, <1>4, <1>5, <1>6, <1>7, <1>8, <1>9, <1>10, <1>11 DEF Begin, Continue

LEMMA TypedAndBalanced == Spec => [](TypeOK /\ AccountsBalanced)
<1>1. Init => TypeOK /\ AccountsBalanced
  <2>1. SUFFICES ASSUME Init PROVE TypeOK /\ AccountsBalanced
    OBVIOUS
  <2>2. accounts = << >> /\ history = << >> /\ distributed = 0
    BY <2>1 DEF Init
  <2>3. DataTypes /\ AccountsBalanced
    BY <2>2, RewardAssumption, EmptySeq DEF DataTypes, AccountsTyped, Money,
       AccountsBalanced
  <2>4. /\ DOMAIN arg = Tasks
        /\ \A t \in Tasks : arg[t] \in ArgOf(pc[t])
    BY <2>1 DEF Init, NoCalls, ArgOf
  <2>5. QED
    BY <2>1, <2>3, <2>4, NoCallsKeepLocks, IdleHoldsNothing
       DEF Init, TypeOK, DataTypes, AccountsTyped
<1>2. /\ LedgerLocks' /\ TypeOK /\ AccountsBalanced /\ [Next]_vars
      => (TypeOK /\ AccountsBalanced)'
  <2>1. SUFFICES ASSUME LedgerLocks', TypeOK, AccountsBalanced, [Next]_vars
                 PROVE  /\ DataTypes' /\ AccountsBalanced' /\ DOMAIN arg' = Tasks
                        /\ \A t \in Tasks : arg'[t] \in ArgOf(pc'[t])
    BY DEF TypeOK, LedgerLocks, DataTypes, AccountsTyped
  <2>2. CASE UNCHANGED vars
    BY <2>1, <2>2 DEF vars, data, taskVars, TypeOK, DataTypes, AccountsTyped,
       AccountsBalanced
  <2>3. ASSUME NEW t \in Tasks, Begin(t) \/ Continue(t)
        PROVE  /\ DataTypes' /\ AccountsBalanced' /\ DOMAIN arg' = Tasks
               /\ \A u \in Tasks : arg'[u] \in ArgOf(pc'[u])
    <3>1. /\ DOMAIN arg = Tasks /\ pc \in [Tasks -> Points]
          /\ \A u \in Tasks : arg[u] \in ArgOf(pc[u])
      BY <2>1 DEF TypeOK, LockInv
    <3>2. /\ DOMAIN arg' = Tasks
          /\ \A u \in Tasks \ {t} : pc'[u] = pc[u] /\ arg'[u] = arg[u]
      BY <2>3, <3>1, OthersStay
    <3>3. DataTypes' /\ AccountsBalanced' /\ arg'[t] \in ArgOf(pc'[t])
      BY <2>1, <2>3, StepTypes
    <3>4. QED
      BY <3>1, <3>2, <3>3 DEF ArgOf
  <2>4. QED
    BY <2>1, <2>2, <2>3 DEF Next
<1>3. QED
  BY <1>1, <1>2, LedgerLocksHeld, PTL DEF Spec

\* Every reachable state is well typed: no account, pending amount or total
\* ever turns negative or exceeds the largest amount.
THEOREM LedgerTypeCorrect == Spec => []TypeOK
BY TypedAndBalanced, PTL

\* No account is ever paid more than it was rewarded with, and what
\* process_payout lets pass mark_paid accepts, saturated or not.
THEOREM AccountsBalancedHolds == Spec => []AccountsBalanced
BY TypedAndBalanced, PTL

-----------------------------------------------------------------------------
(* Waiting for locks.                                                      *)

\* The accounts come first, then the history, then the total.
Room ==
  [l \in Locks |-> IF l = "accounts" THEN 2 ELSE IF l = "history" THEN 1 ELSE 0]

\* Every operation asks for its locks in that order.
LEMMA LocksInOrder ==
  \A point \in Points : InOrder(Locks, Wants, HeldAt, Room, point)
BY DEF InOrder, Points, Locks, Wants, Writes, Reads, HeldAt, Room

\* Recording, paying out and reporting never wait for each other in a circle.
THEOREM LedgerNeverLocksUp == Spec => []NoDeadlock
<1>1. LedgerLocks => NoDeadlock
  <2>1. SUFFICES ASSUME LedgerLocks, NEW D \in SUBSET Tasks, Stuck(D)
                 PROVE  FALSE
    BY DEF NoDeadlock, Deadlock
  <2>2. Room \in [Locks -> Nat]
    BY DEF Room
  <2>3. \A t \in D : pc[t] \in Points
    BY <2>1 DEF LedgerLocks, LockInv
  <2>4. QED
    BY <2>1, <2>2, <2>3, LocksInOrder, CircleLeavesOrder DEF LedgerLocks
<1>2. QED
  BY <1>1, LedgerLocksHeld, PTL

-----------------------------------------------------------------------------
(* What the accounts, the history and the total say of each other.         *)

\* What is recorded is an amount.
LEMMA RecordedTyped ==
  ASSUME NEW records \in Seq(Reward)
  PROVE  \A i \in 1..Len(records) : records[i].total_reward \in Nat
<1>1. \A i \in 1..Len(records) : records[i] \in Reward
  OBVIOUS
<1>2. \A r \in Reward : r.total_reward \in Nat
  BY RewardAssumption DEF Reward, Money
<1>3. QED
  BY <1>1, <1>2

\* Adding an element to a set of indices of a history with one record more
\* adds its reward; the others stay as they were.
LEMMA RecordedAppend ==
  ASSUME NEW records \in Seq(Reward), NEW r \in Reward,
         NEW some \in SUBSET (1..Len(records))
  PROVE  LET more == Append(records, r)  next == Len(records) + 1
         IN  /\ Recorded(records, some) \in Nat
             /\ Recorded(more, some) = Recorded(records, some)
             /\ Recorded(more, some \cup {next}) =
                  Recorded(records, some) + r.total_reward
<1> DEFINE more == Append(records, r)
           next == Len(records) + 1
           old == [i \in 1..Len(records) |-> records[i].total_reward]
           new == [i \in 1..Len(more) |-> more[i].total_reward]
<1>1. /\ Len(more) = next /\ Len(records) \in Nat
      /\ \A i \in 1..Len(records) : more[i] = records[i]
      /\ more[next] = r
  OBVIOUS
<1>2. IsFiniteSet(some) /\ next \notin some
  <2>1. IsFiniteSet(1..Len(records))
    BY <1>1, FS_Interval
  <2>2. next \notin 1..Len(records)
    BY <1>1
  <2> HIDE DEF next
  <2>3. QED
    BY <2>1, <2>2, FS_Subset
<1>3. /\ \A i \in some : old[i] = new[i] /\ old[i] \in Nat
      /\ new[next] = r.total_reward /\ r.total_reward \in Nat
  <2>1. \A i \in 1..Len(records) : records[i].total_reward \in Nat
    BY RecordedTyped
  <2>2. some \subseteq 1..Len(more) /\ next \in 1..Len(more)
    BY <1>1
  <2>3. r.total_reward \in Nat
    BY RewardAssumption DEF Reward, Money
  <2>4. QED
    BY <1>1, <2>1, <2>2, <2>3
<1>4. /\ Recorded(records, some) = SumFunctionOnSet(old, some)
      /\ \A s : Recorded(more, s) = SumFunctionOnSet(new, s)
  BY DEF Recorded
<1> HIDE DEF old, new, next, more
<1>5. SumFunctionOnSet(old, some) \in Nat
  BY <1>2, <1>3, SumIsNat
<1>6. SumFunctionOnSet(old, some) = SumFunctionOnSet(new, some)
  BY <1>2, <1>3, SumCongruent
<1>7. SumFunctionOnSet(new, some \cup {next})
        = SumFunctionOnSet(old, some) + r.total_reward
  <2>1. \A i \in some \cup {next} : new[i] \in Nat
    BY <1>3
  <2>2. \A i \in some : old[i] = new[i]
    BY <1>3
  <2>3. SumFunctionOnSet(new, some \cup {next})
          = SumFunctionOnSet(old, some) + new[next]
    BY <1>2, <2>1, <2>2, SumAdd, Zenon
  <2>4. QED
    BY <1>3, <2>3
<1>8. QED
  BY <1>4, <1>5, <1>6, <1>7 DEF next, more

\* Accounts of finitely many miners.
Book(book) ==
  /\ IsFiniteSet(DOMAIN book)
  /\ book \in [DOMAIN book -> Account]

Earned(book) ==
  SumFunctionOnSet([m \in DOMAIN book |-> book[m].total_rewards], DOMAIN book)

\* The accounts agree with a history and a total; and, which the sums over
\* each miner's own records do not say, all of them together hold no more
\* than all that was recorded.
Sound(book, records, total) ==
  /\ AgreedOn(book, records, total)
  /\ Earned(book) <= Recorded(records, 1..Len(records))

\* The accounts after a reward.
Credited(book, r) ==
  [m \in DOMAIN book \cup {r.miner} |->
     IF m = r.miner
     THEN Rewarded(IF m \in DOMAIN book THEN book[m] ELSE NewAccount,
                   r.total_reward)
     ELSE book[m]]

\* What a reward does to an account.
LEMMA RewardedValues ==
  ASSUME NEW a \in Account, NEW amount \in Money
  PROVE  /\ Rewarded(a, amount).total_rewards = Plus(a.total_rewards, amount)
         /\ Rewarded(a, amount).paid_rewards = a.paid_rewards
         /\ Rewarded(a, amount).blocks_found = a.blocks_found + 1
BY DEF Rewarded, Account

\* An account that holds nothing.
LEMMA NewAccountTyped == NewAccount \in Account
BY RewardAssumption DEF NewAccount, Account, Money

\* A reward pays nothing out and adds at most itself to what was earned.
LEMMA CreditedSums ==
  ASSUME NEW book, Book(book), NEW r \in Reward
  PROVE  /\ PaidOut(book) \in Nat /\ Earned(book) \in Nat
         /\ PaidOut(Credited(book, r)) = PaidOut(book)
         /\ Earned(Credited(book, r)) <= Earned(book) + r.total_reward
<1> DEFINE D == DOMAIN book
           paid == [m \in D |-> book[m].paid_rewards]
           total == [m \in D |-> book[m].total_rewards]
           after == Credited(book, r)
           E == D \cup {r.miner}
           paid2 == [m \in E |-> after[m].paid_rewards]
           total2 == [m \in E |-> after[m].total_rewards]
<1>1. /\ IsFiniteSet(D) /\ DOMAIN after = E
      /\ \A m \in D : paid[m] \in Nat /\ total[m] \in Nat
      /\ r.total_reward \in Money /\ Money \subseteq Nat
      /\ r.total_reward \in Nat
  BY RewardAssumption DEF Book, Account, Money, Reward, Credited
<1>2. /\ PaidOut(book) = SumFunctionOnSet(paid, D)
      /\ Earned(book) = SumFunctionOnSet(total, D)
      /\ PaidOut(after) = SumFunctionOnSet(paid2, E)
      /\ Earned(after) = SumFunctionOnSet(total2, E)
  BY <1>1 DEF PaidOut, Earned
<1>3. \A m \in D \ {r.miner} : paid2[m] = paid[m] /\ total2[m] = total[m]
  BY DEF Credited
<1>4. CASE r.miner \in D
  <2>1. /\ paid2[r.miner] = paid[r.miner]
        /\ total2[r.miner] = Plus(total[r.miner], r.total_reward)
    <3>1. book[r.miner] \in Account
      BY <1>4 DEF Book
    <3>2. after[r.miner] = Rewarded(book[r.miner], r.total_reward)
      BY <1>4 DEF Credited
    <3>3. QED
      BY <1>1, <1>4, <3>1, <3>2, RewardedValues
  <2>2. E = D
    BY <1>4
  <2>3. /\ total2[r.miner] \in Nat
        /\ total2[r.miner] <= total[r.miner] + r.total_reward
    BY <1>1, <1>4, <2>1, RewardAssumption DEF Plus
  <2> HIDE DEF D, E, paid, total, paid2, total2, after
  <2>4. SumFunctionOnSet(paid, D) = SumFunctionOnSet(paid2, D)
    <3>1. \A m \in D : paid[m] = paid2[m]
      BY <1>3, <2>1
    <3>2. QED
      BY <1>1, <3>1, SumCongruent
  <2>5. SumFunctionOnSet(total2, D) + total[r.miner]
          = SumFunctionOnSet(total, D) + total2[r.miner]
    BY <1>1, <1>3, <1>4, <2>3, SumChange
  <2>6. /\ SumFunctionOnSet(paid, D) \in Nat /\ SumFunctionOnSet(total, D) \in Nat
        /\ SumFunctionOnSet(total2, D) \in Nat
    <3>1. \A m \in D : total2[m] \in Nat
      BY <1>1, <1>3, <2>3
    <3>2. QED
      BY <1>1, <3>1, SumIsNat
  <2>7. SumFunctionOnSet(total2, D) <= SumFunctionOnSet(total, D) + r.total_reward
    BY <1>1, <1>4, <2>3, <2>5, <2>6
  <2>8. QED
    BY <1>2, <2>2, <2>4, <2>6, <2>7 DEF after
<1>5. CASE r.miner \notin D
  <2>1. paid2[r.miner] = 0 /\ total2[r.miner] = Plus(0, r.total_reward)
    <3>1. after[r.miner] = Rewarded(NewAccount, r.total_reward)
      BY <1>5 DEF Credited
    <3>2. QED
      BY <1>1, <3>1, NewAccountTyped, RewardedValues DEF NewAccount
  <2>2. /\ total2[r.miner] \in Nat /\ total2[r.miner] <= r.total_reward
    BY <1>1, <2>1, RewardAssumption DEF Plus
  <2> HIDE DEF D, paid, total, paid2, total2, after
  <2>3. /\ \A m \in D \cup {r.miner} : paid2[m] \in Nat /\ total2[m] \in Nat
        /\ \A m \in D : paid[m] = paid2[m] /\ total[m] = total2[m]
    BY <1>1, <1>3, <1>5, <2>1, <2>2
  <2>4. /\ SumFunctionOnSet(paid2, D \cup {r.miner})
             = SumFunctionOnSet(paid, D) + paid2[r.miner]
        /\ SumFunctionOnSet(total2, D \cup {r.miner})
             = SumFunctionOnSet(total, D) + total2[r.miner]
    <3> DEFINE k == r.miner
    <3>1. IsFiniteSet(D) /\ k \notin D
      BY <1>1, <1>5
    <3>2. /\ \A m \in D \cup {k} : paid2[m] \in Nat
          /\ \A m \in D : paid[m] = paid2[m]
      BY <2>3
    <3>3. /\ \A m \in D \cup {k} : total2[m] \in Nat
          /\ \A m \in D : total[m] = total2[m]
      BY <2>3
    <3> HIDE DEF k
    <3>4. SumFunctionOnSet(paid2, D \cup {k})
            = SumFunctionOnSet(paid, D) + paid2[k]
      BY <3>1, <3>2, SumAdd, Zenon
    <3>5. SumFunctionOnSet(total2, D \cup {k})
            = SumFunctionOnSet(total, D) + total2[k]
      BY <3>1, <3>3, SumAdd, Zenon
    <3>6. QED
      BY <3>4, <3>5 DEF k
  <2>5. SumFunctionOnSet(paid, D) \in Nat /\ SumFunctionOnSet(total, D) \in Nat
    BY <1>1, SumIsNat
  <2>6. QED
    BY <1>1, <1>2, <2>1, <2>2, <2>4, <2>5 DEF after
<1>6. QED
  BY <1>4, <1>5

\* The rewards of a miner when one more is recorded.
LEMMA RewardsOfAppend ==
  ASSUME NEW records \in Seq(Reward), NEW r \in Reward, NEW m
  PROVE  /\ RewardsOf(m, records) \in SUBSET (1..Len(records))
         /\ IsFiniteSet(RewardsOf(m, records))
         /\ RewardsOf(m, Append(records, r)) =
              IF m = r.miner THEN RewardsOf(m, records) \cup {Len(records) + 1}
              ELSE RewardsOf(m, records)
<1>1. RewardsOf(m, records) \in SUBSET (1..Len(records))
  BY DEF RewardsOf
<1>2. IsFiniteSet(RewardsOf(m, records))
  BY <1>1, FS_Interval, FS_Subset
<1>3. /\ Len(Append(records, r)) = Len(records) + 1 /\ Len(records) \in Nat
      /\ \A i \in 1..Len(records) : Append(records, r)[i] = records[i]
      /\ Append(records, r)[Len(records) + 1] = r
  OBVIOUS
<1>4. QED
  BY <1>1, <1>2, <1>3 DEF RewardsOf

\* A saturated sum plus an amount saturates where the sum would.
LEMMA CappedPlus ==
  ASSUME NEW a \in Nat, NEW b \in Nat
  PROVE  /\ Capped(a) \in Nat /\ Capped(a) <= a
         /\ Plus(Capped(a), b) = Capped(a + b)
BY RewardAssumption DEF Capped, Plus

\* A reward credited and recorded keeps the accounts and the history sound.
LEMMA CreditedSound ==
  ASSUME NEW book, Book(book), NEW records \in Seq(Reward), NEW total,
         Sound(book, records, total), NEW r \in Reward
  PROVE  Sound(Credited(book, r), Append(records, r), total)
<1> DEFINE after == Credited(book, r)
           more == Append(records, r)
           next == Len(records) + 1
<1>1. /\ r.miner \in Miners /\ r.total_reward \in Money /\ r.total_reward \in Nat
      /\ DOMAIN after = DOMAIN book \cup {r.miner}
  BY RewardAssumption DEF Reward, Money, Credited
<1>2. /\ Len(more) = next /\ Len(records) \in Nat /\ more[next] = r
      /\ \A i \in 1..Len(records) : more[i] = records[i]
  OBVIOUS
<1>3. DOMAIN after = {more[i].miner : i \in 1..Len(more)}
  BY <1>1, <1>2 DEF Sound, AgreedOn
<1>4. ASSUME NEW m \in DOMAIN after
      PROVE  /\ after[m].blocks_found = Cardinality(RewardsOf(m, more))
             /\ after[m].total_rewards = Capped(Recorded(more, RewardsOf(m, more)))
  <2> DEFINE mine == RewardsOf(m, records)
  <2>1. /\ mine \in SUBSET (1..Len(records)) /\ IsFiniteSet(mine)
        /\ RewardsOf(m, more) = IF m = r.miner THEN mine \cup {next} ELSE mine
    BY RewardsOfAppend
  <2>2. /\ Recorded(records, mine) \in Nat
        /\ Recorded(more, mine) = Recorded(records, mine)
        /\ Recorded(more, mine \cup {next})
             = Recorded(records, mine) + r.total_reward
    <3> HIDE DEF mine
    <3>1. QED
      BY <2>1, RecordedAppend
  <2>3. CASE m # r.miner
    <3>1. m \in DOMAIN book /\ after[m] = book[m]
      BY <1>1, <1>4, <2>3 DEF Credited
    <3>2. QED
      BY <2>1, <2>2, <2>3, <3>1 DEF Sound, AgreedOn
  <2>4. CASE m = r.miner
    <3> DEFINE a == IF m \in DOMAIN book THEN book[m] ELSE NewAccount
    <3>1. /\ a \in Account
          /\ a.blocks_found = Cardinality(mine)
          /\ a.total_rewards = Capped(Recorded(records, mine))
      <4>1. CASE m \in DOMAIN book
        BY <4>1 DEF Book, Sound, AgreedOn
      <4>2. CASE m \notin DOMAIN book
        <5>1. mine = {}
          BY <4>2 DEF Sound, AgreedOn, RewardsOf
        <5>2. Recorded(records, {}) = 0
          BY SumUnfolds, FS_EmptySet DEF Recorded
        <5>3. Cardinality({}) = 0
          BY FS_EmptySet
        <5>4. Capped(0) = 0
          BY RewardAssumption DEF Capped
        <5>5. QED
          BY <4>2, <5>1, <5>2, <5>3, <5>4, NewAccountTyped DEF NewAccount
      <4>3. QED
        BY <4>1, <4>2
    <3>2. after[m] = Rewarded(a, r.total_reward)
      BY <1>1, <2>4 DEF Credited
    <3>3. /\ after[m].blocks_found = a.blocks_found + 1
          /\ after[m].total_rewards = Plus(a.total_rewards, r.total_reward)
      <4> HIDE DEF a
      <4>1. QED
        BY <1>1, <3>1, <3>2, RewardedValues
    <3>4. Cardinality(mine \cup {next}) = Cardinality(mine) + 1
      <4>1. next \notin mine
        BY <1>2, <2>1
      <4> HIDE DEF mine, next
      <4>2. QED
        BY <2>1, <4>1, FS_AddElement
    <3>5. Plus(Capped(Recorded(records, mine)), r.total_reward)
            = Capped(Recorded(records, mine) + r.total_reward)
      BY <1>1, <2>2, CappedPlus
    <3>6. QED
      BY <2>1, <2>2, <2>4, <3>1, <3>3, <3>4, <3>5
  <2>5. QED
    BY <2>3, <2>4
<1>5. total = Capped(PaidOut(after))
  BY CreditedSums DEF Sound, AgreedOn
<1>6. Earned(after) <= Recorded(more, 1..Len(more))
  <2> DEFINE all == 1..Len(records)
  <2>1. /\ Recorded(records, all) \in Nat
        /\ Recorded(more, all \cup {next})
             = Recorded(records, all) + r.total_reward
    <3>1. all \in SUBSET (1..Len(records))
      OBVIOUS
    <3> HIDE DEF all
    <3>2. QED
      BY <3>1, RecordedAppend
  <2>2. Recorded(more, 1..Len(more)) = Recorded(more, all \cup {next})
    <3>1. 1..Len(more) = all \cup {next}
      BY <1>2
    <3> HIDE DEF more, all, next
    <3>2. QED
      BY <3>1
  <2>3. /\ Earned(after) <= Earned(book) + r.total_reward
        /\ Earned(book) <= Recorded(records, all)
    BY CreditedSums DEF Sound
  <2>4. Earned(book) \in Nat /\ Earned(after) \in Nat
    <3>1. \A b : Book(b) => Earned(b) \in Nat
      BY SumIsNat DEF Book, Earned, Account, Money
    <3>2. Book(after)
      <4>1. IsFiniteSet(DOMAIN after)
        BY <1>1, FS_AddElement DEF Book
      <4>2. \A m \in DOMAIN after : after[m] \in Account
        <5>1. \A a \in Account : Rewarded(a, r.total_reward) \in Account
          <6>1. SUFFICES ASSUME NEW a \in Account
                         PROVE  Rewarded(a, r.total_reward) \in Account
            OBVIOUS
          <6>2. /\ a.total_rewards \in Nat /\ a.pending_rewards \in Nat
                /\ a.blocks_found + 1 \in Nat
            BY RewardAssumption DEF Account, Money
          <6>3. /\ Plus(a.total_rewards, r.total_reward) \in Money
                /\ Plus(a.pending_rewards, r.total_reward) \in Money
            BY <1>1, <6>2, PlusBounded
          <6>4. QED
            BY <6>2, <6>3 DEF Rewarded, Account
        <5>2. QED
          BY <1>1, <5>1, NewAccountTyped DEF Credited, Book
      <4>3. after = [m \in DOMAIN after |-> after[m]]
        BY DEF Credited
      <4> HIDE DEF after
      <4>4. QED
        BY <4>1, <4>2, <4>3 DEF Book
    <3>3. QED
      BY <3>1, <3>2
  <2> HIDE DEF after, more, all, next
  <2>5. QED
    BY <1>1, <2>1, <2>2, <2>3, <2>4
<1>7. QED
  BY <1>3, <1>4, <1>5, <1>6 DEF Sound, AgreedOn

\* The accounts after a payout.
Charged(book, payout) ==
  [book EXCEPT ![payout.miner] = Paid(@, payout.amount)]

\* A payout an account can afford keeps the accounts sound once it has been
\* added to the total.
LEMMA ChargedSound ==
  ASSUME NEW book, Book(book), NEW records, NEW total,
         Sound(book, records, total), NEW payout \in Payout,
         payout.miner \in DOMAIN book, Balanced(book[payout.miner]),
         Balance(book[payout.miner]) >= payout.amount,
         book[payout.miner].pending_rewards >= payout.amount
  PROVE  Sound(Charged(book, payout), records, Plus(total, payout.amount))
<1> DEFINE D == DOMAIN book
           m == payout.miner
           after == Charged(book, payout)
           paid == [k \in D |-> book[k].paid_rewards]
           paid2 == [k \in D |-> after[k].paid_rewards]
<1>1. /\ payout.amount \in Nat /\ book[m] \in Account /\ IsFiniteSet(D)
      /\ \A k \in D : paid[k] \in Nat
  BY RewardAssumption DEF Payout, Book, Account, Money
<1>2. /\ DOMAIN after = D /\ after[m] = Paid(book[m], payout.amount)
      /\ \A k \in D \ {m} : after[k] = book[k]
  BY DEF Charged, Book
<1>3. /\ after[m].total_rewards = book[m].total_rewards
      /\ after[m].blocks_found = book[m].blocks_found
      /\ after[m].paid_rewards = Plus(book[m].paid_rewards, payout.amount)
  BY <1>1, <1>2 DEF Paid, Account
<1>4. paid2[m] = paid[m] + payout.amount
  <2>1. /\ book[m].total_rewards \in Money /\ book[m].paid_rewards \in Money
    BY <1>1 DEF Account
  <2>2. book[m].paid_rewards + payout.amount <= MaxAmount
    BY <1>1, <2>1, RewardAssumption DEF Balance, Balanced, Money
  <2>3. QED
    BY <1>1, <1>3, <2>1, <2>2, RewardAssumption DEF Plus, Money
<1>5. PaidOut(after) = PaidOut(book) + payout.amount /\ PaidOut(book) \in Nat
  <2>1. /\ PaidOut(book) = SumFunctionOnSet(paid, D)
        /\ PaidOut(after) = SumFunctionOnSet(paid2, D)
    BY <1>2 DEF PaidOut
  <2>2. /\ m \in D /\ paid2[m] \in Nat /\ paid[m] \in Nat
        /\ \A k \in D \ {m} : paid2[k] = paid[k]
    BY <1>1, <1>2, <1>4
  <2> HIDE DEF D, m, paid, paid2, after
  <2>3. SumFunctionOnSet(paid2, D) + paid[m] = SumFunctionOnSet(paid, D) + paid2[m]
    BY <1>1, <2>2, SumChange
  <2>4. SumFunctionOnSet(paid, D) \in Nat /\ SumFunctionOnSet(paid2, D) \in Nat
    <3>1. \A k \in D : paid2[k] \in Nat
      BY <1>1, <2>2
    <3>2. QED
      BY <1>1, <3>1, SumIsNat
  <2>5. QED
    BY <1>1, <1>4, <2>1, <2>2, <2>3, <2>4 DEF after
<1>6. \A k \in D : /\ after[k].total_rewards = book[k].total_rewards
                   /\ after[k].blocks_found = book[k].blocks_found
  BY <1>2, <1>3
<1>7. Earned(after) = Earned(book)
  BY <1>2, <1>6 DEF Earned
<1>8. Plus(total, payout.amount) = Capped(PaidOut(after))
  <2>1. total = Capped(PaidOut(book))
    BY DEF Sound, AgreedOn
  <2>2. QED
    BY <1>1, <1>5, <2>1, CappedPlus
<1>9. QED
  BY <1>2, <1>6, <1>7, <1>8 DEF Sound, AgreedOn

\* Of sound accounts, none paid more than it earned, no more was paid out
\* than is recorded.
LEMMA SoundBoundsTotal ==
  ASSUME NEW book, Book(book), NEW records \in Seq(Reward), NEW total,
         Sound(book, records, total), \A m \in DOMAIN book : Balanced(book[m])
  PROVE  total <= Recorded(records, 1..Len(records))
<1> DEFINE D == DOMAIN book
           paid == [m \in D |-> book[m].paid_rewards]
           earned == [m \in D |-> book[m].total_rewards]
<1>1. /\ IsFiniteSet(D)
      /\ \A m \in D : /\ paid[m] \in Nat /\ earned[m] \in Nat
                      /\ paid[m] <= earned[m]
  BY RewardAssumption DEF Book, Account, Money, Balanced
<1>2. PaidOut(book) = SumFunctionOnSet(paid, D) /\ Earned(book) = SumFunctionOnSet(earned, D)
  BY DEF PaidOut, Earned
<1> HIDE DEF D, paid, earned
<1>3. /\ SumFunctionOnSet(paid, D) <= SumFunctionOnSet(earned, D)
      /\ SumFunctionOnSet(paid, D) \in Nat /\ SumFunctionOnSet(earned, D) \in Nat
  BY <1>1, SumMonotone, SumIsNat
<1>4. total = Capped(PaidOut(book)) /\ Earned(book) <= Recorded(records, 1..Len(records))
  BY DEF Sound, AgreedOn
<1>5. Recorded(records, 1..Len(records)) \in Nat
  <2>1. \A i \in 1..Len(records) : records[i].total_reward \in Nat
    BY RecordedTyped
  <2>2. IsFiniteSet(1..Len(records))
    BY FS_Interval
  <2>3. QED
    BY <2>1, <2>2, SumIsNat DEF Recorded
<1>6. Capped(PaidOut(book)) <= PaidOut(book) /\ Capped(PaidOut(book)) \in Nat
  BY <1>2, <1>3, CappedPlus
<1>7. QED
  BY <1>2, <1>3, <1>4, <1>5, <1>6

\* The accounts of a sound ledger are finitely many.
LEMMA SoundBook ==
  ASSUME AccountsTyped, NEW records \in Seq(Reward), NEW total,
         Sound(accounts, records, total)
  PROVE  Book(accounts)
<1>1. DOMAIN accounts = {records[i].miner : i \in 1..Len(records)}
  BY DEF Sound, AgreedOn
<1>2. IsFiniteSet(1..Len(records))
  BY FS_Interval
<1>3. IsFiniteSet(DOMAIN accounts)
  <2> DEFINE f == [i \in 1..Len(records) |-> records[i].miner]
  <2>1. f \in Surjection(1..Len(records), DOMAIN accounts)
    BY <1>1 DEF Surjection
  <2>2. QED
    BY <1>2, <2>1, FS_Surjection
<1>4. QED
  BY <1>3 DEF Book, AccountsTyped

-----------------------------------------------------------------------------
(* The ledger's invariant.                                                 *)

\* A task here has changed the accounts and still owes the other half.
Owing == {"rew_history", "pay_total"}

\* The ledger is sound once what a task still owes is counted in; and never
\* has more been paid out than is recorded.
LedgerInv ==
  /\ (\A t \in Tasks : pc[t] \notin Owing)
       => Sound(accounts, history, distributed)
  /\ \A t \in Tasks :
       /\ pc[t] = "rew_history" =>
            Sound(accounts, Append(history, arg[t]), distributed)
       /\ pc[t] = "pay_total" =>
            Sound(accounts, history, Plus(distributed, arg[t].amount))
  /\ distributed <= Recorded(history, 1..Len(history))

\* Who has been granted the accounts for writing meets nobody that owes.
LEMMA OneOwes ==
  ASSUME LedgerLocks, NEW t \in Tasks, Holds(locks["accounts"], t),
         Wants[pc[t]]["accounts"] = "write"
  PROVE  \A u \in Tasks \ {t} : pc[u] \notin Owing
<1>1. SUFFICES ASSUME NEW u \in Tasks \ {t}, pc[u] \in Owing
               PROVE  FALSE
  OBVIOUS
<1>2. "accounts" \in HeldAt[pc[u]] /\ "accounts" \in Locks
  BY <1>1 DEF Owing, HeldAt, Points, Locks
<1>3. Holds(locks["accounts"], u)
  BY <1>1, <1>2 DEF LedgerLocks, LockInv, LockDiscipline
<1>4. QED
  BY <1>1, <1>2, <1>3, OneHolder DEF LedgerLocks

\* Who owes holds the accounts, so it is the only one.
LEMMA OwesAlone ==
  ASSUME LedgerLocks, NEW t \in Tasks, pc[t] \in Owing
  PROVE  \A u \in Tasks \ {t} : pc[u] \notin Owing
<1>1. /\ "accounts" \in HeldAt[pc[t]] /\ "accounts" \in Locks
      /\ Wants[pc[t]]["accounts"] = "write"
  BY DEF Owing, HeldAt, Points, Locks, Wants, Writes
<1>2. Holds(locks["accounts"], t)
  BY <1>1 DEF LedgerLocks, LockInv, LockDiscipline
<1>3. QED
  BY <1>1, <1>2, OneOwes

\* A segment that changes no data begins and ends where nothing is owed.
LEMMA QuietKeepsLedger ==
  ASSUME TypeOK, LedgerInv, NEW t \in Tasks, UNCHANGED data,
         \A u \in Tasks \ {t} : pc'[u] = pc[u] /\ arg'[u] = arg[u],
         pc[t] \notin Owing, pc'[t] \notin Owing
  PROVE  LedgerInv'
<1>1. accounts' = accounts /\ history' = history /\ distributed' = distributed
  BY DEF data
<1>2. \A u \in Tasks : pc'[u] \in Owing => u # t /\ pc'[u] = pc[u] /\ arg'[u] = arg[u]
  OBVIOUS
<1>3. (\A u \in Tasks : pc'[u] \notin Owing) => \A u \in Tasks : pc[u] \notin Owing
  OBVIOUS
<1>4. \A u \in Tasks : /\ pc'[u] = "rew_history" => pc'[u] \in Owing
                       /\ pc'[u] = "pay_total" => pc'[u] \in Owing
  BY DEF Owing
<1>5. QED
  BY <1>1, <1>2, <1>3, <1>4 DEF LedgerInv

\* Every segment that changes data settles what is owed or comes to owe it.
LEMMA StepKeepsLedger ==
  ASSUME LedgerLocks, TypeOK, AccountsBalanced, LedgerInv,
         NEW t \in Tasks, Begin(t) \/ Continue(t)
  PROVE  LedgerInv'
<1>a. /\ pc \in [Tasks -> Points] /\ DOMAIN arg = Tasks
      /\ AccountsTyped /\ history \in Seq(Reward) /\ distributed \in Money
      /\ arg[t] \in ArgOf(pc[t])
  BY DEF TypeOK, LockInv, AccountsTyped
<1>b. \A u \in Tasks \ {t} : pc'[u] = pc[u] /\ arg'[u] = arg[u]
  BY <1>a, OthersStay
<1>1. CASE Begin(t)
  <2>1. /\ UNCHANGED data /\ pc[t] = "idle"
        /\ pc'[t] \in {"rew_accounts", "pay_accounts", "stats_accounts"}
    BY <1>a, <1>1 DEF Begin, RecordBlockReward, ProcessPayout, GetStats, Call, Enter
  <2>2. QED
    BY <1>b, <2>1, QuietKeepsLedger DEF Owing
<1>2. CASE \/ PayoutRefused(t) \/ StatsAccounts(t) \/ StatsHistory(t)
           \/ StatsReport(t)
  <2>1. /\ UNCHANGED data
        /\ pc[t] \in {"pay_accounts", "stats_accounts", "stats_history",
                      "stats_total"}
        /\ pc'[t] \in {"idle", "stats_history", "stats_total"}
    BY <1>a, <1>2 DEF PayoutRefused, StatsAccounts, StatsHistory, StatsReport,
       Reached, Return, Await
  <2>2. QED
    BY <1>b, <2>1, QuietKeepsLedger DEF Owing
<1>3. CASE RewardCredit(t)
  <2>1. /\ pc[t] = "rew_accounts" /\ Holds(locks["accounts"], t)
        /\ pc'[t] = "rew_history" /\ arg' = arg /\ Credit(arg[t])
        /\ history' = history /\ distributed' = distributed
    BY <1>a, <1>3 DEF RewardCredit, Reached, Await
  <2>2. arg[t] \in Reward
    BY <1>a, <2>1 DEF ArgOf
  <2>3. \A u \in Tasks \ {t} : pc[u] \notin Owing
    <3>1. Wants["rew_accounts"]["accounts"] = "write"
      BY DEF Wants, Writes, Points, Locks
    <3>2. QED
      BY <2>1, <3>1, OneOwes
  <2>4. Sound(accounts, history, distributed)
    BY <2>1, <2>3 DEF LedgerInv, Owing
  <2>5. accounts' = Credited(accounts, arg[t])
    BY <2>1 DEF Credit, AccountOf, Credited
  <2>6. Sound(accounts', Append(history, arg[t]), distributed)
    BY <1>a, <2>2, <2>4, <2>5, SoundBook, CreditedSound
  <2>7. \A u \in Tasks : pc'[u] \in Owing => u = t
    BY <1>b, <2>3
  <2>8. QED
    BY <2>1, <2>6, <2>7 DEF LedgerInv, Owing
<1>4. CASE RewardRecord(t)
  <2>1. /\ pc[t] = "rew_history" /\ pc'[t] = "idle"
        /\ history' = Append(history, arg[t])
        /\ accounts' = accounts /\ distributed' = distributed
    BY <1>a, <1>4 DEF RewardRecord, Reached, Return
  <2>2. arg[t] \in Reward
    BY <1>a, <2>1 DEF ArgOf
  <2>3. \A u \in Tasks : pc'[u] \notin Owing
    BY <1>b, <2>1, OwesAlone DEF Owing
  <2>4. Sound(accounts', history', distributed')
    BY <2>1 DEF LedgerInv
  <2>5. distributed' <= Recorded(history', 1..Len(history'))
    <3> DEFINE all == 1..Len(history)
    <3>1. /\ Recorded(history, all) \in Nat /\ arg[t].total_reward \in Nat
          /\ Recorded(history', all \cup {Len(history) + 1})
               = Recorded(history, all) + arg[t].total_reward
      <4>1. all \in SUBSET (1..Len(history))
        OBVIOUS
      <4>2. arg[t].total_reward \in Nat
        BY <2>2, RewardAssumption DEF Reward, Money
      <4> HIDE DEF all
      <4>3. QED
        BY <1>a, <2>1, <2>2, <4>1, <4>2, RecordedAppend
    <3>2. Recorded(history', 1..Len(history')) =
            Recorded(history', all \cup {Len(history) + 1})
      <4>1. 1..Len(history') = all \cup {Len(history) + 1}
        BY <1>a, <2>1
      <4>2. QED
        BY <4>1, Zenon
    <3>3. distributed \in Nat /\ distributed <= Recorded(history, all)
      BY <1>a, RewardAssumption DEF LedgerInv, Money
    <3> HIDE DEF all
    <3>4. QED
      BY <2>1, <3>1, <3>2, <3>3
  <2>6. QED
    BY <2>3, <2>4, <2>5 DEF LedgerInv, Owing
<1>5. CASE PayoutMark(t)
  <2>1. /\ pc[t] = "pay_accounts" /\ Holds(locks["accounts"], t)
        /\ pc'[t] = "pay_total" /\ arg' = arg
        /\ Payable(arg[t]) /\ MarkPaid(arg[t])
        /\ history' = history /\ distributed' = distributed
    BY <1>a, <1>5 DEF PayoutMark, Reached, Await
  <2>2. arg[t] \in Payout
    BY <1>a, <2>1 DEF ArgOf
  <2>3. \A u \in Tasks \ {t} : pc[u] \notin Owing
    <3>1. Wants["pay_accounts"]["accounts"] = "write"
      BY DEF Wants, Writes, Points, Locks
    <3>2. QED
      BY <2>1, <3>1, OneOwes
  <2>4. Sound(accounts, history, distributed)
    BY <2>1, <2>3 DEF LedgerInv, Owing
  <2>5. accounts' = Charged(accounts, arg[t])
    BY <2>1 DEF MarkPaid, Charged, Paid
  <2>6. /\ arg[t].miner \in DOMAIN accounts
        /\ Balanced(accounts[arg[t].miner])
        /\ Balance(accounts[arg[t].miner]) >= arg[t].amount
        /\ accounts[arg[t].miner].pending_rewards >= arg[t].amount
    BY <2>1 DEF Payable, AccountsBalanced
  <2>7. Sound(accounts', history, Plus(distributed, arg[t].amount))
    BY <1>a, <2>2, <2>4, <2>5, <2>6, SoundBook, ChargedSound
  <2>8. \A u \in Tasks : pc'[u] \in Owing => u = t
    BY <1>b, <2>3
  <2>9. QED
    BY <2>1, <2>7, <2>8 DEF LedgerInv, Owing
<1>6. CASE PayoutTotal(t)
  <2>1. /\ pc[t] = "pay_total" /\ pc'[t] = "idle"
        /\ distributed' = Plus(distributed, arg[t].amount)
        /\ accounts' = accounts /\ history' = history
    BY <1>a, <1>6 DEF PayoutTotal, Reached, Return
  <2>2. \A u \in Tasks : pc'[u] \notin Owing
    BY <1>b, <2>1, OwesAlone DEF Owing
  <2>3. Sound(accounts, history, distributed')
    BY <2>1 DEF LedgerInv
  <2>4. distributed' <= Recorded(history, 1..Len(history))
    BY <1>a, <2>3, SoundBook, SoundBoundsTotal DEF AccountsBalanced
  <2>5. QED
    BY <2>1, <2>2, <2>3, <2>4 DEF LedgerInv, Owing
<1>7. QED
  BY <1>1, <1>2, <1>3, <1>4, <1>5, <1>6 DEF Continue

\* What a task owes is always the whole difference between the accounts and
\* the other two.
THEOREM LedgerInvHolds == Spec => []LedgerInv
<1>1. Init => LedgerInv
  <2>1. SUFFICES ASSUME Init PROVE LedgerInv
    OBVIOUS
  <2>2. /\ accounts = << >> /\ history = << >> /\ distributed = 0
        /\ \A t \in Tasks : pc[t] = "idle"
    BY <2>1 DEF Init, NoCalls
  <2>3. 1..Len(<< >>) = {} /\ DOMAIN << >> = {}
    OBVIOUS
  <2>4. Recorded(history, 1..Len(history)) = 0
    BY <2>2, <2>3, SumUnfolds, FS_EmptySet DEF Recorded
  <2>5. PaidOut(accounts) = 0 /\ Earned(accounts) = 0
    BY <2>2, <2>3, SumUnfolds, FS_EmptySet DEF PaidOut, Earned
  <2>6. Sound(accounts, history, distributed)
    BY <2>2, <2>3, <2>4, <2>5, RewardAssumption DEF Sound, AgreedOn, Capped
  <2>7. QED
    BY <2>2, <2>4, <2>6 DEF LedgerInv, Owing
<1>2. /\ LedgerLocks /\ TypeOK /\ AccountsBalanced /\ LedgerInv /\ [Next]_vars
      => LedgerInv'
  <2>1. SUFFICES ASSUME LedgerLocks, TypeOK, AccountsBalanced, LedgerInv,
                        [Next]_vars
                 PROVE  LedgerInv'
    OBVIOUS
  <2>2. CASE UNCHANGED vars
    BY <2>1, <2>2 DEF vars, data, taskVars, LedgerInv
  <2>3. CASE \E t \in Tasks : Begin(t) \/ Continue(t)
    BY <2>1, <2>3, StepKeepsLedger
  <2>4. QED
    BY <2>1, <2>2, <2>3 DEF Next
<1>3. QED
  BY <1>1, <1>2, LedgerLocksHeld, TypedAndBalanced, PTL DEF Spec

\* Whoever can read the accounts finds that they agree with the history and
\* the total; and no more has ever been paid out than was recorded.
THEOREM LedgerAgreesHolds == Spec => []LedgerAgrees
<1>1. LedgerLocks /\ LedgerInv => LedgerAgrees
  <2>1. SUFFICES ASSUME LedgerLocks, LedgerInv, ~WriteHeld(locks["accounts"])
                 PROVE  AgreedOn(accounts, history, distributed)
    BY DEF LedgerAgrees, LedgerInv
  <2>2. ASSUME NEW t \in Tasks, pc[t] \in Owing
        PROVE  FALSE
    <3>1. /\ "accounts" \in HeldAt[pc[t]] /\ "accounts" \in Locks
          /\ Wants[pc[t]]["accounts"] = "write"
      BY <2>2 DEF Owing, HeldAt, Points, Locks, Wants, Writes
    <3>2. HoldsWrite(locks["accounts"], t) /\ t \in DOMAIN locks["accounts"]
      BY <2>1, <3>1 DEF LedgerLocks, LockInv, LockDiscipline, HoldsWrite, WellFormed
    <3>3. QED
      BY <2>1, <3>2 DEF WriteHeld
  <2>3. QED
    BY <2>1, <2>2 DEF LedgerInv, Sound
<1>2. QED
  BY <1>1, LedgerLocksHeld, LedgerInvHolds, PTL
=============================================================================
