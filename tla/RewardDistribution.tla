------------------------- MODULE RewardDistribution -------------------------
(***************************************************************************)
(* The reward ledger (src/src/reward_distribution.rs).                     *)
(*                                                                         *)
(* The miners' accounts, the history of the block rewards and the total    *)
(* paid out are three values behind three fair locks.  A reward is         *)
(* credited to its miner's account and then recorded in the history; a     *)
(* payout is taken from the account and then added to the total.  Each     *)
(* keeps the accounts locked for both steps.  Amounts are u128 and         *)
(* saturate.                                                               *)
(***************************************************************************)
EXTENDS LockedTasks, Integers, Sequences, Functions

CONSTANTS
  Miners,           \* miner addresses
  Heights,          \* block heights callers record rewards for
  Fees,             \* transaction fees of these blocks
  Amounts,          \* amounts of the payouts callers ask for
  HalvingInterval,  \* blocks, at least one
  BaseReward,       \* of the first blocks
  MaxAmount,        \* 2^128 - 1: sums saturate here
  Ops,              \* the operations each task calls in this instance
  MaxRewards        \* bound: no reward is begun beyond this history

OpNames == {"reward", "payout", "stats"}

\* calculate_block_reward: half as much after each interval, nothing after
\* the 64th.
BlockReward(h) ==
  LET halvings == h \div HalvingInterval
  IN  IF halvings >= 64 THEN 0 ELSE BaseReward \div 2^halvings

\* The last part says that a reward is an amount; the prover knows no powers.
ASSUME RewardAssumption ==
  /\ Ops \in [Tasks -> SUBSET OpNames]
  /\ {BaseReward, MaxAmount, MaxRewards} \subseteq Nat
  /\ Heights \subseteq Nat /\ Fees \subseteq Nat /\ Amounts \subseteq Nat
  /\ HalvingInterval \in Nat \ {0}
  /\ \A h \in Heights : BlockReward(h) \in Nat

VARIABLES
  accounts,    \* HashMap<address, MinerRewardAccount>
  history,     \* Vec<BlockRewardRecord>
  distributed  \* total_distributed

data == <<accounts, history, distributed>>
vars == <<data, taskVars>>

Locks == {"accounts", "history", "distributed"}

Money == 0..MaxAmount
Account == [total_rewards : Money, pending_rewards : Money,
            paid_rewards : Money, blocks_found : Nat]
Reward == [miner : Miners, total_reward : Money]
Payout == [miner : Miners, amount : Nat]

NewAccount == [total_rewards |-> 0, pending_rewards |-> 0, paid_rewards |-> 0,
               blocks_found |-> 0]

\* saturating_add
Plus(a, b) == IF a + b > MaxAmount THEN MaxAmount ELSE a + b

-----------------------------------------------------------------------------
Call(t, op, value, point, lock, mode) ==
  /\ op \in Ops[t]
  /\ Enter(t, value, point, lock, mode)
  /\ UNCHANGED data

(* record_block_reward: accounts, then history, both kept.  Nothing tells  *)
(* whether the block was rewarded before.                                  *)

RecordBlockReward(t, m, h, fees) ==
  /\ Len(history) < MaxRewards
  /\ Call(t, "reward",
          [miner |-> m, total_reward |-> Plus(BlockReward(h), fees)],
          "rew_accounts", "accounts", "write")

\* add_reward
Rewarded(account, amount) ==
  [account EXCEPT !.total_rewards = Plus(@, amount),
                  !.pending_rewards = Plus(@, amount),
                  !.blocks_found = @ + 1]

AccountOf(m) == IF m \in DOMAIN accounts THEN accounts[m] ELSE NewAccount

\* The account is opened with its first reward.
Credit(reward) ==
  accounts' = [m \in DOMAIN accounts \cup {reward.miner} |->
                 IF m = reward.miner
                 THEN Rewarded(AccountOf(m), reward.total_reward)
                 ELSE accounts[m]]

RewardCredit(t) ==
  /\ Reached(t, "rew_accounts", "accounts")
  /\ Credit(arg[t])
  /\ Await(t, "rew_history", "history", "write")
  /\ UNCHANGED <<history, distributed, arg>>

RewardRecord(t) ==
  /\ Reached(t, "rew_history", "history")
  /\ history' = Append(history, arg[t])
  /\ Return(t)
  /\ UNCHANGED <<accounts, distributed>>

-----------------------------------------------------------------------------
(* process_payout: accounts, then the total, both kept.                    *)

ProcessPayout(t, m, amount) ==
  Call(t, "payout", [miner |-> m, amount |-> amount],
       "pay_accounts", "accounts", "write")

\* balance(); paid never exceeds total, or saturating_sub would make it 0.
Balance(a) == IF a.total_rewards < a.paid_rewards THEN 0
              ELSE a.total_rewards - a.paid_rewards

\* Variant: the amount is tested against all the account ever earned.
PayableByTotal(payout) ==
  /\ payout.miner \in DOMAIN accounts
  /\ accounts[payout.miner].total_rewards >= payout.amount

\* process_payout tests the balance and mark_paid the pending rewards.
Payable(payout) ==
  /\ payout.miner \in DOMAIN accounts
  /\ Balance(accounts[payout.miner]) >= payout.amount
  /\ accounts[payout.miner].pending_rewards >= payout.amount

PayoutRefused(t) ==
  /\ Reached(t, "pay_accounts", "accounts")
  /\ ~Payable(arg[t])
  /\ Return(t)
  /\ UNCHANGED data

MarkPaid(payout) ==
  accounts' = [accounts EXCEPT
                 ![payout.miner].pending_rewards = @ - payout.amount,
                 ![payout.miner].paid_rewards = Plus(@, payout.amount)]

\* Variant: the accounts are unlocked before the total is locked.
PayoutMarkUnlocks(t) ==
  /\ Reached(t, "pay_accounts", "accounts")
  /\ Payable(arg[t])
  /\ MarkPaid(arg[t])
  /\ AwaitAfter(t, "accounts", "pay_total", "distributed", "write")
  /\ UNCHANGED <<history, distributed, arg>>

PayoutMark(t) ==
  /\ Reached(t, "pay_accounts", "accounts")
  /\ Payable(arg[t])
  /\ MarkPaid(arg[t])
  /\ Await(t, "pay_total", "distributed", "write")
  /\ UNCHANGED <<history, distributed, arg>>

PayoutTotal(t) ==
  /\ Reached(t, "pay_total", "distributed")
  /\ distributed' = Plus(distributed, arg[t].amount)
  /\ Return(t)
  /\ UNCHANGED <<accounts, history>>

-----------------------------------------------------------------------------
(* get_stats: all three, kept until the report is put together.            *)

GetStats(t) == Call(t, "stats", None, "stats_accounts", "accounts", "read")

StatsAccounts(t) ==
  /\ Reached(t, "stats_accounts", "accounts")
  /\ Await(t, "stats_history", "history", "read")
  /\ UNCHANGED <<data, arg>>

StatsHistory(t) ==
  /\ Reached(t, "stats_history", "history")
  /\ Await(t, "stats_total", "distributed", "read")
  /\ UNCHANGED <<data, arg>>

StatsReport(t) ==
  /\ Reached(t, "stats_total", "distributed")
  /\ Return(t)
  /\ UNCHANGED data

-----------------------------------------------------------------------------
Begin(t) ==
  \/ \E m \in Miners, h \in Heights, fees \in Fees :
       RecordBlockReward(t, m, h, fees)
  \/ \E m \in Miners, amount \in Amounts : ProcessPayout(t, m, amount)
  \/ GetStats(t)

Continue(t) ==
  \/ RewardCredit(t) \/ RewardRecord(t)
  \/ PayoutRefused(t) \/ PayoutMark(t) \/ PayoutTotal(t)
  \/ StatsAccounts(t) \/ StatsHistory(t) \/ StatsReport(t)

Init ==
  /\ accounts = << >> /\ history = << >> /\ distributed = 0
  /\ NoCalls(Locks)

Next == \E t \in Tasks : Begin(t) \/ Continue(t)

Spec == Init /\ [][Next]_vars

-----------------------------------------------------------------------------
(* Which guards a task has at each await point.                            *)

Points == {"idle", "rew_accounts", "rew_history", "pay_accounts", "pay_total",
           "stats_accounts", "stats_history", "stats_total"}

Writes == [accounts |-> {"rew_accounts", "rew_history", "pay_accounts",
                         "pay_total"},
           history |-> {"rew_history"},
           distributed |-> {"pay_total"}]

Reads == [accounts |-> {"stats_accounts", "stats_history", "stats_total"},
          history |-> {"stats_history", "stats_total"},
          distributed |-> {"stats_total"}]

Wants == [point \in Points |-> [lock \in Locks |->
            IF point \in Writes[lock] THEN "write"
            ELSE IF point \in Reads[lock] THEN "read" ELSE "none"]]

HeldAt == [point \in Points |->
  CASE point \in {"rew_history", "pay_total", "stats_history"} -> {"accounts"}
    [] point = "stats_total" -> {"accounts", "history"}
    [] OTHER -> {}]

ArgOf(point) ==
  CASE point \in {"rew_accounts", "rew_history"} -> Reward
    [] point \in {"pay_accounts", "pay_total"} -> Payout
    [] OTHER -> {None}

TypeOK ==
  /\ DOMAIN accounts \subseteq Miners
  /\ accounts \in [DOMAIN accounts -> Account]
  /\ history \in Seq(Reward)
  /\ distributed \in Money
  /\ LockInv(Locks, Points, Wants, HeldAt)
  /\ DOMAIN arg = Tasks
  /\ \A t \in Tasks : arg[t] \in ArgOf(pc[t])

-----------------------------------------------------------------------------
(* What callers may rely on.                                               *)

RewardsOf(m, records) == {i \in 1..Len(records) : records[i].miner = m}

Recorded(records, some) ==
  SumFunctionOnSet([i \in 1..Len(records) |-> records[i].total_reward], some)

PaidOut(book) ==
  SumFunctionOnSet([m \in DOMAIN book |-> book[m].paid_rewards], DOMAIN book)

Capped(a) == IF a > MaxAmount THEN MaxAmount ELSE a

\* These accounts are those of a history and of a total paid out.
AgreedOn(book, records, total) ==
  /\ DOMAIN book = {records[i].miner : i \in 1..Len(records)}
  /\ \A m \in DOMAIN book :
       /\ book[m].blocks_found = Cardinality(RewardsOf(m, records))
       /\ book[m].total_rewards =
            Capped(Recorded(records, RewardsOf(m, records)))
  /\ total = Capped(PaidOut(book))

\* Whoever can read the accounts finds that each holds what the history says
\* its miner was rewarded with, and that together they were paid the total:
\* a reward and a payout are two locks each.  And at no moment, calls half
\* done included, has more been paid out than the recorded rewards amount to.
LedgerAgrees ==
  /\ ~WriteHeld(locks["accounts"]) => AgreedOn(accounts, history, distributed)
  /\ distributed <= Recorded(history, 1..Len(history))

Balanced(a) ==
  /\ a.paid_rewards <= a.total_rewards
  /\ a.total_rewards - a.paid_rewards <= a.pending_rewards
  /\ a.total_rewards < MaxAmount =>
       a.pending_rewards = a.total_rewards - a.paid_rewards

\* No account is paid more than it was rewarded with, saturated sums
\* included; and the balance never exceeds the pending rewards, so mark_paid
\* accepts whatever process_payout has let pass.
AccountsBalanced == \A m \in DOMAIN accounts : Balanced(accounts[m])
=============================================================================
