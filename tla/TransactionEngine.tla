-------------------------- MODULE TransactionEngine --------------------------
(***************************************************************************)
(* The transaction engine (TransactionEngine,                              *)
(* src/src/transaction_engine.rs).                                         *)
(*                                                                         *)
(* The accounts, the mempool, the transactions and their results are four  *)
(* values behind four fair locks.  An execution keeps the mempool locked   *)
(* from the removal of its transaction to its result, so executions        *)
(* exclude each other, while it locks the accounts anew for every read and *)
(* every update.  No operation credits an account from outside: whatever   *)
(* the accounts hold came out of an execution.                             *)
(*                                                                         *)
(* The engine passes the calls that are about outputs on to its UTXOSet    *)
(* and never looks at it itself, so callers of the one and of the other    *)
(* never meet: the workloads have the one or the other kind.               *)
(***************************************************************************)
EXTENDS UTXOSet

CONSTANTS
  Workloads,    \* in each, the operations each task calls
  MaxSubmitted  \* bound: no submission is begun beyond as many transactions

VARIABLES
  accounts,     \* HashMap<address, AccountState>
  mempool,      \* Vec<Transaction>
  transactions, \* Vec<Transaction>, with their status
  executed,     \* Vec<TransactionExecutionResult>
  workload      \* the operations each task calls in this behaviour

OpNames == {"submit", "execute", "account", "stats",
            "add", "spend", "list", "validate"}

ASSUME WorkloadAssumption ==
  Workloads \subseteq [Tasks -> SUBSET OpNames] /\ MaxSubmitted \in Nat

\* Transactions pay addresses amounts.
ASSUME CatalogueAssumption ==
  \A tx \in Catalogue :
    /\ tx.sender \in Addresses /\ tx.fee \in Money
    /\ tx.outputs \in Seq([recipient : Addresses, amount : Money])

\* Which outputs they name is up to them.
ASSUME InputsAssumption ==
  \A tx \in Catalogue :
    tx.inputs \in Seq([key : InputKeys(tx), hashLength : Nat,
                       signatureLength : Nat])

engineData == <<accounts, mempool, transactions, executed>>
vars == <<engineData, utxoData, workload, taskVars>>

EngineLocks == {"accounts", "mempool", "transactions", "executed"}
Locks == EngineLocks \cup UtxoLocks

NewAccount == [balance |-> 0, nonce |-> 0]

AccountOf(a) == IF a \in DOMAIN accounts THEN accounts[a] ELSE NewAccount

Call(t, op, value, point, lock, mode) ==
  /\ op \in workload[t]
  /\ Enter(t, value, point, lock, mode)
  /\ UNCHANGED engineData

\* The account is opened by whoever asks for it.
GetOrCreateAccount(a) ==
  accounts' = [b \in DOMAIN accounts \cup {a} |-> AccountOf(b)]

Store(a, account) ==
  accounts' = [b \in DOMAIN accounts \cup {a} |->
                 IF b = a THEN account ELSE accounts[b]]

-----------------------------------------------------------------------------
(* submit_transaction: the accounts are unlocked before the mempool is     *)
(* locked; the balance it looks at is not set aside.                       *)

SubmitTransaction(t, tx) ==
  /\ Validate(tx)
  /\ Len(mempool) + Len(transactions) < MaxSubmitted
  /\ Call(t, "submit", [tx |-> tx], "sub_account", "accounts", "write")

\* Variant: the accounts stay locked.
SubmitAccountKeeps(t) ==
  /\ Reached(t, "sub_account", "accounts")
  /\ GetOrCreateAccount(arg[t].tx.sender)
  /\ AccountOf(arg[t].tx.sender).balance >= Needed(arg[t].tx)
  /\ Await(t, "sub_mempool", "mempool", "write")
  /\ UNCHANGED <<mempool, transactions, executed, arg>>

SubmitAccount(t) ==
  /\ Reached(t, "sub_account", "accounts")
  /\ GetOrCreateAccount(arg[t].tx.sender)
  /\ AccountOf(arg[t].tx.sender).balance >= Needed(arg[t].tx)
  /\ Drop(t, "accounts", "sub_covered")
  /\ UNCHANGED <<mempool, transactions, executed, arg>>

SubmitRefused(t) ==
  /\ Reached(t, "sub_account", "accounts")
  /\ GetOrCreateAccount(arg[t].tx.sender)
  /\ AccountOf(arg[t].tx.sender).balance < Needed(arg[t].tx)
  /\ Return(t)
  /\ UNCHANGED <<mempool, transactions, executed>>

SubmitAsk(t) ==
  /\ pc[t] = "sub_covered"
  /\ Await(t, "sub_mempool", "mempool", "write")
  /\ UNCHANGED <<engineData, arg>>

SubmitPush(t) ==
  /\ Reached(t, "sub_mempool", "mempool")
  /\ mempool' = Append(mempool, arg[t].tx)
  /\ Return(t)
  /\ UNCHANGED <<accounts, transactions, executed>>

-----------------------------------------------------------------------------
(* execute_transaction                                                     *)

ExecuteTransaction(t, hash) ==
  Call(t, "execute", [hash |-> hash], "exe_mempool", "mempool", "write")

Waiting(hash) == {i \in 1..Len(mempool) : mempool[i].hash = hash}

ExecuteNotFound(t) ==
  /\ Reached(t, "exe_mempool", "mempool")
  /\ Waiting(arg[t].hash) = {}
  /\ Return(t)
  /\ UNCHANGED engineData

Take(t, i) ==
  /\ mempool' = RemoveAt(mempool, i)
  /\ Keep(t, [tx |-> mempool[i], sender |-> NewAccount,
              recipient |-> NewAccount, paid |-> 0, status |-> "Pending"])

\* Variant: the mempool is unlocked before the transaction is executed.
ExecuteTakeUnlocks(t) ==
  /\ Reached(t, "exe_mempool", "mempool")
  /\ \E i \in Waiting(arg[t].hash) :
       (\A j \in Waiting(arg[t].hash) : i <= j) /\ Take(t, i)
  /\ AwaitAfter(t, "mempool", "exe_sender", "accounts", "write")
  /\ UNCHANGED <<accounts, transactions, executed>>

ExecuteTake(t) ==
  /\ Reached(t, "exe_mempool", "mempool")
  /\ \E i \in Waiting(arg[t].hash) :
       (\A j \in Waiting(arg[t].hash) : i <= j) /\ Take(t, i)
  /\ Await(t, "exe_sender", "accounts", "write")
  /\ UNCHANGED <<accounts, transactions, executed>>

(* execute_tx_internal: the sender's account is copied, and the copy       *)
(* debited (subtract_balance, increment_nonce).                            *)

Debited(account, tx) ==
  [balance |-> account.balance - Needed(tx), nonce |-> account.nonce + 1]

ExecuteSender(t) ==
  /\ Reached(t, "exe_sender", "accounts")
  /\ GetOrCreateAccount(arg[t].tx.sender)
  /\ AccountOf(arg[t].tx.sender).balance >= Needed(arg[t].tx)
  /\ Keep(t, [arg[t] EXCEPT
                !.sender = Debited(AccountOf(arg[t].tx.sender), arg[t].tx)])
  /\ Drop(t, "accounts", "exe_outputs")
  /\ UNCHANGED <<mempool, transactions, executed>>

ExecuteSenderPoor(t) ==
  /\ Reached(t, "exe_sender", "accounts")
  /\ GetOrCreateAccount(arg[t].tx.sender)
  /\ AccountOf(arg[t].tx.sender).balance < Needed(arg[t].tx)
  /\ Keep(t, [arg[t] EXCEPT !.status = "Failed"])
  /\ Drop(t, "accounts", "exe_done")
  /\ UNCHANGED <<mempool, transactions, executed>>

Output(call) == call.tx.outputs[call.paid + 1]

ExecuteNextOutput(t) ==
  /\ pc[t] = "exe_outputs"
  /\ arg[t].paid < Len(arg[t].tx.outputs)
  /\ Await(t, "exe_recipient", "accounts", "write")
  /\ UNCHANGED <<engineData, arg>>

ExecuteRecipient(t) ==
  /\ Reached(t, "exe_recipient", "accounts")
  /\ GetOrCreateAccount(Output(arg[t]).recipient)
  /\ Keep(t, [arg[t] EXCEPT !.recipient =
                [AccountOf(Output(arg[t]).recipient) EXCEPT
                   !.balance = Plus(@, Output(arg[t]).amount)]])
  /\ Drop(t, "accounts", "exe_recipient_copied")
  /\ UNCHANGED <<mempool, transactions, executed>>

ExecuteCreditAsk(t) ==
  /\ pc[t] = "exe_recipient_copied"
  /\ Await(t, "exe_credit", "accounts", "write")
  /\ UNCHANGED <<engineData, arg>>

ExecuteCredit(t) ==
  /\ Reached(t, "exe_credit", "accounts")
  /\ Store(Output(arg[t]).recipient, arg[t].recipient)
  /\ Keep(t, [arg[t] EXCEPT !.paid = @ + 1])
  /\ Drop(t, "accounts", "exe_outputs")
  /\ UNCHANGED <<mempool, transactions, executed>>

ExecuteSenderAsk(t) ==
  /\ pc[t] = "exe_outputs"
  /\ arg[t].paid = Len(arg[t].tx.outputs)
  /\ Await(t, "exe_debit", "accounts", "write")
  /\ UNCHANGED <<engineData, arg>>

\* Variant: the debited copy is never stored.
ExecuteDebitForgets(t) ==
  /\ Reached(t, "exe_debit", "accounts")
  /\ Keep(t, [arg[t] EXCEPT !.status = "Confirmed"])
  /\ Drop(t, "accounts", "exe_done")
  /\ UNCHANGED engineData

\* The copy of the sender's account replaces whatever the outputs made of it.
ExecuteDebit(t) ==
  /\ Reached(t, "exe_debit", "accounts")
  /\ Store(arg[t].tx.sender, arg[t].sender)
  /\ Keep(t, [arg[t] EXCEPT !.status = "Confirmed"])
  /\ Drop(t, "accounts", "exe_done")
  /\ UNCHANGED <<mempool, transactions, executed>>

ExecuteDone(t) ==
  /\ pc[t] = "exe_done"
  /\ Await(t, "exe_transactions", "transactions", "write")
  /\ UNCHANGED <<engineData, arg>>

ExecuteStore(t) ==
  /\ Reached(t, "exe_transactions", "transactions")
  /\ transactions' = Append(transactions,
                            [tx |-> arg[t].tx, status |-> arg[t].status])
  /\ Await(t, "exe_executed", "executed", "write")
  /\ UNCHANGED <<accounts, mempool, executed, arg>>

ExecuteResult(t) ==
  /\ Reached(t, "exe_executed", "executed")
  /\ executed' = Append(executed, [tx_hash |-> arg[t].tx.hash,
                                   status |-> arg[t].status])
  /\ Return(t)
  /\ UNCHANGED <<accounts, mempool, transactions>>

-----------------------------------------------------------------------------
(* get_balance and get_nonce open the account they report.                 *)

GetAccount(t, a) ==
  Call(t, "account", [address |-> a], "get_account", "accounts", "write")

AccountReport(t) ==
  /\ Reached(t, "get_account", "accounts")
  /\ GetOrCreateAccount(arg[t].address)
  /\ Return(t)
  /\ UNCHANGED <<mempool, transactions, executed>>

-----------------------------------------------------------------------------
(* get_stats: all four, in another order than an execution.                *)

GetStats(t) == Call(t, "stats", None, "stats_accounts", "accounts", "read")

StatsLock(t, point, lock, next, wanted) ==
  /\ Reached(t, point, lock)
  /\ Await(t, next, wanted, "read")
  /\ UNCHANGED <<engineData, arg>>

StatsAccounts(t) ==
  StatsLock(t, "stats_accounts", "accounts", "stats_transactions", "transactions")

StatsTransactions(t) ==
  StatsLock(t, "stats_transactions", "transactions", "stats_mempool", "mempool")

StatsMempool(t) ==
  StatsLock(t, "stats_mempool", "mempool", "stats_executed", "executed")

StatsReport(t) ==
  /\ Reached(t, "stats_executed", "executed")
  /\ Return(t)
  /\ UNCHANGED engineData

-----------------------------------------------------------------------------
BeginEngine(t) ==
  \/ \E tx \in Catalogue : SubmitTransaction(t, tx)
  \/ \E tx \in Catalogue : ExecuteTransaction(t, tx.hash)
  \/ \E a \in Addresses : GetAccount(t, a)
  \/ GetStats(t)

ContinueEngine(t) ==
  \/ SubmitAccount(t) \/ SubmitRefused(t) \/ SubmitAsk(t) \/ SubmitPush(t)
  \/ ExecuteNotFound(t) \/ ExecuteTake(t)
  \/ ExecuteSender(t) \/ ExecuteSenderPoor(t)
  \/ ExecuteNextOutput(t) \/ ExecuteRecipient(t) \/ ExecuteCreditAsk(t)
  \/ ExecuteCredit(t) \/ ExecuteSenderAsk(t) \/ ExecuteDebit(t)
  \/ ExecuteDone(t) \/ ExecuteStore(t) \/ ExecuteResult(t)
  \/ AccountReport(t)
  \/ StatsAccounts(t) \/ StatsTransactions(t) \/ StatsMempool(t)
  \/ StatsReport(t)

Init ==
  /\ accounts = << >> /\ mempool = << >>
  /\ transactions = << >> /\ executed = << >>
  /\ InitUtxo
  /\ workload \in Workloads
  /\ NoCalls(Locks)

Next ==
  /\ UNCHANGED workload
  /\ \E t \in Tasks :
       \/ (BeginEngine(t) \/ ContinueEngine(t)) /\ UNCHANGED utxoData
       \/ (BeginUtxo(t, workload[t]) \/ ContinueUtxo(t))
          /\ UNCHANGED engineData

Spec == Init /\ [][Next]_vars

-----------------------------------------------------------------------------
(* Types, and which guards a call has where.                               *)

UtxoPoints == {"add_utxos", "add_index", "spend_utxos", "list_index",
               "list_utxos", "val_utxos", "val_seen"}

SubmitPoints == {"sub_account", "sub_covered", "sub_mempool"}

\* The await points of an execution that has taken its transaction and not
\* recorded it.
InExecution == {"exe_sender", "exe_outputs", "exe_recipient",
                "exe_recipient_copied", "exe_credit", "exe_debit", "exe_done",
                "exe_transactions"}

KeepsForStats == {"stats_transactions", "stats_mempool", "stats_executed"}

Points ==
  {"idle", "exe_mempool", "exe_executed", "get_account", "stats_accounts"}
    \cup SubmitPoints \cup InExecution \cup KeepsForStats \cup UtxoPoints

Writes ==
  [accounts |-> {"sub_account", "exe_sender", "exe_recipient", "exe_credit",
                 "exe_debit", "get_account"},
   mempool |-> {"sub_mempool", "exe_mempool", "exe_executed"} \cup InExecution,
   transactions |-> {"exe_transactions", "exe_executed"},
   executed |-> {"exe_executed"},
   utxos |-> {"add_utxos", "add_index", "spend_utxos"},
   address_utxos |-> {"add_index"}]

Reads ==
  [accounts |-> {"stats_accounts"} \cup KeepsForStats,
   transactions |-> KeepsForStats,
   mempool |-> {"stats_mempool", "stats_executed"},
   executed |-> {"stats_executed"},
   utxos |-> {"list_utxos", "val_utxos"},
   address_utxos |-> {"list_index", "list_utxos"}]

Wants == [point \in Points |-> [lock \in Locks |->
            IF point \in Writes[lock] THEN "write"
            ELSE IF point \in Reads[lock] THEN "read" ELSE "none"]]

HeldAt == [point \in Points |->
  CASE point \in InExecution -> {"mempool"}
    [] point = "exe_executed" -> {"mempool", "transactions"}
    [] point = "stats_transactions" -> {"accounts"}
    [] point = "stats_mempool" -> {"accounts", "transactions"}
    [] point = "stats_executed" -> {"accounts", "transactions", "mempool"}
    [] point = "add_index" -> {"utxos"}
    [] point = "list_utxos" -> {"address_utxos"}
    [] OTHER -> {}]

Account == [balance : Money, nonce : Nat]

Statuses == {"Pending", "Confirmed", "Failed"}

Execution == [tx : Catalogue, sender : Account, recipient : Account,
              paid : Nat, status : Statuses]

Validation == [tx : Catalogue, seen : Seq(Amounts), since : Nat,
               before : OutputMaps]

\* An execution at one of its outputs.
Crediting == {"exe_recipient", "exe_recipient_copied", "exe_credit"}

\* What a call still carries at an await point.
ArgOf(point) ==
  CASE point \in {"add_utxos", "add_index"} ->
         [key : Outputs, recipient : Addresses, amount : Amounts]
    [] point = "spend_utxos" -> [key : Outputs]
    [] point \in {"list_index", "list_utxos"} -> [address : Addresses]
    [] point \in {"val_utxos", "val_seen"} -> Validation
    [] point \in SubmitPoints -> [tx : Catalogue]
    [] point = "exe_mempool" -> [hash : {tx.hash : tx \in Catalogue}]
    [] point \in Crediting -> {e \in Execution : e.paid < Len(e.tx.outputs)}
    [] point \in (InExecution \ Crediting) \cup {"exe_executed"} -> Execution
    [] point = "get_account" -> [address : Addresses]
    [] OTHER -> {None}

TypeOK ==
  /\ DOMAIN accounts \subseteq Addresses
  /\ accounts \in [DOMAIN accounts -> Account]
  /\ mempool \in Seq(Catalogue)
  /\ transactions \in Seq([tx : Catalogue, status : Statuses])
  /\ executed \in Seq([tx_hash : {tx.hash : tx \in Catalogue},
                        status : Statuses])
  /\ DOMAIN utxos \subseteq Outputs
  /\ utxos \in [DOMAIN utxos -> Entry]
  /\ DOMAIN address_utxos \subseteq Addresses
  /\ address_utxos \in [DOMAIN address_utxos -> Seq(Outputs)]
  /\ added \in Seq(Outputs)
  /\ LockInv(Locks, Points, Wants, HeldAt)
  /\ DOMAIN arg = Tasks
  /\ \A t \in Tasks : arg[t] \in ArgOf(pc[t])

-----------------------------------------------------------------------------
(* What callers may rely on.                                               *)

\* Executions exclude each other: whatever one still does to the accounts, it
\* does alone.
OneExecution ==
  \A t, u \in Tasks : pc[t] \in InExecution /\ pc[u] \in InExecution => t = u

\* One output, unless it is to the sender itself.
Credit(balances, tx, output) ==
  IF output.recipient = tx.sender THEN balances
  ELSE [balances EXCEPT ![output.recipient].balance = Plus(@, output.amount)]

\* The accounts after so many outputs have been credited one by one.
Credited(balances, tx) ==
  LET after[n \in 0..Len(tx.outputs)] ==
        IF n = 0 THEN balances ELSE Credit(after[n - 1], tx, tx.outputs[n])
  IN  after

\* What one confirmed transaction does to the accounts: the outputs to
\* others are credited, those to the sender are lost.
Pay(balances, tx) ==
  [Credited(balances, tx)[Len(tx.outputs)]
     EXCEPT ![tx.sender].balance = @ - Needed(tx),
            ![tx.sender].nonce = @ + 1]

\* The accounts after so many recorded transactions.
Replay(records) ==
  LET after[n \in 0..Len(records)] ==
        IF n = 0 THEN [a \in Addresses |-> NewAccount]
        ELSE IF records[n].status = "Confirmed"
        THEN Pay(after[n - 1], records[n].tx)
        ELSE after[n - 1]
  IN  after

Replayed == Replay(transactions)[Len(transactions)]

Ledger == [a \in Addresses |-> AccountOf(a)]

Results(records) == [i \in 1..Len(records) |->
                       [tx_hash |-> records[i].tx.hash,
                        status |-> records[i].status]]

\* Whoever can read the mempool finds the accounts to be what the recorded
\* transactions make of them one after another, and a result for each: an
\* execution works on copies and locks the accounts anew for every update,
\* so nothing but the mempool's lock keeps two of them apart.
LedgerIsReplay ==
  ~WriteHeld(locks["mempool"]) =>
    Ledger = Replayed /\ executed = Results(transactions)

\* What confirming a transaction adds to the accounts: nothing, unless the sum
\* of its outputs wraps.
Created(tx) == Total(tx.outputs) - TotalOutput(tx)

CreatedBy(done) == IF done.status = "Confirmed" THEN Created(done.tx) ELSE 0

Executing == {t \in Tasks : pc[t] \in InExecution}

\* An execution credits the outputs first and debits the sender last.
Ahead(call) == IF call.status = "Confirmed" THEN Created(call.tx)
               ELSE PaidByFirst(call.tx.outputs, call.paid)

Balances == SumFunction([a \in DOMAIN accounts |-> accounts[a].balance])

CreatedIn(records) ==
  SumFunction([i \in 1..Len(records) |-> CreatedBy(records[i])])

\* The accounts never hold more than the wrapped sums created, but for what
\* the one execution under way has credited ahead of its debit: nothing else
\* brings money into the engine.
MoneyFromWrapsOnly ==
  Balances <=
    CreatedIn(transactions) + SumFunction([t \in Executing |-> Ahead(arg[t])])

KeepsUtxos == {"add_index"}
KeepsIndex == {"list_utxos"}
KeepsMempool == InExecution \cup {"exe_executed"}
\* Calls wait for each other in a circle only when an execution meets a
\* report of the engine, or an addition a listing of an address's outputs.
DeadlockShape ==
  \A D \in SUBSET Tasks :
    Stuck(D) =>
      \/ \E t, u \in D : pc[t] \in KeepsMempool /\ pc[u] \in KeepsForStats
      \/ \E t, u \in D : pc[t] \in KeepsUtxos /\ pc[u] \in KeepsIndex
=============================================================================
