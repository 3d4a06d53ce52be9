----------------------- MODULE TransactionEngineProofs -----------------------
(***************************************************************************)
(* Theorems about the transaction engine and its set of outputs, for any   *)
(* number of tasks, outputs, addresses and any amounts.                    *)
(***************************************************************************)
EXTENDS TransactionEngine, LockedTasksProofs, SequenceTheorems

-----------------------------------------------------------------------------
(* The locks.                                                              *)

GuardsHeld == LockInv(Locks, Points, Wants, HeldAt)

\* A task between two calls has no guard and waits for none.
LEMMA IdleHoldsNothing ==
  /\ "idle" \in Points
  /\ \A l \in Locks : Wants["idle"][l] = "none"
  /\ HeldAt["idle"] = {}
BY DEF Points, UtxoPoints, SubmitPoints, InExecution, KeepsForStats, Locks,
   EngineLocks, UtxoLocks, Wants, Writes, Reads, HeldAt

\* Starting a call of the engine asks for the first lock.
LEMMA BeginEngineKeepsLocks ==
  ASSUME GuardsHeld, NEW t \in Tasks, BeginEngine(t)
  PROVE  GuardsHeld'
<1> USE DEF GuardsHeld
<1>1. CASE \E tx \in Catalogue : SubmitTransaction(t, tx)
  <2>1. Asks(Locks, Points, Wants, HeldAt, "idle", {},
             "sub_account", "accounts", "write")
    BY DEF Asks, Points, UtxoPoints, SubmitPoints, InExecution, KeepsForStats,
       Locks, EngineLocks, UtxoLocks, Wants, Writes, Reads, HeldAt
  <2>2. \E v : Enter(t, v, "sub_account", "accounts", "write")
    BY <1>1 DEF SubmitTransaction, Call
  <2>3. QED
    BY <2>1, <2>2, EnterKeepsLocks
<1>2. CASE \E tx \in Catalogue : ExecuteTransaction(t, tx.hash)
  <2>1. Asks(Locks, Points, Wants, HeldAt, "idle", {},
             "exe_mempool", "mempool", "write")
    BY DEF Asks, Points, UtxoPoints, SubmitPoints, InExecution, KeepsForStats,
       Locks, EngineLocks, UtxoLocks, Wants, Writes, Reads, HeldAt
  <2>2. \E v : Enter(t, v, "exe_mempool", "mempool", "write")
    BY <1>2 DEF ExecuteTransaction, Call
  <2>3. QED
    BY <2>1, <2>2, EnterKeepsLocks
<1>3. CASE \E a \in Addresses : GetAccount(t, a)
  <2>1. Asks(Locks, Points, Wants, HeldAt, "idle", {},
             "get_account", "accounts", "write")
    BY DEF Asks, Points, UtxoPoints, SubmitPoints, InExecution, KeepsForStats,
       Locks, EngineLocks, UtxoLocks, Wants, Writes, Reads, HeldAt
  <2>2. \E v : Enter(t, v, "get_account", "accounts", "write")
    BY <1>3 DEF GetAccount, Call
  <2>3. QED
    BY <2>1, <2>2, EnterKeepsLocks
<1>4. CASE GetStats(t)
  <2>1. Asks(Locks, Points, Wants, HeldAt, "idle", {},
             "stats_accounts", "accounts", "read")
    BY DEF Asks, Points, UtxoPoints, SubmitPoints, InExecution, KeepsForStats,
       Locks, EngineLocks, UtxoLocks, Wants, Writes, Reads, HeldAt
  <2>2. \E v : Enter(t, v, "stats_accounts", "accounts", "read")
    BY <1>4 DEF GetStats, Call
  <2>3. QED
    BY <2>1, <2>2, EnterKeepsLocks
<1>5. QED
  BY <1>1, <1>2, <1>3, <1>4 DEF BeginEngine

\* So does starting a call about outputs.
LEMMA BeginUtxoKeepsLocks ==
  ASSUME GuardsHeld, NEW t \in Tasks, NEW ops, BeginUtxo(t, ops)
  PROVE  GuardsHeld'
<1> USE DEF GuardsHeld
<1>1. CASE \E key \in Outputs, recipient \in Addresses, amount \in Amounts :
             AddUtxo(t, key, recipient, amount)
  <2>1. Asks(Locks, Points, Wants, HeldAt, "idle", {},
             "add_utxos", "utxos", "write")
    BY DEF Asks, Points, UtxoPoints, SubmitPoints, InExecution, KeepsForStats,
       Locks, EngineLocks, UtxoLocks, Wants, Writes, Reads, HeldAt
  <2>2. \E v : Enter(t, v, "add_utxos", "utxos", "write")
    BY <1>1 DEF AddUtxo, CallUtxos
  <2>3. QED
    BY <2>1, <2>2, EnterKeepsLocks
<1>2. CASE \E key \in Outputs : SpendUtxo(t, key)
  <2>1. Asks(Locks, Points, Wants, HeldAt, "idle", {},
             "spend_utxos", "utxos", "write")
    BY DEF Asks, Points, UtxoPoints, SubmitPoints, InExecution, KeepsForStats,
       Locks, EngineLocks, UtxoLocks, Wants, Writes, Reads, HeldAt
  <2>2. \E v : Enter(t, v, "spend_utxos", "utxos", "write")
    BY <1>2 DEF SpendUtxo, CallUtxos
  <2>3. QED
    BY <2>1, <2>2, EnterKeepsLocks
<1>3. CASE \E a \in Addresses : GetAddressUtxos(t, a)
  <2>1. Asks(Locks, Points, Wants, HeldAt, "idle", {},
             "list_index", "address_utxos", "read")
    BY DEF Asks, Points, UtxoPoints, SubmitPoints, InExecution, KeepsForStats,
       Locks, EngineLocks, UtxoLocks, Wants, Writes, Reads, HeldAt
  <2>2. \E v : Enter(t, v, "list_index", "address_utxos", "read")
    BY <1>3 DEF GetAddressUtxos, CallUtxos
  <2>3. QED
    BY <2>1, <2>2, EnterKeepsLocks
<1>4. CASE \E tx \in Catalogue : ValidateWithUtxoSet(t, tx)
  <2>1. Asks(Locks, Points, Wants, HeldAt, "idle", {},
             "val_utxos", "utxos", "read")
    BY DEF Asks, Points, UtxoPoints, SubmitPoints, InExecution, KeepsForStats,
       Locks, EngineLocks, UtxoLocks, Wants, Writes, Reads, HeldAt
  <2>2. \E v : Enter(t, v, "val_utxos", "utxos", "read")
    BY <1>4 DEF ValidateWithUtxoSet, CallUtxos
  <2>3. QED
    BY <2>1, <2>2, EnterKeepsLocks
<1>5. QED
  BY <1>1, <1>2, <1>3, <1>4 DEF BeginUtxo

\* Every later segment of a call about outputs has the guards it runs under
\* and asks for the next lock, drops one, or returns.
LEMMA ContinueUtxoKeepsLocks ==
  ASSUME GuardsHeld, NEW t \in Tasks, ContinueUtxo(t)
  PROVE  GuardsHeld'
<1> USE DEF GuardsHeld
<1>1. CASE AddInsert(t)
  <2>1. Asks(Locks, Points, Wants, HeldAt, "add_utxos", {"utxos"},
             "add_index", "address_utxos", "write")
    BY DEF Asks, Points, UtxoPoints, SubmitPoints, InExecution, KeepsForStats,
       Locks, EngineLocks, UtxoLocks, Wants, Writes, Reads, HeldAt
  <2>2. /\ pc[t] = "add_utxos" /\ Holds(locks["utxos"], t)
        /\ Await(t, "add_index", "address_utxos", "write")
    BY <1>1 DEF AddInsert, Reached
  <2>3. QED
    BY <2>1, <2>2, AsksKeepsLocks
<1>2. CASE ListIndex(t)
  <2>1. Asks(Locks, Points, Wants, HeldAt, "list_index", {"address_utxos"},
             "list_utxos", "utxos", "read")
    BY DEF Asks, Points, UtxoPoints, SubmitPoints, InExecution, KeepsForStats,
       Locks, EngineLocks, UtxoLocks, Wants, Writes, Reads, HeldAt
  <2>2. /\ pc[t] = "list_index" /\ Holds(locks["address_utxos"], t)
        /\ Await(t, "list_utxos", "utxos", "read")
    BY <1>2 DEF ListIndex, Reached
  <2>3. QED
    BY <2>1, <2>2, AsksKeepsLocks
<1>3. CASE ValidateInput(t)
  <2>1. Drops(Locks, Points, Wants, HeldAt, "val_utxos", {"utxos"},
              "utxos", "val_seen")
    BY DEF Drops, Points, UtxoPoints, SubmitPoints, InExecution, KeepsForStats,
       Locks, EngineLocks, UtxoLocks, Wants, Writes, Reads, HeldAt
  <2>2. /\ pc[t] = "val_utxos" /\ Holds(locks["utxos"], t)
        /\ Drop(t, "utxos", "val_seen")
    BY <1>3 DEF ValidateInput, Reached
  <2>3. QED
    BY <2>1, <2>2, DropsKeepsLocks
<1>4. CASE ValidateNext(t)
  <2>1. Asks(Locks, Points, Wants, HeldAt, "val_seen", {},
             "val_utxos", "utxos", "read")
    BY DEF Asks, Points, UtxoPoints, SubmitPoints, InExecution, KeepsForStats,
       Locks, EngineLocks, UtxoLocks, Wants, Writes, Reads, HeldAt
  <2>2. /\ pc[t] = "val_seen"
        /\ Await(t, "val_utxos", "utxos", "read")
    BY <1>4 DEF ValidateNext
  <2>3. QED
    BY <2>1, <2>2, AsksKeepsLocks
<1>5. CASE \/ AddIndex(t) \/ SpendMark(t) \/ SpendRefused(t) \/ ListReport(t)
           \/ ValidateRefused(t) \/ ValidateAnswer(t)
  BY <1>5, ReturnKeepsLocks, IdleHoldsNothing
     DEF AddIndex, SpendMark, SpendRefused, ListReport, ValidateRefused,
         ValidateAnswer
<1>6. QED
  BY <1>1, <1>2, <1>3, <1>4, <1>5 DEF ContinueUtxo

\* And so does every later segment of a call of the engine.
LEMMA ContinueEngineKeepsLocks ==
  ASSUME GuardsHeld, NEW t \in Tasks, ContinueEngine(t)
  PROVE  GuardsHeld'
<1> USE DEF GuardsHeld
<1>1. CASE SubmitAccount(t)
  <2>1. Drops(Locks, Points, Wants, HeldAt, "sub_account", {"accounts"},
              "accounts", "sub_covered")
    BY DEF Drops, Points, UtxoPoints, SubmitPoints, InExecution, KeepsForStats,
       Locks, EngineLocks, UtxoLocks, Wants, Writes, Reads, HeldAt
  <2>2. /\ pc[t] = "sub_account" /\ Holds(locks["accounts"], t)
        /\ Drop(t, "accounts", "sub_covered")
    BY <1>1 DEF SubmitAccount, Reached
  <2>3. QED
    BY <2>1, <2>2, DropsKeepsLocks
<1>2. CASE SubmitAsk(t)
  <2>1. Asks(Locks, Points, Wants, HeldAt, "sub_covered", {},
             "sub_mempool", "mempool", "write")
    BY DEF Asks, Points, UtxoPoints, SubmitPoints, InExecution, KeepsForStats,
       Locks, EngineLocks, UtxoLocks, Wants, Writes, Reads, HeldAt
  <2>2. /\ pc[t] = "sub_covered"
        /\ Await(t, "sub_mempool", "mempool", "write")
    BY <1>2 DEF SubmitAsk
  <2>3. QED
    BY <2>1, <2>2, AsksKeepsLocks
<1>3. CASE ExecuteTake(t)
  <2>1. Asks(Locks, Points, Wants, HeldAt, "exe_mempool", {"mempool"},
             "exe_sender", "accounts", "write")
    BY DEF Asks, Points, UtxoPoints, SubmitPoints, InExecution, KeepsForStats,
       Locks, EngineLocks, UtxoLocks, Wants, Writes, Reads, HeldAt
  <2>2. /\ pc[t] = "exe_mempool" /\ Holds(locks["mempool"], t)
        /\ Await(t, "exe_sender", "accounts", "write")
    BY <1>3 DEF ExecuteTake, Reached
  <2>3. QED
    BY <2>1, <2>2, AsksKeepsLocks
<1>4. CASE ExecuteSender(t)
  <2>1. Drops(Locks, Points, Wants, HeldAt, "exe_sender", {"accounts"},
              "accounts", "exe_outputs")
    BY DEF Drops, Points, UtxoPoints, SubmitPoints, InExecution, KeepsForStats,
       Locks, EngineLocks, UtxoLocks, Wants, Writes, Reads, HeldAt
  <2>2. /\ pc[t] = "exe_sender" /\ Holds(locks["accounts"], t)
        /\ Drop(t, "accounts", "exe_outputs")
    BY <1>4 DEF ExecuteSender, Reached
  <2>3. QED
    BY <2>1, <2>2, DropsKeepsLocks
<1>5. CASE ExecuteSenderPoor(t)
  <2>1. Drops(Locks, Points, Wants, HeldAt, "exe_sender", {"accounts"},
              "accounts", "exe_done")
    BY DEF Drops, Points, UtxoPoints, SubmitPoints, InExecution, KeepsForStats,
       Locks, EngineLocks, UtxoLocks, Wants, Writes, Reads, HeldAt
  <2>2. /\ pc[t] = "exe_sender" /\ Holds(locks["accounts"], t)
        /\ Drop(t, "accounts", "exe_done")
    BY <1>5 DEF ExecuteSenderPoor, Reached
  <2>3. QED
    BY <2>1, <2>2, DropsKeepsLocks
<1>6. CASE ExecuteNextOutput(t)
  <2>1. Asks(Locks, Points, Wants, HeldAt, "exe_outputs", {},
             "exe_recipient", "accounts", "write")
    BY DEF Asks, Points, UtxoPoints, SubmitPoints, InExecution, KeepsForStats,
       Locks, EngineLocks, UtxoLocks, Wants, Writes, Reads, HeldAt
  <2>2. /\ pc[t] = "exe_outputs"
        /\ Await(t, "exe_recipient", "accounts", "write")
    BY <1>6 DEF ExecuteNextOutput
  <2>3. QED
    BY <2>1, <2>2, AsksKeepsLocks
<1>7. CASE ExecuteRecipient(t)
  <2>1. Drops(Locks, Points, Wants, HeldAt, "exe_recipient", {"accounts"},
              "accounts", "exe_recipient_copied")
    BY DEF Drops, Points, UtxoPoints, SubmitPoints, InExecution, KeepsForStats,
       Locks, EngineLocks, UtxoLocks, Wants, Writes, Reads, HeldAt
  <2>2. /\ pc[t] = "exe_recipient" /\ Holds(locks["accounts"], t)
        /\ Drop(t, "accounts", "exe_recipient_copied")
    BY <1>7 DEF ExecuteRecipient, Reached
  <2>3. QED
    BY <2>1, <2>2, DropsKeepsLocks
<1>8. CASE ExecuteCreditAsk(t)
  <2>1. Asks(Locks, Points, Wants, HeldAt, "exe_recipient_copied", {},
             "exe_credit", "accounts", "write")
    BY DEF Asks, Points, UtxoPoints, SubmitPoints, InExecution, KeepsForStats,
       Locks, EngineLocks, UtxoLocks, Wants, Writes, Reads, HeldAt
  <2>2. /\ pc[t] = "exe_recipient_copied"
        /\ Await(t, "exe_credit", "accounts", "write")
    BY <1>8 DEF ExecuteCreditAsk
  <2>3. QED
    BY <2>1, <2>2, AsksKeepsLocks
<1>9. CASE ExecuteCredit(t)
  <2>1. Drops(Locks, Points, Wants, HeldAt, "exe_credit", {"accounts"},
              "accounts", "exe_outputs")
    BY DEF Drops, Points, UtxoPoints, SubmitPoints, InExecution, KeepsForStats,
       Locks, EngineLocks, UtxoLocks, Wants, Writes, Reads, HeldAt
  <2>2. /\ pc[t] = "exe_credit" /\ Holds(locks["accounts"], t)
        /\ Drop(t, "accounts", "exe_outputs")
    BY <1>9 DEF ExecuteCredit, Reached
  <2>3. QED
    BY <2>1, <2>2, DropsKeepsLocks
<1>10. CASE ExecuteSenderAsk(t)
  <2>1. Asks(Locks, Points, Wants, HeldAt, "exe_outputs", {},
             "exe_debit", "accounts", "write")
    BY DEF Asks, Points, UtxoPoints, SubmitPoints, InExecution, KeepsForStats,
       Locks, EngineLocks, UtxoLocks, Wants, Writes, Reads, HeldAt
  <2>2. /\ pc[t] = "exe_outputs"
        /\ Await(t, "exe_debit", "accounts", "write")
    BY <1>10 DEF ExecuteSenderAsk
  <2>3. QED
    BY <2>1, <2>2, AsksKeepsLocks
<1>11. CASE ExecuteDebit(t)
  <2>1. Drops(Locks, Points, Wants, HeldAt, "exe_debit", {"accounts"},
              "accounts", "exe_done")
    BY DEF Drops, Points, UtxoPoints, SubmitPoints, InExecution, KeepsForStats,
       Locks, EngineLocks, UtxoLocks, Wants, Writes, Reads, HeldAt
  <2>2. /\ pc[t] = "exe_debit" /\ Holds(locks["accounts"], t)
        /\ Drop(t, "accounts", "exe_done")
    BY <1>11 DEF ExecuteDebit, Reached
  <2>3. QED
    BY <2>1, <2>2, DropsKeepsLocks
<1>12. CASE ExecuteDone(t)
  <2>1. Asks(Locks, Points, Wants, HeldAt, "exe_done", {},
             "exe_transactions", "transactions", "write")
    BY DEF Asks, Points, UtxoPoints, SubmitPoints, InExecution, KeepsForStats,
       Locks, EngineLocks, UtxoLocks, Wants, Writes, Reads, HeldAt
  <2>2. /\ pc[t] = "exe_done"
        /\ Await(t, "exe_transactions", "transactions", "write")
    BY <1>12 DEF ExecuteDone
  <2>3. QED
    BY <2>1, <2>2, AsksKeepsLocks
<1>13. CASE ExecuteStore(t)
  <2>1. Asks(Locks, Points, Wants, HeldAt, "exe_transactions", {"transactions"},
             "exe_executed", "executed", "write")
    BY DEF Asks, Points, UtxoPoints, SubmitPoints, InExecution, KeepsForStats,
       Locks, EngineLocks, UtxoLocks, Wants, Writes, Reads, HeldAt
  <2>2. /\ pc[t] = "exe_transactions" /\ Holds(locks["transactions"], t)
        /\ Await(t, "exe_executed", "executed", "write")
    BY <1>13 DEF ExecuteStore, Reached
  <2>3. QED
    BY <2>1, <2>2, AsksKeepsLocks
<1>14. CASE StatsAccounts(t)
  <2>1. Asks(Locks, Points, Wants, HeldAt, "stats_accounts", {"accounts"},
             "stats_transactions", "transactions", "read")
    BY DEF Asks, Points, UtxoPoints, SubmitPoints, InExecution, KeepsForStats,
       Locks, EngineLocks, UtxoLocks, Wants, Writes, Reads, HeldAt
  <2>2. /\ pc[t] = "stats_accounts" /\ Holds(locks["accounts"], t)
        /\ Await(t, "stats_transactions", "transactions", "read")
    BY <1>14 DEF StatsAccounts, StatsLock, Reached
  <2>3. QED
    BY <2>1, <2>2, AsksKeepsLocks
<1>15. CASE StatsTransactions(t)
  <2>1. Asks(Locks, Points, Wants, HeldAt, "stats_transactions", {"transactions"},
             "stats_mempool", "mempool", "read")
    BY DEF Asks, Points, UtxoPoints, SubmitPoints, InExecution, KeepsForStats,
       Locks, EngineLocks, UtxoLocks, Wants, Writes, Reads, HeldAt
  <2>2. /\ pc[t] = "stats_transactions" /\ Holds(locks["transactions"], t)
        /\ Await(t, "stats_mempool", "mempool", "read")
    BY <1>15 DEF StatsTransactions, StatsLock, Reached
  <2>3. QED
    BY <2>1, <2>2, AsksKeepsLocks
<1>16. CASE StatsMempool(t)
  <2>1. Asks(Locks, Points, Wants, HeldAt, "stats_mempool", {"mempool"},
             "stats_executed", "executed", "read")
    BY DEF Asks, Points, UtxoPoints, SubmitPoints, InExecution, KeepsForStats,
       Locks, EngineLocks, UtxoLocks, Wants, Writes, Reads, HeldAt
  <2>2. /\ pc[t] = "stats_mempool" /\ Holds(locks["mempool"], t)
        /\ Await(t, "stats_executed", "executed", "read")
    BY <1>16 DEF StatsMempool, StatsLock, Reached
  <2>3. QED
    BY <2>1, <2>2, AsksKeepsLocks
<1>17. CASE \/ SubmitRefused(t) \/ SubmitPush(t) \/ ExecuteNotFound(t)
            \/ ExecuteResult(t) \/ AccountReport(t) \/ StatsReport(t)
  BY <1>17, ReturnKeepsLocks, IdleHoldsNothing
     DEF SubmitRefused, SubmitPush, ExecuteNotFound, ExecuteResult,
         AccountReport, StatsReport
<1>18. QED
  BY <1>1, <1>2, <1>3, <1>4, <1>5, <1>6, <1>7, <1>8, <1>9, <1>10, <1>11, <1>12,
     <1>13, <1>14, <1>15, <1>16, <1>17 DEF ContinueEngine

\* Each task holds exactly the guards its place in the code implies: the
\* mempool from taking a transaction to recording it, the outputs until the
\* index has been brought up.
THEOREM CallsHoldGuards == Spec => []GuardsHeld
<1>1. Init => GuardsHeld
  BY NoCallsKeepLocks, IdleHoldsNothing DEF Init, GuardsHeld
<1>2. GuardsHeld /\ [Next]_vars => GuardsHeld'
  <2>1. CASE UNCHANGED vars
    BY <2>1, UntouchedLocks DEF vars, taskVars, GuardsHeld
  <2>2. CASE Next
    BY <2>2, BeginEngineKeepsLocks, BeginUtxoKeepsLocks,
       ContinueEngineKeepsLocks, ContinueUtxoKeepsLocks DEF Next
  <2>3. QED
    BY <2>1, <2>2
<1>3. QED
  BY <1>1, <1>2, PTL DEF Spec

\* Executions exclude each other: one keeps the mempool from taking its
\* transaction to recording it, so whatever it does to the accounts, locked
\* anew each time, it does alone.
THEOREM OneExecutionHolds == Spec => []OneExecution
<1>1. GuardsHeld => OneExecution
  <2>1. SUFFICES ASSUME GuardsHeld, NEW t \in Tasks, NEW u \in Tasks,
                        pc[t] \in InExecution, pc[u] \in InExecution
                 PROVE  t = u
    BY DEF OneExecution
  <2>2. \A p \in InExecution : /\ p \in Points /\ "mempool" \in Locks
                              /\ HeldAt[p] = {"mempool"}
                              /\ Wants[p]["mempool"] = "write"
    BY DEF Points, InExecution, Locks, EngineLocks, Wants, Writes, HeldAt
  <2>3. Holds(locks["mempool"], t) /\ Holds(locks["mempool"], u)
    BY <2>1, <2>2 DEF GuardsHeld, LockInv, LockDiscipline
  <2>4. QED
    BY <2>1, <2>2, <2>3, OneHolder DEF GuardsHeld
<1>2. QED
  BY <1>1, CallsHoldGuards, PTL

-----------------------------------------------------------------------------
(* Type correctness.                                                       *)

AccountsTyped ==
  DOMAIN accounts \subseteq Addresses /\ accounts \in [DOMAIN accounts -> Account]

EngineTypes ==
  /\ AccountsTyped
  /\ mempool \in Seq(Catalogue)
  /\ transactions \in Seq([tx : Catalogue, status : Statuses])
  /\ executed \in Seq([tx_hash : {tx.hash : tx \in Catalogue},
                        status : Statuses])

UtxoTypes ==
  /\ DOMAIN utxos \subseteq Outputs
  /\ utxos \in [DOMAIN utxos -> Entry]
  /\ DOMAIN address_utxos \subseteq Addresses
  /\ address_utxos \in [DOMAIN address_utxos -> Seq(Outputs)]
  /\ added \in Seq(Outputs)

ArgTypes ==
  /\ pc \in [Tasks -> Points] /\ DOMAIN arg = Tasks
  /\ \A t \in Tasks : arg[t] \in ArgOf(pc[t])

LEMMA TypesSplit == TypeOK <=> EngineTypes /\ UtxoTypes /\ GuardsHeld /\ ArgTypes
BY DEF TypeOK, EngineTypes, AccountsTyped, UtxoTypes, GuardsHeld, LockInv, ArgTypes

\* What an execution carries between taking its transaction and recording it.
LEMMA ExecutionArgs ==
  /\ \A p \in InExecution \cup {"exe_executed"} : ArgOf(p) \subseteq Execution
  /\ \A p \in Crediting : ArgOf(p) = {e \in Execution : e.paid < Len(e.tx.outputs)}
  /\ \A p \in (InExecution \ Crediting) \cup {"exe_executed"} :
       ArgOf(p) = Execution
BY DEF ArgOf, InExecution, Crediting, SubmitPoints

\* What the other calls carry.
LEMMA ArgShapes ==
  /\ ArgOf("idle") = {None}
  /\ \A p \in {"add_utxos", "add_index"} :
       ArgOf(p) = [key : Outputs, recipient : Addresses, amount : Amounts]
  /\ ArgOf("spend_utxos") = [key : Outputs]
  /\ \A p \in {"list_index", "list_utxos"} : ArgOf(p) = [address : Addresses]
  /\ \A p \in {"val_utxos", "val_seen"} :
       ArgOf(p) = Validation
  /\ \A p \in SubmitPoints : ArgOf(p) = [tx : Catalogue]
  /\ ArgOf("exe_mempool") = [hash : {tx.hash : tx \in Catalogue}]
  /\ ArgOf("get_account") = [address : Addresses]
  /\ \A p \in {"stats_accounts"} \cup KeepsForStats : ArgOf(p) = {None}
BY DEF ArgOf, SubmitPoints, InExecution, Crediting, KeepsForStats

\* What the first outputs pay is a number, and one output more adds its amount.
LEMMA PaidGrows ==
  ASSUME NEW tx \in Catalogue
  PROVE  /\ PaidByFirst(tx.outputs, 0) = 0
         /\ \A n \in 0..Len(tx.outputs) : PaidByFirst(tx.outputs, n) \in Nat
         /\ \A n \in 1..Len(tx.outputs) :
              PaidByFirst(tx.outputs, n)
                = PaidByFirst(tx.outputs, n - 1) + tx.outputs[n].amount
<1> DEFINE size == Len(tx.outputs)
           paid == [i \in 1..size |-> tx.outputs[i].amount]
<1>1. size \in Nat /\ \A i \in 1..size : paid[i] \in Nat
  <2>1. tx.outputs \in Seq([recipient : Addresses, amount : Money])
    BY CatalogueAssumption
  <2>2. size \in Nat
    BY <2>1
  <2>3. ASSUME NEW i \in 1..size
        PROVE  paid[i] \in Nat
    <3>1. tx.outputs[i] \in [recipient : Addresses, amount : Money]
      BY <2>1, ElementOfSeq
    <3>2. QED
      BY <3>1, AmountAssumption DEF Money
  <2>4. QED
    BY <2>2, <2>3
<1>2. \A n : PaidByFirst(tx.outputs, n) = SumFunctionOnSet(paid, 1..n)
  BY DEF PaidByFirst
<1>3. \A n \in Nat : IsFiniteSet(1..n)
  BY FS_Interval
<1> HIDE DEF size, paid
<1>4. SumFunctionOnSet(paid, 1..0) = 0
  <2>1. 1..0 = {} /\ IsFiniteSet(1..0)
    BY <1>3
  <2>2. QED
    BY <2>1, SumUnfolds
<1>5. ASSUME NEW n \in 0..size PROVE SumFunctionOnSet(paid, 1..n) \in Nat
  <2>1. IsFiniteSet(1..n) /\ \A i \in 1..n : paid[i] \in Nat
    BY <1>1, <1>3
  <2>2. QED
    BY <2>1, SumIsNat
<1>6. ASSUME NEW n \in 1..size
      PROVE  SumFunctionOnSet(paid, 1..n)
               = SumFunctionOnSet(paid, 1..(n - 1)) + paid[n]
  <2> DEFINE before == 1..(n - 1)
  <2>1. IsFiniteSet(before) /\ n \notin before /\ before \cup {n} = 1..n
    BY <1>1, <1>3
  <2>2. \A i \in before \cup {n} : paid[i] \in Nat
    BY <1>1, <2>1
  <2>3. \A i \in before : paid[i] = paid[i]
    OBVIOUS
  <2> HIDE DEF before
  <2>4. SumFunctionOnSet(paid, before \cup {n})
          = SumFunctionOnSet(paid, before) + paid[n]
    BY <2>1, <2>2, <2>3, SumAdd, Zenon
  <2>5. QED
    BY <2>1, <2>4 DEF before
<1>7. QED
  BY <1>2, <1>4, <1>5, <1>6 DEF size, paid

LEMMA AmountsTyped ==
  /\ \A x, y \in Money : Plus(x, y) \in Money
  /\ \A tx \in Catalogue : Needed(tx) \in Money
  /\ Money \subseteq Nat
<1>1. Word \in Nat \ {0} /\ Money \subseteq Nat
  BY AmountAssumption DEF Money
<1>2. ASSUME NEW x \in Money, NEW y \in Money
      PROVE  Plus(x, y) \in Money
  BY <1>1 DEF Plus, Saturated, Money
<1>3. ASSUME NEW tx \in Catalogue
      PROVE  Needed(tx) \in Money
  <2>1. Total(tx.outputs) \in Nat /\ tx.fee \in Money
    <3>1. tx.outputs \in Seq([recipient : Addresses, amount : Money])
      BY CatalogueAssumption
    <3>2. Len(tx.outputs) \in Nat
      BY <3>1
    <3>3. QED
      BY <3>2, PaidGrows, CatalogueAssumption DEF Total
  <2>2. TotalOutput(tx) \in Money
    BY <1>1, <2>1 DEF TotalOutput, Wrapped, Money
  <2>3. QED
    BY <1>2, <2>1, <2>2 DEF Needed
<1>4. QED
  BY <1>1, <1>2, <1>3

\* An account is opened empty.
LEMMA AccountOfTyped ==
  ASSUME AccountsTyped, NEW a
  PROVE  AccountOf(a) \in Account
<1>1. NewAccount \in Account
  BY AmountAssumption DEF NewAccount, Account, Money
<1>2. QED
  BY <1>1 DEF AccountOf, AccountsTyped

\* Opening an account and storing one keep the accounts typed.
LEMMA StoreTyped ==
  ASSUME AccountsTyped, NEW a \in Addresses, NEW account \in Account,
         Store(a, account) \/ GetOrCreateAccount(a)
  PROVE  AccountsTyped'
<1>1. CASE Store(a, account)
  BY <1>1 DEF Store, AccountsTyped
<1>2. CASE GetOrCreateAccount(a)
  BY <1>2, AccountOfTyped DEF GetOrCreateAccount, AccountsTyped
<1>3. QED
  BY <1>1, <1>2

\* Opening an account alone.
LEMMA OpenTyped ==
  ASSUME AccountsTyped, NEW a \in Addresses, GetOrCreateAccount(a)
  PROVE  AccountsTyped'
BY AccountOfTyped, StoreTyped

\* One task moves at a time.
LEMMA OthersStay ==
  ASSUME pc \in [Tasks -> Points], DOMAIN arg = Tasks, NEW t \in Tasks,
         \/ BeginEngine(t) \/ ContinueEngine(t)
         \/ BeginUtxo(t, workload[t]) \/ ContinueUtxo(t)
  PROVE  /\ DOMAIN arg' = Tasks
         /\ \A u \in Tasks \ {t} : pc'[u] = pc[u] /\ arg'[u] = arg[u]
<1>1. CASE BeginEngine(t)
  BY <1>1 DEF BeginEngine, SubmitTransaction, ExecuteTransaction, GetAccount,
     GetStats, Call, Enter
<1>2. CASE BeginUtxo(t, workload[t])
  BY <1>2 DEF BeginUtxo, AddUtxo, SpendUtxo, GetAddressUtxos,
     ValidateWithUtxoSet, CallUtxos, Enter
<1>3. CASE ContinueUtxo(t)
  BY <1>3 DEF ContinueUtxo, AddInsert, AddIndex, SpendMark, SpendRefused,
     ListIndex, ListReport, ValidateInput, ValidateRefused, ValidateNext,
     ValidateAnswer, Await, Drop, Return, Keep
<1>4. CASE ContinueEngine(t)
  <2>1. CASE SubmitAccount(t) \/ SubmitRefused(t) \/ SubmitAsk(t) \/ SubmitPush(t)
    BY <2>1 DEF SubmitAccount, SubmitRefused, SubmitAsk, SubmitPush, Await,
       Drop, Return
  <2>2. CASE ExecuteNotFound(t) \/ ExecuteTake(t) \/ ExecuteSender(t)
             \/ ExecuteSenderPoor(t) \/ ExecuteNextOutput(t)
             \/ ExecuteRecipient(t) \/ ExecuteCreditAsk(t)
    BY <2>2 DEF ExecuteNotFound, ExecuteTake, Take, ExecuteSender,
       ExecuteSenderPoor, ExecuteNextOutput, ExecuteRecipient,
       ExecuteCreditAsk, Await, Drop, Return, Keep
  <2>3. CASE ExecuteCredit(t) \/ ExecuteSenderAsk(t) \/ ExecuteDebit(t)
             \/ ExecuteDone(t) \/ ExecuteStore(t) \/ ExecuteResult(t)
             \/ AccountReport(t)
    BY <2>3 DEF ExecuteCredit, ExecuteSenderAsk, ExecuteDebit, ExecuteDone,
       ExecuteStore, ExecuteResult, AccountReport, Await, Drop, Return, Keep
  <2>4. CASE StatsAccounts(t) \/ StatsTransactions(t) \/ StatsMempool(t)
             \/ StatsReport(t)
    BY <2>4 DEF StatsAccounts, StatsTransactions, StatsMempool, StatsLock,
       StatsReport, Await, Return
  <2>5. QED
    BY <1>4, <2>1, <2>2, <2>3, <2>4 DEF ContinueEngine
<1>5. QED
  BY <1>1, <1>2, <1>3, <1>4

\* A call about outputs keeps them typed and carries what fits its place.
LEMMA UtxoStepTypes ==
  ASSUME UtxoTypes, ArgTypes, NEW t \in Tasks,
         BeginUtxo(t, workload[t]) \/ ContinueUtxo(t)
  PROVE  UtxoTypes' /\ arg'[t] \in ArgOf(pc'[t])
<1>a. pc \in [Tasks -> Points] /\ DOMAIN arg = Tasks /\ arg[t] \in ArgOf(pc[t])
  BY DEF ArgTypes
<1>1. ASSUME UNCHANGED utxoData
      PROVE  UtxoTypes'
  BY <1>1 DEF utxoData, UtxoTypes
<1>2. ASSUME Return(t)
      PROVE  arg'[t] \in ArgOf(pc'[t])
  BY <1>a, <1>2, ArgShapes DEF Return
<1>3. CASE BeginUtxo(t, workload[t])
  <2>1. UNCHANGED utxoData
    BY <1>3 DEF BeginUtxo, AddUtxo, SpendUtxo, GetAddressUtxos,
       ValidateWithUtxoSet, CallUtxos
  <2>2. CASE \E key \in Outputs, recipient \in Addresses, amount \in Amounts :
               AddUtxo(t, key, recipient, amount)
    BY <1>a, <1>1, <2>1, <2>2, ArgShapes DEF AddUtxo, CallUtxos, Enter
  <2>3. CASE \E key \in Outputs : SpendUtxo(t, key)
    BY <1>a, <1>1, <2>1, <2>3, ArgShapes DEF SpendUtxo, CallUtxos, Enter
  <2>4. CASE \E a \in Addresses : GetAddressUtxos(t, a)
    BY <1>a, <1>1, <2>1, <2>4, ArgShapes DEF GetAddressUtxos, CallUtxos, Enter
  <2>5. CASE \E tx \in Catalogue : ValidateWithUtxoSet(t, tx)
    <3>1. PICK tx \in Catalogue : ValidateWithUtxoSet(t, tx)
      BY <2>5
    <3>2. /\ pc'[t] = "val_utxos"
          /\ arg'[t] = [tx |-> tx, seen |-> << >>, since |-> Len(added),
                        before |-> utxos]
      BY <1>a, <3>1 DEF ValidateWithUtxoSet, CallUtxos, Enter
    <3>3. /\ << >> \in Seq(Amounts) /\ Len(added) \in Nat
          /\ utxos \in OutputMaps
      BY EmptySeq DEF UtxoTypes, OutputMaps
    <3>4. arg'[t] \in Validation
      BY <3>2, <3>3 DEF Validation
    <3>5. QED
      BY <1>1, <2>1, <3>2, <3>4, ArgShapes
  <2>6. QED
    BY <1>3, <2>2, <2>3, <2>4, <2>5 DEF BeginUtxo
<1>4. CASE AddInsert(t)
  <2>1. /\ pc[t] = "add_utxos" /\ pc'[t] = "add_index" /\ arg' = arg
        /\ Insert(arg[t]) /\ UNCHANGED address_utxos
    BY <1>a, <1>4 DEF AddInsert, Reached, Await
  <2>2. arg[t] \in [key : Outputs, recipient : Addresses, amount : Amounts]
    BY <1>a, <2>1, ArgShapes
  <2>3. UtxoTypes'
    <3>1. added' \in Seq(Outputs)
      BY <2>1, <2>2, AppendProperties DEF Insert, UtxoTypes
    <3>2. QED
      BY <2>1, <2>2, <3>1 DEF Insert, UtxoTypes, Entry
  <2>4. QED
    BY <2>1, <2>2, <2>3, ArgShapes
<1>5. CASE AddIndex(t)
  <2>1. /\ pc[t] = "add_index" /\ Return(t) /\ UNCHANGED <<utxos, added>>
        /\ address_utxos' =
             [a \in DOMAIN address_utxos \cup {arg[t].recipient} |->
                IF a = arg[t].recipient THEN Append(Listed(a), arg[t].key)
                ELSE address_utxos[a]]
    BY <1>5 DEF AddIndex, Reached
  <2>2. arg[t] \in [key : Outputs, recipient : Addresses, amount : Amounts]
    BY <1>a, <2>1, ArgShapes
  <2>3. \A a : Listed(a) \in Seq(Outputs)
    BY EmptySeq DEF Listed, UtxoTypes
  <2>4. \A a : Append(Listed(a), arg[t].key) \in Seq(Outputs)
    BY <2>2, <2>3, AppendProperties
  <2>5. UtxoTypes'
    BY <2>1, <2>2, <2>4 DEF UtxoTypes
  <2>6. QED
    BY <1>2, <2>1, <2>5
<1>6. CASE SpendMark(t)
  <2>1. /\ Return(t) /\ UNCHANGED <<address_utxos, added>>
        /\ arg[t].key \in DOMAIN utxos
        /\ utxos' = [utxos EXCEPT ![arg[t].key].spent = TRUE]
    BY <1>6 DEF SpendMark, Unspent
  <2>2. utxos[arg[t].key] \in Entry
    BY <2>1 DEF UtxoTypes
  <2>3. [utxos[arg[t].key] EXCEPT !.spent = TRUE] \in Entry
    BY <2>2 DEF Entry
  <2>4. /\ DOMAIN utxos' = DOMAIN utxos
        /\ utxos' \in [DOMAIN utxos -> Entry]
    BY <2>1, <2>3 DEF UtxoTypes
  <2>5. UtxoTypes'
    BY <2>1, <2>4 DEF UtxoTypes
  <2>6. QED
    BY <1>2, <2>1, <2>5
<1>7. CASE ListIndex(t)
  <2>1. /\ pc[t] = "list_index" /\ pc'[t] = "list_utxos" /\ arg' = arg
        /\ UNCHANGED utxoData
    BY <1>a, <1>7 DEF ListIndex, Reached, Await
  <2>2. QED
    BY <1>a, <1>1, <2>1, ArgShapes
<1>8. CASE ValidateInput(t)
  <2>1. /\ pc[t] = "val_utxos" /\ pc'[t] = "val_seen" /\ UNCHANGED utxoData
        /\ NextInput(arg[t]).key \in DOMAIN utxos
        /\ arg'[t] = [arg[t] EXCEPT
             !.seen = Append(@, utxos[NextInput(arg[t]).key].amount)]
    BY <1>a, <1>8 DEF ValidateInput, ValidInput, Unspent, Reached, Drop, Keep
  <2>2. arg[t] \in Validation
    BY <1>a, <2>1, ArgShapes
  <2>3. utxos[NextInput(arg[t]).key].amount \in Amounts
    BY <2>1 DEF UtxoTypes, Entry
  <2>4. Append(arg[t].seen, utxos[NextInput(arg[t]).key].amount) \in Seq(Amounts)
    BY <2>2, <2>3, AppendProperties DEF Validation
  <2>5. arg'[t] \in Validation
    BY <2>1, <2>2, <2>4 DEF Validation
  <2>6. QED
    BY <1>1, <2>1, <2>5, ArgShapes
<1>9. CASE ValidateNext(t)
  <2>1. /\ pc[t] = "val_seen" /\ pc'[t] = "val_utxos" /\ arg' = arg
        /\ UNCHANGED utxoData
    BY <1>a, <1>9 DEF ValidateNext, Await
  <2>2. QED
    BY <1>a, <1>1, <2>1, ArgShapes
<1>10. CASE SpendRefused(t) \/ ListReport(t) \/ ValidateRefused(t)
            \/ ValidateAnswer(t)
  BY <1>1, <1>2, <1>10 DEF SpendRefused, ListReport, ValidateRefused,
     ValidateAnswer
<1>11. QED
  BY <1>3, <1>4, <1>5, <1>6, <1>7, <1>8, <1>9, <1>10 DEF ContinueUtxo

\* Submitting, reporting and starting keep the engine typed.
LEMMA OtherEngineStepTypes ==
  ASSUME EngineTypes, ArgTypes, NEW t \in Tasks,
         \/ BeginEngine(t) \/ SubmitAccount(t) \/ SubmitRefused(t)
         \/ SubmitAsk(t) \/ SubmitPush(t) \/ AccountReport(t)
         \/ StatsAccounts(t) \/ StatsTransactions(t) \/ StatsMempool(t)
         \/ StatsReport(t) \/ ExecuteNotFound(t)
  PROVE  EngineTypes' /\ arg'[t] \in ArgOf(pc'[t])
<1>a. pc \in [Tasks -> Points] /\ DOMAIN arg = Tasks /\ arg[t] \in ArgOf(pc[t])
  BY DEF ArgTypes
<1>1. ASSUME UNCHANGED engineData
      PROVE  EngineTypes'
  BY <1>1 DEF engineData, EngineTypes, AccountsTyped
<1>2. ASSUME Return(t)
      PROVE  arg'[t] \in ArgOf(pc'[t])
  BY <1>a, <1>2, ArgShapes DEF Return
<1>3. CASE BeginEngine(t)
  <2>1. UNCHANGED engineData
    BY <1>3 DEF BeginEngine, SubmitTransaction, ExecuteTransaction, GetAccount,
       GetStats, Call
  <2>2. CASE \E tx \in Catalogue : SubmitTransaction(t, tx)
    BY <1>a, <1>1, <2>1, <2>2, ArgShapes DEF SubmitTransaction, Call, Enter,
       SubmitPoints
  <2>3. CASE \E tx \in Catalogue : ExecuteTransaction(t, tx.hash)
    <3>1. PICK tx \in Catalogue : ExecuteTransaction(t, tx.hash)
      BY <2>3
    <3>2. pc'[t] = "exe_mempool" /\ arg'[t] = [hash |-> tx.hash]
      BY <1>a, <3>1 DEF ExecuteTransaction, Call, Enter
    <3>3. arg'[t] \in [hash : {x.hash : x \in Catalogue}]
      BY <3>2
    <3>4. QED
      BY <1>1, <2>1, <3>2, <3>3, ArgShapes
  <2>4. CASE \E a \in Addresses : GetAccount(t, a)
    BY <1>a, <1>1, <2>1, <2>4, ArgShapes DEF GetAccount, Call, Enter
  <2>5. CASE GetStats(t)
    BY <1>a, <1>1, <2>1, <2>5, ArgShapes DEF GetStats, Call, Enter
  <2>6. QED
    BY <1>3, <2>2, <2>3, <2>4, <2>5 DEF BeginEngine
<1>4. CASE SubmitAccount(t) \/ SubmitRefused(t)
  <2>1. /\ pc[t] = "sub_account" /\ GetOrCreateAccount(arg[t].tx.sender)
        /\ UNCHANGED <<mempool, transactions, executed>>
        /\ (pc'[t] = "sub_covered" /\ arg' = arg) \/ Return(t)
    BY <1>a, <1>4 DEF SubmitAccount, SubmitRefused, Reached, Drop
  <2>2. arg[t] \in [tx : Catalogue]
    BY <1>a, <2>1, ArgShapes DEF SubmitPoints
  <2>3. EngineTypes'
    BY <2>1, <2>2, OpenTyped, CatalogueAssumption DEF EngineTypes
  <2>4. QED
    BY <1>2, <2>1, <2>2, <2>3, ArgShapes DEF SubmitPoints
<1>5. CASE SubmitAsk(t)
  <2>1. /\ pc[t] = "sub_covered" /\ pc'[t] = "sub_mempool" /\ arg' = arg
        /\ UNCHANGED engineData
    BY <1>a, <1>5 DEF SubmitAsk, Await
  <2>2. QED
    BY <1>a, <1>1, <2>1, ArgShapes DEF SubmitPoints
<1>6. CASE SubmitPush(t)
  <2>1. /\ pc[t] = "sub_mempool" /\ Return(t)
        /\ mempool' = Append(mempool, arg[t].tx)
        /\ UNCHANGED <<accounts, transactions, executed>>
    BY <1>6 DEF SubmitPush, Reached
  <2>2. arg[t] \in [tx : Catalogue]
    BY <1>a, <2>1, ArgShapes DEF SubmitPoints
  <2>3. mempool' \in Seq(Catalogue)
    BY <2>1, <2>2, AppendProperties DEF EngineTypes
  <2>4. QED
    BY <1>2, <2>1, <2>3 DEF EngineTypes, AccountsTyped
<1>7. CASE AccountReport(t)
  <2>1. /\ pc[t] = "get_account" /\ GetOrCreateAccount(arg[t].address)
        /\ Return(t) /\ UNCHANGED <<mempool, transactions, executed>>
    BY <1>7 DEF AccountReport, Reached
  <2>2. arg[t] \in [address : Addresses]
    BY <1>a, <2>1, ArgShapes
  <2>3. EngineTypes'
    BY <2>1, <2>2, OpenTyped DEF EngineTypes
  <2>4. QED
    BY <1>2, <2>1, <2>3
<1>8. CASE StatsAccounts(t) \/ StatsTransactions(t) \/ StatsMempool(t)
  <2>1. /\ pc[t] \in {"stats_accounts"} \cup KeepsForStats
        /\ pc'[t] \in KeepsForStats /\ arg' = arg /\ UNCHANGED engineData
    BY <1>a, <1>8 DEF StatsAccounts, StatsTransactions, StatsMempool, StatsLock,
       Reached, Await, KeepsForStats
  <2>2. QED
    BY <1>a, <1>1, <2>1, ArgShapes
<1>9. CASE StatsReport(t) \/ ExecuteNotFound(t)
  BY <1>1, <1>2, <1>9 DEF StatsReport, ExecuteNotFound
<1>10. QED
  BY <1>3, <1>4, <1>5, <1>6, <1>7, <1>8, <1>9

\* Taking a transaction out of the mempool leaves a mempool.
LEMMA TakenTyped ==
  ASSUME mempool \in Seq(Catalogue), NEW i \in 1..Len(mempool)
  PROVE  RemoveAt(mempool, i) \in Seq(Catalogue) /\ mempool[i] \in Catalogue
<1>1. /\ SubSeq(mempool, 1, i - 1) \in Seq(Catalogue)
      /\ SubSeq(mempool, i + 1, Len(mempool)) \in Seq(Catalogue)
  BY SubSeqProperties
<1>2. QED
  BY <1>1, ConcatProperties DEF RemoveAt

\* The output an execution is at pays an address an amount.
LEMMA OutputTyped ==
  ASSUME NEW call \in Execution, call.paid < Len(call.tx.outputs)
  PROVE  Output(call) \in [recipient : Addresses, amount : Money]
<1>1. call.tx \in Catalogue /\ call.paid \in Nat
  BY DEF Execution
<1>2. call.tx.outputs \in Seq([recipient : Addresses, amount : Money])
  BY <1>1, CatalogueAssumption
<1>3. call.paid + 1 \in 1..Len(call.tx.outputs)
  BY <1>1, <1>2
<1>4. call.tx.outputs[call.paid + 1] \in [recipient : Addresses, amount : Money]
  BY <1>2, <1>3, ElementOfSeq
<1>5. QED
  BY <1>4 DEF Output

\* An account that can afford a transaction stays an account.
LEMMA DebitedTyped ==
  ASSUME NEW account \in Account, NEW tx \in Catalogue,
         account.balance >= Needed(tx)
  PROVE  Debited(account, tx) \in Account
<1>1. account.balance \in Money /\ account.nonce \in Nat /\ Needed(tx) \in Money
  BY AmountsTyped DEF Account
<1>2. account.balance - Needed(tx) \in Money
  BY <1>1, AmountAssumption DEF Money
<1>3. QED
  BY <1>1, <1>2 DEF Debited, Account

\* An execution keeps the engine typed: the sender's copy is debited only by
\* what it can afford, a recipient's copy is credited up to the largest
\* amount, and one of them at a time is stored.
LEMMA ExecuteStepTypes ==
  ASSUME EngineTypes, ArgTypes, NEW t \in Tasks,
         \/ ExecuteTake(t) \/ ExecuteSender(t) \/ ExecuteSenderPoor(t)
         \/ ExecuteNextOutput(t) \/ ExecuteRecipient(t) \/ ExecuteCreditAsk(t)
         \/ ExecuteCredit(t) \/ ExecuteSenderAsk(t) \/ ExecuteDebit(t)
         \/ ExecuteDone(t) \/ ExecuteStore(t) \/ ExecuteResult(t)
  PROVE  EngineTypes' /\ arg'[t] \in ArgOf(pc'[t])
<1>a. pc \in [Tasks -> Points] /\ DOMAIN arg = Tasks /\ arg[t] \in ArgOf(pc[t])
  BY DEF ArgTypes
<1>b. \A p \in InExecution \cup {"exe_executed"} :
        pc[t] = p => /\ arg[t] \in Execution /\ arg[t].tx \in Catalogue
                     /\ arg[t].paid \in Nat /\ arg[t].tx.sender \in Addresses
  <2>1. \A e \in Execution : /\ e.tx \in Catalogue /\ e.paid \in Nat
                             /\ e.tx.sender \in Addresses
    BY CatalogueAssumption DEF Execution
  <2>2. QED
    BY <1>a, <2>1, ExecutionArgs
<1>c. \A p \in {"exe_sender", "exe_outputs", "exe_debit", "exe_done",
                "exe_transactions", "exe_executed"} :
        arg'[t] \in Execution /\ pc'[t] = p => arg'[t] \in ArgOf(pc'[t])
  BY ExecutionArgs DEF InExecution, Crediting
<1>d. \A p \in Crediting :
        pc[t] = p => /\ arg[t].paid < Len(arg[t].tx.outputs)
                     /\ Output(arg[t]) \in [recipient : Addresses, amount : Money]
  BY <1>a, <1>b, ExecutionArgs, OutputTyped DEF InExecution, Crediting
<1>e. \A p \in Crediting :
        /\ arg'[t] \in Execution /\ arg'[t].paid < Len(arg'[t].tx.outputs)
        /\ pc'[t] = p
        => arg'[t] \in ArgOf(pc'[t])
  BY ExecutionArgs
<1>1. ASSUME UNCHANGED engineData
      PROVE  EngineTypes'
  BY <1>1 DEF engineData, EngineTypes, AccountsTyped
<1>2. CASE ExecuteTake(t)
  <2>1. PICK i \in Waiting(arg[t].hash) : Take(t, i)
    BY <1>2 DEF ExecuteTake
  <2>2. /\ pc'[t] = "exe_sender" /\ mempool' = RemoveAt(mempool, i)
        /\ UNCHANGED <<accounts, transactions, executed>>
        /\ arg'[t] = [tx |-> mempool[i], sender |-> NewAccount,
                      recipient |-> NewAccount, paid |-> 0,
                      status |-> "Pending"]
    BY <1>a, <1>2, <2>1 DEF ExecuteTake, Take, Await, Keep
  <2>3. RemoveAt(mempool, i) \in Seq(Catalogue) /\ mempool[i] \in Catalogue
    BY <2>1, TakenTyped DEF EngineTypes, Waiting
  <2>4. NewAccount \in Account
    BY AmountAssumption DEF NewAccount, Account, Money
  <2>5. arg'[t] \in Execution
    BY <2>2, <2>3, <2>4 DEF Execution, Statuses
  <2>6. QED
    BY <1>c, <2>2, <2>3, <2>5 DEF EngineTypes, AccountsTyped
<1>3. CASE ExecuteSender(t)
  <2>1. /\ pc[t] = "exe_sender" /\ pc'[t] = "exe_outputs"
        /\ GetOrCreateAccount(arg[t].tx.sender)
        /\ AccountOf(arg[t].tx.sender).balance >= Needed(arg[t].tx)
        /\ arg'[t] = [arg[t] EXCEPT !.sender =
                        Debited(AccountOf(arg[t].tx.sender), arg[t].tx)]
        /\ UNCHANGED <<mempool, transactions, executed>>
    BY <1>a, <1>3 DEF ExecuteSender, Reached, Drop, Keep
  <2>2. /\ arg[t] \in Execution /\ arg[t].tx \in Catalogue
        /\ arg[t].tx.sender \in Addresses
    BY <1>b, <2>1 DEF InExecution
  <2>3. AccountsTyped'
    BY <2>1, <2>2, OpenTyped DEF EngineTypes
  <2>4. Debited(AccountOf(arg[t].tx.sender), arg[t].tx) \in Account
    BY <2>1, <2>2, AccountOfTyped, DebitedTyped DEF EngineTypes
  <2>5. arg'[t] \in Execution
    BY <2>1, <2>2, <2>4 DEF Execution
  <2>6. QED
    BY <1>c, <2>1, <2>3, <2>5 DEF EngineTypes
<1>4. CASE ExecuteSenderPoor(t)
  <2>1. /\ pc[t] = "exe_sender" /\ pc'[t] = "exe_done"
        /\ GetOrCreateAccount(arg[t].tx.sender)
        /\ arg'[t] = [arg[t] EXCEPT !.status = "Failed"]
        /\ UNCHANGED <<mempool, transactions, executed>>
    BY <1>a, <1>4 DEF ExecuteSenderPoor, Reached, Drop, Keep
  <2>2. arg[t] \in Execution /\ arg[t].tx.sender \in Addresses
    BY <1>b, <2>1 DEF InExecution
  <2>3. AccountsTyped'
    BY <2>1, <2>2, OpenTyped DEF EngineTypes
  <2>4. arg'[t] \in Execution
    BY <2>1, <2>2 DEF Execution, Statuses
  <2>5. QED
    BY <1>c, <2>1, <2>3, <2>4 DEF EngineTypes
<1>5. CASE ExecuteNextOutput(t)
  <2>1. /\ pc[t] = "exe_outputs" /\ pc'[t] = "exe_recipient" /\ arg' = arg
        /\ arg[t].paid < Len(arg[t].tx.outputs) /\ UNCHANGED engineData
    BY <1>a, <1>5 DEF ExecuteNextOutput, Await
  <2>2. arg[t] \in Execution
    BY <1>b, <2>1 DEF InExecution
  <2>3. QED
    BY <1>1, <1>e, <2>1, <2>2 DEF Crediting
<1>6. CASE ExecuteRecipient(t)
  <2> DEFINE paidTo == [AccountOf(Output(arg[t]).recipient) EXCEPT
                          !.balance = Plus(@, Output(arg[t]).amount)]
  <2>1. /\ pc[t] = "exe_recipient" /\ pc'[t] = "exe_recipient_copied"
        /\ GetOrCreateAccount(Output(arg[t]).recipient)
        /\ arg'[t] = [arg[t] EXCEPT !.recipient = paidTo]
        /\ UNCHANGED <<mempool, transactions, executed>>
    BY <1>a, <1>6 DEF ExecuteRecipient, Reached, Drop, Keep
  <2>2. /\ arg[t] \in Execution
        /\ arg[t].paid < Len(arg[t].tx.outputs)
        /\ Output(arg[t]) \in [recipient : Addresses, amount : Money]
    BY <1>b, <1>d, <2>1 DEF InExecution, Crediting
  <2>3. AccountsTyped'
    BY <2>1, <2>2, OpenTyped DEF EngineTypes
  <2>4. paidTo \in Account
    BY <2>2, AccountOfTyped, AmountsTyped DEF EngineTypes, Account
  <2>5. /\ arg'[t] \in Execution
        /\ arg'[t].paid < Len(arg'[t].tx.outputs)
    BY <2>1, <2>2, <2>4 DEF Execution
  <2>6. QED
    BY <1>e, <2>1, <2>3, <2>5 DEF EngineTypes, Crediting
<1>7. CASE ExecuteCreditAsk(t)
  <2>1. /\ pc[t] = "exe_recipient_copied" /\ pc'[t] = "exe_credit"
        /\ arg' = arg /\ UNCHANGED engineData
    BY <1>a, <1>7 DEF ExecuteCreditAsk, Await
  <2>2. arg[t] \in Execution /\ arg[t].paid < Len(arg[t].tx.outputs)
    BY <1>b, <1>d, <2>1 DEF InExecution, Crediting
  <2>3. QED
    BY <1>1, <1>e, <2>1, <2>2 DEF Crediting
<1>8. CASE ExecuteCredit(t)
  <2>1. /\ pc[t] = "exe_credit" /\ pc'[t] = "exe_outputs"
        /\ Store(Output(arg[t]).recipient, arg[t].recipient)
        /\ arg'[t] = [arg[t] EXCEPT !.paid = arg[t].paid + 1]
        /\ UNCHANGED <<mempool, transactions, executed>>
    BY <1>a, <1>8 DEF ExecuteCredit, Reached, Drop, Keep
  <2>2. /\ arg[t] \in Execution /\ arg[t].paid \in Nat
        /\ Output(arg[t]) \in [recipient : Addresses, amount : Money]
    BY <1>b, <1>d, <2>1 DEF InExecution, Crediting
  <2>3. arg[t].recipient \in Account
    BY <2>2 DEF Execution
  <2>4. AccountsTyped'
    BY <2>1, <2>2, <2>3, StoreTyped DEF EngineTypes
  <2>5. arg'[t] \in Execution
    BY <2>1, <2>2 DEF Execution
  <2>6. QED
    BY <1>c, <2>1, <2>4, <2>5 DEF EngineTypes
<1>9. CASE ExecuteSenderAsk(t) \/ ExecuteDone(t)
  <2>1. /\ pc[t] \in {"exe_outputs", "exe_done"}
        /\ pc'[t] \in {"exe_debit", "exe_transactions"}
        /\ arg' = arg /\ UNCHANGED engineData
    BY <1>a, <1>9 DEF ExecuteSenderAsk, ExecuteDone, Await
  <2>2. arg[t] \in Execution
    BY <1>b, <2>1 DEF InExecution
  <2>3. QED
    BY <1>1, <1>c, <2>1, <2>2
<1>10. CASE ExecuteDebit(t)
  <2>1. /\ pc[t] = "exe_debit" /\ pc'[t] = "exe_done"
        /\ Store(arg[t].tx.sender, arg[t].sender)
        /\ arg'[t] = [arg[t] EXCEPT !.status = "Confirmed"]
        /\ UNCHANGED <<mempool, transactions, executed>>
    BY <1>a, <1>10 DEF ExecuteDebit, Reached, Drop, Keep
  <2>2. arg[t] \in Execution /\ arg[t].tx.sender \in Addresses
    BY <1>b, <2>1 DEF InExecution
  <2>3. arg[t].sender \in Account
    BY <2>2 DEF Execution
  <2>4. AccountsTyped'
    BY <2>1, <2>2, <2>3, StoreTyped DEF EngineTypes
  <2>5. arg'[t] \in Execution
    BY <2>1, <2>2 DEF Execution, Statuses
  <2>6. QED
    BY <1>c, <2>1, <2>4, <2>5 DEF EngineTypes
<1>11. CASE ExecuteStore(t)
  <2>1. /\ pc[t] = "exe_transactions" /\ pc'[t] = "exe_executed" /\ arg' = arg
        /\ transactions' = Append(transactions,
                                  [tx |-> arg[t].tx, status |-> arg[t].status])
        /\ UNCHANGED <<accounts, mempool, executed>>
    BY <1>a, <1>11 DEF ExecuteStore, Reached, Await
  <2>2. arg[t] \in Execution
    BY <1>b, <2>1 DEF InExecution
  <2>3. [tx |-> arg[t].tx, status |-> arg[t].status]
          \in [tx : Catalogue, status : Statuses]
    BY <2>2 DEF Execution
  <2>4. transactions' \in Seq([tx : Catalogue, status : Statuses])
    BY <2>1, <2>3, AppendProperties DEF EngineTypes
  <2>5. QED
    BY <1>c, <2>1, <2>2, <2>4 DEF EngineTypes, AccountsTyped
<1>12. CASE ExecuteResult(t)
  <2>1. /\ pc[t] = "exe_executed" /\ Return(t)
        /\ executed' = Append(executed, [tx_hash |-> arg[t].tx.hash,
                                         status |-> arg[t].status])
        /\ UNCHANGED <<accounts, mempool, transactions>>
    BY <1>12 DEF ExecuteResult, Reached
  <2>2. arg[t] \in Execution /\ arg[t].tx \in Catalogue
    BY <1>b, <2>1
  <2>3. [tx_hash |-> arg[t].tx.hash, status |-> arg[t].status]
          \in [tx_hash : {tx.hash : tx \in Catalogue}, status : Statuses]
    BY <2>2 DEF Execution
  <2>4. executed' \in Seq([tx_hash : {tx.hash : tx \in Catalogue},
                           status : Statuses])
    BY <2>1, <2>3, AppendProperties DEF EngineTypes
  <2>5. arg'[t] \in ArgOf(pc'[t])
    BY <1>a, <2>1, ArgShapes DEF Return
  <2>6. QED
    BY <2>1, <2>4, <2>5 DEF EngineTypes, AccountsTyped
<1>13. QED
  BY <1>2, <1>3, <1>4, <1>5, <1>6, <1>7, <1>8, <1>9, <1>10, <1>11, <1>12

\* A step keeps everything typed.
LEMMA NextTypes ==
  ASSUME TypeOK, GuardsHeld', [Next]_vars
  PROVE  TypeOK'
<1>1. EngineTypes /\ UtxoTypes /\ GuardsHeld /\ ArgTypes
  BY TypesSplit
<1>2. SUFFICES EngineTypes' /\ UtxoTypes' /\ ArgTypes'
  BY DEF TypeOK, EngineTypes, AccountsTyped, UtxoTypes, GuardsHeld, ArgTypes
<1>3. pc' \in [Tasks -> Points]
  BY DEF GuardsHeld, LockInv
<1>4. CASE UNCHANGED vars
  BY <1>1, <1>4 DEF vars, taskVars, engineData, utxoData, EngineTypes,
     AccountsTyped, UtxoTypes, ArgTypes
<1>5. ASSUME NEW t \in Tasks,
             \/ (BeginEngine(t) \/ ContinueEngine(t)) /\ UNCHANGED utxoData
             \/ (BeginUtxo(t, workload[t]) \/ ContinueUtxo(t))
                /\ UNCHANGED engineData
      PROVE  EngineTypes' /\ UtxoTypes' /\ ArgTypes'
  <2>1. /\ DOMAIN arg' = Tasks
        /\ \A u \in Tasks \ {t} : pc'[u] = pc[u] /\ arg'[u] = arg[u]
    BY <1>1, <1>5, OthersStay DEF ArgTypes
  <2>2. EngineTypes' /\ UtxoTypes' /\ arg'[t] \in ArgOf(pc'[t])
    <3>1. CASE (BeginEngine(t) \/ ContinueEngine(t)) /\ UNCHANGED utxoData
      <4>1. UtxoTypes'
        BY <1>1, <3>1 DEF utxoData, UtxoTypes
      <4>2. EngineTypes' /\ arg'[t] \in ArgOf(pc'[t])
        BY <1>1, <3>1, OtherEngineStepTypes, ExecuteStepTypes DEF ContinueEngine
      <4>3. QED
        BY <4>1, <4>2
    <3>2. CASE (BeginUtxo(t, workload[t]) \/ ContinueUtxo(t))
               /\ UNCHANGED engineData
      <4>1. EngineTypes'
        BY <1>1, <3>2 DEF engineData, EngineTypes, AccountsTyped
      <4>2. UtxoTypes' /\ arg'[t] \in ArgOf(pc'[t])
        BY <1>1, <3>2, UtxoStepTypes
      <4>3. QED
        BY <4>1, <4>2
    <3>3. QED
      BY <1>5, <3>1, <3>2
  <2>3. \A u \in Tasks : arg'[u] \in ArgOf(pc'[u])
    <3>1. ASSUME NEW u \in Tasks, u # t
          PROVE  arg'[u] \in ArgOf(pc'[u])
      <4>1. pc'[u] = pc[u] /\ arg'[u] = arg[u] /\ arg[u] \in ArgOf(pc[u])
        BY <1>1, <2>1, <3>1 DEF ArgTypes
      <4>2. QED
        BY <4>1
    <3>2. QED
      BY <2>2, <3>1
  <2>4. QED
    BY <1>3, <2>1, <2>2, <2>3 DEF ArgTypes
<1>6. QED
  BY <1>4, <1>5 DEF Next

\* Every reachable state is well typed: no balance is ever negative or exceeds
\* the largest amount, and what a call carries over an await is what the
\* segment after it expects.
THEOREM EngineTypeCorrect == Spec => []TypeOK
<1>1. Init => TypeOK
  <2>1. SUFFICES ASSUME Init PROVE TypeOK
    OBVIOUS
  <2>2. EngineTypes /\ UtxoTypes
    BY <2>1, EmptySeq DEF Init, InitUtxo, EngineTypes, AccountsTyped, UtxoTypes
  <2>3. GuardsHeld
    BY <2>1, NoCallsKeepLocks, IdleHoldsNothing DEF Init, GuardsHeld
  <2>4. ArgTypes
    BY <2>1, ArgShapes, IdleHoldsNothing DEF Init, NoCalls, ArgTypes
  <2>5. QED
    BY <2>2, <2>3, <2>4, TypesSplit
<1>2. QED
  BY <1>1, NextTypes, CallsHoldGuards, PTL DEF Spec

-----------------------------------------------------------------------------
(* The index follows the outputs.                                          *)

\* A call that has added the output has yet to list it.
Owed(key) ==
  \E t \in Tasks : /\ pc[t] = "add_index" /\ arg[t].key = key
                  /\ arg[t].recipient = utxos[key].recipient

\* Every output is listed or about to be, and nothing else is.
ListedOrOwed ==
  /\ \A key \in DOMAIN utxos :
       key \in ToSet(Listed(utxos[key].recipient)) \/ Owed(key)
  /\ \A a \in DOMAIN address_utxos : ToSet(address_utxos[a]) \subseteq DOMAIN utxos
  /\ \A t \in Tasks : pc[t] = "add_index" => arg[t].key \in DOMAIN utxos

\* Who has the outputs locked is alone with what is owed to the index.
LEMMA OwesAlone ==
  ASSUME GuardsHeld, NEW t \in Tasks, NEW u \in Tasks,
         Holds(locks["utxos"], t), pc[u] = "add_index"
  PROVE  t = u
<1>1. /\ "add_index" \in Points /\ "utxos" \in Locks
      /\ HeldAt["add_index"] = {"utxos"}
      /\ Wants["add_index"]["utxos"] = "write"
  BY DEF Points, UtxoPoints, Locks, UtxoLocks, Wants, Writes, HeldAt,
     InExecution
<1>2. Holds(locks["utxos"], u)
  BY <1>1 DEF GuardsHeld, LockInv, LockDiscipline
<1>3. QED
  BY <1>1, <1>2, OneHolder DEF GuardsHeld

\* Adding a listing keeps the listings there were.
LEMMA ListingGrows ==
  ASSUME NEW s \in Seq(Outputs), NEW key \in Outputs
  PROVE  ToSet(Append(s, key)) = ToSet(s) \cup {key}
BY AppendProperties DEF ToSet

LEMMA UtxoStepLists ==
  ASSUME TypeOK, ListedOrOwed, NEW t \in Tasks,
         BeginUtxo(t, workload[t]) \/ ContinueUtxo(t)
  PROVE  ListedOrOwed'
<1>a. UtxoTypes /\ ArgTypes /\ GuardsHeld
  BY TypesSplit
<1>b. /\ pc \in [Tasks -> Points] /\ DOMAIN arg = Tasks
      /\ arg[t] \in ArgOf(pc[t])
      /\ \A u \in Tasks \ {t} : pc'[u] = pc[u] /\ arg'[u] = arg[u]
  BY <1>a, OthersStay DEF ArgTypes
<1>1. ASSUME UNCHANGED <<utxos, address_utxos>>,
             pc[t] # "add_index", pc'[t] # "add_index"
      PROVE  ListedOrOwed'
  <2>1. \A u \in Tasks : pc'[u] = "add_index" =>
          pc[u] = "add_index" /\ arg'[u] = arg[u]
    BY <1>b, <1>1
  <2>2. \A u \in Tasks : pc[u] = "add_index" =>
          pc'[u] = "add_index" /\ arg'[u] = arg[u]
    BY <1>b, <1>1
  <2>3. \A key : Owed(key) => Owed(key)'
    BY <1>1, <2>2 DEF Owed
  <2>4. \A a : Listed(a)' = Listed(a)
    BY <1>1 DEF Listed
  <2>5. QED
    BY <1>1, <2>1, <2>3, <2>4 DEF ListedOrOwed
<1>2. CASE AddInsert(t)
  <2>1. /\ pc[t] = "add_utxos" /\ pc'[t] = "add_index" /\ arg' = arg
        /\ Insert(arg[t]) /\ UNCHANGED address_utxos
        /\ Holds(locks["utxos"], t)
    BY <1>b, <1>2 DEF AddInsert, Reached, Await
  <2>2. \A u \in Tasks : pc[u] # "add_index"
    BY <1>a, <2>1, OwesAlone
  <2>3. /\ DOMAIN utxos' = DOMAIN utxos \cup {arg[t].key}
        /\ utxos'[arg[t].key].recipient = arg[t].recipient
        /\ \A k \in DOMAIN utxos \ {arg[t].key} : utxos'[k] = utxos[k]
    BY <2>1 DEF Insert
  <2>4. Owed(arg[t].key)'
    BY <2>1, <2>3 DEF Owed
  <2>5. \A a : Listed(a)' = Listed(a)
    BY <2>1 DEF Listed
  <2>6. \A k \in DOMAIN utxos : k \in ToSet(Listed(utxos[k].recipient))
    BY <2>2 DEF ListedOrOwed, Owed
  <2>7. \A u \in Tasks : pc'[u] = "add_index" => u = t
    BY <1>b, <2>2
  <2>8. QED
    BY <2>1, <2>3, <2>4, <2>5, <2>6, <2>7 DEF ListedOrOwed
<1>3. CASE AddIndex(t)
  <2>1. /\ pc[t] = "add_index" /\ pc'[t] = "idle" /\ UNCHANGED utxos
        /\ address_utxos' =
             [a \in DOMAIN address_utxos \cup {arg[t].recipient} |->
                IF a = arg[t].recipient THEN Append(Listed(a), arg[t].key)
                ELSE address_utxos[a]]
    BY <1>b, <1>3 DEF AddIndex, Reached, Return
  <2>2. PICK who, new : who = arg[t].recipient /\ new = arg[t].key
    OBVIOUS
  <2>3. new \in Outputs /\ new \in DOMAIN utxos
    <3>1. arg[t] \in [key : Outputs, recipient : Addresses, amount : Amounts]
      BY <1>b, <2>1, ArgShapes
    <3>2. QED
      BY <2>1, <2>2, <3>1 DEF ListedOrOwed
  <2>4. \A a : Listed(a) \in Seq(Outputs)
    BY <1>a, EmptySeq DEF Listed, UtxoTypes
  <2>5. /\ \A a : a # who => Listed(a)' = Listed(a)
        /\ Listed(who)' = Append(Listed(who), new)
    BY <2>1, <2>2 DEF Listed
  <2>6. ToSet(Listed(who)') = ToSet(Listed(who)) \cup {new}
    BY <2>3, <2>4, <2>5, ListingGrows
  <2>7. \A a : ToSet(Listed(a)) \subseteq ToSet(Listed(a)')
    BY <2>5, <2>6
  <2>8. ASSUME NEW key \in DOMAIN utxos
        PROVE  (key \in ToSet(Listed(utxos[key].recipient)) \/ Owed(key))'
    <3>1. PICK r : r = utxos[key].recipient /\ r = utxos'[key].recipient
      BY <2>1
    <3>2. SUFFICES key \in ToSet(Listed(r)') \/ Owed(key)'
      BY <3>1 DEF Listed
    <3>3. CASE key \in ToSet(Listed(r))
      BY <2>7, <3>3
    <3>4. CASE Owed(key)
      <4>1. PICK u \in Tasks : /\ pc[u] = "add_index" /\ arg[u].key = key
                              /\ arg[u].recipient = r
        BY <3>1, <3>4 DEF Owed
      <4>2. CASE u = t
        BY <2>2, <2>6, <4>1, <4>2
      <4>3. CASE u # t
        BY <1>b, <3>1, <4>1, <4>3 DEF Owed
      <4>4. QED
        BY <4>2, <4>3
    <3>5. QED
      BY <3>1, <3>3, <3>4 DEF ListedOrOwed
  <2>9. ASSUME NEW a \in DOMAIN address_utxos'
        PROVE  ToSet(address_utxos'[a]) \subseteq DOMAIN utxos
    <3>1. ToSet(Listed(a)) \subseteq DOMAIN utxos
      BY DEF ListedOrOwed, Listed, ToSet
    <3>2. Listed(a)' = address_utxos'[a]
      BY <2>9 DEF Listed
    <3>3. CASE a = who
      BY <2>3, <2>6, <3>1, <3>2, <3>3
    <3>4. CASE a # who
      BY <2>5, <3>1, <3>2, <3>4
    <3>5. QED
      BY <3>3, <3>4
  <2>10. \A u \in Tasks : pc'[u] = "add_index" => arg'[u].key \in DOMAIN utxos
    BY <1>b, <2>1 DEF ListedOrOwed
  <2>11. QED
    BY <2>1, <2>8, <2>9, <2>10 DEF ListedOrOwed
<1>4. CASE SpendMark(t)
  <2>1. /\ pc[t] = "spend_utxos" /\ pc'[t] = "idle" /\ UNCHANGED address_utxos
        /\ arg[t].key \in DOMAIN utxos
        /\ utxos' = [utxos EXCEPT ![arg[t].key].spent = TRUE]
    BY <1>b, <1>4 DEF SpendMark, Unspent, Reached, Return
  <2>2. /\ DOMAIN utxos' = DOMAIN utxos
        /\ \A key \in DOMAIN utxos : utxos'[key].recipient = utxos[key].recipient
    BY <1>a, <2>1 DEF UtxoTypes, Entry
  <2>3. \A u \in Tasks : (pc'[u] = "add_index" <=> pc[u] = "add_index")
          /\ (pc[u] = "add_index" => arg'[u] = arg[u])
    BY <1>b, <2>1
  <2>4. \A key \in DOMAIN utxos : Owed(key) => Owed(key)'
    BY <2>2, <2>3 DEF Owed
  <2>5. \A a : Listed(a)' = Listed(a)
    BY <2>1 DEF Listed
  <2>6. QED
    BY <2>1, <2>2, <2>3, <2>4, <2>5 DEF ListedOrOwed
<1>5. CASE BeginUtxo(t, workload[t])
  BY <1>1, <1>5, <1>b DEF BeginUtxo, AddUtxo, SpendUtxo, GetAddressUtxos,
     ValidateWithUtxoSet, CallUtxos, Enter, utxoData
<1>6. CASE \/ SpendRefused(t) \/ ListIndex(t) \/ ListReport(t) \/ ValidateInput(t)
           \/ ValidateRefused(t) \/ ValidateNext(t) \/ ValidateAnswer(t)
  BY <1>1, <1>6, <1>b DEF SpendRefused, ListIndex, ListReport, ValidateInput,
     ValidateRefused, ValidateNext, ValidateAnswer, Reached, Await, Drop,
     Return, utxoData
<1>7. QED
  BY <1>2, <1>3, <1>4, <1>5, <1>6 DEF ContinueUtxo

\* Whoever can read the outputs finds each of them listed for its recipient,
\* and no listing without its output: add_utxo keeps the outputs locked until
\* the index has been brought up.
THEOREM OutputsListedHolds == Spec => []OutputsListed
<1>1. Init => ListedOrOwed
  BY DEF Init, InitUtxo, NoCalls, ListedOrOwed
<1>2. TypeOK /\ ListedOrOwed /\ [Next]_vars => ListedOrOwed'
  <2>1. SUFFICES ASSUME TypeOK, ListedOrOwed, [Next]_vars PROVE ListedOrOwed'
    OBVIOUS
  <2>2. ASSUME UNCHANGED utxoData,
               \A u \in Tasks : pc[u] = "add_index" =>
                              pc'[u] = "add_index" /\ arg'[u] = arg[u],
               \A u \in Tasks : pc'[u] = "add_index" =>
                              pc[u] = "add_index" /\ arg'[u] = arg[u]
        PROVE  ListedOrOwed'
    <3>1. utxos' = utxos /\ address_utxos' = address_utxos
      BY <2>2 DEF utxoData
    <3>2. \A key : Owed(key) => Owed(key)'
      BY <2>2, <3>1 DEF Owed
    <3>3. \A a : Listed(a)' = Listed(a)
      BY <3>1 DEF Listed
    <3>4. QED
      BY <2>1, <2>2, <3>1, <3>2, <3>3 DEF ListedOrOwed
  <2>3. CASE UNCHANGED vars
    BY <2>2, <2>3 DEF vars, taskVars
  <2>4. ASSUME NEW t \in Tasks, BeginEngine(t) \/ ContinueEngine(t),
               UNCHANGED utxoData
        PROVE  ListedOrOwed'
    <3>1. pc \in [Tasks -> Points] /\ DOMAIN arg = Tasks
      BY <2>1, TypesSplit DEF ArgTypes
    <3>2. \A u \in Tasks \ {t} : pc'[u] = pc[u] /\ arg'[u] = arg[u]
      BY <2>4, <3>1, OthersStay
    <3>3. pc[t] # "add_index" /\ pc'[t] # "add_index"
      <4>1. CASE BeginEngine(t)
        BY <3>1, <4>1 DEF BeginEngine, SubmitTransaction, ExecuteTransaction,
           GetAccount, GetStats, Call, Enter
      <4>2. CASE ContinueEngine(t)
        BY <3>1, <4>2 DEF ContinueEngine, SubmitAccount, SubmitRefused,
           SubmitAsk, SubmitPush, ExecuteNotFound, ExecuteTake, ExecuteSender,
           ExecuteSenderPoor, ExecuteNextOutput, ExecuteRecipient,
           ExecuteCreditAsk, ExecuteCredit, ExecuteSenderAsk, ExecuteDebit,
           ExecuteDone, ExecuteStore, ExecuteResult, AccountReport,
           StatsAccounts, StatsTransactions, StatsMempool, StatsLock,
           StatsReport, Reached, Await, Drop, Return
      <4>3. QED
        BY <2>4, <4>1, <4>2
    <3>4. QED
      BY <2>2, <2>4, <3>2, <3>3
  <2>5. QED
    BY <2>1, <2>3, <2>4, UtxoStepLists DEF Next
<1>3. GuardsHeld /\ TypeOK /\ ListedOrOwed => OutputsListed
  <2>1. SUFFICES ASSUME GuardsHeld, TypeOK, ListedOrOwed,
                        ~WriteHeld(locks["utxos"])
                 PROVE  \A u \in Tasks : pc[u] # "add_index"
    BY DEF OutputsListed, ListedOrOwed, Owed
  <2>2. /\ "add_index" \in Points /\ "utxos" \in Locks
        /\ HeldAt["add_index"] = {"utxos"}
        /\ Wants["add_index"]["utxos"] = "write"
    BY DEF Points, UtxoPoints, Locks, UtxoLocks, Wants, Writes, HeldAt,
       InExecution
  <2>3. ASSUME NEW u \in Tasks, pc[u] = "add_index"
        PROVE  HoldsWrite(locks["utxos"], u) /\ u \in DOMAIN locks["utxos"]
    BY <2>1, <2>2, <2>3 DEF GuardsHeld, LockInv, LockDiscipline, HoldsWrite,
       WellFormed
  <2>4. QED
    BY <2>1, <2>3 DEF WriteHeld
<1>4. QED
  BY <1>1, <1>2, <1>3, CallsHoldGuards, EngineTypeCorrect, PTL DEF Spec

-----------------------------------------------------------------------------
(* Waiting for locks.                                                      *)

\* An order of the engine's locks and one of the set's that begin as given.
Order(first, utxoFirst) ==
  [l \in Locks |-> IF l = first THEN 3 ELSE IF l = "transactions" THEN 2
                   ELSE IF l \in {"accounts", "mempool", utxoFirst} THEN 1 ELSE 0]

\* The calls that ask for them in another order.
KeepsFor(first) == IF first = "accounts" THEN KeepsMempool ELSE KeepsForStats
KeepsForSet(utxoFirst) == IF utxoFirst = "utxos" THEN KeepsIndex ELSE KeepsUtxos

\* All the others ask in the order.
LEMMA MostAskInOrder ==
  ASSUME NEW first \in {"accounts", "mempool"},
         NEW utxoFirst \in UtxoLocks, NEW point \in Points,
         point \notin KeepsFor(first), point \notin KeepsForSet(utxoFirst)
  PROVE  InOrder(Locks, Wants, HeldAt, Order(first, utxoFirst), point)
BY DEF InOrder, Points, Locks, Wants, Writes, Reads, HeldAt, Order, EngineLocks,
   UtxoLocks, KeepsFor, KeepsForSet, KeepsMempool, KeepsIndex, KeepsUtxos,
   KeepsForStats, InExecution, SubmitPoints, UtxoPoints

\* Every circle has a call that does not, for each of the orders.
LEMMA CircleKeepsBoth ==
  ASSUME GuardsHeld, NEW D \in SUBSET Tasks, Stuck(D),
         NEW first \in {"accounts", "mempool"}, NEW utxoFirst \in UtxoLocks
  PROVE  \E t \in D : pc[t] \in KeepsFor(first) \cup KeepsForSet(utxoFirst)
<1>1. Order(first, utxoFirst) \in [Locks -> Nat]
  BY DEF Order
<1>2. \A t \in D : pc[t] \in Points
  BY DEF GuardsHeld, LockInv
<1>3. \E t \in D : ~InOrder(Locks, Wants, HeldAt, Order(first, utxoFirst),
                           pc[t])
  BY <1>1, CircleLeavesOrder DEF GuardsHeld
<1>4. QED
  BY <1>2, <1>3, MostAskInOrder

\* Calls wait for each other in a circle only when an execution meets a report
\* of the engine, or an addition a listing of an address's outputs.
THEOREM DeadlockShapeHolds == Spec => []DeadlockShape
<1>1. GuardsHeld => DeadlockShape
  <2>1. SUFFICES ASSUME GuardsHeld, NEW D \in SUBSET Tasks, Stuck(D)
                 PROVE  \/ \E t, u \in D :
                             pc[t] \in KeepsMempool /\ pc[u] \in KeepsForStats
                        \/ \E t, u \in D :
                             pc[t] \in KeepsUtxos /\ pc[u] \in KeepsIndex
    BY DEF DeadlockShape
  <2>2. \A first \in {"accounts", "mempool"}, utxoFirst \in UtxoLocks :
          \E t \in D : pc[t] \in KeepsFor(first) \cup KeepsForSet(utxoFirst)
    BY <2>1, CircleKeepsBoth
  <2>3. QED
    BY <2>2 DEF KeepsFor, KeepsForSet, UtxoLocks
<1>2. QED
  BY <1>1, CallsHoldGuards, PTL

-----------------------------------------------------------------------------
(* The ledger.  What an execution has done so far to the accounts, and     *)
(* what its copies of accounts are worth.                                  *)

\* What an address has in a book of accounts.
HeldBy(book, a) == IF a \in DOMAIN book THEN book[a] ELSE NewAccount

LEMMA AccountIsHeld == \A a : AccountOf(a) = HeldBy(accounts, a)
BY DEF AccountOf, HeldBy

LEMMA HeldByTyped ==
  ASSUME AccountsTyped, NEW a
  PROVE  HeldBy(accounts, a) \in Account
BY AccountOfTyped, AccountIsHeld

\* The places of an execution between copying the sender's account and
\* storing the copy, and between that and the record.
Unsettled == Crediting \cup {"exe_outputs", "exe_debit"}
Settled == {"exe_done", "exe_transactions"}

Topped(account, output) ==
  [account EXCEPT !.balance = Plus(@, output.amount)]

\* An execution counts the outputs it has credited, and a copy it will store
\* is still what the account it replaces would become.
CopiesFresh(t) ==
  LET call == arg[t]
      sender == HeldBy(accounts, call.tx.sender)
  IN  /\ pc[t] = "exe_sender" => call.status = "Pending" /\ call.paid = 0
      /\ pc[t] \in Unsettled =>
           /\ call.status = "Pending" /\ call.paid <= Len(call.tx.outputs)
           /\ sender.balance >= call.sender.balance + Needed(call.tx)
      /\ pc[t] \in {"exe_recipient_copied", "exe_credit"} =>
           call.recipient =
             Topped(HeldBy(accounts, Output(call).recipient), Output(call))
      /\ pc[t] = "exe_debit" => call.paid = Len(call.tx.outputs)
      /\ pc[t] \in Settled =>
           \/ call.status = "Confirmed"
           \/ call.status = "Failed" /\ call.paid = 0

\* How far the accounts and the results are from the recorded transactions,
\* for each place an execution can be at.
LedgerAt(t) ==
  LET call == arg[t]
      tx == call.tx
  IN  /\ pc[t] = "exe_sender" => Ledger = Replayed
      /\ pc[t] \in Unsettled =>
           /\ call.sender = Debited(Replayed[tx.sender], tx)
           /\ \A who \in Addresses \ {tx.sender} :
                HeldBy(accounts, who) = Credited(Replayed, tx)[call.paid][who]
      /\ pc[t] \in Settled =>
           Ledger = IF call.status = "Confirmed" THEN Pay(Replayed, tx)
                    ELSE Replayed
      /\ pc[t] \in InExecution => executed = Results(transactions)
      /\ pc[t] = "exe_executed" =>
           /\ Ledger = Replayed
           /\ Append(executed, [tx_hash |-> tx.hash, status |-> call.status])
                = Results(transactions)

LedgerInv ==
  /\ \A t \in Tasks : LedgerAt(t)
  /\ (\A t \in Tasks : pc[t] \notin KeepsMempool) =>
       Ledger = Replayed /\ executed = Results(transactions)

-----------------------------------------------------------------------------
(* The functions a ledger is computed by.                                  *)

\* A recursive function on the first numbers has the values its definition
\* gives it, if there is such a function.
LEMMA CreditedUnfolds ==
  ASSUME NEW tx, Len(tx.outputs) \in Nat, NEW balances
  PROVE  /\ Credited(balances, tx)[0] = balances
         /\ \A n \in 1..Len(tx.outputs) :
              Credited(balances, tx)[n]
                = Credit(Credited(balances, tx)[n - 1], tx, tx.outputs[n])
<1> DEFINE size == Len(tx.outputs)
           step(f, n) == IF n = 0 THEN balances
                         ELSE Credit(f[n - 1], tx, tx.outputs[n])
           Good == {m \in 0..size : \E f : f = [n \in 0..m |-> step(f, n)]}
<1>1. 0 \in Good
  <2> DEFINE f == [n \in 0..0 |-> balances]
  <2>1. f = [n \in 0..0 |-> step(f, n)]
    OBVIOUS
  <2> HIDE DEF f
  <2>2. QED
    BY <2>1
<1>2. ASSUME NEW m \in 1..size, m - 1 \in Good PROVE m \in Good
  <2>1. PICK f : f = [n \in 0..(m - 1) |-> step(f, n)]
    BY <1>2
  <2> DEFINE g == [n \in 0..m |->
                     IF n = m THEN Credit(f[m - 1], tx, tx.outputs[m]) ELSE f[n]]
  <2>2. ASSUME NEW n \in 0..m PROVE g[n] = step(g, n)
    <3>1. CASE n = m
      <4>1. g[n] = Credit(f[n - 1], tx, tx.outputs[n])
        BY <3>1
      <4>2. g[n - 1] = f[n - 1] /\ n # 0
        BY <3>1
      <4>3. QED
        BY <4>1, <4>2
    <3>2. CASE n # m
      <4>1. n \in 0..(m - 1) /\ g[n] = f[n] /\ (n # 0 => g[n - 1] = f[n - 1])
        BY <3>2
      <4> HIDE DEF g
      <4>2. f[n] = step(f, n)
        BY <2>1, <4>1
      <4>3. QED
        BY <4>1, <4>2
    <3>3. QED
      BY <3>1, <3>2
  <2>3. g = [n \in 0..m |-> g[n]]
    OBVIOUS
  <2> HIDE DEF g, step
  <2>4. g = [n \in 0..m |-> step(g, n)]
    BY <2>2, <2>3
  <2>5. QED
    BY <2>4
<1> HIDE DEF Good, step
<1>3. size \in Good
  <2>1. size \in Nat
    OBVIOUS
  <2> HIDE DEF size
  <2>2. \A m \in 0..size : m \in Good
    BY <1>1, <1>2, <2>1, ClimbsTo
  <2>3. QED
    BY <2>1, <2>2
<1>4. \E f : f = [n \in 0..size |-> step(f, n)]
  BY <1>3 DEF Good
<1> DEFINE after == CHOOSE f : f = [n \in 0..size |-> step(f, n)]
<1>5. after = [n \in 0..size |-> step(after, n)]
  BY <1>4
<1>6. Credited(balances, tx) = after
  BY DEF Credited, step
<1> HIDE DEF after
<1>7. QED
  BY <1>5, <1>6 DEF step

\* The ledger after so many records, from the one after one record less.
LEMMA ReplayUnfolds ==
  ASSUME NEW records, Len(records) \in Nat
  PROVE  /\ Replay(records)[0] = [a \in Addresses |-> NewAccount]
         /\ \A n \in 1..Len(records) :
              Replay(records)[n] = IF records[n].status = "Confirmed"
                                   THEN Pay(Replay(records)[n - 1], records[n].tx)
                                   ELSE Replay(records)[n - 1]
<1> DEFINE size == Len(records)
           next(book, n) == IF records[n].status = "Confirmed"
                            THEN Pay(book, records[n].tx) ELSE book
           empty == [a \in Addresses |-> NewAccount]
           step(f, n) == IF n = 0 THEN empty ELSE next(f[n - 1], n)
           Good == {m \in 0..size : \E f : f = [n \in 0..m |-> step(f, n)]}
<1>0. \A f : Replay(records) = CHOOSE g : g = [n \in 0..size |-> step(g, n)]
  BY Zenon DEF Replay, step, next, empty, size
<1> HIDE DEF next, empty
<1>1. 0 \in Good
  <2> DEFINE f == [n \in 0..0 |-> empty]
  <2>1. f = [n \in 0..0 |-> step(f, n)]
    OBVIOUS
  <2> HIDE DEF f
  <2>2. QED
    BY <2>1
<1>2. ASSUME NEW m \in 1..size, m - 1 \in Good PROVE m \in Good
  <2>1. PICK f : f = [n \in 0..(m - 1) |-> step(f, n)]
    BY <1>2
  <2> DEFINE g == [n \in 0..m |-> IF n = m THEN next(f[m - 1], m) ELSE f[n]]
  <2>2. ASSUME NEW n \in 0..m PROVE g[n] = step(g, n)
    <3>1. CASE n = m
      <4>1. g[n] = next(f[n - 1], n)
        BY <3>1
      <4>2. g[n - 1] = f[n - 1] /\ n # 0
        BY <3>1
      <4>3. QED
        BY <4>1, <4>2
    <3>2. CASE n # m
      <4>1. n \in 0..(m - 1) /\ g[n] = f[n] /\ (n # 0 => g[n - 1] = f[n - 1])
        BY <3>2
      <4> HIDE DEF g
      <4>2. f[n] = step(f, n)
        BY <2>1, <4>1
      <4>3. QED
        BY <4>1, <4>2
    <3>3. QED
      BY <3>1, <3>2
  <2>3. g = [n \in 0..m |-> g[n]]
    OBVIOUS
  <2> HIDE DEF g, step
  <2>4. g = [n \in 0..m |-> step(g, n)]
    BY <2>2, <2>3
  <2>5. QED
    BY <2>4
<1> HIDE DEF Good, step
<1>3. size \in Good
  <2>1. size \in Nat
    OBVIOUS
  <2> HIDE DEF size
  <2>2. \A m \in 0..size : m \in Good
    BY <1>1, <1>2, <2>1, ClimbsTo
  <2>3. QED
    BY <2>1, <2>2
<1>4. \E f : f = [n \in 0..size |-> step(f, n)]
  BY <1>3 DEF Good
<1> DEFINE after == CHOOSE f : f = [n \in 0..size |-> step(f, n)]
<1>5. after = [n \in 0..size |-> step(after, n)]
  BY <1>4
<1>6. Replay(records) = after
  BY <1>0
<1> HIDE DEF after
<1>7. \A n \in 0..size : Replay(records)[n] = step(Replay(records), n)
  BY <1>5, <1>6
<1>8. QED
  BY <1>7 DEF step, next, empty

\* A record more does not change what the earlier ones made of the ledger.
LEMMA ReplayAppends ==
  ASSUME NEW R, NEW records \in Seq(R), NEW record \in R
  PROVE  LET n == Len(records)
             longer == Append(records, record)
         IN  Replay(longer)[Len(longer)] =
               IF record.status = "Confirmed"
               THEN Pay(Replay(records)[n], record.tx)
               ELSE Replay(records)[n]
<1> DEFINE n == Len(records)
           longer == Append(records, record)
           Good == {k \in 0..n : Replay(longer)[k] = Replay(records)[k]}
<1>1. /\ n \in Nat /\ Len(longer) = n + 1 /\ longer[n + 1] = record
      /\ \A k \in 1..n : longer[k] = records[k]
  OBVIOUS
<1> HIDE DEF longer, n
<1>2. Len(longer) \in Nat /\ Len(records) \in Nat
  BY <1>1 DEF n
<1>3. 0 \in Good
  BY <1>1, <1>2, ReplayUnfolds
<1>4. ASSUME NEW k \in 1..n, k - 1 \in Good PROVE k \in Good
  <2>1. /\ k \in 1..Len(longer) /\ k \in 1..Len(records)
        /\ longer[k] = records[k]
        /\ Replay(longer)[k - 1] = Replay(records)[k - 1]
    BY <1>1, <1>4 DEF n
  <2>2. Replay(longer)[k] = Replay(records)[k]
    BY <1>2, <2>1, ReplayUnfolds
  <2>3. QED
    BY <2>2
<1> HIDE DEF Good
<1>5. n \in Good
  <2>1. n \in Nat
    BY <1>1
  <2>2. \A k \in 0..n : k \in Good
    BY <2>1, <1>3, <1>4, ClimbsTo
  <2>3. QED
    BY <2>1, <2>2
<1>6. n + 1 \in 1..Len(longer) /\ (n + 1) - 1 = n
  BY <1>1
<1>7. Replay(longer)[n] = Replay(records)[n]
  BY <1>5 DEF Good
<1> HIDE DEF Good
<1>8. Replay(longer)[n + 1] = IF record.status = "Confirmed"
                              THEN Pay(Replay(records)[n], record.tx)
                              ELSE Replay(records)[n]
  <2>1. Replay(longer)[n + 1] = IF longer[n + 1].status = "Confirmed"
                                THEN Pay(Replay(longer)[(n + 1) - 1], longer[n + 1].tx)
                                ELSE Replay(longer)[(n + 1) - 1]
    <3> DEFINE last == n + 1
    <3>1. last \in 1..Len(longer)
      BY <1>6
    <3> HIDE DEF last
    <3>2. Replay(longer)[last] = IF longer[last].status = "Confirmed"
                                 THEN Pay(Replay(longer)[last - 1], longer[last].tx)
                                 ELSE Replay(longer)[last - 1]
      BY <1>2, <3>1, ReplayUnfolds
    <3>3. QED
      BY <3>2 DEF last
  <2>2. QED
    BY <1>1, <1>6, <1>7, <2>1
<1>9. QED
  BY <1>1, <1>8 DEF longer, n

\* Ledgers: the balances need not be what an account can hold.
Ledgers == [Addresses -> [balance : Int, nonce : Int]]

\* Crediting the outputs keeps a ledger one and its sender's account as it is.
LEMMA CreditedTyped ==
  ASSUME NEW tx \in Catalogue, NEW balances \in Ledgers
  PROVE  \A n \in 0..Len(tx.outputs) :
           /\ Credited(balances, tx)[n] \in Ledgers
           /\ Credited(balances, tx)[n][tx.sender] = balances[tx.sender]
<1> DEFINE size == Len(tx.outputs)
           c == Credited(balances, tx)
           Good == {n \in 0..size : /\ c[n] \in Ledgers
                                    /\ c[n][tx.sender] = balances[tx.sender]}
<1>1. tx.outputs \in Seq([recipient : Addresses, amount : Money])
  BY CatalogueAssumption
<1>2. size \in Nat
  BY <1>1
<1>3. 0 \in Good
  <2>1. c[0] = balances
    BY <1>2, CreditedUnfolds
  <2>2. QED
    BY <1>2, <2>1
<1>4. ASSUME NEW n \in 1..size, n - 1 \in Good PROVE n \in Good
  <2> DEFINE o == tx.outputs[n]
  <2>1. c[n] = Credit(c[n - 1], tx, o)
    BY <1>2, CreditedUnfolds
  <2>2. o \in [recipient : Addresses, amount : Money]
    BY <1>1, ElementOfSeq
  <2>3. c[n - 1] \in Ledgers /\ c[n - 1][tx.sender] = balances[tx.sender]
    BY <1>4
  <2> HIDE DEF c, o
  <2>4. CASE o.recipient = tx.sender
    BY <2>1, <2>3, <2>4 DEF Credit
  <2>5. CASE o.recipient # tx.sender
    <3>1. \A x, y \in Int : Plus(x, y) \in Int
      BY AmountAssumption DEF Plus, Saturated
    <3>2. o.amount \in Int /\ o.recipient \in Addresses
      BY <2>2, AmountAssumption DEF Money
    <3> DEFINE r == o.recipient
               b == c[n - 1]
    <3>3. c[n] = [b EXCEPT ![r] = [b[r] EXCEPT !.balance = Plus(b[r].balance, o.amount)]]
      BY <2>1, <2>5 DEF Credit
    <3>4. b[r] \in [balance : Int, nonce : Int] /\ Plus(b[r].balance, o.amount) \in Int
      BY <2>3, <3>1, <3>2 DEF Ledgers
    <3>5. [b[r] EXCEPT !.balance = Plus(b[r].balance, o.amount)]
            \in [balance : Int, nonce : Int]
      BY <3>4
    <3> HIDE DEF r, b
    <3>6. c[n] \in Ledgers /\ c[n][tx.sender] = b[tx.sender]
      <4>1. r # tx.sender /\ b \in Ledgers
        BY <2>3, <2>5 DEF r, b
      <4>2. tx.sender \in Addresses /\ c[n] = [b EXCEPT ![r] = c[n][r]]
            /\ c[n][r] \in [balance : Int, nonce : Int]
        <5>1. r \in DOMAIN b
          BY <3>2, <4>1 DEF r, Ledgers
        <5>2. QED
          BY <3>3, <3>5, <5>1, CatalogueAssumption
      <4>3. QED
        BY <4>1, <4>2 DEF Ledgers
    <3>7. QED
      BY <2>3, <3>6 DEF b
  <2>6. QED
    BY <2>4, <2>5 DEF c
<1> HIDE DEF Good
<1>5. \A n \in 0..size : n \in Good
  BY <1>2, <1>3, <1>4, ClimbsTo
<1>6. QED
  BY <1>5 DEF Good

-----------------------------------------------------------------------------
(* What steps do to the accounts.                                         *)

\* Storing an account changes what all hold together by the difference.
LEMMA StoreChangesBalances ==
  ASSUME AccountsTyped, IsFiniteSet(DOMAIN accounts), NEW a \in Addresses,
         NEW account \in Account, Store(a, account)
  PROVE  /\ IsFiniteSet(DOMAIN accounts)'
         /\ Balances \in Nat /\ Balances' \in Nat
         /\ Balances' + HeldBy(accounts, a).balance = Balances + account.balance
         /\ HeldBy(accounts', a) = account
         /\ \A b : b # a => HeldBy(accounts', b) = HeldBy(accounts, b)
<1> DEFINE D == DOMAIN accounts
           f == [b \in D |-> accounts[b].balance]
           g == [b \in D \cup {a} |-> accounts'[b].balance]
<1>1. /\ DOMAIN accounts' = D \cup {a} /\ accounts'[a] = account
      /\ \A b \in D : b # a => accounts'[b] = accounts[b]
  BY DEF Store
<1>2. Money \subseteq Nat
  BY AmountsTyped
<1>3. /\ Balances = SumFunctionOnSet(f, D)
      /\ Balances' = SumFunctionOnSet(g, D \cup {a})
  BY <1>1 DEF Balances, SumFunction
<1>4. IsFiniteSet(D \cup {a})
  BY FS_AddElement
<1>5. /\ \A b \in D : f[b] \in Nat
      /\ \A b \in D \cup {a} : g[b] \in Nat
      /\ \A b \in D : b # a => g[b] = f[b]
      /\ g[a] = account.balance /\ g[a] \in Nat
      /\ a \in D => f[a] = HeldBy(accounts, a).balance
      /\ a \notin D => HeldBy(accounts, a).balance = 0
  <2>1. \A b \in D : accounts[b].balance \in Nat
    BY <1>2 DEF AccountsTyped, Account
  <2>2. account.balance \in Nat
    BY <1>2 DEF Account
  <2>3. a \notin D => HeldBy(accounts, a).balance = 0
    BY DEF HeldBy, NewAccount
  <2>4. a \in D => HeldBy(accounts, a) = accounts[a]
    BY DEF HeldBy
  <2>5. QED
    BY <1>1, <2>1, <2>2, <2>3, <2>4
<1>6. HeldBy(accounts', a) = account /\ \A b : b # a => HeldBy(accounts', b) = HeldBy(accounts, b)
  BY <1>1 DEF HeldBy
<1> HIDE DEF f, g, D
<1>7. SumFunctionOnSet(f, D) \in Nat /\ SumFunctionOnSet(g, D \cup {a}) \in Nat
  <2>1. IsFiniteSet(D)
    BY DEF D
  <2>2. QED
    BY <1>4, <1>5, <2>1, SumIsNat
<1>8. SumFunctionOnSet(g, D \cup {a}) + HeldBy(accounts, a).balance
        = SumFunctionOnSet(f, D) + account.balance
  <2>0. IsFiniteSet(D)
    BY DEF D
  <2>1. CASE a \in D
    <3>1. D \cup {a} = D
      BY <2>1
    <3>2. \A b \in D \ {a} : g[b] = f[b]
      BY <1>5
    <3>3. \A b \in D : f[b] \in Nat
      BY <1>5
    <3>4. g[a] \in Nat
      BY <1>5
    <3>5. SumFunctionOnSet(g, D) + f[a] = SumFunctionOnSet(f, D) + g[a]
      BY <2>0, <2>1, <3>2, <3>3, <3>4, SumChange
    <3>6. QED
      BY <1>5, <2>1, <3>1, <3>5
  <2>2. CASE a \notin D
    <3>1. \A b \in D \cup {a} : g[b] \in Nat
      BY <1>5
    <3>2. \A b \in D : f[b] = g[b]
      BY <1>5, <2>2
    <3>3. SumFunctionOnSet(g, D \cup {a}) = SumFunctionOnSet(f, D) + g[a]
      BY <2>0, <2>2, <3>1, <3>2, SumAdd, Zenon
    <3>4. QED
      BY <1>5, <1>7, <2>2, <3>3
  <2>3. QED
    BY <2>1, <2>2
<1>9. QED
  BY <1>1, <1>3, <1>4, <1>6, <1>7, <1>8 DEF D

\* Opening an account gives nobody anything.
LEMMA OpenKeepsBalances ==
  ASSUME AccountsTyped, IsFiniteSet(DOMAIN accounts), NEW a \in Addresses,
         GetOrCreateAccount(a)
  PROVE  /\ IsFiniteSet(DOMAIN accounts)'
         /\ Balances \in Nat /\ Balances' = Balances
         /\ \A b : HeldBy(accounts', b) = HeldBy(accounts, b)
<1>1. HeldBy(accounts, a) \in Account
  BY HeldByTyped
<1>2. Store(a, HeldBy(accounts, a))
  <2>1. \A b \in DOMAIN accounts : HeldBy(accounts, b) = accounts[b]
    BY DEF HeldBy
  <2>2. \A b \in DOMAIN accounts \cup {a} :
          HeldBy(accounts, b) = IF b = a THEN HeldBy(accounts, a) ELSE accounts[b]
    BY <2>1
  <2>3. QED
    BY <2>2, AccountIsHeld DEF GetOrCreateAccount, Store
<1>3. /\ IsFiniteSet(DOMAIN accounts)'
      /\ Balances \in Nat /\ Balances' \in Nat
      /\ Balances' + HeldBy(accounts, a).balance = Balances + HeldBy(accounts, a).balance
      /\ HeldBy(accounts', a) = HeldBy(accounts, a)
      /\ \A b : b # a => HeldBy(accounts', b) = HeldBy(accounts, b)
  BY <1>1, <1>2, StoreChangesBalances
<1>4. HeldBy(accounts, a).balance \in Nat
  BY <1>1, AmountsTyped DEF Account
<1>5. Balances' = Balances
  BY <1>3, <1>4
<1>6. QED
  BY <1>3, <1>5

\* A step of an execution, or the end of one.
Executes(t) ==
  \/ ExecuteTake(t) \/ ExecuteSender(t) \/ ExecuteSenderPoor(t)
  \/ ExecuteNextOutput(t) \/ ExecuteRecipient(t) \/ ExecuteCreditAsk(t)
  \/ ExecuteCredit(t) \/ ExecuteSenderAsk(t) \/ ExecuteDebit(t)
  \/ ExecuteDone(t) \/ ExecuteStore(t) \/ ExecuteResult(t)

\* Whoever executes does it alone.
LEMMA ExecutesAlone ==
  ASSUME GuardsHeld, NEW t \in Tasks, Executes(t)
  PROVE  \A u \in Tasks \ {t} : pc[u] \notin KeepsMempool
<1>1. \A p \in KeepsMempool \cup {"exe_mempool"} :
        p \in Points /\ "mempool" \in Locks /\ Wants[p]["mempool"] = "write"
  BY DEF Points, InExecution, Locks, EngineLocks, Wants, Writes, KeepsMempool
<1>2. \A p \in KeepsMempool : "mempool" \in HeldAt[p]
  BY DEF Points, InExecution, HeldAt, KeepsMempool, UtxoPoints, SubmitPoints,
     KeepsForStats
<1>3. pc[t] \in KeepsMempool \cup {"exe_mempool"}
  BY DEF Executes, ExecuteTake, ExecuteSender, ExecuteSenderPoor,
     ExecuteNextOutput, ExecuteRecipient, ExecuteCreditAsk, ExecuteCredit,
     ExecuteSenderAsk, ExecuteDebit, ExecuteDone, ExecuteStore, ExecuteResult,
     Reached, KeepsMempool, InExecution
<1>4. \A u \in Tasks : pc[u] \in KeepsMempool => Holds(locks["mempool"], u)
  BY <1>1, <1>2 DEF GuardsHeld, LockInv, LockDiscipline
<1>5. Holds(locks["mempool"], t)
  <2>1. CASE ExecuteTake(t)
    BY <2>1 DEF ExecuteTake, Reached
  <2>2. CASE ~ExecuteTake(t)
    <3>1. pc[t] \in KeepsMempool
      BY <2>2 DEF Executes, ExecuteSender, ExecuteSenderPoor,
         ExecuteNextOutput, ExecuteRecipient, ExecuteCreditAsk, ExecuteCredit,
         ExecuteSenderAsk, ExecuteDebit, ExecuteDone, ExecuteStore,
         ExecuteResult, Reached, KeepsMempool, InExecution
    <3>2. QED
      BY <1>4, <3>1
  <2>3. QED
    BY <2>1, <2>2
<1>6. QED
  BY <1>1, <1>3, <1>4, <1>5, OneHolder DEF GuardsHeld

\* What the steps of an execution do to its own call and to the engine.
LEMMA ExecuteSteps ==
  ASSUME ArgTypes, EngineTypes, NEW t \in Tasks
  PROVE  /\ ExecuteTake(t) =>
              /\ pc[t] = "exe_mempool" /\ pc'[t] = "exe_sender"
              /\ arg'[t].status = "Pending" /\ arg'[t].paid = 0
              /\ UNCHANGED <<accounts, transactions, executed>>
         /\ ExecuteSender(t) =>
              /\ pc[t] = "exe_sender" /\ pc'[t] = "exe_outputs"
              /\ GetOrCreateAccount(arg[t].tx.sender)
              /\ HeldBy(accounts, arg[t].tx.sender).balance >= Needed(arg[t].tx)
              /\ arg'[t] = [arg[t] EXCEPT !.sender =
                              Debited(HeldBy(accounts, arg[t].tx.sender), arg[t].tx)]
              /\ UNCHANGED <<transactions, executed>>
         /\ ExecuteSenderPoor(t) =>
              /\ pc[t] = "exe_sender" /\ pc'[t] = "exe_done"
              /\ GetOrCreateAccount(arg[t].tx.sender)
              /\ arg'[t] = [arg[t] EXCEPT !.status = "Failed"]
              /\ UNCHANGED <<transactions, executed>>
         /\ ExecuteNextOutput(t) =>
              /\ pc[t] = "exe_outputs" /\ pc'[t] = "exe_recipient"
              /\ arg[t].paid < Len(arg[t].tx.outputs)
              /\ arg' = arg /\ UNCHANGED <<accounts, transactions, executed>>
         /\ ExecuteRecipient(t) =>
              /\ pc[t] = "exe_recipient" /\ pc'[t] = "exe_recipient_copied"
              /\ GetOrCreateAccount(Output(arg[t]).recipient)
              /\ arg'[t] = [arg[t] EXCEPT !.recipient =
                              Topped(HeldBy(accounts, Output(arg[t]).recipient),
                                     Output(arg[t]))]
              /\ UNCHANGED <<transactions, executed>>
         /\ ExecuteCreditAsk(t) =>
              /\ pc[t] = "exe_recipient_copied" /\ pc'[t] = "exe_credit"
              /\ arg' = arg /\ UNCHANGED <<accounts, transactions, executed>>
         /\ ExecuteCredit(t) =>
              /\ pc[t] = "exe_credit" /\ pc'[t] = "exe_outputs"
              /\ Store(Output(arg[t]).recipient, arg[t].recipient)
              /\ arg'[t] = [arg[t] EXCEPT !.paid = arg[t].paid + 1]
              /\ UNCHANGED <<transactions, executed>>
         /\ ExecuteSenderAsk(t) =>
              /\ pc[t] = "exe_outputs" /\ pc'[t] = "exe_debit"
              /\ arg[t].paid = Len(arg[t].tx.outputs)
              /\ arg' = arg /\ UNCHANGED <<accounts, transactions, executed>>
         /\ ExecuteDebit(t) =>
              /\ pc[t] = "exe_debit" /\ pc'[t] = "exe_done"
              /\ Store(arg[t].tx.sender, arg[t].sender)
              /\ arg'[t] = [arg[t] EXCEPT !.status = "Confirmed"]
              /\ UNCHANGED <<transactions, executed>>
         /\ ExecuteDone(t) =>
              /\ pc[t] = "exe_done" /\ pc'[t] = "exe_transactions"
              /\ arg' = arg /\ UNCHANGED <<accounts, transactions, executed>>
         /\ ExecuteStore(t) =>
              /\ pc[t] = "exe_transactions" /\ pc'[t] = "exe_executed"
              /\ transactions' = Append(transactions,
                   [tx |-> arg[t].tx, status |-> arg[t].status])
              /\ arg' = arg /\ UNCHANGED <<accounts, executed>>
         /\ ExecuteResult(t) =>
              /\ pc[t] = "exe_executed" /\ pc'[t] = "idle"
              /\ executed' = Append(executed, [tx_hash |-> arg[t].tx.hash,
                                               status |-> arg[t].status])
              /\ UNCHANGED <<accounts, transactions>>
<1>a. pc \in [Tasks -> Points] /\ DOMAIN arg = Tasks
  BY DEF ArgTypes
<1>1. ExecuteTake(t) =>
        /\ pc[t] = "exe_mempool" /\ pc'[t] = "exe_sender"
        /\ arg'[t].status = "Pending" /\ arg'[t].paid = 0
        /\ UNCHANGED <<accounts, transactions, executed>>
  BY <1>a DEF ExecuteTake, Take, Reached, Await, Keep
<1>2. QED
  BY <1>a, <1>1, AccountIsHeld DEF ExecuteSender, ExecuteSenderPoor, ExecuteNextOutput,
     ExecuteRecipient, ExecuteCreditAsk, ExecuteCredit, ExecuteSenderAsk,
     ExecuteDebit, ExecuteDone, ExecuteStore, ExecuteResult, engineData,
     Reached, Await, Drop, Keep, Return, Topped

\* The other steps leave the records alone and give nobody anything.
LEMMA OthersGiveNothing ==
  ASSUME ArgTypes, EngineTypes, IsFiniteSet(DOMAIN accounts), NEW t \in Tasks,
         \/ /\ BeginEngine(t) \/ ContinueEngine(t)
            /\ ~Executes(t)
         \/ (BeginUtxo(t, workload[t]) \/ ContinueUtxo(t))
            /\ UNCHANGED engineData
  PROVE  /\ pc[t] \notin KeepsMempool /\ pc'[t] \notin KeepsMempool
         /\ UNCHANGED <<transactions, executed>>
         /\ IsFiniteSet(DOMAIN accounts)' /\ Balances' = Balances
         /\ \A a : HeldBy(accounts', a) = HeldBy(accounts, a)
<1>a. pc \in [Tasks -> Points] /\ DOMAIN arg = Tasks
  BY DEF ArgTypes
<1>1. ASSUME UNCHANGED accounts
      PROVE  /\ IsFiniteSet(DOMAIN accounts)' /\ Balances' = Balances
             /\ \A a : HeldBy(accounts', a) = HeldBy(accounts, a)
  BY <1>1 DEF Balances, HeldBy
<1>2. ASSUME NEW a \in Addresses, GetOrCreateAccount(a)
      PROVE  /\ IsFiniteSet(DOMAIN accounts)' /\ Balances' = Balances
             /\ \A b : HeldBy(accounts', b) = HeldBy(accounts, b)
  BY <1>2, OpenKeepsBalances DEF EngineTypes
<1>3. CASE (BeginUtxo(t, workload[t]) \/ ContinueUtxo(t)) /\ UNCHANGED engineData
  <2>1. UNCHANGED <<accounts, transactions, executed>>
    BY <1>3 DEF engineData
  <2>2. pc[t] \notin KeepsMempool /\ pc'[t] \notin KeepsMempool
    <3>1. CASE BeginUtxo(t, workload[t])
      BY <1>a, <3>1 DEF BeginUtxo, AddUtxo, SpendUtxo, GetAddressUtxos,
         ValidateWithUtxoSet, CallUtxos, Enter, KeepsMempool, InExecution
    <3>2. CASE ContinueUtxo(t)
      BY <1>a, <3>2 DEF ContinueUtxo, AddInsert, AddIndex, SpendMark,
         SpendRefused, ListIndex, ListReport, ValidateInput, ValidateRefused,
         ValidateNext, ValidateAnswer, Reached, Await, Drop, Return,
         KeepsMempool, InExecution
    <3>3. QED
      BY <1>3, <3>1, <3>2
  <2>3. QED
    BY <1>1, <2>1, <2>2
<1>4. CASE BeginEngine(t)
  <2>1. UNCHANGED <<accounts, transactions, executed>>
    BY <1>4 DEF BeginEngine, SubmitTransaction, ExecuteTransaction, GetAccount,
       GetStats, Call, engineData
  <2>2. pc[t] \notin KeepsMempool /\ pc'[t] \notin KeepsMempool
    BY <1>a, <1>4 DEF BeginEngine, SubmitTransaction, ExecuteTransaction,
       GetAccount, GetStats, Call, Enter, KeepsMempool, InExecution
  <2>3. QED
    BY <1>1, <2>1, <2>2
<1>5. CASE SubmitAccount(t) \/ SubmitRefused(t)
  <2>1. /\ pc[t] = "sub_account" /\ pc'[t] \in {"idle", "sub_covered"}
        /\ GetOrCreateAccount(arg[t].tx.sender)
        /\ UNCHANGED <<transactions, executed>>
    BY <1>a, <1>5 DEF SubmitAccount, SubmitRefused, Reached, Drop, Return
  <2>2. arg[t].tx.sender \in Addresses
    <3>1. arg[t] \in [tx : Catalogue]
      BY <2>1, ArgShapes DEF ArgTypes, SubmitPoints
    <3>2. QED
      BY <3>1, CatalogueAssumption
  <2>3. pc[t] \notin KeepsMempool /\ pc'[t] \notin KeepsMempool
    BY <2>1 DEF KeepsMempool, InExecution
  <2>4. QED
    BY <1>2, <2>1, <2>2, <2>3
<1>6. CASE AccountReport(t)
  <2>1. /\ pc[t] = "get_account" /\ pc'[t] = "idle"
        /\ GetOrCreateAccount(arg[t].address)
        /\ UNCHANGED <<transactions, executed>>
    BY <1>a, <1>6 DEF AccountReport, Reached, Return
  <2>2. arg[t].address \in Addresses
    <3>1. arg[t] \in [address : Addresses]
      BY <2>1, ArgShapes DEF ArgTypes
    <3>2. QED
      BY <3>1
  <2>3. pc[t] \notin KeepsMempool /\ pc'[t] \notin KeepsMempool
    BY <2>1 DEF KeepsMempool, InExecution
  <2>4. QED
    BY <1>2, <2>1, <2>2, <2>3
<1>7. CASE SubmitAsk(t) \/ SubmitPush(t) \/ ExecuteNotFound(t) \/ StatsReport(t)
           \/ StatsAccounts(t) \/ StatsTransactions(t) \/ StatsMempool(t)
  <2>1. UNCHANGED <<accounts, transactions, executed>>
    BY <1>7 DEF SubmitAsk, SubmitPush, ExecuteNotFound, StatsReport,
       StatsAccounts, StatsTransactions, StatsMempool, StatsLock, engineData
  <2>2. pc[t] \notin KeepsMempool /\ pc'[t] \notin KeepsMempool
    BY <1>a, <1>7 DEF SubmitAsk, SubmitPush, ExecuteNotFound, StatsReport,
       StatsAccounts, StatsTransactions, StatsMempool, StatsLock, Reached,
       Await, Return, KeepsMempool, InExecution
  <2>3. QED
    BY <1>1, <2>1, <2>2
<1>8. QED
  BY <1>3, <1>4, <1>5, <1>6, <1>7 DEF ContinueEngine, Executes

\* What an execution carries.
LEMMA ExecutionTyped ==
  ASSUME ArgTypes, NEW t \in Tasks, pc[t] \in KeepsMempool
  PROVE  /\ arg[t] \in Execution /\ arg[t].tx \in Catalogue
         /\ arg[t].paid \in Nat /\ arg[t].tx.sender \in Addresses
         /\ arg[t].sender \in Account /\ arg[t].recipient \in Account
         /\ Len(arg[t].tx.outputs) \in Nat
         /\ pc[t] \in Crediting =>
              /\ arg[t].paid < Len(arg[t].tx.outputs)
              /\ Output(arg[t]) \in [recipient : Addresses, amount : Money]
<1>1. arg[t] \in Execution
  BY ExecutionArgs DEF ArgTypes, KeepsMempool
<1>2. /\ arg[t].tx \in Catalogue /\ arg[t].paid \in Nat
      /\ arg[t].sender \in Account /\ arg[t].recipient \in Account
  BY <1>1 DEF Execution
<1>3. /\ arg[t].tx.sender \in Addresses
      /\ arg[t].tx.outputs \in Seq([recipient : Addresses, amount : Money])
  BY <1>2, CatalogueAssumption
<1>4. Len(arg[t].tx.outputs) \in Nat
  BY <1>3
<1>5. pc[t] \in Crediting => arg[t].paid < Len(arg[t].tx.outputs)
  BY ExecutionArgs DEF ArgTypes
<1>6. QED
  BY <1>1, <1>2, <1>3, <1>4, <1>5, OutputTyped

\* A credit takes nothing away.
LEMMA ToppedTyped ==
  ASSUME NEW account \in Account,
         NEW output \in [recipient : Addresses, amount : Money]
  PROVE  /\ Topped(account, output) \in Account
         /\ Topped(account, output).balance
              = Plus(account.balance, output.amount)
         /\ Topped(account, output).balance >= account.balance
         /\ Topped(account, output).balance
              <= account.balance + output.amount
<1>1. /\ account.balance \in Money /\ output.amount \in Money
      /\ account \in [balance : Money, nonce : Nat]
  BY DEF Account
<1>2. Word \in Nat \ {0} /\ Money = 0..(Word - 1)
  BY AmountAssumption DEF Money
<1>3. Plus(account.balance, output.amount) \in Money
  BY <1>1, AmountsTyped
<1>4. /\ Plus(account.balance, output.amount) >= account.balance
      /\ Plus(account.balance, output.amount) <= account.balance + output.amount
  BY <1>1, <1>2 DEF Plus, Saturated
<1>5. Topped(account, output).balance = Plus(account.balance, output.amount)
  BY <1>1 DEF Topped
<1>6. Topped(account, output) \in Account
  BY <1>1, <1>3 DEF Topped, Account
<1>7. QED
  BY <1>4, <1>5, <1>6

\* What is left alone stays fresh.
LEMMA FreshStays ==
  ASSUME NEW u \in Tasks, CopiesFresh(u), pc'[u] = pc[u], arg'[u] = arg[u],
         \A a : HeldBy(accounts', a) = HeldBy(accounts, a)
  PROVE  CopiesFresh(u)'
<1>1. /\ HeldBy(accounts', arg[u].tx.sender) = HeldBy(accounts, arg[u].tx.sender)
      /\ HeldBy(accounts', Output(arg[u]).recipient) = HeldBy(accounts, Output(arg[u]).recipient)
  OBVIOUS
<1>2. QED
  BY <1>1 DEF CopiesFresh, Output

-----------------------------------------------------------------------------
(* No execution works on a stale copy.                                     *)

CopiesInv == IsFiniteSet(DOMAIN accounts) /\ \A t \in Tasks : CopiesFresh(t)

\* An execution keeps its own copies fresh.
LEMMA ExecuteKeepsFresh ==
  ASSUME EngineTypes, ArgTypes, CopiesInv, NEW t \in Tasks, Executes(t)
  PROVE  IsFiniteSet(DOMAIN accounts)' /\ CopiesFresh(t)'
<1>a. IsFiniteSet(DOMAIN accounts) /\ CopiesFresh(t) /\ AccountsTyped
  BY DEF CopiesInv, EngineTypes
<1>b. ASSUME UNCHANGED accounts
      PROVE  /\ IsFiniteSet(DOMAIN accounts)'
             /\ \A a : HeldBy(accounts', a) = HeldBy(accounts, a)
  BY <1>a, <1>b DEF HeldBy
<1>1. CASE ExecuteTake(t)
  <2>1. /\ pc'[t] = "exe_sender" /\ arg'[t].status = "Pending"
        /\ arg'[t].paid = 0 /\ UNCHANGED accounts
    BY <1>1, ExecuteSteps
  <2>2. QED
    BY <1>b, <2>1 DEF CopiesFresh, Unsettled, Settled, Crediting
<1>2. CASE ExecuteSender(t)
  <2> DEFINE tx == arg[t].tx
             account == HeldBy(accounts, tx.sender)
  <2>1. /\ pc[t] = "exe_sender" /\ pc'[t] = "exe_outputs"
        /\ GetOrCreateAccount(tx.sender) /\ account.balance >= Needed(tx)
        /\ arg'[t] = [arg[t] EXCEPT !.sender = Debited(account, tx)]
    BY <1>2, ExecuteSteps
  <2>2. /\ arg[t] \in Execution /\ tx \in Catalogue /\ tx.sender \in Addresses
        /\ Len(tx.outputs) \in Nat
    BY <2>1, ExecutionTyped DEF KeepsMempool, InExecution
  <2>3. IsFiniteSet(DOMAIN accounts)' /\ \A a : HeldBy(accounts', a) = HeldBy(accounts, a)
    BY <1>a, <2>1, <2>2, OpenKeepsBalances
  <2>4. arg[t].status = "Pending" /\ arg[t].paid = 0
    BY <1>a, <2>1 DEF CopiesFresh
  <2>5. /\ arg'[t].tx = tx /\ arg'[t].status = "Pending" /\ arg'[t].paid = 0
        /\ arg'[t].sender = Debited(account, tx)
    BY <2>1, <2>2, <2>4 DEF Execution
  <2>6. account.balance \in Nat /\ Needed(tx) \in Nat
    BY <1>a, <2>2, HeldByTyped, AmountsTyped DEF Account
  <2>7. Debited(account, tx).balance + Needed(tx) = account.balance
    BY <2>6 DEF Debited
  <2> HIDE DEF tx, account
  <2>8. HeldBy(accounts', arg'[t].tx.sender) = account
    BY <2>3, <2>5 DEF account
  <2>9. QED
    BY <2>1, <2>2, <2>3, <2>5, <2>6, <2>7, <2>8
       DEF CopiesFresh, Unsettled, Settled, Crediting
<1>3. CASE ExecuteSenderPoor(t)
  <2>1. /\ pc[t] = "exe_sender" /\ pc'[t] = "exe_done"
        /\ GetOrCreateAccount(arg[t].tx.sender)
        /\ arg'[t] = [arg[t] EXCEPT !.status = "Failed"]
    BY <1>3, ExecuteSteps
  <2>2. arg[t] \in Execution /\ arg[t].tx.sender \in Addresses
    BY <2>1, ExecutionTyped DEF KeepsMempool, InExecution
  <2>3. IsFiniteSet(DOMAIN accounts)'
    BY <1>a, <2>1, <2>2, OpenKeepsBalances
  <2>4. arg[t].paid = 0
    BY <1>a, <2>1 DEF CopiesFresh
  <2>5. arg'[t].status = "Failed" /\ arg'[t].paid = 0
    BY <2>1, <2>2, <2>4 DEF Execution
  <2>6. QED
    BY <2>1, <2>3, <2>5 DEF CopiesFresh, Unsettled, Settled, Crediting
<1>4. CASE ExecuteNextOutput(t)
  <2>1. /\ pc[t] = "exe_outputs" /\ pc'[t] = "exe_recipient"
        /\ arg' = arg /\ UNCHANGED accounts
    BY <1>4, ExecuteSteps
  <2>2. \A a : HeldBy(accounts', a) = HeldBy(accounts, a)
    BY <1>b, <2>1
  <2>3. HeldBy(accounts', arg[t].tx.sender) = HeldBy(accounts, arg[t].tx.sender)
    BY <2>2
  <2>4. QED
    BY <1>a, <1>b, <2>1, <2>3 DEF CopiesFresh, Unsettled, Settled, Crediting
<1>5. CASE ExecuteRecipient(t)
  <2> DEFINE output == Output(arg[t])
             topped == Topped(HeldBy(accounts, output.recipient), output)
  <2>1. /\ pc[t] = "exe_recipient" /\ pc'[t] = "exe_recipient_copied"
        /\ GetOrCreateAccount(output.recipient)
        /\ arg'[t] = [arg[t] EXCEPT !.recipient = topped]
    BY <1>5, ExecuteSteps
  <2>2. /\ arg[t] \in Execution
        /\ output \in [recipient : Addresses, amount : Money]
    BY <2>1, ExecutionTyped DEF KeepsMempool, InExecution, Crediting
  <2>3. IsFiniteSet(DOMAIN accounts)' /\ \A a : HeldBy(accounts', a) = HeldBy(accounts, a)
    BY <1>a, <2>1, <2>2, OpenKeepsBalances
  <2>4. /\ arg'[t].tx = arg[t].tx /\ arg'[t].status = arg[t].status
        /\ arg'[t].paid = arg[t].paid /\ arg'[t].sender = arg[t].sender
        /\ arg'[t].recipient = topped
    BY <2>1, <2>2 DEF Execution
  <2>5. Output(arg'[t]) = output
    BY <2>4 DEF Output
  <2> HIDE DEF output
  <2>6. /\ HeldBy(accounts', arg'[t].tx.sender) = HeldBy(accounts, arg[t].tx.sender)
        /\ HeldBy(accounts', Output(arg'[t]).recipient) = HeldBy(accounts, output.recipient)
    BY <2>3, <2>4, <2>5
  <2>7. Output(arg[t])' = Output(arg'[t])
    BY DEF Output
  <2>8. QED
    BY <1>a, <2>1, <2>3, <2>4, <2>5, <2>6, <2>7
       DEF CopiesFresh, Unsettled, Settled, Crediting
<1>6. CASE ExecuteCreditAsk(t)
  <2>1. /\ pc[t] = "exe_recipient_copied" /\ pc'[t] = "exe_credit"
        /\ arg' = arg /\ UNCHANGED accounts
    BY <1>6, ExecuteSteps
  <2>2. \A a : HeldBy(accounts', a) = HeldBy(accounts, a)
    BY <1>b, <2>1
  <2>3. /\ HeldBy(accounts', arg[t].tx.sender) = HeldBy(accounts, arg[t].tx.sender)
        /\ HeldBy(accounts', Output(arg[t]).recipient)
             = HeldBy(accounts, Output(arg[t]).recipient)
    BY <2>1, <2>2
  <2>4. QED
    BY <1>a, <1>b, <2>1, <2>3
       DEF CopiesFresh, Unsettled, Settled, Crediting, Output
<1>7. CASE ExecuteCredit(t)
  <2> DEFINE output == Output(arg[t])
             tx == arg[t].tx
  <2>1. /\ pc[t] = "exe_credit" /\ pc'[t] = "exe_outputs"
        /\ Store(output.recipient, arg[t].recipient)
        /\ arg'[t] = [arg[t] EXCEPT !.paid = arg[t].paid + 1]
    BY <1>7, ExecuteSteps
  <2>2. /\ arg[t] \in Execution /\ arg[t].recipient \in Account
        /\ arg[t].sender \in Account /\ tx \in Catalogue
        /\ arg[t].paid \in Nat /\ Len(tx.outputs) \in Nat
        /\ arg[t].paid < Len(tx.outputs)
        /\ output \in [recipient : Addresses, amount : Money]
    BY <2>1, ExecutionTyped DEF KeepsMempool, InExecution, Crediting
  <2>3. /\ IsFiniteSet(DOMAIN accounts)'
        /\ HeldBy(accounts', output.recipient) = arg[t].recipient
        /\ \A b : b # output.recipient => HeldBy(accounts', b) = HeldBy(accounts, b)
    BY <1>a, <2>1, <2>2, StoreChangesBalances
  <2>4. /\ arg'[t].tx = tx /\ arg'[t].status = arg[t].status
        /\ arg'[t].paid = arg[t].paid + 1 /\ arg'[t].sender = arg[t].sender
    BY <2>1, <2>2 DEF Execution
  <2>5. /\ arg[t].recipient = Topped(HeldBy(accounts, output.recipient), output)
        /\ arg[t].status = "Pending"
        /\ HeldBy(accounts, tx.sender).balance >= arg[t].sender.balance + Needed(tx)
    BY <1>a, <2>1 DEF CopiesFresh, Unsettled, Crediting
  <2> HIDE DEF output, tx
  <2>6. HeldBy(accounts', tx.sender).balance >= HeldBy(accounts, tx.sender).balance
        /\ HeldBy(accounts', tx.sender).balance \in Nat
    <3>1. HeldBy(accounts, tx.sender) \in Account /\ HeldBy(accounts, output.recipient) \in Account
      BY <1>a, HeldByTyped
    <3>2. CASE tx.sender = output.recipient
      <4>1. HeldBy(accounts', tx.sender) = Topped(HeldBy(accounts, tx.sender), output)
        BY <2>3, <2>5, <3>2
      <4>2. QED
        BY <2>2, <3>1, <4>1, ToppedTyped, AmountsTyped DEF Account
    <3>3. CASE tx.sender # output.recipient
      <4>1. HeldBy(accounts', tx.sender) = HeldBy(accounts, tx.sender)
        BY <2>3, <3>3
      <4>2. HeldBy(accounts, tx.sender).balance \in Nat
        BY <3>1, AmountsTyped DEF Account
      <4>3. QED
        BY <4>1, <4>2
    <3>4. QED
      BY <3>2, <3>3
  <2>7. /\ HeldBy(accounts, tx.sender).balance \in Nat /\ arg[t].sender.balance \in Nat
        /\ Needed(tx) \in Nat
    BY <1>a, <2>2, HeldByTyped, AmountsTyped DEF Account
  <2>8. HeldBy(accounts', tx.sender).balance >= arg'[t].sender.balance + Needed(tx)
    BY <2>4, <2>5, <2>6, <2>7
  <2>9. QED
    BY <2>1, <2>2, <2>3, <2>4, <2>5, <2>8
       DEF CopiesFresh, Unsettled, Settled, Crediting
<1>8. CASE ExecuteSenderAsk(t)
  <2>1. /\ pc[t] = "exe_outputs" /\ pc'[t] = "exe_debit"
        /\ arg[t].paid = Len(arg[t].tx.outputs)
        /\ arg' = arg /\ UNCHANGED accounts
    BY <1>8, ExecuteSteps
  <2>2. \A a : HeldBy(accounts', a) = HeldBy(accounts, a)
    BY <1>b, <2>1
  <2>3. HeldBy(accounts', arg[t].tx.sender) = HeldBy(accounts, arg[t].tx.sender)
    BY <2>2
  <2>4. QED
    BY <1>a, <1>b, <2>1, <2>3 DEF CopiesFresh, Unsettled, Settled, Crediting
<1>9. CASE ExecuteDebit(t)
  <2>1. /\ pc[t] = "exe_debit" /\ pc'[t] = "exe_done"
        /\ Store(arg[t].tx.sender, arg[t].sender)
        /\ arg'[t] = [arg[t] EXCEPT !.status = "Confirmed"]
    BY <1>9, ExecuteSteps
  <2>2. /\ arg[t] \in Execution /\ arg[t].tx.sender \in Addresses
        /\ arg[t].sender \in Account
    BY <2>1, ExecutionTyped DEF KeepsMempool, InExecution
  <2>3. IsFiniteSet(DOMAIN accounts)'
    BY <1>a, <2>1, <2>2, StoreChangesBalances
  <2>4. arg'[t].status = "Confirmed"
    BY <2>1, <2>2 DEF Execution
  <2>5. QED
    BY <2>1, <2>3, <2>4 DEF CopiesFresh, Unsettled, Settled, Crediting
<1>10. CASE ExecuteDone(t)
  <2>1. /\ pc[t] = "exe_done" /\ pc'[t] = "exe_transactions"
        /\ arg' = arg /\ UNCHANGED accounts
    BY <1>10, ExecuteSteps
  <2>2. QED
    BY <1>a, <1>b, <2>1 DEF CopiesFresh, Unsettled, Settled, Crediting
<1>11. CASE ExecuteStore(t) \/ ExecuteResult(t)
  <2>1. pc'[t] \in {"exe_executed", "idle"} /\ UNCHANGED accounts
    BY <1>11, ExecuteSteps
  <2>2. QED
    BY <1>b, <2>1 DEF CopiesFresh, Unsettled, Settled, Crediting
<1>12. QED
  BY <1>1, <1>2, <1>3, <1>4, <1>5, <1>6, <1>7, <1>8, <1>9, <1>10, <1>11
     DEF Executes

\* Every reachable state: no execution works on stale copies.
THEOREM CopiesFreshHolds == Spec => []CopiesInv
<1>1. Init => CopiesInv
  <2>1. SUFFICES ASSUME Init PROVE CopiesInv
    OBVIOUS
  <2>2. IsFiniteSet(DOMAIN accounts)
    <3>1. DOMAIN accounts = {}
      BY <2>1 DEF Init
    <3>2. QED
      BY <3>1, FS_EmptySet
  <2>3. \A t \in Tasks : pc[t] = "idle"
    BY <2>1 DEF Init, NoCalls
  <2>4. QED
    BY <2>2, <2>3 DEF CopiesInv, CopiesFresh, Unsettled, Settled, Crediting
<1>2. TypeOK /\ GuardsHeld /\ CopiesInv /\ [Next]_vars => CopiesInv'
  <2>1. SUFFICES ASSUME TypeOK, GuardsHeld, CopiesInv, [Next]_vars
                 PROVE  CopiesInv'
    OBVIOUS
  <2>2. EngineTypes /\ ArgTypes
    BY <2>1, TypesSplit
  <2>3. CASE UNCHANGED vars
    <3>1. /\ UNCHANGED <<accounts, pc, arg>>
          /\ \A a : HeldBy(accounts', a) = HeldBy(accounts, a)
      BY <2>3 DEF vars, taskVars, engineData, HeldBy
    <3>2. QED
      BY <2>1, <3>1, FreshStays DEF CopiesInv
  <2>4. ASSUME NEW t \in Tasks,
               \/ (BeginEngine(t) \/ ContinueEngine(t)) /\ UNCHANGED utxoData
               \/ (BeginUtxo(t, workload[t]) \/ ContinueUtxo(t))
                  /\ UNCHANGED engineData
        PROVE  CopiesInv'
    <3>1. \A u \in Tasks \ {t} : pc'[u] = pc[u] /\ arg'[u] = arg[u]
      BY <2>2, <2>4, OthersStay DEF ArgTypes
    <3>2. CASE Executes(t)
      <4>1. \A u \in Tasks \ {t} : pc'[u] \notin KeepsMempool
        BY <2>1, <3>1, <3>2, ExecutesAlone
      <4>2. \A u \in Tasks \ {t} : CopiesFresh(u)'
        BY <4>1 DEF CopiesFresh, Unsettled, Settled, Crediting, KeepsMempool,
           InExecution
      <4>3. IsFiniteSet(DOMAIN accounts)' /\ CopiesFresh(t)'
        BY <2>1, <2>2, <3>2, ExecuteKeepsFresh
      <4>4. QED
        BY <4>2, <4>3 DEF CopiesInv
    <3>3. CASE ~Executes(t)
      <4>1. /\ pc'[t] \notin KeepsMempool /\ IsFiniteSet(DOMAIN accounts)'
            /\ \A a : HeldBy(accounts', a) = HeldBy(accounts, a)
        BY <2>1, <2>2, <2>4, <3>3, OthersGiveNothing DEF CopiesInv
      <4>2. CopiesFresh(t)'
        BY <4>1 DEF CopiesFresh, Unsettled, Settled, Crediting, KeepsMempool,
           InExecution
      <4>3. \A u \in Tasks \ {t} : CopiesFresh(u)'
        BY <2>1, <3>1, <4>1, FreshStays DEF CopiesInv
      <4>4. QED
        BY <4>1, <4>2, <4>3 DEF CopiesInv
    <3>4. QED
      BY <3>2, <3>3
  <2>5. QED
    BY <2>1, <2>3, <2>4 DEF Next
<1>3. QED
  BY <1>1, <1>2, CallsHoldGuards, EngineTypeCorrect, PTL DEF Spec

-----------------------------------------------------------------------------
(* Where the money comes from.                                            *)

\* What confirming a transaction creates is no debt, and what it costs covers
\* the wrapped sum of its outputs.
LEMMA CreatedTyped ==
  ASSUME NEW tx \in Catalogue
  PROVE  /\ Total(tx.outputs) \in Nat /\ TotalOutput(tx) \in Nat
         /\ Created(tx) \in Nat
         /\ Created(tx) + TotalOutput(tx) = Total(tx.outputs)
         /\ Needed(tx) \in Nat /\ Needed(tx) >= TotalOutput(tx)
<1>1. Total(tx.outputs) \in Nat
  <2>1. tx.outputs \in Seq([recipient : Addresses, amount : Money])
    BY CatalogueAssumption
  <2>2. Len(tx.outputs) \in Nat
    BY <2>1
  <2>3. QED
    BY <2>2, PaidGrows DEF Total
<1>2. Word \in Nat \ {0}
  BY AmountAssumption
<1>3. \A n \in Nat : n % Word \in 0..(Word - 1) /\ n % Word <= n
  BY <1>2
<1>4. TotalOutput(tx) \in 0..(Word - 1) /\ TotalOutput(tx) <= Total(tx.outputs)
  BY <1>1, <1>3 DEF TotalOutput, Wrapped
<1>5. tx.fee \in Nat
  BY CatalogueAssumption, <1>2 DEF Money
<1>6. Needed(tx) \in Nat /\ Needed(tx) >= TotalOutput(tx)
  BY <1>2, <1>4, <1>5 DEF Needed, Plus, Saturated
<1>7. QED
  BY <1>1, <1>2, <1>4, <1>6 DEF Created

\* One record more adds what it created.
LEMMA CreatedAppends ==
  ASSUME NEW records \in Seq([tx : Catalogue, status : Statuses]),
         NEW record \in [tx : Catalogue, status : Statuses]
  PROVE  /\ CreatedIn(records) \in Nat /\ CreatedBy(record) \in Nat
         /\ CreatedIn(Append(records, record))
              = CreatedIn(records) + CreatedBy(record)
<1> DEFINE n == Len(records)
           longer == Append(records, record)
           before == [i \in 1..n |-> CreatedBy(records[i])]
           after == [i \in 1..(n + 1) |-> CreatedBy(longer[i])]
           D == 1..n
           next == n + 1
<1>1. \A r \in [tx : Catalogue, status : Statuses] : CreatedBy(r) \in Nat
  BY CreatedTyped DEF CreatedBy
<1>2. /\ n \in Nat /\ Len(longer) = n + 1 /\ longer[n + 1] = record
      /\ \A i \in 1..n : longer[i] = records[i]
               /\ records[i] \in [tx : Catalogue, status : Statuses]
  <2>1. \A i \in 1..n : records[i] \in [tx : Catalogue, status : Statuses]
    BY ElementOfSeq
  <2>2. QED
    BY <2>1
<1>3. /\ CreatedIn(records) = SumFunctionOnSet(before, D)
      /\ CreatedIn(longer) = SumFunctionOnSet(after, 1..next)
  BY <1>2 DEF CreatedIn, SumFunction
<1>4. IsFiniteSet(D) /\ next \notin D /\ D \cup {next} = 1..next
  <2>1. n \in Int /\ 1 \in Int
    BY <1>2
  <2> HIDE DEF n
  <2>2. IsFiniteSet(1..n)
    BY <2>1, FS_Interval, Zenon
  <2>3. next \notin D /\ D \cup {next} = 1..next
    BY <1>2
  <2>4. QED
    BY <2>2, <2>3
<1>5. /\ \A i \in D : before[i] \in Nat
      /\ \A i \in D \cup {next} : after[i] \in Nat
      /\ \A i \in D : before[i] = after[i]
      /\ after[next] = CreatedBy(record)
  BY <1>1, <1>2
<1> HIDE DEF n, longer, before, after, D, next
<1>6. SumFunctionOnSet(before, D) \in Nat
  BY <1>4, <1>5, SumIsNat
<1>7. SumFunctionOnSet(after, D \cup {next})
        = SumFunctionOnSet(before, D) + after[next]
  <2>1. IsFiniteSet(D) /\ next \notin D
    BY <1>4
  <2>2. \A i \in D \cup {next} : after[i] \in Nat
    BY <1>5
  <2>3. \A i \in D : before[i] = after[i]
    BY <1>5
  <2>4. QED
    BY <2>1, <2>2, <2>3, SumAdd
<1>8. CreatedIn(longer) = CreatedIn(records) + CreatedBy(record)
  BY <1>3, <1>4, <1>5, <1>7
<1>9. QED
  BY <1>1, <1>3, <1>6, <1>8 DEF longer

\* What executions have credited ahead of their debits.
AheadOf(tasks, calls) == SumFunction([t \in tasks |-> Ahead(calls[t])])

\* At most one execution has.
LEMMA AheadOfFew ==
  /\ \A calls : AheadOf({}, calls) = 0
  /\ \A calls, t : Ahead(calls[t]) \in Nat =>
       AheadOf({t}, calls) = Ahead(calls[t])
<1>1. \A calls : AheadOf({}, calls) = 0
  BY SumOfFew DEF AheadOf, SumFunction
<1>2. ASSUME NEW calls, NEW t, Ahead(calls[t]) \in Nat
      PROVE  AheadOf({t}, calls) = Ahead(calls[t])
  <2> DEFINE fun == [u \in {t} |-> Ahead(calls[u])]
  <2>1. fun[t] = Ahead(calls[t]) /\ DOMAIN fun = {t}
    OBVIOUS
  <2>2. AheadOf({t}, calls) = SumFunctionOnSet(fun, {t})
    BY DEF AheadOf, SumFunction
  <2> HIDE DEF fun
  <2>3. QED
    BY <1>2, <2>1, <2>2, SumOfFew
<1>3. QED
  BY <1>1, <1>2

\* An execution is ahead by a number.
LEMMA AheadTyped ==
  ASSUME NEW call \in Execution, call.paid <= Len(call.tx.outputs)
  PROVE  Ahead(call) \in Nat
<1>1. call.tx \in Catalogue /\ call.paid \in Nat
  BY DEF Execution
<1>2. Len(call.tx.outputs) \in Nat
  <2>1. call.tx.outputs \in Seq([recipient : Addresses, amount : Money])
    BY <1>1, CatalogueAssumption
  <2>2. QED
    BY <2>1
<1>3. PaidByFirst(call.tx.outputs, call.paid) \in Nat
  BY <1>1, <1>2, PaidGrows
<1>4. QED
  BY <1>1, <1>3, CreatedTyped DEF Ahead

\* All balances together, and all that was created, are numbers.
LEMMA SumsTyped ==
  ASSUME EngineTypes, IsFiniteSet(DOMAIN accounts)
  PROVE  Balances \in Nat /\ CreatedIn(transactions) \in Nat
<1> DEFINE book == [b \in DOMAIN accounts |-> accounts[b].balance]
           size == Len(transactions)
           created == [i \in 1..size |-> CreatedBy(transactions[i])]
<1>1. Balances = SumFunctionOnSet(book, DOMAIN accounts)
  BY DEF Balances, SumFunction
<1>2. \A b \in DOMAIN accounts : book[b] \in Nat
  BY AmountsTyped DEF EngineTypes, AccountsTyped, Account
<1>3. CreatedIn(transactions) = SumFunctionOnSet(created, 1..size)
  BY DEF CreatedIn, SumFunction
<1>4. /\ size \in Nat
      /\ \A i \in 1..size :
           transactions[i] \in [tx : Catalogue, status : Statuses]
  <2>1. transactions \in Seq([tx : Catalogue, status : Statuses])
    BY DEF EngineTypes
  <2>2. size \in Nat
    BY <2>1
  <2>3. \A i \in 1..Len(transactions) :
          transactions[i] \in [tx : Catalogue, status : Statuses]
    BY <2>1, ElementOfSeq
  <2>4. QED
    BY <2>2, <2>3
<1>5. \A i \in 1..size : created[i] \in Nat
  BY <1>4, CreatedTyped DEF CreatedBy
<1>6. IsFiniteSet(1..size)
  BY <1>4, FS_Interval
<1> HIDE DEF book, created, size
<1>7. QED
  BY <1>1, <1>2, <1>3, <1>5, <1>6, SumIsNat

\* A step of an execution keeps the bound: what it credits it is ahead by
\* until it debits its sender, and what is left then it has created.
LEMMA ExecuteKeepsMoney ==
  ASSUME EngineTypes, ArgTypes, ArgTypes', CopiesInv, MoneyFromWrapsOnly,
         NEW t \in Tasks, Executes(t),
         \A u \in Tasks \ {t} : pc[u] \notin KeepsMempool /\ pc'[u] = pc[u]
  PROVE  MoneyFromWrapsOnly'
<1> DEFINE C == CreatedIn(transactions)
           ahead == AheadOf(Executing, arg)
           ahead2 == AheadOf(Executing', arg')
<1>a. /\ IsFiniteSet(DOMAIN accounts) /\ CopiesFresh(t) /\ AccountsTyped
      /\ transactions \in Seq([tx : Catalogue, status : Statuses])
  BY DEF CopiesInv, EngineTypes
<1>b. /\ Balances <= C + ahead
      /\ MoneyFromWrapsOnly' <=> Balances' <= CreatedIn(transactions)' + ahead2
  BY DEF MoneyFromWrapsOnly, AheadOf
<1>c. /\ Executing = IF pc[t] \in InExecution THEN {t} ELSE {}
      /\ Executing' = IF pc'[t] \in InExecution THEN {t} ELSE {}
  BY DEF Executing, KeepsMempool
<1>d. Balances \in Nat /\ C \in Nat
  BY <1>a, SumsTyped
<1>e. UNCHANGED transactions => CreatedIn(transactions)' = C
  OBVIOUS
<1>f. UNCHANGED accounts => Balances' = Balances
  BY DEF Balances
<1>g. \A p \in InExecution : pc[t] = p =>
        /\ Executing = {t}
        /\ Ahead(arg[t]) \in Nat => ahead = Ahead(arg[t])
  BY <1>c, AheadOfFew
<1>h. \A p \in InExecution : pc'[t] = p =>
        /\ Executing' = {t}
        /\ Ahead(arg'[t]) \in Nat => ahead2 = Ahead(arg'[t])
  BY <1>c, AheadOfFew
<1>i. /\ pc[t] \notin InExecution => ahead = 0
      /\ pc'[t] \notin InExecution => ahead2 = 0
  BY <1>c, AheadOfFew
<1>j. ASSUME pc[t] \in InExecution, pc'[t] \in InExecution,
             Ahead(arg'[t]) = Ahead(arg[t]), Ahead(arg[t]) \in Nat,
             UNCHANGED transactions, Balances' = Balances
      PROVE  MoneyFromWrapsOnly'
  BY <1>b, <1>e, <1>g, <1>h, <1>j
<1> HIDE DEF ahead, ahead2, C
<1>1. CASE ExecuteTake(t)
  <2>1. /\ pc[t] = "exe_mempool" /\ pc'[t] = "exe_sender"
        /\ arg'[t].status = "Pending" /\ arg'[t].paid = 0
        /\ UNCHANGED <<accounts, transactions>>
    BY <1>1, ExecuteSteps
  <2>2. arg'[t].tx \in Catalogue
    BY <2>1, ExecutionArgs DEF ArgTypes, InExecution, Execution
  <2>3. Ahead(arg'[t]) = 0
    BY <2>1, <2>2, PaidGrows DEF Ahead
  <2>4. ahead = 0 /\ ahead2 = 0
    BY <1>h, <1>i, <2>1, <2>3 DEF InExecution
  <2>5. QED
    BY <1>b, <1>e, <1>f, <2>1, <2>4
<1>2. CASE ExecuteSender(t) \/ ExecuteSenderPoor(t)
  <2>1. /\ pc[t] = "exe_sender" /\ pc'[t] \in {"exe_outputs", "exe_done"}
        /\ GetOrCreateAccount(arg[t].tx.sender) /\ UNCHANGED transactions
        /\ \/ \E a : arg'[t] = [arg[t] EXCEPT !.sender = a]
           \/ arg'[t] = [arg[t] EXCEPT !.status = "Failed"]
    BY <1>2, ExecuteSteps
  <2>2. arg[t] \in Execution /\ arg[t].tx.sender \in Addresses
        /\ Len(arg[t].tx.outputs) \in Nat
    BY <2>1, ExecutionTyped DEF KeepsMempool, InExecution
  <2>3. arg[t].status = "Pending" /\ arg[t].paid = 0
    BY <1>a, <2>1 DEF CopiesFresh
  <2>4. /\ arg'[t].tx = arg[t].tx /\ arg'[t].paid = 0
        /\ arg'[t].status # "Confirmed"
    BY <2>1, <2>2, <2>3 DEF Execution
  <2>5. Ahead(arg'[t]) = Ahead(arg[t]) /\ Ahead(arg[t]) \in Nat
    BY <2>2, <2>3, <2>4, AheadTyped DEF Ahead
  <2>6. Balances' = Balances
    BY <1>a, <2>1, <2>2, OpenKeepsBalances
  <2>7. QED
    BY <1>j, <2>1, <2>5, <2>6 DEF InExecution
<1>3. CASE ExecuteNextOutput(t) \/ ExecuteCreditAsk(t) \/ ExecuteSenderAsk(t)
           \/ ExecuteDone(t)
  <2>1. /\ pc[t] \in {"exe_outputs", "exe_recipient_copied", "exe_done"}
        /\ pc'[t] \in InExecution /\ arg' = arg
        /\ UNCHANGED <<accounts, transactions>>
    BY <1>3, ExecuteSteps DEF InExecution
  <2>2. arg[t] \in Execution /\ Len(arg[t].tx.outputs) \in Nat
    BY <2>1, ExecutionTyped DEF KeepsMempool, InExecution
  <2>3. arg[t].paid <= Len(arg[t].tx.outputs) \/ arg[t].status = "Confirmed"
    BY <1>a, <2>1, <2>2 DEF CopiesFresh, Unsettled, Settled, Crediting
  <2>4. Ahead(arg[t]) \in Nat
    <3>1. CASE arg[t].status = "Confirmed"
      BY <2>2, <3>1, CreatedTyped DEF Ahead, Execution
    <3>2. CASE arg[t].paid <= Len(arg[t].tx.outputs)
      BY <2>2, <3>2, AheadTyped
    <3>3. QED
      BY <2>3, <3>1, <3>2
  <2>5. QED
    BY <1>f, <1>j, <2>1, <2>4 DEF InExecution
<1>4. CASE ExecuteRecipient(t)
  <2>1. /\ pc[t] = "exe_recipient" /\ pc'[t] = "exe_recipient_copied"
        /\ GetOrCreateAccount(Output(arg[t]).recipient)
        /\ \E a : arg'[t] = [arg[t] EXCEPT !.recipient = a]
        /\ UNCHANGED transactions
    BY <1>4, ExecuteSteps
  <2>2. /\ arg[t] \in Execution /\ arg[t].paid \in Nat
        /\ Len(arg[t].tx.outputs) \in Nat
        /\ arg[t].paid < Len(arg[t].tx.outputs)
        /\ Output(arg[t]).recipient \in Addresses
    BY <2>1, ExecutionTyped DEF KeepsMempool, InExecution, Crediting
  <2>3. /\ arg'[t].tx = arg[t].tx /\ arg'[t].paid = arg[t].paid
        /\ arg'[t].status = arg[t].status
    BY <2>1, <2>2 DEF Execution
  <2>4. Ahead(arg'[t]) = Ahead(arg[t]) /\ Ahead(arg[t]) \in Nat
    BY <2>2, <2>3, AheadTyped DEF Ahead
  <2>5. Balances' = Balances
    BY <1>a, <2>1, <2>2, OpenKeepsBalances
  <2>6. QED
    BY <1>j, <2>1, <2>4, <2>5 DEF InExecution
<1>5. CASE ExecuteCredit(t)
  <2> DEFINE output == Output(arg[t])
             outputs == arg[t].tx.outputs
             account == HeldBy(accounts, output.recipient)
  <2>1. /\ pc[t] = "exe_credit" /\ pc'[t] = "exe_outputs"
        /\ Store(output.recipient, arg[t].recipient)
        /\ arg'[t] = [arg[t] EXCEPT !.paid = arg[t].paid + 1]
        /\ UNCHANGED transactions
    BY <1>5, ExecuteSteps
  <2>2. /\ arg[t] \in Execution /\ arg[t].tx \in Catalogue
        /\ arg[t].recipient \in Account
        /\ arg[t].paid \in Nat /\ Len(outputs) \in Nat
        /\ arg[t].paid < Len(outputs)
        /\ output \in [recipient : Addresses, amount : Money]
    BY <2>1, ExecutionTyped DEF KeepsMempool, InExecution, Crediting
  <2>3. /\ Balances' \in Nat
        /\ Balances' + account.balance = Balances + arg[t].recipient.balance
    BY <1>a, <2>1, <2>2, StoreChangesBalances
  <2>4. arg[t].status = "Pending" /\ arg[t].recipient = Topped(account, output)
    BY <1>a, <2>1 DEF CopiesFresh, Unsettled, Crediting
  <2>5. /\ arg'[t].tx = arg[t].tx /\ arg'[t].paid = arg[t].paid + 1
        /\ arg'[t].status = "Pending"
    BY <2>1, <2>2, <2>4 DEF Execution
  <2>6. /\ account.balance \in Nat /\ arg[t].recipient.balance \in Nat
        /\ output.amount \in Nat
        /\ arg[t].recipient.balance <= account.balance + output.amount
    <3>1. account \in Account
      BY <1>a, HeldByTyped
    <3>2. arg[t].recipient.balance <= account.balance + output.amount
      BY <2>2, <2>4, <3>1, ToppedTyped
    <3>3. QED
      BY <2>2, <3>1, <3>2, AmountsTyped DEF Account
  <2>7. /\ PaidByFirst(outputs, arg[t].paid) \in Nat
        /\ PaidByFirst(outputs, arg[t].paid + 1)
             = PaidByFirst(outputs, arg[t].paid) + output.amount
    <3> DEFINE n == arg[t].paid + 1
    <3>1. n \in 1..Len(outputs) /\ n - 1 = arg[t].paid
          /\ arg[t].paid \in 0..Len(outputs)
      BY <2>2
    <3> HIDE DEF n
    <3>2. /\ PaidByFirst(outputs, arg[t].paid) \in Nat
          /\ PaidByFirst(outputs, n)
               = PaidByFirst(outputs, n - 1) + outputs[n].amount
      BY <2>2, <3>1, PaidGrows
    <3>3. QED
      BY <3>1, <3>2 DEF n, Output
  <2>8. /\ Ahead(arg[t]) = PaidByFirst(outputs, arg[t].paid)
        /\ Ahead(arg'[t]) = PaidByFirst(outputs, arg[t].paid + 1)
    BY <2>4, <2>5 DEF Ahead
  <2> HIDE DEF output, outputs, account
  <2>9. /\ ahead = Ahead(arg[t]) /\ ahead2 = Ahead(arg'[t])
        /\ ahead \in Nat /\ ahead2 = ahead + output.amount
    BY <1>g, <1>h, <2>1, <2>6, <2>7, <2>8 DEF InExecution
  <2>10. QED
    BY <1>b, <1>d, <1>e, <2>1, <2>3, <2>6, <2>9
<1>6. CASE ExecuteDebit(t)
  <2> DEFINE tx == arg[t].tx
             account == HeldBy(accounts, tx.sender)
  <2>1. /\ pc[t] = "exe_debit" /\ pc'[t] = "exe_done"
        /\ Store(tx.sender, arg[t].sender)
        /\ arg'[t] = [arg[t] EXCEPT !.status = "Confirmed"]
        /\ UNCHANGED transactions
    BY <1>6, ExecuteSteps
  <2>2. /\ arg[t] \in Execution /\ tx \in Catalogue
        /\ arg[t].sender \in Account /\ tx.sender \in Addresses
        /\ Len(tx.outputs) \in Nat
    BY <2>1, ExecutionTyped DEF KeepsMempool, InExecution
  <2>3. /\ Balances' \in Nat
        /\ Balances' + account.balance = Balances + arg[t].sender.balance
    BY <1>a, <2>1, <2>2, StoreChangesBalances
  <2>4. /\ arg[t].status = "Pending" /\ arg[t].paid = Len(tx.outputs)
        /\ account.balance >= arg[t].sender.balance + Needed(tx)
    BY <1>a, <2>1 DEF CopiesFresh, Unsettled
  <2>5. arg'[t].tx = tx /\ arg'[t].status = "Confirmed"
    BY <2>1, <2>2 DEF Execution
  <2>6. account.balance \in Nat /\ arg[t].sender.balance \in Nat
    BY <1>a, <2>2, HeldByTyped, AmountsTyped DEF Account
  <2>7. Ahead(arg[t]) = Total(tx.outputs) /\ Ahead(arg'[t]) = Created(tx)
    BY <2>4, <2>5 DEF Ahead, Total
  <2> HIDE DEF tx, account
  <2>8. /\ Total(tx.outputs) \in Nat /\ TotalOutput(tx) \in Nat
        /\ Created(tx) \in Nat
        /\ Created(tx) + TotalOutput(tx) = Total(tx.outputs)
        /\ Needed(tx) \in Nat /\ Needed(tx) >= TotalOutput(tx)
    BY <2>2, CreatedTyped
  <2>9. ahead = Total(tx.outputs) /\ ahead2 = Created(tx)
    BY <1>g, <1>h, <2>1, <2>7, <2>8 DEF InExecution
  <2>10. Balances' + Needed(tx) <= Balances
    <3> DEFINE had == account.balance
               left == arg[t].sender.balance
               cost == Needed(tx)
               total == Balances
               total2 == Balances'
    <3>1. /\ had \in Nat /\ left \in Nat /\ cost \in Nat
          /\ total \in Nat /\ total2 \in Nat
          /\ total2 + had = total + left /\ had >= left + cost
      BY <1>d, <2>3, <2>4, <2>6, <2>8
    <3> HIDE DEF had, left, cost, total, total2
    <3>2. total2 + cost <= total
      BY <3>1
    <3>3. QED
      BY <3>2 DEF cost, total, total2
  <2>11. Balances' <= C + ahead2
    <3>1. Balances <= C + Total(tx.outputs)
      BY <1>b, <2>9
    <3>2. Balances' + TotalOutput(tx) <= C + Total(tx.outputs)
      BY <1>d, <2>3, <2>8, <2>10, <3>1
    <3>3. QED
      BY <1>d, <2>3, <2>8, <2>9, <3>2
  <2>12. QED
    BY <1>b, <1>e, <2>1, <2>11
<1>7. CASE ExecuteStore(t)
  <2> DEFINE record == [tx |-> arg[t].tx, status |-> arg[t].status]
  <2>1. /\ pc[t] = "exe_transactions" /\ pc'[t] = "exe_executed"
        /\ transactions' = Append(transactions, record)
        /\ UNCHANGED accounts
    BY <1>7, ExecuteSteps
  <2>2. arg[t] \in Execution /\ arg[t].tx \in Catalogue
    BY <2>1, ExecutionTyped DEF KeepsMempool, InExecution
  <2>3. record \in [tx : Catalogue, status : Statuses]
    BY <2>2 DEF Execution
  <2>4. CreatedBy(record) = Ahead(arg[t]) /\ Ahead(arg[t]) \in Nat
    <3>1. CASE arg[t].status = "Confirmed"
      BY <2>2, <3>1, CreatedTyped DEF CreatedBy, Ahead
    <3>2. CASE arg[t].status # "Confirmed"
      <4>1. arg[t].paid = 0
        BY <1>a, <2>1, <3>2 DEF CopiesFresh, Settled
      <4>2. QED
        BY <2>2, <3>2, <4>1, PaidGrows DEF CreatedBy, Ahead
    <3>3. QED
      BY <3>1, <3>2
  <2> HIDE DEF record
  <2>5. CreatedIn(transactions)' = C + CreatedBy(record)
    BY <1>a, <2>1, <2>3, CreatedAppends DEF C
  <2>6. ahead = Ahead(arg[t]) /\ ahead2 = 0
    BY <1>g, <1>i, <2>1, <2>4 DEF InExecution
  <2>7. QED
    BY <1>b, <1>d, <1>f, <2>1, <2>4, <2>5, <2>6
<1>8. CASE ExecuteResult(t)
  <2>1. /\ pc[t] = "exe_executed" /\ pc'[t] = "idle"
        /\ UNCHANGED <<accounts, transactions>>
    BY <1>8, ExecuteSteps
  <2>2. ahead = 0 /\ ahead2 = 0
    BY <1>i, <2>1 DEF InExecution
  <2>3. QED
    BY <1>b, <1>e, <1>f, <2>1, <2>2
<1>9. QED
  BY <1>1, <1>2, <1>3, <1>4, <1>5, <1>6, <1>7, <1>8 DEF Executes

\* The accounts never hold more than the wrapped sums created, but for what
\* the one execution under way has credited ahead of its debit.
THEOREM MoneyFromWrapsOnlyHolds == Spec => []MoneyFromWrapsOnly
<1>1. Init => MoneyFromWrapsOnly
  <2>1. SUFFICES ASSUME Init PROVE MoneyFromWrapsOnly
    OBVIOUS
  <2>2. accounts = << >> /\ transactions = << >> /\ Executing = {}
    BY <2>1 DEF Init, NoCalls, Executing, InExecution
  <2>3. /\ Balances = SumFunctionOnSet([a \in {} |-> accounts[a].balance], {})
        /\ CreatedIn(transactions)
             = SumFunctionOnSet([i \in {} |-> CreatedBy(transactions[i])], {})
        /\ SumFunction([t \in Executing |-> Ahead(arg[t])])
             = SumFunctionOnSet([t \in {} |-> Ahead(arg[t])], {})
    <3>1. DOMAIN accounts = {} /\ 1..Len(transactions) = {}
      BY <2>2
    <3>2. QED
      BY <2>2, <3>1 DEF Balances, CreatedIn, SumFunction
  <2>4. QED
    BY <2>3, SumOfFew DEF MoneyFromWrapsOnly
<1>2. TypeOK /\ TypeOK' /\ GuardsHeld /\ CopiesInv /\ MoneyFromWrapsOnly
        /\ [Next]_vars => MoneyFromWrapsOnly'
  <2>1. SUFFICES ASSUME TypeOK, TypeOK', GuardsHeld, CopiesInv,
                        MoneyFromWrapsOnly, [Next]_vars
                 PROVE  MoneyFromWrapsOnly'
    OBVIOUS
  <2>2. EngineTypes /\ ArgTypes
    BY <2>1, TypesSplit
  <2>3. ArgTypes'
    BY <2>1 DEF TypeOK, ArgTypes, LockInv
  <2>4. CASE UNCHANGED vars
    BY <2>1, <2>4 DEF vars, taskVars, engineData, MoneyFromWrapsOnly, Balances,
       CreatedIn, Executing
  <2>5. ASSUME NEW t \in Tasks,
               \/ (BeginEngine(t) \/ ContinueEngine(t)) /\ UNCHANGED utxoData
               \/ (BeginUtxo(t, workload[t]) \/ ContinueUtxo(t))
                  /\ UNCHANGED engineData
        PROVE  MoneyFromWrapsOnly'
    <3>1. \A u \in Tasks \ {t} : pc'[u] = pc[u] /\ arg'[u] = arg[u]
      BY <2>2, <2>5, OthersStay DEF ArgTypes
    <3>2. CASE Executes(t)
      <4>1. \A u \in Tasks \ {t} : pc[u] \notin KeepsMempool
        BY <2>1, <3>2, ExecutesAlone
      <4>2. QED
        BY <2>1, <2>2, <2>3, <3>1, <3>2, <4>1, ExecuteKeepsMoney
    <3>3. CASE ~Executes(t)
      <4>1. /\ pc[t] \notin KeepsMempool /\ pc'[t] \notin KeepsMempool
            /\ UNCHANGED transactions /\ Balances' = Balances
        BY <2>1, <2>2, <2>5, <3>3, OthersGiveNothing DEF CopiesInv
      <4>2. Executing' = Executing /\ \A u \in Executing : arg'[u] = arg[u]
        BY <3>1, <4>1 DEF Executing, KeepsMempool
      <4>3. [u \in Executing |-> Ahead(arg[u])]
              = [u \in Executing' |-> Ahead(arg'[u])]
        BY <4>2
      <4>4. QED
        BY <2>1, <4>1, <4>3 DEF MoneyFromWrapsOnly
    <3>4. QED
      BY <3>2, <3>3
  <2>6. QED
    BY <2>1, <2>4, <2>5 DEF Next
<1>3. QED
  BY <1>1, <1>2, CallsHoldGuards, EngineTypeCorrect, CopiesFreshHolds, PTL
     DEF Spec

-----------------------------------------------------------------------------
(* The accounts are what the recorded transactions make of them.          *)

\* What one transaction does to a ledger.
LEMMA PayTyped ==
  ASSUME NEW tx \in Catalogue, NEW balances \in Ledgers
  PROVE  /\ Pay(balances, tx) \in Ledgers
         /\ Pay(balances, tx)[tx.sender] = Debited(balances[tx.sender], tx)
         /\ \A a \in Addresses \ {tx.sender} :
              Pay(balances, tx)[a] = Credited(balances, tx)[Len(tx.outputs)][a]
<1> DEFINE size == Len(tx.outputs)
           c == Credited(balances, tx)[size]
           s == tx.sender
           was == c[s]
           left == [balance |-> was.balance - Needed(tx), nonce |-> was.nonce + 1]
<1>1. s \in Addresses /\ size \in Nat
  <2>1. tx.outputs \in Seq([recipient : Addresses, amount : Money])
    BY CatalogueAssumption
  <2>2. QED
    BY <2>1, CatalogueAssumption
<1>2. c \in Ledgers /\ was = balances[s]
  <2>1. size \in 0..Len(tx.outputs)
    BY <1>1
  <2> HIDE DEF size
  <2>2. QED
    BY <2>1, CreditedTyped
<1>3. Pay(balances, tx) = [c EXCEPT ![s].balance = @ - Needed(tx),
                                    ![s].nonce = @ + 1]
  BY DEF Pay
<1> HIDE DEF c, s, size
<1>4. was \in [balance : Int, nonce : Int]
  BY <1>1, <1>2 DEF Ledgers
<1>5. Needed(tx) \in Int
  BY CreatedTyped
<1>6. left \in [balance : Int, nonce : Int]
  <2>1. was.balance \in Int /\ was.nonce \in Int
    BY <1>4
  <2>2. was.balance - Needed(tx) \in Int /\ was.nonce + 1 \in Int
    BY <1>5, <2>1
  <2>3. QED
    BY <2>2
<1>7. /\ Pay(balances, tx) \in Ledgers /\ Pay(balances, tx)[s] = left
      /\ \A a \in Addresses \ {s} : Pay(balances, tx)[a] = c[a]
  <2> DEFINE cost == Needed(tx)
             p == [c EXCEPT ![s].balance = @ - cost, ![s].nonce = @ + 1]
  <2>1. Pay(balances, tx) = p
    BY <1>3
  <2>2. DOMAIN c = Addresses /\ \A a \in Addresses : c[a] \in [balance : Int, nonce : Int]
    BY <1>2 DEF Ledgers
  <2> HIDE DEF cost
  <2>3. DOMAIN p = Addresses /\ \A a \in Addresses \ {s} : p[a] = c[a]
    BY <1>1, <2>2
  <2>4. p[s] = [[c[s] EXCEPT !.balance = @ - cost] EXCEPT !.nonce = @ + 1]
    BY <1>1, <2>2
  <2>5. p[s] = [balance |-> was.balance - cost, nonce |-> was.nonce + 1]
    BY <1>4, <2>4
  <2>6. p = [a \in Addresses |-> p[a]]
    BY <2>3
  <2>7. p[s] = left
    BY <2>5 DEF cost
  <2> HIDE DEF p, left
  <2>8. \A a \in Addresses : p[a] \in [balance : Int, nonce : Int]
    BY <1>6, <2>2, <2>3, <2>7
  <2>9. QED
    BY <2>1, <2>3, <2>6, <2>7, <2>8 DEF Ledgers
<1>8. left = Debited(balances[s], tx)
  BY <1>2 DEF Debited
<1>9. QED
  BY <1>7, <1>8 DEF c, s, size

\* What the recorded transactions make of the accounts is a ledger.
LEMMA ReplayTyped ==
  ASSUME NEW records \in Seq([tx : Catalogue, status : Statuses])
  PROVE  Replay(records)[Len(records)] \in Ledgers
<1> DEFINE size == Len(records)
           Good == {n \in 0..size : Replay(records)[n] \in Ledgers}
<1>1. size \in Nat
  OBVIOUS
<1>2. 0 \in Good
  <2>1. Replay(records)[0] = [a \in Addresses |-> NewAccount]
    BY <1>1, ReplayUnfolds
  <2>2. [a \in Addresses |-> NewAccount] \in Ledgers
    BY DEF NewAccount, Ledgers
  <2>3. QED
    BY <1>1, <2>1, <2>2
<1>3. ASSUME NEW n \in 1..size, n - 1 \in Good PROVE n \in Good
  <2>1. records[n] \in [tx : Catalogue, status : Statuses]
    BY ElementOfSeq
  <2>2. records[n].tx \in Catalogue
    BY <2>1
  <2>3. Replay(records)[n - 1] \in Ledgers
    BY <1>3
  <2>4. Pay(Replay(records)[n - 1], records[n].tx) \in Ledgers
    BY <2>2, <2>3, PayTyped
  <2>5. Replay(records)[n] = IF records[n].status = "Confirmed"
                             THEN Pay(Replay(records)[n - 1], records[n].tx)
                             ELSE Replay(records)[n - 1]
    BY <1>1, ReplayUnfolds
  <2>6. QED
    BY <2>3, <2>4, <2>5
<1> HIDE DEF Good, size
<1>4. \A n \in 0..size : n \in Good
  BY <1>1, <1>2, <1>3, ClimbsTo
<1>5. QED
  BY <1>1, <1>4 DEF Good, size

\* A record more is a result more.
LEMMA ResultsAppend ==
  ASSUME NEW R, NEW records \in Seq(R), NEW record \in R
  PROVE  Results(Append(records, record))
           = Append(Results(records),
                    [tx_hash |-> record.tx.hash, status |-> record.status])
<1> DEFINE n == Len(records)
           longer == Append(records, record)
           result(r) == [tx_hash |-> r.tx.hash, status |-> r.status]
           results == [i \in 1..n |-> result(records[i])]
<1>1. /\ n \in Nat /\ Len(longer) = n + 1 /\ longer[n + 1] = record
      /\ \A i \in 1..n : longer[i] = records[i]
  OBVIOUS
<1>2. /\ Results(longer) = [i \in 1..(n + 1) |-> result(longer[i])]
      /\ Results(records) = results
  BY <1>1 DEF Results
<1> HIDE DEF longer, result, n
<1>3. Append(results, result(record))
        = [i \in 1..(n + 1) |-> IF i = n + 1 THEN result(record)
                                ELSE results[i]]
  <2>1. results \in Seq({result(records[i]) : i \in 1..n}) /\ Len(results) = n
    BY <1>1
  <2>2. QED
    BY <1>1, <2>1
<1>4. \A i \in 1..(n + 1) :
        result(longer[i]) = IF i = n + 1 THEN result(record) ELSE results[i]
  BY <1>1
<1>5. Results(longer) = Append(results, result(record))
  BY <1>2, <1>3, <1>4
<1>6. QED
  BY <1>2, <1>5 DEF longer, result

\* What is left alone stays where it was.
LEMMA LedgerStays ==
  ASSUME NEW u \in Tasks, LedgerAt(u), pc'[u] = pc[u], arg'[u] = arg[u],
         UNCHANGED <<transactions, executed>>,
         \A a : HeldBy(accounts', a) = HeldBy(accounts, a)
  PROVE  LedgerAt(u)'
<1>1. Replayed' = Replayed /\ Results(transactions)' = Results(transactions)
  BY DEF Replayed
<1>2. Ledger' = Ledger
  BY AccountIsHeld DEF Ledger, AccountOf, HeldBy
<1>3. QED
  BY <1>1, <1>2 DEF LedgerAt

\* An execution keeps the accounts at what its place says they are.
LEMMA ExecuteKeepsLedger ==
  ASSUME EngineTypes, ArgTypes, CopiesInv, LedgerInv,
         NEW t \in Tasks, Executes(t),
         \A u \in Tasks \ {t} : pc[u] \notin KeepsMempool
  PROVE  /\ LedgerAt(t)'
         /\ pc'[t] \notin KeepsMempool =>
              Ledger' = Replayed' /\ executed' = Results(transactions)'
<1> DEFINE tx == arg[t].tx
           s == arg[t].tx.sender
           rest == Addresses \ {s}
<1>a. /\ IsFiniteSet(DOMAIN accounts) /\ CopiesFresh(t) /\ AccountsTyped
      /\ transactions \in Seq([tx : Catalogue, status : Statuses])
  BY DEF CopiesInv, EngineTypes
<1>b. LedgerAt(t)
  BY DEF LedgerInv
<1>c. Replayed \in Ledgers
  BY <1>a, ReplayTyped DEF Replayed
<1>d. /\ Ledger = [a \in Addresses |-> HeldBy(accounts, a)]
      /\ Ledger' = [a \in Addresses |-> HeldBy(accounts', a)]
  BY AccountIsHeld DEF Ledger, AccountOf, HeldBy
<1>e. UNCHANGED transactions =>
        Replayed' = Replayed /\ Results(transactions)' = Results(transactions)
  BY DEF Replayed
<1>f. (\A a : HeldBy(accounts', a) = HeldBy(accounts, a)) => Ledger' = Ledger
  BY <1>d
<1>g. UNCHANGED accounts => \A a : HeldBy(accounts', a) = HeldBy(accounts, a)
  OBVIOUS
<1>h. ASSUME pc[t] \in KeepsMempool
      PROVE  /\ arg[t] \in Execution /\ tx \in Catalogue /\ s \in Addresses
             /\ arg[t].paid \in Nat /\ Len(tx.outputs) \in Nat
  BY <1>h, ExecutionTyped
<1>1. CASE ExecuteTake(t)
  <2>1. /\ pc[t] = "exe_mempool" /\ pc'[t] = "exe_sender"
        /\ UNCHANGED <<accounts, transactions, executed>>
    BY <1>1, ExecuteSteps
  <2>2. Ledger = Replayed /\ executed = Results(transactions)
    BY <2>1 DEF LedgerInv, KeepsMempool, InExecution
  <2>3. Ledger' = Replayed' /\ executed' = Results(transactions)'
    BY <1>e, <1>f, <1>g, <2>1, <2>2
  <2>4. QED
    BY <2>1, <2>3 DEF LedgerAt, Unsettled, Settled, Crediting
<1>2. CASE ExecuteSender(t)
  <2>1. /\ pc[t] = "exe_sender" /\ pc'[t] = "exe_outputs"
        /\ GetOrCreateAccount(s)
        /\ arg'[t] = [arg[t] EXCEPT !.sender = Debited(HeldBy(accounts, s), tx)]
        /\ UNCHANGED <<transactions, executed>>
    BY <1>2, ExecuteSteps
  <2>2. /\ arg[t] \in Execution /\ s \in Addresses
        /\ Len(tx.outputs) \in Nat
    BY <1>h, <2>1 DEF KeepsMempool, InExecution
  <2>3. \A a : HeldBy(accounts', a) = HeldBy(accounts, a)
    BY <1>a, <2>1, <2>2, OpenKeepsBalances
  <2>4. arg[t].paid = 0
    BY <1>a, <2>1 DEF CopiesFresh
  <2>5. Ledger = Replayed /\ executed = Results(transactions)
    BY <1>b, <2>1 DEF LedgerAt, InExecution
  <2>6. \A a \in Addresses : HeldBy(accounts, a) = Replayed[a]
    BY <1>d, <2>5
  <2>7. /\ arg'[t].tx = tx /\ arg'[t].paid = 0
        /\ arg'[t].sender = Debited(Replayed[s], tx)
    BY <2>1, <2>2, <2>4, <2>6 DEF Execution
  <2>8. Credited(Replayed, tx)[0] = Replayed
    BY <2>2, CreditedUnfolds
  <2>9. \A who \in rest :
          HeldBy(accounts', who) = Credited(Replayed, tx)[0][who]
    BY <2>3, <2>6, <2>8
  <2>10. Replayed' = Replayed /\ executed' = Results(transactions)'
    BY <1>e, <2>1, <2>5
  <2> HIDE DEF tx
  <2>11. arg'[t].tx.sender = s
    BY <2>7 DEF tx
  <2>12. QED
    BY <2>1, <2>7, <2>9, <2>10, <2>11
       DEF LedgerAt, Unsettled, Settled, Crediting, KeepsMempool, InExecution
<1>3. CASE ExecuteSenderPoor(t)
  <2>1. /\ pc[t] = "exe_sender" /\ pc'[t] = "exe_done"
        /\ GetOrCreateAccount(s)
        /\ arg'[t] = [arg[t] EXCEPT !.status = "Failed"]
        /\ UNCHANGED <<transactions, executed>>
    BY <1>3, ExecuteSteps
  <2>2. arg[t] \in Execution /\ s \in Addresses
    BY <1>h, <2>1 DEF KeepsMempool, InExecution
  <2>3. \A a : HeldBy(accounts', a) = HeldBy(accounts, a)
    BY <1>a, <2>1, <2>2, OpenKeepsBalances
  <2>4. Ledger = Replayed /\ executed = Results(transactions)
    BY <1>b, <2>1 DEF LedgerAt, InExecution
  <2>5. Ledger' = Replayed' /\ executed' = Results(transactions)'
    BY <1>e, <1>f, <2>1, <2>3, <2>4
  <2>6. arg'[t].status = "Failed"
    BY <2>1, <2>2 DEF Execution
  <2>7. QED
    BY <2>1, <2>5, <2>6
       DEF LedgerAt, Unsettled, Settled, Crediting, KeepsMempool, InExecution
<1>4. CASE ExecuteNextOutput(t) \/ ExecuteCreditAsk(t) \/ ExecuteSenderAsk(t)
  <2>1. /\ pc[t] \in Unsettled /\ pc'[t] \in Unsettled /\ arg' = arg
        /\ UNCHANGED <<accounts, transactions, executed>>
    BY <1>4, ExecuteSteps DEF Unsettled, Crediting
  <2>2. pc[t] \in InExecution /\ pc'[t] \in InExecution
        /\ pc'[t] \notin Settled \cup {"exe_sender", "exe_executed"}
        /\ pc[t] \notin Settled \cup {"exe_sender", "exe_executed"}
    BY <2>1 DEF Unsettled, Settled, Crediting, InExecution
  <2>3. Replayed' = Replayed /\ executed' = Results(transactions)'
    BY <1>b, <1>e, <2>1, <2>2 DEF LedgerAt
  <2>4. QED
    BY <1>b, <1>g, <2>1, <2>2, <2>3 DEF LedgerAt, KeepsMempool
<1>5. CASE ExecuteRecipient(t)
  <2>1. /\ pc[t] = "exe_recipient" /\ pc'[t] = "exe_recipient_copied"
        /\ GetOrCreateAccount(Output(arg[t]).recipient)
        /\ \E a : arg'[t] = [arg[t] EXCEPT !.recipient = a]
        /\ UNCHANGED <<transactions, executed>>
    BY <1>5, ExecuteSteps
  <2>2. arg[t] \in Execution /\ Output(arg[t]).recipient \in Addresses
    BY <2>1, ExecutionTyped DEF KeepsMempool, InExecution, Crediting
  <2>3. \A a : HeldBy(accounts', a) = HeldBy(accounts, a)
    BY <1>a, <2>1, <2>2, OpenKeepsBalances
  <2>4. /\ arg'[t].tx = tx /\ arg'[t].paid = arg[t].paid
        /\ arg'[t].sender = arg[t].sender
    BY <2>1, <2>2 DEF Execution
  <2>5. /\ arg[t].sender = Debited(Replayed[s], tx)
        /\ \A who \in rest :
             HeldBy(accounts, who) = Credited(Replayed, tx)[arg[t].paid][who]
        /\ executed = Results(transactions)
    BY <1>b, <2>1 DEF LedgerAt, Unsettled, Crediting, InExecution
  <2>6. Replayed' = Replayed /\ executed' = Results(transactions)'
    BY <1>e, <2>1, <2>5
  <2> HIDE DEF tx
  <2>7. arg'[t].tx.sender = s
    BY <2>4 DEF tx
  <2>8. QED
    BY <2>1, <2>3, <2>4, <2>5, <2>6, <2>7
       DEF LedgerAt, Unsettled, Settled, Crediting, KeepsMempool, InExecution
<1>6. CASE ExecuteCredit(t)
  <2> DEFINE output == Output(arg[t])
             n == arg[t].paid + 1
             had == Credited(Replayed, tx)[arg[t].paid]
             has == Credited(Replayed, tx)[n]
  <2>1. /\ pc[t] = "exe_credit" /\ pc'[t] = "exe_outputs"
        /\ Store(output.recipient, arg[t].recipient)
        /\ arg'[t] = [arg[t] EXCEPT !.paid = n]
        /\ UNCHANGED <<transactions, executed>>
    BY <1>6, ExecuteSteps
  <2>2. /\ arg[t] \in Execution /\ tx \in Catalogue /\ s \in Addresses
        /\ arg[t].paid \in Nat /\ Len(tx.outputs) \in Nat
        /\ arg[t].paid < Len(tx.outputs) /\ arg[t].recipient \in Account
        /\ output \in [recipient : Addresses, amount : Money]
    BY <2>1, ExecutionTyped DEF KeepsMempool, InExecution, Crediting
  <2>3. /\ HeldBy(accounts', output.recipient) = arg[t].recipient
        /\ \A b : b # output.recipient => HeldBy(accounts', b) = HeldBy(accounts, b)
    BY <1>a, <2>1, <2>2, StoreChangesBalances
  <2>4. arg[t].recipient = Topped(HeldBy(accounts, output.recipient), output)
    BY <1>a, <2>1 DEF CopiesFresh
  <2>5. /\ arg[t].sender = Debited(Replayed[s], tx)
        /\ \A who \in rest : HeldBy(accounts, who) = had[who]
        /\ executed = Results(transactions)
    BY <1>b, <2>1 DEF LedgerAt, Unsettled, Crediting, InExecution
  <2>6. Replayed' = Replayed /\ executed' = Results(transactions)'
    BY <1>e, <2>1, <2>5
  <2>7. /\ arg'[t].tx = tx /\ arg'[t].paid = n
        /\ arg'[t].sender = arg[t].sender
    BY <2>1, <2>2 DEF Execution
  <2>8. n \in 1..Len(tx.outputs) /\ n - 1 = arg[t].paid
        /\ arg[t].paid \in 0..Len(tx.outputs) /\ tx.outputs[n] = output
    BY <2>2 DEF Output
  <2>9. has = Credit(had, tx, output)
    <3> HIDE DEF n, tx, output
    <3>1. Credited(Replayed, tx)[n] = Credit(Credited(Replayed, tx)[n - 1], tx, tx.outputs[n])
      BY <2>2, <2>8, CreditedUnfolds
    <3>2. QED
      BY <2>8, <3>1
  <2>10. had \in Ledgers
    <3> HIDE DEF tx
    <3>1. QED
      BY <1>c, <2>2, <2>8, CreditedTyped
  <2> HIDE DEF had, has, output, tx, n
  <2>11. ASSUME NEW who \in rest PROVE HeldBy(accounts', who) = has[who]
    <3>0. tx.sender = s
      BY DEF tx
    <3>1. CASE output.recipient = s
      BY <2>3, <2>5, <2>9, <3>0, <3>1 DEF Credit
    <3>2. CASE output.recipient # s
      <4> DEFINE r == output.recipient
      <4>1. has = [had EXCEPT ![r].balance = Plus(@, output.amount)]
        BY <2>9, <3>0, <3>2 DEF Credit
      <4>2. r \in rest /\ DOMAIN had = Addresses
        BY <2>2, <2>10, <3>2 DEF Ledgers
      <4> HIDE DEF r
      <4>3. /\ has[r] = Topped(had[r], output)
            /\ \A a \in Addresses : a # r => has[a] = had[a]
        BY <4>1, <4>2 DEF Topped
      <4>4. CASE who = r
        <5>1. HeldBy(accounts, r) = had[r]
          BY <2>5, <4>2
        <5>2. QED
          BY <2>3, <2>4, <4>3, <4>4, <5>1 DEF r
      <4>5. CASE who # r
        BY <2>3, <2>5, <4>3, <4>5 DEF r
      <4>6. QED
        BY <4>4, <4>5
    <3>3. QED
      BY <3>1, <3>2
  <2>12. arg'[t].tx.sender = s
    BY <2>7 DEF tx
  <2>13. QED
    BY <2>1, <2>5, <2>6, <2>7, <2>11, <2>12
       DEF LedgerAt, Unsettled, Settled, Crediting, KeepsMempool, InExecution,
           has
<1>7. CASE ExecuteDebit(t)
  <2> DEFINE paid == Pay(Replayed, tx)
  <2>1. /\ pc[t] = "exe_debit" /\ pc'[t] = "exe_done"
        /\ Store(s, arg[t].sender)
        /\ arg'[t] = [arg[t] EXCEPT !.status = "Confirmed"]
        /\ UNCHANGED <<transactions, executed>>
    BY <1>7, ExecuteSteps
  <2>2. /\ arg[t] \in Execution /\ tx \in Catalogue /\ s \in Addresses
        /\ arg[t].sender \in Account
    BY <2>1, ExecutionTyped DEF KeepsMempool, InExecution
  <2>3. /\ HeldBy(accounts', s) = arg[t].sender
        /\ \A b : b # s => HeldBy(accounts', b) = HeldBy(accounts, b)
    BY <1>a, <2>1, <2>2, StoreChangesBalances
  <2>4. arg[t].paid = Len(tx.outputs)
    BY <1>a, <2>1 DEF CopiesFresh
  <2>5. /\ arg[t].sender = Debited(Replayed[s], tx)
        /\ \A who \in rest :
             HeldBy(accounts, who) = Credited(Replayed, tx)[arg[t].paid][who]
        /\ executed = Results(transactions)
    BY <1>b, <2>1 DEF LedgerAt, Unsettled, InExecution
  <2>6. Replayed' = Replayed /\ executed' = Results(transactions)'
    BY <1>e, <2>1, <2>5
  <2>7. arg'[t].tx = tx /\ arg'[t].status = "Confirmed"
    BY <2>1, <2>2 DEF Execution
  <2>8. /\ paid \in Ledgers /\ paid[s] = Debited(Replayed[s], tx)
        /\ \A a \in rest : paid[a] = Credited(Replayed, tx)[arg[t].paid][a]
    BY <1>c, <2>2, <2>4, PayTyped
  <2>9. \A a \in Addresses : HeldBy(accounts', a) = paid[a]
    <3> HIDE DEF paid, s, tx
    <3>1. HeldBy(accounts', s) = paid[s]
      BY <2>3, <2>5, <2>8
    <3>2. \A a \in rest : HeldBy(accounts', a) = paid[a]
      BY <2>3, <2>5, <2>8
    <3>3. QED
      BY <3>1, <3>2
  <2> HIDE DEF paid
  <2>10. Ledger' = paid
    <3>1. paid = [a \in Addresses |-> paid[a]]
      BY <2>8 DEF Ledgers
    <3>2. QED
      BY <1>d, <2>9, <3>1
  <2>11. Ledger' = Pay(Replayed', arg'[t].tx)
    BY <2>6, <2>7, <2>10 DEF paid
  <2>12. QED
    BY <2>1, <2>6, <2>7, <2>11
       DEF LedgerAt, Unsettled, Settled, Crediting, KeepsMempool, InExecution
<1>8. CASE ExecuteDone(t)
  <2>1. /\ pc[t] = "exe_done" /\ pc'[t] = "exe_transactions" /\ arg' = arg
        /\ UNCHANGED <<accounts, transactions, executed>>
    BY <1>8, ExecuteSteps
  <2>2. /\ Ledger = IF arg[t].status = "Confirmed" THEN Pay(Replayed, tx)
                    ELSE Replayed
        /\ executed = Results(transactions)
    BY <1>b, <2>1 DEF LedgerAt, Settled, InExecution
  <2>3. /\ Replayed' = Replayed /\ executed' = Results(transactions)'
        /\ Ledger' = Ledger
    BY <1>e, <1>f, <1>g, <2>1, <2>2
  <2>4. QED
    BY <2>1, <2>2, <2>3
       DEF LedgerAt, Unsettled, Settled, Crediting, KeepsMempool, InExecution
<1>9. CASE ExecuteStore(t)
  <2> DEFINE record == [tx |-> tx, status |-> arg[t].status]
  <2>1. /\ pc[t] = "exe_transactions" /\ pc'[t] = "exe_executed" /\ arg' = arg
        /\ transactions' = Append(transactions, record)
        /\ UNCHANGED <<accounts, executed>>
    BY <1>9, ExecuteSteps
  <2>2. arg[t] \in Execution /\ tx \in Catalogue
    BY <1>h, <2>1 DEF KeepsMempool, InExecution
  <2>3. record \in [tx : Catalogue, status : Statuses]
    BY <2>2 DEF Execution
  <2>4. /\ Ledger = IF record.status = "Confirmed" THEN Pay(Replayed, record.tx)
                    ELSE Replayed
        /\ executed = Results(transactions)
    BY <1>b, <2>1 DEF LedgerAt, Settled, InExecution
  <2>5. record.tx = tx /\ record.status = arg[t].status
    OBVIOUS
  <2> HIDE DEF record
  <2>6. Replayed' = IF record.status = "Confirmed" THEN Pay(Replayed, record.tx)
                    ELSE Replayed
    BY <1>a, <2>1, <2>3, ReplayAppends DEF Replayed
  <2>7. Results(transactions)'
          = Append(Results(transactions),
                   [tx_hash |-> tx.hash, status |-> arg[t].status])
    <3>1. Results(Append(transactions, record))
            = Append(Results(transactions),
                     [tx_hash |-> record.tx.hash, status |-> record.status])
      BY <1>a, <2>3, ResultsAppend
    <3>2. QED
      BY <2>1, <2>5, <3>1
  <2>8. Ledger' = Ledger
    BY <1>f, <1>g, <2>1
  <2>9. QED
    BY <2>1, <2>4, <2>6, <2>7, <2>8
       DEF LedgerAt, Unsettled, Settled, Crediting, KeepsMempool, InExecution
<1>10. CASE ExecuteResult(t)
  <2>1. /\ pc[t] = "exe_executed" /\ pc'[t] = "idle"
        /\ executed' = Append(executed, [tx_hash |-> tx.hash,
                                         status |-> arg[t].status])
        /\ UNCHANGED <<accounts, transactions>>
    BY <1>10, ExecuteSteps
  <2>2. /\ Ledger = Replayed
        /\ Append(executed, [tx_hash |-> tx.hash, status |-> arg[t].status])
             = Results(transactions)
    BY <1>b, <2>1 DEF LedgerAt
  <2>3. Ledger' = Replayed' /\ executed' = Results(transactions)'
    BY <1>e, <1>f, <1>g, <2>1, <2>2
  <2>4. QED
    BY <2>1, <2>3 DEF LedgerAt, Unsettled, Settled, Crediting, InExecution
<1>11. QED
  BY <1>1, <1>2, <1>3, <1>4, <1>5, <1>6, <1>7, <1>8, <1>9, <1>10 DEF Executes

\* Whenever nobody keeps the mempool locked, the accounts are what the recorded
\* transactions make of them one after another, and every one has its result.
THEOREM LedgerIsReplayHolds == Spec => []LedgerIsReplay
<1>1. Init => LedgerInv
  <2>1. SUFFICES ASSUME Init PROVE LedgerInv
    OBVIOUS
  <2>2. /\ accounts = << >> /\ transactions = << >> /\ executed = << >>
        /\ \A t \in Tasks : pc[t] = "idle"
    BY <2>1 DEF Init, NoCalls
  <2>3. Len(transactions) = 0
    BY <2>2
  <2>4. Replayed = [a \in Addresses |-> NewAccount]
    BY <2>3, ReplayUnfolds DEF Replayed
  <2>5. Ledger = [a \in Addresses |-> NewAccount]
    BY <2>2 DEF Ledger, AccountOf
  <2>6. executed = Results(transactions)
    BY <2>2, <2>3 DEF Results
  <2>7. QED
    BY <2>2, <2>4, <2>5, <2>6
       DEF LedgerInv, LedgerAt, Unsettled, Settled, Crediting, InExecution
<1>2. TypeOK /\ GuardsHeld /\ CopiesInv /\ LedgerInv /\ [Next]_vars
        => LedgerInv'
  <2>1. SUFFICES ASSUME TypeOK, GuardsHeld, CopiesInv, LedgerInv, [Next]_vars
                 PROVE  LedgerInv'
    OBVIOUS
  <2>2. EngineTypes /\ ArgTypes
    BY <2>1, TypesSplit
  <2>3. CASE UNCHANGED vars
    <3>1. /\ UNCHANGED <<accounts, transactions, executed, pc, arg>>
          /\ \A a : HeldBy(accounts', a) = HeldBy(accounts, a)
      BY <2>3 DEF vars, taskVars, engineData, HeldBy
    <3>2. \A u \in Tasks : LedgerAt(u)'
      BY <2>1, <3>1, LedgerStays DEF LedgerInv
    <3>3. Replayed' = Replayed /\ Ledger' = Ledger
      BY <3>1 DEF Replayed, Ledger, AccountOf
    <3>4. QED
      BY <2>1, <3>1, <3>2, <3>3 DEF LedgerInv
  <2>4. ASSUME NEW t \in Tasks,
               \/ (BeginEngine(t) \/ ContinueEngine(t)) /\ UNCHANGED utxoData
               \/ (BeginUtxo(t, workload[t]) \/ ContinueUtxo(t))
                  /\ UNCHANGED engineData
        PROVE  LedgerInv'
    <3>1. \A u \in Tasks \ {t} : pc'[u] = pc[u] /\ arg'[u] = arg[u]
      BY <2>2, <2>4, OthersStay DEF ArgTypes
    <3>2. CASE Executes(t)
      <4>1. \A u \in Tasks \ {t} : pc[u] \notin KeepsMempool
        BY <2>1, <3>2, ExecutesAlone
      <4>2. /\ LedgerAt(t)'
            /\ pc'[t] \notin KeepsMempool =>
                 Ledger' = Replayed' /\ executed' = Results(transactions)'
        BY <2>1, <2>2, <3>2, <4>1, ExecuteKeepsLedger
      <4>3. ASSUME NEW u \in Tasks \ {t} PROVE LedgerAt(u)'
        BY <3>1, <4>1 DEF LedgerAt, Unsettled, Settled, Crediting,
           KeepsMempool, InExecution
      <4>4. QED
        BY <4>2, <4>3 DEF LedgerInv
    <3>3. CASE ~Executes(t)
      <4>1. /\ pc[t] \notin KeepsMempool /\ pc'[t] \notin KeepsMempool
            /\ UNCHANGED <<transactions, executed>>
            /\ \A a : HeldBy(accounts', a) = HeldBy(accounts, a)
        BY <2>1, <2>2, <2>4, <3>3, OthersGiveNothing DEF CopiesInv
      <4>2. LedgerAt(t)'
        BY <4>1 DEF LedgerAt, Unsettled, Settled, Crediting, KeepsMempool,
           InExecution
      <4>3. ASSUME NEW u \in Tasks \ {t} PROVE LedgerAt(u)'
        BY <2>1, <3>1, <4>1, LedgerStays DEF LedgerInv
      <4>4. Replayed' = Replayed
            /\ Results(transactions)' = Results(transactions)
        BY <4>1 DEF Replayed
      <4>5. Ledger' = Ledger
        BY <4>1, AccountIsHeld DEF Ledger, AccountOf, HeldBy
      <4>6. (\A u \in Tasks : pc'[u] \notin KeepsMempool)
              => (\A u \in Tasks : pc[u] \notin KeepsMempool)
        BY <3>1, <4>1
      <4>7. QED
        BY <2>1, <4>1, <4>2, <4>3, <4>4, <4>5, <4>6 DEF LedgerInv
    <3>4. QED
      BY <3>2, <3>3
  <2>5. QED
    BY <2>1, <2>3, <2>4 DEF Next
<1>3. TypeOK /\ GuardsHeld /\ LedgerInv => LedgerIsReplay
  <2>1. SUFFICES ASSUME GuardsHeld, LedgerInv, ~WriteHeld(locks["mempool"])
                 PROVE  \A t \in Tasks : pc[t] \notin KeepsMempool
    BY DEF LedgerIsReplay, LedgerInv
  <2>2. \A p \in KeepsMempool :
          /\ p \in Points /\ "mempool" \in Locks
          /\ Wants[p]["mempool"] = "write" /\ "mempool" \in HeldAt[p]
    BY DEF Points, InExecution, Locks, EngineLocks, Wants, Writes, HeldAt,
       KeepsMempool, UtxoPoints, SubmitPoints, KeepsForStats
  <2>3. ASSUME NEW t \in Tasks, pc[t] \in KeepsMempool
        PROVE  HoldsWrite(locks["mempool"], t) /\ t \in DOMAIN locks["mempool"]
    BY <2>1, <2>2, <2>3 DEF GuardsHeld, LockInv, LockDiscipline, HoldsWrite,
       WellFormed
  <2>4. QED
    BY <2>1, <2>3 DEF WriteHeld
<1>4. QED
  BY <1>1, <1>2, <1>3, CallsHoldGuards, EngineTypeCorrect, CopiesFreshHolds, PTL
     DEF Spec

-----------------------------------------------------------------------------
(* What a validation has seen.                                             *)

\* Nothing but a spend has happened to this output since.
OnlySpent(before, now, key) ==
  /\ key \in DOMAIN now <=> key \in DOMAIN before
  /\ key \in DOMAIN before =>
       /\ now[key].recipient = before[key].recipient
       /\ now[key].amount = before[key].amount
       /\ before[key].spent => now[key].spent

\* What a validation knows of its first inputs, if they were not added since.
KnownAtStart(call, outputs) ==
  /\ \A key \in InputKeys(call.tx) : OnlySpent(call.before, outputs, key)
  /\ \A i \in 1..Len(call.seen) :
       LET key == call.tx.inputs[i].key
       IN  /\ key \in DOMAIN call.before /\ ~call.before[key].spent
           /\ call.before[key].recipient = call.tx.sender
           /\ call.before[key].amount = call.seen[i]

NoneAdded(call) == AddedSince(call) \cap InputKeys(call.tx) = {}

SeenFits(t) ==
  LET call == arg[t]
  IN  pc[t] \in {"val_utxos", "val_seen"} =>
        /\ call.since <= Len(added) /\ Len(call.seen) <= Len(call.tx.inputs)
        /\ pc[t] = "val_utxos" => Len(call.seen) < Len(call.tx.inputs)
        /\ NoneAdded(call) => KnownAtStart(call, utxos)

SeenInv == \A t \in Tasks : SeenFits(t)

\* The steps of a validation, and those that change outputs.
Validates(t) ==
  \/ \E tx \in Catalogue : ValidateWithUtxoSet(t, tx)
  \/ ValidateInput(t) \/ ValidateNext(t)

ChangesOutputs(t) == AddInsert(t) \/ SpendMark(t)

\* All others leave the outputs as they are and are no validations afterwards.
LEMMA OthersSeeNothing ==
  ASSUME ArgTypes, NEW t \in Tasks,
         \/ (BeginEngine(t) \/ ContinueEngine(t)) /\ UNCHANGED utxoData
         \/ BeginUtxo(t, workload[t]) \/ ContinueUtxo(t)
  PROVE  /\ ~ChangesOutputs(t) => UNCHANGED <<utxos, added>>
         /\ ~Validates(t) => pc'[t] \notin {"val_utxos", "val_seen"}
<1>a. pc \in [Tasks -> Points] /\ DOMAIN arg = Tasks
  BY DEF ArgTypes
<1>1. CASE BeginEngine(t) /\ UNCHANGED utxoData
  BY <1>a, <1>1 DEF BeginEngine, SubmitTransaction, ExecuteTransaction,
     GetAccount, GetStats, Call, Enter, utxoData
<1>2. CASE ContinueEngine(t) /\ UNCHANGED utxoData
  BY <1>a, <1>2 DEF ContinueEngine, SubmitAccount, SubmitRefused, SubmitAsk,
     SubmitPush, ExecuteNotFound, ExecuteTake, ExecuteSender,
     ExecuteSenderPoor, ExecuteNextOutput, ExecuteRecipient, ExecuteCreditAsk,
     ExecuteCredit, ExecuteSenderAsk, ExecuteDebit, ExecuteDone, ExecuteStore,
     ExecuteResult, AccountReport, StatsAccounts, StatsTransactions,
     StatsMempool, StatsLock, StatsReport, Reached, Await, Drop, Return,
     utxoData
<1>3. CASE BeginUtxo(t, workload[t])
  BY <1>a, <1>3 DEF BeginUtxo, AddUtxo, SpendUtxo, GetAddressUtxos,
     ValidateWithUtxoSet, CallUtxos, Enter, utxoData, Validates
<1>4. CASE ContinueUtxo(t)
  BY <1>a, <1>4 DEF ContinueUtxo, AddInsert, AddIndex, SpendMark, SpendRefused,
     ListIndex, ListReport, ValidateInput, ValidateRefused, ValidateNext,
     ValidateAnswer, Reached, Await, Drop, Return, utxoData, Validates,
     ChangesOutputs
<1>5. QED
  BY <1>1, <1>2, <1>3, <1>4

\* A step does nothing but spend to an output it does not add.
SpendsAtMost(log, outputs, newLog, newOutputs) ==
  \/ newLog = log /\ \A key : OnlySpent(outputs, newOutputs, key)
  \/ \E key : /\ newLog = Append(log, key)
              /\ \A k : k # key => OnlySpent(outputs, newOutputs, k)

LEMMA StepsSpendAtMost ==
  ASSUME UtxoTypes, ArgTypes, NEW t \in Tasks,
         \/ (BeginEngine(t) \/ ContinueEngine(t)) /\ UNCHANGED utxoData
         \/ BeginUtxo(t, workload[t]) \/ ContinueUtxo(t)
  PROVE  SpendsAtMost(added, utxos, added', utxos')
<1>1. CASE ~ChangesOutputs(t)
  <2>1. UNCHANGED <<utxos, added>>
    BY <1>1, OthersSeeNothing
  <2>2. QED
    BY <2>1 DEF SpendsAtMost, OnlySpent
<1>2. CASE AddInsert(t)
  <2>1. /\ added' = Append(added, arg[t].key)
        /\ DOMAIN utxos' = DOMAIN utxos \cup {arg[t].key}
        /\ \A k \in DOMAIN utxos : k # arg[t].key => utxos'[k] = utxos[k]
    BY <1>2 DEF AddInsert, Insert
  <2>2. \A k : k # arg[t].key => OnlySpent(utxos, utxos', k)
    BY <2>1 DEF OnlySpent
  <2>3. QED
    BY <2>1, <2>2 DEF SpendsAtMost
<1>3. CASE SpendMark(t)
  <2> DEFINE key == arg[t].key
  <2>1. /\ added' = added /\ key \in DOMAIN utxos
        /\ utxos' = [utxos EXCEPT ![key].spent = TRUE]
    BY <1>3 DEF SpendMark, Unspent
  <2>2. utxos[key] \in Entry
    BY <2>1 DEF UtxoTypes
  <2> HIDE DEF key
  <2>3. /\ DOMAIN utxos' = DOMAIN utxos
        /\ \A k \in DOMAIN utxos : k # key => utxos'[k] = utxos[k]
        /\ utxos'[key] = [utxos[key] EXCEPT !.spent = TRUE]
    BY <2>1
  <2>4. /\ utxos'[key].recipient = utxos[key].recipient
        /\ utxos'[key].amount = utxos[key].amount
        /\ utxos'[key].spent = TRUE
    BY <2>2, <2>3 DEF Entry
  <2>5. \A k : OnlySpent(utxos, utxos', k)
    BY <2>3, <2>4 DEF OnlySpent
  <2>6. QED
    BY <2>1, <2>5 DEF SpendsAtMost
<1>4. QED
  BY <1>1, <1>2, <1>3 DEF ChangesOutputs

\* What was added since can only become more.
LEMMA AddedGrows ==
  ASSUME NEW log \in Seq(Outputs), NEW newLog \in Seq(Outputs),
         NEW since \in Nat, since <= Len(log),
         newLog = log \/ \E key : newLog = Append(log, key)
  PROVE  /\ since <= Len(newLog)
         /\ \A i \in (since + 1)..Len(log) :
              i \in (since + 1)..Len(newLog) /\ newLog[i] = log[i]
         /\ \A key : newLog = Append(log, key) =>
              Len(newLog) \in (since + 1)..Len(newLog) /\ newLog[Len(newLog)] = key
<1>1. CASE newLog = log
  <2>1. \A key : newLog # Append(log, key)
    <3>1. ASSUME NEW key, newLog = Append(log, key) PROVE FALSE
      <4>1. Len(Append(log, key)) = Len(log) + 1
        OBVIOUS
      <4>2. QED
        BY <1>1, <3>1, <4>1
    <3>2. QED
      BY <3>1
  <2>2. QED
    BY <1>1, <2>1
<1>2. CASE \E key : newLog = Append(log, key)
  <2>1. ASSUME NEW key, newLog = Append(log, key)
        PROVE  /\ Len(newLog) = Len(log) + 1 /\ newLog[Len(log) + 1] = key
               /\ \A i \in 1..Len(log) : newLog[i] = log[i]
    BY <2>1
  <2>2. PICK k : newLog = Append(log, k)
    BY <1>2
  <2>3. /\ Len(newLog) = Len(log) + 1
        /\ \A i \in 1..Len(log) : newLog[i] = log[i]
    BY <2>1, <2>2
  <2>4. \A key : newLog = Append(log, key) => newLog[Len(newLog)] = key
    BY <2>1, <2>3
  <2>5. QED
    BY <2>3, <2>4
<1>3. QED
  BY <1>1, <1>2

\* What a validation knows, it still knows after a step of another task.
LEMMA SeenStays ==
  ASSUME UtxoTypes, UtxoTypes', ArgTypes, NEW u \in Tasks, SeenFits(u),
         pc'[u] = pc[u], arg'[u] = arg[u],
         SpendsAtMost(added, utxos, added', utxos')
  PROVE  SeenFits(u)'
<1>1. SUFFICES ASSUME pc[u] \in {"val_utxos", "val_seen"}
               PROVE  SeenFits(u)'
  BY DEF SeenFits
<1> DEFINE call == arg[u]
           since == call.since
<1>2. call \in Validation
  BY <1>1, ArgShapes DEF ArgTypes
<1>3. /\ since \in Nat /\ since <= Len(added)
      /\ added \in Seq(Outputs) /\ added' \in Seq(Outputs)
      /\ Len(call.seen) <= Len(call.tx.inputs)
      /\ pc[u] = "val_utxos" => Len(call.seen) < Len(call.tx.inputs)
      /\ NoneAdded(call) => KnownAtStart(call, utxos)
  BY <1>1, <1>2 DEF SeenFits, UtxoTypes, Validation
<1>4. added' = added \/ \E key : added' = Append(added, key)
  BY DEF SpendsAtMost
<1> HIDE DEF since
<1>5. /\ since <= Len(added')
      /\ \A i \in (since + 1)..Len(added) :
           i \in (since + 1)..Len(added') /\ added'[i] = added[i]
      /\ \A key : added' = Append(added, key) =>
           /\ Len(added') \in (since + 1)..Len(added')
           /\ added'[Len(added')] = key
  BY <1>3, <1>4, AddedGrows
<1> DEFINE addedSince == {added[i] : i \in (since + 1)..Len(added)}
           newSince == {added'[i] : i \in (since + 1)..Len(added')}
<1>6. /\ addedSince \subseteq newSince
      /\ \A key : added' = Append(added, key) => key \in newSince
  BY <1>5
<1>7. /\ AddedSince(call) = addedSince
      /\ AddedSince(arg[u])' = newSince
  BY DEF AddedSince, since
<1> HIDE DEF addedSince, newSince
<1>8. ASSUME newSince \cap InputKeys(call.tx) = {}
      PROVE  KnownAtStart(call, utxos')
  <2>1. KnownAtStart(call, utxos)
    BY <1>3, <1>6, <1>7, <1>8 DEF NoneAdded
  <2>2. ASSUME NEW key \in InputKeys(call.tx)
        PROVE  OnlySpent(call.before, utxos', key)
    <3>1. OnlySpent(call.before, utxos, key)
      BY <2>1 DEF KnownAtStart
    <3>2. OnlySpent(utxos, utxos', key)
      BY <1>6, <1>8 DEF SpendsAtMost
    <3>3. QED
      BY <3>1, <3>2 DEF OnlySpent
  <2>3. QED
    BY <2>1, <2>2 DEF KnownAtStart
<1>9. NoneAdded(arg[u])' => KnownAtStart(call, utxos')
  BY <1>7, <1>8 DEF NoneAdded, InputKeys
<1>10. KnownAtStart(arg[u], utxos)' <=> KnownAtStart(call, utxos')
  BY DEF KnownAtStart, OnlySpent, InputKeys
<1>11. since = arg'[u].since
  BY DEF since
<1> HIDE DEF call
<1>12. call = arg'[u] /\ pc'[u] = pc[u]
  BY DEF call
<1>13. QED
  BY <1>3, <1>5, <1>9, <1>10, <1>11, <1>12 DEF SeenFits

\* A validation has looked up what it counts.
LEMMA ValidatesSees ==
  ASSUME TypeOK, NEW t \in Tasks, SeenFits(t), Validates(t)
  PROVE  SeenFits(t)'
<1>a. UtxoTypes /\ ArgTypes
  BY TypesSplit
<1>b. pc \in [Tasks -> Points] /\ DOMAIN arg = Tasks /\ Len(added) \in Nat
  BY <1>a DEF ArgTypes, UtxoTypes
<1>c. ASSUME pc[t] \in {"val_utxos", "val_seen"}
      PROVE  /\ arg[t] \in Validation
             /\ Len(arg[t].seen) \in Nat /\ Len(arg[t].tx.inputs) \in Nat
  <2>1. arg[t] \in Validation
    BY <1>a, <1>c, ArgShapes DEF ArgTypes
  <2>2. arg[t].tx \in Catalogue /\ arg[t].seen \in Seq(Amounts)
    BY <2>1 DEF Validation
  <2>3. Len(arg[t].tx.inputs) \in Nat
    BY <2>2, InputsAssumption
  <2>4. QED
    BY <2>1, <2>2, <2>3
<1>1. CASE \E tx \in Catalogue : ValidateWithUtxoSet(t, tx)
  <2>1. PICK tx \in Catalogue : ValidateWithUtxoSet(t, tx)
    BY <1>1
  <2>2. /\ pc'[t] = "val_utxos" /\ added' = added /\ utxos' = utxos
        /\ arg'[t] = [tx |-> tx, seen |-> << >>, since |-> Len(added),
                      before |-> utxos]
        /\ tx.inputs # << >>
    BY <1>b, <2>1 DEF ValidateWithUtxoSet, CallUtxos, Enter, Validate, utxoData
  <2>3. Len(tx.inputs) \in Nat /\ Len(tx.inputs) > 0
    <3>1. tx.inputs \in Seq([key : InputKeys(tx), hashLength : Nat,
                             signatureLength : Nat])
      BY InputsAssumption
    <3>2. QED
      BY <2>2, <3>1
  <2>4. /\ arg'[t].tx = tx /\ arg'[t].seen = << >> /\ Len(arg'[t].seen) = 0
        /\ arg'[t].since = Len(added') /\ arg'[t].before = utxos'
    BY <2>2
  <2>5. KnownAtStart(arg[t], utxos)'
    <3>1. 1..Len(arg'[t].seen) = {}
      BY <2>4
    <3>2. QED
      BY <2>4, <3>1 DEF KnownAtStart, OnlySpent
  <2>6. QED
    BY <1>b, <2>2, <2>3, <2>4, <2>5 DEF SeenFits
<1>2. CASE ValidateNext(t)
  <2>1. /\ pc[t] = "val_seen" /\ pc'[t] = "val_utxos" /\ arg' = arg
        /\ Len(arg[t].seen) < Len(arg[t].tx.inputs)
        /\ UNCHANGED <<utxos, added>>
    BY <1>b, <1>2 DEF ValidateNext, Await, utxoData
  <2>2. /\ NoneAdded(arg[t])' <=> NoneAdded(arg[t])
        /\ KnownAtStart(arg[t], utxos)' <=> KnownAtStart(arg[t], utxos)
    BY <2>1 DEF NoneAdded, AddedSince, KnownAtStart, OnlySpent, InputKeys
  <2>3. QED
    BY <2>1, <2>2 DEF SeenFits
<1>3. CASE ValidateInput(t)
  <2> DEFINE n == Len(arg[t].seen) + 1
             input == NextInput(arg[t])
             amount == utxos[input.key].amount
             inputs == arg[t].tx.inputs
             before == arg[t].before
             seen == Append(arg[t].seen, amount)
  <2>1. /\ pc[t] = "val_utxos" /\ pc'[t] = "val_seen"
        /\ input.key \in DOMAIN utxos /\ ~utxos[input.key].spent
        /\ utxos[input.key].recipient = arg[t].tx.sender
        /\ arg'[t] = [arg[t] EXCEPT !.seen = seen]
        /\ UNCHANGED <<utxos, added>>
    BY <1>b, <1>3 DEF ValidateInput, ValidInput, Unspent, Reached, Drop, Keep,
       utxoData
  <2>2. /\ arg[t] \in Validation
        /\ Len(arg[t].seen) \in Nat /\ Len(inputs) \in Nat
        /\ arg[t].seen \in Seq(Amounts)
    <3>1. /\ arg[t] \in Validation
          /\ Len(arg[t].seen) \in Nat /\ Len(arg[t].tx.inputs) \in Nat
      BY <1>c, <2>1
    <3>2. QED
      BY <3>1 DEF Validation
  <2>3. /\ Len(arg[t].seen) < Len(inputs) /\ arg[t].since <= Len(added)
        /\ NoneAdded(arg[t]) => KnownAtStart(arg[t], utxos)
    BY <2>1 DEF SeenFits
  <2>4. amount \in Amounts
    <3>1. utxos[input.key] \in Entry
      BY <1>a, <2>1 DEF UtxoTypes
    <3>2. QED
      BY <3>1 DEF Entry
  <2>5. /\ arg'[t].tx = arg[t].tx /\ arg'[t].since = arg[t].since
        /\ arg'[t].before = arg[t].before /\ arg'[t].seen = seen
    BY <2>1, <2>2 DEF Validation
  <2> HIDE DEF amount
  <2>6. /\ Len(seen) = n /\ seen[n] = amount
        /\ \A i \in 1..n : i # n => i \in 1..Len(arg[t].seen)
                                    /\ seen[i] = arg[t].seen[i]
    BY <2>2, <2>4
  <2>7. inputs[n] = input /\ input.key \in InputKeys(arg[t].tx)
    <3>1. n \in 1..Len(inputs)
      BY <2>2, <2>3
    <3>2. QED
      BY <3>1 DEF NextInput, InputKeys
  <2> HIDE DEF n, seen, input
  <2>8. Len(seen) <= Len(inputs)
    BY <2>2, <2>3, <2>6 DEF n
  <2>9. ASSUME KnownAtStart(arg[t], utxos), NEW i \in 1..n
        PROVE  /\ inputs[i].key \in DOMAIN before
               /\ ~before[inputs[i].key].spent
               /\ before[inputs[i].key].recipient = arg[t].tx.sender
               /\ before[inputs[i].key].amount = seen[i]
    <3>1. CASE i = n
      <4>1. OnlySpent(before, utxos, input.key)
        BY <2>7, <2>9 DEF KnownAtStart
      <4>2. QED
        BY <2>1, <2>6, <2>7, <3>1, <4>1 DEF amount, OnlySpent
    <3>2. CASE i # n
      BY <2>6, <2>9, <3>2 DEF KnownAtStart
    <3>3. QED
      BY <3>1, <3>2
  <2>10. NoneAdded(arg[t])' <=> NoneAdded(arg[t])
    BY <2>1, <2>5 DEF NoneAdded, AddedSince, InputKeys
  <2>11. NoneAdded(arg[t])' => KnownAtStart(arg[t], utxos)'
    <3>1. SUFFICES ASSUME KnownAtStart(arg[t], utxos)
                   PROVE  KnownAtStart(arg[t], utxos)'
      BY <2>3, <2>10
    <3>2. \A key \in InputKeys(arg[t].tx)' : OnlySpent(before, utxos', key)
      BY <2>1, <2>5, <3>1 DEF KnownAtStart, InputKeys
    <3>3. Len(arg'[t].seen) = n
      BY <2>5, <2>6
    <3>4. QED
      BY <2>5, <2>9, <3>1, <3>2, <3>3 DEF KnownAtStart
  <2>12. QED
    BY <2>1, <2>3, <2>5, <2>8, <2>11 DEF SeenFits
<1>4. QED
  BY <1>1, <1>2, <1>3 DEF Validates

\* Inputs with as many keys as there are inputs have different keys.
LEMMA DifferentInputs ==
  ASSUME NEW tx \in Catalogue, Cardinality(InputKeys(tx)) = Len(tx.inputs)
  PROVE  \A i, j \in 1..Len(tx.inputs) :
           tx.inputs[i].key = tx.inputs[j].key => i = j
<1> DEFINE n == Len(tx.inputs)
           key == [i \in 1..n |-> tx.inputs[i].key]
<1>1. n \in Nat
  BY InputsAssumption
<1>2. key \in Surjection(1..n, InputKeys(tx))
  BY DEF Surjection, InputKeys
<1>3. IsFiniteSet(1..n) /\ Cardinality(1..n) = n
  <2> HIDE DEF n
  <2>1. QED
    BY <1>1, FS_Interval
<1>4. \A i \in 1..n : key[i] = tx.inputs[i].key
  OBVIOUS
<1> DEFINE S == 1..n
           T == InputKeys(tx)
<1>5. /\ key \in Surjection(S, T) /\ IsFiniteSet(S)
      /\ Cardinality(T) = Cardinality(S)
  BY <1>2, <1>3
<1> HIDE DEF key, S, T
<1>6. key \in Injection(S, T)
  BY <1>5, FS_SurjSameCardinalityImpliesInj
<1>7. \A i, j \in S : key[i] = key[j] => i = j
  BY <1>6 DEF Injection, IsInjective
<1>8. QED
  BY <1>4, <1>7 DEF S

\* What a validation has seen was there, as often as it counted it, and once
\* if it names different outputs.
LEMMA SeenPays ==
  ASSUME TypeOK, NEW t \in Tasks, pc[t] = "val_seen",
         KnownAtStart(arg[t], utxos),
         Len(arg[t].seen) = Len(arg[t].tx.inputs)
  PROVE  /\ SumFunction(arg[t].seen) \in Nat
         /\ Covered(arg[t]) <=> PaysFrom(arg[t].before, arg[t].tx)
         /\ Cardinality(InputKeys(arg[t].tx)) = Len(arg[t].tx.inputs) =>
              PayableBy(arg[t].before, arg[t].tx.sender, InputKeys(arg[t].tx))
                = SumFunction(arg[t].seen)
<1> DEFINE tx == arg[t].tx
           seen == arg[t].seen
           before == arg[t].before
           inputs == arg[t].tx.inputs
           n == Len(arg[t].tx.inputs)
           key == [i \in 1..n |-> inputs[i].key]
           amount == [k \in DOMAIN before |-> before[k].amount]
           keys == {key[i] : i \in 1..n}
<1>1. UtxoTypes /\ ArgTypes
  BY TypesSplit
<1>2. arg[t] \in Validation
  BY <1>1, ArgShapes DEF ArgTypes
<1>3. tx \in Catalogue /\ seen \in Seq(Amounts)
  BY <1>2 DEF Validation
<1>4. n \in Nat
  BY <1>3, InputsAssumption
<1>5. DOMAIN seen = 1..n /\ \A i \in 1..n : seen[i] \in Nat
  <2>1. \A i \in 1..n : seen[i] \in Amounts
    BY <1>3, ElementOfSeq
  <2>2. DOMAIN seen = 1..Len(seen)
    BY <1>3
  <2>3. \A x \in Amounts : x \in Nat
    BY AmountsAssumption, AmountsTyped
  <2>4. QED
    BY <2>1, <2>2, <2>3
<1>6. \A i \in 1..n : /\ inputs[i].key \in DOMAIN before
                      /\ ~before[inputs[i].key].spent
                      /\ before[inputs[i].key].recipient = tx.sender
                      /\ before[inputs[i].key].amount = seen[i]
  BY DEF KnownAtStart
<1>7. \A i \in 1..n : key[i] = inputs[i].key /\ amount[key[i]] = seen[i]
  BY <1>6
<1>8. Covered(arg[t]) <=> PaysFrom(before, tx)
  <2> DEFINE there == [i \in 1..n |-> before[key[i]].amount]
  <2>1. seen = there
    <3>1. seen = [i \in 1..n |-> seen[i]]
      BY <1>3, <1>5
    <3>2. \A i \in 1..n : seen[i] = there[i]
      BY <1>6
    <3>3. QED
      BY <3>1, <3>2
  <2>2. Covered(arg[t]) <=> Saturated(SumFunction(there)) >= Needed(tx)
    BY <2>1 DEF Covered
  <2>3. DOMAIN key = 1..n
    OBVIOUS
  <2>4. PaysFrom(before, tx) <=> Saturated(SumFunction(there)) >= Needed(tx)
    BY <1>6, <2>3 DEF PaysFrom
  <2>5. QED
    BY <2>2, <2>4
<1>12. IsFiniteSet(1..n)
  <2> HIDE DEF n
  <2>1. QED
    BY <1>4, FS_Interval
<1>13. SumFunction(seen) = SumFunctionOnSet(seen, 1..n)
  BY <1>5 DEF SumFunction
<1>14. ASSUME Cardinality(InputKeys(tx)) = n
       PROVE  PayableBy(before, tx.sender, InputKeys(tx))
                = SumFunctionOnSet(seen, 1..n)
  <2>1. InputKeys(tx) = keys
    BY DEF InputKeys
  <2>2. {k \in keys : /\ k \in DOMAIN before
                      /\ ~before[k].spent
                      /\ before[k].recipient = tx.sender} = keys
    BY <1>6
  <2>3. PayableBy(before, tx.sender, InputKeys(tx)) = SumFunctionOnSet(amount, keys)
    BY <2>1, <2>2 DEF PayableBy
  <2>4. \A i, j \in 1..n : key[i] = key[j] => i = j
    BY <1>3, <1>7, <1>14, DifferentInputs
  <2> HIDE DEF seen, n, key, amount, before
  <2>5. SumFunctionOnSet(amount, keys) = SumFunctionOnSet(seen, 1..n)
    <3> DEFINE S == 1..n
    <3>1. /\ IsFiniteSet(S) /\ \A x, y \in S : key[x] = key[y] => x = y
          /\ \A x \in S : seen[x] \in Nat
          /\ \A x \in S : amount[key[x]] = seen[x]
      BY <1>5, <1>7, <1>12, <2>4
    <3> HIDE DEF S
    <3>2. SumFunctionOnSet(amount, {key[x] : x \in S}) = SumFunctionOnSet(seen, S)
      BY <3>1, SumReindex
    <3>3. QED
      BY <3>2 DEF S
  <2>6. QED
    BY <2>3, <2>5
<1> HIDE DEF seen, n, key, amount
<1>15. SumFunctionOnSet(seen, 1..n) \in Nat
  <2> DEFINE S == 1..n
  <2>1. IsFiniteSet(S) /\ \A x \in S : seen[x] \in Nat
    BY <1>5, <1>12
  <2> HIDE DEF S
  <2>2. SumFunctionOnSet(seen, S) \in Nat
    BY <2>1, SumIsNat
  <2>3. QED
    BY <2>2 DEF S
<1>16. QED
  BY <1>8, <1>13, <1>14, <1>15 DEF seen, n

\* Unless one of its inputs was added meanwhile, a validation that has found
\* all of them answers as if it had looked at them when it began, whatever was
\* spent since; and if it passes and names none twice, they paid for the
\* transaction then.
THEOREM ValidatesTheStartHolds == Spec => []ValidatesTheStart
<1>1. Init => SeenInv
  BY DEF Init, NoCalls, SeenInv, SeenFits
<1>2. TypeOK /\ TypeOK' /\ SeenInv /\ [Next]_vars => SeenInv'
  <2>1. SUFFICES ASSUME TypeOK, TypeOK', SeenInv, [Next]_vars
                 PROVE  SeenInv'
    OBVIOUS
  <2>2. UtxoTypes /\ ArgTypes
    BY <2>1, TypesSplit
  <2>3. UtxoTypes'
    BY <2>1 DEF TypeOK, UtxoTypes
  <2>4. CASE UNCHANGED vars
    <3>1. UNCHANGED <<utxos, added, pc, arg>>
      BY <2>4 DEF vars, taskVars, utxoData
    <3>2. SpendsAtMost(added, utxos, added', utxos')
      BY <3>1 DEF SpendsAtMost, OnlySpent
    <3>3. QED
      BY <2>1, <2>2, <2>3, <3>1, <3>2, SeenStays DEF SeenInv
  <2>5. ASSUME NEW t \in Tasks,
               \/ (BeginEngine(t) \/ ContinueEngine(t)) /\ UNCHANGED utxoData
               \/ BeginUtxo(t, workload[t]) \/ ContinueUtxo(t)
        PROVE  SeenInv'
    <3>1. \A u \in Tasks \ {t} : pc'[u] = pc[u] /\ arg'[u] = arg[u]
      BY <2>2, <2>5, OthersStay DEF ArgTypes
    <3>2. SpendsAtMost(added, utxos, added', utxos')
      BY <2>2, <2>5, StepsSpendAtMost
    <3>3. ASSUME NEW u \in Tasks \ {t} PROVE SeenFits(u)'
      <4>1. SeenFits(u) /\ pc'[u] = pc[u] /\ arg'[u] = arg[u]
        BY <2>1, <3>1 DEF SeenInv
      <4>2. QED
        BY <2>2, <2>3, <3>2, <4>1, SeenStays
    <3>4. SeenFits(t)'
      <4>1. CASE Validates(t)
        BY <2>1, <4>1, ValidatesSees DEF SeenInv
      <4>2. CASE ~Validates(t)
        <5>1. pc'[t] \notin {"val_utxos", "val_seen"}
          BY <2>2, <2>5, <4>2, OthersSeeNothing
        <5>2. QED
          BY <5>1 DEF SeenFits
      <4>3. QED
        BY <4>1, <4>2
    <3>5. QED
      BY <3>3, <3>4 DEF SeenInv
  <2>6. QED
    BY <2>1, <2>4, <2>5 DEF Next
<1>3. TypeOK /\ SeenInv => ValidatesTheStart
  <2>1. SUFFICES ASSUME TypeOK, SeenInv, NEW t \in Tasks, pc[t] = "val_seen",
                        Len(arg[t].seen) = Len(arg[t].tx.inputs),
                        NoneAdded(arg[t])
                 PROVE  /\ Covered(arg[t]) <=> PaysFrom(arg[t].before, arg[t].tx)
                        /\ /\ Covered(arg[t])
                           /\ Cardinality(InputKeys(arg[t].tx))
                                = Len(arg[t].tx.inputs)
                           => PayableBy(arg[t].before, arg[t].tx.sender,
                                        InputKeys(arg[t].tx))
                                >= Needed(arg[t].tx)
    BY DEF ValidatesTheStart, NoneAdded
  <2> DEFINE sum == SumFunction(arg[t].seen)
             needed == Needed(arg[t].tx)
             paid == PayableBy(arg[t].before, arg[t].tx.sender, InputKeys(arg[t].tx))
  <2>2. KnownAtStart(arg[t], utxos)
    BY <2>1 DEF SeenInv, SeenFits
  <2>3. /\ sum \in Nat
        /\ Covered(arg[t]) <=> PaysFrom(arg[t].before, arg[t].tx)
        /\ Cardinality(InputKeys(arg[t].tx)) = Len(arg[t].tx.inputs) => paid = sum
    BY <2>1, <2>2, SeenPays
  <2>4. needed \in Nat
    <3>1. arg[t] \in Validation
      BY <2>1, TypesSplit, ArgShapes DEF ArgTypes
    <3>2. arg[t].tx \in Catalogue
      BY <3>1 DEF Validation
    <3>3. QED
      BY <3>2, CreatedTyped
  <2>5. Covered(arg[t]) => Saturated(sum) >= needed
    BY DEF Covered
  <2> HIDE DEF sum, needed, paid
  <2>6. Saturated(sum) <= sum /\ Saturated(sum) \in Nat
    BY <2>3, AmountAssumption DEF Saturated
  <2>7. Covered(arg[t]) => sum >= needed
    BY <2>3, <2>4, <2>5, <2>6
  <2>8. QED
    BY <2>3, <2>7 DEF needed, paid
<1>4. QED
  BY <1>1, <1>2, <1>3, EngineTypeCorrect, PTL DEF Spec
=============================================================================
