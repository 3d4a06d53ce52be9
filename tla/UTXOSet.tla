------------------------------- MODULE UTXOSet -------------------------------
(***************************************************************************)
(* The set of unspent outputs (UTXOSet, src/src/transaction_engine.rs) and *)
(* the validation of a transaction against it.                             *)
(*                                                                         *)
(* The outputs and the index of their keys by recipient are two values     *)
(* behind two fair locks.  Adding an output locks the outputs, then the    *)
(* index; listing an address's outputs locks the index, then the outputs.  *)
(* Validation looks the inputs up one by one and lets go of the lock after *)
(* each: what it adds up need never have been there together.              *)
(***************************************************************************)
EXTENDS LockedTasks, Transactions

CONSTANTS
  Outputs,   \* keys "tx_hash:output_index" of well-formed outputs
  Addresses,
  Amounts,   \* amounts outputs are added with, none of them zero
  Catalogue, \* the transactions callers validate and submit
  MaxAdded   \* bound: no addition is begun after as many

ASSUME AmountsAssumption == Amounts \subseteq Money

VARIABLES
  utxos,         \* HashMap<key, UTXOEntry>
  address_utxos, \* HashMap<address, Vec<key>>
  \* what the code does not keep:
  added          \* keys in the order outputs were added or replaced

utxoData == <<utxos, address_utxos, added>>

UtxoLocks == {"utxos", "address_utxos"}

Entry == [recipient : Addresses, amount : Amounts, spent : BOOLEAN]

OutputMaps == UNION {[keys -> Entry] : keys \in SUBSET Outputs}

CallUtxos(t, value, point, lock, mode) ==
  Enter(t, value, point, lock, mode) /\ UNCHANGED utxoData

-----------------------------------------------------------------------------
(* add_utxo: the outputs, then the index, both kept.  An output that is    *)
(* there already, spent or not, is replaced, and its key listed once more. *)

AddUtxo(t, key, recipient, amount) ==
  CallUtxos(t, [key |-> key, recipient |-> recipient, amount |-> amount],
            "add_utxos", "utxos", "write")

Insert(output) ==
  /\ utxos' = [k \in DOMAIN utxos \cup {output.key} |->
                 IF k = output.key
                 THEN [recipient |-> output.recipient,
                       amount |-> output.amount, spent |-> FALSE]
                 ELSE utxos[k]]
  /\ added' = Append(added, output.key)

\* Variant: the outputs are unlocked before the index is locked.
AddInsertUnlocks(t) ==
  /\ Reached(t, "add_utxos", "utxos")
  /\ Insert(arg[t])
  /\ AwaitAfter(t, "utxos", "add_index", "address_utxos", "write")
  /\ UNCHANGED <<address_utxos, arg>>

AddInsert(t) ==
  /\ Reached(t, "add_utxos", "utxos")
  /\ Insert(arg[t])
  /\ Await(t, "add_index", "address_utxos", "write")
  /\ UNCHANGED <<address_utxos, arg>>

Listed(address) ==
  IF address \in DOMAIN address_utxos THEN address_utxos[address] ELSE << >>

AddIndex(t) ==
  /\ Reached(t, "add_index", "address_utxos")
  /\ address_utxos' = [a \in DOMAIN address_utxos \cup {arg[t].recipient} |->
                         IF a = arg[t].recipient
                         THEN Append(Listed(a), arg[t].key)
                         ELSE address_utxos[a]]
  /\ Return(t)
  /\ UNCHANGED <<utxos, added>>

-----------------------------------------------------------------------------
(* spend_utxo                                                              *)

SpendUtxo(t, key) ==
  CallUtxos(t, [key |-> key], "spend_utxos", "utxos", "write")

Unspent(key) == key \in DOMAIN utxos /\ ~utxos[key].spent

SpendMark(t) ==
  /\ Reached(t, "spend_utxos", "utxos")
  /\ Unspent(arg[t].key)
  /\ utxos' = [utxos EXCEPT ![arg[t].key].spent = TRUE]
  /\ Return(t)
  /\ UNCHANGED <<address_utxos, added>>

SpendRefused(t) ==
  /\ Reached(t, "spend_utxos", "utxos")
  /\ ~Unspent(arg[t].key)
  /\ Return(t)
  /\ UNCHANGED utxoData

-----------------------------------------------------------------------------
(* get_address_utxos: the index, then the outputs, both kept.              *)

GetAddressUtxos(t, address) ==
  CallUtxos(t, [address |-> address], "list_index", "address_utxos", "read")

ListIndex(t) ==
  /\ Reached(t, "list_index", "address_utxos")
  /\ Await(t, "list_utxos", "utxos", "read")
  /\ UNCHANGED <<utxoData, arg>>

\* What is returned changes nothing: the unspent outputs among those listed,
\* of which get_address_balance makes a sum that wraps.
ListReport(t) ==
  /\ Reached(t, "list_utxos", "utxos")
  /\ Return(t)
  /\ UNCHANGED utxoData

-----------------------------------------------------------------------------
(* validate_with_utxo_set: one lookup, and one guard, for each input.      *)
(* What was there when it began is history: since, before.                 *)

ValidateWithUtxoSet(t, tx) ==
  /\ Validate(tx)
  /\ CallUtxos(t, [tx |-> tx, seen |-> << >>,
                   since |-> Len(added), before |-> utxos],
               "val_utxos", "utxos", "read")

\* Variant: whether it is spent is not tested.
SpentInput(tx, input) ==
  /\ input.key \in DOMAIN utxos
  /\ utxos[input.key].amount <= Supply
  /\ utxos[input.key].recipient = tx.sender
  /\ input.signatureLength = 128

ValidInput(tx, input) ==
  /\ Unspent(input.key)
  /\ utxos[input.key].amount <= Supply
  /\ utxos[input.key].recipient = tx.sender
  /\ input.signatureLength = 128

NextInput(call) == call.tx.inputs[Len(call.seen) + 1]

ValidateInput(t) ==
  /\ Reached(t, "val_utxos", "utxos")
  /\ ValidInput(arg[t].tx, NextInput(arg[t]))
  /\ Keep(t, [arg[t] EXCEPT
                !.seen = Append(@, utxos[NextInput(arg[t]).key].amount)])
  /\ Drop(t, "utxos", "val_seen")
  /\ UNCHANGED utxoData

ValidateRefused(t) ==
  /\ Reached(t, "val_utxos", "utxos")
  /\ ~ValidInput(arg[t].tx, NextInput(arg[t]))
  /\ Return(t)
  /\ UNCHANGED utxoData

ValidateNext(t) ==
  /\ pc[t] = "val_seen"
  /\ Len(arg[t].seen) < Len(arg[t].tx.inputs)
  /\ Await(t, "val_utxos", "utxos", "read")
  /\ UNCHANGED <<utxoData, arg>>

\* An output that is listed twice among the inputs counts twice.
Covered(call) == Saturated(SumFunction(call.seen)) >= Needed(call.tx)

ValidateAnswer(t) ==
  /\ pc[t] = "val_seen"
  /\ Len(arg[t].seen) = Len(arg[t].tx.inputs)
  /\ Return(t)
  /\ UNCHANGED utxoData

-----------------------------------------------------------------------------
BeginUtxo(t, ops) ==
  \/ /\ "add" \in ops /\ Len(added) < MaxAdded
     /\ \E key \in Outputs, recipient \in Addresses, amount \in Amounts :
          AddUtxo(t, key, recipient, amount)
  \/ "spend" \in ops /\ \E key \in Outputs : SpendUtxo(t, key)
  \/ "list" \in ops /\ \E a \in Addresses : GetAddressUtxos(t, a)
  \/ "validate" \in ops /\ \E tx \in Catalogue : ValidateWithUtxoSet(t, tx)

ContinueUtxo(t) ==
  \/ AddInsert(t) \/ AddIndex(t)
  \/ SpendMark(t) \/ SpendRefused(t)
  \/ ListIndex(t) \/ ListReport(t)
  \/ ValidateInput(t) \/ ValidateRefused(t) \/ ValidateNext(t)
  \/ ValidateAnswer(t)

InitUtxo == utxos = << >> /\ address_utxos = << >> /\ added = << >>

-----------------------------------------------------------------------------
(* What callers may rely on.                                               *)

\* Whoever can read the outputs finds each of them listed for its recipient,
\* although the index is brought up under another lock; so the balance of an
\* address is never short.  (An output that was added twice is listed twice
\* and may be listed for an earlier recipient as well.)
OutputsListed ==
  ~WriteHeld(locks["utxos"]) =>
    /\ \A key \in DOMAIN utxos : key \in ToSet(Listed(utxos[key].recipient))
    /\ \A a \in DOMAIN address_utxos :
         ToSet(address_utxos[a]) \subseteq DOMAIN utxos

\* What the unspent ones of these keys pay an address for, each once.
PayableBy(outputs, address, keys) ==
  SumFunctionOnSet([key \in DOMAIN outputs |-> outputs[key].amount],
                   {key \in keys : /\ key \in DOMAIN outputs
                                   /\ ~outputs[key].spent
                                   /\ outputs[key].recipient = address})

InputKeys(tx) == {tx.inputs[i].key : i \in 1..Len(tx.inputs)}

\* What a validation would answer that looks at all inputs at one moment.
PaysFrom(outputs, tx) ==
  LET key == [i \in 1..Len(tx.inputs) |-> tx.inputs[i].key]
  IN  /\ \A i \in DOMAIN key : /\ key[i] \in DOMAIN outputs
                               /\ ~outputs[key[i]].spent
                               /\ outputs[key[i]].recipient = tx.sender
      /\ Saturated(SumFunction([i \in DOMAIN key |-> outputs[key[i]].amount]))
           >= Needed(tx)

AddedSince(call) == {added[i] : i \in (call.since + 1)..Len(added)}

\* A validation looks its inputs up one by one, and any of them may be spent
\* as soon as it has been looked up.  Still, unless one of them was added
\* meanwhile, a validation that finds them all answers as if it had looked at
\* all of them when it began; and if it passes and names none of them twice,
\* they paid for the transaction then.
ValidatesTheStart ==
  \A t \in Tasks :
    LET call == arg[t]
    IN  /\ pc[t] = "val_seen"
        /\ Len(call.seen) = Len(call.tx.inputs)
        /\ AddedSince(call) \cap InputKeys(call.tx) = {}
        => /\ Covered(call) <=> PaysFrom(call.before, call.tx)
           /\ /\ Covered(call)
              /\ Cardinality(InputKeys(call.tx)) = Len(call.tx.inputs)
              => PayableBy(call.before, call.tx.sender, InputKeys(call.tx))
                   >= Needed(call.tx)
=============================================================================
