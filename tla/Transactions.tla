---------------------------- MODULE Transactions ----------------------------
(***************************************************************************)
(* Transactions and the sums they are tested by                            *)
(* (src/src/transaction_engine.rs).  Amounts are u128: a sum over the      *)
(* outputs is a plain `sum()`, which wraps in the release build, the other *)
(* additions saturate.  Hashes and signatures are told apart by their      *)
(* length only.                                                            *)
(***************************************************************************)
EXTENDS Integers, Sequences, SequencesExt

CONSTANTS
  Word,   \* 2^128: one more than the largest amount
  Slvr,   \* MIST_PER_SLVR
  Supply  \* max_supply

ASSUME AmountAssumption == Word \in Nat \ {0} /\ {Slvr, Supply} \subseteq Nat

Money == 0..(Word - 1)

\* What saturating additions make of amounts that add up to this.
Saturated(total) == IF total < Word THEN total ELSE Word - 1

\* saturating_add
Plus(a, b) == Saturated(a + b)

\* Iterator::sum: overflow is not checked in a release build.
Wrapped(total) == total % Word

\* What the first n outputs pay.
PaidByFirst(outputs, n) ==
  SumFunctionOnSet([i \in 1..Len(outputs) |-> outputs[i].amount], 1..n)

Total(outputs) == PaidByFirst(outputs, Len(outputs))

TotalOutput(tx) == Wrapped(Total(tx.outputs))

Needed(tx) == Plus(TotalOutput(tx), tx.fee)

-----------------------------------------------------------------------------
(* validate, which no output is looked up for: the amount of an input is   *)
(* made up from its place among the inputs.                                *)

GuessedAmount(i) ==
  CASE i = 1 -> Slvr
    [] i = 2 -> 2 * Slvr
    [] i = 3 -> 5 * Slvr
    [] i = 4 -> 10 * Slvr
    [] OTHER -> i * Slvr

\* An input of another format is passed over.
Counted(tx, i) ==
  /\ tx.inputs[i].hashLength = 128
  /\ tx.inputs[i].signatureLength \in {128, 132, 5120}
  /\ GuessedAmount(i) \in 1..Supply

TotalInput(tx) ==
  Saturated(SumFunction([i \in 1..Len(tx.inputs) |->
                           IF Counted(tx, i) THEN GuessedAmount(i) ELSE 0]))

Validate(tx) ==
  /\ tx.inputs # << >> /\ tx.outputs # << >>
  /\ \A i \in 1..Len(tx.outputs) : tx.outputs[i].amount > 0
  /\ TotalOutput(tx) <= TotalInput(tx)
=============================================================================
