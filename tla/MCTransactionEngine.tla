------------------------ MODULE MCTransactionEngine ------------------------
(* Values for TLC.  Amounts have three bits; one Slvr is 1, so that one    *)
(* input stands for 1, two for 3.                                          *)
EXTENDS TransactionEngine

CONSTANTS t1, t2, t3, a, b, k1, k2

Input(key) == [key |-> key, hashLength |-> 128, signatureLength |-> 128]
ShortHash == [key |-> "nothing", hashLength |-> 4, signatureLength |-> 128]
Secp(key) == [key |-> key, hashLength |-> 128, signatureLength |-> 132]
To(address, amount) == [recipient |-> address, amount |-> amount]

Tx(hash, sender, inputs, outputs, fee) ==
  [hash |-> hash, sender |-> sender, inputs |-> inputs, outputs |-> outputs,
   fee |-> fee]

\* The sum of the first one's outputs is 2^3; the others pay each other, one
\* with a fee, and one itself with an input it names twice.
MCCatalogue ==
  {Tx("wraps", a, <<Input(k1)>>, <<To(b, 4), To(b, 4)>>, 0),
   Tx("pays", b, <<Input(k1), Input(k2)>>, <<To(a, 2)>>, 1),
   Tx("change", a, <<Input(k1), Input(k1)>>, <<To(a, 2)>>, 0),
   Tx("other", b, <<Secp(k2), ShortHash>>, <<To(a, 1)>>, 0)}

EngineCalls == (t1 :> {"submit", "execute"})
            @@ (t2 :> {"submit", "execute"})
            @@ (t3 :> {"account", "stats"})

OutputCalls == (t1 :> {"add"})
            @@ (t2 :> {"add", "spend"})
            @@ (t3 :> {"list", "validate"})

MCWorkloads == {EngineCalls, OutputCalls}
=============================================================================
