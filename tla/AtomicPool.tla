----------------------------- MODULE AtomicPool -----------------------------
(***************************************************************************)
(* What the mining pool promises its callers: every operation takes effect *)
(* at once.  A miner and its account appear and disappear together, a      *)
(* share is counted, credited and logged in one step, and the log loses    *)
(* shares only to maintenance.                                             *)
(***************************************************************************)
EXTENDS Naturals, FiniteSets

CONSTANTS Miners, Shares, Amounts, MaxMiners

VARIABLES
  registry,  \* each registered miner's share count and earnings
  accepted,  \* how many shares were accepted
  rejected,  \* how many were refused
  blocks,    \* how many of the accepted ones were blocks
  log        \* the accepted shares still kept, numbered

vars == <<registry, accepted, rejected, blocks, log>>

Entry == [shares : Nat, earned : Nat]

Register(m) ==
  /\ m \notin DOMAIN registry
  /\ Cardinality(DOMAIN registry) < MaxMiners
  /\ registry' = [k \in DOMAIN registry \cup {m} |->
                    IF k = m THEN [shares |-> 0, earned |-> 0]
                             ELSE registry[k]]
  /\ UNCHANGED <<accepted, rejected, blocks, log>>

Unregister(m) ==
  /\ registry' = [k \in DOMAIN registry \ {m} |-> registry[k]]
  /\ UNCHANGED <<accepted, rejected, blocks, log>>

Accept(share) ==
  /\ accepted' = accepted + 1
  /\ blocks' = IF share.is_block THEN blocks + 1 ELSE blocks
  /\ log' = log \cup {[number |-> accepted + 1, share |-> share]}
  /\ registry' = IF share.miner_id \in DOMAIN registry
                 THEN [registry EXCEPT ![share.miner_id].shares = @ + 1]
                 ELSE registry
  /\ UNCHANGED rejected

Reject == /\ rejected' = rejected + 1
          /\ UNCHANGED <<registry, accepted, blocks, log>>

Pay(m, amount) ==
  /\ m \in DOMAIN registry
  /\ registry' = [registry EXCEPT ![m].earned = @ + amount]
  /\ UNCHANGED <<accepted, rejected, blocks, log>>

Expire ==
  /\ log' \in SUBSET log
  /\ UNCHANGED <<registry, accepted, rejected, blocks>>

Init ==
  /\ registry = << >> /\ accepted = 0 /\ rejected = 0 /\ blocks = 0
  /\ log = {}

Next ==
  \/ \E m \in Miners : Register(m) \/ Unregister(m)
  \/ \E m \in Miners, a \in Amounts : Pay(m, a)
  \/ \E s \in Shares : Accept(s)
  \/ Reject
  \/ Expire

Spec == Init /\ [][Next]_vars
=============================================================================
