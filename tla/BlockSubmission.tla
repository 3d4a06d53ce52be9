--------------------------- MODULE BlockSubmission ---------------------------
(***************************************************************************)
(* The block submission handler (src/src/block_submission.rs).             *)
(*                                                                         *)
(* The handler keeps the hash of the last block and its height behind two  *)
(* fair locks.  A submission copies the hash, builds its block on it, lets *)
(* that lock go, compares the block's height with the current one and      *)
(* sends the block to the node with no lock held.  The hash and the height *)
(* move together, under the hash's lock, when the node accepts a block or  *)
(* when whoever follows the chain reports one.                             *)
(***************************************************************************)
EXTENDS LockedTasks, Integers, Sequences

CONSTANTS
  Hashes,    \* of blocks; nothing is assumed about which block has which
  ZeroHash,  \* what the handler starts with
  Heights,   \* the heights submit_block and update_prev_block_hash are given
  Ops,       \* the operations each task calls in this instance
  MaxTips    \* bound: no call begins beyond this many updates

OpNames == {"submit", "update", "stats"}

ASSUME SubmissionAssumption ==
  /\ Ops \in [Tasks -> SUBSET OpNames]
  /\ Heights \subseteq Nat /\ MaxTips \in Nat
  /\ ZeroHash \in Hashes

VARIABLES
  prev,    \* prev_block_hash
  height,  \* current_height
  tips     \* history: the last blocks the handler has been told of, in order

data == <<prev, height, tips>>
vars == <<data, taskVars>>

Locks == {"prev", "height"}

Tip == [hash : Hashes, height : Nat]
Submitted == [height : Heights, payable : BOOLEAN]

\* A built block: its parent's hash, the hash and height it has itself, and
\* (history) how many updates its parent's hash had behind it.
Built == [parent : Hashes, tip : Tip, seen : Nat]

-----------------------------------------------------------------------------
Call(t, op, value, point, lock, mode) ==
  /\ op \in Ops[t]
  /\ Len(tips) < MaxTips
  /\ Enter(t, value, point, lock, mode)
  /\ UNCHANGED data

\* submit_block: a block is payable if it has a miner and a reward.
SubmitBlock(t, h, payable) ==
  Call(t, "submit", [height |-> h, payable |-> payable],
       "sub_prev", "prev", "read")

\* The header is built on the hash just read; the height is the caller's.
\* A block that cannot be paid is rejected before the height is read.
SubmitBuild(t) ==
  /\ Reached(t, "sub_prev", "prev")
  /\ arg[t].payable
  /\ \E hash \in Hashes :
       Keep(t, [parent |-> prev, seen |-> Len(tips),
                tip |-> [hash |-> hash, height |-> arg[t].height]])
  /\ Drop(t, "prev", "sub_built")
  /\ UNCHANGED data

SubmitAsk(t) ==
  /\ pc[t] = "sub_built"
  /\ Await(t, "sub_height", "height", "read")
  /\ UNCHANGED <<data, arg>>

SubmitUnpayable(t) ==
  /\ Reached(t, "sub_prev", "prev")
  /\ ~arg[t].payable
  /\ Return(t)
  /\ UNCHANGED data

\* Variant: a block may be any number of blocks ahead.
SubmitSendAhead(t) ==
  /\ Reached(t, "sub_height", "height")
  /\ arg[t].tip.height >= height + 1
  /\ Drop(t, "height", "sub_sent")
  /\ UNCHANGED <<data, arg>>

\* The height check is the last of the validation; then the block is sent.
SubmitSend(t) ==
  /\ Reached(t, "sub_height", "height")
  /\ arg[t].tip.height = height + 1
  /\ Drop(t, "height", "sub_sent")
  /\ UNCHANGED <<data, arg>>

SubmitMisplaced(t) ==
  /\ Reached(t, "sub_height", "height")
  /\ arg[t].tip.height # height + 1
  /\ Return(t)
  /\ UNCHANGED data

\* The request failed or thirty seconds have passed; the node may or may
\* not have taken the block.
SendFails(t) ==
  /\ pc[t] = "sub_sent"
  /\ Return(t)
  /\ UNCHANGED data

\* The headers of the answer are there.  The timeout covered only these.
SendAnswered(t) ==
  /\ pc[t] = "sub_sent"
  /\ Move(t, "sub_body")
  /\ UNCHANGED <<data, arg>>

\* The body carries an error, or is no JSON.
NodeRejects(t) ==
  /\ pc[t] = "sub_body"
  /\ Return(t)
  /\ UNCHANGED data

NodeAccepts(t) ==
  /\ pc[t] = "sub_body"
  /\ Await(t, "acc_prev", "prev", "write")
  /\ UNCHANGED <<data, arg>>

-----------------------------------------------------------------------------
(* update_prev_block_hash, of an accepted block or of one reported.        *)

UpdatePrevBlockHash(t, tip) ==
  Call(t, "update", [tip |-> tip], "upd_prev", "prev", "write")

\* Variant: the hash is unlocked before the height is locked.
StorePrevUnlocks(t, from, to) ==
  /\ Reached(t, from, "prev")
  /\ prev' = arg[t].tip.hash
  /\ tips' = Append(tips, arg[t].tip)
  /\ AwaitAfter(t, "prev", to, "height", "write")
  /\ UNCHANGED <<height, arg>>

StorePrev(t, from, to) ==
  /\ Reached(t, from, "prev")
  /\ prev' = arg[t].tip.hash
  /\ tips' = Append(tips, arg[t].tip)
  /\ Await(t, to, "height", "write")
  /\ UNCHANGED <<height, arg>>

StoreHeight(t, from) ==
  /\ Reached(t, from, "height")
  /\ height' = arg[t].tip.height
  /\ Return(t)
  /\ UNCHANGED <<prev, tips>>

AcceptPrev(t) == StorePrev(t, "acc_prev", "acc_height")
AcceptHeight(t) == StoreHeight(t, "acc_height")
UpdatePrev(t) == StorePrev(t, "upd_prev", "upd_height")
UpdateHeight(t) == StoreHeight(t, "upd_height")

-----------------------------------------------------------------------------
(* get_stats: the height and the hash, one lock after the other.           *)

GetStats(t) == Call(t, "stats", None, "stats_height", "height", "read")

StatsHeight(t) ==
  /\ Reached(t, "stats_height", "height")
  /\ Drop(t, "height", "stats_copied")
  /\ UNCHANGED <<data, arg>>

StatsAsk(t) ==
  /\ pc[t] = "stats_copied"
  /\ Await(t, "stats_prev", "prev", "read")
  /\ UNCHANGED <<data, arg>>

\* Variant: the report starts again, as one that insists on a pair would.
StatsPrevRetries(t) ==
  /\ Reached(t, "stats_prev", "prev")
  /\ AwaitAfter(t, "prev", "stats_height", "height", "read")
  /\ UNCHANGED <<data, arg>>

StatsPrev(t) ==
  /\ Reached(t, "stats_prev", "prev")
  /\ Return(t)
  /\ UNCHANGED data

-----------------------------------------------------------------------------
Begin(t) ==
  \/ \E h \in Heights, payable \in BOOLEAN : SubmitBlock(t, h, payable)
  \/ \E hash \in Hashes, h \in Heights :
       UpdatePrevBlockHash(t, [hash |-> hash, height |-> h])
  \/ GetStats(t)

Continue(t) ==
  \/ SubmitBuild(t) \/ SubmitAsk(t) \/ SubmitUnpayable(t)
  \/ SubmitSend(t) \/ SubmitMisplaced(t)
  \/ SendFails(t) \/ SendAnswered(t)
  \/ AcceptPrev(t) \/ AcceptHeight(t)
  \/ UpdatePrev(t) \/ UpdateHeight(t)
  \/ StatsHeight(t) \/ StatsAsk(t) \/ StatsPrev(t)

\* What depends on the node alone: the rest of its answer.
Node(t) == NodeRejects(t) \/ NodeAccepts(t)

Init ==
  /\ prev = ZeroHash
  /\ height = 0
  /\ tips = <<[hash |-> ZeroHash, height |-> 0]>>
  /\ NoCalls(Locks)

Next == \E t \in Tasks : Begin(t) \/ Continue(t) \/ Node(t)

Spec == Init /\ [][Next]_vars

\* The runtime polls every task that can go on, and its timer ends a request
\* that has not been answered.  Nothing makes the node finish an answer.
FairSpec == Spec /\ \A t \in Tasks : WF_vars(Continue(t))

-----------------------------------------------------------------------------
(* Which guards a task has at each await point.                            *)

Points == {"idle", "sub_prev", "sub_built", "sub_height", "sub_sent",
           "sub_body", "acc_prev", "acc_height", "upd_prev", "upd_height",
           "stats_height", "stats_copied", "stats_prev"}

Storing == {"acc_height", "upd_height"}

Writes == [prev |-> {"acc_prev", "upd_prev"} \cup Storing, height |-> Storing]

Reads == [prev |-> {"sub_prev", "stats_prev"},
          height |-> {"sub_height", "stats_height"}]

Wants == [point \in Points |-> [lock \in Locks |->
            IF point \in Writes[lock] THEN "write"
            ELSE IF point \in Reads[lock] THEN "read" ELSE "none"]]

HeldAt == [point \in Points |-> IF point \in Storing THEN {"prev"} ELSE {}]

-----------------------------------------------------------------------------
Pending == {"sub_built", "sub_height", "sub_sent", "sub_body",
            "acc_prev", "acc_height"}

ArgOf(point) ==
  CASE point = "sub_prev" -> Submitted
    [] point \in Pending -> Built
    [] point \in {"upd_prev", "upd_height"} -> [tip : Tip]
    [] OTHER -> {None}

TypeOK ==
  /\ prev \in Hashes
  /\ height \in Nat
  /\ tips \in Seq(Tip)
  /\ LockInv(Locks, Points, Wants, HeldAt)
  /\ DOMAIN arg = Tasks
  /\ \A t \in Tasks : arg[t] \in ArgOf(pc[t])

-----------------------------------------------------------------------------
(* What callers may rely on.                                               *)

Last == tips[Len(tips)]

\* Whoever can read the hash finds it and the height to be of one block, the
\* last one the handler was told of: update_prev_block_hash stores them
\* under two locks.
PairCoherent ==
  ~WriteHeld(locks["prev"]) => Last = [hash |-> prev, height |-> height]

Validated == {"sub_sent", "sub_body", "acc_prev"}

\* A block that passed validation was built on the tip it names; and if
\* nothing has been stored since, it extends it by one.  So accepting it
\* moves the height up by one unless another block was stored in between:
\* the hash and the height are read under two locks.
OvertakenOnly ==
  \A t \in Tasks : pc[t] \in Validated =>
    /\ arg[t].seen \in 1..Len(tips)
    /\ arg[t].parent = tips[arg[t].seen].hash
    /\ arg[t].seen = Len(tips) => arg[t].tip.height = Last.height + 1

\* No lock is kept over the node's answer: updates and reports return even
\* if it never comes.
LocalCallsReturn ==
  \A t \in Tasks :
    pc[t] \in {"acc_prev", "upd_prev", "stats_height"} ~> pc[t] = "idle"

-----------------------------------------------------------------------------
(* Why: what holds while an update is half done.                           *)

Updating == {t \in Tasks : pc[t] \in Storing}

TipInv ==
  /\ Len(tips) > 0
  /\ prev = Last.hash
  /\ Updating = {} => height = Last.height
  /\ \A t \in Updating : Last = arg[t].tip

BlockInv ==
  \A t \in Tasks : pc[t] \in Pending \ Storing =>
    /\ arg[t].seen \in 1..Len(tips)
    /\ arg[t].parent = tips[arg[t].seen].hash
    /\ Updating # {} => arg[t].seen < Len(tips)

\* The inductive invariant: the height is behind the hash by the one update
\* whose owner still keeps the hash, and every block under way knows its
\* parent, which is not the block that is just being stored.
SubmissionInv == TipInv /\ BlockInv /\ OvertakenOnly
=============================================================================
