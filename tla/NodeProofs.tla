----------------------------- MODULE NodeProofs -----------------------------
(***************************************************************************)
(* Theorems about the block submission handler, for any number of tasks,   *)
(* hashes and heights, and any behaviour of the node; and, in the later    *)
(* parts, about the node's binary and its WebSocket server, for any number *)
(* of tasks, peers and blocks, wherever the process ends.                  *)
(***************************************************************************)
EXTENDS BlockSubmission, Node, LockedTasksProofs, SequenceTheorems

-----------------------------------------------------------------------------
(* The locks.                                                              *)

SubmissionLocks == LockInv(Locks, Points, Wants, HeldAt)

\* A task between two calls has no guard and waits for none.
LEMMA IdleHoldsNothing ==
  /\ "idle" \in Points
  /\ \A l \in Locks : Wants["idle"][l] = "none"
  /\ HeldAt["idle"] = {}
BY DEF Points, Locks, Wants, Writes, Reads, HeldAt, Storing

\* Starting an operation asks for its first lock.
LEMMA BeginKeepsLocks ==
  ASSUME SubmissionLocks, NEW t \in Tasks, Begin(t)
  PROVE  SubmissionLocks'
<1> USE DEF SubmissionLocks
<1>1. CASE \E h \in Heights, payable \in BOOLEAN : SubmitBlock(t, h, payable)
  <2>1. Asks(Locks, Points, Wants, HeldAt, "idle", {},
             "sub_prev", "prev", "read")
    BY DEF Asks, Points, Locks, Wants, Writes, Reads, HeldAt, Storing
  <2>2. QED
    BY <1>1, <2>1, EnterKeepsLocks DEF SubmitBlock, Call
<1>2. CASE \E hash \in Hashes, h \in Heights :
             UpdatePrevBlockHash(t, [hash |-> hash, height |-> h])
  <2>1. Asks(Locks, Points, Wants, HeldAt, "idle", {},
             "upd_prev", "prev", "write")
    BY DEF Asks, Points, Locks, Wants, Writes, Reads, HeldAt, Storing
  <2>2. QED
    BY <1>2, <2>1, EnterKeepsLocks DEF UpdatePrevBlockHash, Call
<1>3. CASE GetStats(t)
  <2>1. Asks(Locks, Points, Wants, HeldAt, "idle", {},
             "stats_height", "height", "read")
    BY DEF Asks, Points, Locks, Wants, Writes, Reads, HeldAt, Storing
  <2>2. QED
    BY <1>3, <2>1, EnterKeepsLocks DEF GetStats, Call
<1>4. QED
  BY <1>1, <1>2, <1>3 DEF Begin

\* Every later segment has the guards it runs under and asks for the next
\* lock, drops one, or returns.
LEMMA ContinueKeepsLocks ==
  ASSUME SubmissionLocks, NEW t \in Tasks, Continue(t) \/ Node(t)
  PROVE  SubmissionLocks'
<1> USE DEF SubmissionLocks
<1>1. CASE SubmitBuild(t)
  <2>1. Drops(Locks, Points, Wants, HeldAt, "sub_prev", {"prev"},
              "prev", "sub_built")
    BY DEF Drops, Points, Locks, Wants, Writes, Reads, HeldAt, Storing
  <2>2. /\ pc[t] = "sub_prev" /\ Holds(locks["prev"], t)
        /\ Drop(t, "prev", "sub_built")
    BY <1>1 DEF SubmitBuild, Reached
  <2>3. QED
    BY <2>1, <2>2, DropsKeepsLocks
<1>2. CASE SubmitAsk(t)
  <2>1. Asks(Locks, Points, Wants, HeldAt, "sub_built", {},
             "sub_height", "height", "read")
    BY DEF Asks, Points, Locks, Wants, Writes, Reads, HeldAt, Storing
  <2>2. QED
    BY <1>2, <2>1, AsksKeepsLocks DEF SubmitAsk, Reached
<1>3. CASE SubmitUnpayable(t)
  BY <1>3, ReturnKeepsLocks, IdleHoldsNothing DEF SubmitUnpayable
<1>4. CASE SubmitSend(t)
  <2>1. Drops(Locks, Points, Wants, HeldAt, "sub_height", {"height"},
              "height", "sub_sent")
    BY DEF Drops, Points, Locks, Wants, Writes, Reads, HeldAt, Storing
  <2>2. QED
    BY <1>4, <2>1, DropsKeepsLocks DEF SubmitSend, Reached
<1>5. CASE SubmitMisplaced(t)
  BY <1>5, ReturnKeepsLocks, IdleHoldsNothing DEF SubmitMisplaced
<1>6. CASE SendFails(t)
  BY <1>6, ReturnKeepsLocks, IdleHoldsNothing DEF SendFails
<1>7. CASE SendAnswered(t)
  <2>1. /\ \A l \in Locks : Wants["sub_body"][l] = Wants["sub_sent"][l]
        /\ "sub_body" \in Points /\ HeldAt["sub_body"] = {}
    BY DEF Points, Locks, Wants, Writes, Reads, HeldAt, Storing
  <2>2. QED
    BY <1>7, <2>1, MoveKeepsLocks DEF SendAnswered
<1>8. CASE NodeRejects(t)
  BY <1>8, ReturnKeepsLocks, IdleHoldsNothing DEF NodeRejects
<1>9. CASE NodeAccepts(t)
  <2>1. Asks(Locks, Points, Wants, HeldAt, "sub_body", {},
             "acc_prev", "prev", "write")
    BY DEF Asks, Points, Locks, Wants, Writes, Reads, HeldAt, Storing
  <2>2. QED
    BY <1>9, <2>1, AsksKeepsLocks DEF NodeAccepts, Reached
<1>10. CASE AcceptPrev(t)
  <2>1. Asks(Locks, Points, Wants, HeldAt, "acc_prev", {"prev"},
             "acc_height", "height", "write")
    BY DEF Asks, Points, Locks, Wants, Writes, Reads, HeldAt, Storing
  <2>2. /\ pc[t] = "acc_prev" /\ Holds(locks["prev"], t)
        /\ Await(t, "acc_height", "height", "write")
    BY <1>10 DEF AcceptPrev, StorePrev, Reached
  <2>3. QED
    BY <2>1, <2>2, AsksKeepsLocks
<1>11. CASE AcceptHeight(t)
  BY <1>11, ReturnKeepsLocks, IdleHoldsNothing DEF AcceptHeight, StoreHeight
<1>12. CASE UpdatePrev(t)
  <2>1. Asks(Locks, Points, Wants, HeldAt, "upd_prev", {"prev"},
             "upd_height", "height", "write")
    BY DEF Asks, Points, Locks, Wants, Writes, Reads, HeldAt, Storing
  <2>2. /\ pc[t] = "upd_prev" /\ Holds(locks["prev"], t)
        /\ Await(t, "upd_height", "height", "write")
    BY <1>12 DEF UpdatePrev, StorePrev, Reached
  <2>3. QED
    BY <2>1, <2>2, AsksKeepsLocks
<1>13. CASE UpdateHeight(t)
  BY <1>13, ReturnKeepsLocks, IdleHoldsNothing DEF UpdateHeight, StoreHeight
<1>14. CASE StatsHeight(t)
  <2>1. Drops(Locks, Points, Wants, HeldAt, "stats_height", {"height"},
              "height", "stats_copied")
    BY DEF Drops, Points, Locks, Wants, Writes, Reads, HeldAt, Storing
  <2>2. QED
    BY <1>14, <2>1, DropsKeepsLocks DEF StatsHeight, Reached
<1>15. CASE StatsAsk(t)
  <2>1. Asks(Locks, Points, Wants, HeldAt, "stats_copied", {},
             "stats_prev", "prev", "read")
    BY DEF Asks, Points, Locks, Wants, Writes, Reads, HeldAt, Storing
  <2>2. QED
    BY <1>15, <2>1, AsksKeepsLocks DEF StatsAsk, Reached
<1>16. CASE StatsPrev(t)
  BY <1>16, ReturnKeepsLocks, IdleHoldsNothing DEF StatsPrev
<1>17. QED
  BY <1>1, <1>2, <1>3, <1>4, <1>5, <1>6, <1>7, <1>8,
     <1>9, <1>10, <1>11, <1>12, <1>13, <1>14, <1>15, <1>16 DEF Continue, Node

\* Each task holds exactly the guards its place in the code implies: none
\* while the node is asked, and the hash's while hash and height are stored.
THEOREM SubmissionLocksHeld == Spec => []SubmissionLocks
<1>1. Init => SubmissionLocks
  BY NoCallsKeepLocks, IdleHoldsNothing DEF Init, SubmissionLocks
<1>2. SubmissionLocks /\ [Next]_vars => SubmissionLocks'
  <2>1. CASE UNCHANGED vars
    BY <2>1, UntouchedLocks DEF vars, taskVars, SubmissionLocks
  <2>2. CASE \E t \in Tasks : Begin(t) \/ Continue(t) \/ Node(t)
    BY <2>2, BeginKeepsLocks, ContinueKeepsLocks
  <2>3. QED
    BY <2>1, <2>2 DEF Next
<1>3. QED
  BY <1>1, <1>2, PTL DEF Spec

-----------------------------------------------------------------------------
(* Type correctness.                                                       *)

DataTypes == prev \in Hashes /\ height \in Nat /\ tips \in Seq(Tip)

\* One task moves at a time.
LEMMA OthersStay ==
  ASSUME DOMAIN arg = Tasks, pc \in [Tasks -> Points], NEW t \in Tasks,
         Begin(t) \/ Continue(t) \/ Node(t)
  PROVE  /\ DOMAIN arg' = Tasks
         /\ \A u \in Tasks \ {t} : pc'[u] = pc[u] /\ arg'[u] = arg[u]
<1>1. CASE Begin(t)
  BY <1>1 DEF Begin, SubmitBlock, UpdatePrevBlockHash, GetStats, Call, Enter
<1>2. CASE \/ SubmitBuild(t) \/ SubmitAsk(t) \/ SubmitUnpayable(t)
           \/ SubmitSend(t) \/ SubmitMisplaced(t) \/ SendFails(t)
           \/ SendAnswered(t)
  BY <1>2 DEF SubmitBuild, SubmitAsk, SubmitUnpayable, SubmitSend,
     SubmitMisplaced, SendFails, SendAnswered, Await, Drop, Move, Return, Keep
<1>3. CASE \/ NodeRejects(t) \/ NodeAccepts(t)
           \/ AcceptPrev(t) \/ AcceptHeight(t)
           \/ UpdatePrev(t) \/ UpdateHeight(t)
           \/ StatsHeight(t) \/ StatsAsk(t) \/ StatsPrev(t)
  BY <1>3 DEF NodeRejects, NodeAccepts, AcceptPrev, AcceptHeight, UpdatePrev,
     UpdateHeight, StorePrev, StoreHeight, StatsHeight, StatsAsk, StatsPrev,
     Await, Drop, Return
<1>4. QED
  BY <1>1, <1>2, <1>3 DEF Continue, Node

\* What a task carries: its block while one is under way, the block to store
\* while it stores one.
LEMMA ArgAt ==
  ASSUME TypeOK, NEW t \in Tasks
  PROVE  /\ pc[t] = "sub_prev" => arg[t].height \in Heights
         /\ pc[t] \in Pending => arg[t] \in Built /\ arg[t].tip \in Tip
         /\ pc[t] \in {"upd_prev", "upd_height"} => arg[t].tip \in Tip
<1>1. arg[t] \in ArgOf(pc[t])
  BY DEF TypeOK
<1>2. CASE pc[t] = "sub_prev"
  <2>1. arg[t] \in Submitted
    BY <1>1, <1>2 DEF ArgOf, Pending
  <2>2. QED
    BY <1>2, <2>1 DEF Submitted, Pending
<1>3. CASE pc[t] \in Pending
  <2>1. arg[t] \in Built
    BY <1>1, <1>3 DEF ArgOf, Pending
  <2>2. QED
    BY <1>3, <2>1 DEF Built, Pending
<1>4. CASE pc[t] \in {"upd_prev", "upd_height"}
  <2>1. arg[t] \in [tip : Tip]
    BY <1>1, <1>4 DEF ArgOf, Pending
  <2>2. QED
    BY <1>4, <2>1 DEF Pending
<1>5. QED
  BY <1>2, <1>3, <1>4

\* A step keeps the data typed, and the task that moves carries what fits
\* the place it has reached.
LEMMA StepTypes ==
  ASSUME TypeOK, NEW t \in Tasks, Begin(t) \/ Continue(t) \/ Node(t)
  PROVE  DataTypes' /\ arg'[t] \in ArgOf(pc'[t])
<1>a. /\ pc \in [Tasks -> Points] /\ DOMAIN arg = Tasks
      /\ DataTypes /\ arg[t] \in ArgOf(pc[t])
      /\ Heights \subseteq Nat
  BY SubmissionAssumption DEF TypeOK, LockInv, DataTypes
<1>1. CASE Return(t) /\ UNCHANGED data
  BY <1>a, <1>1 DEF Return, data, DataTypes, ArgOf, Pending
<1>2. CASE \E h \in Heights, payable \in BOOLEAN : SubmitBlock(t, h, payable)
  <2>1. PICK h \in Heights, payable \in BOOLEAN : SubmitBlock(t, h, payable)
    BY <1>2
  <2>2. /\ pc'[t] = "sub_prev" /\ UNCHANGED data
        /\ arg'[t] = [height |-> h, payable |-> payable]
    BY <1>a, <2>1 DEF SubmitBlock, Call, Enter
  <2>3. arg'[t] \in Submitted
    BY <2>2 DEF Submitted
  <2>4. QED
    BY <1>a, <2>2, <2>3 DEF ArgOf, Pending, DataTypes, data
<1>3. CASE \E hash \in Hashes, h \in Heights :
             UpdatePrevBlockHash(t, [hash |-> hash, height |-> h])
  BY <1>a, <1>3 DEF UpdatePrevBlockHash, Call, Enter, data, DataTypes, ArgOf,
     Pending, Tip
<1>4. CASE GetStats(t)
  BY <1>a, <1>4 DEF GetStats, Call, Enter, data, DataTypes, ArgOf, Pending
<1>5. CASE SubmitBuild(t)
  <2>1. PICK hash \in Hashes :
          Keep(t, [parent |-> prev, seen |-> Len(tips),
                   tip |-> [hash |-> hash, height |-> arg[t].height]])
    BY <1>5 DEF SubmitBuild
  <2>2. /\ pc'[t] = "sub_built" /\ UNCHANGED data
        /\ arg'[t] = [parent |-> prev, seen |-> Len(tips),
                      tip |-> [hash |-> hash, height |-> arg[t].height]]
    BY <1>a, <1>5, <2>1 DEF SubmitBuild, Drop, Keep
  <2>3. arg[t].height \in Nat
    BY <1>a, <1>5, ArgAt DEF SubmitBuild, Reached
  <2>4. arg'[t] \in Built
    BY <1>a, <2>2, <2>3 DEF Built, Tip, DataTypes
  <2>5. QED
    BY <1>a, <2>2, <2>4 DEF ArgOf, Pending, DataTypes, data
<1>6. CASE SubmitAsk(t) \/ SubmitSend(t) \/ SendAnswered(t) \/ NodeAccepts(t)
  <2>1. /\ pc[t] \in Pending /\ pc'[t] \in Pending
        /\ arg' = arg /\ UNCHANGED data
    BY <1>a, <1>6 DEF SubmitAsk, SubmitSend, SendAnswered, NodeAccepts,
       Reached, Await, Drop, Move, Pending
  <2>2. ArgOf(pc[t]) = Built /\ ArgOf(pc'[t]) = Built
    BY <2>1 DEF ArgOf, Pending
  <2>3. QED
    BY <1>a, <2>1, <2>2 DEF DataTypes, data
<1>7. CASE AcceptPrev(t) \/ UpdatePrev(t)
  <2>1. /\ \/ pc[t] = "acc_prev" /\ pc'[t] = "acc_height"
           \/ pc[t] = "upd_prev" /\ pc'[t] = "upd_height"
        /\ arg' = arg /\ height' = height
        /\ prev' = arg[t].tip.hash /\ tips' = Append(tips, arg[t].tip)
    BY <1>a, <1>7 DEF AcceptPrev, UpdatePrev, StorePrev, Reached, Await
  <2>2. arg[t].tip \in Tip
    BY <2>1, ArgAt DEF Pending
  <2>3. DataTypes'
    BY <1>a, <2>1, <2>2 DEF DataTypes, Tip
  <2>4. QED
    BY <1>a, <2>1, <2>3 DEF ArgOf, Pending
<1>8. CASE AcceptHeight(t) \/ UpdateHeight(t)
  <2>1. /\ pc[t] \in {"acc_height", "upd_height"} /\ Return(t)
        /\ height' = arg[t].tip.height /\ UNCHANGED <<prev, tips>>
    BY <1>8 DEF AcceptHeight, UpdateHeight, StoreHeight, Reached
  <2>2. arg[t].tip \in Tip
    BY <2>1, ArgAt DEF Pending
  <2>3. pc'[t] = "idle" /\ arg'[t] = None
    BY <1>a, <2>1 DEF Return
  <2>4. QED
    BY <1>a, <2>1, <2>2, <2>3 DEF DataTypes, Tip, ArgOf, Pending
<1>9. CASE StatsHeight(t) \/ StatsAsk(t)
  BY <1>a, <1>9 DEF StatsHeight, StatsAsk, Reached, Await, Drop, data,
     DataTypes, ArgOf, Pending
<1>10. CASE \/ SubmitUnpayable(t) \/ SubmitMisplaced(t) \/ SendFails(t)
            \/ NodeRejects(t) \/ StatsPrev(t)
  BY <1>1, <1>10 DEF SubmitUnpayable, SubmitMisplaced, SendFails,
     NodeRejects, StatsPrev
<1>11. CASE Begin(t)
  BY <1>2, <1>3, <1>4, <1>11 DEF Begin
<1>12. CASE Continue(t) \/ Node(t)
  BY <1>5, <1>6, <1>7, <1>8, <1>9, <1>10, <1>12 DEF Continue, Node
<1>13. QED
  BY <1>11, <1>12

\* Every reachable state is well typed: a submission never goes on with the
\* argument of an update or a report.
THEOREM SubmissionTypeCorrect == Spec => []TypeOK
<1>1. Init => TypeOK
  <2>1. SUFFICES ASSUME Init PROVE TypeOK
    OBVIOUS
  <2>2. [hash |-> ZeroHash, height |-> 0] \in Tip
    BY SubmissionAssumption DEF Tip
  <2>3. DataTypes
    BY <2>1, <2>2, SubmissionAssumption DEF Init, DataTypes
  <2>4. /\ DOMAIN arg = Tasks
        /\ \A t \in Tasks : arg[t] \in ArgOf(pc[t])
    BY <2>1 DEF Init, NoCalls, ArgOf, Pending
  <2>5. QED
    BY <2>1, <2>3, <2>4, NoCallsKeepLocks, IdleHoldsNothing
       DEF Init, TypeOK, DataTypes
<1>2. SubmissionLocks' /\ TypeOK /\ [Next]_vars => TypeOK'
  <2>1. SUFFICES ASSUME SubmissionLocks', TypeOK, [Next]_vars
                 PROVE  /\ DataTypes' /\ DOMAIN arg' = Tasks
                        /\ \A t \in Tasks : arg'[t] \in ArgOf(pc'[t])
    BY DEF TypeOK, SubmissionLocks, DataTypes
  <2>2. CASE UNCHANGED vars
    BY <2>1, <2>2 DEF vars, data, taskVars, TypeOK, DataTypes
  <2>3. ASSUME NEW t \in Tasks, Begin(t) \/ Continue(t) \/ Node(t)
        PROVE  /\ DataTypes' /\ DOMAIN arg' = Tasks
               /\ \A u \in Tasks : arg'[u] \in ArgOf(pc'[u])
    <3>1. /\ DOMAIN arg = Tasks /\ pc \in [Tasks -> Points]
          /\ \A u \in Tasks : arg[u] \in ArgOf(pc[u])
      BY <2>1 DEF TypeOK, LockInv
    <3>2. /\ DOMAIN arg' = Tasks
          /\ \A u \in Tasks \ {t} : pc'[u] = pc[u] /\ arg'[u] = arg[u]
      BY <2>3, <3>1, OthersStay
    <3>3. DataTypes' /\ arg'[t] \in ArgOf(pc'[t])
      BY <2>1, <2>3, StepTypes
    <3>4. QED
      BY <3>1, <3>2, <3>3 DEF ArgOf
  <2>4. QED
    BY <2>1, <2>2, <2>3 DEF Next
<1>3. QED
  BY <1>1, <1>2, SubmissionLocksHeld, PTL DEF Spec

-----------------------------------------------------------------------------
(* The hash and the height, and the blocks under way.                      *)

\* Whoever is between the two stores of an update keeps the hash locked for
\* writing.
LEMMA StorerHolds ==
  ASSUME SubmissionLocks, NEW u \in Updating
  PROVE  u \in Tasks /\ HoldsWrite(locks["prev"], u)
<1>1. u \in Tasks /\ pc[u] \in Storing
  BY DEF Updating
<1>2. HeldAt[pc[u]] = {"prev"} /\ Wants[pc[u]]["prev"] = "write"
  BY <1>1 DEF HeldAt, Wants, Writes, Storing, Points, Locks
<1>3. Holds(locks["prev"], u) /\ locks["prev"][u].mode = "write"
  BY <1>1, <1>2 DEF SubmissionLocks, LockInv, LockDiscipline, Locks
<1>4. QED
  BY <1>1, <1>3 DEF HoldsWrite

\* So nobody else has the hash then, not even to read it.
LEMMA StorerAlone ==
  ASSUME SubmissionLocks, NEW t \in Tasks, Holds(locks["prev"], t),
         NEW u \in Updating
  PROVE  t = u
<1>1. u \in Tasks /\ Holds(locks["prev"], u) /\ pc[u] \in Storing
  BY StorerHolds DEF HoldsWrite, Updating
<1>2. "prev" \in Locks /\ Wants[pc[u]]["prev"] = "write"
  BY <1>1 DEF Wants, Writes, Storing, Points, Locks
<1>3. QED
  BY <1>1, <1>2, OneHolder DEF SubmissionLocks

\* What the three properties say of the block of one task.
BlockFacts(u) ==
  /\ pc[u] \in Pending \ Storing =>
       /\ arg[u].seen \in 1..Len(tips)
       /\ arg[u].parent = tips[arg[u].seen].hash
       /\ Updating # {} => arg[u].seen < Len(tips)
  /\ pc[u] \in Validated =>
       /\ arg[u].seen \in 1..Len(tips)
       /\ arg[u].parent = tips[arg[u].seen].hash
       /\ arg[u].seen = Len(tips) => arg[u].tip.height = Last.height + 1

LEMMA InvByTask == SubmissionInv <=> TipInv /\ \A u \in Tasks : BlockFacts(u)
BY DEF SubmissionInv, BlockInv, OvertakenOnly, BlockFacts

\* While the data and the set of the updates under way stay as they are, the
\* tips do too, and so do the blocks of the tasks that do not move.
LEMMA UntouchedKeepsInv ==
  ASSUME TypeOK, SubmissionInv, NEW t \in Tasks,
         UNCHANGED data, pc[t] \notin Storing, pc'[t] \notin Storing,
         \A u \in Tasks \ {t} : pc'[u] = pc[u] /\ arg'[u] = arg[u],
         BlockFacts(t)'
  PROVE  SubmissionInv'
<1>1. tips' = tips /\ Last' = Last /\ Updating' = Updating
  BY DEF data, Last, Updating
<1>2. t \notin Updating
  BY DEF Updating
<1>3. TipInv'
  BY <1>1, <1>2 DEF SubmissionInv, TipInv, data, Updating
<1>4. \A u \in Tasks \ {t} : BlockFacts(u)'
  BY <1>1, InvByTask DEF BlockFacts
<1>5. QED
  BY <1>3, <1>4 DEF SubmissionInv, BlockInv, OvertakenOnly,
     BlockFacts

\* The hash is stored: the new tip is the block of the one update under way,
\* and no block under way was built on it.
LEMMA StorePrevKeepsInv ==
  ASSUME TypeOK, SubmissionInv, NEW t \in Tasks,
         AcceptPrev(t) \/ UpdatePrev(t)
  PROVE  SubmissionInv'
<1>1. /\ pc \in [Tasks -> Points] /\ DOMAIN arg = Tasks
      /\ tips \in Seq(Tip) /\ SubmissionLocks
  BY DEF TypeOK, LockInv, SubmissionLocks
<1>2. /\ pc[t] \in {"acc_prev", "upd_prev"} /\ pc'[t] \in Storing
      /\ Holds(locks["prev"], t)
      /\ arg' = arg /\ height' = height
      /\ prev' = arg[t].tip.hash /\ tips' = Append(tips, arg[t].tip)
      /\ \A u \in Tasks \ {t} : pc'[u] = pc[u]
  BY <1>1 DEF AcceptPrev, UpdatePrev, StorePrev, Reached, Await, Storing
<1>3. Updating = {}
  <2>1. \A u \in Updating : t = u
    BY <1>1, <1>2, StorerAlone
  <2>2. t \notin Updating
    BY <1>2 DEF Updating, Storing
  <2>3. QED
    BY <2>1, <2>2
<1>4. Updating' = {t}
  BY <1>2, <1>3 DEF Updating
<1>5. arg[t].tip \in Tip
  BY <1>2, ArgAt DEF Pending
<1>6. /\ Len(tips') = Len(tips) + 1 /\ Len(tips) \in Nat
      /\ \A i \in 1..Len(tips) : tips'[i] = tips[i]
      /\ tips'[Len(tips')] = arg[t].tip
  BY <1>1, <1>2, <1>5
<1>7. TipInv'
  BY <1>2, <1>4, <1>6 DEF TipInv, Last
<1>8. ASSUME NEW u \in Tasks PROVE BlockFacts(u)'
  <2>1. CASE u = t
    BY <1>2, <2>1 DEF BlockFacts, Storing, Validated
  <2>2. CASE u # t /\ pc[u] \in Pending \ Storing
    <3>1. /\ arg[u].seen \in 1..Len(tips)
          /\ arg[u].parent = tips[arg[u].seen].hash
      BY <2>2, InvByTask DEF BlockFacts
    <3>2. QED
      BY <1>2, <1>6, <2>2, <3>1 DEF BlockFacts
  <2>3. CASE u # t /\ pc[u] \notin Pending \ Storing
    BY <1>2, <2>3 DEF BlockFacts, Pending, Storing, Validated
  <2>4. QED
    BY <2>1, <2>2, <2>3
<1>9. QED
  BY <1>7, <1>8 DEF SubmissionInv, BlockInv, OvertakenOnly, BlockFacts

\* The height is stored: the update under way was the only one, so the
\* height has caught up with the hash.
LEMMA StoreHeightKeepsInv ==
  ASSUME TypeOK, SubmissionInv, NEW t \in Tasks,
         AcceptHeight(t) \/ UpdateHeight(t)
  PROVE  SubmissionInv'
<1>1. /\ pc \in [Tasks -> Points] /\ DOMAIN arg = Tasks /\ SubmissionLocks
  BY DEF TypeOK, LockInv, SubmissionLocks
<1>2. /\ pc[t] \in Storing /\ pc'[t] = "idle"
      /\ height' = arg[t].tip.height /\ prev' = prev /\ tips' = tips
      /\ \A u \in Tasks \ {t} : pc'[u] = pc[u] /\ arg'[u] = arg[u]
  BY <1>1 DEF AcceptHeight, UpdateHeight, StoreHeight, Reached, Return, Storing
<1>3. t \in Updating /\ \A u \in Updating : u = t
  <2>1. t \in Updating
    BY <1>2 DEF Updating
  <2>2. Holds(locks["prev"], t)
    BY <1>1, <2>1, StorerHolds DEF HoldsWrite
  <2>3. QED
    BY <1>1, <2>1, <2>2, StorerAlone
<1>4. Updating' = {}
  BY <1>2, <1>3 DEF Updating, Storing
<1>5. Last' = Last /\ Last = arg[t].tip
  BY <1>2, <1>3 DEF SubmissionInv, TipInv, Last
<1>6. TipInv'
  BY <1>2, <1>4, <1>5 DEF SubmissionInv, TipInv
<1>7. ASSUME NEW u \in Tasks PROVE BlockFacts(u)'
  <2>1. CASE u = t
    BY <1>2, <2>1 DEF BlockFacts, Pending, Validated
  <2>2. CASE u # t
    BY <1>2, <1>4, <1>5, <2>2, InvByTask DEF BlockFacts
  <2>3. QED
    BY <2>1, <2>2
<1>8. QED
  BY <1>6, <1>7 DEF SubmissionInv, BlockInv, OvertakenOnly, BlockFacts

\* A block is built on the last tip: the builder reads the hash, so no
\* update is half done.
LEMMA BuildKeepsInv ==
  ASSUME TypeOK, SubmissionInv, NEW t \in Tasks, SubmitBuild(t)
  PROVE  SubmissionInv'
<1>1. /\ pc \in [Tasks -> Points] /\ DOMAIN arg = Tasks
      /\ tips \in Seq(Tip) /\ SubmissionLocks
  BY DEF TypeOK, LockInv, SubmissionLocks
<1>2. /\ pc[t] = "sub_prev" /\ pc'[t] = "sub_built"
      /\ Holds(locks["prev"], t) /\ UNCHANGED data
      /\ arg'[t].parent = prev /\ arg'[t].seen = Len(tips)
      /\ \A u \in Tasks \ {t} : pc'[u] = pc[u] /\ arg'[u] = arg[u]
  BY <1>1 DEF SubmitBuild, Reached, Drop, Keep
<1>3. Updating = {}
  <2>1. \A u \in Updating : t = u
    BY <1>1, <1>2, StorerAlone
  <2>2. t \notin Updating
    BY <1>2 DEF Updating, Storing
  <2>3. QED
    BY <2>1, <2>2
<1>4. Updating' = {}
  BY <1>2, <1>3 DEF Updating, Storing
<1>5. Len(tips) > 0 /\ Len(tips) \in Nat /\ prev = tips[Len(tips)].hash
  BY <1>1 DEF SubmissionInv, TipInv, Last
<1>6. BlockFacts(t)'
  BY <1>2, <1>4, <1>5 DEF BlockFacts, Validated, data
<1>7. QED
  BY <1>2, <1>6, UntouchedKeepsInv DEF Storing

\* A block that passes the height check extends the last tip, unless that
\* tip is not the one it was built on: if it is, no update is half done.
LEMMA SendKeepsInv ==
  ASSUME TypeOK, SubmissionInv, NEW t \in Tasks, SubmitSend(t)
  PROVE  SubmissionInv'
<1>1. pc \in [Tasks -> Points] /\ DOMAIN arg = Tasks
  BY DEF TypeOK, LockInv
<1>2. /\ pc[t] = "sub_height" /\ pc'[t] = "sub_sent"
      /\ UNCHANGED data /\ arg' = arg
      /\ arg[t].tip.height = height + 1
      /\ \A u \in Tasks \ {t} : pc'[u] = pc[u] /\ arg'[u] = arg[u]
  BY <1>1 DEF SubmitSend, Reached, Drop
<1>3. Updating' = Updating /\ Last' = Last
  BY <1>2 DEF Updating, Storing, Last, data
<1>4. /\ arg[t].seen \in 1..Len(tips)
      /\ arg[t].parent = tips[arg[t].seen].hash
      /\ Updating # {} => arg[t].seen < Len(tips)
  BY <1>2, InvByTask DEF BlockFacts, Pending, Storing
<1>5. ASSUME arg[t].seen = Len(tips) PROVE arg[t].tip.height = Last.height + 1
  <2>1. Updating = {}
    BY <1>4, <1>5
  <2>2. height = Last.height
    BY <2>1 DEF SubmissionInv, TipInv
  <2>3. QED
    BY <1>2, <2>2
<1>6. BlockFacts(t)'
  BY <1>2, <1>3, <1>4, <1>5 DEF BlockFacts, data
<1>7. QED
  BY <1>2, <1>6, UntouchedKeepsInv DEF Storing

\* The other steps of a submission take its block along.
LEMMA CarryKeepsInv ==
  ASSUME TypeOK, SubmissionInv, NEW t \in Tasks,
         SubmitAsk(t) \/ SendAnswered(t) \/ NodeAccepts(t)
  PROVE  SubmissionInv'
<1>1. pc \in [Tasks -> Points] /\ DOMAIN arg = Tasks
  BY DEF TypeOK, LockInv
<1>2. /\ \/ pc[t] = "sub_built" /\ pc'[t] = "sub_height"
         \/ pc[t] = "sub_sent" /\ pc'[t] = "sub_body"
         \/ pc[t] = "sub_body" /\ pc'[t] = "acc_prev"
      /\ UNCHANGED data /\ arg' = arg
      /\ \A u \in Tasks \ {t} : pc'[u] = pc[u] /\ arg'[u] = arg[u]
  BY <1>1 DEF SubmitAsk, SendAnswered, NodeAccepts, Await, Move
<1>3. Updating' = Updating /\ Last' = Last
  BY <1>2 DEF Updating, Storing, Last, data
<1>4. BlockFacts(t)
  BY InvByTask
<1>5. BlockFacts(t)'
  BY <1>2, <1>3, <1>4 DEF BlockFacts, data, Pending, Storing, Validated
<1>6. QED
  BY <1>2, <1>5, UntouchedKeepsInv DEF Storing

\* No other step touches the data, an update or a block under way.
LEMMA RestKeepsInv ==
  ASSUME TypeOK, SubmissionInv, NEW t \in Tasks,
         UNCHANGED data, pc[t] \notin Storing, pc'[t] \notin Pending \cup Storing,
         \A u \in Tasks \ {t} : pc'[u] = pc[u] /\ arg'[u] = arg[u]
  PROVE  SubmissionInv'
<1>1. BlockFacts(t)'
  BY DEF BlockFacts, Pending, Validated
<1>2. QED
  BY <1>1, UntouchedKeepsInv

LEMMA StepKeepsInv ==
  ASSUME TypeOK, SubmissionInv, NEW t \in Tasks,
         Begin(t) \/ Continue(t) \/ Node(t)
  PROVE  SubmissionInv'
<1>1. pc \in [Tasks -> Points] /\ DOMAIN arg = Tasks
  BY DEF TypeOK, LockInv
<1>2. \A u \in Tasks \ {t} : pc'[u] = pc[u] /\ arg'[u] = arg[u]
  BY <1>1, OthersStay
<1>3. CASE Begin(t)
  <2>1. /\ UNCHANGED data /\ pc[t] = "idle"
        /\ pc'[t] \in {"sub_prev", "upd_prev", "stats_height"}
    BY <1>1, <1>3 DEF Begin, SubmitBlock, UpdatePrevBlockHash, GetStats, Call,
       Enter
  <2>2. QED
    BY <1>2, <2>1, RestKeepsInv DEF Pending, Storing
<1>4. CASE \/ SubmitUnpayable(t) \/ SubmitMisplaced(t) \/ SendFails(t)
           \/ NodeRejects(t) \/ StatsPrev(t)
  <2>1. /\ UNCHANGED data /\ pc'[t] = "idle"
        /\ pc[t] \in {"sub_prev", "sub_height", "sub_sent", "sub_body",
                      "stats_prev"}
    BY <1>1, <1>4 DEF SubmitUnpayable, SubmitMisplaced, SendFails, NodeRejects,
       StatsPrev, Reached, Return
  <2>2. QED
    BY <1>2, <2>1, RestKeepsInv DEF Pending, Storing
<1>5. CASE StatsHeight(t) \/ StatsAsk(t)
  <2>1. /\ UNCHANGED data /\ pc[t] \in {"stats_height", "stats_copied"}
        /\ pc'[t] \in {"stats_copied", "stats_prev"}
    BY <1>1, <1>5 DEF StatsHeight, StatsAsk, Reached, Drop, Await
  <2>2. QED
    BY <1>2, <2>1, RestKeepsInv DEF Pending, Storing
<1>6. CASE \/ SubmitBuild(t) \/ SubmitSend(t)
           \/ SubmitAsk(t) \/ SendAnswered(t) \/ NodeAccepts(t)
  BY <1>6, BuildKeepsInv, SendKeepsInv, CarryKeepsInv
<1>7. CASE \/ AcceptPrev(t) \/ UpdatePrev(t)
           \/ AcceptHeight(t) \/ UpdateHeight(t)
  BY <1>7, StorePrevKeepsInv, StoreHeightKeepsInv
<1>8. QED
  BY <1>3, <1>4, <1>5, <1>6, <1>7 DEF Continue, Node

\* The hash is the one of the last block the handler was told of, the height
\* is behind it only while the update that stores it keeps the hash locked,
\* and every block under way was built on a tip.
THEOREM SubmissionInvHolds == Spec => []SubmissionInv
<1>1. Init => SubmissionInv
  <2>1. SUFFICES ASSUME Init PROVE SubmissionInv
    OBVIOUS
  <2>2. /\ Len(tips) = 1 /\ Last = [hash |-> ZeroHash, height |-> 0]
        /\ prev = ZeroHash /\ height = 0
    BY <2>1 DEF Init, Last
  <2>3. \A t \in Tasks : pc[t] = "idle"
    BY <2>1 DEF Init, NoCalls
  <2>4. Updating = {}
    BY <2>3 DEF Updating, Storing
  <2>5. QED
    BY <2>2, <2>3, <2>4 DEF SubmissionInv, TipInv, BlockInv, OvertakenOnly,
       Pending, Validated
<1>2. TypeOK /\ SubmissionInv /\ [Next]_vars => SubmissionInv'
  <2>1. SUFFICES ASSUME TypeOK, SubmissionInv, [Next]_vars
                 PROVE  SubmissionInv'
    OBVIOUS
  <2>2. CASE UNCHANGED vars
    BY <2>1, <2>2 DEF vars, data, taskVars, SubmissionInv, TipInv, BlockInv,
       OvertakenOnly, Last, Updating
  <2>3. CASE Next
    BY <2>1, <2>3, StepKeepsInv DEF Next
  <2>4. QED
    BY <2>1, <2>2, <2>3
<1>3. QED
  BY <1>1, <1>2, SubmissionTypeCorrect, PTL DEF Spec

\* Whoever can read the hash finds it and the height to be of one block,
\* although the two are stored under two locks.
THEOREM PairCoherentHolds == Spec => []PairCoherent
<1>1. TypeOK /\ SubmissionInv => PairCoherent
  <2>1. SUFFICES ASSUME TypeOK, SubmissionInv, ~WriteHeld(locks["prev"])
                 PROVE  Last = [hash |-> prev, height |-> height]
    BY DEF PairCoherent
  <2>2. SubmissionLocks /\ tips \in Seq(Tip) /\ Len(tips) > 0
    BY <2>1 DEF TypeOK, SubmissionLocks, SubmissionInv, TipInv
  <2>3. Updating = {}
    <3>1. DOMAIN locks["prev"] = Tasks
      BY <2>2 DEF SubmissionLocks, LockInv, Locks, WellFormed
    <3>2. QED
      BY <2>1, <2>2, <3>1, StorerHolds DEF WriteHeld
  <2>4. Last.hash = prev /\ Last.height = height
    BY <2>1, <2>3 DEF SubmissionInv, TipInv
  <2>5. Last \in Tip
    BY <2>2 DEF Last
  <2>6. QED
    BY <2>4, <2>5 DEF Tip
<1>2. QED
  BY <1>1, SubmissionTypeCorrect, SubmissionInvHolds, PTL

\* A block that passed the height check extends the tip it was built on, or
\* a block was stored after the hash it was built on was read.
THEOREM OvertakenOnlyHolds == Spec => []OvertakenOnly
<1>1. SubmissionInv => OvertakenOnly
  BY DEF SubmissionInv
<1>2. QED
  BY <1>1, SubmissionInvHolds, PTL

-----------------------------------------------------------------------------
(* Waiting for locks.                                                      *)

\* The previous block hash comes before the height.
Room == [l \in Locks |-> IF l = "prev" THEN 1 ELSE 0]

\* Submitting, accepting, updating and reporting ask for them in that order.
LEMMA LocksInOrder ==
  \A point \in Points : InOrder(Locks, Wants, HeldAt, Room, point)
BY DEF InOrder, Points, Locks, Wants, Writes, Reads, HeldAt, Room

\* No calls of the submission service wait for each other in a circle.
THEOREM SubmissionNeverLocksUp == Spec => []NoDeadlock
<1>1. SubmissionLocks => NoDeadlock
  <2>1. SUFFICES ASSUME SubmissionLocks, NEW D \in SUBSET Tasks, Stuck(D)
                 PROVE  FALSE
    BY DEF NoDeadlock, Deadlock
  <2>2. Room \in [Locks -> Nat]
    BY DEF Room
  <2>3. \A t \in D : pc[t] \in Points
    BY <2>1 DEF SubmissionLocks, LockInv
  <2>4. QED
    BY <2>1, <2>2, <2>3, LocksInOrder, CircleLeavesOrder DEF SubmissionLocks
<1>2. QED
  BY <1>1, SubmissionLocksHeld, PTL
-----------------------------------------------------------------------------
(* The node's locks: the blockchain state and its balances, and the table  *)
(* of the WebSocket server.                                                *)

SocketPoints == {"ws_insert", "ws_welcome", "ws_loop", "ws_subscribe",
                 "ws_answer", "ws_unsubscribe", "ws_event", "ws_send",
                 "ws_over", "ws_remove"}

RpcPoints == {"rpc_state", "rpc_balances", "rpc_done", "put_count",
              "put_difficulty", "put_balances", "saved", "flushing"}

NodePoints == {"idle"} \cup RpcPoints \cup SocketPoints

NodeWrites == [state |-> {"rpc_state", "rpc_balances"},
               balances |-> {"rpc_balances"},
               clients |-> {"ws_insert", "ws_subscribe", "ws_answer",
                            "ws_unsubscribe", "ws_remove"}]

NodeReads == [state |-> {"put_count", "put_difficulty", "put_balances",
                         "saved"},
              balances |-> {"put_balances"},
              clients |-> {"ws_event", "ws_send"}]

NodeWants == [point \in NodePoints |-> [lock \in NodeLocks |->
                IF point \in NodeWrites[lock] THEN "write"
                ELSE IF point \in NodeReads[lock] THEN "read" ELSE "none"]]

NodeHeldAt == [point \in NodePoints |->
                 CASE point \in {"rpc_balances", "put_difficulty",
                                 "put_balances", "saved"} -> {"state"}
                   [] point \in {"ws_answer", "ws_send"} -> {"clients"}
                   [] OTHER -> {}]

NodeGuards == LockInv(NodeLocks, NodePoints, NodeWants, NodeHeldAt)

LEMMA NodeIdle ==
  /\ "idle" \in NodePoints
  /\ \A l \in NodeLocks : NodeWants["idle"][l] = "none"
  /\ NodeHeldAt["idle"] = {}
BY DEF NodePoints, NodeLocks, SocketLocks, NodeWants, NodeWrites, NodeReads,
   NodeHeldAt

NodeAsks(from, got, to, lock, mode) ==
  Asks(NodeLocks, NodePoints, NodeWants, NodeHeldAt, from, got, to, lock, mode)

NodeDrops(from, got, lock, to) ==
  Drops(NodeLocks, NodePoints, NodeWants, NodeHeldAt, from, got, lock, to)

NodeMoves(from, got, to) ==
  Moves(NodeLocks, NodePoints, NodeWants, NodeHeldAt, from, got, to)

\* The places of handle_rpc and of a save, in the tables.
LEMMA RpcTable ==
  /\ NodeAsks("idle", {}, "rpc_state", "state", "write")
  /\ NodeDrops("rpc_state", {"state"}, "state", "rpc_done")
  /\ NodeAsks("rpc_state", {"state"}, "rpc_balances", "balances", "write")
  /\ NodeAsks("rpc_done", {}, "put_count", "state", "read")
  /\ NodeMoves("put_count", {"state"}, "put_difficulty")
  /\ NodeAsks("put_difficulty", {}, "put_balances", "balances", "read")
  /\ NodeDrops("put_balances", {"balances"}, "balances", "saved")
  /\ NodeDrops("put_count", {"state"}, "balances", "saved")
  /\ NodeDrops("put_difficulty", {}, "balances", "saved")
  /\ NodeAsks("idle", {}, "put_count", "state", "read")
  /\ NodeDrops("saved", {}, "state", "flushing")
BY DEF NodeAsks, NodeDrops, NodeMoves, Asks, Drops, Moves, NodePoints,
   RpcPoints, SocketPoints, NodeLocks, SocketLocks, NodeWants, NodeWrites,
   NodeReads, NodeHeldAt

\* And those of a connection.
LEMMA SocketTable ==
  /\ NodeAsks("idle", {}, "ws_insert", "clients", "write")
  /\ NodeDrops("ws_insert", {"clients"}, "clients", "ws_welcome")
  /\ NodeMoves("ws_welcome", {}, "ws_loop")
  /\ NodeAsks("ws_loop", {}, "ws_subscribe", "clients", "write")
  /\ NodeAsks("ws_loop", {}, "ws_unsubscribe", "clients", "write")
  /\ NodeMoves("ws_subscribe", {"clients"}, "ws_answer")
  /\ NodeDrops("ws_subscribe", {"clients"}, "clients", "ws_loop")
  /\ NodeDrops("ws_answer", {}, "clients", "ws_loop")
  /\ NodeDrops("ws_unsubscribe", {"clients"}, "clients", "ws_loop")
  /\ NodeAsks("ws_loop", {}, "ws_event", "clients", "read")
  /\ NodeDrops("ws_event", {"clients"}, "clients", "ws_loop")
  /\ NodeMoves("ws_event", {"clients"}, "ws_send")
  /\ NodeDrops("ws_send", {}, "clients", "ws_loop")
  /\ NodeDrops("ws_send", {}, "clients", "ws_over")
  /\ NodeMoves("ws_loop", {}, "ws_over")
  /\ NodeAsks("ws_over", {}, "ws_remove", "clients", "write")
BY DEF NodeAsks, NodeDrops, NodeMoves, Asks, Drops, Moves, NodePoints,
   RpcPoints, SocketPoints, NodeLocks, SocketLocks, NodeWants, NodeWrites,
   NodeReads, NodeHeldAt

\* A step that follows the tables keeps the guards where they say.
LEMMA NodeFollows ==
  ASSUME NodeGuards, NEW t \in Tasks,
         NEW from, NEW got, NEW to, NEW lock, NEW mode,
         pc[t] = from, \A l \in got : Holds(locks[l], t),
         \/ NodeAsks(from, got, to, lock, mode) /\ Await(t, to, lock, mode)
         \/ NodeDrops(from, got, lock, to) /\ Drop(t, lock, to)
         \/ NodeMoves(from, got, to) /\ Move(t, to)
  PROVE  NodeGuards'
<1> USE DEF NodeGuards, NodeAsks, NodeDrops, NodeMoves
<1>1. CASE NodeAsks(from, got, to, lock, mode) /\ Await(t, to, lock, mode)
  BY <1>1, AsksKeepsLocks
<1>2. CASE NodeDrops(from, got, lock, to) /\ Drop(t, lock, to)
  BY <1>2, DropsKeepsLocks
<1>3. CASE NodeMoves(from, got, to) /\ Move(t, to)
  BY <1>3, MovesKeepsLocks
<1>4. QED
  BY <1>1, <1>2, <1>3

\* silver_core drops both of its guards at once.
LEMMA CreditKeepsGuards ==
  ASSUME NodeGuards, NEW t \in Tasks, RpcCredit(t)
  PROVE  NodeGuards'
<1>1. /\ pc[t] = "rpc_balances"
      /\ pc' = [pc EXCEPT ![t] = "rpc_done"]
      /\ locks' = [locks EXCEPT !["state"] = Leave(@, t),
                                !["balances"] = Leave(@, t)]
  BY DEF RpcCredit, Reached
<1>2. /\ DOMAIN locks = NodeLocks /\ pc \in [Tasks -> NodePoints]
      /\ NodeLocks = {"state", "balances", "clients"}
      /\ LockDiscipline(NodeWants, NodeHeldAt)
      /\ \A l \in NodeLocks : WellFormed(locks[l], Tasks)
  BY DEF NodeGuards, LockInv, NodeLocks, SocketLocks
<1>3. /\ DOMAIN locks' = NodeLocks
      /\ locks'["state"] = Leave(locks["state"], t)
      /\ locks'["balances"] = Leave(locks["balances"], t)
      /\ locks'["clients"] = locks["clients"]
      /\ pc' \in [Tasks -> NodePoints] /\ pc'[t] = "rpc_done"
      /\ \A u \in Tasks \ {t} : pc'[u] = pc[u]
  BY <1>1, <1>2 DEF NodePoints, RpcPoints
<1>4. /\ \A l \in NodeLocks : NodeWants["rpc_done"][l] = "none"
      /\ NodeWants["rpc_balances"]["clients"] = "none"
      /\ NodeHeldAt["rpc_done"] = {}
  BY DEF NodePoints, RpcPoints, NodeLocks, SocketLocks, NodeWants, NodeWrites,
     NodeReads, NodeHeldAt
<1>5. \A l \in NodeLocks : /\ WellFormed(locks'[l], Tasks)
                           /\ locks'[l][t].mode = "none"
                           /\ \A u \in Tasks \ {t} :
                                /\ locks'[l][u].mode = locks[l][u].mode
                                /\ Holds(locks[l], u) => Holds(locks'[l], u)
  <2>1. ASSUME NEW l \in {"state", "balances"}
        PROVE  /\ WellFormed(locks'[l], Tasks)
               /\ locks'[l][t].mode = "none"
               /\ \A u \in Tasks \ {t} :
                    /\ locks'[l][u].mode = locks[l][u].mode
                    /\ Holds(locks[l], u) => Holds(locks'[l], u)
    BY <1>2, <1>3, LeaveWellFormed, HoldsStable
  <2>2. locks["clients"][t].mode = "none"
    BY <1>1, <1>2, <1>4 DEF LockDiscipline
  <2>3. QED
    BY <1>2, <1>3, <2>1, <2>2
<1>6. LockDiscipline(NodeWants, NodeHeldAt)'
  <2>1. ASSUME NEW u \in Tasks, NEW l \in NodeLocks
        PROVE  /\ locks'[l][u].mode = NodeWants[pc'[u]][l]
               /\ l \in NodeHeldAt[pc'[u]] => Holds(locks'[l], u)
    BY <1>2, <1>3, <1>4, <1>5 DEF LockDiscipline
  <2>2. QED
    BY <1>3, <2>1 DEF LockDiscipline
<1>7. QED
  BY <1>3, <1>5, <1>6 DEF NodeGuards, LockInv

LEMMA RpcKeepsGuards ==
  ASSUME NodeGuards, NEW t \in Tasks, Rpc(t) \/ (t = Main /\ (ShutdownSave \/ ShutdownSaved))
  PROVE  NodeGuards'
<1>1. CASE RpcSubmitBlock(t)
  <2>1. pc[t] = "idle" /\ Await(t, "rpc_state", "state", "write")
    BY <1>1 DEF RpcSubmitBlock, NodeCall, Enter, Await
  <2>2. QED
    BY <2>1, RpcTable, NodeFollows
<1>2. CASE RpcRefuse(t)
  BY <1>2, RpcTable, NodeFollows DEF RpcRefuse, Reached
<1>3. CASE RpcAccept(t)
  BY <1>3, RpcTable, NodeFollows DEF RpcAccept, Reached
<1>4. CASE RpcCredit(t)
  BY <1>4, CreditKeepsGuards
<1>5. CASE SaveAsk(t)
  BY <1>5, RpcTable, NodeFollows DEF SaveAsk
<1>6. CASE PutCount(t)
  BY <1>6, RpcTable, NodeFollows DEF PutCount, Reached
<1>7. CASE PutDifficulty(t)
  BY <1>7, RpcTable, NodeFollows DEF PutDifficulty
<1>8. CASE PutBalances(t)
  BY <1>8, RpcTable, NodeFollows DEF PutBalances, Reached
<1>9. CASE SaveFails(t)
  BY <1>9, RpcTable, NodeFollows DEF SaveFails, Reached
<1>10. CASE Respond(t)
  BY <1>10, ReturnKeepsLocks, NodeIdle DEF Respond, NodeGuards
<1>11. CASE t = Main /\ ShutdownSave
  <2>1. pc[t] = "idle" /\ Await(t, "put_count", "state", "read")
    BY <1>11 DEF ShutdownSave, NodeCall, Enter, Await
  <2>2. QED
    BY <2>1, RpcTable, NodeFollows
<1>12. CASE t = Main /\ ShutdownSaved
  BY <1>12, RpcTable, NodeFollows DEF ShutdownSaved
<1>13. QED
  BY <1>1, <1>2, <1>3, <1>4, <1>5, <1>6, <1>7, <1>8, <1>9, <1>10, <1>11,
     <1>12 DEF Rpc

LEMMA SocketKeepsGuards ==
  ASSUME NodeGuards, NEW t \in Tasks, Connect(t) \/ Serve(t)
  PROVE  NodeGuards'
<1>1. CASE Connect(t)
  <2>1. pc[t] = "idle" /\ Await(t, "ws_insert", "clients", "write")
    BY <1>1 DEF Connect, HandleConnection, Enter, Await
  <2>2. QED
    BY <2>1, SocketTable, NodeFollows
<1>2. CASE InsertClient(t)
  BY <1>2, SocketTable, NodeFollows DEF InsertClient, Reached
<1>3. CASE Welcome(t)
  BY <1>3, SocketTable, NodeFollows DEF Welcome
<1>4. CASE WelcomeFails(t) \/ RemoveClient(t)
  BY <1>4, ReturnKeepsLocks, NodeIdle DEF WelcomeFails, RemoveClient, NodeGuards
<1>5. CASE \E channel \in Channels[t] :
             Subscribe(t, channel) \/ Unsubscribe(t, channel)
  <2>1. pc[t] = "ws_loop" /\ \/ Await(t, "ws_subscribe", "clients", "write")
                             \/ Await(t, "ws_unsubscribe", "clients", "write")
    BY <1>5 DEF Subscribe, Unsubscribe, Ask
  <2>2. QED
    BY <2>1, SocketTable, NodeFollows
<1>6. CASE SubscribeAdd(t)
  BY <1>6, SocketTable, NodeFollows DEF SubscribeAdd, Reached
<1>7. CASE SubscribeIgnored(t)
  BY <1>7, SocketTable, NodeFollows DEF SubscribeIgnored, Reached
<1>8. CASE Answered(t)
  BY <1>8, SocketTable, NodeFollows DEF Answered
<1>9. CASE UnsubscribeRemove(t)
  BY <1>9, SocketTable, NodeFollows DEF UnsubscribeRemove, Reached
<1>10. CASE EventLagged(t)
  BY <1>10, UntouchedLocks DEF EventLagged, taskVars, NodeGuards
<1>11. CASE EventReceived(t)
  <2>1. pc[t] = "ws_loop" /\ Await(t, "ws_event", "clients", "read")
    BY <1>11 DEF EventReceived
  <2>2. QED
    BY <2>1, SocketTable, NodeFollows
<1>12. CASE EventSkipped(t)
  BY <1>12, SocketTable, NodeFollows DEF EventSkipped, Reached
<1>13. CASE EventSend(t)
  BY <1>13, SocketTable, NodeFollows DEF EventSend, Reached
<1>14. CASE EventSent(t) \/ EventFails(t)
  BY <1>14, SocketTable, NodeFollows DEF EventSent, EventFails
<1>15. CASE Closed(t)
  BY <1>15, SocketTable, NodeFollows DEF Closed
<1>16. CASE RemoveAsk(t)
  BY <1>16, SocketTable, NodeFollows DEF RemoveAsk
<1>17. QED
  BY <1>1, <1>2, <1>3, <1>4, <1>5, <1>6, <1>7, <1>8, <1>9, <1>10, <1>11,
     <1>12, <1>13, <1>14, <1>15, <1>16 DEF Serve

\* A process that ends has no guards.
LEMMA EndsKeepsGuards ==
  ASSUME Ends PROVE NodeGuards'
<1>1. /\ DOMAIN locks' = NodeLocks
      /\ \A l \in NodeLocks : locks'[l] = FreeLock(Tasks)
      /\ pc' \in [Tasks -> NodePoints] /\ \A t \in Tasks : pc'[t] = "idle"
  BY DEF Ends, NodePoints
<1>2. \A l \in NodeLocks : WellFormed(locks'[l], Tasks)
  BY <1>1, FreeLockWellFormed
<1>3. LockDiscipline(NodeWants, NodeHeldAt)'
  BY <1>1, NodeIdle DEF LockDiscipline, FreeLock, NoRequest
<1>4. QED
  BY <1>1, <1>2, <1>3 DEF NodeGuards, LockInv

\* Each task of the node holds exactly the guards its place in the code
\* implies: the state's from the first put of a save to the answer, and the
\* table's while an event or the answer to a subscription is sent.
THEOREM NodeLocksHeld == NodeSpec => []NodeGuards
<1>1. NodeInit => NodeGuards
  BY NoCallsKeepLocks, NodeIdle DEF NodeInit, NodeGuards
<1>2. NodeGuards /\ [NodeNext]_nodeVars => NodeGuards'
  <2>1. SUFFICES ASSUME NodeGuards, [NodeNext]_nodeVars PROVE NodeGuards'
    OBVIOUS
  <2>2. CASE UNCHANGED taskVars
    BY <2>1, <2>2, UntouchedLocks DEF taskVars, NodeGuards
  <2>3. CASE UNCHANGED nodeVars
    BY <2>2, <2>3 DEF nodeVars
  <2>4. CASE Process
    <3>1. CASE RequestShutdown \/ Start
      BY <2>2, <3>1 DEF RequestShutdown, Start
    <3>2. CASE ShutdownSave \/ ShutdownSaved
      BY <2>1, <3>2, RpcKeepsGuards, NodeAssumption
    <3>3. CASE Exit \/ Crash
      BY <3>3, EndsKeepsGuards DEF Exit, Crash
    <3>4. QED
      BY <2>4, <3>1, <3>2, <3>3 DEF Process
  <2>5. CASE \E t \in Tasks : Rpc(t) \/ Connect(t) \/ Serve(t)
    BY <2>1, <2>5, RpcKeepsGuards, SocketKeepsGuards
  <2>6. CASE \E t \in Tasks, event \in Others :
               "announce" \in workload[t] /\ Announce(event)
    BY <2>2, <2>6 DEF Announce
  <2>7. QED
    BY <2>1, <2>3, <2>4, <2>5, <2>6 DEF NodeNext
<1>3. QED
  BY <1>1, <1>2, PTL DEF NodeSpec

\* The state comes before its balances.
NodeRoom == [l \in NodeLocks |-> IF l = "state" THEN 1 ELSE 0]

LEMMA NodeInOrder ==
  \A point \in NodePoints :
    InOrder(NodeLocks, NodeWants, NodeHeldAt, NodeRoom, point)
BY DEF InOrder, NodePoints, RpcPoints, SocketPoints, NodeLocks, SocketLocks,
   NodeWants, NodeWrites, NodeReads, NodeHeldAt, NodeRoom

\* No requests, saves and connections wait for each other in a circle,
\* although a save keeps the state while it asks for the balances and a
\* connection keeps the table for as long as its peer takes to read.
THEOREM NodeNeverLocksUp == NodeSpec => []NoDeadlock
<1>1. NodeGuards => NoDeadlock
  <2>1. SUFFICES ASSUME NodeGuards, NEW D \in SUBSET Tasks, Stuck(D)
                 PROVE  FALSE
    BY DEF NoDeadlock, Deadlock
  <2>2. NodeRoom \in [NodeLocks -> Nat]
    BY DEF NodeRoom
  <2>3. \A t \in D : pc[t] \in NodePoints
    BY <2>1 DEF NodeGuards, LockInv
  <2>4. QED
    BY <2>1, <2>2, <2>3, NodeInOrder, CircleLeavesOrder DEF NodeGuards
<1>2. QED
  BY <1>1, NodeLocksHeld, PTL

-----------------------------------------------------------------------------
(* The state, its copy in the database, and the blocks acknowledged.       *)

RpcArgs == [block : Rewards \cup {None}, failed : BOOLEAN]

StoredStates == [count : Nat \cup {None}, difficulty : BOOLEAN,
                 balances : SUBSET Rewards]

\* Only a process that runs has tasks in a call.
NodeTypes ==
  /\ up \in BOOLEAN /\ block_count \in Nat /\ accepted \in Nat
  /\ balances \in SUBSET Rewards /\ durable \in SUBSET Rewards
  /\ db \in StoredStates
  /\ announced \in Seq(Nat)
  /\ DOMAIN arg = Tasks
  /\ \A t \in Tasks : /\ ~up => pc[t] = "idle"
                      /\ pc[t] \in RpcPoints => arg[t] \in RpcArgs

SavedWell(t) == pc[t] = "saved" /\ ~arg[t].failed

\* What a handler has stored is still the state, which it keeps; its block
\* has been paid.
SaveFacts(t) ==
  /\ pc[t] \in {"put_difficulty", "put_balances"} \/ SavedWell(t) =>
       db.count = block_count
  /\ pc[t] = "put_balances" \/ SavedWell(t) => db.difficulty
  /\ SavedWell(t) => db.balances = balances
  /\ pc[t] \in RpcPoints /\ arg[t].block # None => arg[t].block \in balances

OnePerHeight(rewards, top) ==
  /\ \A r, s \in rewards : r.height = s.height => r = s
  /\ \A r \in rewards : r.height \in 2..top

\* The process is never behind the database, of which the balances are never
\* ahead of the count.
StateInv ==
  /\ up => block_count >= 1 /\ (HasState => block_count >= db.count)
  /\ db.count # None => db.count >= 1
  /\ OnePerHeight(balances, block_count)
  /\ db.balances # {} => HasState /\ OnePerHeight(db.balances, db.count)
  /\ AcknowledgedSurvive
  /\ \A t \in Tasks : SaveFacts(t)

\* No announced height is above the block count.
AnnounceInv ==
  /\ AnnouncedInOrder
  /\ ~up => announced = << >>
  /\ \A i \in 1..Len(announced) : announced[i] <= block_count

NodeInv == NodeTypes /\ StateInv /\ AnnounceInv

OthersWait(t) ==
  /\ DOMAIN arg' = Tasks
  /\ \A u \in Tasks \ {t} : pc'[u] = pc[u] /\ arg'[u] = arg[u]

\* Where a task has got to in handle_rpc, or that it is elsewhere.
Placed(t) ==
  /\ ~up => pc[t] = "idle"
  /\ pc[t] \in RpcPoints => arg[t] \in RpcArgs
  /\ SaveFacts(t)

\* A step that leaves the state, the database and the announcements alone.
LEMMA StateQuiet ==
  ASSUME NodeInv, NEW t \in Tasks, OthersWait(t), Placed(t)',
         UNCHANGED <<up, block_count, balances, db, durable, announced,
                     accepted>>
  PROVE  NodeInv'
<1>1. \A u \in Tasks \ {t} : SaveFacts(u)'
  BY DEF NodeInv, StateInv, SaveFacts, SavedWell, OthersWait
<1>2. NodeTypes'
  BY DEF NodeInv, NodeTypes, OthersWait, Placed
<1>3. HasState' = HasState /\ AcknowledgedSurvive' = AcknowledgedSurvive
  BY DEF HasState, AcknowledgedSurvive
<1>4. StateInv'
  BY <1>1, <1>3 DEF NodeInv, StateInv, Placed
<1>5. AnnounceInv'
  BY DEF NodeInv, AnnounceInv, AnnouncedInOrder
<1>6. QED
  BY <1>2, <1>4, <1>5 DEF NodeInv

\* Nothing of it moves at all.
LEMMA StateIdle ==
  ASSUME NodeInv, UNCHANGED <<up, block_count, balances, db, durable,
                              announced, accepted, pc, arg>>
  PROVE  NodeInv'
<1>1. HasState' = HasState /\ AcknowledgedSurvive' = AcknowledgedSurvive
  BY DEF HasState, AcknowledgedSurvive
<1>2. \A u \in Tasks : SaveFacts(u)'
  BY DEF NodeInv, StateInv, SaveFacts, SavedWell
<1>3. NodeTypes' /\ StateInv'
  BY <1>1, <1>2 DEF NodeInv, NodeTypes, StateInv
<1>4. AnnounceInv'
  BY DEF NodeInv, AnnounceInv, AnnouncedInOrder
<1>5. QED
  BY <1>3, <1>4 DEF NodeInv

\* Whoever pays a block has the state alone: nobody is saving it.
LEMMA CreditAlone ==
  ASSUME NodeGuards, NEW t \in Tasks, pc[t] = "rpc_balances",
         NEW u \in Tasks,
         pc[u] \in {"put_difficulty", "put_balances", "saved", "rpc_balances"}
  PROVE  u = t
<1>1. "state" \in NodeLocks /\ pc[t] \in NodePoints /\ pc[u] \in NodePoints
  BY DEF NodeLocks, NodePoints, RpcPoints
<1>2. "state" \in NodeHeldAt[pc[t]] /\ "state" \in NodeHeldAt[pc[u]]
  BY <1>1 DEF NodeHeldAt
<1>3. Holds(locks["state"], t) /\ Holds(locks["state"], u)
  BY <1>1, <1>2 DEF NodeGuards, LockInv, LockDiscipline
<1>4. NodeWants[pc[t]]["state"] = "write"
  BY <1>1 DEF NodeWants, NodeWrites
<1>5. QED
  BY <1>1, <1>3, <1>4, OneHolder DEF NodeGuards

\* silver_core counts and pays a block.
LEMMA CreditKeepsState ==
  ASSUME NodeGuards, NodeInv, NEW t \in Tasks, RpcCredit(t)
  PROVE  NodeInv'
<1> DEFINE reward == Reward(block_count', accepted')
<1>1. /\ pc[t] = "rpc_balances" /\ pc' = [pc EXCEPT ![t] = "rpc_done"]
      /\ block_count' = block_count + 1 /\ accepted' = accepted + 1
      /\ balances' = balances \cup {reward}
      /\ arg' = [arg EXCEPT ![t] = [arg[t] EXCEPT !.block = reward]]
      /\ UNCHANGED <<up, db, durable, announced>>
  BY DEF RpcCredit, Reached, Keep
<1>2. /\ DOMAIN arg = Tasks /\ pc \in [Tasks -> NodePoints]
      /\ block_count \in Nat /\ accepted \in Nat /\ up
      /\ arg[t] \in RpcArgs
  BY <1>1 DEF NodeInv, NodeTypes, NodeGuards, LockInv, RpcPoints
<1>3. reward \in Rewards /\ reward.height = block_count + 1
  BY <1>1, <1>2 DEF Reward, Rewards
<1>4. /\ DOMAIN arg' = Tasks /\ pc'[t] = "rpc_done"
      /\ arg'[t] \in RpcArgs /\ arg'[t].block = reward
      /\ \A u \in Tasks \ {t} : pc'[u] = pc[u] /\ arg'[u] = arg[u]
  BY <1>1, <1>2, <1>3 DEF RpcArgs
<1>5. \A u \in Tasks : SaveFacts(u)'
  <2>1. ASSUME NEW u \in Tasks, u # t PROVE SaveFacts(u)'
    <3>1. pc[u] \notin {"put_difficulty", "put_balances", "saved"}
      BY <1>1, <2>1, CreditAlone
    <3>2. SaveFacts(u)
      BY DEF NodeInv, StateInv
    <3>3. QED
      BY <1>1, <1>4, <2>1, <3>1, <3>2 DEF SaveFacts, SavedWell
  <2>2. SaveFacts(t)'
    BY <1>1, <1>4 DEF SaveFacts, SavedWell
  <2>3. QED
    BY <2>1, <2>2
<1>6. NodeTypes'
  <2>1. balances' \in SUBSET Rewards
    BY <1>1, <1>3 DEF NodeInv, NodeTypes
  <2>2. QED
    BY <1>1, <1>2, <1>4, <2>1 DEF NodeInv, NodeTypes
<1>7. OnePerHeight(balances', block_count')
  <2>1. \A r \in balances : r.height \in 2..block_count
    BY DEF NodeInv, StateInv, OnePerHeight
  <2>2. \A r \in balances : r.height \in 2..block_count' /\ r.height # reward.height
    BY <1>1, <1>2, <1>3, <2>1
  <2>3. block_count >= 1
    BY <1>2 DEF NodeInv, StateInv
  <2>4. reward.height \in 2..block_count'
    BY <1>1, <1>2, <1>3, <2>3
  <2> HIDE DEF reward
  <2>5. QED
    BY <1>1, <2>2, <2>4 DEF NodeInv, StateInv, OnePerHeight
<1>8. AcknowledgedSurvive'
  <2>1. ASSUME NEW block \in durable
        PROVE  /\ HasState /\ db.count >= block.height
               /\ block \in db.balances
               /\ block_count >= block.height /\ block \in balances
               /\ block.height \in Nat
    BY <1>2 DEF NodeInv, StateInv, AcknowledgedSurvive, NodeTypes, Rewards
  <2>2. HasState' = HasState
    BY <1>1 DEF HasState
  <2>3. QED
    BY <1>1, <1>2, <2>1, <2>2 DEF AcknowledgedSurvive
<1>9. StateInv'
  <2>1. HasState' = HasState
    BY <1>1 DEF HasState
  <2>2. HasState => db.count \in Nat
    BY DEF HasState, NodeInv, NodeTypes, StoredStates
  <2>3. block_count' >= 1 /\ (HasState => block_count' >= db.count)
    BY <1>1, <1>2, <2>2 DEF NodeInv, StateInv
  <2>4. QED
    BY <1>1, <1>5, <1>7, <1>8, <2>1, <2>3 DEF NodeInv, StateInv
<1>10. AnnounceInv'
  <2>1. \A i \in 1..Len(announced) : announced[i] \in Nat /\ announced[i] <= block_count
    BY DEF NodeInv, NodeTypes, AnnounceInv
  <2>2. \A i \in 1..Len(announced) : announced[i] <= block_count'
    BY <1>1, <1>2, <2>1
  <2>3. QED
    BY <1>1, <2>2 DEF NodeInv, AnnounceInv, AnnouncedInOrder
<1>11. QED
  BY <1>6, <1>9, <1>10 DEF NodeInv

\* The count is stored: it is no less than the one stored before.
LEMMA PutCountKeepsState ==
  ASSUME NodeGuards, NodeInv, NEW t \in Tasks, PutCount(t)
  PROVE  NodeInv'
<1>1. /\ pc[t] = "put_count" /\ pc' = [pc EXCEPT ![t] = "put_difficulty"]
      /\ db' = [db EXCEPT !.count = block_count]
      /\ UNCHANGED <<up, block_count, balances, durable, announced, accepted,
                     arg>>
  BY DEF PutCount, Reached, Move, Stored
<1>2. /\ DOMAIN arg = Tasks /\ pc \in [Tasks -> NodePoints]
      /\ block_count \in Nat /\ up /\ db \in StoredStates
      /\ block_count >= 1 /\ (HasState => block_count >= db.count)
  BY <1>1 DEF NodeInv, NodeTypes, StateInv, NodeGuards, LockInv
<1>3. /\ db'.count = block_count /\ db'.difficulty = db.difficulty
      /\ db'.balances = db.balances /\ db' \in StoredStates
  BY <1>1, <1>2 DEF StoredStates
<1>4. /\ pc'[t] = "put_difficulty"
      /\ \A u \in Tasks \ {t} : pc'[u] = pc[u]
  BY <1>1, <1>2
<1>5. \A u \in Tasks : SaveFacts(u)'
  <2>1. ASSUME NEW u \in Tasks PROVE SaveFacts(u)'
    <3>1. SaveFacts(u)
      BY DEF NodeInv, StateInv
    <3>2. CASE u = t
      BY <1>1, <1>3, <1>4, <3>1, <3>2 DEF SaveFacts, SavedWell, RpcPoints
    <3>3. CASE u # t
      BY <1>1, <1>3, <1>4, <3>1, <3>3 DEF SaveFacts, SavedWell
    <3>4. QED
      BY <3>2, <3>3
  <2>2. QED
    BY <2>1
<1>6. NodeTypes'
  BY <1>1, <1>2, <1>3, <1>4 DEF NodeInv, NodeTypes, RpcPoints
<1>7. HasState => HasState' /\ db'.count >= db.count
  BY <1>2, <1>3, NoneNumberAssumption DEF HasState
<1>8. db'.balances # {} => HasState' /\ OnePerHeight(db'.balances, db'.count)
  <2>1. SUFFICES ASSUME db.balances # {}
                 PROVE  HasState' /\ OnePerHeight(db.balances, db'.count)
    BY <1>3
  <2>2. HasState /\ OnePerHeight(db.balances, db.count)
    BY <2>1 DEF NodeInv, StateInv
  <2>3. db.count \in Nat /\ db'.count \in Nat /\ db'.count >= db.count
    BY <1>2, <1>3, <1>7, <2>2 DEF HasState, StoredStates
  <2>4. QED
    BY <1>7, <2>2, <2>3 DEF OnePerHeight
<1>9. AcknowledgedSurvive'
  <2>1. SUFFICES ASSUME NEW block \in durable
                 PROVE  /\ HasState' /\ db'.count >= block.height
                        /\ block \in db'.balances
                        /\ block_count >= block.height /\ block \in balances
    BY <1>1 DEF AcknowledgedSurvive
  <2>2. /\ HasState /\ block \in db.balances
        /\ block_count >= block.height /\ block \in balances
    BY <1>2 DEF NodeInv, StateInv, AcknowledgedSurvive
  <2>3. QED
    BY <1>3, <1>7, <2>2
<1>10. StateInv'
  BY <1>1, <1>2, <1>3, <1>5, <1>8, <1>9 DEF NodeInv, StateInv
<1>11. AnnounceInv'
  BY <1>1 DEF NodeInv, AnnounceInv, AnnouncedInOrder
<1>12. QED
  BY <1>6, <1>10, <1>11 DEF NodeInv

\* The difficulty is stored: from then on the next start finds a state.
LEMMA PutDifficultyKeepsState ==
  ASSUME NodeGuards, NodeInv, NEW t \in Tasks, PutDifficulty(t)
  PROVE  NodeInv'
<1>1. /\ pc[t] = "put_difficulty" /\ pc' = [pc EXCEPT ![t] = "put_balances"]
      /\ db' = [db EXCEPT !.difficulty = TRUE]
      /\ UNCHANGED <<up, block_count, balances, durable, announced, accepted,
                     arg>>
  BY DEF PutDifficulty, Await, Stored
<1>2. /\ DOMAIN arg = Tasks /\ pc \in [Tasks -> NodePoints]
      /\ block_count \in Nat /\ up /\ db \in StoredStates
      /\ block_count >= 1 /\ db.count = block_count
  BY <1>1 DEF NodeInv, NodeTypes, StateInv, SaveFacts, NodeGuards, LockInv
<1>3. /\ db'.count = db.count /\ db'.difficulty
      /\ db'.balances = db.balances /\ db' \in StoredStates
  BY <1>1, <1>2 DEF StoredStates
<1>4. /\ pc'[t] = "put_balances"
      /\ \A u \in Tasks \ {t} : pc'[u] = pc[u]
  BY <1>1, <1>2
<1>5. HasState'
  BY <1>2, <1>3, NoneNumberAssumption DEF HasState
<1>6. \A u \in Tasks : SaveFacts(u)'
  <2>1. ASSUME NEW u \in Tasks PROVE SaveFacts(u)'
    <3>1. SaveFacts(u)
      BY DEF NodeInv, StateInv
    <3>2. CASE u = t
      BY <1>1, <1>2, <1>3, <1>4, <3>1, <3>2 DEF SaveFacts, SavedWell, RpcPoints
    <3>3. CASE u # t
      BY <1>1, <1>3, <1>4, <3>1, <3>3 DEF SaveFacts, SavedWell
    <3>4. QED
      BY <3>2, <3>3
  <2>2. QED
    BY <2>1
<1>7. NodeTypes'
  BY <1>1, <1>2, <1>3, <1>4 DEF NodeInv, NodeTypes, RpcPoints
<1>8. AcknowledgedSurvive'
  BY <1>1, <1>3, <1>5 DEF NodeInv, StateInv, AcknowledgedSurvive
<1>9. StateInv'
  BY <1>1, <1>2, <1>3, <1>5, <1>6, <1>8 DEF NodeInv, StateInv
<1>10. AnnounceInv'
  BY <1>1 DEF NodeInv, AnnounceInv, AnnouncedInOrder
<1>11. QED
  BY <1>7, <1>9, <1>10 DEF NodeInv

\* The balances are stored, for the count that was stored before.
LEMMA PutBalancesKeepsState ==
  ASSUME NodeGuards, NodeInv, NEW t \in Tasks, PutBalances(t)
  PROVE  NodeInv'
<1>1. /\ pc[t] = "put_balances" /\ pc' = [pc EXCEPT ![t] = "saved"]
      /\ db' = [db EXCEPT !.balances = balances]
      /\ UNCHANGED <<up, block_count, balances, durable, announced, accepted,
                     arg>>
  BY DEF PutBalances, Reached, Drop, Stored
<1>2. /\ DOMAIN arg = Tasks /\ pc \in [Tasks -> NodePoints]
      /\ block_count \in Nat /\ up /\ db \in StoredStates
      /\ balances \in SUBSET Rewards
      /\ db.count = block_count /\ db.difficulty
  BY <1>1 DEF NodeInv, NodeTypes, StateInv, SaveFacts, NodeGuards, LockInv
<1>3. /\ db'.count = db.count /\ db'.difficulty
      /\ db'.balances = balances /\ db' \in StoredStates
  BY <1>1, <1>2 DEF StoredStates
<1>4. /\ pc'[t] = "saved"
      /\ \A u \in Tasks \ {t} : pc'[u] = pc[u]
  BY <1>1, <1>2
<1>5. HasState /\ HasState'
  BY <1>2, <1>3, NoneNumberAssumption DEF HasState
<1>6. \A u \in Tasks : SaveFacts(u)'
  <2>1. ASSUME NEW u \in Tasks PROVE SaveFacts(u)'
    <3>1. SaveFacts(u)
      BY DEF NodeInv, StateInv
    <3>2. CASE u = t
      BY <1>1, <1>2, <1>3, <1>4, <3>1, <3>2 DEF SaveFacts, SavedWell, RpcPoints
    <3>3. CASE u # t
      BY <1>1, <1>3, <1>4, <3>1, <3>3 DEF SaveFacts, SavedWell
    <3>4. QED
      BY <3>2, <3>3
  <2>2. QED
    BY <2>1
<1>7. NodeTypes'
  BY <1>1, <1>2, <1>3, <1>4 DEF NodeInv, NodeTypes, RpcPoints
<1>8. AcknowledgedSurvive'
  BY <1>1, <1>2, <1>3, <1>5 DEF NodeInv, StateInv, AcknowledgedSurvive
<1>9. StateInv'
  BY <1>1, <1>2, <1>3, <1>5, <1>6, <1>8 DEF NodeInv, StateInv
<1>10. AnnounceInv'
  BY <1>1 DEF NodeInv, AnnounceInv, AnnouncedInOrder
<1>11. QED
  BY <1>7, <1>9, <1>10 DEF NodeInv

\* The answer: a block is acknowledged as it has been stored, and announced
\* with the height of the moment.
LEMMA RespondKeepsState ==
  ASSUME NodeGuards, NodeInv, NEW t \in Tasks, Respond(t)
  PROVE  NodeInv'
<1>1. /\ pc[t] = "saved" /\ Return(t)
      /\ UNCHANGED <<up, block_count, balances, db, accepted>>
      /\ \/ UNCHANGED <<durable, announced>>
         \/ /\ arg[t].block # None
            /\ announced' = Append(announced, block_count)
            /\ durable' = IF arg[t].failed THEN durable
                          ELSE durable \cup {arg[t].block}
  BY DEF Respond, HeightOf
<1>2. /\ DOMAIN arg = Tasks /\ pc \in [Tasks -> NodePoints]
      /\ block_count \in Nat /\ up /\ announced \in Seq(Nat)
      /\ durable \in SUBSET Rewards /\ balances \in SUBSET Rewards
  BY <1>1 DEF NodeInv, NodeTypes, NodeGuards, LockInv
<1>3. /\ DOMAIN arg' = Tasks /\ pc'[t] = "idle"
      /\ \A u \in Tasks \ {t} : pc'[u] = pc[u] /\ arg'[u] = arg[u]
  BY <1>1, <1>2 DEF Return
<1>4. HasState' = HasState
  BY <1>1 DEF HasState
<1>5. \A u \in Tasks : SaveFacts(u)'
  <2>1. ASSUME NEW u \in Tasks PROVE SaveFacts(u)'
    <3>1. SaveFacts(u)
      BY DEF NodeInv, StateInv
    <3>2. CASE u = t
      BY <1>3, <3>2 DEF SaveFacts, SavedWell, RpcPoints
    <3>3. CASE u # t
      BY <1>1, <1>3, <3>1, <3>3 DEF SaveFacts, SavedWell
    <3>4. QED
      BY <3>2, <3>3
  <2>2. QED
    BY <2>1
<1>6. SaveFacts(t)
  BY DEF NodeInv, StateInv
<1>7. durable' \in SUBSET Rewards /\ announced' \in Seq(Nat)
  <2>1. arg[t].block # None => arg[t].block \in Rewards
    BY <1>1, <1>2, <1>6 DEF SaveFacts, RpcPoints
  <2>2. durable' \in SUBSET Rewards
    BY <1>1, <1>2, <2>1
  <2>3. Append(announced, block_count) \in Seq(Nat)
    BY <1>2
  <2>4. QED
    BY <1>1, <1>2, <2>2, <2>3
<1>8. NodeTypes'
  BY <1>1, <1>2, <1>3, <1>7 DEF NodeInv, NodeTypes, RpcPoints
<1>9. AcknowledgedSurvive'
  <2>1. SUFFICES ASSUME NEW block \in durable'
                 PROVE  /\ HasState /\ db.count >= block.height
                        /\ block \in db.balances
                        /\ block_count >= block.height /\ block \in balances
    BY <1>1, <1>4 DEF AcknowledgedSurvive
  <2>2. CASE block \in durable
    BY <1>2, <2>2 DEF NodeInv, StateInv, AcknowledgedSurvive
  <2>3. CASE block \notin durable
    <3>1. block = arg[t].block /\ ~arg[t].failed /\ arg[t].block # None
      BY <1>1, <2>1, <2>3
    <3>2. /\ db.count = block_count /\ db.difficulty
          /\ db.balances = balances /\ block \in balances
      BY <1>1, <1>6, <3>1 DEF SaveFacts, SavedWell, RpcPoints
    <3>3. HasState
      BY <1>2, <3>2, NoneNumberAssumption DEF HasState
    <3>4. block.height \in 2..block_count
      BY <3>2 DEF NodeInv, StateInv, OnePerHeight
    <3>5. QED
      BY <1>2, <3>2, <3>3, <3>4
  <2>4. QED
    BY <2>2, <2>3
<1>10. StateInv'
  BY <1>1, <1>4, <1>5, <1>9 DEF NodeInv, StateInv
<1>11. AnnounceInv'
  <2>1. /\ \A i \in 1..Len(announced) : /\ announced[i] \in Nat
                                        /\ announced[i] <= block_count
        /\ AnnouncedInOrder
    BY <1>2 DEF NodeInv, AnnounceInv
  <2>2. CASE announced' = announced
    BY <1>1, <1>2, <2>1, <2>2 DEF AnnounceInv, AnnouncedInOrder
  <2>3. CASE announced' = Append(announced, block_count)
    <3>1. /\ Len(announced') = Len(announced) + 1 /\ Len(announced) \in Nat
          /\ announced'[Len(announced) + 1] = block_count
          /\ \A i \in 1..Len(announced) : announced'[i] = announced[i]
      BY <1>2, <2>3
    <3>2. \A i \in 1..Len(announced') : announced'[i] <= block_count
      BY <1>2, <2>1, <3>1
    <3>3. ASSUME NEW i \in 1..Len(announced'), NEW j \in 1..Len(announced'),
                 i < j
          PROVE  announced'[i] <= announced'[j]
      <4>1. CASE j = Len(announced) + 1
        BY <3>1, <3>2, <4>1
      <4>2. CASE j # Len(announced) + 1
        <5>1. i \in 1..Len(announced) /\ j \in 1..Len(announced)
          BY <3>1, <3>3, <4>2
        <5>2. QED
          BY <2>1, <3>1, <3>3, <5>1 DEF AnnouncedInOrder
      <4>3. QED
        BY <4>1, <4>2
    <3>4. QED
      BY <1>1, <1>2, <3>2, <3>3 DEF AnnounceInv, AnnouncedInOrder
  <2>4. QED
    BY <1>1, <2>2, <2>3
<1>12. QED
  BY <1>8, <1>10, <1>11 DEF NodeInv

\* The process ends: the database is all that is left.
LEMMA EndsKeepsState ==
  ASSUME NodeInv, Ends
  PROVE  NodeInv'
<1>1. /\ up' = FALSE /\ block_count' = 0 /\ balances' = {}
      /\ announced' = << >>
      /\ UNCHANGED <<db, accepted, durable>>
      /\ DOMAIN arg' = Tasks /\ \A t \in Tasks : pc'[t] = "idle"
  BY DEF Ends
<1>2. HasState' = HasState
  BY <1>1 DEF HasState
<1>3. \A u \in Tasks : SaveFacts(u)'
  BY <1>1 DEF SaveFacts, SavedWell, RpcPoints
<1>4. NodeTypes'
  <2>1. announced' \in Seq(Nat) /\ balances' \in SUBSET Rewards
    BY <1>1
  <2>2. QED
    BY <1>1, <2>1 DEF NodeInv, NodeTypes, RpcPoints
<1>5. AcknowledgedSurvive'
  BY <1>1, <1>2 DEF NodeInv, StateInv, AcknowledgedSurvive
<1>6. StateInv'
  BY <1>1, <1>2, <1>3, <1>5 DEF NodeInv, StateInv, OnePerHeight
<1>7. AnnounceInv'
  <2>1. Len(announced') = 0
    BY <1>1
  <2>2. QED
    BY <2>1 DEF AnnounceInv, AnnouncedInOrder
<1>8. QED
  BY <1>4, <1>6, <1>7 DEF NodeInv

\* The next start takes the state from the database, and pays the blocks of
\* a state without balances one by one.
LEMMA StartKeepsState ==
  ASSUME NodeInv, Start
  PROVE  NodeInv'
<1>1. /\ ~up /\ up' = TRUE
      /\ block_count' = LoadedCount /\ balances' = Populated
      /\ UNCHANGED <<db, accepted, durable, announced, pc, arg>>
  BY DEF Start, taskVars
<1>2. /\ db \in StoredStates /\ durable \in SUBSET Rewards
      /\ \A t \in Tasks : pc[t] = "idle"
      /\ HasState => db.count \in Nat /\ db.count >= 1
  BY <1>1 DEF NodeInv, NodeTypes, StateInv, HasState, StoredStates
<1>3. HasState' = HasState
  BY <1>1 DEF HasState
<1>4. /\ block_count' \in Nat /\ block_count' >= 1
      /\ HasState => block_count' = db.count
  BY <1>1, <1>2 DEF LoadedCount
<1>5. balances' \in SUBSET Rewards /\ OnePerHeight(balances', block_count')
  <2>1. CASE LoadedBalances = {}
    <3>1. balances' = DefaultRewards
      BY <1>1, <2>1 DEF Populated
    <3>2. DefaultRewards = {Reward(h, None) : h \in 2..block_count'}
      BY <1>1 DEF DefaultRewards
    <3>3. QED
      BY <1>4, <3>1, <3>2 DEF Reward, Rewards, OnePerHeight
  <2>2. CASE LoadedBalances # {}
    <3>1. /\ HasState /\ db.balances # {}
          /\ balances' = db.balances
      BY <1>1, <2>2 DEF Populated, LoadedBalances
    <3>2. QED
      BY <1>2, <1>4, <3>1 DEF NodeInv, StateInv, StoredStates
  <2>3. QED
    BY <2>1, <2>2
<1>6. \A u \in Tasks : SaveFacts(u)'
  BY <1>1, <1>2 DEF SaveFacts, SavedWell, RpcPoints
<1>7. NodeTypes'
  BY <1>1, <1>2, <1>4, <1>5 DEF NodeInv, NodeTypes, RpcPoints
<1>8. AcknowledgedSurvive'
  <2>1. SUFFICES ASSUME NEW block \in durable
                 PROVE  /\ HasState /\ db.count >= block.height
                        /\ block \in db.balances
                        /\ block_count' >= block.height /\ block \in balances'
    BY <1>1, <1>3 DEF AcknowledgedSurvive
  <2>2. HasState /\ db.count >= block.height /\ block \in db.balances
    BY DEF NodeInv, StateInv, AcknowledgedSurvive
  <2>3. balances' = db.balances
    BY <1>1, <2>2 DEF Populated, LoadedBalances
  <2>4. QED
    BY <1>4, <2>2, <2>3
<1>9. StateInv'
  <2>1. HasState => block_count' >= db.count
    BY <1>2, <1>4
  <2>2. QED
    BY <1>1, <1>3, <1>4, <1>5, <1>6, <1>8, <2>1 DEF NodeInv, StateInv
<1>10. AnnounceInv'
  <2>1. announced' = << >>
    BY <1>1 DEF NodeInv, AnnounceInv
  <2>2. QED
    BY <1>1, <2>1 DEF AnnounceInv, AnnouncedInOrder
<1>11. QED
  BY <1>7, <1>9, <1>10 DEF NodeInv

\* A connection is nowhere in handle_rpc, and moves no other task.
LEMMA SocketMoves ==
  ASSUME DOMAIN arg = Tasks, pc \in [Tasks -> NodePoints], NEW t \in Tasks,
         Connect(t) \/ Serve(t)
  PROVE  /\ OthersWait(t)
         /\ pc'[t] \in {"idle"} \cup SocketPoints
         /\ Serve(t) => pc[t] \in SocketPoints
<1>1. CASE Connect(t)
  <2>1. pc[t] = "idle" /\ pc'[t] = "ws_insert" /\ OthersWait(t)
    BY <1>1 DEF Connect, HandleConnection, Enter, OthersWait
  <2>2. ~Serve(t)
    BY <2>1 DEF Serve, InsertClient, Welcome, WelcomeFails, Subscribe,
       Unsubscribe, Ask, SubscribeAdd, SubscribeIgnored, Answered,
       UnsubscribeRemove, EventLagged, EventReceived, EventSkipped, EventSend,
       EventSent, EventFails, Closed, RemoveAsk, RemoveClient, Reached
  <2>3. QED
    BY <2>1, <2>2 DEF SocketPoints
<1>2. CASE \/ InsertClient(t) \/ Welcome(t) \/ Answered(t) \/ EventSent(t)
           \/ EventFails(t) \/ Closed(t) \/ RemoveAsk(t)
  BY <1>2 DEF InsertClient, Welcome, Answered, EventSent, EventFails, Closed,
     RemoveAsk, Reached, Move, Drop, Await, OthersWait, SocketPoints
<1>3. CASE WelcomeFails(t) \/ RemoveClient(t)
  BY <1>3 DEF WelcomeFails, RemoveClient, Reached, Return, OthersWait,
     SocketPoints
<1>4. CASE \E channel \in Channels[t] :
             Subscribe(t, channel) \/ Unsubscribe(t, channel)
  BY <1>4 DEF Subscribe, Unsubscribe, Ask, Keep, Await, OthersWait, SocketPoints
<1>5. CASE SubscribeAdd(t) \/ EventSend(t)
  BY <1>5 DEF SubscribeAdd, EventSend, Reached, Keep, Move, OthersWait,
     SocketPoints
<1>6. CASE SubscribeIgnored(t) \/ EventSkipped(t)
  BY <1>6 DEF SubscribeIgnored, EventSkipped, Reached, Keep, Drop, OthersWait,
     SocketPoints
<1>7. CASE UnsubscribeRemove(t)
  BY <1>7 DEF UnsubscribeRemove, Reached, Keep, Drop, OthersWait, SocketPoints
<1>8. CASE EventLagged(t)
  BY <1>8 DEF EventLagged, taskVars, OthersWait, SocketPoints
<1>9. CASE EventReceived(t)
  BY <1>9 DEF EventReceived, Keep, Await, OthersWait, SocketPoints
<1>10. QED
  BY <1>1, <1>2, <1>3, <1>4, <1>5, <1>6, <1>7, <1>8, <1>9 DEF Serve

LEMMA SocketKeepsState ==
  ASSUME NodeGuards, NodeInv, NEW t \in Tasks,
         (up /\ Connect(t)) \/ Serve(t), UNCHANGED nodeData
  PROVE  NodeInv'
<1>1. DOMAIN arg = Tasks /\ pc \in [Tasks -> NodePoints]
  BY DEF NodeInv, NodeTypes, NodeGuards, LockInv
<1>2. /\ OthersWait(t) /\ pc'[t] \in {"idle"} \cup SocketPoints
      /\ Serve(t) => pc[t] \in SocketPoints
  BY <1>1, SocketMoves
<1>3. up' /\ pc'[t] \notin RpcPoints
  <2>1. up
    BY <1>2 DEF NodeInv, NodeTypes, SocketPoints
  <2>2. QED
    BY <1>2, <2>1 DEF nodeData, SocketPoints, RpcPoints
<1>4. Placed(t)'
  BY <1>3 DEF Placed, SaveFacts, SavedWell, RpcPoints
<1>5. QED
  BY <1>2, <1>4, StateQuiet DEF nodeData

\* The steps of handle_rpc between its changes of the state.
LEMMA RpcKeepsState ==
  ASSUME NodeGuards, NodeInv, NEW t \in Tasks,
         Rpc(t) \/ (t = Main /\ (ShutdownSave \/ ShutdownSaved))
  PROVE  NodeInv'
<1>1. /\ DOMAIN arg = Tasks /\ pc \in [Tasks -> NodePoints]
      /\ pc[t] \in RpcPoints => up /\ arg[t] \in RpcArgs
  BY DEF NodeInv, NodeTypes, NodeGuards, LockInv, RpcPoints
<1>2. CASE RpcSubmitBlock(t) \/ (t = Main /\ ShutdownSave)
  <2>1. /\ up /\ pc'[t] \in {"rpc_state", "put_count"}
        /\ arg' = [arg EXCEPT ![t] = [block |-> None, failed |-> FALSE]]
        /\ UNCHANGED nodeData /\ \A u \in Tasks \ {t} : pc'[u] = pc[u]
    BY <1>1, <1>2 DEF RpcSubmitBlock, ShutdownSave, NodeCall, Enter
  <2>2. OthersWait(t)
    BY <1>1, <2>1 DEF OthersWait
  <2>3. arg'[t] = [block |-> None, failed |-> FALSE]
    BY <1>1, <2>1
  <2>4. arg'[t] \in RpcArgs /\ arg'[t].block = None /\ up'
    <3>1. arg'[t] \in RpcArgs /\ arg'[t].block = None
      BY <2>3 DEF RpcArgs
    <3>2. up' = up
      BY <2>1 DEF nodeData
    <3>3. QED
      BY <2>1, <3>1, <3>2
  <2>5. SaveFacts(t)'
    BY <2>1, <2>4 DEF SaveFacts, SavedWell
  <2>6. Placed(t)'
    BY <2>4, <2>5 DEF Placed
  <2>7. QED
    BY <2>1, <2>2, <2>6, StateQuiet DEF nodeData
<1>3. CASE \/ RpcRefuse(t) \/ RpcAccept(t) \/ SaveAsk(t)
           \/ t = Main /\ ShutdownSaved
  <2>1. /\ pc[t] \in RpcPoints
        /\ pc'[t] \in {"rpc_done", "rpc_balances", "put_count", "flushing"}
        /\ arg' = arg /\ UNCHANGED nodeData
        /\ \A u \in Tasks \ {t} : pc'[u] = pc[u]
    BY <1>1, <1>3 DEF RpcRefuse, RpcAccept, SaveAsk, ShutdownSaved, Reached, Drop, Await,
       RpcPoints
  <2>2. OthersWait(t)
    BY <1>1, <2>1 DEF OthersWait
  <2>3. SaveFacts(t)
    BY DEF NodeInv, StateInv
  <2>4. Placed(t)'
    BY <1>1, <2>1, <2>3 DEF Placed, SaveFacts, SavedWell, nodeData
  <2>5. QED
    BY <2>1, <2>2, <2>4, StateQuiet DEF nodeData
<1>4. CASE SaveFails(t)
  <2>1. /\ pc[t] \in RpcPoints /\ pc'[t] = "saved"
        /\ arg' = [arg EXCEPT ![t] = [arg[t] EXCEPT !.failed = TRUE]]
        /\ UNCHANGED nodeData
        /\ \A u \in Tasks \ {t} : pc'[u] = pc[u]
    BY <1>1, <1>4 DEF SaveFails, Reached, Drop, Keep, RpcPoints
  <2>2. /\ arg'[t] \in RpcArgs /\ arg'[t].failed
        /\ arg'[t].block = arg[t].block
        /\ OthersWait(t)
    BY <1>1, <2>1 DEF OthersWait, RpcArgs
  <2>3. SaveFacts(t)
    BY DEF NodeInv, StateInv
  <2>4. Placed(t)'
    BY <1>1, <2>1, <2>2, <2>3 DEF Placed, SaveFacts, SavedWell, nodeData
  <2>5. QED
    BY <2>1, <2>2, <2>4, StateQuiet DEF nodeData
<1>5. CASE RpcCredit(t) \/ PutCount(t) \/ PutDifficulty(t) \/ PutBalances(t)
           \/ Respond(t)
  BY <1>5, CreditKeepsState, PutCountKeepsState, PutDifficultyKeepsState,
     PutBalancesKeepsState, RespondKeepsState
<1>6. QED
  BY <1>2, <1>3, <1>4, <1>5 DEF Rpc

\* What the process has stored, paid and announced fits together, at every
\* await point of every handler and across its end and the next start.
THEOREM NodeInvHolds == NodeSpec => []NodeInv
<1>1. NodeInit => NodeInv
  <2>1. SUFFICES ASSUME NodeInit PROVE NodeInv
    OBVIOUS
  <2>2. /\ up = TRUE /\ block_count = 1 /\ balances = {} /\ accepted = 0
        /\ db = [count |-> None, difficulty |-> FALSE, balances |-> {}]
        /\ durable = {} /\ announced = << >>
        /\ DOMAIN arg = Tasks /\ \A t \in Tasks : pc[t] = "idle"
    BY <2>1 DEF NodeInit, NoCalls
  <2>3. db \in StoredStates /\ announced \in Seq(Nat) /\ Len(announced) = 0
    BY <2>2 DEF StoredStates
  <2>4. db.count = None /\ db.balances = {} /\ ~HasState
    BY <2>2 DEF HasState
  <2>5. NodeTypes
    BY <2>2, <2>3 DEF NodeTypes, RpcPoints
  <2>6. StateInv
    BY <2>2, <2>4 DEF StateInv, OnePerHeight, AcknowledgedSurvive, SaveFacts,
       SavedWell, RpcPoints
  <2>7. AnnounceInv
    BY <2>2, <2>3 DEF AnnounceInv, AnnouncedInOrder
  <2>8. QED
    BY <2>5, <2>6, <2>7 DEF NodeInv
<1>2. NodeGuards /\ NodeInv /\ [NodeNext]_nodeVars => NodeInv'
  <2>1. SUFFICES ASSUME NodeGuards, NodeInv, [NodeNext]_nodeVars
                 PROVE  NodeInv'
    OBVIOUS
  <2>2. CASE UNCHANGED nodeVars
    BY <2>1, <2>2, StateIdle DEF nodeVars, nodeData, taskVars
  <2>3. CASE Process
    <3>1. CASE RequestShutdown
      BY <2>1, <3>1, StateIdle DEF RequestShutdown, taskVars
    <3>2. CASE ShutdownSave \/ ShutdownSaved
      BY <2>1, <3>2, RpcKeepsState, NodeAssumption
    <3>3. CASE Exit \/ Crash
      BY <2>1, <3>3, EndsKeepsState DEF Exit, Crash
    <3>4. CASE Start
      BY <2>1, <3>4, StartKeepsState
    <3>5. QED
      BY <2>3, <3>1, <3>2, <3>3, <3>4 DEF Process
  <2>4. CASE \E t \in Tasks : Rpc(t)
    BY <2>1, <2>4, RpcKeepsState
  <2>5. CASE \E t \in Tasks : ((up /\ Connect(t)) \/ Serve(t))
                              /\ UNCHANGED nodeData
    BY <2>1, <2>5, SocketKeepsState
  <2>6. CASE \E t \in Tasks, event \in Others :
               "announce" \in workload[t] /\ Announce(event)
    BY <2>1, <2>6, StateIdle DEF Announce, taskVars
  <2>7. QED
    BY <2>1, <2>2, <2>3, <2>4, <2>5, <2>6 DEF NodeNext
<1>3. QED
  BY <1>1, <1>2, NodeLocksHeld, PTL DEF NodeSpec

\* A block that was acknowledged after a save without an error stays,
\* whenever the process ends and whatever is half stored then.
THEOREM AcknowledgedSurviveHolds == NodeSpec => []AcknowledgedSurvive
<1>1. NodeInv => AcknowledgedSurvive
  BY DEF NodeInv, StateInv
<1>2. QED
  BY <1>1, NodeInvHolds, PTL

\* No height is ever paid twice, or beyond the block count, although the
\* count and the balances are stored by separate puts.
THEOREM OneRewardPerHeightHolds == NodeSpec => []OneRewardPerHeight
<1>1. NodeInv => OneRewardPerHeight
  BY DEF NodeInv, StateInv, OnePerHeight, OneRewardPerHeight
<1>2. QED
  BY <1>1, NodeInvHolds, PTL

\* The announced heights never go back, as each handler announces the height
\* of the moment and keeps the state while it does.
THEOREM AnnouncedInOrderHolds == NodeSpec => []AnnouncedInOrder
<1>1. NodeInv => AnnouncedInOrder
  BY DEF NodeInv, AnnounceInv
<1>2. QED
  BY <1>1, NodeInvHolds, PTL

-----------------------------------------------------------------------------
(* The table of the connections.                                           *)

\* What a connection's task knows of it; it has asked for nothing before its
\* entry is there.
SocketTyped(t) ==
  pc[t] \in SocketPoints =>
    /\ DOMAIN arg[t] = {"peer", "channel", "event", "asked", "lost"}
    /\ pc[t] = "ws_insert" => arg[t].asked = {} /\ arg[t].lost = {}

\* A peer is served by one task, unless it came back too soon.
OneServed ==
  \A t, u \in Tasks :
    t # u /\ Serving(t) /\ Serving(u) /\ arg[t].peer = arg[u].peer =>
      arg[t].peer \in reused

TableInv ==
  /\ DOMAIN arg = Tasks
  /\ \A t \in Tasks : SocketTyped(t)
  /\ OneServed
  /\ TableTracksConnections

LEMMA ServingPoint ==
  ASSUME NEW t \in Tasks
  PROVE  Serving(t) <=> pc[t] \in SocketPoints \ {"ws_insert"}
BY DEF Serving, SocketPoints

\* A step that leaves the table, the connections and their tasks alone.
LEMMA TableIdle ==
  ASSUME TableInv, UNCHANGED <<clients, leaked, reused, pc, arg>>
  PROVE  TableInv'
BY DEF TableInv, SocketTyped, OneServed, TableTracksConnections, ServedBy,
   Serving, Listed

\* A step of a task that serves no connection, before it and after it.
LEMMA TableAway ==
  ASSUME TableInv, NEW t \in Tasks, OthersWait(t),
         ~Serving(t), ~Serving(t)', SocketTyped(t)',
         UNCHANGED <<clients, leaked, reused>>
  PROVE  TableInv'
<1>1. \A u \in Tasks : /\ Serving(u)' <=> Serving(u)
                       /\ Serving(u) => u # t /\ arg'[u] = arg[u]
  BY DEF OthersWait, Serving
<1>2. \A u \in Tasks : SocketTyped(u)'
  BY DEF TableInv, SocketTyped, OthersWait
<1>3. \A peer : ServedBy(peer)' = ServedBy(peer)
  BY <1>1 DEF ServedBy
<1>4. OneServed'
  BY <1>1 DEF TableInv, OneServed
<1>5. TableTracksConnections'
  BY <1>1, <1>3 DEF TableInv, TableTracksConnections, Listed
<1>6. QED
  BY <1>2, <1>4, <1>5 DEF TableInv, OthersWait

\* A step of the loop of one connection: no other entry is touched, and its
\* own, unless it is shared, is what the connection asked for.
LEMMA TableKept ==
  ASSUME TableInv, NEW t \in Tasks, OthersWait(t),
         Serving(t), Serving(t)', SocketTyped(t)',
         arg'[t].peer = arg[t].peer, UNCHANGED <<leaked, reused>>,
         DOMAIN clients' = DOMAIN clients,
         \A p \in DOMAIN clients \ {arg[t].peer} : clients'[p] = clients[p],
         arg[t].peer \notin reused =>
           clients'[arg[t].peer] = arg'[t].asked \ arg'[t].lost
  PROVE  TableInv'
<1>1. \A u \in Tasks : /\ Serving(u)' <=> Serving(u)
                       /\ arg'[u].peer = arg[u].peer
  BY DEF OthersWait, Serving
<1>2. \A u \in Tasks : SocketTyped(u)'
  BY DEF TableInv, SocketTyped, OthersWait
<1>3. \A peer : ServedBy(peer)' = ServedBy(peer)
  BY <1>1 DEF ServedBy
<1>4. OneServed'
  BY <1>1 DEF TableInv, OneServed
<1>5. ASSUME NEW u \in Tasks, Serving(u), arg[u].peer \notin reused
      PROVE  /\ arg[u].peer \in DOMAIN clients'
             /\ clients'[arg[u].peer] = arg'[u].asked \ arg'[u].lost
  <2>1. /\ arg[u].peer \in DOMAIN clients
        /\ clients[arg[u].peer] = arg[u].asked \ arg[u].lost
    BY <1>5 DEF TableInv, TableTracksConnections, Listed
  <2>2. CASE u = t
    BY <1>5, <2>1, <2>2
  <2>3. CASE u # t
    <3>1. arg[u].peer # arg[t].peer
      BY <1>5, <2>3 DEF TableInv, OneServed
    <3>2. arg'[u] = arg[u]
      BY <2>3 DEF OthersWait
    <3>3. QED
      BY <2>1, <3>1, <3>2
  <2>4. QED
    BY <2>2, <2>3
<1>6. TableTracksConnections'
  <2>1. ASSUME NEW peer \in DOMAIN clients'
        PROVE  peer \in leaked' \/ ServedBy(peer)' # {}
    BY <1>3 DEF TableInv, TableTracksConnections
  <2>2. ASSUME NEW u \in Tasks, Serving(u)', arg'[u].peer \notin reused'
        PROVE  /\ Listed(u)'
               /\ clients'[arg'[u].peer] = arg'[u].asked \ arg'[u].lost
    BY <1>1, <1>5, <2>2 DEF Listed
  <2>3. QED
    BY <2>1, <2>2 DEF TableTracksConnections
<1>7. QED
  BY <1>2, <1>4, <1>6 DEF TableInv, OthersWait

\* The entry of a connection, new or in the place of an earlier one.
LEMMA InsertKeepsTable ==
  ASSUME NodeGuards, TableInv, NEW t \in Tasks, InsertClient(t)
  PROVE  TableInv'
<1> DEFINE peer == arg[t].peer
<1>1. /\ pc[t] = "ws_insert" /\ pc' = [pc EXCEPT ![t] = "ws_welcome"]
      /\ arg' = arg
      /\ clients' = [p \in DOMAIN clients \cup {peer} |->
                       IF p = peer THEN {} ELSE clients[p]]
      /\ leaked' = leaked \ {peer}
      /\ reused' = IF ServedBy(peer) = {} THEN reused \ {peer}
                   ELSE reused \cup {peer}
  BY DEF InsertClient, Reached, Drop
<1>2. /\ pc \in [Tasks -> NodePoints] /\ DOMAIN arg = Tasks
      /\ arg[t].asked = {} /\ arg[t].lost = {}
      /\ DOMAIN arg[t] = {"peer", "channel", "event", "asked", "lost"}
  BY <1>1 DEF NodeGuards, LockInv, TableInv, SocketTyped, SocketPoints
<1>3. /\ pc'[t] = "ws_welcome" /\ Serving(t)' /\ ~Serving(t)
      /\ \A u \in Tasks \ {t} : pc'[u] = pc[u] /\ (Serving(u)' <=> Serving(u))
  BY <1>1, <1>2 DEF Serving
<1>4. \A u \in Tasks : SocketTyped(u)'
  BY <1>1, <1>2, <1>3 DEF TableInv, SocketTyped, SocketPoints
<1> HIDE DEF peer
<1>5. \A u \in Tasks \ {t} : Serving(u) /\ arg[u].peer = peer => peer \in reused'
  BY <1>1 DEF ServedBy
<1>6. \A p : p # peer => (p \in reused' <=> p \in reused)
  BY <1>1
<1>7. OneServed'
  <2>1. SUFFICES ASSUME NEW u \in Tasks, NEW v \in Tasks, u # v,
                        Serving(u)', Serving(v)', arg[u].peer = arg[v].peer
                 PROVE  arg[u].peer \in reused'
    BY <1>1 DEF OneServed
  <2>2. CASE arg[u].peer = peer
    <3>1. PICK w \in {u, v} : w # t
      BY <2>1
    <3>2. QED
      BY <1>3, <1>5, <2>1, <2>2, <3>1
  <2>3. CASE arg[u].peer # peer
    BY <1>3, <1>6, <2>1, <2>3 DEF peer, TableInv, OneServed
  <2>4. QED
    BY <2>2, <2>3
<1>8. ASSUME NEW p \in DOMAIN clients'
      PROVE  p \in leaked' \/ ServedBy(p)' # {}
  <2>1. CASE p = peer
    BY <1>1, <1>3, <2>1 DEF ServedBy, peer
  <2>2. CASE p # peer
    <3>1. p \in DOMAIN clients
      BY <1>1, <1>8, <2>2
    <3>2. CASE p \in leaked
      BY <1>1, <2>2, <3>2
    <3>3. CASE p \notin leaked
      <4>1. PICK u \in ServedBy(p) : TRUE
        BY <3>1, <3>3 DEF TableInv, TableTracksConnections
      <4>2. u \in Tasks \ {t} /\ Serving(u) /\ arg[u].peer = p
        BY <4>1, <1>3 DEF ServedBy
      <4>3. QED
        BY <1>1, <1>3, <4>2 DEF ServedBy
    <3>4. QED
      BY <3>2, <3>3
  <2>3. QED
    BY <2>1, <2>2
<1>9. ASSUME NEW u \in Tasks, Serving(u)', arg'[u].peer \notin reused'
      PROVE  /\ arg[u].peer \in DOMAIN clients'
             /\ clients'[arg[u].peer] = arg[u].asked \ arg[u].lost
  <2>1. CASE u = t
    BY <1>1, <1>2, <2>1 DEF peer
  <2>2. CASE u # t
    <3>1. Serving(u) /\ arg[u].peer # peer /\ arg[u].peer \notin reused
      BY <1>1, <1>3, <1>5, <1>6, <1>9, <2>2
    <3>2. /\ arg[u].peer \in DOMAIN clients
          /\ clients[arg[u].peer] = arg[u].asked \ arg[u].lost
      BY <3>1 DEF TableInv, TableTracksConnections, Listed
    <3>3. QED
      BY <1>1, <3>1, <3>2
  <2>3. QED
    BY <2>1, <2>2
<1>10. TableTracksConnections'
  BY <1>1, <1>8, <1>9 DEF TableTracksConnections, Listed
<1>11. QED
  BY <1>1, <1>2, <1>4, <1>7, <1>10 DEF TableInv

\* A connection ends.  If its peer is served by another one, the entry they
\* share may be gone; if it was the only one, whatever is left was leaked.
LEMMA EndKeepsTable ==
  ASSUME TableInv, NEW t \in Tasks, OthersWait(t), Serving(t), ~Serving(t)',
         pc'[t] = "idle", reused' = reused,
         NEW peer, peer = arg[t].peer,
         DOMAIN clients' \cup {peer} = DOMAIN clients \cup {peer},
         \A p \in DOMAIN clients \ {peer} : clients'[p] = clients[p],
         peer \in DOMAIN clients' => peer \in leaked',
         leaked \ {peer} \subseteq leaked'
  PROVE  TableInv'
<1>1. \A u \in Tasks : SocketTyped(u)'
  BY DEF TableInv, SocketTyped, OthersWait, SocketPoints
<1>2. \A u \in Tasks : Serving(u)' => u # t /\ Serving(u) /\ arg'[u] = arg[u]
  BY DEF OthersWait, Serving
<1>3. OneServed'
  BY <1>2 DEF TableInv, OneServed
<1>4. ASSUME NEW p \in DOMAIN clients'
      PROVE  p \in leaked' \/ ServedBy(p)' # {}
  <2>1. CASE p = peer
    BY <2>1
  <2>2. CASE p # peer
    <3>1. p \in leaked \/ ServedBy(p) # {}
      BY <2>2 DEF TableInv, TableTracksConnections
    <3>2. CASE p \in leaked
      BY <2>2, <3>2
    <3>3. CASE ServedBy(p) # {}
      <4>1. PICK u \in Tasks : Serving(u) /\ arg[u].peer = p
        BY <3>3 DEF ServedBy
      <4>2. u # t
        BY <2>2, <4>1
      <4>3. Serving(u)' /\ arg'[u].peer = p
        BY <4>1, <4>2 DEF OthersWait, Serving
      <4>4. QED
        BY <4>3 DEF ServedBy
    <3>4. QED
      BY <3>1, <3>2, <3>3
  <2>3. QED
    BY <2>1, <2>2
<1>5. ASSUME NEW u \in Tasks, Serving(u)', arg'[u].peer \notin reused'
      PROVE  /\ arg[u].peer \in DOMAIN clients'
             /\ clients'[arg[u].peer] = arg[u].asked \ arg[u].lost
  <2>1. u # t /\ Serving(u) /\ arg'[u] = arg[u] /\ arg[u].peer \notin reused
    BY <1>2, <1>5
  <2>2. arg[u].peer # peer
    BY <2>1 DEF TableInv, OneServed
  <2>3. /\ arg[u].peer \in DOMAIN clients
        /\ clients[arg[u].peer] = arg[u].asked \ arg[u].lost
    BY <2>1 DEF TableInv, TableTracksConnections, Listed
  <2>4. QED
    BY <2>2, <2>3
<1>6. TableTracksConnections'
  BY <1>2, <1>4, <1>5 DEF TableTracksConnections, Listed
<1>7. QED
  BY <1>1, <1>3, <1>6 DEF TableInv, OthersWait

LEMMA LeavesTable ==
  ASSUME NodeGuards, TableInv, NEW t \in Tasks,
         WelcomeFails(t) \/ RemoveClient(t)
  PROVE  TableInv'
<1>1. pc \in [Tasks -> NodePoints] /\ DOMAIN arg = Tasks
  BY DEF NodeGuards, LockInv, TableInv
<1>2. /\ pc[t] \in {"ws_welcome", "ws_remove"} /\ reused' = reused
      /\ pc' = [pc EXCEPT ![t] = "idle"] /\ arg' = [arg EXCEPT ![t] = None]
  BY DEF WelcomeFails, RemoveClient, Reached, Return
<1>3. OthersWait(t) /\ Serving(t) /\ ~Serving(t)' /\ pc'[t] = "idle"
  BY <1>1, <1>2 DEF OthersWait, Serving
<1>4. CASE WelcomeFails(t)
  <2>1. clients' = clients /\ leaked' = leaked \cup {arg[t].peer}
    BY <1>4 DEF WelcomeFails
  <2>2. QED
    BY <1>2, <1>3, <2>1, EndKeepsTable
<1>5. CASE RemoveClient(t)
  <2>1. /\ clients' = [p \in DOMAIN clients \ {arg[t].peer} |-> clients[p]]
        /\ leaked' = leaked \ {arg[t].peer}
    BY <1>5 DEF RemoveClient
  <2>2. QED
    BY <1>2, <1>3, <2>1, EndKeepsTable
<1>6. QED
  BY <1>4, <1>5

\* Whom a connection serves and what it asked for stays.
SameConnection(t) ==
  /\ OthersWait(t) /\ DOMAIN arg'[t] = DOMAIN arg[t]
  /\ arg'[t].peer = arg[t].peer
  /\ arg'[t].asked = arg[t].asked /\ arg'[t].lost = arg[t].lost

\* The steps of a connection that change nothing but its place, its request
\* or its event.
LEMMA LoopKeepsTable ==
  ASSUME NodeGuards, TableInv, NEW t \in Tasks, Serving(t), Serving(t)',
         NEW point, pc' = [pc EXCEPT ![t] = point],
         UNCHANGED <<clients, leaked, reused>>,
         \/ arg' = arg
         \/ \E channel :
              arg' = [arg EXCEPT ![t] = [arg[t] EXCEPT !.channel = channel]]
         \/ \E event :
              arg' = [arg EXCEPT ![t] = [arg[t] EXCEPT !.event = event]]
  PROVE  TableInv'
<1>1. /\ pc \in [Tasks -> NodePoints] /\ DOMAIN arg = Tasks
      /\ pc[t] \in SocketPoints /\ pc'[t] \in SocketPoints \ {"ws_insert"}
      /\ DOMAIN arg[t] = {"peer", "channel", "event", "asked", "lost"}
  BY DEF NodeGuards, LockInv, TableInv, SocketTyped, Serving, SocketPoints
<1>2. SameConnection(t)
  <2>1. CASE arg' = arg
    BY <1>1, <2>1 DEF OthersWait, SameConnection
  <2>2. ASSUME NEW channel,
               arg' = [arg EXCEPT ![t] = [arg[t] EXCEPT !.channel = channel]]
        PROVE  SameConnection(t)
    BY <1>1, <2>2 DEF OthersWait, SameConnection
  <2>3. ASSUME NEW event,
               arg' = [arg EXCEPT ![t] = [arg[t] EXCEPT !.event = event]]
        PROVE  SameConnection(t)
    BY <1>1, <2>3 DEF OthersWait, SameConnection
  <2>4. QED
    BY <2>1, <2>2, <2>3
<1>3. SocketTyped(t)'
  BY <1>1, <1>2 DEF SocketTyped, SameConnection
<1>4. arg[t].peer \notin reused =>
        clients[arg[t].peer] = arg[t].asked \ arg[t].lost
  BY DEF TableInv, TableTracksConnections
<1>5. QED
  BY <1>2, <1>3, <1>4, TableKept DEF SameConnection

\* A subscription that is added, refused or ignored.
LEMMA SubscribeKeepsTable ==
  ASSUME NodeGuards, TableInv, NEW t \in Tasks,
         SubscribeAdd(t) \/ SubscribeIgnored(t)
  PROVE  TableInv'
<1>1. /\ pc \in [Tasks -> NodePoints] /\ DOMAIN arg = Tasks
      /\ pc[t] = "ws_subscribe" /\ Serving(t)
      /\ DOMAIN arg[t] = {"peer", "channel", "event", "asked", "lost"}
  BY DEF NodeGuards, LockInv, TableInv, SocketTyped, Serving, SocketPoints,
     SubscribeAdd, SubscribeIgnored, Reached
<1>2. arg[t].peer \notin reused =>
        Listed(t) /\ clients[arg[t].peer] = arg[t].asked \ arg[t].lost
  BY <1>1 DEF TableInv, TableTracksConnections
<1>3. CASE SubscribeAdd(t)
  <2>1. /\ pc' = [pc EXCEPT ![t] = "ws_answer"]
        /\ arg' = [arg EXCEPT ![t] =
             [arg[t] EXCEPT !.channel = None,
                            !.asked = @ \cup {arg[t].channel},
                            !.lost = @ \ {arg[t].channel}]]
        /\ clients' = [clients EXCEPT ![arg[t].peer] =
                                         @ \cup {arg[t].channel}]
        /\ arg[t].peer \in DOMAIN clients
        /\ UNCHANGED <<leaked, reused>>
    BY <1>3 DEF SubscribeAdd, Keep, Move, Listed
  <2>2. /\ pc'[t] = "ws_answer" /\ Serving(t)' /\ OthersWait(t)
        /\ DOMAIN arg'[t] = DOMAIN arg[t] /\ arg'[t].peer = arg[t].peer
        /\ arg'[t].asked = arg[t].asked \cup {arg[t].channel}
        /\ arg'[t].lost = arg[t].lost \ {arg[t].channel}
    BY <1>1, <2>1 DEF Serving, OthersWait
  <2>3. SocketTyped(t)'
    BY <1>1, <2>2 DEF SocketTyped
  <2>4. /\ DOMAIN clients' = DOMAIN clients
        /\ \A p \in DOMAIN clients \ {arg[t].peer} : clients'[p] = clients[p]
        /\ clients'[arg[t].peer] = clients[arg[t].peer] \cup {arg[t].channel}
    BY <2>1
  <2>5. QED
    BY <1>1, <1>2, <2>1, <2>2, <2>3, <2>4, TableKept
<1>4. CASE SubscribeIgnored(t)
  <2>1. /\ pc' = [pc EXCEPT ![t] = "ws_loop"]
        /\ arg' = [arg EXCEPT ![t] =
             [arg[t] EXCEPT !.channel = None,
                            !.asked = @ \cup {arg[t].channel}]]
        /\ Listed(t) => arg[t].channel \in clients[arg[t].peer]
        /\ UNCHANGED <<clients, leaked, reused>>
    BY <1>4 DEF SubscribeIgnored, Keep, Drop, Subscribed, socketData
  <2>2. /\ pc'[t] = "ws_loop" /\ Serving(t)' /\ OthersWait(t)
        /\ DOMAIN arg'[t] = DOMAIN arg[t] /\ arg'[t].peer = arg[t].peer
        /\ arg'[t].asked = arg[t].asked \cup {arg[t].channel}
        /\ arg'[t].lost = arg[t].lost
    BY <1>1, <2>1 DEF Serving, OthersWait
  <2>3. SocketTyped(t)'
    BY <1>1, <2>2 DEF SocketTyped
  <2>4. QED
    BY <1>1, <1>2, <2>1, <2>2, <2>3, TableKept
<1>5. QED
  BY <1>3, <1>4

\* One that is removed, with every address its own ends with.
LEMMA UnsubscribeKeepsTable ==
  ASSUME NodeGuards, TableInv, NEW t \in Tasks, UnsubscribeRemove(t)
  PROVE  TableInv'
<1> DEFINE gone == Removed(arg[t].channel)
           lost == (arg[t].lost \cup (arg[t].asked \cap Endings[arg[t].channel]))
                     \ {arg[t].channel}
<1>1. /\ pc \in [Tasks -> NodePoints] /\ DOMAIN arg = Tasks
      /\ pc[t] = "ws_unsubscribe" /\ Serving(t)
      /\ DOMAIN arg[t] = {"peer", "channel", "event", "asked", "lost"}
  BY DEF NodeGuards, LockInv, TableInv, SocketTyped, Serving, SocketPoints,
     UnsubscribeRemove, Reached
<1>2. arg[t].peer \notin reused =>
        Listed(t) /\ clients[arg[t].peer] = arg[t].asked \ arg[t].lost
  BY <1>1 DEF TableInv, TableTracksConnections
<1>3. /\ pc' = [pc EXCEPT ![t] = "ws_loop"]
      /\ arg' = [arg EXCEPT ![t] =
           [arg[t] EXCEPT !.channel = None,
                          !.asked = @ \ {arg[t].channel},
                          !.lost = (@ \cup (arg[t].asked
                                       \cap Endings[arg[t].channel]))
                                     \ {arg[t].channel}]]
      /\ clients' = IF Listed(t)
                    THEN [clients EXCEPT ![arg[t].peer] = @ \ gone]
                    ELSE clients
      /\ UNCHANGED <<leaked, reused>>
  BY DEF UnsubscribeRemove, Keep, Drop
<1>4. /\ pc'[t] = "ws_loop" /\ Serving(t)' /\ OthersWait(t)
      /\ DOMAIN arg'[t] = DOMAIN arg[t] /\ arg'[t].peer = arg[t].peer
      /\ arg'[t].asked = arg[t].asked \ {arg[t].channel}
      /\ arg'[t].lost = lost
  BY <1>1, <1>3 DEF Serving, OthersWait
<1>5. SocketTyped(t)'
  BY <1>1, <1>4 DEF SocketTyped
<1>6. /\ DOMAIN clients' = DOMAIN clients
      /\ \A p \in DOMAIN clients \ {arg[t].peer} : clients'[p] = clients[p]
      /\ Listed(t) => clients'[arg[t].peer] = clients[arg[t].peer] \ gone
  BY <1>3 DEF Listed
<1>7. (arg[t].asked \ arg[t].lost) \ gone =
        (arg[t].asked \ {arg[t].channel}) \ lost
  BY DEF Removed
<1>8. QED
  BY <1>1, <1>2, <1>3, <1>4, <1>5, <1>6, <1>7, TableKept

\* Every step of a connection.
LEMMA SocketKeepsTable ==
  ASSUME NodeGuards, TableInv, NEW t \in Tasks, Connect(t) \/ Serve(t)
  PROVE  TableInv'
<1>1. pc \in [Tasks -> NodePoints] /\ DOMAIN arg = Tasks
  BY DEF NodeGuards, LockInv, TableInv
<1>2. CASE Connect(t)
  <2>1. PICK peer \in Peers : HandleConnection(t, peer)
    BY <1>2 DEF Connect
  <2>2. /\ pc[t] = "idle" /\ pc' = [pc EXCEPT ![t] = "ws_insert"]
        /\ arg' = [arg EXCEPT ![t] = [peer |-> peer, channel |-> None,
                                      event |-> None, asked |-> {},
                                      lost |-> {}]]
        /\ UNCHANGED <<clients, leaked, reused>>
    BY <2>1 DEF HandleConnection, Enter, socketData
  <2>3. /\ pc'[t] = "ws_insert" /\ OthersWait(t) /\ ~Serving(t) /\ ~Serving(t)'
        /\ arg'[t] = [peer |-> peer, channel |-> None, event |-> None,
                      asked |-> {}, lost |-> {}]
    BY <1>1, <2>2 DEF OthersWait, Serving
  <2>4. SocketTyped(t)'
    BY <2>3 DEF SocketTyped
  <2>5. QED
    BY <2>2, <2>3, <2>4, TableAway
<1>3. CASE InsertClient(t)
  BY <1>3, InsertKeepsTable
<1>4. CASE Welcome(t) \/ Answered(t) \/ EventSent(t) \/ EventFails(t)
           \/ Closed(t) \/ RemoveAsk(t)
  <2>1. PICK point \in {"ws_loop", "ws_over", "ws_remove"} :
          pc' = [pc EXCEPT ![t] = point]
    BY <1>4 DEF Welcome, Answered, EventSent, EventFails, Closed, RemoveAsk,
       Move, Drop, Await
  <2>2. Serving(t) /\ arg' = arg /\ UNCHANGED <<clients, leaked, reused>>
    BY <1>4 DEF Welcome, Answered, EventSent, EventFails, Closed, RemoveAsk,
       Serving, socketData
  <2>3. Serving(t)'
    BY <1>1, <2>1 DEF Serving
  <2>4. QED
    BY <2>1, <2>2, <2>3, LoopKeepsTable
<1>5. CASE \E channel \in Channels[t] :
             Subscribe(t, channel) \/ Unsubscribe(t, channel)
  <2>1. PICK channel \in Channels[t],
             point \in {"ws_subscribe", "ws_unsubscribe"} :
          Ask(t, channel, point)
    BY <1>5 DEF Subscribe, Unsubscribe
  <2>2. /\ pc[t] = "ws_loop" /\ pc' = [pc EXCEPT ![t] = point]
        /\ arg' = [arg EXCEPT ![t] = [arg[t] EXCEPT !.channel = channel]]
        /\ UNCHANGED <<clients, leaked, reused>>
    BY <2>1 DEF Ask, Keep, Await, socketData
  <2>3. Serving(t) /\ Serving(t)'
    BY <1>1, <2>1, <2>2 DEF Serving
  <2>4. QED
    BY <2>2, <2>3, LoopKeepsTable
<1>6. CASE EventSkipped(t) \/ EventSend(t)
  <2>1. PICK point \in {"ws_loop", "ws_send"} : pc' = [pc EXCEPT ![t] = point]
    BY <1>6 DEF EventSkipped, EventSend, Move, Drop
  <2>2. /\ pc[t] = "ws_event"
        /\ arg' = [arg EXCEPT ![t] = [arg[t] EXCEPT !.event = None]]
        /\ UNCHANGED <<clients, leaked, reused>>
    BY <1>6 DEF EventSkipped, EventSend, Reached, Keep, socketData
  <2>3. Serving(t) /\ Serving(t)'
    BY <1>1, <2>1, <2>2 DEF Serving
  <2>4. QED
    BY <2>1, <2>2, <2>3, LoopKeepsTable
<1>7. CASE EventReceived(t)
  <2>1. PICK event : event = queues[t].events[1]
    OBVIOUS
  <2>2. /\ pc[t] = "ws_loop" /\ pc' = [pc EXCEPT ![t] = "ws_event"]
        /\ arg' = [arg EXCEPT ![t] = [arg[t] EXCEPT !.event = event]]
        /\ UNCHANGED <<clients, leaked, reused>>
    BY <1>7, <2>1 DEF EventReceived, Keep, Await
  <2>3. Serving(t) /\ Serving(t)'
    BY <1>1, <2>2 DEF Serving
  <2>4. QED
    BY <2>2, <2>3, LoopKeepsTable
<1>8. CASE EventLagged(t)
  BY <1>8, TableIdle DEF EventLagged, taskVars
<1>9. QED
  BY <1>2, <1>3, <1>4, <1>5, <1>6, <1>7, <1>8, LeavesTable,
     SubscribeKeepsTable, UnsubscribeKeepsTable DEF Serve

\* A step of handle_rpc, of a task that serves no connection.
LEMMA RpcMoves ==
  ASSUME DOMAIN arg = Tasks, pc \in [Tasks -> NodePoints], NEW t \in Tasks,
         Rpc(t) \/ (t = Main /\ (ShutdownSave \/ ShutdownSaved))
  PROVE  /\ OthersWait(t)
         /\ pc[t] \in {"idle"} \cup RpcPoints
         /\ pc'[t] \in {"idle"} \cup RpcPoints
         /\ UNCHANGED <<clients, leaked, reused>>
<1>1. CASE RpcSubmitBlock(t) \/ (t = Main /\ ShutdownSave)
  BY <1>1 DEF RpcSubmitBlock, ShutdownSave, NodeCall, Enter, OthersWait,
     RpcPoints, socketData
<1>2. CASE \/ RpcRefuse(t) \/ RpcAccept(t) \/ SaveAsk(t)
           \/ t = Main /\ ShutdownSaved
  BY <1>2 DEF RpcRefuse, RpcAccept, SaveAsk, ShutdownSaved, Reached, Drop,
     Await, OthersWait, RpcPoints, socketData
<1>3. CASE RpcCredit(t)
  BY <1>3 DEF RpcCredit, Reached, Keep, OthersWait, RpcPoints, socketData
<1>4. CASE PutCount(t) \/ PutDifficulty(t) \/ PutBalances(t)
  BY <1>4 DEF PutCount, PutDifficulty, PutBalances, Stored, Reached, Move,
     Await, Drop, OthersWait, RpcPoints, socketData
<1>5. CASE SaveFails(t)
  BY <1>5 DEF SaveFails, Reached, Keep, Drop, OthersWait, RpcPoints, socketData
<1>6. CASE Respond(t)
  BY <1>6 DEF Respond, Return, OthersWait, RpcPoints
<1>7. QED
  BY <1>1, <1>2, <1>3, <1>4, <1>5, <1>6 DEF Rpc

LEMMA RpcKeepsTable ==
  ASSUME NodeGuards, TableInv, NEW t \in Tasks,
         Rpc(t) \/ (t = Main /\ (ShutdownSave \/ ShutdownSaved))
  PROVE  TableInv'
<1>1. pc \in [Tasks -> NodePoints] /\ DOMAIN arg = Tasks
  BY DEF NodeGuards, LockInv, TableInv
<1>2. /\ OthersWait(t) /\ UNCHANGED <<clients, leaked, reused>>
      /\ pc[t] \in {"idle"} \cup RpcPoints
      /\ pc'[t] \in {"idle"} \cup RpcPoints
  BY <1>1, RpcMoves
<1>3. ~Serving(t) /\ ~Serving(t)' /\ SocketTyped(t)'
  BY <1>2 DEF Serving, SocketTyped, RpcPoints, SocketPoints
<1>4. QED
  BY <1>2, <1>3, TableAway

\* Two tasks never serve one peer unless it came back too soon, so the entry
\* of a peer is written and removed by the connection that asked for it.
THEOREM TableInvHolds == NodeSpec => []TableInv
<1>1. NodeInit => TableInv
  <2>1. SUFFICES ASSUME NodeInit PROVE TableInv
    OBVIOUS
  <2>2. clients = << >> /\ \A t \in Tasks : pc[t] = "idle"
    BY <2>1 DEF NodeInit, NoCalls, NoConnections
  <2>3. DOMAIN arg = Tasks
    BY <2>1 DEF NodeInit, NoCalls
  <2>4. \A t \in Tasks : ~Serving(t) /\ SocketTyped(t)
    BY <2>2 DEF Serving, SocketTyped, SocketPoints
  <2>5. QED
    BY <2>2, <2>3, <2>4 DEF TableInv, OneServed, TableTracksConnections
<1>2. NodeGuards /\ TableInv /\ [NodeNext]_nodeVars => TableInv'
  <2>1. SUFFICES ASSUME NodeGuards, TableInv, [NodeNext]_nodeVars
                 PROVE  TableInv'
    OBVIOUS
  <2>2. CASE UNCHANGED nodeVars
    BY <2>1, <2>2, TableIdle DEF nodeVars, socketData, taskVars
  <2>3. CASE RequestShutdown \/ Start
    BY <2>1, <2>3, TableIdle DEF RequestShutdown, Start, socketData, taskVars
  <2>4. CASE ShutdownSave \/ ShutdownSaved
    BY <2>1, <2>4, RpcKeepsTable, NodeAssumption
  <2>5. CASE Ends
    <3>1. clients' = << >> /\ \A t \in Tasks : pc'[t] = "idle"
      BY <2>5 DEF Ends
    <3>2. DOMAIN arg' = Tasks
      BY <2>5 DEF Ends
    <3>3. \A t \in Tasks : ~Serving(t)' /\ SocketTyped(t)'
      BY <3>1 DEF Serving, SocketTyped, SocketPoints
    <3>4. QED
      BY <3>1, <3>2, <3>3 DEF TableInv, OneServed, TableTracksConnections
  <2>6. CASE \E t \in Tasks : Rpc(t)
    <3>1. PICK t \in Tasks : Rpc(t)
      BY <2>6
    <3>2. QED
      BY <2>1, <3>1, RpcKeepsTable
  <2>7. CASE \E t \in Tasks : Connect(t) \/ Serve(t)
    BY <2>1, <2>7, SocketKeepsTable
  <2>8. CASE \E event \in Others : Announce(event)
    BY <2>1, <2>8, TableIdle DEF Announce, taskVars
  <2>9. QED
    BY <2>1, <2>2, <2>3, <2>4, <2>5, <2>6, <2>7, <2>8
       DEF NodeNext, Process, Exit, Crash
<1>3. QED
  BY <1>1, <1>2, NodeLocksHeld, PTL DEF NodeSpec

\* The table has the entries of the peers that are served, and each holds
\* what its connection asked for, but for the two cases the property names.
THEOREM TableTracksConnectionsHolds == NodeSpec => []TableTracksConnections
<1>1. TableInv => TableTracksConnections
  BY DEF TableInv
<1>2. QED
  BY <1>1, TableInvHolds, PTL
=============================================================================
