---------------------------- MODULE StratumProofs ----------------------------
(***************************************************************************)
(* Theorems about the Stratum pool, for any number of connections, shares  *)
(* and sessions, and any chain of the node; and, in the last part, about   *)
(* the Stratum server, for any number of connections, addresses and hosts. *)
(***************************************************************************)
EXTENDS StratumPool, StratumServer, LockedTasksProofs, FiniteSetTheorems,
        SequenceTheorems

-----------------------------------------------------------------------------
(* The await points of the calls to the node.                              *)

\* A task between two calls has no guard and waits for none.
LEMMA IdleHoldsNothing ==
  /\ "idle" \in Points
  /\ \A l \in Locks : Wants["idle"][l] = "none"
  /\ HeldAt["idle"] = {}
BY DEF Points, Locks, Wants, Writes, Reads, HeldAt, Counting, Claiming, Syncing

GoesOn(from, got, to) == Moves(Locks, Points, Wants, HeldAt, from, got, to)
AsksFor(from, got, to, lock, mode) ==
  Asks(Locks, Points, Wants, HeldAt, from, got, to, lock, mode)
LetsGo(from, got, lock, to) ==
  Drops(Locks, Points, Wants, HeldAt, from, got, lock, to)

\* Sending a block: its height is read and unlocked, and nothing is locked
\* over the node's answers that was not locked before.
LEMMA SendTables ==
  ASSUME NEW at \in Sends
  PROVE  /\ LetsGo(at.height, {"work"}, "work", at.ask)
         /\ GoesOn(at.ask, {}, at.send)
         /\ GoesOn(at.send, {}, at.sync)
         /\ at.done # "idle" =>
              GoesOn(at.ask, {}, at.done) /\ GoesOn(at.send, {}, at.done)
<1> USE DEF LetsGo, GoesOn, Drops, Moves, Points, Locks, Wants, Writes, Reads,
            HeldAt, Counting, Claiming, Syncing
<1>1. CASE at = Claimed
  BY <1>1 DEF Claimed
<1>2. CASE at = Candidate
  BY <1>2 DEF Candidate
<1>3. QED
  BY <1>1, <1>2 DEF Sends

\* Asking for the block count: the work is locked when it is there.
LEMMA SyncTables ==
  ASSUME NEW at \in Syncs
  PROVE  /\ GoesOn(at.sync, {}, at.reply)
         /\ AsksFor(at.reply, {}, at.store, "work", "write")
         /\ at.done # "idle" => /\ GoesOn(at.sync, {}, at.done)
                                /\ LetsGo(at.store, {"work"}, "work", at.done)
<1> USE DEF LetsGo, GoesOn, AsksFor, Asks, Drops, Moves, Points, Locks, Wants,
            Writes, Reads, HeldAt, Counting, Claiming, Syncing
<1>1. CASE at = Claimed
  BY <1>1 DEF Claimed
<1>2. CASE at = Candidate
  BY <1>2 DEF Candidate
<1>3. CASE at = SyncOnly
  BY <1>3 DEF SyncOnly
<1>4. QED
  BY <1>1, <1>2, <1>3 DEF Syncs

-----------------------------------------------------------------------------
(* The locks.                                                              *)

PoolLocks == LockInv(Locks, Points, Wants, HeldAt)

\* Starting a request.
LEMMA BeginKeepsLocks ==
  ASSUME PoolLocks, NEW t \in Tasks, Begin(t) \/ Tick(t)
  PROVE  PoolLocks'
<1> USE DEF PoolLocks
<1>1. CASE Subscribe(t)
  <2>1. AsksFor("idle", {}, "reg_miners", "miners", "write")
    BY DEF AsksFor, Asks, Points, Locks, Wants, Writes, Reads, HeldAt,
       Counting, Claiming, Syncing
  <2>2. QED
    BY <1>1, <2>1, EnterKeepsLocks DEF Subscribe, Call, AsksFor
<1>2. CASE \E share \in Shares : Submit(t, share)
  <2>1. AsksFor("idle", {}, "sub_work", "work", "read")
    BY DEF AsksFor, Asks, Points, Locks, Wants, Writes, Reads, HeldAt,
       Counting, Claiming, Syncing
  <2>2. \E v : Enter(t, v, "sub_work", "work", "read")
    BY <1>2 DEF Submit, Call
  <2>3. QED
    BY <2>1, <2>2, EnterKeepsLocks DEF AsksFor
<1>3. CASE \E h \in PostedHeights : UpdateWork(t, h)
  <2>1. AsksFor("idle", {}, "post_work", "work", "write")
    BY DEF AsksFor, Asks, Points, Locks, Wants, Writes, Reads, HeldAt,
       Counting, Claiming, Syncing
  <2>2. \E v : Enter(t, v, "post_work", "work", "write")
    BY <1>3 DEF UpdateWork, Call
  <2>3. QED
    BY <2>1, <2>2, EnterKeepsLocks DEF AsksFor
<1>4. CASE GetPoolStats(t)
  <2>1. AsksFor("idle", {}, "stats_miners", "miners", "read")
    BY DEF AsksFor, Asks, Points, Locks, Wants, Writes, Reads, HeldAt,
       Counting, Claiming, Syncing
  <2>2. QED
    BY <1>4, <2>1, EnterKeepsLocks DEF GetPoolStats, Call, AsksFor
<1>5. CASE BeginSync(t)
  <2>1. GoesOn("idle", {}, "sync_sent")
    BY DEF GoesOn, Moves, Points, Locks, Wants, Writes, Reads, HeldAt,
       Counting, Claiming, Syncing
  <2>2. pc[t] = "idle" /\ Move(t, "sync_sent")
    BY <1>5 DEF BeginSync
  <2>3. QED
    BY <2>1, <2>2, MovesKeepsLocks DEF GoesOn
<1>6. CASE Authorize(t) \/ Close(t)
  BY <1>6, UntouchedLocks DEF Authorize, Close, taskVars
<1>7. QED
  BY <1>1, <1>2, <1>3, <1>4, <1>5, <1>6 DEF Begin, Tick, RunSpawned

\* Storing a height: the work is unlocked, and all else with it unless a
\* claimed block is still to be counted.
LEMMA StoreKeepsLocks ==
  ASSUME PoolLocks, NEW t \in Tasks, NEW at \in Syncs, SyncStore(t, at)
  PROVE  PoolLocks'
<1> USE DEF PoolLocks
<1>1. CASE at.done = "idle"
  BY <1>1, ReturnKeepsLocks, IdleHoldsNothing DEF SyncStore
<1>2. CASE at.done # "idle"
  <2>1. /\ pc[t] = at.store /\ Holds(locks["work"], t)
        /\ Drop(t, "work", at.done)
    BY <1>2 DEF SyncStore, Reached
  <2>2. LetsGo(at.store, {"work"}, "work", at.done)
    BY <1>2, SyncTables
  <2>3. QED
    BY <2>1, <2>2, DropsKeepsLocks DEF LetsGo
<1>3. QED
  BY <1>1, <1>2

\* Every segment has the guards it runs under and asks for the next lock,
\* drops one, goes on, or returns.
LEMMA ContinueKeepsLocks ==
  ASSUME PoolLocks, NEW t \in Tasks, Continue(t)
  PROVE  PoolLocks'
<1> USE DEF PoolLocks
<1>1. CASE SubmitCurrent(t)
  <2>1. LetsGo("sub_work", {"work"}, "work", "sub_current")
    BY DEF LetsGo, Drops, Points, Locks, Wants, Writes, Reads, HeldAt,
       Counting, Claiming, Syncing
  <2>2. /\ pc[t] = "sub_work" /\ Holds(locks["work"], t)
        /\ Drop(t, "work", "sub_current")
    BY <1>1 DEF SubmitCurrent, Reached
  <2>3. QED
    BY <2>1, <2>2, DropsKeepsLocks DEF LetsGo
<1>2. CASE SubmitBlock(t)
  <2>1. /\ AsksFor("sub_current", {}, "blk_work", "work", "read")
        /\ GoesOn("sub_current", {}, "sub_share")
    BY DEF AsksFor, Asks, GoesOn, Moves, Points, Locks, Wants, Writes, Reads,
       HeldAt, Counting, Claiming, Syncing
  <2>2. /\ pc[t] = "sub_current"
        /\ Await(t, "blk_work", "work", "read") \/ Move(t, "sub_share")
    BY <1>2 DEF SubmitBlock
  <2>3. QED
    BY <2>1, <2>2, AsksKeepsLocks, MovesKeepsLocks DEF AsksFor, GoesOn
<1>3. CASE SubmitShare(t)
  <2>1. /\ AsksFor("sub_current", {}, "shr_miners", "miners", "write")
        /\ AsksFor("sub_share", {}, "shr_miners", "miners", "write")
    BY DEF AsksFor, Asks, Points, Locks, Wants, Writes, Reads, HeldAt,
       Counting, Claiming, Syncing
  <2>2. /\ pc[t] = "sub_current" \/ pc[t] = "sub_share"
        /\ Await(t, "shr_miners", "miners", "write")
    BY <1>3 DEF SubmitShare
  <2>3. QED
    BY <2>1, <2>2, AsksKeepsLocks DEF AsksFor
<1>4. CASE ShareValid(t)
  <2>1. AsksFor("shr_miners", {"miners"}, "shr_valid", "valid", "write")
    BY DEF AsksFor, Asks, Points, Locks, Wants, Writes, Reads, HeldAt,
       Counting, Claiming, Syncing
  <2>2. /\ pc[t] = "shr_miners" /\ Holds(locks["miners"], t)
        /\ Await(t, "shr_valid", "valid", "write")
    BY <1>4 DEF ShareValid, Reached
  <2>3. QED
    BY <2>1, <2>2, AsksKeepsLocks DEF AsksFor
<1>5. CASE ShareTotal(t)
  <2>1. GoesOn("shr_valid", {"valid"}, "shr_candidate")
    BY DEF GoesOn, Moves, Points, Locks, Wants, Writes, Reads, HeldAt,
       Counting, Claiming, Syncing
  <2>2. /\ pc[t] = "shr_valid" /\ Holds(locks["valid"], t)
        /\ Move(t, "shr_candidate")
    BY <1>5 DEF ShareTotal, Reached
  <2>3. QED
    BY <2>1, <2>2, MovesKeepsLocks DEF GoesOn
<1>6. CASE \E at \in Sends : BlockHeight(t, at)
  <2>1. PICK at \in Sends : BlockHeight(t, at)
    BY <1>6
  <2>2. /\ pc[t] = at.height /\ Holds(locks["work"], t)
        /\ Drop(t, "work", at.ask)
    BY <2>1 DEF BlockHeight, Reached
  <2>3. LetsGo(at.height, {"work"}, "work", at.ask)
    BY SendTables
  <2>4. QED
    BY <2>2, <2>3, DropsKeepsLocks DEF LetsGo
<1>7. CASE \E at \in Syncs : SyncAsk(t, at) \/ SyncStore(t, at)
  <2>1. PICK at \in Syncs : SyncAsk(t, at) \/ SyncStore(t, at)
    BY <1>7
  <2>2. CASE SyncAsk(t, at)
    <3>1. pc[t] = at.reply /\ Await(t, at.store, "work", "write")
      BY <2>2 DEF SyncAsk
    <3>2. AsksFor(at.reply, {}, at.store, "work", "write")
      BY SyncTables
    <3>3. QED
      BY <3>1, <3>2, AsksKeepsLocks DEF AsksFor
  <2>3. QED
    BY <2>1, <2>2, StoreKeepsLocks
<1>8. CASE StatsMiners(t)
  <2>1. AsksFor("stats_miners", {"miners"}, "stats_shares", "shares", "read")
    BY DEF AsksFor, Asks, Points, Locks, Wants, Writes, Reads, HeldAt,
       Counting, Claiming, Syncing
  <2>2. /\ pc[t] = "stats_miners" /\ Holds(locks["miners"], t)
        /\ Await(t, "stats_shares", "shares", "read")
    BY <1>8 DEF StatsMiners, Reached
  <2>3. QED
    BY <2>1, <2>2, AsksKeepsLocks DEF AsksFor
<1>9. CASE StatsShares(t)
  <2>1. AsksFor("stats_shares", {"shares"}, "stats_valid", "valid", "read")
    BY DEF AsksFor, Asks, Points, Locks, Wants, Writes, Reads, HeldAt,
       Counting, Claiming, Syncing
  <2>2. /\ pc[t] = "stats_shares" /\ Holds(locks["shares"], t)
        /\ Await(t, "stats_valid", "valid", "read")
    BY <1>9 DEF StatsShares, Reached
  <2>3. QED
    BY <2>1, <2>2, AsksKeepsLocks DEF AsksFor
<1>10. CASE \/ RegisterMiner(t) \/ SubmitStale(t) \/ ShareInvalid(t)
            \/ UpdateStore(t) \/ StatsReport(t)
  BY <1>10, ReturnKeepsLocks, IdleHoldsNothing
     DEF RegisterMiner, SubmitStale, ShareInvalid, UpdateStore, StatsReport
<1>11. QED
  BY <1>1, <1>2, <1>3, <1>4, <1>5, <1>6, <1>7, <1>8, <1>9, <1>10 DEF Continue

\* What the node answers moves a task on with the guards it has.
LEMMA SettleKeepsLocks ==
  ASSUME PoolLocks, NEW t \in Tasks, Settle(t)
  PROVE  PoolLocks'
<1> USE DEF PoolLocks
<1>1. CASE ShareIsBlock(t)
  <2>1. AsksFor("shr_candidate", {}, "shr_work", "work", "read")
    BY DEF AsksFor, Asks, Points, Locks, Wants, Writes, Reads, HeldAt,
       Counting, Claiming, Syncing
  <2>2. pc[t] = "shr_candidate" /\ Await(t, "shr_work", "work", "read")
    BY <1>1 DEF ShareIsBlock
  <2>3. QED
    BY <2>1, <2>2, AsksKeepsLocks DEF AsksFor
<1>2. CASE ShareNoBlock(t) \/ ShareUnsendable(t)
  BY <1>2, ReturnKeepsLocks, IdleHoldsNothing DEF ShareNoBlock, ShareUnsendable
<1>3. ASSUME NEW at, NEW from, pc[t] = from, Finish(t, at),
             at.done # "idle" => GoesOn(from, {}, at.done)
      PROVE  PoolLocks'
  <2>1. CASE at.done = "idle"
    BY <1>3, <2>1, ReturnKeepsLocks, IdleHoldsNothing DEF Finish
  <2>2. CASE at.done # "idle"
    <3>1. Move(t, at.done)
      BY <1>3, <2>2 DEF Finish
    <3>2. QED
      BY <1>3, <2>2, <3>1, MovesKeepsLocks DEF GoesOn
  <2>3. QED
    BY <2>1, <2>2
<1>4. CASE \E at \in Sends : \/ SendBlock(t, at) \/ NoDifficulty(t, at)
                             \/ BlockFails(t, at) \/ BlockSent(t, at)
  <2>1. PICK at \in Sends : \/ SendBlock(t, at) \/ NoDifficulty(t, at)
                            \/ BlockFails(t, at) \/ BlockSent(t, at)
    BY <1>4
  <2>2. CASE SendBlock(t, at)
    <3>1. pc[t] = at.ask /\ Move(t, at.send)
      BY <2>2 DEF SendBlock
    <3>2. GoesOn(at.ask, {}, at.send)
      BY SendTables
    <3>3. QED
      BY <3>1, <3>2, MovesKeepsLocks DEF GoesOn
  <2>3. CASE BlockSent(t, at)
    <3>1. pc[t] = at.send /\ Move(t, at.sync)
      BY <2>3 DEF BlockSent
    <3>2. GoesOn(at.send, {}, at.sync)
      BY SendTables
    <3>3. QED
      BY <3>1, <3>2, MovesKeepsLocks DEF GoesOn
  <2>4. CASE NoDifficulty(t, at)
    BY <1>3, <2>4, SendTables DEF NoDifficulty
  <2>5. CASE BlockFails(t, at)
    BY <1>3, <2>5, SendTables DEF BlockFails
  <2>6. QED
    BY <2>1, <2>2, <2>3, <2>4, <2>5
<1>5. CASE \E at \in Syncs : SyncFails(t, at) \/ NodeReports(t, at)
  <2>1. PICK at \in Syncs : SyncFails(t, at) \/ NodeReports(t, at)
    BY <1>5
  <2>2. CASE SyncFails(t, at)
    BY <1>3, <2>2, SyncTables DEF SyncFails
  <2>3. CASE NodeReports(t, at)
    <3>1. pc[t] = at.sync /\ Move(t, at.reply)
      BY <2>3 DEF NodeReports
    <3>2. GoesOn(at.sync, {}, at.reply)
      BY SyncTables
    <3>3. QED
      BY <3>1, <3>2, MovesKeepsLocks DEF GoesOn
  <2>4. QED
    BY <2>1, <2>2, <2>3
<1>6. QED
  BY <1>1, <1>2, <1>4, <1>5 DEF Settle

\* Each task holds exactly the guards its place in the code implies: the
\* sessions and the total from the moment a valid share is counted until the
\* node has answered for its block.
THEOREM PoolLocksHeld == Spec => []PoolLocks
<1>1. Init => PoolLocks
  BY NoCallsKeepLocks, IdleHoldsNothing DEF Init, PoolLocks
<1>2. PoolLocks /\ [Next]_vars => PoolLocks'
  <2>1. CASE UNCHANGED vars
    BY <2>1, UntouchedLocks DEF vars, taskVars, PoolLocks
  <2>2. CASE \E t \in Tasks : Begin(t) \/ Tick(t) \/ Continue(t) \/ Settle(t)
    BY <2>2, BeginKeepsLocks, ContinueKeepsLocks, SettleKeepsLocks
  <2>3. CASE Node
    BY <2>3, UntouchedLocks DEF Node, ChainGrows, ChainShrinks, NodeTakes, taskVars,
       PoolLocks
  <2>4. QED
    BY <2>1, <2>2, <2>3 DEF Next
<1>3. QED
  BY <1>1, <1>2, PTL DEF Spec

-----------------------------------------------------------------------------
(* What the await points say of a task.                                    *)

\* What a task carries at each place.
LEMMA ArgKinds ==
  ASSUME NEW point
  PROVE  /\ point \in Submitting => ArgOf(point) = Job
         /\ point \in Syncing \cup {"post_work"} =>
              ArgOf(point) = [height : Nat]
         /\ point \in {"idle", "reg_miners", "stats_miners", "stats_shares",
                       "stats_valid"} => ArgOf(point) = {None}
BY DEF ArgOf, Submitting, Claiming, Counting, Syncing

\* A block is sent, and the block count asked for, with a share under way,
\* unless the count is all there is to it.
LEMMA SendPoints ==
  ASSUME NEW at \in Sends
  PROVE  /\ {at.height, at.ask, at.send, at.sync} \subseteq Submitting
         /\ at.height \notin Replying /\ at.ask \notin Replying
         /\ at.send \notin Replying /\ at.sync \notin Replying
         /\ at.ask # "post_work" /\ at.send # "post_work"
         /\ at.sync # "post_work"
         /\ at.done \in {"idle", "sub_share"}
<1> USE DEF Submitting, Claiming, Counting, Replying
<1>1. CASE at = Claimed
  BY <1>1 DEF Claimed
<1>2. CASE at = Candidate
  BY <1>2 DEF Candidate
<1>3. QED
  BY <1>1, <1>2 DEF Sends

LEMMA SyncPoints ==
  ASSUME NEW at \in Syncs
  PROVE  /\ \/ {at.sync, at.reply, at.store} \subseteq Submitting
            \/ /\ {at.sync, at.reply, at.store} \subseteq Syncing
               /\ at.done = "idle"
         /\ at.reply \in Replying /\ at.store \in Replying
         /\ at.sync \notin Replying
         /\ at.reply # "post_work" /\ at.store # "post_work"
         /\ at.done \in {"idle", "sub_share"}
<1> USE DEF Submitting, Claiming, Counting, Syncing, Replying
<1>1. CASE at = Claimed
  BY <1>1 DEF Claimed
<1>2. CASE at = Candidate
  BY <1>2 DEF Candidate
<1>3. CASE at = SyncOnly
  BY <1>3 DEF SyncOnly
<1>4. QED
  BY <1>1, <1>2, <1>3 DEF Syncs

\* No share is under way at the places that are not named so.
LEMMA OtherPoints ==
  /\ \A p \in Syncing \cup {"idle", "reg_miners", "post_work", "stats_miners",
                            "stats_shares", "stats_valid"} : p \notin Submitting
  /\ \A p \in {"sub_work", "sub_current", "sub_share", "blk_work",
               "shr_miners", "shr_valid", "shr_candidate", "shr_work"} :
       p \in Submitting /\ p \notin Replying /\ p # "post_work"
  /\ \A p \in {"idle", "reg_miners", "stats_miners", "stats_shares",
               "stats_valid", "sync_sent"} :
       p \notin Replying /\ p # "post_work"
  /\ "post_work" \notin Replying /\ "sync_sent" \in Syncing
BY DEF Submitting, Claiming, Counting, Syncing, Replying

-----------------------------------------------------------------------------
(* One step of a task, by what it does to the task: a call begins, a       *)
(* segment of it is run, or it returns.                                    *)

Step(t) == Begin(t) \/ Tick(t) \/ Continue(t) \/ Settle(t)

Shape == pc \in [Tasks -> Points] /\ DOMAIN arg = Tasks

\* One task moves at a time.
LEMMA OthersStay ==
  ASSUME Shape, NEW t \in Tasks, Step(t)
  PROVE  /\ DOMAIN arg' = Tasks
         /\ \A u \in Tasks \ {t} : pc'[u] = pc[u] /\ arg'[u] = arg[u]
<1> USE DEF Shape
<1>1. CASE Begin(t) \/ Tick(t)
  BY <1>1 DEF Begin, Tick, RunSpawned, BeginSync, Subscribe, Authorize, Close,
     Submit, UpdateWork, GetPoolStats, Call, Enter, Keep, Move, taskVars
<1>2. CASE Continue(t)
  <2>1. CASE \E at \in Sends : BlockHeight(t, at)
    BY <2>1 DEF BlockHeight, Keep, Drop
  <2>2. CASE \E at \in Syncs : SyncAsk(t, at) \/ SyncStore(t, at)
    BY <2>2 DEF SyncAsk, SyncStore, Await, Return, Drop
  <2>3. QED
    BY <1>2, <2>1, <2>2 DEF Continue, RegisterMiner, SubmitStale,
       SubmitCurrent, SubmitBlock, SubmitShare, ShareInvalid, ShareValid,
       ShareTotal, UpdateStore, StatsMiners, StatsShares, StatsReport,
       Await, Drop, Move, Return
<1>3. CASE Settle(t)
  <2>1. CASE \E at \in Sends : \/ SendBlock(t, at) \/ NoDifficulty(t, at)
                               \/ BlockFails(t, at) \/ BlockSent(t, at)
    BY <2>1 DEF SendBlock, NoDifficulty, BlockFails, BlockSent, Finish,
       Return, Move
  <2>2. CASE \E at \in Syncs : SyncFails(t, at) \/ NodeReports(t, at)
    BY <2>2 DEF SyncFails, NodeReports, Finish, Keep, Return, Move
  <2>3. QED
    BY <1>3, <2>1, <2>2 DEF Settle, ShareNoBlock, ShareUnsendable,
       ShareIsBlock, Await, Return
<1>4. QED
  BY <1>1, <1>2, <1>3 DEF Step

-----------------------------------------------------------------------------
(* Type correctness.                                                       *)

Conn == [miner_id : 0..Len(miners), is_authorized : BOOLEAN]

StateTyped ==
  /\ miners \in Seq(Session)
  /\ work \in Nat /\ totalValid \in Nat /\ spawned \in Nat /\ chain \in Nat
  /\ current \subseteq Tasks /\ workCurrent \in BOOLEAN
  /\ conn \in [Tasks -> Conn]

\* TypeOK without the locks.
Typed ==
  StateTyped /\ Shape /\ \A t \in Tasks : arg[t] \in ArgOf(pc[t])

LEMMA TypeOKParts == TypeOK <=> PoolLocks /\ Typed
BY DEF TypeOK, PoolLocks, Typed, StateTyped, Conn, Shape, LockInv

\* Writing a height into what a task carries keeps the rest.
LEMMA HeightKept ==
  ASSUME NEW kind \in {Job, [height : Nat]}, NEW x \in kind, NEW n \in Nat
  PROVE  /\ x.height \in Nat
         /\ [x EXCEPT !.height = n] \in kind
         /\ [x EXCEPT !.height = n].height = n
<1>1. CASE kind = Job
  <2>1. x \in [share : Shares, height : Nat]
    BY <1>1 DEF Job
  <2>2. x = [share |-> x.share, height |-> x.height]
        /\ x.share \in Shares /\ x.height \in Nat
    BY <2>1
  <2>3. [x EXCEPT !.height = n] = [share |-> x.share, height |-> n]
    BY <2>2
  <2>4. QED
    BY <1>1, <2>2, <2>3 DEF Job
<1>2. CASE kind = [height : Nat]
  <2>1. x \in [height : Nat]
    BY <1>2
  <2>2. x = [height |-> x.height] /\ x.height \in Nat
    BY <2>1
  <2>3. [x EXCEPT !.height = n] = [height |-> n]
    BY <2>2
  <2>4. QED
    BY <1>2, <2>2, <2>3
<1>3. QED
  BY <1>1, <1>2

\* A share under way has a height and a share of the instance.
LEMMA SyncKind ==
  ASSUME NEW at \in Syncs
  PROVE  /\ ArgOf(at.sync) \in {Job, [height : Nat]}
         /\ ArgOf(at.reply) = ArgOf(at.sync) /\ ArgOf(at.store) = ArgOf(at.sync)
         /\ at.done # "idle" => ArgOf(at.done) = ArgOf(at.sync)
<1>1. "sub_share" \in Submitting
  BY OtherPoints
<1>2. CASE {at.sync, at.reply, at.store} \subseteq Submitting
  BY <1>1, <1>2, SyncPoints, ArgKinds
<1>3. CASE /\ {at.sync, at.reply, at.store} \subseteq Syncing
           /\ at.done = "idle"
  BY <1>3, ArgKinds
<1>4. QED
  BY <1>2, <1>3, SyncPoints

\* Counting a share changes no other session and nothing but the counts.
LEMMA CountKeeps ==
  ASSUME StateTyped, NEW t \in Tasks, conn[t].miner_id # 0,
         NEW valid \in BOOLEAN, CountShare(t, valid)
  PROVE  /\ miners' \in Seq(Session) /\ Len(miners') = Len(miners)
         /\ conn[t].miner_id \in DOMAIN miners
         /\ \A i \in DOMAIN miners :
              /\ miners'[i].authorized = miners[i].authorized
              /\ i # conn[t].miner_id => miners'[i] = miners[i]
<1> DEFINE me == conn[t].miner_id
<1>1. me \in 1..Len(miners)
  <2>1. conn[t] \in Conn
    BY DEF StateTyped
  <2>2. conn[t].miner_id \in 0..Len(miners)
    BY <2>1 DEF Conn
  <2>3. QED
    BY <2>2 DEF StateTyped
<1>2. miners[me] \in Session
  BY <1>1 DEF StateTyped
<1>3. /\ Counted(miners[me], valid) \in Session
      /\ Counted(miners[me], valid).authorized = miners[me].authorized
  <2>1. /\ miners[me].shares + 1 \in Nat
        /\ miners[me].valid_shares + 1 \in Nat
        /\ miners[me].invalid_shares + 1 \in Nat
    BY <1>2 DEF Session
  <2>2. CASE valid
    BY <1>2, <2>1, <2>2 DEF Counted, Session
  <2>3. CASE ~valid
    BY <1>2, <2>1, <2>3 DEF Counted, Session
  <2>4. QED
    BY <2>2, <2>3
<1>4. miners' = [miners EXCEPT ![me] = Counted(miners[me], valid)]
  BY DEF CountShare
<1>5. QED
  BY <1>1, <1>3, <1>4 DEF StateTyped

\* Beginning a call or handling a request at once keeps the types.
LEMMA BeginTypes ==
  ASSUME Typed, ConnInv, NEW t \in Tasks, Begin(t) \/ Tick(t)
  PROVE  StateTyped' /\ arg'[t] \in ArgOf(pc'[t])
<1>a. /\ pc \in [Tasks -> Points] /\ DOMAIN arg = Tasks
      /\ StateTyped /\ arg[t] \in ArgOf(pc[t])
  BY DEF Typed, Shape
<1>b. conn[t] \in Conn /\ Len(miners) \in Nat
  BY <1>a DEF StateTyped
<1>1. CASE Subscribe(t) \/ GetPoolStats(t)
  <2>1. /\ UNCHANGED data /\ arg'[t] = None
        /\ pc'[t] \in {"reg_miners", "stats_miners"}
    BY <1>a, <1>1 DEF Subscribe, GetPoolStats, Call, Enter
  <2>2. QED
    BY <1>a, <2>1, ArgKinds DEF data, nodeVars, StateTyped, Conn
<1>2. CASE \E share \in Shares : Submit(t, share)
  <2>1. PICK share \in Shares : Submit(t, share)
    BY <1>2
  <2>2. /\ UNCHANGED data /\ pc'[t] = "sub_work"
        /\ arg'[t] = [share |-> share, height |-> 0]
    BY <1>a, <2>1 DEF Submit, Call, Enter
  <2>3. arg'[t] \in Job /\ ArgOf("sub_work") = Job
    BY <2>2, ArgKinds, OtherPoints DEF Job
  <2>4. QED
    BY <1>a, <2>2, <2>3 DEF data, nodeVars, StateTyped, Conn
<1>3. CASE \E h \in PostedHeights : UpdateWork(t, h)
  <2>1. PICK h \in PostedHeights : UpdateWork(t, h)
    BY <1>3
  <2>2. /\ UNCHANGED data /\ pc'[t] = "post_work"
        /\ arg'[t] = [height |-> h]
    BY <1>a, <2>1 DEF UpdateWork, Call, Enter
  <2>3. arg'[t] \in ArgOf("post_work")
    BY <2>2, ArgKinds, StratumAssumption
  <2>4. QED
    BY <1>a, <2>2, <2>3 DEF data, nodeVars, StateTyped, Conn
<1>4. CASE BeginSync(t) /\ (UNCHANGED spawned \/ RunSpawned(t))
  <2>1. /\ UNCHANGED <<miners, work, totalValid, conn, nodeVars>>
        /\ pc'[t] = "sync_sent" /\ arg'[t] = [height |-> 0]
        /\ UNCHANGED spawned \/ (spawned > 0 /\ spawned' = spawned - 1)
    BY <1>a, <1>4 DEF BeginSync, RunSpawned, Move, Keep
  <2>2. arg'[t] \in ArgOf("sync_sent")
    BY <2>1, ArgKinds, OtherPoints
  <2>3. spawned' \in Nat
    BY <1>a, <2>1 DEF StateTyped
  <2>4. QED
    BY <1>a, <2>1, <2>2, <2>3 DEF nodeVars, StateTyped, Conn
<1>5. CASE Authorize(t)
  <2>1. /\ UNCHANGED <<work, totalValid, spawned, nodeVars, pc, arg>>
        /\ conn' = [conn EXCEPT ![t].is_authorized = TRUE]
        /\ miners' = [miners EXCEPT ![conn[t].miner_id].authorized = TRUE]
        /\ conn[t].miner_id # 0
    BY <1>5 DEF Authorize, taskVars
  <2>2. conn[t].miner_id \in 1..Len(miners)
    BY <1>b, <2>1 DEF Conn
  <2>3. [miners[conn[t].miner_id] EXCEPT !.authorized = TRUE] \in Session
    <3>1. miners[conn[t].miner_id] \in Session
      BY <1>a, <2>2 DEF StateTyped
    <3>2. QED
      BY <3>1 DEF Session
  <2>4. miners' \in Seq(Session) /\ Len(miners') = Len(miners)
    BY <1>a, <2>1, <2>2, <2>3 DEF StateTyped
  <2>5. [conn[t] EXCEPT !.is_authorized = TRUE] \in Conn
    BY <1>b DEF Conn
  <2>6. conn' \in [Tasks -> Conn]
    BY <1>a, <2>1, <2>5 DEF StateTyped
  <2>7. QED
    BY <1>a, <2>1, <2>4, <2>6 DEF nodeVars, StateTyped, Conn
<1>6. CASE Close(t)
  <2>1. /\ UNCHANGED <<miners, work, totalValid, spawned, nodeVars, pc, arg>>
        /\ conn' = [conn EXCEPT ![t] = NotSubscribed]
    BY <1>6 DEF Close, taskVars
  <2>2. NotSubscribed \in Conn
    BY <1>b DEF NotSubscribed, Conn
  <2>3. conn' \in [Tasks -> Conn]
    BY <1>a, <2>1, <2>2 DEF StateTyped
  <2>4. QED
    BY <1>a, <2>1, <2>3 DEF nodeVars, StateTyped, Conn
<1>7. QED
  BY <1>1, <1>2, <1>3, <1>4, <1>5, <1>6 DEF Begin, Tick, RunSpawned

-----------------------------------------------------------------------------
(* What a segment does, in five kinds.                                     *)

\* The task returns, or goes on with what it carries to a place of the same
\* kind: none begins to carry a share or a height the node reported.
Follows(from, to) ==
  /\ ArgOf(to) = ArgOf(from)
  /\ to \in Submitting => from \in Submitting
  /\ to \in Replying => from \in Replying
  /\ to # "post_work"

Goes(t) ==
  \/ pc'[t] = "idle" /\ arg'[t] = None
  \/ arg'[t] = arg[t] /\ Follows(pc[t], pc'[t])

OneMore(n, m) == m = n \/ m = n + 1

\* No session, connection or height changes, and no answer is left behind.
Quiet(t) ==
  /\ UNCHANGED <<miners, work, conn, nodeVars>>
  /\ OneMore(totalValid, totalValid') /\ OneMore(spawned, spawned')
  /\ pc[t] \in Replying => pc'[t] \in Replying
  /\ Goes(t)

Counts(t) ==
  /\ pc[t] \in Submitting /\ pc[t] \notin Replying
  /\ \E valid \in BOOLEAN : CountShare(t, valid)
  /\ UNCHANGED <<work, totalValid, conn, spawned, nodeVars>>
  /\ Goes(t)

Stores(t) ==
  /\ \/ pc[t] \in Replying /\ work' = arg[t].height + 1 /\ Stored(t)
     \/ /\ pc[t] = "post_work" /\ work' = arg[t].height
        /\ workCurrent' = FALSE /\ current' = current
  /\ UNCHANGED <<miners, totalValid, conn, chain>>
  /\ OneMore(spawned, spawned')
  /\ Goes(t)

\* The height of the work or of the node's chain is taken along.
Carries(t, n) ==
  /\ UNCHANGED <<miners, work, totalValid, conn, spawned, chain, workCurrent>>
  /\ ArgOf(pc[t]) \in {Job, [height : Nat]}
  /\ arg'[t] = [arg[t] EXCEPT !.height = n]
  /\ ArgOf(pc'[t]) = ArgOf(pc[t])
  /\ pc'[t] \in Submitting => pc[t] \in Submitting
  /\ pc'[t] # "post_work"
  /\ pc[t] \notin Replying
  /\ \/ n = chain /\ pc'[t] \in Replying /\ current' = current \cup {t}
     \/ n = work /\ pc'[t] \notin Replying /\ current' = current

Kinds(t) == Quiet(t) \/ Counts(t) \/ Stores(t) \/ RegisterMiner(t)
            \/ Carries(t, chain) \/ Carries(t, work)

LEMMA ReturnGoes ==
  ASSUME Shape, NEW t \in Tasks, Return(t)
  PROVE  Goes(t)
BY DEF Return, Goes, Shape

\* Moving between two places of a share under way.
LEMMA ShareFollows ==
  ASSUME NEW from \in Submitting, NEW to \in Submitting,
         to \notin Replying, to # "post_work"
  PROVE  Follows(from, to)
BY ArgKinds DEF Follows

LEMMA DoneFollows ==
  /\ \A at \in Sends : at.done # "idle" =>
       Follows(at.ask, at.done) /\ Follows(at.send, at.done)
  /\ \A at \in Syncs : at.done # "idle" =>
       Follows(at.sync, at.done) /\ Follows(at.store, at.done)
  /\ \A at \in Syncs : Follows(at.reply, at.store)
<1>1. /\ "sub_share" \in Submitting /\ "sub_share" \notin Replying
      /\ "sub_share" # "post_work"
  BY OtherPoints
<1>2. \A at \in Sends : at.done # "idle" =>
        Follows(at.ask, at.done) /\ Follows(at.send, at.done)
  <2>1. TAKE at \in Sends
  <2>2. HAVE at.done # "idle"
  <2>3. at.done = "sub_share" /\ at.ask \in Submitting /\ at.send \in Submitting
    BY <2>2, SendPoints
  <2>4. QED
    BY <1>1, <2>3, ShareFollows
<1>3. \A at \in Syncs : at.done # "idle" =>
        Follows(at.sync, at.done) /\ Follows(at.store, at.done)
  <2>1. TAKE at \in Syncs
  <2>2. HAVE at.done # "idle"
  <2>3. at.done = "sub_share" /\ {at.sync, at.store} \subseteq Submitting
    BY <2>2, SyncPoints
  <2>4. QED
    BY <1>1, <2>3, ShareFollows
<1>4. \A at \in Syncs : Follows(at.reply, at.store)
  <2>1. TAKE at \in Syncs
  <2>2. /\ ArgOf(at.reply) = ArgOf(at.sync) /\ ArgOf(at.store) = ArgOf(at.sync)
        /\ at.reply \in Replying /\ at.store # "post_work"
        /\ at.store \in Submitting => at.reply \in Submitting
    <3>1. CASE {at.sync, at.reply, at.store} \subseteq Submitting
      BY <3>1, SyncKind, SyncPoints
    <3>2. CASE {at.sync, at.reply, at.store} \subseteq Syncing
      BY <3>2, SyncKind, SyncPoints, OtherPoints
    <3>3. QED
      BY <3>1, <3>2, SyncPoints
  <2>3. QED
    BY <2>2 DEF Follows
<1>5. QED
  BY <1>2, <1>3, <1>4

LEMMA FinishGoes ==
  ASSUME Shape, NEW t \in Tasks, NEW at, Finish(t, at),
         at.done # "idle" => Follows(pc[t], at.done)
  PROVE  Goes(t)
<1>1. CASE at.done = "idle"
  BY <1>1, ReturnGoes DEF Finish
<1>2. CASE at.done # "idle"
  <2>1. Move(t, at.done) /\ UNCHANGED arg
    BY <1>2 DEF Finish
  <2>2. pc'[t] = at.done /\ arg'[t] = arg[t]
    BY <2>1 DEF Move, Shape
  <2>3. QED
    BY <1>2, <2>2 DEF Goes
<1>3. QED
  BY <1>1, <1>2

\* The segments outside the calls to the node.
LEMMA RequestKinds ==
  ASSUME Shape, NEW t \in Tasks,
         \/ SubmitStale(t) \/ SubmitCurrent(t) \/ SubmitBlock(t)
         \/ SubmitShare(t) \/ ShareInvalid(t) \/ ShareValid(t)
         \/ ShareTotal(t) \/ UpdateStore(t) \/ StatsMiners(t)
         \/ StatsShares(t) \/ StatsReport(t) \/ ShareNoBlock(t)
         \/ ShareUnsendable(t) \/ ShareIsBlock(t)
  PROVE  Quiet(t) \/ Counts(t) \/ Stores(t)
<1>1. CASE \/ SubmitStale(t) \/ StatsReport(t) \/ ShareNoBlock(t)
           \/ ShareUnsendable(t)
  <2>1. /\ UNCHANGED data /\ Return(t)
        /\ pc[t] \in {"sub_work", "stats_valid", "shr_candidate"}
    BY <1>1 DEF SubmitStale, StatsReport, ShareNoBlock, ShareUnsendable,
       Reached
  <2>2. pc[t] \notin Replying
    BY <2>1, OtherPoints
  <2>3. QED
    BY <2>1, <2>2, ReturnGoes DEF data, Quiet, OneMore
<1>2. CASE \/ SubmitCurrent(t) \/ SubmitBlock(t) \/ SubmitShare(t)
           \/ ShareTotal(t) \/ ShareIsBlock(t)
  <2>1. /\ UNCHANGED <<miners, work, conn, spawned, nodeVars, arg>>
        /\ OneMore(totalValid, totalValid')
        /\ pc[t] \in {"sub_work", "sub_current", "sub_share", "shr_valid",
                      "shr_candidate"}
        /\ pc'[t] \in {"sub_current", "blk_work", "sub_share", "shr_miners",
                       "shr_candidate", "shr_work"}
    BY <1>2 DEF SubmitCurrent, SubmitBlock, SubmitShare, ShareTotal,
       ShareIsBlock, Reached, Drop, Await, Move, data, OneMore, Shape
  <2>2. Follows(pc[t], pc'[t]) /\ pc[t] \notin Replying
    BY <2>1, OtherPoints, ShareFollows
  <2>3. QED
    BY <2>1, <2>2 DEF Quiet, Goes, OneMore
<1>3. CASE StatsMiners(t) \/ StatsShares(t)
  <2>1. /\ UNCHANGED data /\ UNCHANGED arg
        /\ pc[t] \in {"stats_miners", "stats_shares"}
        /\ pc'[t] \in {"stats_shares", "stats_valid"}
    BY <1>3 DEF StatsMiners, StatsShares, Reached, Await, Shape
  <2>2. Follows(pc[t], pc'[t]) /\ pc[t] \notin Replying
    BY <2>1, ArgKinds, OtherPoints DEF Follows
  <2>3. QED
    BY <2>1, <2>2 DEF data, Quiet, Goes, OneMore
<1>4. CASE ShareInvalid(t)
  <2>1. pc[t] = "shr_miners" /\ CountShare(t, FALSE) /\ Return(t)
        /\ UNCHANGED <<work, totalValid, conn, spawned, nodeVars>>
    BY <1>4 DEF ShareInvalid, Reached
  <2>2. QED
    BY <2>1, OtherPoints, ReturnGoes DEF Counts
<1>5. CASE ShareValid(t)
  <2>1. /\ pc[t] = "shr_miners" /\ CountShare(t, TRUE)
        /\ pc'[t] = "shr_valid" /\ arg'[t] = arg[t]
        /\ UNCHANGED <<work, totalValid, conn, spawned, nodeVars>>
    BY <1>5 DEF ShareValid, Reached, Await, Shape
  <2>2. Follows("shr_miners", "shr_valid")
    BY OtherPoints, ShareFollows
  <2>3. QED
    BY <2>1, <2>2, OtherPoints DEF Counts, Goes
<1>6. CASE UpdateStore(t)
  <2>1. /\ pc[t] = "post_work" /\ work' = arg[t].height /\ Return(t)
        /\ workCurrent' = FALSE /\ current' = current
        /\ UNCHANGED <<miners, totalValid, conn, spawned, chain>>
    BY <1>6 DEF UpdateStore, Reached
  <2>2. QED
    BY <2>1, ReturnGoes DEF Stores, OneMore
<1>7. QED
  BY <1>1, <1>2, <1>3, <1>4, <1>5, <1>6

\* The segments of the calls to the node.
LEMMA NodeKinds ==
  ASSUME Shape, NEW t \in Tasks,
         \/ \E at \in Sends : \/ BlockHeight(t, at) \/ SendBlock(t, at)
                              \/ NoDifficulty(t, at) \/ BlockFails(t, at)
                              \/ BlockSent(t, at)
         \/ \E at \in Syncs : \/ SyncAsk(t, at) \/ SyncStore(t, at)
                              \/ SyncFails(t, at) \/ NodeReports(t, at)
  PROVE  Quiet(t) \/ Stores(t) \/ Carries(t, chain) \/ Carries(t, work)
<1>1. ASSUME NEW at \in Sends, BlockHeight(t, at)
      PROVE  Carries(t, work)
  <2>1. /\ UNCHANGED data /\ pc[t] = at.height /\ pc'[t] = at.ask
        /\ arg'[t] = [arg[t] EXCEPT !.height = work]
    BY <1>1 DEF BlockHeight, Reached, Keep, Drop, Shape
  <2>2. /\ at.height \in Submitting /\ at.ask \in Submitting
        /\ at.height \notin Replying /\ at.ask \notin Replying
    BY SendPoints
  <2>3. ArgOf(at.height) = Job /\ ArgOf(at.ask) = Job
    BY <2>2, ArgKinds
  <2>4. QED
    BY <2>1, <2>2, <2>3, SendPoints DEF Carries, data, nodeVars
<1>2. ASSUME NEW at \in Sends, SendBlock(t, at) \/ BlockSent(t, at)
      PROVE  Quiet(t)
  <2>1. /\ UNCHANGED data /\ UNCHANGED arg
        /\ \/ pc[t] = at.ask /\ pc'[t] = at.send
           \/ pc[t] = at.send /\ pc'[t] = at.sync
    BY <1>2 DEF SendBlock, BlockSent, Move, Shape
  <2>2. /\ Follows(at.ask, at.send) /\ Follows(at.send, at.sync)
        /\ at.ask \notin Replying /\ at.send \notin Replying
    BY SendPoints, ShareFollows
  <2>3. QED
    BY <2>1, <2>2 DEF data, Quiet, Goes, OneMore
<1>3. ASSUME NEW at \in Sends, NoDifficulty(t, at) \/ BlockFails(t, at)
      PROVE  Quiet(t)
  <2>1. /\ UNCHANGED data /\ Finish(t, at)
        /\ pc[t] = at.ask \/ pc[t] = at.send
    BY <1>3 DEF NoDifficulty, BlockFails
  <2>2. Goes(t) /\ pc[t] \notin Replying
    BY <2>1, DoneFollows, FinishGoes, SendPoints
  <2>3. QED
    BY <2>1, <2>2 DEF data, Quiet, OneMore
<1>4. ASSUME NEW at \in Syncs, SyncAsk(t, at)
      PROVE  Quiet(t)
  <2>1. /\ UNCHANGED data /\ UNCHANGED arg
        /\ pc[t] = at.reply /\ pc'[t] = at.store
    BY <1>4 DEF SyncAsk, Await, Shape
  <2>2. QED
    BY <2>1, DoneFollows, SyncPoints DEF data, Quiet, Goes, OneMore
<1>5. ASSUME NEW at \in Syncs, SyncStore(t, at)
      PROVE  Stores(t)
  <2>1. /\ pc[t] = at.store /\ work' = arg[t].height + 1 /\ Stored(t)
        /\ UNCHANGED <<miners, totalValid, conn, chain>>
        /\ OneMore(spawned, spawned')
    BY <1>5 DEF SyncStore, Reached, Spawned, OneMore
  <2>2. Goes(t)
    <3>1. CASE at.done = "idle"
      BY <1>5, <3>1, ReturnGoes DEF SyncStore
    <3>2. CASE at.done # "idle"
      <4>1. pc'[t] = at.done /\ arg'[t] = arg[t]
        BY <1>5, <3>2 DEF SyncStore, Drop, Shape
      <4>2. QED
        BY <2>1, <3>2, <4>1, DoneFollows DEF Goes
    <3>3. QED
      BY <3>1, <3>2
  <2>3. QED
    BY <2>1, <2>2, SyncPoints DEF Stores
<1>6. ASSUME NEW at \in Syncs, SyncFails(t, at)
      PROVE  Quiet(t)
  <2>1. /\ pc[t] = at.sync /\ Finish(t, at)
        /\ UNCHANGED <<miners, work, totalValid, conn, nodeVars>>
        /\ OneMore(spawned, spawned')
    BY <1>6 DEF SyncFails, Spawned, OneMore
  <2>2. Goes(t) /\ pc[t] \notin Replying
    BY <2>1, DoneFollows, FinishGoes, SyncPoints
  <2>3. QED
    BY <2>1, <2>2 DEF Quiet, OneMore
<1>7. ASSUME NEW at \in Syncs, NodeReports(t, at)
      PROVE  Carries(t, chain)
  <2>1. /\ pc[t] = at.sync /\ pc'[t] = at.reply
        /\ arg'[t] = [arg[t] EXCEPT !.height = chain]
        /\ current' = current \cup {t}
        /\ UNCHANGED <<miners, work, totalValid, conn, spawned, chain,
                       workCurrent>>
    BY <1>7 DEF NodeReports, Keep, Move, Shape
  <2>2. /\ at.reply \in Submitting => at.sync \in Submitting
        /\ at.sync \notin Replying
    BY SyncPoints, OtherPoints
  <2>3. QED
    BY <2>1, <2>2, SyncKind, SyncPoints DEF Carries
<1>8. QED
  BY <1>1, <1>2, <1>3, <1>4, <1>5, <1>6, <1>7

LEMMA StepKinds ==
  ASSUME Shape, NEW t \in Tasks, Continue(t) \/ Settle(t)
  PROVE  Kinds(t)
BY RequestKinds, NodeKinds DEF Continue, Settle, Kinds

-----------------------------------------------------------------------------
(* Type correctness of a step.                                             *)

LEMMA GoesTyped ==
  ASSUME NEW t \in Tasks, arg[t] \in ArgOf(pc[t]), Goes(t)
  PROVE  arg'[t] \in ArgOf(pc'[t])
BY ArgKinds DEF Goes, Follows

\* Every height that is stored is a number.
LEMMA HeightTyped ==
  ASSUME NEW t \in Tasks, arg[t] \in ArgOf(pc[t]),
         pc[t] \in Replying \cup {"post_work"}
  PROVE  arg[t].height \in Nat
<1>1. ArgOf(pc[t]) \in {Job, [height : Nat]}
  <2>1. CASE pc[t] \in Replying
    <3>1. pc[t] \in Submitting \cup Syncing
      BY <2>1 DEF Replying, Submitting, Claiming, Counting, Syncing
    <3>2. QED
      BY <3>1, ArgKinds
  <2>2. CASE pc[t] = "post_work"
    BY <2>2, ArgKinds
  <2>3. QED
    BY <2>1, <2>2
<1>2. QED
  BY <1>1, HeightKept, 0 \in Nat

LEMMA KindTypes ==
  ASSUME Typed, ConnInv, NEW t \in Tasks, Kinds(t)
  PROVE  StateTyped' /\ arg'[t] \in ArgOf(pc'[t])
<1>a. /\ pc \in [Tasks -> Points] /\ DOMAIN arg = Tasks
      /\ StateTyped /\ arg[t] \in ArgOf(pc[t])
  BY DEF Typed, Shape
<1>b. conn[t] \in Conn /\ Len(miners) \in Nat
  BY <1>a DEF StateTyped
<1>1. CASE Quiet(t)
  <2>1. totalValid' \in Nat /\ spawned' \in Nat
    BY <1>a, <1>1 DEF Quiet, OneMore, StateTyped
  <2>2. UNCHANGED <<miners, work, conn, nodeVars>> /\ Goes(t)
    BY <1>1 DEF Quiet
  <2>3. QED
    BY <1>a, <2>1, <2>2, GoesTyped DEF nodeVars, StateTyped, Conn
<1>2. CASE Counts(t)
  <2>1. /\ pc[t] \in Submitting /\ Goes(t)
        /\ UNCHANGED <<work, totalValid, conn, spawned, nodeVars>>
    BY <1>2 DEF Counts
  <2>2. PICK valid \in BOOLEAN : CountShare(t, valid)
    BY <1>2 DEF Counts
  <2>3. conn[t].miner_id # 0
    BY <2>1 DEF ConnInv
  <2>4. miners' \in Seq(Session) /\ Len(miners') = Len(miners)
    BY <1>a, <2>2, <2>3, CountKeeps
  <2>5. QED
    BY <1>a, <2>1, <2>4, GoesTyped DEF nodeVars, StateTyped, Conn
<1>3. CASE Stores(t)
  <2>1. /\ UNCHANGED <<miners, totalValid, conn, chain>> /\ Goes(t)
        /\ OneMore(spawned, spawned')
        /\ pc[t] \in Replying \cup {"post_work"}
        /\ work' = arg[t].height + 1 \/ work' = arg[t].height
    BY <1>3 DEF Stores
  <2>2. work' \in Nat /\ spawned' \in Nat
    BY <1>a, <2>1, HeightTyped DEF OneMore, StateTyped
  <2>3. current' \subseteq Tasks /\ workCurrent' \in BOOLEAN
    <3>1. CASE Stored(t)
      BY <1>a, <3>1 DEF Stored, StateTyped
    <3>2. CASE workCurrent' = FALSE /\ current' = current
      BY <1>a, <3>2 DEF StateTyped
    <3>3. QED
      BY <1>3, <3>1, <3>2 DEF Stores
  <2>4. QED
    BY <1>a, <2>1, <2>2, <2>3, GoesTyped DEF StateTyped, Conn
<1>4. CASE RegisterMiner(t)
  <2>1. /\ miners' = Append(miners, NewSession)
        /\ conn' = [conn EXCEPT ![t] = [miner_id |-> Len(miners) + 1,
                                        is_authorized |-> FALSE]]
        /\ UNCHANGED <<work, totalValid, spawned, nodeVars>>
        /\ pc'[t] = "idle" /\ arg'[t] = None
    BY <1>a, <1>4 DEF RegisterMiner, Return
  <2>2. NewSession \in Session
    BY DEF NewSession, Session
  <2>3. miners' \in Seq(Session) /\ Len(miners') = Len(miners) + 1
    BY <1>a, <2>1, <2>2 DEF StateTyped
  <2>4. 0..Len(miners) \subseteq 0..Len(miners') /\ Len(miners) + 1 \in 0..Len(miners')
    BY <1>b, <2>3
  <2>5. /\ Conn \subseteq Conn'
        /\ [miner_id |-> Len(miners) + 1, is_authorized |-> FALSE] \in Conn'
    <3>1. Conn' = [miner_id : 0..Len(miners'), is_authorized : BOOLEAN]
      BY DEF Conn
    <3>2. ASSUME NEW c \in Conn PROVE c \in Conn'
      <4>1. /\ c = [miner_id |-> c.miner_id, is_authorized |-> c.is_authorized]
            /\ c.miner_id \in 0..Len(miners) /\ c.is_authorized \in BOOLEAN
        BY <3>2 DEF Conn
      <4>2. c.miner_id \in 0..Len(miners')
        BY <2>4, <4>1
      <4>3. QED
        BY <3>1, <4>1, <4>2
    <3>3. QED
      BY <2>4, <3>1, <3>2
  <2>6. conn' \in [Tasks -> Conn']
    <3>1. conn \in [Tasks -> Conn']
      <4>1. conn \in [Tasks -> Conn]
        BY <1>a DEF StateTyped
      <4>2. Conn \subseteq Conn'
        BY <2>5
      <4>3. QED
        BY <4>1, <4>2
    <3> HIDE DEF Conn
    <3>2. QED
      BY <2>1, <2>5, <3>1
  <2>7. QED
    BY <1>a, <2>1, <2>3, <2>6, ArgKinds DEF nodeVars, StateTyped
<1>5. ASSUME NEW n \in Nat, Carries(t, n)
      PROVE  StateTyped' /\ arg'[t] \in ArgOf(pc'[t])
  <2>1. arg'[t] \in ArgOf(pc'[t])
    <3>1. /\ ArgOf(pc[t]) \in {Job, [height : Nat]}
          /\ arg'[t] = [arg[t] EXCEPT !.height = n]
          /\ ArgOf(pc'[t]) = ArgOf(pc[t])
      BY <1>5 DEF Carries
    <3>2. ASSUME NEW kind \in {Job, [height : Nat]}, NEW x \in kind
          PROVE  [x EXCEPT !.height = n] \in kind
      BY <3>2, HeightKept
    <3>3. [arg[t] EXCEPT !.height = n] \in ArgOf(pc[t])
      BY <1>a, <3>1, <3>2, Zenon
    <3>4. QED
      BY <3>1, <3>3
  <2>2. UNCHANGED <<miners, work, totalValid, conn, spawned, chain, workCurrent>>
        /\ current' \subseteq Tasks
    BY <1>a, <1>5 DEF Carries, StateTyped
  <2>3. QED
    BY <1>a, <2>1, <2>2 DEF StateTyped, Conn
<1>6. chain \in Nat /\ work \in Nat
  BY <1>a DEF StateTyped
<1>7. QED
  BY <1>1, <1>2, <1>3, <1>4, <1>5, <1>6 DEF Kinds

-----------------------------------------------------------------------------
(* Who is authorized.                                                      *)

\* A step that changes neither sessions nor connections, and brings no task
\* among those that submit.
LEMMA ConnKept ==
  ASSUME ConnInv, NEW t \in Tasks, UNCHANGED <<miners, conn>>,
         \A u \in Tasks \ {t} : pc'[u] = pc[u],
         pc'[t] \in Submitting => conn[t].is_authorized
  PROVE  ConnInv'
BY DEF ConnInv, AuthorizedOnly

LEMMA BeginConn ==
  ASSUME Typed, ConnInv, NEW t \in Tasks, Begin(t) \/ Tick(t),
         \A u \in Tasks \ {t} : pc'[u] = pc[u]
  PROVE  ConnInv'
<1>a. /\ pc \in [Tasks -> Points] /\ DOMAIN arg = Tasks /\ StateTyped
  BY DEF Typed, Shape
<1>b. conn[t] \in Conn /\ Len(miners) \in Nat
  BY <1>a DEF StateTyped
<1>1. CASE \/ Subscribe(t) \/ GetPoolStats(t)
           \/ \E h \in PostedHeights : UpdateWork(t, h)
  <2>1. /\ UNCHANGED <<miners, conn>>
        /\ pc'[t] \in {"reg_miners", "stats_miners", "post_work"}
    BY <1>a, <1>1 DEF Subscribe, GetPoolStats, UpdateWork, Call, Enter, data
  <2>2. QED
    BY <2>1, OtherPoints, ConnKept
<1>2. CASE \E share \in Shares : Submit(t, share)
  <2>1. UNCHANGED <<miners, conn>> /\ conn[t].is_authorized
    BY <1>2 DEF Submit, Call, data
  <2>2. QED
    BY <2>1, ConnKept
<1>3. CASE BeginSync(t)
  <2>1. UNCHANGED <<miners, conn>> /\ pc'[t] = "sync_sent"
    BY <1>a, <1>3 DEF BeginSync, Move
  <2>2. "sync_sent" \notin Submitting
    BY DEF Submitting, Claiming, Counting
  <2>3. QED
    BY <2>1, <2>2, ConnKept
<1>4. CASE Authorize(t)
  <2> DEFINE me == conn[t].miner_id
  <2>1. /\ pc' = pc /\ me # 0
        /\ conn' = [conn EXCEPT ![t].is_authorized = TRUE]
        /\ miners' = [miners EXCEPT ![me].authorized = TRUE]
    BY <1>4 DEF Authorize, taskVars
  <2>2. me \in 1..Len(miners)
    BY <1>b, <2>1 DEF Conn
  <2>3. miners[me] \in Session
    BY <1>a, <2>2 DEF StateTyped
  <2>4. /\ DOMAIN miners' = DOMAIN miners
        /\ miners'[me].authorized
        /\ \A i \in DOMAIN miners :
             /\ miners'[i].shares = miners[i].shares
             /\ miners[i].authorized => miners'[i].authorized
    <3> DEFINE authorized == [miners[me] EXCEPT !.authorized = TRUE]
    <3>1. authorized.authorized /\ authorized.shares = miners[me].shares
      BY <2>3 DEF Session
    <3>2. miners' = [miners EXCEPT ![me] = authorized]
      BY <2>1
    <3> HIDE DEF authorized
    <3>3. DOMAIN miners' = DOMAIN miners /\ me \in DOMAIN miners
      BY <1>a, <2>2, <3>2 DEF StateTyped
    <3>4. \A i \in DOMAIN miners :
            miners'[i] = IF i = me THEN authorized ELSE miners[i]
      BY <3>2, <3>3
    <3>5. QED
      BY <3>1, <3>3, <3>4
  <2>5. /\ conn'[t].is_authorized /\ conn'[t].miner_id = me
        /\ \A u \in Tasks \ {t} : conn'[u] = conn[u]
    BY <1>a, <1>b, <2>1 DEF nodeVars, StateTyped, Conn
  <2>6. \A u \in Tasks : conn[u] \in Conn
    BY <1>a DEF StateTyped
  <2>7. \A u \in Tasks \ {t} : conn[u].is_authorized =>
          conn[u].miner_id # 0 /\ miners'[conn[u].miner_id].authorized
    <3>1. TAKE u \in Tasks \ {t}
    <3>2. HAVE conn[u].is_authorized
    <3>3. conn[u].miner_id # 0 /\ miners[conn[u].miner_id].authorized
      BY <3>2 DEF ConnInv
    <3>4. conn[u].miner_id \in DOMAIN miners
      BY <1>a, <1>b, <2>6, <3>3 DEF Conn, StateTyped
    <3>5. QED
      BY <2>4, <3>3, <3>4
  <2>8. AuthorizedOnly'
    BY <2>4 DEF ConnInv, AuthorizedOnly
  <2>9. QED
    BY <2>1, <2>4, <2>5, <2>7, <2>8 DEF ConnInv
<1>5. CASE Close(t)
  <2>1. /\ pc' = pc /\ miners' = miners /\ pc[t] = "idle"
        /\ conn' = [conn EXCEPT ![t] = NotSubscribed]
    BY <1>5 DEF Close, taskVars
  <2>2. /\ ~conn'[t].is_authorized
        /\ \A u \in Tasks \ {t} : conn'[u] = conn[u]
    BY <1>a, <2>1 DEF StateTyped, NotSubscribed
  <2>3. "idle" \notin Submitting
    BY OtherPoints
  <2>4. QED
    BY <2>1, <2>2, <2>3 DEF ConnInv, AuthorizedOnly
<1>6. QED
  BY <1>1, <1>2, <1>3, <1>4, <1>5 DEF Begin, Tick, RunSpawned

LEMMA KindConn ==
  ASSUME Typed, ConnInv, NEW t \in Tasks, Kinds(t),
         \A u \in Tasks \ {t} : pc'[u] = pc[u]
  PROVE  ConnInv'
<1>a. /\ pc \in [Tasks -> Points] /\ DOMAIN arg = Tasks /\ StateTyped
  BY DEF Typed, Shape
<1>b. Len(miners) \in Nat /\ \A u \in Tasks : conn[u] \in Conn
  BY <1>a DEF StateTyped
<1>c. "idle" \notin Submitting
  BY OtherPoints
<1>1. ASSUME Goes(t) PROVE pc'[t] \in Submitting => pc[t] \in Submitting
  BY <1>1, <1>c DEF Goes, Follows
<1>2. CASE Quiet(t) \/ Stores(t)
  BY <1>1, <1>2, ConnKept DEF Quiet, Stores, ConnInv
<1>3. CASE Carries(t, chain) \/ Carries(t, work)
  BY <1>3, ConnKept DEF Carries, ConnInv
<1>4. CASE Counts(t)
  <2>1. /\ pc[t] \in Submitting /\ Goes(t) /\ conn' = conn
    BY <1>4 DEF Counts
  <2>2. PICK valid \in BOOLEAN : CountShare(t, valid)
    BY <1>4 DEF Counts
  <2>3. conn[t].miner_id # 0 /\ miners[conn[t].miner_id].authorized
    BY <2>1 DEF ConnInv
  <2>4. /\ miners' \in Seq(Session) /\ Len(miners') = Len(miners)
        /\ \A i \in DOMAIN miners :
             /\ miners'[i].authorized = miners[i].authorized
             /\ i # conn[t].miner_id => miners'[i] = miners[i]
    BY <1>a, <2>2, <2>3, CountKeeps
  <2>5. DOMAIN miners' = DOMAIN miners
    BY <1>a, <2>4 DEF StateTyped
  <2>6. AuthorizedOnly'
    BY <2>3, <2>4, <2>5 DEF ConnInv, AuthorizedOnly
  <2>7. \A u \in Tasks : conn[u].is_authorized =>
          conn[u].miner_id # 0 /\ miners'[conn[u].miner_id].authorized
    <3>1. TAKE u \in Tasks
    <3>2. HAVE conn[u].is_authorized
    <3>3. conn[u].miner_id # 0 /\ miners[conn[u].miner_id].authorized
      BY <3>2 DEF ConnInv
    <3>4. conn[u].miner_id \in DOMAIN miners
      BY <1>a, <1>b, <3>3 DEF Conn, StateTyped
    <3>5. QED
      BY <2>4, <3>3, <3>4
  <2>8. QED
    BY <1>1, <2>1, <2>6, <2>7 DEF ConnInv
<1>5. CASE RegisterMiner(t)
  <2>1. /\ miners' = Append(miners, NewSession)
        /\ conn' = [conn EXCEPT ![t] = [miner_id |-> Len(miners) + 1,
                                        is_authorized |-> FALSE]]
        /\ pc'[t] = "idle"
    BY <1>a, <1>5 DEF RegisterMiner, Return
  <2>2. /\ ~conn'[t].is_authorized
        /\ \A u \in Tasks \ {t} : conn'[u] = conn[u]
    BY <1>a, <2>1 DEF StateTyped
  <2>3. /\ DOMAIN miners' = 1..(Len(miners) + 1)
        /\ DOMAIN miners = 1..Len(miners)
        /\ \A i \in DOMAIN miners : miners'[i] = miners[i]
        /\ miners'[Len(miners) + 1] = NewSession
    BY <1>a, <2>1 DEF StateTyped
  <2>4. \A i \in DOMAIN miners' : i \in DOMAIN miners \/ i = Len(miners) + 1
    BY <1>b, <2>3
  <2>5. AuthorizedOnly'
    BY <2>3, <2>4 DEF ConnInv, AuthorizedOnly, NewSession
  <2>6. \A u \in Tasks \ {t} : conn[u].is_authorized =>
          conn[u].miner_id # 0 /\ miners'[conn[u].miner_id].authorized
    <3>1. TAKE u \in Tasks \ {t}
    <3>2. HAVE conn[u].is_authorized
    <3>3. conn[u].miner_id # 0 /\ miners[conn[u].miner_id].authorized
      BY <3>2 DEF ConnInv
    <3>4. conn[u].miner_id \in DOMAIN miners
      BY <1>b, <2>3, <3>3 DEF Conn
    <3>5. QED
      BY <2>3, <3>3, <3>4
  <2>7. QED
    BY <1>c, <2>1, <2>2, <2>5, <2>6 DEF ConnInv
<1>6. QED
  BY <1>2, <1>3, <1>4, <1>5 DEF Kinds

-----------------------------------------------------------------------------
(* The heights the node reported.                                          *)

\* A step that neither stores a height nor sets the chain back, after which
\* the task carries a height of the chain if it carries a current answer.
LEMMA HeightsKept ==
  ASSUME HeightInv, NEW t \in Tasks,
         UNCHANGED <<work, chain, workCurrent>>,
         current' \subseteq current \cup {t},
         \A u \in Tasks \ {t} : pc'[u] = pc[u] /\ arg'[u] = arg[u],
         t \in current' => pc'[t] \in Replying /\ arg'[t].height <= chain
  PROVE  HeightInv'
BY DEF HeightInv, WorkNotAhead

LEMMA BeginHeights ==
  ASSUME Typed, HeightInv, NEW t \in Tasks, Begin(t) \/ Tick(t),
         \A u \in Tasks \ {t} : pc'[u] = pc[u] /\ arg'[u] = arg[u]
  PROVE  HeightInv'
<1>1. UNCHANGED <<work, nodeVars>> /\ pc[t] = "idle"
  BY DEF Begin, Tick, RunSpawned, BeginSync, Subscribe, Authorize, Close,
     Submit, UpdateWork, GetPoolStats, Call, Enter, data
<1>2. t \notin current
  BY <1>1, OtherPoints DEF HeightInv
<1>3. QED
  BY <1>1, <1>2, HeightsKept DEF nodeVars

LEMMA KindHeights ==
  ASSUME Typed, HeightInv, NEW t \in Tasks, Kinds(t),
         \A u \in Tasks \ {t} : pc'[u] = pc[u] /\ arg'[u] = arg[u]
  PROVE  HeightInv'
<1>a. /\ pc \in [Tasks -> Points] /\ DOMAIN arg = Tasks /\ StateTyped
      /\ arg[t] \in ArgOf(pc[t])
  BY DEF Typed, Shape
<1>b. t \in current => pc[t] \in Replying /\ arg[t].height <= chain
  BY DEF HeightInv
<1>1. CASE Quiet(t)
  <2>1. /\ UNCHANGED <<work, nodeVars>> /\ Goes(t)
        /\ pc[t] \in Replying => pc'[t] \in Replying
    BY <1>1 DEF Quiet
  <2>2. pc'[t] \in Replying => arg'[t] = arg[t]
    BY <2>1, OtherPoints DEF Goes
  <2>3. QED
    BY <1>b, <2>1, <2>2, HeightsKept DEF nodeVars
<1>2. CASE Counts(t) \/ RegisterMiner(t)
  <2>1. UNCHANGED <<work, nodeVars>> /\ pc[t] \notin Replying
    BY <1>2, OtherPoints DEF Counts, RegisterMiner, Reached
  <2>2. QED
    BY <1>b, <2>1, HeightsKept DEF nodeVars
<1>3. CASE Carries(t, chain) \/ Carries(t, work)
  <2>1. PICK n \in {chain, work} : Carries(t, n)
    BY <1>3
  <2>2. /\ UNCHANGED <<work, chain, workCurrent>> /\ pc[t] \notin Replying
        /\ arg'[t] = [arg[t] EXCEPT !.height = n]
        /\ ArgOf(pc[t]) \in {Job, [height : Nat]}
        /\ \/ n = chain /\ pc'[t] \in Replying /\ current' = current \cup {t}
           \/ current' = current
    BY <2>1 DEF Carries
  <2>3. n \in Nat
    BY <1>a, <2>1 DEF StateTyped
  <2>4. [arg[t] EXCEPT !.height = n].height = n
    <3>1. ASSUME NEW kind \in {Job, [height : Nat]}, NEW x \in kind
          PROVE  [x EXCEPT !.height = n].height = n
      BY <2>3, <3>1, HeightKept
    <3>2. QED
      BY <1>a, <2>2, <3>1, Zenon
  <2>5. t \in current' => pc'[t] \in Replying /\ arg'[t].height = chain
    BY <1>b, <2>2, <2>4
  <2>6. chain <= chain
    BY <1>a DEF StateTyped
  <2>7. QED
    BY <2>2, <2>5, <2>6, HeightsKept
<1>4. CASE Stores(t)
  <2>1. /\ chain' = chain /\ current' \subseteq current /\ t \notin current'
    BY <1>4, <1>b, OtherPoints DEF Stores, Stored
  <2>2. workCurrent' => t \in current /\ work' = arg[t].height + 1
    BY <1>4 DEF Stores, Stored
  <2>3. chain \in Nat /\ (pc[t] \in Replying => arg[t].height \in Nat)
    BY <1>a, HeightTyped DEF StateTyped
  <2>4. WorkNotAhead'
    BY <1>b, <2>1, <2>2, <2>3 DEF WorkNotAhead
  <2>5. QED
    BY <2>1, <2>4 DEF HeightInv
<1>5. QED
  BY <1>1, <1>2, <1>3, <1>4 DEF Kinds

-----------------------------------------------------------------------------
LEMMA TypedAndInv == Spec => [](Typed /\ StratumInv)
<1>1. Init => Typed /\ StratumInv
  <2>1. SUFFICES ASSUME Init PROVE Typed /\ StratumInv
    OBVIOUS
  <2>2. /\ miners = << >> /\ work = 1 /\ totalValid = 0 /\ spawned = 0
        /\ chain = 0 /\ current = {} /\ workCurrent = TRUE
        /\ conn = [t \in Tasks |-> NotSubscribed]
        /\ pc = [t \in Tasks |-> "idle"] /\ arg = [t \in Tasks |-> None]
    BY <2>1 DEF Init, NoCalls
  <2>3. Len(miners) = 0 /\ miners \in Seq(Session) /\ DOMAIN miners = {}
    BY <2>2, EmptySeq
  <2>4. NotSubscribed \in Conn
    BY <2>3 DEF NotSubscribed, Conn
  <2>5. StateTyped
    BY <2>2, <2>3, <2>4 DEF StateTyped
  <2>6. Typed
    BY <2>2, <2>5, IdleHoldsNothing, ArgKinds DEF Typed, Shape
  <2>7. ConnInv
    BY <2>2, <2>3, OtherPoints DEF ConnInv, AuthorizedOnly, NotSubscribed
  <2>8. HeightInv
    BY <2>2 DEF HeightInv, WorkNotAhead
  <2>9. QED
    BY <2>6, <2>7, <2>8 DEF StratumInv
<1>2. /\ PoolLocks' /\ Typed /\ StratumInv /\ [Next]_vars
      => (Typed /\ StratumInv)'
  <2>1. SUFFICES ASSUME PoolLocks', Typed, StratumInv, [Next]_vars
                 PROVE  Typed' /\ StratumInv'
    OBVIOUS
  <2>2. /\ ConnInv /\ HeightInv /\ StateTyped /\ Shape
        /\ \A u \in Tasks : arg[u] \in ArgOf(pc[u])
        /\ pc' \in [Tasks -> Points]
    BY <2>1 DEF StratumInv, Typed, PoolLocks, LockInv
  <2>3. CASE UNCHANGED vars
    <3>1. UNCHANGED <<miners, work, totalValid, conn, spawned, nodeVars, pc, arg>>
      BY <2>3 DEF vars, data, nodeVars, taskVars
    <3>2. QED
      BY <2>1, <3>1 DEF nodeVars, Typed, StateTyped, Shape, Conn, ArgOf, StratumInv,
         ConnInv, AuthorizedOnly, HeightInv, WorkNotAhead
  <2>4. CASE Node
    <3>1. /\ UNCHANGED <<miners, work, totalValid, conn, spawned, pc, arg>>
          /\ \/ chain' = chain + 1 /\ UNCHANGED <<current, workCurrent>>
             \/ /\ chain > 0 /\ chain' = chain - 1
                /\ current' = {} /\ workCurrent' = FALSE
      BY <2>4 DEF Node, ChainGrows, ChainShrinks, NodeTakes, taskVars
    <3>2. chain \in Nat /\ work \in Nat
      BY <2>2 DEF StateTyped
    <3>3. StateTyped'
      <4>1. chain' \in Nat
        BY <3>1, <3>2
      <4>2. current' \subseteq Tasks /\ workCurrent' \in BOOLEAN
        <5>1. CASE UNCHANGED <<current, workCurrent>>
          BY <2>2, <5>1 DEF StateTyped
        <5>2. CASE current' = {} /\ workCurrent' = FALSE
          BY <5>2
        <5>3. QED
          BY <3>1, <5>1, <5>2
      <4>3. QED
        BY <2>2, <3>1, <4>1, <4>2 DEF StateTyped, Conn
    <3>4. Typed'
      BY <2>1, <3>1, <3>3 DEF Typed, Shape, ArgOf
    <3>5. ConnInv'
      BY <2>2, <3>1 DEF ConnInv, AuthorizedOnly
    <3>6. \A u \in Tasks : pc[u] \in Replying => arg[u].height \in Nat
      BY <2>2, HeightTyped
    <3>7. HeightInv'
      BY <2>2, <3>1, <3>2, <3>6 DEF HeightInv, WorkNotAhead
    <3>8. QED
      BY <3>4, <3>5, <3>7 DEF StratumInv
  <2>5. ASSUME NEW t \in Tasks, Step(t)
        PROVE  Typed' /\ StratumInv'
    <3>1. /\ DOMAIN arg' = Tasks
          /\ \A u \in Tasks \ {t} : pc'[u] = pc[u] /\ arg'[u] = arg[u]
      BY <2>2, <2>5, OthersStay
    <3>2. StateTyped' /\ arg'[t] \in ArgOf(pc'[t]) /\ ConnInv' /\ HeightInv'
      <4>1. CASE Begin(t) \/ Tick(t)
        BY <2>1, <2>2, <3>1, <4>1, BeginTypes, BeginConn, BeginHeights
      <4>2. CASE Continue(t) \/ Settle(t)
        <5>1. Kinds(t)
          BY <2>2, <4>2, StepKinds
        <5>2. QED
          BY <2>1, <2>2, <3>1, <5>1, KindTypes, KindConn, KindHeights
      <4>3. QED
        BY <2>5, <4>1, <4>2 DEF Step
    <3>3. \A u \in Tasks : arg'[u] \in ArgOf(pc'[u])
      BY <2>2, <3>1, <3>2
    <3>4. QED
      BY <2>2, <3>1, <3>2, <3>3 DEF Typed, Shape, StratumInv, ArgOf
  <2>6. QED
    BY <2>1, <2>3, <2>4, <2>5 DEF Next, Step
<1>3. QED
  BY <1>1, <1>2, PoolLocksHeld, PTL DEF Spec

\* Every reachable state is well typed: in particular the miner a connection
\* knows is always one of the sessions, none of which is ever removed.
THEOREM StratumTypeCorrect == Spec => []TypeOK
<1>1. PoolLocks /\ Typed => TypeOK
  BY DEF TypeOK, PoolLocks, Typed, StateTyped, Conn, Shape
<1>2. QED
  BY <1>1, PoolLocksHeld, TypedAndInv, PTL

\* What holds of the requests under way: whose share it is, and how old the
\* height they are about to store may be.
THEOREM StratumInvHolds == Spec => []StratumInv
BY TypedAndInv, PTL

\* Only sessions that were authorized have shares, however often a connection
\* subscribes again.
THEOREM AuthorizedOnlyHolds == Spec => []AuthorizedOnly
<1>1. StratumInv => AuthorizedOnly
  BY DEF StratumInv, ConnInv
<1>2. QED
  BY <1>1, StratumInvHolds, PTL

\* However late the node's answers are stored, and by whomever, work from an
\* answer given since the node last lost blocks is not ahead of its next block.
THEOREM WorkNotAheadHolds == Spec => []WorkNotAhead
<1>1. StratumInv => WorkNotAhead
  BY DEF StratumInv, HeightInv
<1>2. QED
  BY <1>1, StratumInvHolds, PTL

-----------------------------------------------------------------------------
(* Waiting for locks.                                                      *)

\* The miners come first, then the shares, the count of valid ones, the work.
Room ==
  [l \in Locks |-> IF l = "miners" THEN 3 ELSE IF l = "shares" THEN 2
                   ELSE IF l = "valid" THEN 1 ELSE 0]

\* Every request and the pool's own loops ask for their locks in that order.
LEMMA LocksInOrder ==
  \A point \in Points : InOrder(Locks, Wants, HeldAt, Room, point)
BY DEF InOrder, Points, Locks, Wants, Writes, Reads, HeldAt, Room,
   Counting, Claiming, Syncing

\* However many miners connect, share and sync at once, no requests wait for
\* each other in a circle.
THEOREM StratumPoolNeverLocksUp == Spec => []NoDeadlock
<1>1. PoolLocks => NoDeadlock
  <2>1. SUFFICES ASSUME PoolLocks, NEW D \in SUBSET Tasks, Stuck(D)
                 PROVE  FALSE
    BY DEF NoDeadlock, Deadlock
  <2>2. Room \in [Locks -> Nat]
    BY DEF Room
  <2>3. \A t \in D : pc[t] \in Points
    BY <2>1 DEF PoolLocks, LockInv
  <2>4. QED
    BY <2>1, <2>2, <2>3, LocksInOrder, CircleLeavesOrder DEF PoolLocks
<1>2. QED
  BY <1>1, PoolLocksHeld, PTL

-----------------------------------------------------------------------------
(* The shares add up.                                                      *)

\* The valid shares of the sessions are the total and the one that a task
\* that has counted it for its miner is about to add.
TallyInv ==
  /\ \A i \in DOMAIN miners :
       miners[i].shares = miners[i].valid_shares + miners[i].invalid_shares
  /\ (\A t \in Tasks : pc[t] # "shr_valid") => ValidShares(miners) = totalValid
  /\ \A t \in Tasks :
       pc[t] = "shr_valid" => ValidShares(miners) = totalValid + 1

\* A sum over the sessions is over finitely many counts.
LEMMA SessionsCounted ==
  ASSUME NEW sessions \in Seq(Session)
  PROVE  /\ IsFiniteSet(DOMAIN sessions)
         /\ \A i \in DOMAIN sessions : sessions[i].valid_shares \in Nat
         /\ ValidShares(sessions) \in Nat
<1>1. DOMAIN sessions = 1..Len(sessions) /\ Len(sessions) \in Nat
  OBVIOUS
<1>2. IsFiniteSet(DOMAIN sessions)
  BY <1>1, FS_Interval
<1>3. \A i \in DOMAIN sessions : sessions[i].valid_shares \in Nat
  <2>1. \A i \in DOMAIN sessions : sessions[i] \in Session
    OBVIOUS
  <2>2. QED
    BY <2>1 DEF Session
<1>4. ValidShares(sessions) \in Nat
  <2> DEFINE D == DOMAIN sessions
             valid == [i \in D |-> sessions[i].valid_shares]
  <2>1. \A i \in D : valid[i] \in Nat
    BY <1>3
  <2> HIDE DEF valid
  <2>2. SumFunctionOnSet(valid, D) \in Nat
    BY <1>2, <2>1, SumIsNat
  <2>3. QED
    BY <2>2 DEF ValidShares, valid
<1>5. QED
  BY <1>2, <1>3, <1>4

\* A new session has no shares.
LEMMA AppendTally ==
  ASSUME NEW sessions \in Seq(Session)
  PROVE  ValidShares(Append(sessions, NewSession)) = ValidShares(sessions)
<1> DEFINE more == Append(sessions, NewSession)
           D == DOMAIN sessions
           next == Len(sessions) + 1
           old == [i \in D |-> sessions[i].valid_shares]
           new == [i \in DOMAIN more |-> more[i].valid_shares]
<1>1. /\ IsFiniteSet(D) /\ next \notin D /\ DOMAIN more = D \cup {next}
      /\ \A i \in D : more[i] = sessions[i]
      /\ more[next] = NewSession
  BY SessionsCounted
<1>2. /\ \A i \in D : old[i] = new[i] /\ old[i] \in Nat
      /\ new[next] = 0
  BY <1>1, SessionsCounted DEF NewSession
<1>3. /\ ValidShares(sessions) = SumFunctionOnSet(old, D)
      /\ ValidShares(more) = SumFunctionOnSet(new, D \cup {next})
  BY <1>1 DEF ValidShares
<1> HIDE DEF D, next, old, new, more
<1>4. \A i \in D \cup {next} : new[i] \in Nat
  BY <1>2
<1>5. \A i \in D : old[i] = new[i]
  BY <1>2
<1>6. SumFunctionOnSet(new, D \cup {next}) = SumFunctionOnSet(old, D) + new[next]
  <2>1. IsFiniteSet(D) /\ next \notin D
    BY <1>1
  <2>2. QED
    BY <2>1, <1>4, <1>5, SumAdd, Zenon
<1>7. SumFunctionOnSet(old, D) \in Nat
  BY <1>3, SessionsCounted
<1>8. QED
  BY <1>2, <1>3, <1>6, <1>7 DEF more

\* Another session at one place changes the sum by what it has more.
LEMMA ReplaceTally ==
  ASSUME NEW sessions \in Seq(Session), NEW me \in DOMAIN sessions,
         NEW session \in Session
  PROVE  ValidShares([sessions EXCEPT ![me] = session])
             + sessions[me].valid_shares
           = ValidShares(sessions) + session.valid_shares
<1> DEFINE after == [sessions EXCEPT ![me] = session]
           D == DOMAIN sessions
           old == [i \in D |-> sessions[i].valid_shares]
           new == [i \in D |-> after[i].valid_shares]
<1>1. /\ IsFiniteSet(D) /\ DOMAIN after = D /\ after[me] = session
      /\ \A i \in D \ {me} : after[i] = sessions[i]
  BY SessionsCounted
<1>2. /\ \A i \in D : old[i] \in Nat
      /\ new[me] = session.valid_shares /\ new[me] \in Nat
      /\ old[me] = sessions[me].valid_shares
      /\ \A i \in D \ {me} : new[i] = old[i]
  BY <1>1, SessionsCounted DEF Session
<1>3. /\ ValidShares(sessions) = SumFunctionOnSet(old, D)
      /\ ValidShares(after) = SumFunctionOnSet(new, D)
  BY <1>1 DEF ValidShares
<1>4. me \in D
  OBVIOUS
<1> HIDE DEF D, old, new, after
<1>5. SumFunctionOnSet(new, D) + old[me] = SumFunctionOnSet(old, D) + new[me]
  BY <1>1, <1>2, <1>4, SumChange
<1>6. QED
  BY <1>2, <1>3, <1>5 DEF after

\* Nobody is about to add a share while another task has the sessions.
LEMMA OneTally ==
  ASSUME PoolLocks, NEW t \in Tasks, Holds(locks["miners"], t),
         Wants[pc[t]]["miners"] = "write"
  PROVE  \A u \in Tasks \ {t} : pc[u] # "shr_valid"
<1>1. SUFFICES ASSUME NEW u \in Tasks \ {t}, pc[u] = "shr_valid"
               PROVE  FALSE
  OBVIOUS
<1>2. "miners" \in HeldAt["shr_valid"] /\ "miners" \in Locks
  BY DEF HeldAt, Points, Locks, Counting
<1>3. Holds(locks["miners"], u)
  BY <1>1, <1>2 DEF PoolLocks, LockInv, LockDiscipline
<1>4. QED
  BY <1>1, <1>2, <1>3, OneHolder DEF PoolLocks

\* Counting a share counts it once, in one of the two ways.
LEMMA CountedSession ==
  ASSUME NEW s \in Session, NEW valid \in BOOLEAN
  PROVE  /\ Counted(s, valid) \in Session
         /\ Counted(s, valid).shares = s.shares + 1
         /\ Counted(s, valid).valid_shares =
              IF valid THEN s.valid_shares + 1 ELSE s.valid_shares
         /\ Counted(s, valid).invalid_shares =
              IF valid THEN s.invalid_shares ELSE s.invalid_shares + 1
<1>1. /\ s.shares + 1 \in Nat /\ s.valid_shares + 1 \in Nat
      /\ s.invalid_shares + 1 \in Nat /\ s.authorized \in BOOLEAN
      /\ s.shares \in Nat /\ s.valid_shares \in Nat /\ s.invalid_shares \in Nat
  BY DEF Session
<1>2. CASE valid
  BY <1>1, <1>2 DEF Counted, Session
<1>3. CASE ~valid
  BY <1>1, <1>3 DEF Counted, Session
<1>4. QED
  BY <1>2, <1>3

\* The sessions that keep their counts keep the tally.
LEMMA SameCounts ==
  ASSUME StateTyped, TallyInv, NEW me \in DOMAIN miners,
         NEW session \in Session,
         session.shares = miners[me].shares,
         session.valid_shares = miners[me].valid_shares,
         session.invalid_shares = miners[me].invalid_shares,
         miners' = [miners EXCEPT ![me] = session],
         UNCHANGED <<totalValid, pc>>
  PROVE  TallyInv'
<1>1. miners \in Seq(Session) /\ DOMAIN miners' = DOMAIN miners
  BY DEF StateTyped
<1>2. ValidShares(miners') = ValidShares(miners)
  <2>1. ValidShares(miners') + miners[me].valid_shares
          = ValidShares(miners) + session.valid_shares
    BY <1>1, ReplaceTally
  <2>2. miners' \in Seq(Session)
    BY <1>1
  <2>3. /\ ValidShares(miners) \in Nat /\ ValidShares(miners') \in Nat
        /\ miners[me].valid_shares \in Nat
    BY <1>1, <2>2, SessionsCounted
  <2>4. QED
    BY <2>1, <2>3
<1>3. \A i \in DOMAIN miners' : /\ miners'[i].shares = miners[i].shares
                                /\ miners'[i].valid_shares = miners[i].valid_shares
                                /\ miners'[i].invalid_shares = miners[i].invalid_shares
  BY <1>1
<1>4. \A i \in DOMAIN miners' :
        miners'[i].shares = miners'[i].valid_shares + miners'[i].invalid_shares
  BY <1>1, <1>3 DEF TallyInv
<1>5. totalValid' = totalValid /\ pc' = pc
  OBVIOUS
<1>6. QED
  BY <1>2, <1>4, <1>5 DEF TallyInv

\* A step of a task that counts nothing.
Idles(t) ==
  /\ UNCHANGED <<miners, totalValid>>
  /\ pc[t] # "shr_valid" /\ pc'[t] # "shr_valid"

\* Most steps do not touch the counts.
LEMMA MostIdle ==
  ASSUME Shape, NEW t \in Tasks, Step(t)
  PROVE  \/ Idles(t) \/ Authorize(t) \/ RegisterMiner(t)
         \/ ShareInvalid(t) \/ ShareValid(t) \/ ShareTotal(t)
<1> USE DEF Shape
<1>1. CASE Begin(t) \/ Tick(t)
  <2>1. CASE Subscribe(t) \/ GetPoolStats(t) \/ Close(t)
    BY <2>1 DEF Subscribe, GetPoolStats, Close, Call, Enter, data, taskVars, Idles
  <2>2. CASE \E share \in Shares : Submit(t, share)
    BY <2>2 DEF Submit, Call, Enter, data, Idles
  <2>3. CASE \E h \in PostedHeights : UpdateWork(t, h)
    BY <2>3 DEF UpdateWork, Call, Enter, data, Idles
  <2>4. CASE BeginSync(t)
    BY <2>4 DEF BeginSync, Move, Idles
  <2>5. QED
    BY <1>1, <2>1, <2>2, <2>3, <2>4 DEF Begin, Tick, RunSpawned
<1>2. CASE \E at \in Sends : \/ BlockHeight(t, at) \/ SendBlock(t, at)
                             \/ NoDifficulty(t, at) \/ BlockFails(t, at)
                             \/ BlockSent(t, at)
  <2>1. PICK at \in Sends : \/ BlockHeight(t, at) \/ SendBlock(t, at)
                            \/ NoDifficulty(t, at) \/ BlockFails(t, at)
                            \/ BlockSent(t, at)
    BY <1>2
  <2>2. /\ at.height # "shr_valid" /\ at.ask # "shr_valid"
        /\ at.send # "shr_valid" /\ at.sync # "shr_valid"
        /\ at.done # "shr_valid"
    BY DEF Sends, Claimed, Candidate
  <2>3. QED
    BY <2>1, <2>2 DEF BlockHeight, SendBlock, NoDifficulty, BlockFails, BlockSent,
       Finish, Return, Move, Drop, Reached, data, Idles
<1>3. CASE \E at \in Syncs : \/ SyncAsk(t, at) \/ SyncStore(t, at)
                             \/ SyncFails(t, at) \/ NodeReports(t, at)
  <2>1. PICK at \in Syncs : \/ SyncAsk(t, at) \/ SyncStore(t, at)
                            \/ SyncFails(t, at) \/ NodeReports(t, at)
    BY <1>3
  <2>2. /\ at.sync # "shr_valid" /\ at.reply # "shr_valid"
        /\ at.store # "shr_valid" /\ at.done # "shr_valid"
    BY DEF Syncs, Claimed, Candidate, SyncOnly
  <2>3. QED
    BY <2>1, <2>2 DEF SyncAsk, SyncStore, SyncFails, NodeReports,
       Finish, Return, Move, Drop, Await, Reached, data, Idles
<1>4. CASE \/ SubmitStale(t) \/ SubmitCurrent(t) \/ SubmitBlock(t)
           \/ SubmitShare(t) \/ UpdateStore(t)
           \/ StatsMiners(t) \/ StatsShares(t) \/ StatsReport(t)
           \/ ShareNoBlock(t) \/ ShareUnsendable(t) \/ ShareIsBlock(t)
  BY <1>4 DEF SubmitStale, SubmitCurrent, SubmitBlock, SubmitShare, UpdateStore,
     StatsMiners, StatsShares, StatsReport, ShareNoBlock, ShareUnsendable,
     ShareIsBlock, Return, Move, Drop, Await, Reached, data, Idles
<1>5. QED
  BY <1>1, <1>2, <1>3, <1>4 DEF Step, Continue, Settle

\* A share is counted for its miner and then in the total, and no step in
\* between belongs to another task that counts.
LEMMA StepKeepsTally ==
  ASSUME PoolLocks, Typed, ConnInv, TallyInv, NEW t \in Tasks, Step(t)
  PROVE  TallyInv'
<1>a. /\ Shape /\ StateTyped /\ miners \in Seq(Session) /\ totalValid \in Nat
      /\ conn[t] \in Conn
  BY DEF Typed, StateTyped
<1>b. \A u \in Tasks \ {t} : pc'[u] = pc[u]
  BY <1>a, OthersStay
<1>c. ASSUME pc[t] \in Submitting
      PROVE  /\ conn[t].miner_id \in DOMAIN miners
             /\ miners[conn[t].miner_id] \in Session
  <2>1. conn[t].miner_id # 0 /\ conn[t].miner_id \in 0..Len(miners)
    BY <1>a, <1>c DEF ConnInv, Conn
  <2>2. QED
    BY <1>a, <2>1
<1>1. CASE Idles(t)
  BY <1>b, <1>1 DEF Idles, TallyInv
<1>2. CASE Authorize(t)
  <2> DEFINE me == conn[t].miner_id
             session == [miners[me] EXCEPT !.authorized = TRUE]
  <2>1. /\ miners' = [miners EXCEPT ![me].authorized = TRUE] /\ me # 0
        /\ totalValid' = totalValid /\ pc' = pc
    BY <1>2 DEF Authorize, taskVars
  <2>2. me \in DOMAIN miners /\ miners[me] \in Session
    <3>1. me \in 0..Len(miners)
      BY <1>a DEF Conn
    <3>2. QED
      BY <1>a, <2>1, <3>1
  <2>3. /\ session \in Session /\ session.shares = miners[me].shares
        /\ session.valid_shares = miners[me].valid_shares
        /\ session.invalid_shares = miners[me].invalid_shares
    BY <2>2 DEF Session
  <2>4. miners' = [miners EXCEPT ![me] = session]
    BY <2>1
  <2> HIDE DEF me, session
  <2>5. QED
    BY <1>a, <2>1, <2>2, <2>3, <2>4, SameCounts
<1>3. CASE RegisterMiner(t)
  <2>1. /\ pc[t] = "reg_miners" /\ Holds(locks["miners"], t)
        /\ miners' = Append(miners, NewSession)
        /\ pc'[t] = "idle" /\ totalValid' = totalValid
    BY <1>a, <1>3 DEF RegisterMiner, Reached, Return, Shape
  <2>2. \A u \in Tasks \ {t} : pc[u] # "shr_valid"
    <3>1. Wants["reg_miners"]["miners"] = "write"
      BY DEF Wants, Writes, Points, Locks
    <3>2. QED
      BY <2>1, <3>1, OneTally
  <2>3. ValidShares(miners') = totalValid
    BY <1>a, <2>1, <2>2, AppendTally DEF TallyInv
  <2>4. \A i \in DOMAIN miners' :
          miners'[i].shares = miners'[i].valid_shares + miners'[i].invalid_shares
    <3>1. \A i \in DOMAIN miners' :
            \/ i \in DOMAIN miners /\ miners'[i] = miners[i]
            \/ miners'[i] = NewSession
      BY <1>a, <2>1
    <3>2. QED
      BY <3>1 DEF TallyInv, NewSession
  <2>5. \A u \in Tasks : pc'[u] # "shr_valid"
    BY <1>b, <2>1, <2>2
  <2>6. QED
    BY <2>1, <2>3, <2>4, <2>5 DEF TallyInv
<1>4. CASE ShareInvalid(t) \/ ShareValid(t)
  <2> DEFINE me == conn[t].miner_id
  <2>1. /\ pc[t] = "shr_miners" /\ Holds(locks["miners"], t)
        /\ totalValid' = totalValid
    BY <1>4 DEF ShareInvalid, ShareValid, Reached
  <2>2. PICK valid \in BOOLEAN :
          /\ CountShare(t, valid)
          /\ pc'[t] = IF valid THEN "shr_valid" ELSE "idle"
    BY <1>a, <1>4 DEF ShareInvalid, ShareValid, Await, Return, Shape
  <2>3. \A u \in Tasks \ {t} : pc[u] # "shr_valid"
    <3>1. Wants["shr_miners"]["miners"] = "write"
      BY DEF Wants, Writes, Points, Locks
    <3>2. QED
      BY <2>1, <3>1, OneTally
  <2>4. me \in DOMAIN miners /\ miners[me] \in Session
    BY <1>c, <2>1, OtherPoints
  <2> DEFINE session == Counted(miners[me], valid)
  <2>5. /\ session \in Session
        /\ session.shares = miners[me].shares + 1
        /\ session.valid_shares = IF valid THEN miners[me].valid_shares + 1
                                  ELSE miners[me].valid_shares
        /\ session.invalid_shares = IF valid THEN miners[me].invalid_shares
                                    ELSE miners[me].invalid_shares + 1
    BY <2>4, CountedSession
  <2>6. miners' = [miners EXCEPT ![me] = session]
    BY <2>2 DEF CountShare
  <2> HIDE DEF me, session
  <2>7. ValidShares(miners') = IF valid THEN totalValid + 1 ELSE totalValid
    <3>1. ValidShares(miners') + miners[me].valid_shares
            = ValidShares(miners) + session.valid_shares
      BY <1>a, <2>4, <2>5, <2>6, ReplaceTally
    <3>2. miners' \in Seq(Session)
      BY <1>a, <2>4, <2>5, <2>6
    <3>3. /\ ValidShares(miners) \in Nat /\ ValidShares(miners') \in Nat
          /\ miners[me].valid_shares \in Nat
      BY <1>a, <2>4, <3>2, SessionsCounted
    <3>4. ValidShares(miners) = totalValid
      BY <2>1, <2>3 DEF TallyInv
    <3>5. QED
      BY <1>a, <2>5, <3>1, <3>3, <3>4
  <2>8. \A i \in DOMAIN miners' :
          miners'[i].shares = miners'[i].valid_shares + miners'[i].invalid_shares
    <3>1. session.shares = session.valid_shares + session.invalid_shares
      <4>1. /\ miners[me].valid_shares \in Nat /\ miners[me].invalid_shares \in Nat
            /\ miners[me].shares = miners[me].valid_shares + miners[me].invalid_shares
        BY <2>4 DEF TallyInv, Session
      <4>2. QED
        BY <2>5, <4>1
    <3>2. \A i \in DOMAIN miners' : /\ i \in DOMAIN miners
                                    /\ i # me => miners'[i] = miners[i]
                                    /\ i = me => miners'[i] = session
      BY <2>4, <2>6
    <3>3. QED
      BY <3>1, <3>2 DEF TallyInv
  <2>9. \A u \in Tasks : pc'[u] = "shr_valid" <=> u = t /\ valid
    BY <1>b, <2>2, <2>3
  <2>10. QED
    BY <2>1, <2>7, <2>8, <2>9 DEF TallyInv
<1>5. CASE ShareTotal(t)
  <2>1. /\ pc[t] = "shr_valid" /\ totalValid' = totalValid + 1
        /\ miners' = miners /\ pc'[t] = "shr_candidate"
    BY <1>a, <1>5 DEF ShareTotal, Reached, Move, Shape
  <2>2. \A u \in Tasks \ {t} : pc[u] # "shr_valid"
    <3>1. /\ "miners" \in HeldAt["shr_valid"] /\ "miners" \in Locks
          /\ Wants["shr_valid"]["miners"] = "write"
      BY DEF HeldAt, Points, Locks, Counting, Wants, Writes
    <3>2. Holds(locks["miners"], t)
      BY <2>1, <3>1 DEF PoolLocks, LockInv, LockDiscipline
    <3>3. QED
      BY <2>1, <3>1, <3>2, OneTally
  <2>3. ValidShares(miners) = totalValid'
    BY <2>1 DEF TallyInv
  <2>4. \A u \in Tasks : pc'[u] # "shr_valid"
    BY <1>b, <2>1, <2>2
  <2>5. QED
    BY <2>1, <2>3, <2>4 DEF TallyInv
<1>6. QED
  BY <1>a, <1>1, <1>2, <1>3, <1>4, <1>5, MostIdle

\* That one share is always the whole difference between sessions and total.
THEOREM TallyInvHolds == Spec => []TallyInv
<1>1. Init => TallyInv
  <2>1. SUFFICES ASSUME Init PROVE TallyInv
    OBVIOUS
  <2>2. /\ miners = << >> /\ totalValid = 0 /\ DOMAIN << >> = {}
        /\ \A t \in Tasks : pc[t] = "idle"
    BY <2>1 DEF Init, NoCalls
  <2>3. ValidShares(miners) = 0
    BY <2>2, SumUnfolds, FS_EmptySet DEF ValidShares
  <2>4. QED
    BY <2>2, <2>3 DEF TallyInv
<1>2. PoolLocks /\ Typed /\ ConnInv /\ TallyInv /\ [Next]_vars => TallyInv'
  <2>1. SUFFICES ASSUME PoolLocks, Typed, ConnInv, TallyInv, [Next]_vars
                 PROVE  TallyInv'
    OBVIOUS
  <2>2. CASE UNCHANGED vars \/ Node
    BY <2>1, <2>2 DEF Node, ChainGrows, ChainShrinks, NodeTakes, vars, data,
       taskVars, TallyInv
  <2>3. CASE \E t \in Tasks : Begin(t) \/ Tick(t) \/ Continue(t) \/ Settle(t)
    BY <2>1, <2>3, StepKeepsTally DEF Step
  <2>4. QED
    BY <2>1, <2>2, <2>3 DEF Next
<1>3. TypeOK /\ StratumInv => Typed /\ ConnInv
  BY TypeOKParts DEF StratumInv
<1>4. QED
  BY <1>1, <1>2, <1>3, PoolLocksHeld, StratumTypeCorrect, StratumInvHolds, PTL
     DEF Spec

\* Whoever can read the sessions finds that their valid shares add up to the
\* total, and each session's shares to its valid and invalid ones.
THEOREM SharesAddUpHolds == Spec => []SharesAddUp
<1>1. PoolLocks /\ TallyInv => SharesAddUp
  <2>1. SUFFICES ASSUME PoolLocks, TallyInv, ~WriteHeld(locks["miners"]),
                        NEW t \in Tasks, pc[t] = "shr_valid"
                 PROVE  FALSE
    BY DEF SharesAddUp, TallyInv
  <2>2. /\ "miners" \in HeldAt["shr_valid"] /\ "miners" \in Locks
        /\ Wants["shr_valid"]["miners"] = "write"
    BY DEF HeldAt, Points, Locks, Counting, Wants, Writes
  <2>3. HoldsWrite(locks["miners"], t) /\ t \in DOMAIN locks["miners"]
    BY <2>1, <2>2 DEF PoolLocks, LockInv, LockDiscipline, HoldsWrite, WellFormed
  <2>4. QED
    BY <2>1, <2>3 DEF WriteHeld
<1>2. QED
  BY <1>1, PoolLocksHeld, TallyInvHolds, PTL
-----------------------------------------------------------------------------
(* The plain Stratum server: its connections and its table.                *)

\* Each connection that is served has an id of its own, one it was let in
\* with, and so has every client of the table.
ServerTypes ==
  /\ DOMAIN pc = Tasks /\ DOMAIN arg = Tasks
  /\ accepted \in Nat /\ unlisted \in Nat
  /\ DOMAIN clients \subseteq 1..accepted
  /\ \A h \in Live : arg[h] \in [id : 1..accepted, messages : Nat]

OwnIds == \A g, h \in Live : Id(g) = Id(h) => g = h

\* Between the count and the new task there is room for the connection that
\* was counted: nobody else lets one in, and those who enter the table
\* meanwhile were already served.
RoomKept ==
  pc[Acceptor] = "acc_room" =>
    ClientCount + Cardinality(Unlisted) < MaxClients + unlisted

ServerInv == ServerTypes /\ OwnIds /\ ClientsBounded /\ RoomKept

LEMMA ServerSets ==
  ASSUME ServerTypes
  PROVE  /\ IsFiniteSet(Live) /\ IsFiniteSet(Unlisted)
         /\ IsFiniteSet(DOMAIN clients)
         /\ ClientCount \in Nat /\ Cardinality(Unlisted) \in Nat
         /\ Unlisted \subseteq Live /\ Live \subseteq Handlers
         /\ Handlers \subseteq Tasks /\ MaxClients \in Nat
         /\ Acceptor \in Tasks /\ Acceptor \notin Handlers
<1>1. Live \subseteq Tasks /\ Unlisted \subseteq Live
  BY DEF Live, Unlisted, Handlers
<1>2. IsFiniteSet(Live)
  BY <1>1, TasksAssumption, FS_Subset
<1>3. IsFiniteSet(Unlisted)
  BY <1>1, <1>2, FS_Subset
<1>4. IsFiniteSet(DOMAIN clients)
  <2>1. IsFiniteSet(1..accepted)
    BY FS_Interval DEF ServerTypes
  <2>2. QED
    BY <2>1, FS_Subset DEF ServerTypes
<1>5. QED
  BY <1>1, <1>2, <1>3, <1>4, FS_CardinalityType, ServerAssumption
     DEF ClientCount, Live, Handlers

\* What a step must leave alone to keep the invariant.
LEMMA ServerQuiet ==
  ASSUME ServerInv, UNCHANGED <<accepted, unlisted, abandoned>>,
         DOMAIN clients' = DOMAIN clients, Live' = Live,
         DOMAIN pc' = Tasks, DOMAIN arg' = Tasks,
         \A h \in Live : /\ arg'[h] \in [id : 1..accepted, messages : Nat]
                         /\ arg'[h].id = arg[h].id,
         pc'[Acceptor] = "acc_room" => pc[Acceptor] = "acc_room"
  PROVE  ServerInv'
<1>1. \A h \in Live : Id(h)' = Id(h)
  BY DEF Id
<1>2. /\ Unlisted' = Unlisted
      /\ {Id(h) : h \in Live}' = {Id(h) : h \in Live}
  BY <1>1 DEF Unlisted, Id
<1>3. ClientCount' = ClientCount
  BY DEF ClientCount
<1>4. ServerTypes' /\ OwnIds'
  BY <1>1 DEF ServerInv, ServerTypes, OwnIds
<1>5. ClientsBounded' /\ RoomKept'
  BY <1>2, <1>3 DEF ServerInv, ClientsBounded, RoomKept
<1>6. QED
  BY <1>4, <1>5 DEF ServerInv

\* The acceptor and the owner of the server move no connection.
LEMMA ServerOutside ==
  ASSUME ServerInv, NEW t \in {Acceptor, Owner}, NEW point,
         pc' = [pc EXCEPT ![t] = point], point # "acc_room",
         DOMAIN arg' = Tasks, \A h \in Handlers : arg'[h] = arg[h],
         UNCHANGED <<clients, accepted, unlisted, abandoned>>
  PROVE  ServerInv'
<1>1. t \notin Handlers /\ t \in Tasks
  BY ServerAssumption DEF Handlers
<1>2. \A h \in Handlers : pc'[h] = pc[h]
  BY <1>1 DEF ServerInv, ServerTypes, Handlers
<1>3. Live' = Live /\ Live \subseteq Handlers
  BY <1>2 DEF Live
<1>4. /\ DOMAIN pc' = Tasks /\ DOMAIN arg' = Tasks
      /\ pc'[Acceptor] = "acc_room" => pc[Acceptor] = "acc_room"
  BY ServerAssumption DEF ServerInv, ServerTypes
<1>5. \A h \in Live : arg'[h] \in [id : 1..accepted, messages : Nat]
  BY <1>2, <1>3 DEF ServerInv, ServerTypes
<1>6. QED
  BY <1>2, <1>3, <1>4, <1>5, ServerQuiet

\* A connection that goes on being served, and keeps its id.
LEMMA ServerServed ==
  ASSUME ServerInv, NEW h \in Handlers, pc[h] # "idle",
         DOMAIN pc' = Tasks, pc'[h] # "idle",
         \A g \in Tasks \ {h} : pc'[g] = pc[g],
         \/ arg' = arg
         \/ \E n \in Nat : arg' = [arg EXCEPT ![h] = [arg[h] EXCEPT !.messages = n]],
         UNCHANGED <<accepted, unlisted, abandoned>>,
         DOMAIN clients' = DOMAIN clients
  PROVE  ServerInv'
<1>1. h \in Live /\ h \in Tasks /\ h # Acceptor
  BY DEF Live, Handlers
<1>2. /\ DOMAIN pc' = Tasks /\ DOMAIN arg' = Tasks
      /\ Live' = Live /\ Live \subseteq Tasks
      /\ pc'[Acceptor] = pc[Acceptor]
  BY <1>1, ServerAssumption DEF ServerInv, ServerTypes, Live, Handlers
<1>3. \A g \in Live : /\ arg'[g] \in [id : 1..accepted, messages : Nat]
                      /\ arg'[g].id = arg[g].id
  <2>1. arg[h] \in [id : 1..accepted, messages : Nat] /\ DOMAIN arg = Tasks
    BY <1>1 DEF ServerInv, ServerTypes
  <2>2. CASE arg' = arg
    BY <2>2 DEF ServerInv, ServerTypes
  <2>3. CASE \E n \in Nat : arg' = [arg EXCEPT ![h] = [arg[h] EXCEPT !.messages = n]]
    <3>1. PICK n \in Nat : arg' = [arg EXCEPT ![h] = [arg[h] EXCEPT !.messages = n]]
      BY <2>3
    <3>2. /\ arg'[h] = [arg[h] EXCEPT !.messages = n]
          /\ \A g \in Tasks \ {h} : arg'[g] = arg[g]
      BY <1>1, <2>1, <3>1
    <3>3. /\ arg'[h] \in [id : 1..accepted, messages : Nat]
          /\ arg'[h].id = arg[h].id
      BY <2>1, <3>2
    <3>4. QED
      BY <1>2, <3>2, <3>3 DEF ServerInv, ServerTypes
  <2>4. QED
    BY <2>2, <2>3
<1>4. QED
  BY <1>2, <1>3, ServerQuiet

\* The table is counted and unlocked, and what it lacks is taken down.
LEMMA ServerCounts ==
  ASSUME ServerInv, AcceptRoom PROVE ServerInv'
<1>1. /\ unlisted' = Cardinality(Unlisted)
      /\ UNCHANGED <<clients, accepted, abandoned, arg>>
      /\ pc' = [pc EXCEPT ![Acceptor] = "acc_room"]
      /\ ClientCount < MaxClients
  BY DEF AcceptRoom, RoomLeft, Drop
<1>2. /\ Live' = Live /\ DOMAIN pc' = Tasks
  BY <1>1, ServerSets DEF ServerInv, ServerTypes, Live
<1>3. /\ Unlisted' = Unlisted /\ ClientCount' = ClientCount
      /\ {Id(h) : h \in Live}' = {Id(h) : h \in Live}
  BY <1>1, <1>2 DEF Unlisted, ClientCount, Id
<1>4. ServerTypes' /\ OwnIds'
  BY <1>1, <1>2, ServerSets DEF ServerInv, ServerTypes, OwnIds, Id
<1>5. ClientCount + Cardinality(Unlisted) < MaxClients + Cardinality(Unlisted)
  BY <1>1, ServerSets DEF ServerInv
<1>6. ClientsBounded' /\ RoomKept'
  BY <1>1, <1>3, <1>5, ServerSets DEF ServerInv, ClientsBounded, RoomKept
<1>7. QED
  BY <1>4, <1>6 DEF ServerInv

\* One more connection is served; it uses up the room that was kept for it.
LEMMA ServerSpawns ==
  ASSUME ServerInv, NEW h \in Handlers, AcceptSpawn(h) PROVE ServerInv'
<1>1. /\ pc[Acceptor] = "acc_room" /\ pc[h] = "idle"
      /\ accepted' = accepted + 1
      /\ pc' = [pc EXCEPT ![Acceptor] = "idle", ![h] = "greeting"]
      /\ arg' = [arg EXCEPT ![Acceptor] = None,
                            ![h] = [id |-> accepted + 1, messages |-> 0]]
      /\ UNCHANGED <<clients, unlisted, abandoned>>
  BY DEF AcceptSpawn
<1>2. /\ DOMAIN pc' = Tasks /\ DOMAIN arg' = Tasks
      /\ pc'[Acceptor] = "idle" /\ pc'[h] = "greeting"
      /\ arg'[h] = [id |-> accepted + 1, messages |-> 0]
      /\ \A g \in Handlers \ {h} : pc'[g] = pc[g] /\ arg'[g] = arg[g]
  BY <1>1, ServerSets DEF ServerInv, ServerTypes
<1>3. h \notin Live /\ Live' = Live \cup {h}
  BY <1>1, <1>2 DEF Live
<1>4. /\ Id(h)' = accepted + 1
      /\ \A g \in Live : Id(g)' = Id(g) /\ Id(g) \in 1..accepted
  BY <1>2, <1>3, ServerSets DEF ServerInv, ServerTypes, Id
<1>5. ServerTypes'
  BY <1>1, <1>2, <1>3, ServerSets DEF ServerInv, ServerTypes
<1>6. OwnIds'
  BY <1>3, <1>4 DEF ServerInv, ServerTypes, OwnIds
<1>7. h \notin Unlisted /\ Unlisted' = Unlisted \cup {h}
  <2>1. Unlisted = {g \in Live : Id(g) \notin DOMAIN clients}
    BY DEF Unlisted, Id
  <2>2. Unlisted' = {g \in Live' : Id(g)' \notin DOMAIN clients}
    BY <1>1 DEF Unlisted, Id
  <2>3. accepted + 1 \notin DOMAIN clients
    BY DEF ServerInv, ServerTypes
  <2>4. QED
    BY <1>3, <1>4, <2>1, <2>2, <2>3
<1>8. Cardinality(Unlisted') = Cardinality(Unlisted) + 1
  BY <1>7, ServerSets, FS_AddElement DEF ServerInv
<1>9. DOMAIN clients' \subseteq {Id(g) : g \in Live}' \cup abandoned'
  BY <1>1, <1>3, <1>4 DEF ServerInv, ClientsBounded
<1>10. ClientCount' = ClientCount
  BY <1>1 DEF ClientCount
<1>11. ClientCount + Cardinality(Unlisted) + 1 <= MaxClients + unlisted
  BY <1>1, ServerSets DEF ServerInv, RoomKept, ServerTypes
<1>12. ClientsBounded' /\ RoomKept'
  BY <1>1, <1>2, <1>8, <1>9, <1>10, <1>11, ServerSets
     DEF ServerInv, ClientsBounded, RoomKept
<1>13. QED
  BY <1>5, <1>6, <1>12 DEF ServerInv

\* A connection that is over: the others are served as before.
LEMMA ServerLeaves ==
  ASSUME ServerInv, NEW h \in Live, Return(h), UNCHANGED accepted
  PROVE  /\ Live' = Live \ {h}
         /\ \A g \in Live' : Id(g)' = Id(g) /\ Id(g) # Id(h)
         /\ DOMAIN pc' = Tasks /\ DOMAIN arg' = Tasks
         /\ pc'[Acceptor] = pc[Acceptor] /\ OwnIds'
         /\ \A g \in Live' : arg'[g] \in [id : 1..accepted', messages : Nat]
<1>1. /\ pc' = [pc EXCEPT ![h] = "idle"] /\ arg' = [arg EXCEPT ![h] = None]
      /\ h \in Handlers
  BY DEF Return, Live
<1>2. /\ DOMAIN pc' = Tasks /\ DOMAIN arg' = Tasks
      /\ pc'[Acceptor] = pc[Acceptor] /\ pc'[h] = "idle"
      /\ \A g \in Tasks \ {h} : pc'[g] = pc[g] /\ arg'[g] = arg[g]
  BY <1>1, ServerSets DEF ServerInv, ServerTypes
<1>3. Live' = Live \ {h}
  BY <1>1, <1>2 DEF Live, Handlers
<1>4. \A g \in Live' : Id(g)' = Id(g) /\ Id(g) # Id(h)
  BY <1>2, <1>3, ServerSets DEF ServerInv, OwnIds, Id
<1>5. OwnIds'
  BY <1>3, <1>4 DEF ServerInv, OwnIds
<1>6. \A g \in Live' : arg'[g] \in [id : 1..accepted', messages : Nat]
  BY <1>2, <1>3, ServerSets DEF ServerInv, ServerTypes
<1>7. QED
  BY <1>2, <1>3, <1>4, <1>5, <1>6

\* It leaves its client behind, which is then abandoned.
LEMMA ServerAbandons ==
  ASSUME ServerInv, NEW h \in Live, Abandon(h) PROVE ServerInv'
<1>1. /\ Return(h) /\ UNCHANGED <<clients, accepted, unlisted>>
      /\ abandoned' = abandoned \cup ({Id(h)} \cap DOMAIN clients)
  BY DEF Abandon
<1>2. /\ Live' = Live \ {h}
      /\ \A g \in Live' : Id(g)' = Id(g) /\ Id(g) # Id(h)
      /\ DOMAIN pc' = Tasks /\ DOMAIN arg' = Tasks
      /\ pc'[Acceptor] = pc[Acceptor] /\ OwnIds'
      /\ \A g \in Live' : arg'[g] \in [id : 1..accepted', messages : Nat]
  BY <1>1, ServerLeaves
<1>3. ServerTypes'
  BY <1>1, <1>2 DEF ServerInv, ServerTypes
<1>4. /\ Unlisted' \in SUBSET Unlisted
      /\ ClientCount' = ClientCount
  BY <1>1, <1>2 DEF Unlisted, ClientCount, Id
<1>5. Cardinality(Unlisted') <= Cardinality(Unlisted) /\ Cardinality(Unlisted') \in Nat
  BY <1>4, ServerSets, FS_Subset, FS_CardinalityType DEF ServerInv
<1>6. DOMAIN clients' \subseteq {Id(g) : g \in Live}' \cup abandoned'
  <2>1. \A id \in DOMAIN clients :
          id \in {Id(g) : g \in Live} \cup abandoned
    BY DEF ServerInv, ClientsBounded
  <2>2. ASSUME NEW g \in Live, Id(g) \in DOMAIN clients
        PROVE  Id(g) \in {Id(u) : u \in Live}' \cup abandoned'
    BY <1>1, <1>2, <2>2
  <2>3. QED
    BY <1>1, <2>1, <2>2
<1>7. ClientsBounded' /\ RoomKept'
  BY <1>1, <1>2, <1>4, <1>5, <1>6, ServerSets
     DEF ServerInv, ServerTypes, ClientsBounded, RoomKept
<1>8. QED
  BY <1>2, <1>3, <1>7 DEF ServerInv

\* It takes its client out of the table, if it had entered one.
LEMMA ServerRemoves ==
  ASSUME ServerInv, NEW h \in Live, RemoveClient(h) PROVE ServerInv'
<1>1. /\ Return(h) /\ UNCHANGED <<accepted, unlisted, abandoned>>
      /\ DOMAIN clients' = DOMAIN clients \ {Id(h)}
  BY DEF RemoveClient
<1>2. /\ Live' = Live \ {h}
      /\ \A g \in Live' : Id(g)' = Id(g) /\ Id(g) # Id(h)
      /\ DOMAIN pc' = Tasks /\ DOMAIN arg' = Tasks
      /\ pc'[Acceptor] = pc[Acceptor] /\ OwnIds'
      /\ \A g \in Live' : arg'[g] \in [id : 1..accepted', messages : Nat]
  BY <1>1, ServerLeaves
<1>3. ServerTypes'
  BY <1>1, <1>2 DEF ServerInv, ServerTypes
<1>4. Unlisted' \in SUBSET Unlisted
  BY <1>1, <1>2 DEF Unlisted, Id
<1>5. Cardinality(Unlisted') <= Cardinality(Unlisted) /\ Cardinality(Unlisted') \in Nat
  BY <1>4, ServerSets, FS_Subset, FS_CardinalityType DEF ServerInv
<1>6. ClientCount' <= ClientCount /\ ClientCount' \in Nat
  BY <1>1, ServerSets, FS_Subset, FS_CardinalityType DEF ServerInv, ClientCount
<1>7. DOMAIN clients' \subseteq {Id(g) : g \in Live}' \cup abandoned'
  BY <1>1, <1>2 DEF ServerInv, ClientsBounded
<1>8. ClientsBounded' /\ RoomKept'
  BY <1>1, <1>2, <1>5, <1>6, <1>7, ServerSets
     DEF ServerInv, ServerTypes, ClientsBounded, RoomKept
<1>9. QED
  BY <1>2, <1>3, <1>8 DEF ServerInv

\* A client that enters the table was served, so it was counted for.
LEMMA ServerSubscribes ==
  ASSUME ServerInv, NEW h \in Live, SubscribeClient(h) PROVE ServerInv'
<1>1. /\ pc' = [pc EXCEPT ![h] = "reading"] /\ h \in Handlers
      /\ UNCHANGED <<accepted, unlisted, abandoned, arg>>
      /\ DOMAIN clients' = DOMAIN clients \cup {Id(h)}
      /\ pc[h] # "idle"
  BY DEF SubscribeClient, Drop, Live
<1>2. CASE Id(h) \in DOMAIN clients
  <2>1. DOMAIN pc' = Tasks /\ \A g \in Tasks \ {h} : pc'[g] = pc[g]
    BY <1>1 DEF ServerInv, ServerTypes
  <2>2. pc'[h] = "reading"
    BY <1>1, ServerSets DEF ServerInv, ServerTypes
  <2>3. QED
    BY <1>1, <1>2, <2>1, <2>2, ServerServed
<1>3. CASE Id(h) \notin DOMAIN clients
  <2>1. /\ DOMAIN pc' = Tasks /\ pc'[Acceptor] = pc[Acceptor] /\ Live' = Live
    BY <1>1, ServerSets DEF ServerInv, ServerTypes, Live
  <2>2. Id(h) \in 1..accepted
    BY ServerSets DEF ServerInv, ServerTypes, Id
  <2>3. ServerTypes' /\ OwnIds'
    BY <1>1, <2>1, <2>2 DEF ServerInv, ServerTypes, OwnIds, Id
  <2>4. h \in Unlisted /\ Unlisted' = Unlisted \ {h}
    BY <1>1, <1>3, <2>1 DEF ServerInv, OwnIds, Unlisted, Id
  <2>5. Cardinality(Unlisted') = Cardinality(Unlisted) - 1
    BY <2>4, ServerSets, FS_RemoveElement DEF ServerInv
  <2>6. ClientCount' = ClientCount + 1
    BY <1>1, <1>3, ServerSets, FS_AddElement DEF ServerInv, ClientCount
  <2>7. DOMAIN clients' \subseteq {Id(g) : g \in Live}' \cup abandoned'
    BY <1>1, <2>1 DEF ServerInv, ClientsBounded, Id
  <2>8. ClientsBounded' /\ RoomKept'
    BY <1>1, <2>1, <2>5, <2>6, <2>7, ServerSets
       DEF ServerInv, ServerTypes, ClientsBounded, RoomKept
  <2>9. QED
    BY <2>3, <2>8 DEF ServerInv
<1>4. QED
  BY <1>2, <1>3

\* Every step of the acceptor, of the owner and of a connection.
LEMMA ServerSteps ==
  ASSUME ServerInv, ServerNext PROVE ServerInv'
<1>1. ASSUME NEW h \in Handlers, Serve(h) PROVE ServerInv'
  <2>1. h \in Tasks /\ DOMAIN pc = Tasks /\ DOMAIN arg = Tasks
    BY DEF Handlers, ServerInv, ServerTypes
  <2>2. CASE Greet(h) \/ Ends(h) \/ Answer(h)
    <3>1. /\ pc[h] # "idle" /\ arg' = arg /\ UNCHANGED serverData
          /\ DOMAIN pc' = Tasks /\ pc'[h] \in {"reading", "removing"}
          /\ \A g \in Tasks \ {h} : pc'[g] = pc[g]
      BY <2>1, <2>2 DEF Greet, Ends, Answer, Ask, Move, Await, Drop,
         Answering
    <3>2. QED
      BY <3>1, ServerServed DEF serverData
  <2>3. CASE GreetFails(h) \/ ReadFails(h) \/ RateLimited(h) \/ AnswerFails(h)
    BY <2>3, ServerAbandons
       DEF GreetFails, ReadFails, RateLimited, AnswerFails, Answering, Live
  <2>4. CASE RemoveClient(h)
    BY <2>4, ServerRemoves DEF RemoveClient, Reached, Live
  <2>5. CASE SubscribeClient(h)
    BY <2>5, ServerSubscribes DEF SubscribeClient, Reached, Live
  <2>6. CASE Ignore(h) \/ \E point \in {"subscribing", "authorizing",
                                        "submitting"} : Message(h, point)
    <3>1. /\ pc[h] = "reading" /\ WithinRate(h) /\ UNCHANGED serverData
          /\ DOMAIN pc' = Tasks /\ pc'[h] # "idle"
          /\ \A g \in Tasks \ {h} : pc'[g] = pc[g]
      <4>1. CASE Ignore(h)
        BY <2>1, <4>1 DEF Ignore
      <4>2. CASE ~Ignore(h)
        BY <2>1, <2>6, <4>2 DEF Message, Await
      <4>3. QED
        BY <4>1, <4>2
    <3>2. arg[h].messages \in Nat
      BY <3>1 DEF ServerInv, ServerTypes, Live
    <3>3. \E n \in Nat : arg' = [arg EXCEPT ![h] = [arg[h] EXCEPT !.messages = n]]
      <4>1. PICK count \in {1, arg[h].messages + 1} :
              Keep(h, [arg[h] EXCEPT !.messages = count])
        BY <3>1 DEF WithinRate
      <4>2. count \in Nat
        BY <3>2
      <4>3. QED
        BY <4>1, <4>2, Zenon DEF Keep
    <3>4. QED
      BY <3>1, <3>3, ServerServed DEF serverData
  <2>7. CASE AuthorizeClient(h) \/ ClientShare(h)
    <3>1. /\ pc[h] # "idle" /\ DOMAIN pc' = Tasks
          /\ pc'[h] \in {"answering", "acknowledging"}
          /\ \A g \in Tasks \ {h} : pc'[g] = pc[g]
          /\ UNCHANGED <<accepted, unlisted, abandoned, arg>>
          /\ DOMAIN clients' = DOMAIN clients
      BY <2>1, <2>7
         DEF AuthorizeClient, ClientShare, UpdateClient, Reached, Move, Drop
    <3>2. QED
      BY <3>1, ServerServed
  <2>8. QED
    BY <1>1, <2>2, <2>3, <2>4, <2>5, <2>6, <2>7 DEF Serve
<1>2. CASE Accept
  <2> DEFINE SameHandlers ==
        DOMAIN arg' = Tasks /\ \A h \in Handlers : arg'[h] = arg[h]
  <2>a. DOMAIN arg = Tasks /\ Acceptor \notin Handlers
    BY DEF Handlers, ServerInv, ServerTypes
  <2>1. CASE AcceptRoom
    BY <2>1, ServerCounts
  <2>2. CASE \E h \in Handlers : AcceptSpawn(h)
    BY <2>2, ServerSpawns
  <2>3. CASE AcceptBlocked \/ AcceptLimited \/ AcceptFull
    <3>1. /\ Return(Acceptor)
          /\ UNCHANGED <<clients, accepted, unlisted, abandoned>>
      BY <2>3 DEF AcceptBlocked, AcceptLimited, AcceptFull, serverData
    <3>2. pc' = [pc EXCEPT ![Acceptor] = "idle"] /\ SameHandlers
      BY <2>a, <3>1 DEF Return
    <3>3. QED
      BY <3>1, <3>2, ServerOutside
  <2>4. CASE \E ip \in Addresses : AcceptConnection(ip)
    <3>1. PICK ip \in Addresses : AcceptConnection(ip)
      BY <2>4
    <3>2. /\ pc' = [pc EXCEPT ![Acceptor] = "acc_blocked"]
          /\ SameHandlers
          /\ UNCHANGED <<clients, accepted, unlisted, abandoned>>
      BY <2>a, <3>1 DEF AcceptConnection, ServerCall, Enter, serverData
    <3>3. QED
      BY <3>2, ServerOutside
  <2>5. CASE \/ AcceptUnblocked \/ AcceptLimitAsk \/ AcceptCounted
             \/ AcceptCountAsk
    <3>1. /\ \E point \in {"acc_unblocked", "acc_limit", "acc_within",
                           "acc_clients"} : pc' = [pc EXCEPT ![Acceptor] = point]
          /\ SameHandlers
          /\ UNCHANGED <<clients, accepted, unlisted, abandoned>>
      BY <2>a, <2>5 DEF AcceptUnblocked, AcceptLimitAsk, AcceptCounted,
         AcceptCountAsk, Ask, Await, Drop, serverData
    <3>2. QED
      BY <3>1, ServerOutside
  <2>6. QED
    BY <1>2, <2>1, <2>2, <2>3, <2>4, <2>5 DEF Accept
<1>3. CASE Work
  <2> DEFINE SameHandlers ==
        DOMAIN arg' = Tasks /\ \A h \in Handlers : arg'[h] = arg[h]
  <2>a. DOMAIN arg = Tasks /\ Owner \notin Handlers
    BY DEF Handlers, ServerInv, ServerTypes
  <2>1. CASE SetWork \/ BroadcastWork
    <3>1. /\ \E point \in {"set_work", "bc_work"} :
               pc' = [pc EXCEPT ![Owner] = point]
          /\ arg' = [arg EXCEPT ![Owner] = None]
          /\ UNCHANGED <<clients, accepted, unlisted, abandoned>>
      BY <2>1 DEF SetWork, BroadcastWork, ServerCall, Enter, serverData
    <3>2. SameHandlers
      BY <2>a, <3>1
    <3>3. QED
      BY <3>1, <3>2, ServerOutside
  <2>2. CASE WorkSet \/ BroadcastNothing \/ BroadcastDone
    <3>1. /\ Return(Owner)
          /\ UNCHANGED <<clients, accepted, unlisted, abandoned>>
      BY <2>2 DEF WorkSet, BroadcastNothing, BroadcastDone, serverData
    <3>2. pc' = [pc EXCEPT ![Owner] = "idle"] /\ SameHandlers
      BY <2>a, <3>1 DEF Return
    <3>3. QED
      BY <3>1, <3>2, ServerOutside
  <2>3. CASE BroadcastAsk
    <3>1. /\ pc' = [pc EXCEPT ![Owner] = "bc_clients"]
          /\ SameHandlers
          /\ UNCHANGED <<clients, accepted, unlisted, abandoned>>
      BY <2>a, <2>3 DEF BroadcastAsk, Ask, Await, serverData
    <3>2. QED
      BY <3>1, ServerOutside
  <2>4. QED
    BY <1>3, <2>1, <2>2, <2>3 DEF Work
<1>4. QED
  BY <1>1, <1>2, <1>3 DEF ServerNext

\* The table holds the clients of live and of abandoned connections, and
\* never more than max_clients but for those that were served without being
\* in it when the last connection was let in.
THEOREM ClientsBoundedHolds == ServerSpec => []ClientsBounded
<1>1. ServerInit => ServerInv
  <2>1. SUFFICES ASSUME ServerInit PROVE ServerInv
    OBVIOUS
  <2>2. /\ DOMAIN clients = {} /\ accepted = 0 /\ unlisted = 0
        /\ DOMAIN pc = Tasks /\ DOMAIN arg = Tasks
        /\ \A t \in Tasks : pc[t] = "idle"
    BY <2>1 DEF ServerInit, NoCalls
  <2>3. Live = {} /\ Unlisted = {}
    BY <2>2 DEF Live, Unlisted, Handlers
  <2>4. ClientCount = 0 /\ Cardinality(Unlisted) = 0
    BY <2>2, <2>3, FS_EmptySet DEF ClientCount
  <2>5. QED
    BY <2>2, <2>3, <2>4, ServerAssumption
       DEF ServerInv, ServerTypes, OwnIds, ClientsBounded, RoomKept
<1>2. ServerInv /\ [ServerNext]_serverVars => ServerInv'
  <2>1. SUFFICES ASSUME ServerInv, [ServerNext]_serverVars PROVE ServerInv'
    OBVIOUS
  <2>2. CASE UNCHANGED serverVars
    <3>1. /\ UNCHANGED <<clients, accepted, unlisted, abandoned, pc, arg>>
          /\ Live' = Live
      BY <2>2 DEF serverVars, serverData, taskVars, Live
    <3>2. QED
      BY <2>1, <3>1, ServerQuiet DEF ServerInv, ServerTypes
  <2>3. CASE ServerNext
    BY <2>1, <2>3, ServerSteps
  <2>4. QED
    BY <2>1, <2>2, <2>3
<1>3. ServerInv => ClientsBounded
  BY DEF ServerInv
<1>4. QED
  BY <1>1, <1>2, <1>3, PTL DEF ServerSpec

-----------------------------------------------------------------------------
(* The plain server's locks.                                               *)

AcceptPoints == {"acc_blocked", "acc_unblocked", "acc_limit", "acc_within",
                 "acc_clients", "acc_room"}

ServePoints == {"greeting", "reading", "removing", "subscribing",
                "authorizing", "submitting", "answering", "acknowledging"}

ServerPoints == {"idle", "set_work", "bc_work", "bc_clients"}
                  \cup AcceptPoints \cup ServePoints

ServerWrites == [clients |-> {"removing", "subscribing", "authorizing",
                              "submitting", "acknowledging"},
                 ip_rate_limits |-> {"acc_limit"},
                 current_work |-> {"set_work"}]

ServerReads == [clients |-> {"acc_clients", "bc_clients"},
                ip_rate_limits |-> {"acc_blocked"},
                current_work |-> {"bc_work", "bc_clients"}]

ServerWants == [point \in ServerPoints |-> [lock \in ServerLocks |->
                  IF point \in ServerWrites[lock] THEN "write"
                  ELSE IF point \in ServerReads[lock] THEN "read" ELSE "none"]]

ServerHeldAt == [point \in ServerPoints |->
                   CASE point = "bc_clients" -> {"current_work"}
                     [] point = "acknowledging" -> {"clients"}
                     [] OTHER -> {}]

ServerGuards == LockInv(ServerLocks, ServerPoints, ServerWants, ServerHeldAt)

ServerAsks(from, got, to, lock, mode) ==
  Asks(ServerLocks, ServerPoints, ServerWants, ServerHeldAt,
       from, got, to, lock, mode)

ServerDrops(from, got, lock, to) ==
  Drops(ServerLocks, ServerPoints, ServerWants, ServerHeldAt,
        from, got, lock, to)

ServerMoves(from, got, to) ==
  Moves(ServerLocks, ServerPoints, ServerWants, ServerHeldAt, from, got, to)

\* Between two calls, and while a connection waits for its task or is
\* greeted, nothing is locked.
LEMMA ServerUnlocked ==
  ASSUME NEW point \in {"idle", "acc_room", "greeting"}
  PROVE  /\ point \in ServerPoints
         /\ \A l \in ServerLocks : ServerWants[point][l] = "none"
         /\ ServerHeldAt[point] = {}
BY DEF ServerPoints, AcceptPoints, ServePoints, ServerLocks, ServerWants,
   ServerWrites, ServerReads, ServerHeldAt

\* The places of the acceptor and of the owner of the server, in the tables.
LEMMA OwnerTable ==
  /\ ServerAsks("idle", {}, "acc_blocked", "ip_rate_limits", "read")
  /\ ServerDrops("acc_blocked", {"ip_rate_limits"}, "ip_rate_limits",
                 "acc_unblocked")
  /\ ServerAsks("acc_unblocked", {}, "acc_limit", "ip_rate_limits", "write")
  /\ ServerDrops("acc_limit", {"ip_rate_limits"}, "ip_rate_limits",
                 "acc_within")
  /\ ServerAsks("acc_within", {}, "acc_clients", "clients", "read")
  /\ ServerDrops("acc_clients", {"clients"}, "clients", "acc_room")
  /\ ServerAsks("idle", {}, "set_work", "current_work", "write")
  /\ ServerAsks("idle", {}, "bc_work", "current_work", "read")
  /\ ServerAsks("bc_work", {"current_work"}, "bc_clients", "clients", "read")
BY DEF ServerAsks, ServerDrops, Asks, Drops, ServerPoints, AcceptPoints,
   ServePoints, ServerLocks, ServerWants, ServerWrites, ServerReads,
   ServerHeldAt

\* And those of a connection.
LEMMA ServeTable ==
  /\ ServerMoves("greeting", {}, "reading")
  /\ \A point \in {"removing", "subscribing", "authorizing", "submitting"} :
       ServerAsks("reading", {}, point, "clients", "write")
  /\ ServerDrops("subscribing", {"clients"}, "clients", "reading")
  /\ ServerDrops("authorizing", {"clients"}, "clients", "answering")
  /\ ServerMoves("submitting", {"clients"}, "acknowledging")
  /\ \A point \in Answering : ServerDrops(point, {}, "clients", "reading")
BY DEF ServerAsks, ServerDrops, ServerMoves, Asks, Drops, Moves, ServerPoints,
   AcceptPoints, ServePoints, ServerLocks, ServerWants, ServerWrites,
   ServerReads, ServerHeldAt, Answering

\* A step that follows the tables keeps the guards where they say.
LEMMA ServerFollows ==
  ASSUME ServerGuards, NEW t \in Tasks,
         NEW from, NEW got, NEW to, NEW lock, NEW mode,
         pc[t] = from, \A l \in got : Holds(locks[l], t),
         \/ ServerAsks(from, got, to, lock, mode) /\ Await(t, to, lock, mode)
         \/ ServerDrops(from, got, lock, to) /\ Drop(t, lock, to)
         \/ ServerMoves(from, got, to) /\ Move(t, to)
  PROVE  ServerGuards'
<1> USE DEF ServerGuards, ServerAsks, ServerDrops, ServerMoves
<1>1. CASE ServerAsks(from, got, to, lock, mode) /\ Await(t, to, lock, mode)
  BY <1>1, AsksKeepsLocks
<1>2. CASE ServerDrops(from, got, lock, to) /\ Drop(t, lock, to)
  BY <1>2, DropsKeepsLocks
<1>3. CASE ServerMoves(from, got, to) /\ Move(t, to)
  BY <1>3, MovesKeepsLocks
<1>4. QED
  BY <1>1, <1>2, <1>3

LEMMA ServerReturns ==
  ASSUME ServerGuards, NEW t \in Tasks, Return(t) PROVE ServerGuards'
BY ReturnKeepsLocks, ServerUnlocked DEF ServerGuards

\* The acceptor hands its connection to a task, and neither has a guard.
LEMMA SpawnKeepsGuards ==
  ASSUME ServerGuards, NEW h \in Handlers, AcceptSpawn(h) PROVE ServerGuards'
<1>1. /\ pc[Acceptor] = "acc_room" /\ pc[h] = "idle" /\ locks' = locks
      /\ pc' = [pc EXCEPT ![Acceptor] = "idle", ![h] = "greeting"]
  BY DEF AcceptSpawn
<1>2. /\ pc \in [Tasks -> ServerPoints] /\ h \in Tasks /\ h # Acceptor
      /\ Acceptor \in Tasks /\ DOMAIN locks = ServerLocks
  BY ServerAssumption DEF ServerGuards, LockInv, Handlers
<1>3. /\ pc' \in [Tasks -> ServerPoints]
      /\ pc'[Acceptor] = "idle" /\ pc'[h] = "greeting"
      /\ \A t \in Tasks \ {Acceptor, h} : pc'[t] = pc[t]
  BY <1>1, <1>2, ServerUnlocked
<1>4. ASSUME NEW t \in Tasks, NEW l \in ServerLocks
      PROVE  /\ locks[l][t].mode = ServerWants[pc'[t]][l]
             /\ l \in ServerHeldAt[pc'[t]] => Holds(locks[l], t)
  <2>1. /\ locks[l][t].mode = ServerWants[pc[t]][l]
        /\ l \in ServerHeldAt[pc[t]] => Holds(locks[l], t)
    BY <1>2 DEF ServerGuards, LockInv, LockDiscipline
  <2>2. CASE t \in {Acceptor, h}
    BY <1>1, <1>3, <2>1, <2>2, ServerUnlocked
  <2>3. CASE t \notin {Acceptor, h}
    BY <1>3, <2>1, <2>3
  <2>4. QED
    BY <2>2, <2>3
<1>5. LockDiscipline(ServerWants, ServerHeldAt)'
  BY <1>1, <1>2, <1>4 DEF LockDiscipline
<1>6. QED
  BY <1>1, <1>3, <1>5 DEF ServerGuards, LockInv

LEMMA ServeKeepsGuards ==
  ASSUME ServerGuards, NEW h \in Handlers, Serve(h) PROVE ServerGuards'
<1>1. h \in Tasks
  BY DEF Handlers
<1>2. CASE Greet(h)
  BY <1>1, <1>2, ServeTable, ServerFollows DEF Greet
<1>3. CASE GreetFails(h) \/ ReadFails(h) \/ RateLimited(h) \/ AnswerFails(h)
           \/ RemoveClient(h)
  BY <1>1, <1>3, ServerReturns
     DEF GreetFails, ReadFails, RateLimited, AnswerFails, RemoveClient, Abandon
<1>4. CASE Ends(h) \/ \E point \in {"subscribing", "authorizing",
                                    "submitting"} : Message(h, point)
  <2>1. PICK point \in {"removing", "subscribing", "authorizing",
                        "submitting"} :
          pc[h] = "reading" /\ Await(h, point, "clients", "write")
    BY <1>4 DEF Ends, Message, Ask
  <2>2. ServerAsks("reading", {}, point, "clients", "write")
    BY ServeTable
  <2>3. QED
    BY <1>1, <2>1, <2>2, ServerFollows
<1>5. CASE Ignore(h)
  BY <1>5, UntouchedLocks DEF Ignore, ServerGuards
<1>6. CASE SubscribeClient(h)
  BY <1>1, <1>6, ServeTable, ServerFollows DEF SubscribeClient, Reached
<1>7. CASE AuthorizeClient(h)
  BY <1>1, <1>7, ServeTable, ServerFollows DEF AuthorizeClient, Reached
<1>8. CASE ClientShare(h)
  BY <1>1, <1>8, ServeTable, ServerFollows DEF ClientShare, Reached
<1>9. CASE Answer(h)
  BY <1>1, <1>9, ServeTable, ServerFollows DEF Answer
<1>10. QED
  BY <1>2, <1>3, <1>4, <1>5, <1>6, <1>7, <1>8, <1>9 DEF Serve

LEMMA OwnersKeepGuards ==
  ASSUME ServerGuards, Accept \/ Work PROVE ServerGuards'
<1>1. Acceptor \in Tasks /\ Owner \in Tasks
  BY ServerAssumption
<1>2. CASE \E ip \in Addresses : AcceptConnection(ip)
  <2>1. /\ pc[Acceptor] = "idle"
        /\ Await(Acceptor, "acc_blocked", "ip_rate_limits", "read")
    BY <1>2 DEF AcceptConnection, ServerCall, Enter, Await
  <2>2. ServerAsks("idle", {}, "acc_blocked", "ip_rate_limits", "read")
    BY OwnerTable
  <2>3. QED
    BY <1>1, <2>1, <2>2, ServerFollows
<1>3. CASE AcceptUnblocked
  BY <1>1, <1>3, OwnerTable, ServerFollows DEF AcceptUnblocked, Reached
<1>4. CASE AcceptLimitAsk
  BY <1>1, <1>4, OwnerTable, ServerFollows DEF AcceptLimitAsk, Ask
<1>5. CASE AcceptCounted
  BY <1>1, <1>5, OwnerTable, ServerFollows DEF AcceptCounted, Reached
<1>6. CASE AcceptCountAsk
  BY <1>1, <1>6, OwnerTable, ServerFollows DEF AcceptCountAsk, Ask
<1>7. CASE AcceptRoom
  BY <1>1, <1>7, OwnerTable, ServerFollows DEF AcceptRoom, Reached
<1>8. CASE AcceptBlocked \/ AcceptLimited \/ AcceptFull \/ WorkSet
           \/ BroadcastNothing \/ BroadcastDone
  BY <1>1, <1>8, ServerReturns DEF AcceptBlocked, AcceptLimited, AcceptFull,
     WorkSet, BroadcastNothing, BroadcastDone
<1>9. CASE \E h \in Handlers : AcceptSpawn(h)
  BY <1>9, SpawnKeepsGuards
<1>10. CASE SetWork
  <2>1. pc[Owner] = "idle" /\ Await(Owner, "set_work", "current_work", "write")
    BY <1>10 DEF SetWork, ServerCall, Enter, Await
  <2>2. QED
    BY <1>1, <2>1, OwnerTable, ServerFollows
<1>11. CASE BroadcastWork
  <2>1. pc[Owner] = "idle" /\ Await(Owner, "bc_work", "current_work", "read")
    BY <1>11 DEF BroadcastWork, ServerCall, Enter, Await
  <2>2. QED
    BY <1>1, <2>1, OwnerTable, ServerFollows
<1>12. CASE BroadcastAsk
  BY <1>1, <1>12, OwnerTable, ServerFollows DEF BroadcastAsk, Reached, Ask
<1>13. QED
  BY <1>2, <1>3, <1>4, <1>5, <1>6, <1>7, <1>8, <1>9, <1>10, <1>11, <1>12
     DEF Accept, Work

\* Each task of the Stratum server holds exactly the guards its place in the
\* code implies: the table's over a miner's answer, the work's over the table.
THEOREM ServerLocksHeld == ServerSpec => []ServerGuards
<1>1. ServerInit => ServerGuards
  BY NoCallsKeepLocks, ServerUnlocked DEF ServerInit, ServerGuards
<1>2. ServerGuards /\ [ServerNext]_serverVars => ServerGuards'
  <2>1. SUFFICES ASSUME ServerGuards, [ServerNext]_serverVars
                 PROVE  ServerGuards'
    OBVIOUS
  <2>2. CASE UNCHANGED serverVars
    BY <2>1, <2>2, UntouchedLocks DEF serverVars, taskVars, ServerGuards
  <2>3. CASE ServerNext
    BY <2>1, <2>3, ServeKeepsGuards, OwnersKeepGuards DEF ServerNext
  <2>4. QED
    BY <2>1, <2>2, <2>3
<1>3. QED
  BY <1>1, <1>2, PTL DEF ServerSpec

\* The work comes before the table.
ServerRoom == [l \in ServerLocks |-> IF l = "current_work" THEN 1 ELSE 0]

LEMMA ServerInOrder ==
  \A point \in ServerPoints :
    InOrder(ServerLocks, ServerWants, ServerHeldAt, ServerRoom, point)
BY DEF InOrder, ServerPoints, AcceptPoints, ServePoints, ServerLocks,
   ServerWants, ServerWrites, ServerReads, ServerHeldAt, ServerRoom

\* The acceptor, the owner's broadcasts and the connections never wait for
\* each other in a circle, although a broadcast keeps the work while it asks
\* for the table, and a share keeps the table until its miner is answered.
THEOREM ServerNeverLocksUp == ServerSpec => []NoDeadlock
<1>1. ServerGuards => NoDeadlock
  <2>1. SUFFICES ASSUME ServerGuards, NEW D \in SUBSET Tasks, Stuck(D)
                 PROVE  FALSE
    BY DEF NoDeadlock, Deadlock
  <2>2. ServerRoom \in [ServerLocks -> Nat]
    BY DEF ServerRoom
  <2>3. \A t \in D : pc[t] \in ServerPoints
    BY <2>1 DEF ServerGuards, LockInv
  <2>4. QED
    BY <2>1, <2>2, <2>3, ServerInOrder, CircleLeavesOrder DEF ServerGuards
<1>2. QED
  BY <1>1, ServerLocksHeld, PTL
=============================================================================
