----------------------------- MODULE StratumPool -----------------------------
(***************************************************************************)
(* The Stratum pool server (src/src/stratum_pool.rs).                      *)
(*                                                                         *)
(* Miners connect over TCP and subscribe, authorize and submit shares; an  *)
(* HTTP port hands in work and reports; a task asks the node for its block *)
(* count every five seconds.  Each connection is a task.  A share that is  *)
(* a block is sent to the node by the task that handles it, once before it *)
(* is counted if the miner says it is a block, and once while it is        *)
(* counted, with the sessions locked, if it meets the node's difficulty.   *)
(*                                                                         *)
(* The node is external: a block count that grows, or falls when the node  *)
(* has lost blocks (Node.tla), and answers that come late, in any order,   *)
(* or not at all.                                                          *)
(***************************************************************************)
EXTENDS LockedTasks, Integers, Sequences, Functions

CONSTANTS
  Shares,            \* what miners submit
  MinDifficulty,     \* of the shares
  PoolDifficulty,    \* taken for the node's when it does not answer
  NodeDifficulties,  \* what the node may answer
  PostedHeights,     \* the heights POST /update_work gives
  NodeLoses,         \* whether the node loses blocks in this instance
  Ops,               \* the requests each task handles in this instance
  MaxSessions,       \* bound: no subscription begins beyond these
  MaxShares,         \* bound: no submission begins beyond these
  MaxChain           \* bound: the node's blocks

OpNames == {"miner", "stats", "post", "sync", "background"}

\* A share: the height its job names (0: none), the highest difficulty its
\* hash meets (0 if that is no hash), whether submit_block_to_node takes hash
\* and nonce, and whether the miner says that it is a block.
ShareType ==
  [height : Nat, strength : Nat, sendable : BOOLEAN, is_block : BOOLEAN]

ASSUME StratumAssumption ==
  /\ Ops \in [Tasks -> SUBSET OpNames] /\ NodeLoses \in BOOLEAN
  /\ Shares \subseteq ShareType
  /\ {MinDifficulty, PoolDifficulty} \subseteq Nat
  /\ NodeDifficulties \subseteq Nat /\ PostedHeights \subseteq Nat
  /\ {MaxSessions, MaxShares, MaxChain} \subseteq Nat

VARIABLES
  miners,      \* HashMap<miner_id, MinerSession>; the n-th session has id n
  work,        \* current_work: its height
  totalValid,  \* total_valid_shares
  conn,        \* what the handler of each connection knows of its miner
  spawned,     \* background syncs spawned and not yet begun
  chain,       \* the node's block count (external)
  current,     \* history: who carries an answer the node gave since it
               \* last lost blocks,
  workCurrent  \* and whether the work is of such an answer

nodeVars == <<chain, current, workCurrent>>
data == <<miners, work, totalValid, conn, spawned, nodeVars>>
vars == <<data, taskVars>>

\* Nothing ever changes total_shares, so only its lock is kept.
Locks == {"miners", "work", "shares", "valid"}

\* authorized (history): a connection of this session was authorized.
Session == [authorized : BOOLEAN,
            shares : Nat, valid_shares : Nat, invalid_shares : Nat]
NewSession == [authorized |-> FALSE,
               shares |-> 0, valid_shares |-> 0, invalid_shares |-> 0]

\* miner_id and is_authorized; 0 is no miner.
NotSubscribed == [miner_id |-> 0, is_authorized |-> FALSE]

\* A share under way, and the height its block was sent at, then the block
\* count the node reported.
Job == [share : Shares, height : Nat]

Difficulties == NodeDifficulties \cup {PoolDifficulty}

Meets(share, difficulty) == difficulty # 0 /\ share.strength >= difficulty

Submitted == SumFunction([i \in DOMAIN miners |-> miners[i].shares])

-----------------------------------------------------------------------------
Call(t, op, value, point, lock, mode) ==
  /\ op \in Ops[t]
  /\ Enter(t, value, point, lock, mode)
  /\ UNCHANGED data

(* A connection: subscribe, authorize, close.  An address that             *)
(* validate_miner_address refuses changes nothing.                         *)

Subscribe(t) ==
  /\ Len(miners) < MaxSessions
  /\ Call(t, "miner", None, "reg_miners", "miners", "write")

\* Variant: a connection that subscribes again stays authorized.
RegisterMinerKeeps(t) ==
  /\ Reached(t, "reg_miners", "miners")
  /\ miners' = Append(miners, NewSession)
  /\ conn' = [conn EXCEPT ![t].miner_id = Len(miners) + 1]
  /\ Return(t)
  /\ UNCHANGED <<work, totalValid, spawned, nodeVars>>

\* The session the connection had stays; nothing ever removes one.
RegisterMiner(t) ==
  /\ Reached(t, "reg_miners", "miners")
  /\ miners' = Append(miners, NewSession)
  /\ conn' = [conn EXCEPT ![t] = [miner_id |-> Len(miners) + 1,
                                  is_authorized |-> FALSE]]
  /\ Return(t)
  /\ UNCHANGED <<work, totalValid, spawned, nodeVars>>

Authorize(t) ==
  /\ pc[t] = "idle" /\ conn[t].miner_id # 0
  /\ conn' = [conn EXCEPT ![t].is_authorized = TRUE]
  /\ miners' = [miners EXCEPT ![conn[t].miner_id].authorized = TRUE]
  /\ UNCHANGED <<work, totalValid, spawned, nodeVars, taskVars>>

\* End of file, a read error, five minutes of silence, or a reply that could
\* not be written.  The next miner to connect is a new connection.
Close(t) ==
  /\ pc[t] = "idle" /\ conn[t] # NotSubscribed
  /\ conn' = [conn EXCEPT ![t] = NotSubscribed]
  /\ UNCHANGED <<miners, work, totalValid, spawned, nodeVars, taskVars>>

-----------------------------------------------------------------------------
(* mining.submit: the job's height against the current one, then the block *)
(* if it is said to be one, then the share.                                *)

Submit(t, share) ==
  /\ conn[t].is_authorized
  /\ Submitted < MaxShares
  /\ Call(t, "miner", [share |-> share, height |-> 0],
          "sub_work", "work", "read")

Stale(share) == share.height > 0 /\ share.height < work

SubmitStale(t) ==
  /\ Reached(t, "sub_work", "work")
  /\ Stale(arg[t].share)
  /\ Return(t)
  /\ UNCHANGED data

SubmitCurrent(t) ==
  /\ Reached(t, "sub_work", "work")
  /\ ~Stale(arg[t].share)
  /\ Drop(t, "work", "sub_current")
  /\ UNCHANGED <<data, arg>>

\* A claimed block that is no hash, or whose nonce is zero, is not sent.
SubmitBlock(t) ==
  /\ pc[t] = "sub_current"
  /\ arg[t].share.is_block
  /\ IF arg[t].share.sendable THEN Await(t, "blk_work", "work", "read")
                              ELSE Move(t, "sub_share")
  /\ UNCHANGED <<data, arg>>

SubmitShare(t) ==
  /\ \/ pc[t] = "sub_current" /\ ~arg[t].share.is_block
     \/ pc[t] = "sub_share"
  /\ Await(t, "shr_miners", "miners", "write")
  /\ UNCHANGED <<data, arg>>

-----------------------------------------------------------------------------
(* submit_share: the sessions, then the total, both kept until the share   *)
(* and its block are done with.  The session is there: none is removed.    *)

Counted(session, valid) ==
  [session EXCEPT !.shares = @ + 1,
                  !.valid_shares = IF valid THEN @ + 1 ELSE @,
                  !.invalid_shares = IF valid THEN @ ELSE @ + 1]

CountShare(t, valid) ==
  miners' = [miners EXCEPT ![conn[t].miner_id] = Counted(@, valid)]

ShareInvalid(t) ==
  /\ Reached(t, "shr_miners", "miners")
  /\ ~Meets(arg[t].share, MinDifficulty)
  /\ CountShare(t, FALSE)
  /\ Return(t)
  /\ UNCHANGED <<work, totalValid, conn, spawned, nodeVars>>

\* Variant: the sessions are unlocked before the total is locked.
ShareValidUnlocks(t) ==
  /\ Reached(t, "shr_miners", "miners")
  /\ Meets(arg[t].share, MinDifficulty)
  /\ CountShare(t, TRUE)
  /\ AwaitAfter(t, "miners", "shr_valid", "valid", "write")
  /\ UNCHANGED <<work, totalValid, conn, spawned, nodeVars, arg>>

ShareValid(t) ==
  /\ Reached(t, "shr_miners", "miners")
  /\ Meets(arg[t].share, MinDifficulty)
  /\ CountShare(t, TRUE)
  /\ Await(t, "shr_valid", "valid", "write")
  /\ UNCHANGED <<work, totalValid, conn, spawned, nodeVars, arg>>

ShareTotal(t) ==
  /\ Reached(t, "shr_valid", "valid")
  /\ totalValid' = totalValid + 1
  /\ Move(t, "shr_candidate")
  /\ UNCHANGED <<miners, work, conn, spawned, nodeVars, arg>>

\* is_block_candidate, told no or not a difficulty.
ShareNoBlock(t) ==
  /\ pc[t] = "shr_candidate"
  /\ \E d \in Difficulties : ~Meets(arg[t].share, d)
  /\ Return(t)
  /\ UNCHANGED data

\* A block that cannot be sent is an error, of a share already counted.
ShareUnsendable(t) ==
  /\ pc[t] = "shr_candidate"
  /\ \E d \in Difficulties : Meets(arg[t].share, d)
  /\ ~arg[t].share.sendable
  /\ Return(t)
  /\ UNCHANGED data

ShareIsBlock(t) ==
  /\ pc[t] = "shr_candidate"
  /\ \E d \in Difficulties : Meets(arg[t].share, d)
  /\ arg[t].share.sendable
  /\ Await(t, "shr_work", "work", "read")
  /\ UNCHANGED <<data, arg>>

-----------------------------------------------------------------------------
(* submit_block_to_node and sync_block_height_from_node, along the await   *)
(* points of whoever calls them: the connection for a claimed block,       *)
(* submit_share, the periodic task or a spawned one.                       *)

Claimed == [height |-> "blk_work", ask |-> "blk_ask", send |-> "blk_sent",
            sync |-> "blk_sync", reply |-> "blk_reply", store |-> "blk_store",
            done |-> "sub_share"]
Candidate == [height |-> "shr_work", ask |-> "shr_ask", send |-> "shr_sent",
              sync |-> "shr_sync", reply |-> "shr_reply",
              store |-> "shr_store", done |-> "idle"]
SyncOnly == [sync |-> "sync_sent", reply |-> "sync_reply",
             store |-> "sync_store", done |-> "idle"]

\* Done with the node, no lock of the work kept.
Finish(t, at) ==
  IF at.done = "idle" THEN Return(t)
                      ELSE Move(t, at.done) /\ UNCHANGED arg

BlockHeight(t, at) ==
  /\ Reached(t, at.height, "work")
  /\ Keep(t, [arg[t] EXCEPT !.height = work])
  /\ Drop(t, "work", at.ask)
  /\ UNCHANGED data

\* The node's difficulty and the parent's hash; each has a value to fall
\* back on.
SendBlock(t, at) ==
  /\ pc[t] = at.ask
  /\ \E d \in Difficulties : d # 0
  /\ Move(t, at.send)
  /\ UNCHANGED <<data, arg>>

NoDifficulty(t, at) ==
  /\ pc[t] = at.ask
  /\ 0 \in Difficulties
  /\ Finish(t, at)
  /\ UNCHANGED data

\* External: the node puts a block sent for its next height on its chain.
NodeTakes(t, at) ==
  /\ pc[t] = at.send
  /\ arg[t].height = chain + 1 /\ chain < MaxChain
  /\ chain' = chain + 1
  /\ UNCHANGED <<miners, work, totalValid, conn, spawned, current, workCurrent,
                 taskVars>>

\* Variant: the block is sent again.
BlockFailsRetries(t, at) ==
  /\ pc[t] = at.send
  /\ Move(t, at.ask)
  /\ UNCHANGED <<data, arg>>

\* No answer within thirty seconds, or an error; taken or not.
BlockFails(t, at) ==
  /\ pc[t] = at.send
  /\ Finish(t, at)
  /\ UNCHANGED data

\* Any other answer, an unclear one included, counts as success.
BlockSent(t, at) ==
  /\ pc[t] = at.send
  /\ Move(t, at.sync)
  /\ UNCHANGED <<data, arg>>

\* A background sync is spawned once a claimed block has been sent, after
\* the sync of submit_block_to_node itself, whatever came of that.
Spawned(at) == IF at.done = "sub_share" THEN spawned + 1 ELSE spawned

\* No answer within ten seconds, or an error: the height stays.
SyncFails(t, at) ==
  /\ pc[t] = at.sync
  /\ Finish(t, at)
  /\ spawned' = Spawned(at)
  /\ UNCHANGED <<miners, work, totalValid, conn, nodeVars>>

\* External: the node's block count leaves the node.  It arrives later.
NodeReports(t, at) ==
  /\ pc[t] = at.sync
  /\ Keep(t, [arg[t] EXCEPT !.height = chain])
  /\ Move(t, at.reply)
  /\ current' = current \cup {t}
  /\ UNCHANGED <<miners, work, totalValid, conn, spawned, chain, workCurrent>>

SyncAsk(t, at) ==
  /\ pc[t] = at.reply
  /\ Await(t, at.store, "work", "write")
  /\ UNCHANGED <<data, arg>>

\* The work is now of the answer the task has carried.
Stored(t) ==
  /\ workCurrent' = (t \in current)
  /\ current' = current \ {t}

\* Variant: the height is never set back.
SyncStoreRaises(t, at) ==
  /\ Reached(t, at.store, "work")
  /\ work' = IF arg[t].height + 1 > work THEN arg[t].height + 1 ELSE work
  /\ IF at.done = "idle" THEN Return(t)
                         ELSE Drop(t, "work", at.done) /\ UNCHANGED arg
  /\ spawned' = Spawned(at)
  /\ Stored(t)
  /\ UNCHANGED <<miners, totalValid, conn, chain>>

\* The height is stored without looking at the one it replaces.
SyncStore(t, at) ==
  /\ Reached(t, at.store, "work")
  /\ work' = arg[t].height + 1
  /\ IF at.done = "idle" THEN Return(t)
                         ELSE Drop(t, "work", at.done) /\ UNCHANGED arg
  /\ spawned' = Spawned(at)
  /\ Stored(t)
  /\ UNCHANGED <<miners, totalValid, conn, chain>>

\* Begin a sync: the periodic task's tick, or a spawned task.
BeginSync(t) ==
  /\ pc[t] = "idle"
  /\ Keep(t, [height |-> 0])
  /\ Move(t, "sync_sent")
  /\ UNCHANGED <<miners, work, totalValid, conn, nodeVars>>

Tick(t) == "sync" \in Ops[t] /\ BeginSync(t) /\ UNCHANGED spawned

RunSpawned(t) ==
  /\ "background" \in Ops[t] /\ spawned > 0
  /\ BeginSync(t)
  /\ spawned' = spawned - 1

-----------------------------------------------------------------------------
(* update_work over HTTP, and get_pool_stats over HTTP or for              *)
(* mining.get_hashrate.                                                    *)

UpdateWork(t, h) == Call(t, "post", [height |-> h], "post_work", "work", "write")

UpdateStore(t) ==
  /\ Reached(t, "post_work", "work")
  /\ work' = arg[t].height /\ workCurrent' = FALSE
  /\ Return(t)
  /\ UNCHANGED <<miners, totalValid, conn, spawned, chain, current>>

GetPoolStats(t) == Call(t, "stats", None, "stats_miners", "miners", "read")

StatsMiners(t) ==
  /\ Reached(t, "stats_miners", "miners")
  /\ Await(t, "stats_shares", "shares", "read")
  /\ UNCHANGED <<data, arg>>

StatsShares(t) ==
  /\ Reached(t, "stats_shares", "shares")
  /\ Await(t, "stats_valid", "valid", "read")
  /\ UNCHANGED <<data, arg>>

StatsReport(t) ==
  /\ Reached(t, "stats_valid", "valid")
  /\ Return(t)
  /\ UNCHANGED data

-----------------------------------------------------------------------------
Begin(t) ==
  \/ Subscribe(t) \/ Authorize(t) \/ Close(t)
  \/ \E share \in Shares : Submit(t, share)
  \/ \E h \in PostedHeights : UpdateWork(t, h)
  \/ GetPoolStats(t) \/ RunSpawned(t)

Sends == {Claimed, Candidate}
Syncs == {Claimed, Candidate, SyncOnly}

\* What the runtime brings about.
Continue(t) ==
  \/ RegisterMiner(t)
  \/ SubmitStale(t) \/ SubmitCurrent(t) \/ SubmitBlock(t) \/ SubmitShare(t)
  \/ ShareInvalid(t) \/ ShareValid(t) \/ ShareTotal(t)
  \/ \E at \in Sends : BlockHeight(t, at)
  \/ \E at \in Syncs : SyncAsk(t, at) \/ SyncStore(t, at)
  \/ UpdateStore(t)
  \/ StatsMiners(t) \/ StatsShares(t) \/ StatsReport(t)

\* What ends a request to the node: an answer or the timer.
Settle(t) ==
  \/ ShareNoBlock(t) \/ ShareUnsendable(t) \/ ShareIsBlock(t)
  \/ \E at \in Sends : \/ SendBlock(t, at) \/ NoDifficulty(t, at)
                       \/ BlockFails(t, at) \/ BlockSent(t, at)
  \/ \E at \in Syncs : SyncFails(t, at) \/ NodeReports(t, at)

\* External: somebody else's block.
ChainGrows ==
  /\ chain < MaxChain
  /\ chain' = chain + 1
  /\ UNCHANGED <<miners, work, totalValid, conn, spawned, current, workCurrent,
                 taskVars>>

\* External: the node has lost a block, by a restart or to another chain.
ChainShrinks ==
  /\ NodeLoses /\ chain > 0
  /\ chain' = chain - 1
  /\ current' = {} /\ workCurrent' = FALSE
  /\ UNCHANGED <<miners, work, totalValid, conn, spawned, taskVars>>

Node == \/ ChainGrows \/ ChainShrinks
        \/ \E t \in Tasks, at \in Sends : NodeTakes(t, at)

Init ==
  /\ miners = << >> /\ work = 1 /\ totalValid = 0
  /\ conn = [t \in Tasks |-> NotSubscribed]
  /\ spawned = 0 /\ chain = 0
  /\ current = {} /\ workCurrent = TRUE
  /\ NoCalls(Locks)

Next ==
  \/ \E t \in Tasks : Begin(t) \/ Tick(t) \/ Continue(t) \/ Settle(t)
  \/ Node

Spec == Init /\ [][Next]_vars

\* The runtime polls every task that can go on and the periodic task ticks.
\* The node finishes every answer it begins (the timers end only requests
\* that get none), and it does not fail every request of the periodic task.
FairSpec ==
  /\ Spec
  /\ \A t \in Tasks : /\ WF_vars(Continue(t)) /\ WF_vars(Settle(t))
                      /\ WF_vars(Tick(t))
                      /\ SF_vars(NodeReports(t, SyncOnly))

-----------------------------------------------------------------------------
(* Which guards a task has at each await point.                            *)

Counting == {"shr_candidate", "shr_work", "shr_ask", "shr_sent", "shr_sync",
             "shr_reply", "shr_store"}

Claiming == {"sub_work", "sub_current", "blk_work", "blk_ask", "blk_sent",
             "blk_sync", "blk_reply", "blk_store", "sub_share"}

Syncing == {"sync_sent", "sync_reply", "sync_store"}

Points == Counting \cup Claiming \cup Syncing
          \cup {"idle", "reg_miners", "shr_miners", "shr_valid", "post_work",
                "stats_miners", "stats_shares", "stats_valid"}

Writes ==
  [miners |-> Counting \cup {"reg_miners", "shr_miners", "shr_valid"},
   work |-> {"blk_store", "shr_store", "sync_store", "post_work"},
   shares |-> {},
   valid |-> Counting \cup {"shr_valid"}]

Reads ==
  [miners |-> {"stats_miners", "stats_shares", "stats_valid"},
   work |-> {"sub_work", "blk_work", "shr_work"},
   shares |-> {"stats_shares", "stats_valid"},
   valid |-> {"stats_valid"}]

Wants == [point \in Points |-> [lock \in Locks |->
            IF point \in Writes[lock] THEN "write"
            ELSE IF point \in Reads[lock] THEN "read" ELSE "none"]]

HeldAt == [point \in Points |->
  CASE point \in Counting -> {"miners", "valid"}
    [] point \in {"shr_valid", "stats_shares"} -> {"miners"}
    [] point = "stats_valid" -> {"miners", "shares"}
    [] OTHER -> {}]

Submitting == Claiming \cup Counting \cup {"shr_miners", "shr_valid"}

ArgOf(point) ==
  CASE point \in Submitting -> Job
    [] point \in Syncing \cup {"post_work"} -> [height : Nat]
    [] OTHER -> {None}

TypeOK ==
  /\ miners \in Seq(Session)
  /\ {work, totalValid, spawned, chain} \subseteq Nat
  /\ current \subseteq Tasks /\ workCurrent \in BOOLEAN
  /\ conn \in [Tasks -> [miner_id : 0..Len(miners), is_authorized : BOOLEAN]]
  /\ LockInv(Locks, Points, Wants, HeldAt)
  /\ DOMAIN arg = Tasks
  /\ \A t \in Tasks : arg[t] \in ArgOf(pc[t])

-----------------------------------------------------------------------------
(* What miners and operators may rely on.                                  *)

ValidShares(sessions) ==
  SumFunctionOnSet([i \in DOMAIN sessions |-> sessions[i].valid_shares],
                   DOMAIN sessions)

\* Whoever can read the sessions finds that their valid shares add up to the
\* pool's total, whatever became of the blocks among them: a share is counted
\* under two locks, and the total is not touched when its block fails.
SharesAddUp ==
  ~WriteHeld(locks["miners"]) =>
    /\ totalValid = ValidShares(miners)
    /\ \A i \in DOMAIN miners :
         miners[i].shares = miners[i].valid_shares + miners[i].invalid_shares

\* Only sessions that were authorized have shares: a connection may subscribe
\* again, which gives it another session, and authorizes only the one it has.
AuthorizedOnly ==
  \A i \in DOMAIN miners : miners[i].shares > 0 => miners[i].authorized

\* Work stored from an answer that the node gave since it last lost blocks is
\* at most one above the node's chain: a share for the node's next block is
\* not stale.  Whatever height the pool had before, posted or from before the
\* loss, the first such answer sets it back; it takes another loss, another
\* post, or an older answer that arrives later still, to leave it ahead again.
WorkNotAhead == workCurrent => work <= chain + 1

\* Once the node loses no more blocks, the work comes back to its next height
\* again and again: whatever a posted height, a lost block or a late answer
\* made of it, a later sync corrects.
WorkCatchesUp ==
  <>[][chain' >= chain]_chain => []<>(work = chain + 1)

\* Every request is done with in the end, although submit_share waits for
\* the node with the sessions locked.
RequestsEnd ==
  \A t \in Tasks :
    pc[t] \in {"reg_miners", "sub_work", "stats_miners", "post_work"}
      ~> pc[t] = "idle"

-----------------------------------------------------------------------------
(* Why: what holds of the requests under way.                              *)

\* A connection that is authorized has an authorized session, and so has one
\* that submits.
ConnInv ==
  /\ \A t \in Tasks :
       /\ conn[t].is_authorized => /\ conn[t].miner_id # 0
                                   /\ miners[conn[t].miner_id].authorized
       /\ pc[t] \in Submitting => conn[t].is_authorized
  /\ AuthorizedOnly

Replying == {"blk_reply", "blk_store", "shr_reply", "shr_store",
             "sync_reply", "sync_store"}

\* A current answer is a block count that the node has not fallen below.
HeightInv ==
  /\ \A t \in Tasks :
       t \in current => pc[t] \in Replying /\ arg[t].height <= chain
  /\ WorkNotAhead

\* The inductive invariant.
StratumInv == ConnInv /\ HeightInv
=============================================================================
