-------------------------------- MODULE Node --------------------------------
(***************************************************************************)
(* The node (src/src/bin/node.rs): RPC handlers that share the blockchain  *)
(* state, the database it is saved to, and the WebSocket server that       *)
(* announces blocks.                                                       *)
(*                                                                         *)
(* handle_rpc hands a block to silver_core, saves the state, announces the *)
(* block and answers.  The state is saved under its read lock by puts one  *)
(* after another, the block count first and the balances last: the process *)
(* may end between any two.  A save that fails is logged and the block is  *)
(* acknowledged all the same.  At the next start the state is what the     *)
(* database holds; a state without balances is credited to a default       *)
(* miner, a database without a count or a difficulty is started afresh.    *)
(*                                                                         *)
(* silver_core and ParityDB are not in the repository.  As node.rs uses    *)
(* them, a block is accepted under the write locks of the state and of its *)
(* balances, and each put is there after the process has ended.  The       *)
(* mining address is left out: nothing here depends on it.                 *)
(***************************************************************************)
EXTENDS WebSocketServer

CONSTANTS
  Main,        \* the task that started the node and shuts it down
  Workloads,   \* in each, the operations each task calls
  BlockEvents, \* the channel of the events of new blocks
  Others,      \* events of other channels the owner of the server announces
  MaxBlocks,   \* bound: blocks accepted
  MaxStarts,   \* bound: starts of the process
  MaxOthers    \* bound: events of other channels

VARIABLES
  up,          \* the process runs
  block_count, \* BlockchainState::block_count
  balances,    \* BlockchainState::balances, as the rewards they consist of
  shutdown,    \* shutdown_requested
  db,          \* column "metadata" of the database
  workload,    \* the operations each task calls in this behaviour
  \* what the code does not keep:
  accepted,    \* blocks accepted so far
  durable,     \* blocks acknowledged after a save without an error
  announced,   \* heights announced since the start
  others,      \* other events so far
  starts       \* starts of the process so far

NodeOpNames == {"submitblock", "connect", "announce", "shutdown", "crash"}

ASSUME NodeAssumption ==
  /\ Main \in Tasks
  /\ Workloads \subseteq [Tasks -> SUBSET NodeOpNames]
  /\ {MaxBlocks, MaxStarts, MaxOthers} \subseteq Nat
  /\ Capacity \in Nat \ {0}

nodeData == <<up, block_count, balances, shutdown, db, accepted, durable,
              announced, others, starts>>
nodeVars == <<nodeData, socketData, workload, taskVars>>

NodeLocks == {"state", "balances"} \cup SocketLocks

\* The reward of a block; of none for what the default miner is credited.
Reward(height, block) == [height |-> height, block |-> block]

Rewards == [height : Nat, block : Nat \cup {None}]

ASSUME NoneNumberAssumption == None \notin Nat

NodeCall(t, op, value, point, lock, mode) ==
  /\ up /\ op \in workload[t]
  /\ Enter(t, value, point, lock, mode)
  /\ UNCHANGED <<nodeData, socketData>>

-----------------------------------------------------------------------------
(* handle_rpc with "submitblock".  silver_core accepts the block or        *)
(* refuses it; the state is saved in both cases.                           *)

RpcSubmitBlock(t) ==
  /\ ~shutdown /\ accepted < MaxBlocks
  /\ NodeCall(t, "submitblock", [block |-> None, failed |-> FALSE],
              "rpc_state", "state", "write")

RpcRefuse(t) ==
  /\ Reached(t, "rpc_state", "state")
  /\ Drop(t, "state", "rpc_done")
  /\ UNCHANGED <<nodeData, socketData, arg>>

RpcAccept(t) ==
  /\ Reached(t, "rpc_state", "state")
  /\ Await(t, "rpc_balances", "balances", "write")
  /\ UNCHANGED <<nodeData, socketData, arg>>

RpcCredit(t) ==
  /\ Reached(t, "rpc_balances", "balances")
  /\ block_count' = block_count + 1
  /\ accepted' = accepted + 1
  /\ balances' = balances \cup {Reward(block_count', accepted')}
  /\ Keep(t, [arg[t] EXCEPT !.block = Reward(block_count', accepted')])
  /\ pc' = [pc EXCEPT ![t] = "rpc_done"]
  /\ locks' = [locks EXCEPT !["state"] = Leave(@, t),
                            !["balances"] = Leave(@, t)]
  /\ UNCHANGED <<up, shutdown, db, durable, announced, others, starts,
                 socketData>>

SaveAsk(t) ==
  /\ pc[t] = "rpc_done"
  /\ Await(t, "put_count", "state", "read")
  /\ UNCHANGED <<nodeData, socketData, arg>>

-----------------------------------------------------------------------------
(* save_blockchain_state_to_db, under the read lock of its caller          *)

Stored == UNCHANGED <<up, block_count, balances, shutdown, accepted, durable,
                      announced, others, starts, socketData, arg>>

\* Variant: the height of the caller's own block is stored.
PutCountOwn(t) ==
  /\ Reached(t, "put_count", "state")
  /\ db' = [db EXCEPT !.count = IF t = Main \/ arg[t].block = None
                                THEN block_count ELSE arg[t].block.height]
  /\ Move(t, "put_difficulty")
  /\ Stored

PutCount(t) ==
  /\ Reached(t, "put_count", "state")
  /\ db' = [db EXCEPT !.count = block_count]
  /\ Move(t, "put_difficulty")
  /\ Stored

PutDifficulty(t) ==
  /\ pc[t] = "put_difficulty"
  /\ db' = [db EXCEPT !.difficulty = TRUE]
  /\ Await(t, "put_balances", "balances", "read")
  /\ Stored

PutBalances(t) ==
  /\ Reached(t, "put_balances", "balances")
  /\ db' = [db EXCEPT !.balances = balances]
  /\ Drop(t, "balances", "saved")
  /\ Stored

\* A put fails: the save returns, what was stored stays.
SaveFails(t) ==
  /\ \/ Reached(t, "put_count", "state")
     \/ pc[t] = "put_difficulty"
     \/ Reached(t, "put_balances", "balances")
  /\ Keep(t, [arg[t] EXCEPT !.failed = TRUE])
  /\ Drop(t, "balances", "saved")
  /\ UNCHANGED <<nodeData, socketData>>

-----------------------------------------------------------------------------
(* The rest of handle_rpc: the state is still locked as it was saved.      *)

\* Variant: the event has the height of the caller's own block.
HeightOfOwn(t) == arg[t].block.height

\* The height of the moment, which may be that of a later block.
HeightOf(t) == block_count

Respond(t) ==
  /\ t # Main /\ pc[t] = "saved"
  /\ IF arg[t].block = None
     THEN UNCHANGED <<durable, announced, queues>>
     ELSE /\ Broadcast([channel |-> BlockEvents, height |-> HeightOf(t)])
          /\ announced' = Append(announced, HeightOf(t))
          /\ durable' = IF arg[t].failed THEN durable
                        ELSE durable \cup {arg[t].block}
  /\ Return(t)
  /\ UNCHANGED <<up, block_count, balances, shutdown, db, accepted, others,
                 starts, clients, leaked, reused>>

-----------------------------------------------------------------------------
(* Shutdown: new requests are refused, those under way go on; after two    *)
(* seconds, in which anything may happen, the state is saved and the       *)
(* process ends with whatever still runs.                                  *)

RequestShutdown ==
  /\ up /\ "shutdown" \in workload[Main]
  /\ ~shutdown
  /\ shutdown' = TRUE
  /\ UNCHANGED <<up, block_count, balances, db, accepted, durable, announced,
                 others, starts, socketData, taskVars>>

ShutdownSave ==
  /\ shutdown
  /\ NodeCall(Main, "shutdown", [block |-> None, failed |-> FALSE],
              "put_count", "state", "read")

\* main drops the state before it flushes and verifies, which may take long.
ShutdownSaved ==
  /\ pc[Main] = "saved"
  /\ Drop(Main, "state", "flushing")
  /\ UNCHANGED <<nodeData, socketData, arg>>

\* What the process holds in memory is gone; what the database holds stays.
Ends ==
  /\ up' = FALSE
  /\ block_count' = 0 /\ balances' = {} /\ shutdown' = FALSE
  /\ announced' = << >>
  /\ clients' = << >> /\ queues' = [t \in Tasks |-> None]
  /\ leaked' = {} /\ reused' = {}
  /\ locks' = [l \in NodeLocks |-> FreeLock(Tasks)]
  /\ pc' = [t \in Tasks |-> "idle"]
  /\ arg' = [t \in Tasks |-> None]
  /\ UNCHANGED <<db, accepted, durable, others, starts>>

\* flush_database and verify_database_integrity only log what they find.
Exit == pc[Main] = "flushing" /\ Ends

Crash == up /\ "crash" \in workload[Main] /\ Ends

-----------------------------------------------------------------------------
(* main: load_blockchain_state_from_db, else the genesis state; then the   *)
(* balances, if there are none although there are blocks.                  *)

HasState == db.count # None /\ db.difficulty

LoadedCount == IF HasState THEN db.count ELSE 1

\* Balances that were never stored are as good as none.
LoadedBalances == IF HasState THEN db.balances ELSE {}

DefaultRewards == {Reward(h, None) : h \in 2..LoadedCount}

\* Variant: the default miner is credited whenever there are blocks.
PopulatedAlways == LoadedBalances \cup DefaultRewards

Populated == IF LoadedBalances = {} THEN DefaultRewards ELSE LoadedBalances

Start ==
  /\ ~up /\ starts < MaxStarts
  /\ up' = TRUE /\ starts' = starts + 1
  /\ block_count' = LoadedCount /\ balances' = Populated
  /\ UNCHANGED <<shutdown, db, accepted, durable, announced, others,
                 socketData, taskVars>>

-----------------------------------------------------------------------------
\* Any other event its owner has the server announce.
Announce(event) ==
  /\ up /\ others < MaxOthers
  /\ Broadcast(event)
  /\ others' = others + 1
  /\ UNCHANGED <<up, block_count, balances, shutdown, db, accepted, durable,
                 announced, starts, clients, leaked, reused, taskVars>>

Rpc(t) ==
  \/ RpcSubmitBlock(t) \/ RpcRefuse(t) \/ RpcAccept(t) \/ RpcCredit(t)
  \/ SaveAsk(t) \/ PutCount(t) \/ PutDifficulty(t) \/ PutBalances(t)
  \/ SaveFails(t) \/ Respond(t)

Process == \/ RequestShutdown \/ ShutdownSave \/ ShutdownSaved \/ Exit
           \/ Crash \/ Start

NodeInit ==
  /\ up = TRUE /\ starts = 1
  /\ db = [count |-> None, difficulty |-> FALSE, balances |-> {}]
  /\ block_count = 1 /\ balances = {} /\ shutdown = FALSE
  /\ accepted = 0 /\ durable = {} /\ announced = << >> /\ others = 0
  /\ NoConnections
  /\ workload \in Workloads
  /\ NoCalls(NodeLocks)

NodeNext ==
  /\ UNCHANGED workload
  /\ \/ Process
     \/ \E t \in Tasks : Rpc(t)
     \/ \E t \in Tasks : up /\ "connect" \in workload[t] /\ Connect(t)
                           /\ UNCHANGED nodeData
     \/ \E t \in Tasks : Serve(t) /\ UNCHANGED nodeData
     \/ \E t \in Tasks, event \in Others :
          "announce" \in workload[t] /\ Announce(event)

NodeSpec == NodeInit /\ [][NodeNext]_nodeVars

-----------------------------------------------------------------------------
(* What miners and subscribers may rely on.                                *)

\* A block that was acknowledged after a save without an error stays: at any
\* moment, with other blocks half saved or half stored, the process may end,
\* and what it then starts from counts the block and has its reward.
AcknowledgedSurvive ==
  \A block \in durable :
    /\ HasState /\ db.count >= block.height
    /\ block \in db.balances
    /\ up => block_count >= block.height /\ block \in balances

\* No height is ever paid twice, and none beyond the block count, whatever
\* the process had stored of the state when it ended; a reward whose block
\* is counted may be missing.
OneRewardPerHeight ==
  /\ \A r, s \in balances : r.height = s.height => r = s
  /\ up => \A r \in balances : r.height \in 2..block_count

\* The heights of the announced blocks never go back, whichever handlers
\* announce them; two blocks may be announced with the same height.
AnnouncedInOrder ==
  \A i, j \in 1..Len(announced) : i < j => announced[i] <= announced[j]
=============================================================================
