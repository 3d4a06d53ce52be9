# A TLA+ model of silver-pow

silver-pow is the proof-of-work crate of the Silver blockchain: a mining pool,
the Stratum protocol, block submission to a node, difficulty adjustment, reward
accounting and a transaction engine. Almost all of it has one form. A component
is a struct whose fields are `Arc<RwLock<_>>` (tokio's fair lock), and its
methods are `async` functions that lock several fields one after another. Any
number of tasks call them at once. What is hard about it is mostly
interleaving: which guards a method still has when it awaits the next lock, what
it has read before an await and uses after it, and which of its updates another
task can see alone. Only the node binary persists anything; there it is also
what a process that ends between two puts leaves behind.

The models therefore have an action per *segment* of a method: the code from
one `.await` to the next. They are checked with TLC on small instances, and every
safety property that TLC checks there is proved with TLAPS for every value of
the constants.

## Inventory

| Component | State | Operations | Interacts with |
|---|---|---|---|
| Mining pool, `mining_pool.rs` | miners, accounts, stats, shares and current work, a lock each; an atomic share counter | register/unregister a miner, submit a share, pay, add a fee, clear old shares, estimate a payout, distribute work, three reports | calls `Miner::set_work`; called by every connection |
| Difficulty manager, `difficulty_adjustment.rs` | the last block times, the difficulty in force, the history of adjustments, a lock each | record a block time, calculate, override, report | called per block by whoever follows the chain |
| Block submission, `block_submission.rs` | the last block's hash and its height, a lock each | submit a block, follow the chain, report | builds blocks with `block_builder.rs`; calls the node over JSON-RPC |
| Reward ledger, `reward_distribution.rs` | accounts, reward history, total paid, a lock each | record a block's reward, pay, report | called per accepted block |
| Reward calculator, `rewards.rs` | none | the halving schedule, once more | pure |
| Stratum pool, `stratum_pool.rs` | miner sessions, current work, total and total valid shares, a lock each; per connection the miner and whether it is authorized | subscribe, authorize, submit a share, send a block, sync the height, post work, report | node RPC; one task per connection, one per HTTP request, a periodic sync, syncs spawned after blocks |
| Stratum client, `stratum_client.rs` | reader, writer, connection state, request id, current height, a mutex each | connect, subscribe, authorize, submit, reconnect, keep alive | peer of the Stratum pool |
| Stratum server, `stratum.rs` | clients, current work, difficulty, rate limits by address, a lock each | accept, subscribe, authorize, submit, set and broadcast work | one task accepts, one serves each connection |
| WebSocket server, `websocket_server.rs` | the client table behind a lock; a bounded broadcast channel | serve a connection, subscribe, unsubscribe, broadcast | fed by the node and whoever owns it; peers |
| Miner, `miner.rs` | statistics, current work, times of proofs, a lock each; an atomic hash counter | set work, take it, mine it once or for ever, reset, report | one per chain, kept by the engine; given work by the pool |
| Consensus engine, `consensus.rs` | states of the chains, miners, block history, a lock each | initialize a chain, create work, submit a block (and retarget), report | work and difficulty functions; its callers carry packages and proofs to and from the miners |
| Set of outputs, `transaction_engine.rs` | outputs and an index of their keys by address, a lock each | add, spend, list, validate a transaction against it | behind the engine, which passes calls on to it |
| Transaction engine, `transaction_engine.rs` | accounts, mempool, transactions, results, a lock each | submit, execute, look up an account, report | called by its owner |
| Block builder and validator, `block_builder.rs`, `block_validator.rs` | none | build, serialise, validate | pure; the validator expects of adjustments and proofs what the engine computes otherwise |
| Work and difficulty, `work.rs`, `difficulty.rs` | none | difficulty to target, hash to difficulty, retarget | pure |
| Node, `bin/node.rs` | the blockchain state and its balances, the database, the shutdown flag | JSON-RPC, save, load, shut down | accepts blocks through `silver_core`; announces them through the WebSocket server |
| Other binaries, `bin/*.rs` | argument parsing | | wire the library |

What is hard in each, and what makes it correct:

* **Mining pool.** Registry and published count are three values behind three
  locks; a share is counted, credited and logged under three more, and two of
  these orders are opposite. A payout estimate reads the log twice. Ages of
  shares are unsigned differences. Correct: a reader never sees half a
  registration; a counted share is in the log exactly once; a report never counts
  what it cannot find; callers see each operation happen at once; calls return.
* **Difficulty manager.** An adjustment keeps the block times to its end, drops
  the difficulty between reading and replacing it, and keeps the history from
  the record to the update. Blocks arrive out of order and differences wrap.
  Correct: the last record of the history is in force; adjustments are bounded;
  the window an adjustment was computed from does not change under it; none is
  lost to one that knew fewer blocks; calls return.
* **Block submission.** Hash and height are one fact behind two locks. The hash
  is copied before, and the height read after, other tasks may have moved both;
  the node answers in any order, late, in part or not at all. Correct: hash and
  height stay a pair; a submitted block extends the tip it names unless another
  was stored meanwhile; no lock is kept over the network.
* **Reward ledger.** A reward is credited and then recorded, a payout taken and
  then totalled, each under two locks. Correct: accounts, history and total
  agree for whoever can read them; nothing unrecorded is paid; no account is
  overdrawn, even once amounts saturate.
* **Stratum pool.** `submit_share` waits for the node with the sessions and the
  total write-locked; a block is sent before its share is counted and again
  while it is; a height that left the node long ago is stored without looking at
  the one it replaces, by whoever asked. Correct: the sessions' counts add up to
  the total for whoever can read them, failed blocks included; shares go to
  sessions that were authorized; the work is not ahead of the node and catches
  up with it; every request ends.
* **Stratum client.** Reader, writer and state are three locks that connect and
  reconnect set one after another while a second task may be sending; answers
  come late, for requests nobody waits for, or not at all, and only
  `submit_share` looks at their ids. Correct: an authorized client is one to the
  pool as well; what is said of a share is what became of that share; a lost
  authorization comes back; every submission ends.
* **Miner.** Any number of tasks mine on what they were given, look for other
  work once in an interval, and count hashes in an atomic no lock protects, which
  a reset clears while they run. Correct: stale work is left within the interval;
  statistics never run ahead of the counter they were read from.
* **Consensus engine.** A chain and its miner, a block and its record, are two
  locks apart; work is a copy of a chain's state that leaves the lock, is mined,
  and comes back as a proof when blocks and a retarget may have happened. The clock may
  have been set back. Correct: chains are whole for whoever can read them;
  retargets come on schedule and are moderate; work stays good until its height is
  taken; a higher difficulty is harder to meet.
* **Set of outputs.** Adding locks the outputs and then the index, listing the
  other way round; validation looks its inputs up one by one. Correct: every
  output is listed for whoever can read it, and nothing else is; a validation
  answers as if it had looked at one moment, although its inputs are spent meanwhile.
* **Transaction engine.** An execution works on copies of accounts and locks the
  accounts anew for every read and update; sums wrap where single amounts do not.
  Correct: the accounts are what the recorded transactions make of them one after
  another, and money comes from wrapped sums only.
* **Stratum server.** The number of clients is tested by the acceptor, but a client
  is entered by its own task, later, and not every end of a connection takes it
  out. Correct: the table holds the live and the abandoned, and exceeds its limit
  only by the connections nobody had counted.
* **WebSocket server.** A welcome that fails leaves its client; a peer that comes
  back shares its entry with its first connection, whose end removes it. The
  table stays locked while a slow peer is written to. Correct: the table follows the
  connections, and an entry what its peer asked for.
* **Node.** A block is accepted under one lock, saved under another and announced
  under a third; the state is saved by puts, and the process may end between any two
  of them. Correct: acknowledged blocks survive, no height is rewarded twice, heights
  are announced in order.
* **The rest** is listed with its hazards, line by line, in `PROJECT.json`.

## Plan

1. `FairRwLock`, `LockedTasks`: the lock and the form of a component. Done, proved.
2. `MiningPool` with `AtomicPool`, what it promises its callers. Done, proved,
   the refinement included.
3. `DifficultyManager`. Done, proved.
4. `BlockSubmission` with the node as its environment. Done, proved.
5. `RewardDistribution`. Done, proved.
6. `StratumPool` with the node as its environment. Done, proved.
   `StratumClient` with the pool's end of its connections. Done, proved.
7. `ProofOfWork`, `Miner`, `PoWConsensus`: work packages that outlive a block and
   a retarget. Done, proved.
8. `Transactions`, `UTXOSet`, `TransactionEngine`: the set of outputs with its
   circle of locks, and the engine over it. Done, proved.
9. `WebSocketServer` and, composed with it, `Node`: the node's way from a block to
   the database and the subscribers, crash and restart. Done, proved.
10. `StratumServer`. Done, proved.
11. `BlockValidator`: what a validator says of the engine's adjustments and proofs.
   Done, proved inside `PoWConsensus`.

Every safety property a run checks is a theorem. Abstract specifications still worth
stating: what the reward ledger and the transaction engine promise their
callers, as `AtomicPool` does for the pool.

Runs still to consider: blocks of one height sent twice although a comment of
`stratum_pool.rs` (869-871) says that the sync prevents it, and `total_shares`
(73), which nothing increments.

Four behaviours the models have are not shown by runs of their own:

* the circle of an adjustment, a report and a block queued between them
  (`DeadlockShape` of `difficulty_calls` names it as one of three);
* the clearing that reads the clock before it has the log, so that the age of a
  share logged meanwhile wraps and the share is removed (`ClearRetain`);
* a block that passes validation although it was built on a stale tip: the
  height is compared (`block_submission.rs` 192), the hash is not, and the
  comments at 43 and 71 speak of the previous hash (`OvertakenOnly` says how
  far this can go);
* a null result that the client takes for acceptance (`stratum_client.rs` 317-326)
  although the pool answers a rejected share with exactly that
  (`stratum_pool.rs` 1445-1449); `AnswersMatch` has what does hold.

## Modules

### The common form

`FairRwLock` is `tokio::sync::RwLock` as the crate uses it: requests are served
in the order they were made, adjacent readers share the lock, and a reader behind a
waiting writer waits. A lock is a function from tasks to requests; a request
knows the tasks ahead of it, so there is no ticket that grows without bound.

`LockedTasks` is the form of a component: `locks`, and for each task the await
point it is at (`pc`) and the locals it still needs (`arg`). `Enter` begins a
call, `Await` asks for one more lock keeping the others, `Drop` lets a guard go,
`Return` drops them all. A step of a task runs once the lock it asked for is
granted (`Reached`). Dropping a guard and asking for the next lock are two
steps: on a multi-threaded runtime another task may take its place in the queue
between them. `Stuck` and `Deadlock` say that tasks wait for each other in a
circle.

Each component gives two tables, `Wants` (the mode in which a point has each
lock) and `HeldAt` (the guards a task had when it got there). That every
reachable state agrees with them is `LockInv`, part of each `TypeOK`. The tables of the
node and of the Stratum server stand with their proofs (`NodeGuards`, `ServerGuards`).

### Components

| Module | Code | Correspondence |
|---|---|---|
| `MiningPool` | `mining_pool.rs` | Variables are the fields of `MiningPool`; `shares` are numbered by the counter so that each is one element. Actions are named after the method and the segment: `RegisterInsert`, `RegisterAccount`, `RegisterCount` are the three segments of `register_miner`. `cleared` is a history variable. |
| `AtomicPool` | the same, as its callers see it | Each operation in one step; `MiningPool` instantiates it with a refinement mapping in which a share counts once its account is credited and a registration once its account exists. |
| `DifficultyManager` | `difficulty_adjustment.rs` | Integers are cut to `WordRange`; `Products` is the `f64` product cut to an integer, which may fall one below an exact integer (for difficulties up to 2^53; see Abstractions). `overridden` is a history variable. |
| `BlockSubmission` | `block_submission.rs` | `SendFails`, `SendAnswered`, `NodeRejects`, `NodeAccepts` are the node and the network; `tips` is a history variable. |
| `RewardDistribution` | `reward_distribution.rs` | The accounts hold saturating amounts up to `MaxAmount`; the schedule is `BlockReward`. |
| `StratumPool` | `stratum_pool.rs` | A task is a slot that connections, HTTP requests and spawned syncs use one after another; `conn` is what the handler of a connection keeps between messages. The calls to the node are one set of actions along the records `Claimed`, `Candidate`, `SyncOnly`: the await points of `submit_block_to_node` and of the sync for each of their callers. `chain`, `NodeTakes`, `NodeReports`, `ChainGrows` and `ChainShrinks` are the node, which may lose blocks as `Node` shows; `authorized` in a session is history, and so are `current` (who carries an answer given since the last loss) and `workCurrent` (whether the work is of such an answer). |
| `StratumClient` | `stratum_client.rs`, the mining loop of `bin/cpu_miner_real.rs`, the handlers of `stratum_pool.rs` | `reader`, `writer`, `state` and `nextId` are fields of `StratumClient`; `miner` is where the one thread is that connects, submits and reconnects, `keeper` where a task is that keeps the connection alive. `conns` are the connections: a queue of lines each way and what the pool knows. `PoolHandles` is the pool's handler, reduced to the order of its answers; `log`, `accepted` and `rejected` are history variables. |
| `ProofOfWork` | `work.rs`, `difficulty.rs` | The arithmetic: a target is its last eight bytes (the first 56 are always 0xFF), a hash its last eight or the number of its leading zero bits; `Meets` compares them byte by byte, `AdjustedDifficulties` is the `f64` retarget. |
| `BlockValidator` | `block_validator.rs` | The validator's limits and factor for a difficulty and its own target (leading zero bits), which `RetargetsOnSchedule` and `WorkGoodUntilTaken` set against what the engine does. |
| `Miner` | `miner.rs` | The fields of `Miner`, and what each caller has in its hands: `package` and `proof`. `MineWork` to `MineUpdate` are the loop of `mine_work_with_address`, one `TryNonce` per nonce; the nonce's hash is any of `Hashes`. `stale` is a history field. |
| `Transactions` | the sums and the context-free checks of `transaction_engine.rs` | `Wrapped` is `sum()` in a release build, `Plus` is `saturating_add`; the amount of an input is made up from its place among the inputs (`GuessedAmount`). |
| `UTXOSet` | `UTXOSet`, `validate_with_utxo_set` | `utxos` and `address_utxos` are the two maps; a call validates with `seen`, the amounts it has found so far. `added` and a validation's `since` and `before` are history. |
| `TransactionEngine` | `TransactionEngine`, `AccountState` | The four vectors and maps. `ExecuteTake` to `ExecuteResult` are the segments of one execution; `sender` and `recipient` are the copies it works on. |
| `WebSocketServer` | `websocket_server.rs` | `clients` is the table; a task is a connection, `queues` its receiver of the bounded broadcast channel. `leaked`, `reused` and a call's `asked` and `lost` are history. |
| `Node` | `bin/node.rs` | Extends `WebSocketServer`: `handle_rpc`, `save_blockchain_state_to_db` put by put, the load at start, shutdown, and a process that just ends. `db` is the database; `accepted`, `durable`, `announced`, `others` and `starts` are history. |
| `StratumServer` | `stratum.rs` | `AcceptBlocked` to `AcceptSpawn` are the acceptor, `Greet` to `AnswerFails` the task of a connection. Windows of the rate limits may be over at any test of them. `accepted` numbers the clients; `unlisted` and `abandoned` are history. |
| `PoWConsensus` | `consensus.rs` | The fields of `PoWConsensus`, composed with the miner of the chain `Chain`, which stands for each of them: miners share nothing. `package`, `proof` carry work from `create_work_package` to the miner and back to `submit_block`; `ForeignProofs` come from elsewhere. |

The `MC*` modules give each task the operations it calls, and constants. In the
modules an operator whose comment begins with *Variant* is a form the code does
not have; no action uses it. Each shows, put in the place of the operator after
it, that a property would notice.

## What is checked

| Run | Instance | Result |
|---|---|---|
| `pool_calls` | two front ends that register, unregister and submit, a back office that pays, reports, clears; two ids for one place | Registry, log and detailed report are consistent, every deadlock is one of `submit_share` with a registration, and the pool implements `AtomicPool`. |
| `pool_returns` | a front end, a reporter, one distributor, fair | Every call returns unless some deadlock (so error paths drop their guards), and between distributions each miner works on the pool's current work or on none yet. |
| `difficulty_calls` | two that adjust, one that records, overrides and reports | The history accounts for the difficulty in force: every record is a bounded move, wrapped differences included, and the last one is in force until an override. The window is stable, one adjustment overlooks another only if both saw the same blocks; every deadlock is one of three. |
| `submission_calls` | two submitters, one follower who reports; fair | Hash and height are a pair; a validated block extends the tip it was built on unless another was stored; updates and reports return whatever the node does. |
| `stratum_calls` | two connections, one of which also serves HTTP and spawned syncs, and the periodic sync; four shares | Counts add up, whatever becomes of the blocks among the shares, and only authorized sessions have shares. |
| `stratum_sync` | one connection, HTTP and spawned syncs, the periodic sync, a node that may lose its block; fair | Work stored from an answer given since the last loss is never ahead of the node's next block; once no more blocks are lost the work comes back to the node's next height for ever, whatever was posted, lost or arrived late; and every request ends. |
| `client_calls` | the thread and a keepalive; two shares, one ping, two faults | The client is authorized where it says so, its verdicts are the pool's, it gets its authorization back and every submission ends. |
| `rewards_calls` | two nodes and a back office | Accounts, history and total agree, nothing unrecorded is paid (`LedgerAgrees`), no account is overdrawn. |
| `consensus_calls` | one that mines, one that initializes chains, submits proofs from elsewhere, puts older work back, resets and reports; two chains | Chains have their miners and whole records, retargets come on schedule and by a factor the validator lets pass, work stays good until its height is taken and is accepted if the validator passes it, statistics never run ahead of the counter, stale work is left within the interval. |
| `engine_calls` | two that submit and execute and one that looks accounts up and reports; or two that add and spend and one that lists and validates | The index follows the outputs, a validation answers as if it had looked at all inputs when it began although outputs are spent meanwhile, the accounts are a replay of the recorded transactions, money comes from wrapped sums only, every deadlock is one of two. |
| `node_calls` | two handlers of blocks in a process that is shut down, ends, or has a put fail, and starts again; or two connections while events are announced; or one of each | Acknowledged blocks survive, no height is rewarded twice, heights are announced in order, the client table follows the connections. |
| `server_calls` | the acceptor, the owner of the work, two handlers for three connections, room for one client | The table holds the live and the abandoned, and is over its limit only by connections that were not listed when the last one was counted. |

### Where the code and its comments disagree

Three more configurations are kept for what the models show of sentences of the
repository that the code does not keep. They end with a counterexample and are run
by hand (`tlc -config <file> <module>`):

* `MCMiningPool_deadlock.cfg` (`NoDeadlock`): `register_miner` keeps the accounts and
  waits for the stats (`mining_pool.rs` 272-279), `submit_share` the other way
  round (349-363). The repository's `README.md` (143-144) calls the state thread-safe.
* `MCMiningPool_payout.cfg`: a clearing between the two reads of the log
  makes a payout exceed the reward less the fee that the comment at
  `mining_pool.rs` 432 speaks of.
* `MCPoWConsensus_target.cfg`: a retarget raises the difficulty from 6 to 12 and the
  target with it, although `work.rs` (103, and the test at 429) means higher
  difficulty to be a lower target. As every target begins with 56 bytes 0xFF, nearly
  every hash meets every one anyway.

The crate's timeouts and `select!`s stand inside the loops of the
servers and around whole servers in the binaries; none wraps a call of these
components, so the counterexamples are behaviours of the code as written.

Each passing property has been seen to fail when one definition is replaced by
its variant. `HistoryAgrees` fails as well when `Products` loses its two clamps: blocks
recorded out of order give a difference of heights that wraps.

### Bounds, and why they are enough

Three tasks: one more than the longest chain of "one is half done, one waits"
the properties speak of, and exactly the circle of the difficulty manager. Two
miners and one place make registrations refuse each other for both reasons.
Two shares at most in a behaviour allow one to be logged while another is
counted, or cleared while another is pushed. In `difficulty_calls` an interval
of one block gives a window of two, three heights make it slide, and two
timestamps recorded in either order give ratios clamped from above, from below by
a wrapped difference, and a division by zero refused; two adjustments can pass
each other by (a call begins only while fewer than `MaxAdjustments` are recorded,
so a third one may still be under way). `MaxTips` of three lets two updates
overtake a submission. In `rewards_calls` amounts saturate at four within two
recorded rewards, and height 64 is beyond the last halving. In `stratum_calls`
the shares are a block its miner claims, one it does not, one that cannot be
sent and a hash that is none; the node's difficulty may be zero or meet the
pool's; two sessions let a connection subscribe again. The node's blocks are not
lost in this run (`NodeLoses`), since neither property is about them. A submission begins only while no
share is counted, so two may be counted at once. In `stratum_sync` one block of the
node, which it may get, lose and get again any number of times, separates current answers
from those of before a loss, and a height is posted far above; three tasks may each
carry an answer. In `client_calls` a fault is a
connect refused, a read given up or a connection closed while in use; two of
them make a reconnect fail in its handshake, or an answer late and then lost.
`MaxConns` of six is more than two faults and a failed keepalive can use up: if
it ever stopped the thread, `Reauthorizes` would fail. In `engine_calls` amounts have
three bits, so that two outputs of four wrap to nothing, which is the only way money
comes in; three transactions are that one and two that spend what it made, one with
an output to its own sender, one with a fee. Calls about outputs and calls of the engine
never meet in the code, so a workload has the one or the other: two keys, two
additions (the same key twice among them), inputs of two lengths that are refused, and one
transaction that names an output twice.
In `node_calls` two blocks are accepted and the process is started three times, so that
one block is lost by a failed save and the other half stored when it ends; a channel
that keeps one event makes every receiver lag, and an address that ends with another
lets an unsubscription take both. `server_calls` has one place, two handlers and three
connections: one that is counted, one that is not yet, and one that comes after a
failure; one message per window. In `consensus_calls` an adjustment after two blocks separates
a retarget from a block without one; the mined chain gets its first block from the
miner and its second from either side, the other chain gets a block in between; the
clock has two values and may go back, which gives a period of zero, of one second and
one that wraps. `InitialDifficulty` is 6 where the code has 1 000 000, so that the
targets before and after a retarget differ and one of the two hashes is between them
(TLC's integers have 32 bits). A look for other work after every hash
and one kept proof time are the smallest intervals; two hashes let one be found on work
that has been replaced. A caller begins nothing new while it has work or
a proof in its hands (`EmptyHanded`). Calls are not begun
beyond a bound but always go on to their end. Symmetry is used in `pool_calls`,
on the two front ends, which have the same operations, and on the miners, and in
`server_calls` on the two handlers.

No state is a deadlock for TLC's own check: a bounded instance stops, and
circles of waiting tasks are what `NoDeadlock` and `DeadlockShape` are about.

### Fairness

Weak fairness of `Continue(t)` for each task: the runtime polls a task again
once the lock it waits for is granted, and its timer fires. None for `Begin`
(nobody promises to call), for `Tick` (the clock), or for the node's finishing
an answer. `CallsReturn` is weakened by the deadlock it cannot exclude.

`StratumPool` asks for more, because its requests wait for the node with locks
kept. `Settle(t)`: a request to the node is answered, refused or ended by its
timer; the timers cover the request and the headers of an answer, so this also
assumes that the node finishes a body it begins. `Tick(t)`: here the periodic
task, which asks again every five seconds. And strong fairness of `NodeReports`
for the periodic task alone: a node that is asked again and again answers some
time. Without it the work stays where it was, as it should. Miners and HTTP
clients promise nothing. Nothing keeps the node from losing blocks for ever, and then the
work may stay behind: `WorkCatchesUp` is about behaviours in which that ends.

`StratumClient`: weak fairness of the mining thread, whose loop has no other
exit and whose every read has a timer, and of the pool's handler on each
connection. None for finding shares, for keepalives, or for faults.

The transaction engine, the node and the Stratum server are checked for safety only.

## What is proved

For any number of tasks, any constants that satisfy the named assumptions, and
no bound on the behaviour beyond the guards':

* `LockedTasksProofs`: `Enqueue` and `Leave` keep a lock well formed and take
  nobody's grant away; a write guard excludes every other (`WriterExcludes`). Each of `Enter`, `Await`, `Drop`, `Move`, `Return` keeps
  `LockInv` if the component's two tables have the entries for it (`Asks`,
  `Drops`). A component's proof that its locks are held where the tables say is
  then one table lookup per action. Tasks that ask for their locks in one order
  never wait in a circle (`CircleLeavesOrder`). And the laws of sums that the
  components below need.
* `MiningPoolProofs`: `TypeOK`, `RegistryConsistent`, `LogComplete`,
  `DetailedReportComplete`, `DeadlockShape`, `PoolInv`, `ImplementsAtomicPool`, and
  `WorkAgreement` if one task alone distributes work (two may leave miners on
  different work).
* `DifficultyManagerProofs`: `TypeOK`, `HistoryAgrees`, `AdjustmentsBounded`,
  `WindowStable`, `OverlooksSameBlocksOnly`, `DeadlockShape`, and `ManagerInv`.
* `NodeProofs`: of the submission handler `TypeOK`, `PairCoherent`, `OvertakenOnly`,
  `NoDeadlock`, and `SubmissionInv`; of the node and its WebSocket server
  `AcknowledgedSurvive`, `OneRewardPerHeight`, `AnnouncedInOrder`,
  `TableTracksConnections`, `NoDeadlock`, with `NodeInv` and `TableInv`.
* `RewardDistributionProofs`: `TypeOK`, `AccountsBalanced`, `LedgerAgrees`,
  `NoDeadlock`, and `LedgerInv`.
* `StratumProofs`: of the Stratum pool `TypeOK`, `AuthorizedOnly`, `WorkNotAhead`,
  `SharesAddUp`, `NoDeadlock`, `StratumInv`, and `TallyInv`; of the Stratum server
  `ClientsBounded` with `ServerInv`, and `NoDeadlock`.
* `TransactionEngineProofs`: `TypeOK`, `OneExecution` (executions exclude each
  other), `OutputsListed`, `DeadlockShape`, `LedgerIsReplay`, `MoneyFromWrapsOnly`,
  `ValidatesTheStart`, and `CopiesInv`.
* `MiningProofs`: of the consensus engine and the miner `TypeOK`, `ChainsWhole`,
  `RetargetsOnSchedule`, `WorkGoodUntilTaken`, `StatsTrailHashes`,
  `StaleHashesBounded`, `NoDeadlock`, with `ChainsInv`, `WorkInv`, `StatsInv` and
  `StaleInv`; of the Stratum client `ClientTypeOK`, `AuthorizedBelieved` and
  `AnswersMatch`.

For the components with locks the argument is much the same each time. What callers rely on holds only for those
who can get a guard, so it is not inductive. The inductive invariant says what is true
*between* the segments: which guards each task has (`LockInv`), and by how much the
data is behind for each place a task can be half done. `RegistryInv` has the accounts
short of the one id whose owner is at `reg_accounts`; `LogInv` the log short of
the one share whose owner keeps stats; `HistoryInv` the difficulty one record
behind while somebody at `calc_current` keeps the history; `TipInv` the height
one update behind while somebody keeps the hash for writing; `ListedOrOwed` the index
short of the one key whose owner is at `add_index` and keeps the outputs. `WriterExcludes`
and the tables make that somebody unique. `OverlookInv` and `BlockInv` add what
an adjustment, or a block under way, still knows to be true of what it read.
`ConnInv` says whose share is under way and `HeightInv` that a current answer, one that
the node gave since it last lost blocks, is not above its chain; their proof sorts the segments into five kinds
(`Kinds`), so that each part is shown once per kind and not once per action.
The reader's property follows because whoever is half done still holds a guard
the reader would need.

Where the data is a sum the same argument needs its size. `LedgerInv` has the
ledger sound once the record, or the addition to the total, that one task still owes
is counted in; `TallyInv` the total one valid share short of the sessions' while
somebody is at `shr_valid`. For the engine `CopiesInv` says first that an
execution's copies are what the accounts hold: it keeps the mempool, and the only other
writer of accounts, the opening of one, leaves those that exist as they are. On
it rest two invariants. One compares the accounts at each place of an execution with
the replay of the recorded transactions and of the outputs paid so far; the
other bounds the sum of the balances, which goes beyond what wrapped sums have
created by just what is credited before the debit. `SeenInv`, for validations,
says what was seen of the inputs in terms of the outputs there were at the
beginning: outputs only ever get spent unless they are added again, so an input
found unspent late was so then, and nobody needs it to be so still.

The refinement of `AtomicPool` rests on the same invariants. A step is unseen, or one of
eight. `LogInv` makes the share credited the one whose number is the counter's, and at most
one share is between its count and its push, so that the counts callers see are those of the
statistics less that one; `RegistryInv` leaves room for the registration whose
account appears. The push and the count are stutters.

The engine adds a record to this. `ChainsInv` has the record of each chain whole once the
block that somebody at `submit_history` owes is appended: its heights are numbered
once each, its work adds up, and each difficulty follows from the one before. That one
more block keeps all this is a lemma about sequences of records (`WholeNext`),
and that a validator lets a retarget pass one about the arithmetic (`AdjustedModerately`):
the ratio is clamped to 1/4..4 before the product is cut to an integer. `WorkInv` says of all work that it
is good in this sense: no higher than its chain's next block, and if for the next block, in the
difficulty in force. Only another block of the chain changes that difficulty, and it takes the
height. A proof the validator passes meets the engine's target (`ValidMeets`), since a hash
that does not begin with 56 bytes 0xFF is below every target, and one that does has no
leading zero bit, so that it passes for the difficulty 1 alone, whose target is all ones.
`StatsInv` has a proof counted but its time not yet kept, and statistics
cleared but the counter not, each by the one task that keeps them. `StaleInv` has the
hashes made on replaced work no more than those made since the last look.

The node has a database besides. `SaveFacts` says of each place of a save that what the
handler has stored so far is still the state: it keeps the state's read lock from the
first put to its answer, and a block is paid under the write lock. `StateInv` adds
that the process is never behind the database, and that the stored balances, if there are
any, have one reward for each height up to the stored count and a state a start
accepts: balances are stored last, so a count may be ahead of them but they are never
ahead of a count. With this a block acknowledged after its puts is still in the
database when another save has overwritten half of it, and what a start makes of
any half, the default miner's credits included, has one reward for each height. The end of the
process is a step like any other: it keeps the database and clears the rest.
`AnnounceInv` has no announced height above the block count, which the one who announces next
announces. For the table of the connections `OneServed` says that two tasks serve one
peer only if it came back too soon, so that an entry not shared is written and
removed by its own connection alone.

In the Stratum server the limit is tested when nobody has entered yet. `RoomKept` carries
the room the acceptor saw to the moment it starts the new task: the clients and the
connections not listed together are less than `max_clients` and those counted as not
listed, and every step in between only moves a connection from the one to the
other, or ends it. That no two connections have one id (`OwnIds`) makes a removal and
an insertion concern the connection's own entry.

No induction theorem can be used, since they take an operator as a parameter.
Their place is taken by the smallest counterexample: a finite set has a subset
that is smallest among those that lack a property (`SmallestSubset`), and a set of
natural numbers that holds 0 and with each number its successor is all of them
(`ClimbsTo`). The laws of sums (an element more, a changed value, other names
for the elements, bounds) follow from the one and the values of the recursive
functions that replay a transaction from the other.

A circle of waiting tasks leaves the order. Suppose that each of them asks only for
locks above all it keeps. Of those that wait for the highest lock anybody in
the circle waits for, take the one that the fewest are ahead of. Who blocks it
keeps that lock, and so waits for a higher one, or queues for it too, with fewer
ahead: for this the order of a queue is part of `WellFormed`. Where all places keep one
order there is no deadlock. Elsewhere an order is chosen that all places keep but
those of one shape, and as the choice of the order is free, two orders show
that a circle needs two shapes at once.

The client's is about lines under way. `Paths` orders those of one connection
(once it is authorized no subscription is left in it, and "true" comes only
from an authorized one); `IdsApart` says that an id is in one place at a time (a
request, or an answer that agrees with the log); `WaitOk` that the awaited id is that of a share, and
`Control` which connection is new or authorized at each place of the thread. Every step is
one of three kinds (`Quiet`, `Sends`, `Handles`), and each part is shown once
per kind.

Assumptions are named `ASSUME`s: finitely many tasks, a
percentage of at most 100, an interval of at least one block (zero divides by
zero in the code), `MinDifficulty <= MaxDifficulty`, difficulties that have a logarithm in
0..63 (they are unsigned integers of 64 bits and never zero), a clock that does not wrap, amounts that an unsigned integer of 128 bits can hold, transactions
whose inputs are a sequence, and, in `RewardDistribution`, that the schedule's values are natural numbers
(powers are beyond the provers). In `Node`, the owner of the process is one of its tasks,
and `None`, which stands for a count the database does not have, is no number.

Each inductive invariant, but for the lock tables of the node and of the Stratum
server, was checked with TLC on the instance of its component before it was proved; as their consequences are what the runs are about, it is
the proofs alone that keep them.

### Only model-checked

All liveness (`CallsReturn`, `LocalCallsReturn`, `WorkCatchesUp`, `RequestsEnd`,
`Reauthorizes`, `SubmissionEnds`): fairness and ENABLED are out of the prover's reach.

## Abstractions

* A task is never cancelled. Dropping a future at an await would leave the segments
  done so far; nothing in `src/` does so to these methods, except that a process
  that ends drops everything.
* Logging, hash rate estimates and timestamps no property speaks of are left
  out. Reports are modelled up to the moment they have read what they report.
* `SetWork` takes the miner's own lock for one assignment, so it is one step.
* Arithmetic is that of a release build: unsigned differences wrap. A debug
  build panics there.
* The retargets (`Products`, `Scaled`) are exact but for the one unit that cutting a
  rounded product to an integer may lose. That is `f64` for difficulties up to 2^53.
  Larger ones are rounded on their way into the product and may come out higher, so
  there the factor of four holds up to that rounding only.
* Which block has which hash is left open, and the node may answer anything.
  `NodeRejects` includes an answer that is no JSON; `SendFails` a request the
  node has taken though its answer is lost.
* The version and timestamp checks of `validate_block` are left out: the handler
  itself builds the block with version 1 and the current time. So are the nonce check and
  the recomputed hash of `validate_proof_of_work` (`block_validator.rs` 129-132, 152-162): in the
  model a proof's hash is its header's.
* Methods that take one lock, read and return are left out where a report
  with more locks is modelled: they hold nothing while they wait.
* In `StratumPool` addresses, hashes, difficulty bits and the encoding of a block
  are left out: a share is what the code finds out about it. The first sync of
  `start_pool` is a tick. `total_shares` never changes, so only its lock is
  kept, and no session is ever removed. `get_work` and `get_miner_stats` have no
  callers.
* In `StratumClient` an id is taken in the step that sends it, lines arrive whole or
  cut, and the pool is the order of its answers: which share it counts is
  `StratumPool`'s. The miner's address is one the pool accepts. Block heights and job ids
  are left out: nothing in the client reads the height, and the miner makes up
  the ids that the pool reads as heights. `send_keepalive` is public but nothing
  in `src/` calls it; it is modelled because it is what a second task of a client
  would do. With `MaxPings = 0` the model is the binary.
* SHA-512, the Merkle root and the header are left out of `Miner`: a nonce may hash to
  anything in `Hashes`, and the root is not in the work id, so work that differs in
  it alone is no other work to a mining task. `mine_continuous` is a caller that takes
  the current work, mines it and lets go of the proof. One of the hashes begins
  with 56 bytes 0xFF so that a target can refuse it; no machine would meet one by chance.
* `last_block_time` of a chain is read by a message only; uptime, hash rates and the mining
  pool the engine holds change nothing.
* In `TransactionEngine` the only money is what executions make, since no method
  credits an account. Gas, timestamps and the readers of one lock are left out, and so is the
  sum that `get_address_balance` makes of an address's list (129-132): it wraps, so what it
  reports of large amounts may be anything. Hashes and
  signatures are told apart by their length, and all of them are hexadecimal.
* `WebSocketServer`: pings, pongs and messages that are no request change nothing. An
  address channel's ending is the code's `ends_with` (`Endings`).
* `Node` is what `bin/node.rs` evidently means. At 556 it names a
  variable that does not exist, and at 602-610 the end of the save is garbled, so it does
  not compile as it stands. `silver_core` and ParityDB are external: a block is
  accepted or refused under the write locks of the state and of the balances, and a put
  that returned is there after the process has ended. `flush_database` and
  `verify_database_integrity` only log, so all there is to them is the time they take, in
  which the state is unlocked and other handlers go on (`ShutdownSaved`, then `Exit`). The node itself
  announces new blocks only; other events are what an owner of the server may announce
  (`Announce`). `bin/node_production.rs` neither loads nor saves and has no model.
* `StratumServer`: the field `sender` of a client is always `None`
  (`stratum.rs` 344, 485 and after), so a broadcast reaches nobody and changes nothing. Counts above
  the limit by address are kept as one. The difficulty is never read.

## Not modelled

* `rewards.rs`, `block_builder.rs`, the rest of `difficulty.rs` and the checks of
  `block_validator.rs` that compare a caller's number with a constant: pure functions that
  change nothing and that nothing in the library calls. (`validate_block_header` of the
  engine passes a header on to the validator; no caller of it decides anything by it.)
* `bin/node_production.rs`, the pool binary and the examples: argument parsing and calls of
  the library that the components' models already allow in any order. Tests and benches.
