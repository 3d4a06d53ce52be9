---------------------------- MODULE PoWConsensus ----------------------------
(***************************************************************************)
(* The consensus engine (src/src/consensus.rs) and the miner of one of its *)
(* chains.                                                                 *)
(*                                                                         *)
(* The engine keeps the state of every chain, a miner for each and the     *)
(* record of the blocks behind three fair locks.  Its callers take a work  *)
(* package, hand it to a miner, mine it and submit the proof: each of      *)
(* these is a call of its own, so work may be old when it is mined and a   *)
(* proof when it is submitted.                                             *)
(*                                                                         *)
(* The miners of different chains share nothing: the one of the chain      *)
(* Chain stands for each of them.                                          *)
(***************************************************************************)
EXTENDS Miner, BlockValidator, Functions

CONSTANTS
  Chains,              \* chain ids the callers use, below 20
  InitialDifficulty,   \* 1_000_000 in ChainState::new, whatever the config says
  AdjustmentInterval,  \* difficulty_adjustment_interval
  WorkChains,          \* the chains they make work packages for
  BlockHashes,         \* and what they make them of
  Clock,               \* what SystemTime::now() may return, in seconds
  ForeignProofs        \* proofs not mined from the engine's packages

ASSUME ConsensusAssumption ==
  /\ IsFiniteSet(Tasks)
  /\ Chains \subseteq 0..19 /\ Chain \in Chains /\ WorkChains \subseteq Chains
  /\ {InitialDifficulty, AdjustmentInterval} \subseteq Nat \ {0}
  /\ BlockHashes \subseteq Nat /\ Clock \subseteq Nat
  /\ ForeignProofs \subseteq {p \in Proof : p.chain \in Chains /\ p.difficulty = 0}
  /\ Ops \in [Tasks -> SUBSET {"init", "work", "submit", "foreign", "report",
                               "set", "take", "mine", "reset"}]

\* Difficulties are u64 and never 0.
ASSUME DifficultyAssumption ==
  \A d \in {InitialDifficulty} \cup MinDifficulty..MaxDifficulty :
    \E e \in 0..63 : IsLog2(e, d)

VARIABLES
  chain_states,  \* HashMap<u32, ChainState>: None if there is none
  miners,        \* HashMap<u32, Arc<Miner>>: its keys
  block_history  \* Vec<BlockRecord>

engineVars == <<chain_states, miners, block_history>>
vars == <<engineVars, minerVars, callerVars, taskVars>>

Locks == {"states", "miners", "history"} \cup MinerLocks

\* Nothing but a message in the log depends on last_block_time.
ChainState == [current_height : Nat, current_difficulty : Nat, total_work : Nat,
               blocks_in_period : Nat, period_start_time : Nat]

ASSUME NoneAssumption == None \notin ChainState

BlockRecord == [chain : Chains, height : Nat, hash : Hash, difficulty : Nat]

-----------------------------------------------------------------------------
(* initialize_chain.                                                       *)

InitializeChain(t) ==
  /\ \E c \in Chains : Call(t, "init", [chain |-> c], "init_states", "states", "write")
  /\ UNCHANGED <<engineVars, minerVars, callerVars>>

InitializeKnown(t) ==
  /\ Reached(t, "init_states", "states")
  /\ chain_states[arg[t].chain] # None
  /\ Return(t)
  /\ UNCHANGED <<engineVars, minerVars, callerVars>>

NewChain(now) ==
  [current_height |-> 0, current_difficulty |-> InitialDifficulty,
   total_work |-> 0, blocks_in_period |-> 0, period_start_time |-> now]

InitializeState(t) ==
  /\ Reached(t, "init_states", "states")
  /\ chain_states[arg[t].chain] = None
  /\ \E now \in Clock :
       chain_states' = [chain_states EXCEPT ![arg[t].chain] = NewChain(now)]
  /\ Await(t, "init_miners", "miners", "write")
  /\ UNCHANGED <<miners, block_history, minerVars, callerVars, arg>>

InitializeMiner(t) ==
  /\ Reached(t, "init_miners", "miners")
  /\ miners' = miners \cup {arg[t].chain}
  /\ Return(t)
  /\ UNCHANGED <<chain_states, block_history, minerVars, callerVars>>

-----------------------------------------------------------------------------
(* create_work_package: get_chain_state copies the state, and the package  *)
(* is made of the copy.                                                    *)

CreateWorkPackage(t) ==
  /\ EmptyHanded(t)
  /\ \E c \in WorkChains, b \in BlockHashes :
       Call(t, "work", [chain |-> c, block |-> b], "work_states", "states", "read")
  /\ UNCHANGED <<engineVars, minerVars, callerVars>>

WorkUnknown(t) ==
  /\ Reached(t, "work_states", "states")
  /\ chain_states[arg[t].chain] = None
  /\ Return(t)
  /\ UNCHANGED <<engineVars, minerVars, callerVars>>

WorkCopy(t) ==
  /\ Reached(t, "work_states", "states")
  /\ LET state == chain_states[arg[t].chain]
     IN  /\ state # None
         /\ Keep(t, [chain |-> arg[t].chain, block |-> arg[t].block,
                     height |-> state.current_height + 1,
                     difficulty |-> state.current_difficulty])
  /\ Drop(t, "states", "work_copied")
  /\ UNCHANGED <<engineVars, minerVars, callerVars>>

PackageAt(copy, now) ==
  [chain |-> copy.chain, height |-> copy.height, block |-> copy.block,
   timestamp |-> now, difficulty |-> copy.difficulty]

\* Variant: the height is looked up once more.
WorkPackageAgain(t) ==
  /\ pc[t] = "work_copied"
  /\ \E now \in Clock :
       package' = [package EXCEPT ![t] =
         [PackageAt(arg[t], now) EXCEPT
            !.height = chain_states[arg[t].chain].current_height + 1]]
  /\ Return(t)
  /\ UNCHANGED <<engineVars, minerVars, proof>>

WorkPackage(t) ==
  /\ pc[t] = "work_copied"
  /\ \E now \in Clock : package' = [package EXCEPT ![t] = PackageAt(arg[t], now)]
  /\ Return(t)
  /\ UNCHANGED <<engineVars, minerVars, proof>>

-----------------------------------------------------------------------------
(* submit_block.                                                           *)

\* A caller submits the proof it has mined, or one that was built elsewhere.
SubmitBlock(t) ==
  /\ \E p \in {proof[t]} \cup (IF "foreign" \in Ops[t] THEN ForeignProofs ELSE {}) :
       /\ p # None
       /\ Call(t, "submit", p, "submit_states", "states", "write")
       /\ proof' = [proof EXCEPT ![t] = IF p = @ THEN None ELSE @]
  /\ UNCHANGED <<engineVars, minerVars, package>>

Extends(p, state) == p.height = state.current_height + 1

Acceptable(p, state) ==
  state # None /\ Extends(p, state) /\ Meets(p.hash, state.current_difficulty)

SubmitRefused(t) ==
  /\ Reached(t, "submit_states", "states")
  /\ ~Acceptable(arg[t], chain_states[arg[t].chain])
  /\ Return(t)
  /\ UNCHANGED <<engineVars, minerVars, callerVars>>

WithBlock(state, hash) ==
  [state EXCEPT !.current_height = @ + 1,
                !.blocks_in_period = @ + 1,
                !.total_work = @ + Achieved(hash)]

\* Variant: the period goes on after an adjustment.
RetargetedKeepsPeriod(state, now) ==
  IF state.blocks_in_period < AdjustmentInterval THEN {state}
  ELSE {[state EXCEPT !.current_difficulty = d, !.period_start_time = now] :
          d \in AdjustedDifficulties(state.current_difficulty, state.blocks_in_period,
                  ((now - state.period_start_time) * 1000) % WordRange)}

\* What becomes of a chain with a new block.  The clock may have been set
\* back since the period began; the u64 difference wraps then.
Retargeted(state, now) ==
  IF state.blocks_in_period < AdjustmentInterval THEN {state}
  ELSE {[state EXCEPT !.current_difficulty = d, !.blocks_in_period = 0,
                      !.period_start_time = now] :
          d \in AdjustedDifficulties(state.current_difficulty, state.blocks_in_period,
                  ((now - state.period_start_time) * 1000) % WordRange)}

\* Variant: the chain is unlocked before its block is recorded.
SubmitAcceptedUnlocks(t) ==
  /\ Reached(t, "submit_states", "states")
  /\ LET c == arg[t].chain
     IN  /\ Acceptable(arg[t], chain_states[c])
         /\ \E now \in Clock :
              \E state \in Retargeted(WithBlock(chain_states[c], arg[t].hash), now) :
                chain_states' = [chain_states EXCEPT ![c] = state]
  /\ AwaitAfter(t, "states", "submit_history", "history", "write")
  /\ UNCHANGED <<miners, block_history, minerVars, callerVars, arg>>

SubmitAccepted(t) ==
  /\ Reached(t, "submit_states", "states")
  /\ LET c == arg[t].chain
     IN  /\ Acceptable(arg[t], chain_states[c])
         /\ \E now \in Clock :
              \E state \in Retargeted(WithBlock(chain_states[c], arg[t].hash), now) :
                chain_states' = [chain_states EXCEPT ![c] = state]
  /\ Await(t, "submit_history", "history", "write")
  /\ UNCHANGED <<miners, block_history, minerVars, callerVars, arg>>

\* The record has the difficulty in force after the block.
SubmitRecord(t) ==
  /\ Reached(t, "submit_history", "history")
  /\ block_history' = Append(block_history,
       [chain |-> arg[t].chain, height |-> arg[t].height, hash |-> arg[t].hash,
        difficulty |-> chain_states[arg[t].chain].current_difficulty])
  /\ Return(t)
  /\ UNCHANGED <<chain_states, miners, minerVars, callerVars>>

-----------------------------------------------------------------------------
(* Reports: the engine's and the miner's get_stats.  The remaining reads   *)
(* take a single lock and are done with it.                                *)

Report(t) ==
  /\ \/ Call(t, "report", None, "report_states", "states", "read")
     \/ Call(t, "report", None, "report_stats", "stats", "read")
  /\ UNCHANGED <<engineVars, minerVars, callerVars>>

\* The engine's statistics are of the chains and the blocks at once.
ReportBoth(t) ==
  /\ Reached(t, "report_states", "states")
  /\ Await(t, "report_history", "history", "read")
  /\ UNCHANGED <<engineVars, minerVars, callerVars, arg>>

Reported(t) ==
  /\ Reached(t, "report_history", "history") \/ Reached(t, "report_stats", "stats")
  /\ Return(t)
  /\ UNCHANGED <<engineVars, minerVars, callerVars>>

-----------------------------------------------------------------------------
Begin(t) ==
  \/ InitializeChain(t) \/ CreateWorkPackage(t) \/ SubmitBlock(t) \/ Report(t)

Continue(t) ==
  \/ InitializeKnown(t) \/ InitializeState(t) \/ InitializeMiner(t)
  \/ WorkUnknown(t) \/ WorkCopy(t) \/ WorkPackage(t)
  \/ SubmitRefused(t) \/ SubmitAccepted(t) \/ SubmitRecord(t)
  \/ ReportBoth(t) \/ Reported(t)

\* get_miner finds the miner from its chain's initialization on.
MinerStep(t) ==
  /\ (Chain \in miners /\ MinerBegin(t)) \/ MinerContinue(t)
  /\ UNCHANGED engineVars

Init ==
  /\ chain_states = [c \in Chains |-> None]
  /\ miners = {} /\ block_history = << >>
  /\ MinerInit
  /\ NoCalls(Locks)

Next == \E t \in Tasks : Begin(t) \/ Continue(t) \/ MinerStep(t)

Spec == Init /\ [][Next]_vars

-----------------------------------------------------------------------------
(* Which guards a task has at each await point.                            *)

Points == MinerPoints \cup
          {"idle", "init_states", "init_miners", "work_states", "work_copied",
           "submit_states", "submit_history", "report_states", "report_history",
           "report_stats"}

Writes ==
  [states |-> {"init_states", "init_miners", "submit_states", "submit_history"},
   miners |-> {"init_miners"},
   history |-> {"submit_history"},
   work |-> {"set_work"},
   stats |-> {"mine_found", "mine_times", "mine_stats", "reset_stats",
              "reset_counter"},
   times |-> {"mine_times"}]

Reads ==
  [states |-> {"work_states", "report_states", "report_history"},
   miners |-> {},
   history |-> {"report_history"},
   work |-> {"take_work", "mine_check"},
   stats |-> {"report_stats"},
   times |-> {}]

Wants == [point \in Points |-> [lock \in Locks |->
            IF point \in Writes[lock] THEN "write"
            ELSE IF point \in Reads[lock] THEN "read" ELSE "none"]]

HeldAt == [point \in Points |->
  CASE point \in {"init_miners", "submit_history", "report_history"} -> {"states"}
    [] point \in {"mine_times", "reset_counter"} -> {"stats"}
    [] OTHER -> {}]

OfChains(works) == {w \in works : w.chain \in Chains}

ArgOf(point) ==
  CASE point \in {"init_states", "init_miners"} -> [chain : Chains]
    [] point = "work_states" -> [chain : Chains, block : Nat]
    [] point = "work_copied" ->
         [chain : Chains, block : Nat, height : Nat, difficulty : Nat]
    [] point \in {"submit_states", "submit_history"} -> OfChains(Proof)
    [] point = "set_work" -> OfChains(Package)
    [] point \in MiningPoints ->
         {m \in Mining : /\ m.work \in OfChains(Package)
                         /\ point \in {"mine_found", "mine_times"} => m.hash \in Hash}
    [] OTHER -> {None}

TypeOK ==
  /\ chain_states \in [Chains -> ChainState \cup {None}]
  /\ miners \subseteq Chains
  /\ block_history \in Seq(BlockRecord)
  /\ current_work \in OfChains(Package) \cup {None}
  /\ stats \in [valid_proofs : Nat, total_hashes : Nat]
  /\ {proof_times, total_hashes} \subseteq Nat
  /\ package \in [Tasks -> OfChains(Package) \cup {None}]
  /\ proof \in [Tasks -> OfChains(Proof) \cup {None}]
  /\ LockInv(Locks, Points, Wants, HeldAt)
  /\ DOMAIN arg = Tasks
  /\ \A t \in Tasks : arg[t] \in ArgOf(pc[t])

-----------------------------------------------------------------------------
(* What callers may rely on.                                               *)

BlocksOf(records, c) == {i \in DOMAIN records : records[i].chain = c}

WorkOfBlocks(records, c) ==
  SumFunctionOnSet([i \in DOMAIN records |-> Achieved(records[i].hash)],
                   BlocksOf(records, c))

\* A record of the chain c that is in this state.
IsRecordOf(records, c, state) ==
  LET blocks == BlocksOf(records, c)
  IN  /\ Cardinality(blocks) = state.current_height
      /\ \A i \in blocks : records[i].height = Cardinality(blocks \cap 1..i)
      /\ WorkOfBlocks(records, c) = state.total_work

Started == {c \in Chains : chain_states[c] # None}

\* Whoever can read the chains finds each with its miner and with the whole
\* of its record: one block of every height up to the current one, in this
\* order, whose work adds up to the chain's.  A chain and its miner are two
\* locks apart, and so are its state and its record, and two proofs of one
\* height may be submitted at once.
ChainsWhole ==
  ~WriteHeld(locks["states"]) =>
    /\ miners = Started
    /\ \A c \in Chains :
         IF c \in miners THEN IsRecordOf(block_history, c, chain_states[c])
                         ELSE BlocksOf(block_history, c) = {}

\* The difficulty in force after a block that was recorded on a chain.
DifficultyAfter(records, c, height) ==
  IF height = 0 THEN InitialDifficulty
  ELSE LET i == CHOOSE j \in BlocksOf(records, c) : records[j].height = height
       IN  records[i].difficulty

\* What the validator, which computes no adjustment, expects of one.
Moderate(before, after) ==
  /\ ValidDifficulty(after) \/ after = before
  /\ ValidDifficulty(before) => DifficultyFollows(before, after)

\* The record tells the difficulty in force, which has changed with every
\* AdjustmentInterval-th block only.
OnSchedule(records, c, state) ==
  LET height == state.current_height
      after(h) == DifficultyAfter(records, c, h)
  IN  /\ state.current_difficulty = after(height)
      /\ state.blocks_in_period = height % AdjustmentInterval
      /\ \A h \in 1..height :
           IF h % AdjustmentInterval = 0 THEN Moderate(after(h - 1), after(h))
                                         ELSE after(h) = after(h - 1)

\* The difficulty of a chain changes with every AdjustmentInterval-th of its
\* own blocks and never in between, and the last record tells the one in
\* force, however the blocks of several chains interleave.  Whatever the
\* clock said and however the ratio was rounded, a validator of the same
\* configuration lets the change pass.
RetargetsOnSchedule ==
  ~WriteHeld(locks["states"]) =>
    \A c \in miners : OnSchedule(block_history, c, chain_states[c])

\* The work under way: copies of a chain, packages, and proofs mined of them.
WorkOf(t) ==
  CASE pc[t] \in {"work_copied", "set_work", "submit_states"} -> {arg[t]}
    [] pc[t] \in MiningPoints -> {arg[t].work}
    [] OTHER -> {}

WorkUnderWay ==
  {w \in (UNION {WorkOf(t) \cup {package[t], proof[t]} : t \in Tasks})
           \cup {current_work} : w # None /\ w.difficulty # 0}

\* Work stays good until another block takes its height: it is never for a
\* height beyond the next one, and as long as it is for the next one its
\* difficulty is the one in force.  So the proof of a miner, however late it
\* is submitted, is refused for its height alone and never for its hash: a
\* retarget comes only with a block that makes the work stale anyway.  And a
\* proof of it that a validator passes is acceptable, though the validator's
\* target is not the engine's.
WorkGoodUntilTaken ==
  \A w \in WorkUnderWay :
    LET state == chain_states[w.chain]
    IN  /\ state # None /\ w.height <= state.current_height + 1
        /\ Extends(w, state) =>
             /\ w.difficulty = state.current_difficulty
             /\ \A h \in Hashes :
                  LET p == [chain |-> w.chain, height |-> w.height, hash |-> h]
                  IN  ValidProof(w, p) => Acceptable(p, state)

\* A miner's statistics never count more hashes than its counter, and the
\* average time per proof is over the last KeptTimes proofs at least, as far
\* as they were found since the last reset: the counter is changed without a
\* lock, by several tasks and by reset_stats.
StatsTrailHashes ==
  ~WriteHeld(locks["stats"]) =>
    /\ stats.total_hashes <= total_hashes
    /\ stats.valid_proofs <= proof_times \/ proof_times = KeptTimes

\* No task mines on for more than CheckInterval hashes once the miner was
\* given other work, although it looks at the work only now and then and
\* whoever replaces it does not wait for it.
StaleHashesBounded ==
  \A t \in Tasks : pc[t] \in MiningPoints => arg[t].stale <= CheckInterval

\* Of two difficulties that were in force, the higher one has the lower
\* target, as the comment in calculate_target_from_difficulty says.
HigherIsHarder ==
  \A i, j \in DOMAIN block_history :
    block_history[i].difficulty < block_history[j].difficulty =>
      AtMost(Target(block_history[j].difficulty), Target(block_history[i].difficulty))
=============================================================================
