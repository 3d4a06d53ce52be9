-------------------------- MODULE DifficultyManager --------------------------
(***************************************************************************)
(* The difficulty adjustment manager (src/src/difficulty_adjustment.rs).   *)
(*                                                                         *)
(* The current difficulty, the times of the last blocks and the history of *)
(* the adjustments are three values behind three fair locks.  Callers      *)
(* record blocks, adjust, override and report at once.  An adjustment      *)
(* keeps the block times locked to its end, and the history from the       *)
(* record on, but it drops the difficulty between reading and writing it.  *)
(***************************************************************************)
EXTENDS LockedTasks, Integers, FiniteSets, Sequences

CONSTANTS
  InitialDifficulty,
  AdjustmentInterval,  \* blocks, at least one
  TargetBlockTime,     \* seconds
  MinDifficulty,
  MaxDifficulty,
  Timestamps,          \* the block timestamps callers pass
  Overrides,           \* the difficulties set_difficulty is called with
  Ops,                 \* the operations each task calls in this instance
  WordRange,           \* 2^64: heights and times are u64
  MaxHeight,           \* bound: blocks recorded in one behaviour
  MaxAdjustments       \* bound: no adjustment is begun beyond this history

OpNames == {"record", "calculate", "set", "stats"}

ASSUME DifficultyAssumption ==
  /\ IsFiniteSet(Tasks)
  /\ Ops \in [Tasks -> SUBSET OpNames]
  /\ {InitialDifficulty, TargetBlockTime, MinDifficulty, MaxDifficulty,
      MaxHeight, MaxAdjustments} \subseteq Nat
  /\ Timestamps \subseteq Nat /\ Overrides \subseteq Nat
  /\ AdjustmentInterval \in Nat \ {0} /\ WordRange \in Nat \ {0}
  /\ MinDifficulty <= MaxDifficulty

VARIABLES
  times,      \* VecDeque<BlockTimeRecord>, oldest first
  current,    \* current_difficulty
  history,    \* Vec<DifficultyAdjustmentRecord>
  nextHeight, \* the callers' chain: the height of the next block
  overridden  \* history: set_difficulty has taken effect

data == <<times, current, history, nextHeight, overridden>>
vars == <<data, taskVars>>

Locks == {"times", "current", "history"}

BlockTime == [height : Nat, timestamp : Nat]
\* `newest` is the height of the newest block the adjustment was computed
\* from (history; the record has the caller's block_height instead).
Adjustment == [previous : Nat, new : Nat, newest : Nat]

-----------------------------------------------------------------------------
Call(t, op, value, point, lock, mode) ==
  /\ op \in Ops[t]
  /\ Enter(t, value, point, lock, mode)
  /\ UNCHANGED data

(* record_block_time.  Callers take their block's height and time first    *)
(* and ask for the lock later, so blocks may be recorded out of order.     *)

RecordBlockTime(t, timestamp) ==
  /\ "record" \in Ops[t]
  /\ pc[t] = "idle"
  /\ nextHeight < MaxHeight
  /\ nextHeight' = nextHeight + 1
  /\ Move(t, "rec_called")
  /\ Keep(t, [height |-> nextHeight, timestamp |-> timestamp])
  /\ UNCHANGED <<times, current, history, overridden>>

RecordAwait(t) ==
  /\ pc[t] = "rec_called"
  /\ Await(t, "rec_times", "times", "write")
  /\ UNCHANGED <<data, arg>>

\* The newest AdjustmentInterval + 1 of a sequence of blocks.
Window(blocks) ==
  IF Len(blocks) > AdjustmentInterval + 1
  THEN SubSeq(blocks, Len(blocks) - AdjustmentInterval, Len(blocks))
  ELSE blocks

RecordPush(t) ==
  /\ Reached(t, "rec_times", "times")
  /\ times' = Window(Append(times, arg[t]))
  /\ Return(t)
  /\ UNCHANGED <<current, history, nextHeight, overridden>>

-----------------------------------------------------------------------------
(* calculate_new_difficulty.                                               *)

\* u64 differences and products wrap (a debug build panics instead).
Period == (times[Len(times)].height - times[1].height) % WordRange
Span == (times[Len(times)].timestamp - times[1].timestamp) % WordRange
Expected == (Period * TargetBlockTime) % WordRange

Enough == Len(times) >= AdjustmentInterval

Clamp(low, x, high) == IF x > high THEN high ELSE IF x < low THEN low ELSE x

\* The f64 product previous * (expected / span), with the ratio clamped to
\* 1/4..4 and the result cut to an integer.  Where the exact product is an
\* integer and the ratio is not, rounding may leave it just below.  For
\* difficulties up to 2^53: f64 rounds a larger one, up or down.
Products(previous) ==
  IF Expected > 4 * Span THEN {4 * previous}
  ELSE IF 4 * Expected < Span THEN {previous \div 4}
  ELSE LET exact == (previous * Expected) \div Span
       IN  {exact} \cup
           {p \in {exact - 1} :
              /\ p >= 0 /\ Expected % Span # 0
              /\ (previous * Expected) % Span = 0}

CalculateNewDifficulty(t) ==
  /\ Len(history) < MaxAdjustments
  /\ Call(t, "calculate", None, "calc_times", "times", "read")

\* Both early returns read the difficulty while the times are kept.
CalculateSkip(t) ==
  /\ Reached(t, "calc_times", "times")
  /\ Enough => Span = 0
  /\ Await(t, "calc_skip", "current", "read")
  /\ UNCHANGED <<data, arg>>

CalculateUnchanged(t) ==
  /\ Reached(t, "calc_skip", "current")
  /\ Return(t)
  /\ UNCHANGED data

\* Variant: the block times are unlocked once the ratio is known.
CalculateRatioUnlocks(t) ==
  /\ Reached(t, "calc_times", "times")
  /\ Enough /\ Span > 0
  /\ AwaitAfter(t, "times", "calc_read", "current", "read")
  /\ UNCHANGED <<data, arg>>

CalculateRatio(t) ==
  /\ Reached(t, "calc_times", "times")
  /\ Enough /\ Span > 0
  /\ Await(t, "calc_read", "current", "read")
  /\ UNCHANGED <<data, arg>>

\* The times are still kept, so the ratio is the one computed before.
CalculateRead(t) ==
  /\ Reached(t, "calc_read", "current")
  /\ \E product \in Products(current) :
       Keep(t, [previous |-> current,
                new |-> Clamp(MinDifficulty, product, MaxDifficulty),
                newest |-> times[Len(times)].height])
  /\ Drop(t, "current", "calc_computed")
  /\ UNCHANGED data

CalculateAsk(t) ==
  /\ pc[t] = "calc_computed"
  /\ Await(t, "calc_history", "history", "write")
  /\ UNCHANGED <<data, arg>>

\* Variant: the history is unlocked as soon as the record is in it.
CalculateRecordUnlocks(t) ==
  /\ Reached(t, "calc_history", "history")
  /\ history' = Append(history, arg[t])
  /\ AwaitAfter(t, "history", "calc_current", "current", "write")
  /\ UNCHANGED <<times, current, nextHeight, overridden, arg>>

CalculateRecord(t) ==
  /\ Reached(t, "calc_history", "history")
  /\ history' = Append(history, arg[t])
  /\ Await(t, "calc_current", "current", "write")
  /\ UNCHANGED <<times, current, nextHeight, overridden, arg>>

\* Variant: the difficulty is only ever raised.
CalculateUpdateRaises(t) ==
  /\ Reached(t, "calc_current", "current")
  /\ current' = IF arg[t].new > current THEN arg[t].new ELSE current
  /\ Return(t)
  /\ UNCHANGED <<times, history, nextHeight, overridden>>

CalculateUpdate(t) ==
  /\ Reached(t, "calc_current", "current")
  /\ current' = arg[t].new
  /\ Return(t)
  /\ UNCHANGED <<times, history, nextHeight, overridden>>

-----------------------------------------------------------------------------
(* set_difficulty.                                                         *)

SetDifficulty(t, difficulty) ==
  Call(t, "set", [difficulty |-> difficulty], "set_current", "current", "write")

SetStore(t) ==
  /\ Reached(t, "set_current", "current")
  /\ current' = arg[t].difficulty
  /\ overridden' = TRUE
  /\ Return(t)
  /\ UNCHANGED <<times, history, nextHeight>>

-----------------------------------------------------------------------------
(* get_stats: the difficulty is copied, then history and times are kept.   *)

GetStats(t) == Call(t, "stats", None, "stats_current", "current", "read")

\* Variant: the difficulty stays locked while the report is put together.
StatsCurrentKeeps(t) ==
  /\ Reached(t, "stats_current", "current")
  /\ Await(t, "stats_history", "history", "read")
  /\ UNCHANGED <<data, arg>>

StatsCurrent(t) ==
  /\ Reached(t, "stats_current", "current")
  /\ Drop(t, "current", "stats_copied")
  /\ UNCHANGED <<data, arg>>

StatsAsk(t) ==
  /\ pc[t] = "stats_copied"
  /\ Await(t, "stats_history", "history", "read")
  /\ UNCHANGED <<data, arg>>

StatsHistory(t) ==
  /\ Reached(t, "stats_history", "history")
  /\ Await(t, "stats_times", "times", "read")
  /\ UNCHANGED <<data, arg>>

StatsReport(t) ==
  /\ Reached(t, "stats_times", "times")
  /\ Return(t)
  /\ UNCHANGED data

-----------------------------------------------------------------------------
Begin(t) ==
  \/ \E s \in Timestamps : RecordBlockTime(t, s)
  \/ CalculateNewDifficulty(t)
  \/ \E d \in Overrides : SetDifficulty(t, d)
  \/ GetStats(t)

Continue(t) ==
  \/ RecordAwait(t) \/ RecordPush(t)
  \/ CalculateSkip(t) \/ CalculateUnchanged(t) \/ CalculateRatio(t)
  \/ CalculateRead(t) \/ CalculateAsk(t)
  \/ CalculateRecord(t) \/ CalculateUpdate(t)
  \/ SetStore(t)
  \/ StatsCurrent(t) \/ StatsAsk(t) \/ StatsHistory(t) \/ StatsReport(t)

Init ==
  /\ times = << >> /\ history = << >>
  /\ current = InitialDifficulty
  /\ nextHeight = 0
  /\ overridden = FALSE
  /\ NoCalls(Locks)

Next == \E t \in Tasks : Begin(t) \/ Continue(t)

Spec == Init /\ [][Next]_vars

-----------------------------------------------------------------------------
(* Which guards a task has at each await point.                            *)

Points == {"idle", "rec_called", "rec_times", "calc_times", "calc_skip",
           "calc_read", "calc_computed", "calc_history", "calc_current",
           "set_current", "stats_current", "stats_copied", "stats_history",
           "stats_times"}

Writes == [times |-> {"rec_times"},
           current |-> {"calc_current", "set_current"},
           history |-> {"calc_history", "calc_current"}]

Reads == [times |-> {"calc_times", "calc_skip", "calc_read", "calc_computed",
                     "calc_history", "calc_current", "stats_times"},
          current |-> {"calc_skip", "calc_read", "stats_current"},
          history |-> {"stats_history", "stats_times"}]

Wants == [point \in Points |-> [lock \in Locks |->
            IF point \in Writes[lock] THEN "write"
            ELSE IF point \in Reads[lock] THEN "read" ELSE "none"]]

HeldAt == [point \in Points |->
  CASE point \in {"calc_skip", "calc_read", "calc_computed", "calc_history"} ->
         {"times"}
    [] point = "calc_current" -> {"times", "history"}
    [] point = "stats_times" -> {"history"}
    [] OTHER -> {}]

-----------------------------------------------------------------------------
Computed == {"calc_computed", "calc_history", "calc_current"}
Adjusting == {"calc_read", "calc_computed", "calc_history", "calc_current"}

ArgOf(point) ==
  CASE point \in {"rec_called", "rec_times"} -> BlockTime
    [] point \in Computed -> Adjustment
    [] point = "set_current" -> [difficulty : Nat]
    [] OTHER -> {None}

TypeOK ==
  /\ times \in Seq(BlockTime)
  /\ current \in Nat
  /\ history \in Seq(Adjustment)
  /\ nextHeight \in Nat
  /\ overridden \in BOOLEAN
  /\ LockInv(Locks, Points, Wants, HeldAt)
  /\ DOMAIN arg = Tasks
  /\ \A t \in Tasks : arg[t] \in ArgOf(pc[t])

-----------------------------------------------------------------------------
(* What callers may rely on.                                               *)

\* The difficulty after the first j adjustments of a history.
SetBy(log, j) == IF j = 0 THEN InitialDifficulty ELSE log[j].new

\* Within the bounds, and within a factor of four of a difficulty that was
\* (and one unit lost to rounding).
Bounded(r) ==
  /\ MinDifficulty <= r.new /\ r.new <= MaxDifficulty
  /\ r.previous \in MinDifficulty..MaxDifficulty =>
       r.previous - 4 <= 4 * r.new /\ r.new <= 4 * r.previous

\* Whoever can read the history finds that it accounts for the difficulty:
\* every record is a bounded move, whatever out-of-order blocks and wrapped
\* differences of their times made of its ratio; and until the first manual
\* override the last record is the difficulty in force, although the record
\* and the update of calculate_new_difficulty are two locks apart.
HistoryAgrees ==
  ~WriteHeld(locks["history"]) =>
    /\ \A i \in 1..Len(history) : Bounded(history[i])
    /\ ~overridden => current = SetBy(history, Len(history))

\* The history is never without: it holds while a record is written, too.
AdjustmentsBounded == \A i \in 1..Len(history) : Bounded(history[i])

\* After the first n adjustments, r starts from what one of them has set, and
\* the ones since then were computed from the same blocks as r.
SameBlocksSince(log, r, n) ==
  \E j \in 0..n : /\ r.previous = SetBy(log, j)
                  /\ \A k \in (j + 1)..n : log[k].newest = r.newest

\* Calls may pass each other by between reading and writing the difficulty.
\* But an adjustment overlooks only such as were computed from the same
\* blocks as itself: none goes unseen once a block has been recorded.
OverlooksSameBlocksOnly ==
  ~overridden =>
    \A i \in 1..Len(history) : SameBlocksSince(history, history[i], i - 1)

\* The blocks an adjustment is computed from are the last recorded ones and
\* stay so until it is done: no two are the same, and the window never
\* outgrows the interval.
WindowStable ==
  /\ Len(times) <= AdjustmentInterval + 1
  /\ \A i, j \in 1..Len(times) : times[i].height = times[j].height => i = j
  /\ \A t \in Tasks : pc[t] \in Adjusting => Enough /\ Span > 0

-----------------------------------------------------------------------------
(* Why: what holds while an adjustment or a record is half done.           *)

Updating == {t \in Tasks : pc[t] = "calc_current"}
ToRecord == {t \in Tasks : pc[t] \in {"calc_computed", "calc_history"}}

HistoryInv ==
  /\ ~overridden =>
       current = SetBy(history, IF Updating = {} THEN Len(history)
                                                ELSE Len(history) - 1)
  /\ \A t \in Updating : history # << >> /\ history[Len(history)] = arg[t]

BoundsInv ==
  /\ \A i \in 1..Len(history) : Bounded(history[i])
  /\ \A t \in ToRecord : Bounded(arg[t])

OverlookInv ==
  /\ \A t \in Tasks : pc[t] \in Computed =>
       arg[t].newest = times[Len(times)].height
  /\ ~overridden =>
       \A t \in ToRecord : SameBlocksSince(history, arg[t], Len(history))
  /\ OverlooksSameBlocksOnly

Recording == {t \in Tasks : pc[t] \in {"rec_called", "rec_times"}}

WindowInv ==
  /\ WindowStable
  /\ \A i \in 1..Len(times) : times[i].height < nextHeight
  /\ \A t \in Recording :
       /\ arg[t].height < nextHeight
       /\ \A i \in 1..Len(times) : times[i].height # arg[t].height
       /\ \A u \in Recording : arg[u].height = arg[t].height => u = t

\* The inductive invariant: the difficulty is behind the history by the one
\* record whose owner still keeps the history, and what an adjustment has
\* read of the window, and computed from it, is still good.
ManagerInv == HistoryInv /\ BoundsInv /\ OverlookInv /\ WindowInv

-----------------------------------------------------------------------------
(* Waiting for locks.                                                      *)

\* Any circle has a calculate_new_difficulty that keeps the times and waits
\* for the history, a get_stats that keeps the history and waits for the
\* times, and a record_block_time queued between them.
DeadlockShape ==
  \A D \in SUBSET Tasks : Stuck(D) =>
    /\ \E t \in D : pc[t] = "calc_history"
    /\ \E t \in D : pc[t] = "stats_times"
    /\ \E t \in D : pc[t] = "rec_times"
=============================================================================
