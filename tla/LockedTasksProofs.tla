-------------------------- MODULE LockedTasksProofs --------------------------
(***************************************************************************)
(* What the queue of a fair reader-writer lock guarantees, for any set of  *)
(* tasks; and that tasks keep their guards: what a segment of code does to *)
(* the locks, for any component, any number of tasks and any tables of     *)
(* await points, with one lemma per kind of segment.  Then that tasks who  *)
(* lock in an order never wait in a circle; what can be said of all        *)
(* numbers up to a bound, one after another; and the laws of sums over     *)
(* finite sets.  Every proof about a component rests on these facts.       *)
(***************************************************************************)
EXTENDS LockedTasks, Integers, Functions, FiniteSetTheorems,
        WellFoundedInduction, TLAPS

-----------------------------------------------------------------------------
(* The queue of one lock.                                                  *)

\* A lock nobody asked for is well formed.
LEMMA FreeLockWellFormed ==
  ASSUME NEW T
  PROVE  WellFormed(FreeLock(T), T)
BY DEF WellFormed, FreeLock, NoRequest, Requests, Modes, Queued

\* Asking (`.read()` or `.write()`) by a task that is not queued keeps the
\* order total and touches no other request.
LEMMA EnqueueWellFormed ==
  ASSUME NEW T, NEW lock, WellFormed(lock, T), NEW t \in T,
         lock[t].mode = "none", NEW mode \in {"read", "write"}
  PROVE  /\ WellFormed(Enqueue(lock, t, mode), T)
         /\ Enqueue(lock, t, mode)[t].mode = mode
         /\ \A u \in T \ {t} : Enqueue(lock, t, mode)[u] = lock[u]
<1> DEFINE after == Enqueue(lock, t, mode)
<1>1. /\ lock \in [T -> Requests(T)]
      /\ Queued(lock) \subseteq T
      /\ t \notin Queued(lock)
  BY DEF WellFormed, Queued
<1>2. /\ after[t] = [mode |-> mode, ahead |-> Queued(lock)]
      /\ \A u \in T \ {t} : after[u] = lock[u]
      /\ after \in [T -> Requests(T)]
  BY <1>1 DEF Enqueue, Requests, Modes
<1>3. Queued(after) = Queued(lock) \cup {t}
  BY <1>1, <1>2 DEF Queued
<1>4. \A u \in T : /\ after[u].mode = "none" => after[u].ahead = {}
                   /\ after[u].ahead \subseteq Queued(after) \ {u}
                   /\ \A v \in after[u].ahead : after[v].ahead \subseteq after[u].ahead
  BY <1>1, <1>2, <1>3 DEF WellFormed
<1>5. \A u, v \in Queued(after) :
        u # v => u \in after[v].ahead \/ v \in after[u].ahead
  BY <1>1, <1>2, <1>3 DEF WellFormed
<1>6. QED
  BY <1>2, <1>4, <1>5 DEF WellFormed

\* Dropping a guard, or giving up a place, keeps the order of the others.
LEMMA LeaveWellFormed ==
  ASSUME NEW T, NEW lock, WellFormed(lock, T), NEW t \in T
  PROVE  /\ WellFormed(Leave(lock, t), T)
         /\ Leave(lock, t)[t].mode = "none"
         /\ \A u \in T \ {t} : Leave(lock, t)[u].mode = lock[u].mode
<1> DEFINE after == Leave(lock, t)
<1>1. /\ lock \in [T -> Requests(T)]
      /\ DOMAIN lock = T
  BY DEF WellFormed
<1>2. /\ after[t] = NoRequest
      /\ \A u \in T \ {t} : after[u] = [mode |-> lock[u].mode,
                                        ahead |-> lock[u].ahead \ {t}]
      /\ after \in [T -> Requests(T)]
  BY <1>1 DEF Leave, NoRequest, Requests, Modes
<1>3. Queued(after) = Queued(lock) \ {t}
  BY <1>1, <1>2 DEF Queued, NoRequest
<1>4. \A u \in T : /\ after[u].mode = "none" => after[u].ahead = {}
                   /\ after[u].ahead \subseteq Queued(after) \ {u}
                   /\ \A v \in after[u].ahead : after[v].ahead \subseteq after[u].ahead
  <2>1. \A u \in T : /\ after[u].mode = "none" => after[u].ahead = {}
                     /\ after[u].ahead \subseteq Queued(after) \ {u}
    BY <1>1, <1>2, <1>3 DEF WellFormed, NoRequest
  <2>2. ASSUME NEW u \in T, NEW v \in after[u].ahead
        PROVE  after[v].ahead \subseteq after[u].ahead
    <3>1. u # t /\ v \in T \ {t} /\ v \in lock[u].ahead
      BY <1>1, <1>2, <1>3, <2>1, <2>2 DEF NoRequest, Queued
    <3>2. lock[v].ahead \subseteq lock[u].ahead
      BY <3>1 DEF WellFormed
    <3>3. QED
      BY <1>2, <3>1, <3>2
  <2>3. QED
    BY <2>1, <2>2
<1>5. \A u, v \in Queued(after) :
        u # v => u \in after[v].ahead \/ v \in after[u].ahead
  BY <1>1, <1>2, <1>3 DEF WellFormed, Queued
<1>6. QED
  BY <1>2, <1>4, <1>5 DEF WellFormed, NoRequest

\* A guard survives what other tasks do to the queue.
LEMMA HoldsStable ==
  ASSUME NEW T, NEW lock, WellFormed(lock, T), NEW t \in T, NEW u \in T,
         u # t, Holds(lock, u)
  PROVE  /\ Holds(Leave(lock, t), u)
         /\ \A mode \in {"read", "write"} :
              lock[t].mode = "none" => Holds(Enqueue(lock, t, mode), u)
<1>1. /\ lock \in [T -> Requests(T)]
      /\ lock[u].ahead \subseteq Queued(lock)
      /\ Queued(lock) \subseteq T
  BY DEF WellFormed, Queued
<1>2. Holds(Leave(lock, t), u)
  BY <1>1 DEF Leave, Holds, Requests
<1>3. ASSUME NEW mode \in {"read", "write"}, lock[t].mode = "none"
      PROVE  Holds(Enqueue(lock, t, mode), u)
  <2>1. t \notin Queued(lock)
    BY <1>3 DEF Queued
  <2>2. QED
    BY <1>1, <2>1 DEF Enqueue, Holds, Requests
<1>4. QED
  BY <1>2, <1>3

\* While a task holds the write guard nobody else holds any guard.
THEOREM WriterExcludes ==
  ASSUME NEW T, NEW lock, WellFormed(lock, T), NEW t \in T, NEW u \in T,
         HoldsWrite(lock, t), Holds(lock, u)
  PROVE  t = u
<1>1. SUFFICES ASSUME t # u PROVE FALSE
  OBVIOUS
<1>2. t \in Queued(lock) /\ u \in Queued(lock)
  BY DEF HoldsWrite, Holds, Queued, WellFormed
<1>3. t \in lock[u].ahead
  BY <1>1, <1>2 DEF WellFormed, HoldsWrite, Holds
<1>4. QED
  BY <1>3 DEF HoldsWrite, Holds

-----------------------------------------------------------------------------
(* Segments.                                                               *)

\* Before the first call nobody holds or waits for a lock.
LEMMA NoCallsKeepLocks ==
  ASSUME NEW names, NEW points, NEW wants, NEW held, NoCalls(names),
         "idle" \in points,
         \A l \in names : wants["idle"][l] = "none",
         held["idle"] = {}
  PROVE  LockInv(names, points, wants, held)
<1>1. /\ DOMAIN locks = names
      /\ \A l \in names : locks[l] = FreeLock(Tasks)
      /\ pc \in [Tasks -> points]
      /\ \A t \in Tasks : pc[t] = "idle"
  BY DEF NoCalls
<1>2. QED
  BY <1>1, FreeLockWellFormed
     DEF LockInv, LockDiscipline, FreeLock, NoRequest

\* A step that touches neither the locks nor the places keeps both.
LEMMA UntouchedLocks ==
  ASSUME NEW names, NEW points, NEW wants, NEW held,
         LockInv(names, points, wants, held), UNCHANGED <<locks, pc>>
  PROVE  LockInv(names, points, wants, held)'
BY DEF LockInv, LockDiscipline

\* A task that does not have a lock asks for it and keeps its guards.
LEMMA AwaitKeepsLocks ==
  ASSUME NEW names, NEW points, NEW wants, NEW held,
         LockInv(names, points, wants, held),
         NEW t \in Tasks, NEW point \in points, NEW lock \in names,
         NEW mode \in {"read", "write"},
         Await(t, point, lock, mode),
         wants[pc[t]][lock] = "none", wants[point][lock] = mode,
         \A l \in names \ {lock} : wants[point][l] = wants[pc[t]][l],
         \A l \in held[point] : l # lock /\ Holds(locks[l], t)
  PROVE  LockInv(names, points, wants, held)'
<1> USE DEF LockInv
<1>1. /\ locks[lock][t].mode = "none"
      /\ DOMAIN locks' = names
      /\ locks'[lock] = Enqueue(locks[lock], t, mode)
      /\ \A l \in names \ {lock} : locks'[l] = locks[l]
  BY DEF LockDiscipline, Await
<1>2. /\ WellFormed(locks'[lock], Tasks)
      /\ locks'[lock][t].mode = mode
      /\ \A u \in Tasks \ {t} : locks'[lock][u] = locks[lock][u]
  BY <1>1, EnqueueWellFormed
<1>3. /\ pc' \in [Tasks -> points]
      /\ pc'[t] = point
      /\ \A u \in Tasks \ {t} : pc'[u] = pc[u]
  BY DEF Await
<1>4. ASSUME NEW u \in Tasks, NEW l \in names
      PROVE  /\ locks'[l][u].mode = wants[pc'[u]][l]
             /\ l \in held[pc'[u]] => Holds(locks'[l], u)
  <2>1. CASE u = t
    BY <1>1, <1>2, <1>3, <2>1 DEF LockDiscipline
  <2>2. CASE u # t /\ l # lock
    BY <1>1, <1>3, <2>2 DEF LockDiscipline
  <2>3. CASE u # t /\ l = lock
    <3>1. Holds(locks[l], u) => Holds(locks'[l], u)
      BY <1>1, <2>3, HoldsStable
    <3>2. QED
      BY <1>2, <1>3, <2>3, <3>1 DEF LockDiscipline
  <2>4. QED
    BY <2>1, <2>2, <2>3
<1>5. QED
  BY <1>1, <1>2, <1>3, <1>4 DEF LockDiscipline

\* A task drops one guard.
LEMMA DropKeepsLocks ==
  ASSUME NEW names, NEW points, NEW wants, NEW held,
         LockInv(names, points, wants, held),
         NEW t \in Tasks, NEW point \in points, NEW lock \in names,
         Drop(t, lock, point),
         wants[point][lock] = "none",
         \A l \in names \ {lock} : wants[point][l] = wants[pc[t]][l],
         \A l \in held[point] : l \in names \ {lock} /\ Holds(locks[l], t)
  PROVE  LockInv(names, points, wants, held)'
<1> USE DEF LockInv
<1>1. /\ DOMAIN locks' = names
      /\ locks'[lock] = Leave(locks[lock], t)
      /\ \A l \in names \ {lock} : locks'[l] = locks[l]
      /\ pc' \in [Tasks -> points]
      /\ pc'[t] = point
      /\ \A u \in Tasks \ {t} : pc'[u] = pc[u]
  BY DEF Drop
<1>2. /\ \A l \in names : WellFormed(locks'[l], Tasks)
      /\ locks'[lock][t].mode = "none"
      /\ \A u \in Tasks \ {t}, l \in names :
           locks'[l][u].mode = locks[l][u].mode
  <2>1. /\ WellFormed(Leave(locks[lock], t), Tasks)
        /\ Leave(locks[lock], t)[t].mode = "none"
        /\ \A u \in Tasks \ {t} :
             Leave(locks[lock], t)[u].mode = locks[lock][u].mode
    BY LeaveWellFormed
  <2>2. QED
    BY <1>1, <2>1
<1>3. ASSUME NEW u \in Tasks, NEW l \in names
      PROVE  /\ locks'[l][u].mode = wants[pc'[u]][l]
             /\ l \in held[pc'[u]] => Holds(locks'[l], u)
  <2>1. CASE u = t
    BY <1>1, <1>2, <2>1 DEF LockDiscipline
  <2>2. CASE u # t
    <3>1. Holds(locks[l], u) => Holds(locks'[l], u)
      BY <1>1, <2>2, HoldsStable
    <3>2. QED
      BY <1>1, <1>2, <2>2, <3>1 DEF LockDiscipline
  <2>3. QED
    BY <2>1, <2>2
<1>4. QED
  BY <1>1, <1>2, <1>3 DEF LockDiscipline

\* A task returns and drops every guard.
LEMMA ReturnKeepsLocks ==
  ASSUME NEW names, NEW points, NEW wants, NEW held,
         LockInv(names, points, wants, held), NEW t \in Tasks, Return(t),
         "idle" \in points,
         \A l \in names : wants["idle"][l] = "none",
         held["idle"] = {}
  PROVE  LockInv(names, points, wants, held)'
<1> USE DEF LockInv
<1>1. /\ DOMAIN locks' = names
      /\ \A l \in names : locks'[l] = Leave(locks[l], t)
      /\ pc' \in [Tasks -> points]
      /\ pc'[t] = "idle"
      /\ \A u \in Tasks \ {t} : pc'[u] = pc[u]
  BY DEF Return
<1>2. \A l \in names : /\ WellFormed(locks'[l], Tasks)
                       /\ locks'[l][t].mode = "none"
                       /\ \A u \in Tasks \ {t} :
                            /\ locks'[l][u].mode = locks[l][u].mode
                            /\ Holds(locks[l], u) => Holds(locks'[l], u)
  BY <1>1, LeaveWellFormed, HoldsStable
<1>3. QED
  BY <1>1, <1>2 DEF LockDiscipline

\* A task goes on without asking for a lock or dropping a guard.
LEMMA MoveKeepsLocks ==
  ASSUME NEW names, NEW points, NEW wants, NEW held,
         LockInv(names, points, wants, held),
         NEW t \in Tasks, NEW point \in points,
         Move(t, point),
         \A l \in names : wants[point][l] = wants[pc[t]][l],
         \A l \in held[point] : l \in names /\ Holds(locks[l], t)
  PROVE  LockInv(names, points, wants, held)'
BY DEF LockInv, LockDiscipline, Move

-----------------------------------------------------------------------------
(* Following the tables: what the steps above need to know of them.        *)

\* From `from`, having got a lock there, `to` asks for one more.
Asks(names, points, wants, held, from, got, to, lock, mode) ==
  /\ from \in points /\ to \in points /\ lock \in names
  /\ mode \in {"read", "write"}
  /\ wants[from][lock] = "none" /\ wants[to][lock] = mode
  /\ \A l \in names \ {lock} : wants[to][l] = wants[from][l]
  /\ lock \notin held[to]
  /\ held[to] \subseteq names /\ held[to] \subseteq held[from] \cup got

\* Asking for one more lock after getting those that were asked for.
LEMMA AsksKeepsLocks ==
  ASSUME NEW names, NEW points, NEW wants, NEW held,
         LockInv(names, points, wants, held),
         NEW t \in Tasks, NEW from, NEW got, NEW to, NEW lock, NEW mode,
         Asks(names, points, wants, held, from, got, to, lock, mode),
         pc[t] = from, \A l \in got : Holds(locks[l], t),
         Await(t, to, lock, mode)
  PROVE  LockInv(names, points, wants, held)'
<1>1. \A l \in held[to] : l # lock /\ Holds(locks[l], t)
  BY DEF Asks, LockInv, LockDiscipline
<1>2. QED
  BY <1>1, AwaitKeepsLocks DEF Asks

\* A call asks for its first lock.
LEMMA EnterKeepsLocks ==
  ASSUME NEW names, NEW points, NEW wants, NEW held,
         LockInv(names, points, wants, held),
         NEW t \in Tasks, NEW value, NEW to, NEW lock, NEW mode,
         Asks(names, points, wants, held, "idle", {}, to, lock, mode),
         Enter(t, value, to, lock, mode)
  PROVE  LockInv(names, points, wants, held)'
<1>1. pc[t] = "idle" /\ Await(t, to, lock, mode)
  BY DEF Enter, Await
<1>2. QED
  BY <1>1, AsksKeepsLocks

\* From `from`, having got a lock there, `to` has one guard less.
Drops(names, points, wants, held, from, got, lock, to) ==
  /\ from \in points /\ to \in points /\ lock \in names
  /\ wants[to][lock] = "none"
  /\ \A l \in names \ {lock} : wants[to][l] = wants[from][l]
  /\ held[to] \subseteq names \ {lock} /\ held[to] \subseteq held[from] \cup got

\* Dropping the guard of one lock.
LEMMA DropsKeepsLocks ==
  ASSUME NEW names, NEW points, NEW wants, NEW held,
         LockInv(names, points, wants, held),
         NEW t \in Tasks, NEW from, NEW got, NEW lock, NEW to,
         Drops(names, points, wants, held, from, got, lock, to),
         pc[t] = from, \A l \in got : Holds(locks[l], t),
         Drop(t, lock, to)
  PROVE  LockInv(names, points, wants, held)'
<1>1. \A l \in held[to] : l \in names \ {lock} /\ Holds(locks[l], t)
  BY DEF Drops, LockInv, LockDiscipline
<1>2. QED
  BY <1>1, DropKeepsLocks DEF Drops

\* From `from`, having got a lock there, `to` has the same guards.
Moves(names, points, wants, held, from, got, to) ==
  /\ from \in points /\ to \in points
  /\ \A l \in names : wants[to][l] = wants[from][l]
  /\ held[to] \subseteq names /\ held[to] \subseteq held[from] \cup got

\* Going on with the same guards.
LEMMA MovesKeepsLocks ==
  ASSUME NEW names, NEW points, NEW wants, NEW held,
         LockInv(names, points, wants, held),
         NEW t \in Tasks, NEW from, NEW got, NEW to,
         Moves(names, points, wants, held, from, got, to),
         pc[t] = from, \A l \in got : Holds(locks[l], t),
         Move(t, to)
  PROVE  LockInv(names, points, wants, held)'
<1>1. \A l \in held[to] : l \in names /\ Holds(locks[l], t)
  BY DEF Moves, LockInv, LockDiscipline
<1>2. QED
  BY <1>1, MoveKeepsLocks DEF Moves

\* A lock held for writing is held by nobody else: of two tasks that have
\* been granted it, neither writes unless they are the same.
LEMMA OneHolder ==
  ASSUME NEW names, NEW points, NEW wants, NEW held,
         LockInv(names, points, wants, held),
         NEW t \in Tasks, NEW u \in Tasks, NEW lock \in names,
         Holds(locks[lock], t), Holds(locks[lock], u),
         wants[pc[u]][lock] = "write"
  PROVE  t = u
BY WriterExcludes DEF LockInv, LockDiscipline, HoldsWrite

-----------------------------------------------------------------------------
(* Waiting in an order.                                                    *)

\* A set of natural numbers has a least element.
LEMMA NatMin ==
  ASSUME NEW T \in SUBSET Nat, T # {}
  PROVE  \E x \in T : \A y \in T : x <= y
<1>1. IsWellFoundedOn(OpToRel(<, Nat), Nat)
  BY NatLessThanWellFounded, Zenon
<1> DEFINE R == OpToRel(<, Nat)
<1>2. \E x \in T : \A y \in T : ~ (<<y, x>> \in R)
  <2> HIDE DEF R
  <2>1. IsWellFoundedOn(R, Nat)
     BY <1>1, Zenon DEF R
  <2> QED
  BY <2>1, WFMin, Zenon
<1>3. PICK x \in T : \A y \in T : <<y, x>> \notin R
  BY <1>2
<1>4. ASSUME NEW y \in T PROVE x <= y
  <2>1. <<y, x>> \notin {ss \in Nat \X Nat : ss[1] < ss[2]}
    BY <1>3 DEF OpToRel
  <2> QED BY <2>1
<1> QED
  BY <1>4

\* A task at this point waits for no lock but one that comes later, in a
\* fixed order of the locks, than every other lock it holds or asked for;
\* room[l] says how many locks may still come after l.
InOrder(names, wants, held, room, point) ==
  \A l, m \in names :
    /\ l # m
    /\ wants[point][l] # "none" /\ l \notin held[point]
    /\ wants[point][m] # "none"
    => room[l] < room[m]

\* Whoever is blocked waits for a lock that it has asked for and not got.
LEMMA BlockedAwaits ==
  ASSUME NEW names, NEW points, NEW wants, NEW held,
         LockInv(names, points, wants, held),
         NEW t \in Tasks, NEW u, NEW l \in DOMAIN locks, Blocks(locks[l], u, t)
  PROVE  /\ l \in names /\ u \in Tasks /\ u # t
         /\ wants[pc[t]][l] # "none" /\ l \notin held[pc[t]]
         /\ wants[pc[u]][l] # "none"
         /\ "write" \in {wants[pc[u]][l], wants[pc[t]][l]}
<1>1. l \in names /\ WellFormed(locks[l], Tasks) /\ LockDiscipline(wants, held)
  BY DEF LockInv
<1>2. u \in locks[l][t].ahead /\ "write" \in {locks[l][u].mode, locks[l][t].mode}
  BY DEF Blocks
<1>3. u \in Queued(locks[l]) /\ u # t /\ Queued(locks[l]) \subseteq Tasks
  BY <1>1, <1>2 DEF WellFormed, Queued
<1>4. locks[l][t].mode # "none" /\ locks[l][u].mode # "none"
  BY <1>1, <1>2, <1>3 DEF WellFormed, Queued
<1>5. ~Holds(locks[l], t)
  BY <1>2, <1>4 DEF Holds
<1>6. QED
  BY <1>1, <1>2, <1>3, <1>4, <1>5 DEF LockDiscipline

\* Tasks that ask for their locks in one order never wait in a circle: of a
\* circle of waiting tasks one has asked out of the order, whatever the order
\* is.  For take, of the tasks that wait for the lock that comes last, the one
\* with the fewest ahead of it: who blocks it waits for a later lock, or for
\* the same one with fewer ahead.
THEOREM CircleLeavesOrder ==
  ASSUME NEW names, NEW points, NEW wants, NEW held,
         LockInv(names, points, wants, held),
         NEW room \in [names -> Nat],
         NEW D \in SUBSET Tasks, Stuck(D)
  PROVE  \E t \in D : ~InOrder(names, wants, held, room, pc[t])
<1>1. SUFFICES ASSUME \A t \in D : InOrder(names, wants, held, room, pc[t])
               PROVE  FALSE
  OBVIOUS
<1> DEFINE Awaits(t, l) == \E u \in D : Blocks(locks[l], u, t)
           Awaited == {l \in names : \E t \in D : Awaits(t, l)}
           Rooms == {room[l] : l \in Awaited}
<1>2. DOMAIN locks = names /\ D # {}
  BY DEF LockInv, Stuck
<1>3. Rooms \in SUBSET Nat /\ Rooms # {}
  BY <1>2 DEF Stuck
<1>4. PICK l \in Awaited : \A m \in Awaited : room[l] <= room[m]
  <2>1. PICK r \in Rooms : \A s \in Rooms : r <= s
    <3> HIDE DEF Rooms
    <3>1. QED
      BY <1>3, NatMin
  <2>2. QED
    BY <2>1
<1> DEFINE Waiting == {t \in D : Awaits(t, l)}
           Ahead(t) == locks[l][t].ahead
           Sizes == {Cardinality(Ahead(t)) : t \in Waiting}
<1>5. \A t \in D : IsFiniteSet(Ahead(t)) /\ Cardinality(Ahead(t)) \in Nat
  <2>1. \A t \in D : Ahead(t) \subseteq Tasks
    BY <1>4 DEF LockInv, WellFormed, Queued
  <2>2. QED
    BY <2>1, TasksAssumption, FS_Subset, FS_CardinalityType
<1>6. PICK t \in Waiting : \A u \in Waiting :
        Cardinality(Ahead(t)) <= Cardinality(Ahead(u))
  <2>1. Sizes \in SUBSET Nat /\ Sizes # {}
    <3> HIDE DEF Ahead
    <3>1. QED
      BY <1>4, <1>5
  <2>2. PICK n \in Sizes : \A k \in Sizes : n <= k
    <3> HIDE DEF Sizes
    <3>1. QED
      BY <2>1, NatMin
  <2>3. QED
    BY <2>2
<1>7. PICK u \in D : Blocks(locks[l], u, t)
  BY <1>6
<1>8. PICK v \in D, m \in names : Blocks(locks[m], v, u)
  BY <1>2 DEF Stuck
<1>9. CASE m = l
  <2>1. u \in Waiting
    BY <1>8, <1>9
  <2>2. u \in Ahead(t) /\ u \notin Ahead(u) /\ Ahead(u) \subseteq Ahead(t)
    BY <1>4, <1>7 DEF Blocks, LockInv, WellFormed
  <2>3. Cardinality(Ahead(u)) < Cardinality(Ahead(t))
    <3>1. /\ IsFiniteSet(Ahead(t))
          /\ Cardinality(Ahead(t)) \in Nat /\ Cardinality(Ahead(u)) \in Nat
      BY <1>5, <1>6
    <3> HIDE DEF Ahead
    <3>2. /\ Cardinality(Ahead(u)) <= Cardinality(Ahead(t))
          /\ Cardinality(Ahead(u)) # Cardinality(Ahead(t))
      BY <2>2, <3>1, FS_Subset
    <3>3. QED
      BY <3>1, <3>2
  <2>4. Cardinality(Ahead(t)) <= Cardinality(Ahead(u))
    BY <1>6, <2>1
  <2>5. /\ Cardinality(Ahead(t)) \in Nat /\ Cardinality(Ahead(u)) \in Nat
    BY <1>5, <1>6
  <2>6. QED
    BY <2>3, <2>4, <2>5
<1>10. CASE m # l
  <2>1. wants[pc[u]][m] # "none" /\ m \notin held[pc[u]]
    BY <1>2, <1>8, BlockedAwaits
  <2>2. wants[pc[u]][l] # "none"
    BY <1>2, <1>4, <1>6, <1>7, BlockedAwaits
  <2>3. room[m] < room[l]
    BY <1>1, <1>4, <1>10, <2>1, <2>2 DEF InOrder
  <2>4. room[l] <= room[m]
    BY <1>4, <1>8
  <2>5. QED
    BY <1>4, <2>3, <2>4
<1>11. QED
  BY <1>9, <1>10

\* What is so at first and passed on is so up to any number.
LEMMA ClimbsTo ==
  ASSUME NEW n \in Nat, NEW Good, 0 \in Good,
         \A k \in 1..n : k - 1 \in Good => k \in Good
  PROVE  \A k \in 0..n : k \in Good
<1> DEFINE Bad == {k \in 0..n : k \notin Good}
<1>1. SUFFICES ASSUME Bad # {} PROVE FALSE
  OBVIOUS
<1>2. PICK k \in Bad : \A m \in Bad : k <= m
  <2>1. Bad \in SUBSET Nat
    OBVIOUS
  <2> HIDE DEF Bad
  <2>2. QED
    BY <1>1, <2>1, NatMin
<1>3. k \in 1..n /\ k - 1 \in 0..n /\ k - 1 \notin Bad
  BY <1>2
<1>4. QED
  BY <1>2, <1>3

-----------------------------------------------------------------------------
(* Sums over finite sets, by the smallest set for which a fact fails.      *)

\* Of the subsets of a finite set with some property, one is a smallest one.
LEMMA SmallestSubset ==
  ASSUME NEW S, IsFiniteSet(S), NEW B \in SUBSET (SUBSET S), B # {}
  PROVE  \E T \in B : \A U \in SUBSET T : U # T => U \notin B
<1> DEFINE Sizes == {Cardinality(T) : T \in B}
<1>1. \A T \in B : IsFiniteSet(T) /\ Cardinality(T) \in Nat
  BY FS_Subset, FS_CardinalityType
<1>2. PICK n \in Sizes : \A m \in Sizes : n <= m
  <2>1. Sizes \in SUBSET Nat /\ Sizes # {}
    BY <1>1
  <2>2. QED
    BY <2>1, NatMin
<1>3. PICK T \in B : n = Cardinality(T)
  OBVIOUS
<1>4. ASSUME NEW U \in SUBSET T, U # T, U \in B
      PROVE  FALSE
  <2>1. Cardinality(U) < Cardinality(T)
    <3>1. Cardinality(U) <= Cardinality(T) /\ Cardinality(U) # Cardinality(T)
      BY <1>1, <1>4, FS_Subset
    <3>2. QED
      BY <1>1, <1>4, <3>1
  <2>2. Cardinality(T) <= Cardinality(U)
    BY <1>2, <1>3, <1>4
  <2>3. QED
    BY <1>1, <1>4, <2>1, <2>2
<1>5. QED
  BY <1>4

\* The partial sums SumFunctionOnSet is made of, for all subsets of S.
Pick(s) == CHOOSE x \in s : TRUE

IsTable(f, fun, S) ==
  f = [s \in SUBSET S |-> IF s = {} THEN 0
                         ELSE fun[Pick(s)] + f[s \ {Pick(s)}]]

\* The element a sum begins with is one of the set.
LEMMA PickIn == ASSUME NEW s, s # {} PROVE Pick(s) \in s
BY DEF Pick

\* What such a table holds of a set.
LEMMA TableValue ==
  ASSUME NEW S, NEW fun, NEW f, IsTable(f, fun, S), NEW s \in SUBSET S
  PROVE  f[s] = IF s = {} THEN 0 ELSE fun[Pick(s)] + f[s \ {Pick(s)}]
<1>1. f = [u \in SUBSET S |-> IF u = {} THEN 0 ELSE fun[Pick(u)] + f[u \ {Pick(u)}]]
  BY DEF IsTable
<1>2. QED
  BY <1>1

\* Two tables agree on the sets both are about.
LEMMA TablesAgree ==
  ASSUME NEW S, IsFiniteSet(S), NEW fun, NEW f, IsTable(f, fun, S),
         NEW R, NEW g, IsTable(g, fun, R)
  PROVE  \A s \in SUBSET S : s \in SUBSET R => f[s] = g[s]
<1> DEFINE B == {s \in SUBSET S : s \in SUBSET R /\ f[s] # g[s]}
<1>1. SUFFICES ASSUME B # {} PROVE FALSE
  OBVIOUS
<1>2. PICK s \in B : \A u \in SUBSET s : u # s => u \notin B
  <2>1. B \in SUBSET (SUBSET S)
    OBVIOUS
  <2> HIDE DEF B
  <2>2. QED
    BY <1>1, <2>1, SmallestSubset
<1>3. s # {}
  <2>1. f[{}] = 0 /\ g[{}] = 0
    BY TableValue
  <2>2. QED
    BY <1>2, <2>1
<1>4. f[s \ {Pick(s)}] = g[s \ {Pick(s)}]
  BY <1>2, <1>3, PickIn
<1>5. QED
  BY <1>2, <1>3, <1>4, TableValue

\* There is a table for every finite set: the smallest set without one would
\* get one from those of its subsets.
LEMMA TableExists ==
  ASSUME NEW S, IsFiniteSet(S), NEW fun
  PROVE  \E f : IsTable(f, fun, S)
<1> DEFINE B == {s \in SUBSET S : ~\E f : IsTable(f, fun, s)}
           table(s) == CHOOSE f : IsTable(f, fun, s)
<1>1. SUFFICES ASSUME B # {} PROVE FALSE
  OBVIOUS
<1>2. PICK T \in B : \A u \in SUBSET T : u # T => u \notin B
  <2>1. B \in SUBSET (SUBSET S)
    OBVIOUS
  <2> HIDE DEF B
  <2>2. QED
    BY <1>1, <2>1, SmallestSubset
<1>3. \A u \in SUBSET T : u # T => IsTable(table(u), fun, u) /\ IsFiniteSet(u)
  BY <1>2, FS_Subset
<1> DEFINE low(s) == table(s)[s]
           g == [s \in SUBSET T |-> IF s = {} THEN 0
                                    ELSE fun[Pick(s)] + low(s \ {Pick(s)})]
<1>4. ASSUME NEW s \in SUBSET T, s # T PROVE g[s] = low(s)
  <2>1. CASE s = {}
    BY <1>3, <1>4, <2>1, TableValue
  <2>2. CASE s # {}
    <3>1. table(s)[s] = fun[Pick(s)] + table(s)[s \ {Pick(s)}]
      BY <1>3, <1>4, <2>2, TableValue
    <3> DEFINE r == s \ {Pick(s)}
    <3>2. r \in SUBSET T /\ r # T /\ r \in SUBSET s
      BY <2>2, PickIn
    <3>3. table(s)[r] = table(r)[r]
      <4>1. /\ IsTable(table(s), fun, s) /\ IsFiniteSet(s)
            /\ IsTable(table(r), fun, r) /\ IsFiniteSet(r)
        BY <1>3, <1>4, <3>2
      <4> HIDE DEF table, r
      <4>2. QED
        BY <4>1, <3>2, TablesAgree
    <3>4. QED
      BY <2>2, <3>1, <3>3
  <2>3. QED
    BY <2>1, <2>2
<1>5. IsTable(g, fun, T)
  <2>1. \A s \in SUBSET T : s # {} => g[s \ {Pick(s)}] = low(s \ {Pick(s)})
    <3> SUFFICES ASSUME NEW s \in SUBSET T, s # {}
                 PROVE  g[s \ {Pick(s)}] = low(s \ {Pick(s)})
      OBVIOUS
    <3> DEFINE r == s \ {Pick(s)}
    <3>1. r \in SUBSET T /\ r # T
      BY PickIn
    <3> HIDE DEF g, low, r
    <3>2. g[r] = low(r)
      BY <1>4, <3>1
    <3>3. QED
      BY <3>2 DEF r
  <2>2. g = [s \in SUBSET T |-> IF s = {} THEN 0
                                ELSE fun[Pick(s)] + g[s \ {Pick(s)}]]
    <3> HIDE DEF low
    <3>1. \A s \in SUBSET T :
            g[s] = IF s = {} THEN 0 ELSE fun[Pick(s)] + g[s \ {Pick(s)}]
      BY <2>1
    <3> HIDE DEF g
    <3>2. g = [s \in SUBSET T |-> g[s]]
      BY DEF g
    <3>3. QED
      BY <3>1, <3>2
  <2>3. QED
    BY <2>2 DEF IsTable
<1>6. QED
  BY <1>2, <1>5

\* A sum over a finite set is one value and the sum over the others.
LEMMA SumUnfolds ==
  ASSUME NEW S, IsFiniteSet(S), NEW fun
  PROVE  SumFunctionOnSet(fun, S) =
           IF S = {} THEN 0
           ELSE fun[Pick(S)] + SumFunctionOnSet(fun, S \ {Pick(S)})
<1> DEFINE table(s) == CHOOSE f : IsTable(f, fun, s)
<1>1. \A s : SumFunctionOnSet(fun, s) = table(s)[s]
  BY Zenon DEF SumFunctionOnSet, FoldFunctionOnSet, MapThenFoldSet, IsTable, Pick
<1>2. ASSUME NEW s \in SUBSET S PROVE IsTable(table(s), fun, s) /\ IsFiniteSet(s)
  BY FS_Subset, TableExists
<1>3. CASE S = {}
  BY <1>1, <1>2, <1>3, TableValue
<1>4. CASE S # {}
  <2> DEFINE r == S \ {Pick(S)}
  <2>1. r \in SUBSET S /\ S \in SUBSET S
    OBVIOUS
  <2>2. /\ IsTable(table(S), fun, S)
        /\ IsTable(table(r), fun, r) /\ IsFiniteSet(r)
    BY <1>2, <2>1
  <2> HIDE DEF table, r
  <2>3. table(S)[r] = table(r)[r]
    BY <2>1, <2>2, TablesAgree
  <2>4. table(S)[S] = fun[Pick(S)] + table(S)[r]
    BY <1>4, <2>2, TableValue DEF r
  <2>5. QED
    BY <1>1, <1>4, <2>3, <2>4 DEF r
<1>5. QED
  BY <1>3, <1>4

\* A sum of natural numbers is one.
LEMMA SumIsNat ==
  ASSUME NEW S, IsFiniteSet(S), NEW fun, \A x \in S : fun[x] \in Nat
  PROVE  SumFunctionOnSet(fun, S) \in Nat
<1> DEFINE B == {T \in SUBSET S : SumFunctionOnSet(fun, T) \notin Nat}
<1>1. SUFFICES ASSUME B # {} PROVE FALSE
  OBVIOUS
<1>2. PICK T \in B : \A u \in SUBSET T : u # T => u \notin B
  <2>1. B \in SUBSET (SUBSET S)
    OBVIOUS
  <2> HIDE DEF B
  <2>2. QED
    BY <1>1, <2>1, SmallestSubset
<1>3. IsFiniteSet(T)
  BY <1>2, FS_Subset
<1>4. CASE T = {}
  <2>1. SumFunctionOnSet(fun, T) = 0
    BY <1>3, <1>4, SumUnfolds
  <2>2. QED
    BY <1>2, <2>1
<1>5. CASE T # {}
  <2>1. SumFunctionOnSet(fun, T) = fun[Pick(T)] + SumFunctionOnSet(fun, T \ {Pick(T)})
    BY <1>3, <1>5, SumUnfolds
  <2>2. SumFunctionOnSet(fun, T \ {Pick(T)}) \in Nat /\ fun[Pick(T)] \in Nat
    BY <1>2, <1>5, PickIn
  <2>3. QED
    BY <1>2, <2>1, <2>2
<1>6. QED
  BY <1>4, <1>5

\* In a sum of natural numbers any value may be taken first.
LEMMA SumRemove ==
  ASSUME NEW S, IsFiniteSet(S), NEW fun, \A x \in S : fun[x] \in Nat
  PROVE  \A x \in S : SumFunctionOnSet(fun, S)
                        = fun[x] + SumFunctionOnSet(fun, S \ {x})
<1> DEFINE B == {T \in SUBSET S : \E x \in T :
                   SumFunctionOnSet(fun, T) # fun[x] + SumFunctionOnSet(fun, T \ {x})}
<1>1. SUFFICES ASSUME B # {} PROVE FALSE
  OBVIOUS
<1>2. PICK T \in B : \A u \in SUBSET T : u # T => u \notin B
  <2>1. B \in SUBSET (SUBSET S)
    OBVIOUS
  <2> HIDE DEF B
  <2>2. QED
    BY <1>1, <2>1, SmallestSubset
<1>3. PICK x \in T : SumFunctionOnSet(fun, T) # fun[x] + SumFunctionOnSet(fun, T \ {x})
  BY <1>2
<1> DEFINE y == Pick(T)
           Tx == T \ {x}
           Ty == T \ {y}
           Txy == T \ {x, y}
<1>4. y \in T /\ T \in SUBSET S /\ IsFiniteSet(T)
  BY <1>2, <1>3, PickIn, FS_Subset
<1>5. SumFunctionOnSet(fun, T) = fun[y] + SumFunctionOnSet(fun, Ty)
  BY <1>3, <1>4, SumUnfolds
<1>6. x # y
  BY <1>3, <1>5
<1>7. /\ SumFunctionOnSet(fun, Ty) = fun[x] + SumFunctionOnSet(fun, Txy)
      /\ SumFunctionOnSet(fun, Tx) = fun[y] + SumFunctionOnSet(fun, Txy)
  <2>1. /\ Ty \notin B /\ Tx \notin B /\ Ty \in SUBSET S /\ Tx \in SUBSET S
        /\ x \in Ty /\ y \in Tx
    BY <1>2, <1>3, <1>4, <1>6
  <2>2. Ty \ {x} = Txy /\ Tx \ {y} = Txy
    OBVIOUS
  <2>3. \A U \in SUBSET S : U \notin B =>
          \A z \in U : SumFunctionOnSet(fun, U) = fun[z] + SumFunctionOnSet(fun, U \ {z})
    OBVIOUS
  <2> HIDE DEF B, Ty, Tx, Txy, y
  <2>4. QED
    BY <2>1, <2>2, <2>3
<1>8. /\ fun[x] \in Nat /\ fun[y] \in Nat
      /\ SumFunctionOnSet(fun, Txy) \in Nat
  <2>1. Txy \in SUBSET S /\ IsFiniteSet(Txy)
    BY <1>4, FS_Subset
  <2>2. QED
    BY <1>3, <1>4, <2>1, SumIsNat
<1>9. QED
  BY <1>3, <1>5, <1>7, <1>8

\* A sum depends on the values at its elements only.
LEMMA SumCongruent ==
  ASSUME NEW S, IsFiniteSet(S), NEW fun, NEW gun, \A x \in S : fun[x] = gun[x]
  PROVE  SumFunctionOnSet(fun, S) = SumFunctionOnSet(gun, S)
<1> DEFINE B == {T \in SUBSET S :
                   SumFunctionOnSet(fun, T) # SumFunctionOnSet(gun, T)}
<1>1. SUFFICES ASSUME B # {} PROVE FALSE
  OBVIOUS
<1>2. PICK T \in B : \A u \in SUBSET T : u # T => u \notin B
  <2>1. B \in SUBSET (SUBSET S)
    OBVIOUS
  <2> HIDE DEF B
  <2>2. QED
    BY <1>1, <2>1, SmallestSubset
<1>3. IsFiniteSet(T) /\ T \in SUBSET S
  BY <1>2, FS_Subset
<1>4. CASE T = {}
  BY <1>2, <1>3, <1>4, SumUnfolds
<1>5. CASE T # {}
  <2> DEFINE r == T \ {Pick(T)}
  <2>1. /\ SumFunctionOnSet(fun, r) = SumFunctionOnSet(gun, r)
        /\ fun[Pick(T)] = gun[Pick(T)]
    BY <1>2, <1>5, PickIn
  <2>2. /\ SumFunctionOnSet(fun, T) = fun[Pick(T)] + SumFunctionOnSet(fun, r)
        /\ SumFunctionOnSet(gun, T) = gun[Pick(T)] + SumFunctionOnSet(gun, r)
    BY <1>3, <1>5, SumUnfolds
  <2>3. QED
    BY <1>2, <2>1, <2>2
<1>6. QED
  BY <1>4, <1>5

\* One element more adds its value.
LEMMA SumAdd ==
  ASSUME NEW S, IsFiniteSet(S), NEW x, x \notin S,
         NEW fun, \A y \in S \cup {x} : fun[y] \in Nat,
         NEW gun, \A y \in S : gun[y] = fun[y]
  PROVE  SumFunctionOnSet(fun, S \cup {x}) = SumFunctionOnSet(gun, S) + fun[x]
<1>1. IsFiniteSet(S \cup {x}) /\ (S \cup {x}) \ {x} = S
  BY FS_AddElement
<1>2. SumFunctionOnSet(fun, S \cup {x}) = fun[x] + SumFunctionOnSet(fun, S)
  BY <1>1, SumRemove
<1>3. SumFunctionOnSet(fun, S) = SumFunctionOnSet(gun, S)
  BY SumCongruent
<1>4. SumFunctionOnSet(fun, S) \in Nat
  BY SumIsNat
<1>5. QED
  BY <1>2, <1>3, <1>4

\* Another value at one element changes the sum by the difference.
LEMMA SumChange ==
  ASSUME NEW S, IsFiniteSet(S), NEW x \in S,
         NEW fun, \A y \in S : fun[y] \in Nat,
         NEW gun, gun[x] \in Nat, \A y \in S \ {x} : gun[y] = fun[y]
  PROVE  SumFunctionOnSet(gun, S) + fun[x] = SumFunctionOnSet(fun, S) + gun[x]
<1> DEFINE r == S \ {x}
<1>1. /\ SumFunctionOnSet(fun, S) = fun[x] + SumFunctionOnSet(fun, r)
      /\ SumFunctionOnSet(gun, S) = gun[x] + SumFunctionOnSet(gun, r)
  BY SumRemove
<1>2. SumFunctionOnSet(gun, r) = SumFunctionOnSet(fun, r) /\ SumFunctionOnSet(fun, r) \in Nat
  <2>1. IsFiniteSet(r) /\ r \in SUBSET S
    BY FS_Subset
  <2>2. QED
    BY <2>1, SumCongruent, SumIsNat
<1>3. QED
  BY <1>1, <1>2

\* A sum of values that are no larger is no larger.
LEMMA SumMonotone ==
  ASSUME NEW S, IsFiniteSet(S), NEW fun, NEW gun,
         \A x \in S : fun[x] \in Nat /\ gun[x] \in Nat /\ fun[x] <= gun[x]
  PROVE  SumFunctionOnSet(fun, S) <= SumFunctionOnSet(gun, S)
<1> DEFINE B == {T \in SUBSET S :
                   ~(SumFunctionOnSet(fun, T) <= SumFunctionOnSet(gun, T))}
<1>1. SUFFICES ASSUME B # {} PROVE FALSE
  OBVIOUS
<1>2. PICK T \in B : \A u \in SUBSET T : u # T => u \notin B
  <2>1. B \in SUBSET (SUBSET S)
    OBVIOUS
  <2> HIDE DEF B
  <2>2. QED
    BY <1>1, <2>1, SmallestSubset
<1>3. IsFiniteSet(T) /\ T \in SUBSET S
  BY <1>2, FS_Subset
<1>4. CASE T = {}
  <2>1. SumFunctionOnSet(fun, T) = 0 /\ SumFunctionOnSet(gun, T) = 0
    BY <1>3, <1>4, SumUnfolds
  <2>2. QED
    BY <1>2, <2>1
<1>5. CASE T # {}
  <2> DEFINE r == T \ {Pick(T)}
  <2>1. /\ SumFunctionOnSet(fun, r) <= SumFunctionOnSet(gun, r)
        /\ fun[Pick(T)] \in Nat /\ gun[Pick(T)] \in Nat
        /\ fun[Pick(T)] <= gun[Pick(T)]
    BY <1>2, <1>5, PickIn
  <2>2. /\ SumFunctionOnSet(fun, T) = fun[Pick(T)] + SumFunctionOnSet(fun, r)
        /\ SumFunctionOnSet(gun, T) = gun[Pick(T)] + SumFunctionOnSet(gun, r)
    BY <1>3, <1>5, SumUnfolds
  <2>3. SumFunctionOnSet(fun, r) \in Nat /\ SumFunctionOnSet(gun, r) \in Nat
    <3>1. IsFiniteSet(r) /\ r \in SUBSET S
      BY <1>3, FS_Subset
    <3>2. QED
      BY <3>1, SumIsNat
  <2>4. QED
    BY <1>2, <2>1, <2>2, <2>3
<1>6. QED
  BY <1>4, <1>5

\* A sum over nothing, and over one element.
LEMMA SumOfFew ==
  /\ \A fun : SumFunctionOnSet(fun, {}) = 0
  /\ \A fun, x : fun[x] \in Nat => SumFunctionOnSet(fun, {x}) = fun[x]
<1>1. \A fun : SumFunctionOnSet(fun, {}) = 0
  BY FS_EmptySet, SumUnfolds
<1>2. ASSUME NEW fun, NEW x, fun[x] \in Nat
      PROVE  SumFunctionOnSet(fun, {x}) = fun[x]
  <2>1. IsFiniteSet({x}) /\ \A y \in {x} : fun[y] \in Nat
    BY <1>2, FS_Singleton
  <2>2. SumFunctionOnSet(fun, {x}) = fun[x] + SumFunctionOnSet(fun, {x} \ {x})
    BY <2>1, SumRemove
  <2>3. {x} \ {x} = {}
    OBVIOUS
  <2>4. QED
    BY <1>1, <1>2, <2>2, <2>3
<1>3. QED
  BY <1>1, <1>2

\* A sum does not depend on what its terms are called.
LEMMA SumReindex ==
  ASSUME NEW S, IsFiniteSet(S), NEW key,
         \A x, y \in S : key[x] = key[y] => x = y,
         NEW fun, \A x \in S : fun[x] \in Nat,
         NEW gun, \A x \in S : gun[key[x]] = fun[x]
  PROVE  SumFunctionOnSet(gun, {key[x] : x \in S}) = SumFunctionOnSet(fun, S)
<1> DEFINE image(T) == {key[x] : x \in T}
           B == {T \in SUBSET S :
                   SumFunctionOnSet(gun, image(T)) # SumFunctionOnSet(fun, T)}
<1>1. SUFFICES ASSUME B # {} PROVE FALSE
  <2>1. S \in SUBSET S
    OBVIOUS
  <2>2. QED
    BY <2>1
<1>2. PICK T \in B : \A U \in SUBSET T : U # T => U \notin B
  <2>1. B \in SUBSET (SUBSET S)
    OBVIOUS
  <2> HIDE DEF B
  <2>2. QED
    BY <1>1, <2>1, SmallestSubset
<1>3. /\ T \in SUBSET S
      /\ SumFunctionOnSet(gun, image(T)) # SumFunctionOnSet(fun, T)
  OBVIOUS
<1>4. T # {}
  <2>1. CASE T = {}
    <3>1. image(T) = {}
      BY <2>1
    <3>2. QED
      BY <1>3, <2>1, <3>1, SumOfFew
  <2>2. QED
    BY <2>1
<1>5. PICK p \in T : TRUE
  BY <1>4
<1> DEFINE r == T \ {p}
<1>6. r \in SUBSET T /\ r # T /\ r \in SUBSET S /\ r \cup {p} = T /\ p \notin r
  BY <1>3
<1>7. SumFunctionOnSet(gun, image(r)) = SumFunctionOnSet(fun, r)
  BY <1>2, <1>6
<1>8. IsFiniteSet(r) /\ IsFiniteSet(image(r))
  <2>1. IsFiniteSet(r)
    BY <1>6, FS_Subset
  <2> HIDE DEF r
  <2>2. [x \in r |-> key[x]] \in Surjection(r, image(r))
    BY DEF Surjection
  <2>3. QED
    BY <2>1, <2>2, FS_Surjection
<1>9. image(T) = image(r) \cup {key[p]} /\ key[p] \notin image(r)
  BY <1>3, <1>5, <1>6
<1>10. /\ \A y \in image(r) \cup {key[p]} : gun[y] \in Nat
       /\ \A x \in r \cup {p} : fun[x] \in Nat
       /\ gun[key[p]] = fun[p]
  BY <1>3, <1>5, <1>6
<1> DEFINE new == key[p]
           before == image(r)
<1> HIDE DEF image, r, B
<1>11. SumFunctionOnSet(gun, image(r) \cup {new})
         = SumFunctionOnSet(gun, image(r)) + gun[new]
  <2>1. /\ IsFiniteSet(before) /\ new \notin before
        /\ \A y \in before \cup {new} : gun[y] \in Nat
        /\ \A y \in before : gun[y] = gun[y]
    BY <1>8, <1>9, <1>10
  <2> HIDE DEF new, before
  <2>2. SumFunctionOnSet(gun, before \cup {new})
          = SumFunctionOnSet(gun, before) + gun[new]
    BY <2>1, SumAdd
  <2>3. QED
    BY <2>2 DEF before
<1>12. SumFunctionOnSet(fun, r \cup {p}) = SumFunctionOnSet(fun, r) + fun[p]
  BY <1>6, <1>8, <1>10, SumAdd
<1>13. SumFunctionOnSet(fun, T) = SumFunctionOnSet(fun, r) + fun[p]
  BY <1>6, <1>12, Zenon
<1>14. SumFunctionOnSet(gun, image(T)) = SumFunctionOnSet(fun, r) + fun[p]
  BY <1>7, <1>9, <1>10, <1>11, Zenon
<1>15. QED
  BY <1>3, <1>13, <1>14, Zenon
=============================================================================
