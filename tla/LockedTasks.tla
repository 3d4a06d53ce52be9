----------------------------- MODULE LockedTasks -----------------------------
(***************************************************************************)
(* Tasks that share values behind fair RwLocks: the form every component   *)
(* of the crate has.  A component keeps each of its values in an           *)
(* Arc<RwLock<_>>; a method is an async function that locks some of them   *)
(* one after another.  From one `.await` to the next it runs without       *)
(* anybody seeing the values it has locked, so a step of a task is such a  *)
(* segment: it begins once the lock the task asked for is granted and ends *)
(* with asking for the next one, or with dropping every guard and          *)
(* returning.                                                              *)
(***************************************************************************)
EXTENDS FairRwLock, FiniteSets

CONSTANTS
  Tasks,  \* the tasks that call the component
  None    \* "no argument", and Option::None

ASSUME TasksAssumption == IsFiniteSet(Tasks)

VARIABLES
  locks,  \* the component's locks, by the name of the value they guard
  pc,     \* the await point each task is at, "idle" between calls
  arg     \* the arguments and locals each task still needs

taskVars == <<locks, pc, arg>>

NoCalls(names) ==
  /\ locks = [l \in names |-> FreeLock(Tasks)]
  /\ pc = [t \in Tasks |-> "idle"]
  /\ arg = [t \in Tasks |-> None]

\* The lock t asked for at this point has been granted.
Reached(t, point, lock) == pc[t] = point /\ Holds(locks[lock], t)

\* Begin a call: keep its argument and ask for the first lock.
Enter(t, value, point, lock, mode) ==
  /\ pc[t] = "idle"
  /\ pc' = [pc EXCEPT ![t] = point]
  /\ arg' = [arg EXCEPT ![t] = value]
  /\ locks' = [locks EXCEPT ![lock] = Enqueue(@, t, mode)]

\* Keep the guards and ask for another lock.
Await(t, point, lock, mode) ==
  /\ pc' = [pc EXCEPT ![t] = point]
  /\ locks' = [locks EXCEPT ![lock] = Enqueue(@, t, mode)]

\* Drop the guard of one lock.  What is asked for next is asked for in a
\* later step: on another thread, other tasks get the lock meanwhile.
Drop(t, lock, point) ==
  /\ pc' = [pc EXCEPT ![t] = point]
  /\ locks' = [locks EXCEPT ![lock] = Leave(@, t)]

\* For variants only: drop one guard and ask for another at once.
AwaitAfter(t, dropped, point, lock, mode) ==
  /\ pc' = [pc EXCEPT ![t] = point]
  /\ locks' = LET left == [locks EXCEPT ![dropped] = Leave(@, t)]
              IN  [left EXCEPT ![lock] = Enqueue(@, t, mode)]

\* Go on without touching a lock.
Move(t, point) == pc' = [pc EXCEPT ![t] = point] /\ UNCHANGED locks

\* Return, with or without an error: every guard is dropped.
Return(t) ==
  /\ pc' = [pc EXCEPT ![t] = "idle"]
  /\ arg' = [arg EXCEPT ![t] = None]
  /\ locks' = [l \in DOMAIN locks |-> Leave(locks[l], t)]

Keep(t, value) == arg' = [arg EXCEPT ![t] = value]

-----------------------------------------------------------------------------
(* Which guards a task has at each await point, as tables of the           *)
(* component: wants[point][lock] is the mode it asked the lock for, and    *)
(* held[point] the locks that were granted before it got there.            *)

LockDiscipline(wants, held) ==
  \A t \in Tasks, l \in DOMAIN locks :
    /\ locks[l][t].mode = wants[pc[t]][l]
    /\ l \in held[pc[t]] => Holds(locks[l], t)

\* The part of a component's invariant that is about its locks.
LockInv(names, points, wants, held) ==
  /\ DOMAIN locks = names
  /\ \A l \in names : WellFormed(locks[l], Tasks)
  /\ pc \in [Tasks -> points]
  /\ LockDiscipline(wants, held)

-----------------------------------------------------------------------------
(* Waiting.                                                                *)

\* A set of tasks of which each waits for another one of the set.
Stuck(D) ==
  /\ D # {}
  /\ \A t \in D : \E u \in D, l \in DOMAIN locks : Blocks(locks[l], u, t)

Deadlock == \E D \in SUBSET Tasks : Stuck(D)

\* The tasks never wait for each other in a circle.
NoDeadlock == ~Deadlock
=============================================================================
