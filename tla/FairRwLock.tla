----------------------------- MODULE FairRwLock -----------------------------
(***************************************************************************)
(* The lock every component of the crate shares its state through:         *)
(* tokio::sync::RwLock, a library type, modelled from how src/ uses it.    *)
(*                                                                         *)
(* Requests are served in the order they were made.  A writer has the lock *)
(* alone; a reader shares it with the readers next to it in the order, so  *)
(* a reader that arrives behind a waiting writer waits too.                *)
(*                                                                         *)
(* A lock is a function from tasks to requests.  A request is its mode and *)
(* the set of the tasks whose requests stand ahead of it: the order of the *)
(* queue without a ticket counter that would grow for ever.                *)
(***************************************************************************)

Modes == {"none", "read", "write"}

NoRequest == [mode |-> "none", ahead |-> {}]

Requests(T) == [mode : Modes, ahead : SUBSET T]

\* A lock of the tasks T that nobody holds or waits for.
FreeLock(T) == [t \in T |-> NoRequest]

Queued(lock) == {t \in DOMAIN lock : lock[t].mode # "none"}

\* `.read().await` and `.write().await`: go to the end of the queue.
Enqueue(lock, t, mode) ==
  [lock EXCEPT ![t] = [mode |-> mode, ahead |-> Queued(lock)]]

\* The guard is dropped: t's request leaves the queue.
Leave(lock, t) ==
  [u \in DOMAIN lock |->
     IF u = t THEN NoRequest
              ELSE [mode |-> lock[u].mode, ahead |-> lock[u].ahead \ {t}]]

\* The request of t has been granted and its guard is alive.
Holds(lock, t) ==
  \/ lock[t].mode = "write" /\ lock[t].ahead = {}
  \/ lock[t].mode = "read" /\ \A u \in lock[t].ahead : lock[u].mode = "read"

HoldsWrite(lock, t) == lock[t].mode = "write" /\ Holds(lock, t)

WriteHeld(lock) == \E t \in DOMAIN lock : HoldsWrite(lock, t)

\* t cannot be granted before u leaves.
Blocks(lock, u, t) ==
  /\ u \in lock[t].ahead
  /\ "write" \in {lock[u].mode, lock[t].mode}

-----------------------------------------------------------------------------
(* The queued requests, and only they, stand in one order.                 *)
WellFormed(lock, T) ==
  /\ lock \in [T -> Requests(T)]
  /\ \A t \in T : /\ lock[t].mode = "none" => lock[t].ahead = {}
                  /\ lock[t].ahead \subseteq Queued(lock) \ {t}
                  /\ \A u \in lock[t].ahead : lock[u].ahead \subseteq lock[t].ahead
  /\ \A t, u \in Queued(lock) :
       t # u => t \in lock[u].ahead \/ u \in lock[t].ahead
=============================================================================
