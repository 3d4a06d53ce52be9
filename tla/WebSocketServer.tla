--------------------------- MODULE WebSocketServer ---------------------------
(***************************************************************************)
(* The WebSocket server (src/src/websocket_server.rs).                     *)
(*                                                                         *)
(* Each connection is served by a task of its own.  The table of the       *)
(* clients, keyed by peer address, is behind a fair lock; the events come  *)
(* through a broadcast channel that keeps a bounded number of them for a   *)
(* receiver that is slow.  A task keeps the table locked while it sends an *)
(* event or the answer to a subscription, for as long as the peer takes to *)
(* read it.                                                                *)
(*                                                                         *)
(* Peers and the network are the environment: a peer may go away and come  *)
(* back under the same address before the task of its first connection has *)
(* noticed.  Pings and messages that are no request change nothing.        *)
(***************************************************************************)
EXTENDS LockedTasks, Integers, Sequences

CONSTANTS
  Peers,     \* peer addresses
  Channels,  \* Channels[t]: what the peers t serves ask for
  Endings,   \* Endings[ch]: the address channels whose address ch ends with
  Capacity   \* events the broadcast channel keeps for a slow receiver

VARIABLES
  clients, \* HashMap<peer address, ClientConnection>: its subscriptions
  queues,  \* the broadcast receiver of each task that has one
  \* what the code does not keep:
  leaked,  \* peers whose entry was left by a failed welcome
  reused   \* peers that were served by two tasks at once

socketData == <<clients, queues, leaked, reused>>

SocketLocks == {"clients"}

Receiver == [events |-> << >>, lagged |-> FALSE]

-----------------------------------------------------------------------------
(* The broadcast channel, a library type.  Whoever falls behind loses the  *)
(* oldest events and is told at its next recv() that it did.               *)

Push(receiver, event) ==
  IF Len(receiver.events) < Capacity
  THEN [receiver EXCEPT !.events = Append(@, event)]
  ELSE [events |-> Append(SubSeq(receiver.events, 2, Capacity), event),
        lagged |-> TRUE]

\* broadcast_new_block and its like: event_tx.send, nobody listening included.
Broadcast(event) ==
  queues' = [t \in Tasks |-> IF queues[t] = None THEN None
                             ELSE Push(queues[t], event)]

-----------------------------------------------------------------------------
(* handle_connection                                                       *)

Serving(t) == pc[t] \in {"ws_welcome", "ws_loop", "ws_subscribe", "ws_answer",
                         "ws_unsubscribe", "ws_event", "ws_send", "ws_over",
                         "ws_remove"}

ServedBy(peer) == {t \in Tasks : Serving(t) /\ arg[t].peer = peer}

HandleConnection(t, peer) ==
  /\ Enter(t, [peer |-> peer, channel |-> None, event |-> None,
               asked |-> {}, lost |-> {}],
           "ws_insert", "clients", "write")
  /\ UNCHANGED socketData

\* The entry of an earlier connection of this peer is replaced.
InsertClient(t) ==
  /\ Reached(t, "ws_insert", "clients")
  /\ LET peer == arg[t].peer
     IN  /\ clients' = [p \in DOMAIN clients \cup {peer} |->
                          IF p = peer THEN {} ELSE clients[p]]
         /\ leaked' = leaked \ {peer}
         /\ reused' = IF ServedBy(peer) = {} THEN reused \ {peer}
                      ELSE reused \cup {peer}
  /\ queues' = [queues EXCEPT ![t] = Receiver]
  /\ Drop(t, "clients", "ws_welcome")
  /\ UNCHANGED arg

Welcome(t) ==
  /\ pc[t] = "ws_welcome"
  /\ Move(t, "ws_loop")
  /\ UNCHANGED <<socketData, arg>>

\* The handler returns before the loop and the removal that follows it.
WelcomeFails(t) ==
  /\ pc[t] = "ws_welcome"
  /\ leaked' = leaked \cup {arg[t].peer}
  /\ queues' = [queues EXCEPT ![t] = None]
  /\ Return(t)
  /\ UNCHANGED <<clients, reused>>

\* An action of the loop's select! that locks the table for a request.
Ask(t, channel, point) ==
  /\ pc[t] = "ws_loop"
  /\ Keep(t, [arg[t] EXCEPT !.channel = channel])
  /\ Await(t, point, "clients", "write")
  /\ UNCHANGED socketData

Subscribe(t, channel) == Ask(t, channel, "ws_subscribe")

Unsubscribe(t, channel) == Ask(t, channel, "ws_unsubscribe")

Listed(t) == arg[t].peer \in DOMAIN clients

Subscribed(t, channel) == Listed(t) /\ channel \in clients[arg[t].peer]

\* The answer is sent with the table still locked.
SubscribeAdd(t) ==
  /\ Reached(t, "ws_subscribe", "clients")
  /\ Listed(t) /\ ~Subscribed(t, arg[t].channel)
  /\ clients' = [clients EXCEPT ![arg[t].peer] = @ \cup {arg[t].channel}]
  /\ Keep(t, [arg[t] EXCEPT !.channel = None,
                            !.asked = @ \cup {arg[t].channel},
                            !.lost = @ \ {arg[t].channel}])
  /\ Move(t, "ws_answer")
  /\ UNCHANGED <<queues, leaked, reused>>

SubscribeIgnored(t) ==
  /\ Reached(t, "ws_subscribe", "clients")
  /\ Listed(t) => Subscribed(t, arg[t].channel)
  /\ Keep(t, [arg[t] EXCEPT !.channel = None,
                            !.asked = @ \cup {arg[t].channel}])
  /\ Drop(t, "clients", "ws_loop")
  /\ UNCHANGED socketData

\* Sent or not: the result is dropped.
Answered(t) ==
  /\ pc[t] = "ws_answer"
  /\ Drop(t, "clients", "ws_loop")
  /\ UNCHANGED <<socketData, arg>>

\* Unsubscribing an address takes every address it ends with away as well.
Removed(channel) == {channel} \cup Endings[channel]

UnsubscribeRemove(t) ==
  /\ Reached(t, "ws_unsubscribe", "clients")
  /\ LET gone == Removed(arg[t].channel)
     IN  /\ clients' = IF Listed(t)
                       THEN [clients EXCEPT ![arg[t].peer] = @ \ gone]
                       ELSE clients
         /\ Keep(t, [arg[t] EXCEPT
              !.channel = None,
              !.asked = @ \ {arg[t].channel},
              !.lost = (@ \cup (arg[t].asked \cap Endings[arg[t].channel]))
                         \ {arg[t].channel}])
  /\ Drop(t, "clients", "ws_loop")
  /\ UNCHANGED <<queues, leaked, reused>>

\* recv() says that events were skipped; the loop goes on.
EventLagged(t) ==
  /\ pc[t] = "ws_loop"
  /\ queues[t].lagged
  /\ queues' = [queues EXCEPT ![t].lagged = FALSE]
  /\ UNCHANGED <<clients, leaked, reused, taskVars>>

EventReceived(t) ==
  /\ pc[t] = "ws_loop"
  /\ ~queues[t].lagged /\ queues[t].events # << >>
  /\ Keep(t, [arg[t] EXCEPT !.event = queues[t].events[1]])
  /\ queues' = [queues EXCEPT ![t].events = SubSeq(@, 2, Len(@))]
  /\ Await(t, "ws_event", "clients", "read")
  /\ UNCHANGED <<clients, leaked, reused>>

ShouldSend(t) == Subscribed(t, arg[t].event.channel)

EventSkipped(t) ==
  /\ Reached(t, "ws_event", "clients")
  /\ ~ShouldSend(t)
  /\ Keep(t, [arg[t] EXCEPT !.event = None])
  /\ Drop(t, "clients", "ws_loop")
  /\ UNCHANGED socketData

\* The event is sent with the table still locked.
EventSend(t) ==
  /\ Reached(t, "ws_event", "clients")
  /\ ShouldSend(t)
  /\ Keep(t, [arg[t] EXCEPT !.event = None])
  /\ Move(t, "ws_send")
  /\ UNCHANGED socketData

EventSent(t) ==
  /\ pc[t] = "ws_send"
  /\ Drop(t, "clients", "ws_loop")
  /\ UNCHANGED <<socketData, arg>>

\* Variant: the handler returns at once, as it does for the welcome.
EventFailsReturns(t) ==
  /\ pc[t] = "ws_send"
  /\ queues' = [queues EXCEPT ![t] = None]
  /\ Return(t)
  /\ UNCHANGED <<clients, leaked, reused>>

EventFails(t) ==
  /\ pc[t] = "ws_send"
  /\ Drop(t, "clients", "ws_over")
  /\ UNCHANGED <<socketData, arg>>

\* A close message, an error, or the end of the stream.
Closed(t) ==
  /\ pc[t] = "ws_loop"
  /\ Move(t, "ws_over")
  /\ UNCHANGED <<socketData, arg>>

RemoveAsk(t) ==
  /\ pc[t] = "ws_over"
  /\ Await(t, "ws_remove", "clients", "write")
  /\ UNCHANGED <<socketData, arg>>

\* Whichever connection of this peer the entry is of.
RemoveClient(t) ==
  /\ Reached(t, "ws_remove", "clients")
  /\ clients' = [p \in DOMAIN clients \ {arg[t].peer} |-> clients[p]]
  /\ leaked' = leaked \ {arg[t].peer}
  /\ queues' = [queues EXCEPT ![t] = None]
  /\ Return(t)
  /\ UNCHANGED reused

-----------------------------------------------------------------------------
Connect(t) == \E peer \in Peers : HandleConnection(t, peer)

Serve(t) ==
  \/ InsertClient(t) \/ Welcome(t) \/ WelcomeFails(t)
  \/ \E channel \in Channels[t] : Subscribe(t, channel) \/ Unsubscribe(t, channel)
  \/ SubscribeAdd(t) \/ SubscribeIgnored(t) \/ Answered(t)
  \/ UnsubscribeRemove(t)
  \/ EventLagged(t) \/ EventReceived(t) \/ EventSkipped(t) \/ EventSend(t)
  \/ EventSent(t) \/ EventFails(t)
  \/ Closed(t) \/ RemoveAsk(t) \/ RemoveClient(t)

NoConnections ==
  /\ clients = << >> /\ queues = [t \in Tasks |-> None]
  /\ leaked = {} /\ reused = {}

-----------------------------------------------------------------------------
(* What peers and the owner of the server may rely on.                     *)

\* The table has an entry for the peers that are served and for them only,
\* except where a welcome failed; and a peer's entry is what it asked for,
\* unless it came back while its first connection was served (then the first
\* one's removal takes the entry of the second) or unsubscribed an address
\* that ends with another one of its addresses.
TableTracksConnections ==
  /\ \A peer \in DOMAIN clients : peer \in leaked \/ ServedBy(peer) # {}
  /\ \A t \in Tasks :
       Serving(t) /\ arg[t].peer \notin reused =>
         /\ Listed(t)
         /\ clients[arg[t].peer] = arg[t].asked \ arg[t].lost
=============================================================================
