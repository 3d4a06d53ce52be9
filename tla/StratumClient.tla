---------------------------- MODULE StratumClient ----------------------------
(***************************************************************************)
(* The Stratum client (src/src/stratum_client.rs) as a thread of the CPU   *)
(* miner uses it (mining_loop of src/src/bin/cpu_miner_real.rs), and the   *)
(* pool's end of its connections (handle_miner_connection of               *)
(* src/src/stratum_pool.rs).  A second task calls send_keepalive, which is *)
(* public but has no caller in src/; MaxPings = 0 is the program without.  *)
(*                                                                         *)
(* A connection is two queues of lines.  The pool answers the lines of one *)
(* connection in order, and may close it.  The client may give up waiting  *)
(* for an answer, which then comes before the next one.  Only submit_share *)
(* looks at the id of an answer; the handshake takes the line it gets.     *)
(*                                                                         *)
(* A mutex of the client is kept over one assignment, one read or one      *)
(* write, so each of these is a step.  An id is taken in the step that     *)
(* sends it: which of two tasks gets the lower one makes no difference.    *)
(* What becomes of a share in the pool is StratumPool's; here it is one of *)
(* Outcomes.                                                               *)
(***************************************************************************)
EXTENDS Naturals, Sequences

CONSTANTS
  MaxAttempts,  \* failed connects after which a thread gives up at its start
  MaxConns,     \* bound: connections
  MaxShares,    \* bound: shares found
  MaxPings,     \* bound: keepalives
  MaxFaults     \* bound: refused connects, timeouts, closed connections

ASSUME ClientAssumption ==
  /\ MaxAttempts \in Nat \ {0}
  /\ {MaxConns, MaxShares, MaxPings, MaxFaults} \subseteq Nat

VARIABLES
  conns,     \* the connections made, and what the pool knows of each
  reader,    \* the connection the client reads from, 0 if none
  writer,    \* the connection the client writes to, 0 if none
  state,     \* ConnectionState
  nextId,    \* request_id
  miner,     \* where the mining thread is
  waiting,   \* the id of the share it submitted last
  started,   \* its first connect has succeeded
  attempts,  \* the first connects that failed
  keeper,    \* where the task that keeps the connection alive is
  log,       \* history: what the pool made of each share it handled
  accepted,  \* history: the shares submit_share called accepted
  rejected,  \* history: those it called rejected
  budget     \* what is left of the bounds

client == <<reader, writer, state>>
thread == <<waiting, started, attempts>>
verdicts == <<accepted, rejected>>
clientVars ==
  <<conns, client, nextId, miner, thread, keeper, log, verdicts, budget>>

States == {"Disconnected", "Connected", "Subscribed", "Authorized"}
Methods == {"subscribe", "authorize", "submit", "ping"}
Results == {"array", "true", "false", "null", "pong"}

\* A stale share is refused; a valid or an invalid one is counted; the block
\* of an unsent one could not be sent after it was counted.
Outcomes == {"refused", "valid", "invalid", "unsent"}

\* The rest of a line whose beginning a cancelled read has consumed.
Remainder == [id |-> 0, result |-> "null"]

\* up: the lines to the pool; down: the lines to the client; reset: a line
\* was sent after the pool had closed, and the next one fails.
NewConn == [up |-> << >>, down |-> << >>, open |-> TRUE, reset |-> FALSE,
            subscribed |-> FALSE, authorized |-> FALSE]

Spend(what) ==
  /\ budget[what] > 0
  /\ budget' = [budget EXCEPT ![what] = @ - 1]

-----------------------------------------------------------------------------
(* send_request and read_response.                                         *)

\* A write succeeds although the pool may have closed.
SendOk(method) ==
  /\ writer # 0 /\ ~conns[writer].reset
  /\ conns' = IF conns[writer].open
                THEN [conns EXCEPT ![writer].up =
                        Append(@, [id |-> nextId, method |-> method])]
                ELSE [conns EXCEPT ![writer].reset = TRUE]
  /\ nextId' = nextId + 1
  /\ UNCHANGED client

\* A failed write marks the connection as broken; having no writer does not.
SendFails ==
  /\ writer # 0 => ~conns[writer].open
  /\ nextId' = nextId + 1
  /\ state' = IF writer = 0 THEN state ELSE "Disconnected"
  /\ UNCHANGED <<conns, reader, writer>>

Lines == conns[reader].down

ReadLine ==
  /\ Lines # << >> /\ Head(Lines) # Remainder
  /\ conns' = [conns EXCEPT ![reader].down = Tail(@)]
  /\ UNCHANGED budget

\* The pool has closed, the line does not parse, or ten seconds are over.
\* Giving up loses the part of a line that has come: read_line is cancelled.
ReadFails ==
  \/ /\ Lines = << >> /\ ~conns[reader].open
     /\ UNCHANGED <<conns, budget>>
  \/ /\ Lines # << >> /\ Head(Lines) = Remainder
     /\ conns' = [conns EXCEPT ![reader].down = Tail(@)]
     /\ UNCHANGED budget
  \/ /\ Spend("faults")
     /\ \/ UNCHANGED conns
        \/ /\ Lines # << >>
           /\ conns' = [conns EXCEPT ![reader].down[1] = Remainder]

-----------------------------------------------------------------------------
(* connect: reader, writer and state one after another, then the           *)
(* handshake.                                                              *)

\* A thread that never was connected tries again, up to MaxAttempts times;
\* one that was looks at its connection again, before it goes on mining.
ConnectFails ==
  /\ attempts' = IF started THEN attempts ELSE attempts + 1
  /\ miner' = IF started THEN "retry"
              ELSE IF attempts' >= MaxAttempts THEN "ended" ELSE "socket"
  /\ UNCHANGED <<waiting, started, keeper, log, verdicts>>

\* Every attempt of one connect was refused.
ConnectRefused ==
  /\ miner = "socket" /\ Spend("faults")
  /\ ConnectFails
  /\ UNCHANGED <<conns, client, nextId>>

Proceed(from, to) ==
  /\ miner = from /\ miner' = to
  /\ UNCHANGED <<keeper, log>>

SetReader ==
  /\ Proceed("socket", "set_writer")
  /\ Len(conns) < MaxConns
  /\ conns' = Append(conns, NewConn)
  /\ reader' = Len(conns) + 1
  /\ UNCHANGED <<writer, state, nextId, thread, verdicts, budget>>

SetWriter ==
  /\ Proceed("set_writer", "set_connected")
  /\ writer' = Len(conns)
  /\ UNCHANGED <<conns, reader, state, nextId, thread, verdicts, budget>>

SetConnected ==
  /\ Proceed("set_connected", "sub_send")
  /\ state' = "Connected"
  /\ UNCHANGED <<conns, reader, writer, nextId, thread, verdicts, budget>>

HandshakeSend(from, to, method) ==
  \/ /\ Proceed(from, to) /\ SendOk(method)
     /\ UNCHANGED <<thread, verdicts, budget>>
  \/ /\ miner = from /\ SendFails /\ ConnectFails
     /\ UNCHANGED budget

HandshakeFails(from) ==
  /\ miner = from /\ ReadFails /\ ConnectFails
  /\ UNCHANGED <<client, nextId>>

HandshakeRefused(from, wanted) ==
  /\ miner = from /\ ReadLine /\ Head(Lines).result # wanted
  /\ ConnectFails
  /\ UNCHANGED <<client, nextId>>

SubscribeSend == HandshakeSend("sub_send", "sub_read", "subscribe")

SubscribeFails ==
  HandshakeFails("sub_read") \/ HandshakeRefused("sub_read", "array")

Subscribed ==
  /\ Proceed("sub_read", "auth_send")
  /\ ReadLine /\ Head(Lines).result = "array"
  /\ state' = "Subscribed"
  /\ UNCHANGED <<reader, writer, nextId, thread, verdicts>>

AuthorizeSend == HandshakeSend("auth_send", "auth_read", "authorize")

AuthorizeFails ==
  HandshakeFails("auth_read") \/ HandshakeRefused("auth_read", "true")

\* Variant: like submit_share, it takes everything but false for success.
AuthorizedUnlessFalse ==
  /\ Proceed("auth_read", "mining")
  /\ ReadLine /\ Head(Lines).result # "false"
  /\ state' = "Authorized" /\ started' = TRUE
  /\ UNCHANGED <<reader, writer, nextId, waiting, attempts, verdicts>>

Authorized ==
  /\ Proceed("auth_read", "mining")
  /\ ReadLine /\ Head(Lines).result = "true"
  /\ state' = "Authorized" /\ started' = TRUE
  /\ UNCHANGED <<reader, writer, nextId, waiting, attempts, verdicts>>

-----------------------------------------------------------------------------
(* mining_loop: every thirty seconds a look at the connection, a           *)
(* submission for every share found.                                       *)

\* Variant: is_connected instead of is_authorized.
NotConnected == state = "Disconnected"

Unauthorized == state # "Authorized"

HealthCheck ==
  \/ /\ Proceed("mining", "drop_reader") /\ Unauthorized
     /\ UNCHANGED <<conns, client, nextId, thread, verdicts, budget>>
  \/ /\ Proceed("retry", IF Unauthorized THEN "drop_reader" ELSE "mining")
     /\ UNCHANGED <<conns, client, nextId, thread, verdicts, budget>>

\* reconnect
DropReader ==
  /\ Proceed("drop_reader", "drop_writer")
  /\ reader' = 0
  /\ conns' = IF reader = 0 THEN conns
              ELSE [conns EXCEPT ![reader].down = << >>]
  /\ UNCHANGED <<writer, state, nextId, thread, verdicts, budget>>

DropWriter ==
  /\ Proceed("drop_writer", "set_disconnected")
  /\ writer' = 0
  /\ UNCHANGED <<conns, reader, state, nextId, thread, verdicts, budget>>

SetDisconnected ==
  /\ Proceed("set_disconnected", "socket")
  /\ state' = "Disconnected"
  /\ UNCHANGED <<conns, reader, writer, nextId, thread, verdicts, budget>>

\* A share is found; without authorization it is lost.
FindShare ==
  /\ Proceed("mining", IF Unauthorized THEN "mining" ELSE "share_send")
  /\ Spend("shares")
  /\ UNCHANGED <<conns, client, nextId, thread, verdicts>>

ShareSend ==
  \/ /\ Proceed("share_send", "share_read") /\ SendOk("submit")
     /\ waiting' = nextId
     /\ UNCHANGED <<started, attempts, verdicts, budget>>
  \/ /\ Proceed("share_send", "mining") /\ SendFails
     /\ UNCHANGED <<thread, verdicts, budget>>

\* Variant: the end of the connection is no answer, so it reads on.
ShareReadsOn ==
  /\ miner = "share_read" /\ ReadFails
  /\ UNCHANGED <<client, nextId, miner, thread, keeper, log, verdicts>>

\* No answer: the share is an error for the thread, and nothing is marked.
ShareFails ==
  /\ Proceed("share_read", "mining") /\ ReadFails
  /\ UNCHANGED <<client, nextId, thread, verdicts>>

\* Variant: any line is the answer.
AnyLine == TRUE

Answered == Head(Lines).id = waiting

ShareSkips ==
  /\ miner = "share_read" /\ ReadLine /\ ~Answered
  /\ UNCHANGED <<client, nextId, miner, thread, keeper, log, verdicts>>

\* Whatever is not false counts as accepted, an error beside null included.
ShareAnswered ==
  /\ Proceed("share_read", "mining") /\ ReadLine /\ Answered
  /\ IF Head(Lines).result = "false"
       THEN rejected' = rejected \cup {waiting} /\ UNCHANGED accepted
       ELSE accepted' = accepted \cup {waiting} /\ UNCHANGED rejected
  /\ UNCHANGED <<client, nextId, thread>>

-----------------------------------------------------------------------------
(* send_keepalive: the state is read, and later the line is sent.          *)

KeepaliveCheck ==
  /\ keeper = "idle" /\ state = "Authorized" /\ Spend("pings")
  /\ keeper' = "checked"
  /\ UNCHANGED <<conns, client, nextId, miner, thread, log, verdicts>>

KeepaliveSend ==
  /\ keeper = "checked"
  /\ \/ SendOk("ping") /\ keeper' = "idle"
     \/ SendFails /\ keeper' = "failed"
  /\ UNCHANGED <<miner, thread, log, verdicts, budget>>

\* Whatever the connection is by now, it is marked as broken.
KeepaliveFailed ==
  /\ keeper = "failed" /\ keeper' = "idle"
  /\ state' = "Disconnected"
  /\ UNCHANGED <<conns, reader, writer, nextId, miner, thread, log, verdicts,
                 budget>>

-----------------------------------------------------------------------------
(* The pool's end of connection c.  The miner's address is one that        *)
(* validate_miner_address takes, so subscriptions are not refused.         *)

\* An answer nobody reads any more is lost.
Reply(c, id, result, fields) ==
  conns' = [conns EXCEPT
    ![c].up = Tail(@),
    ![c].down = IF c = reader THEN Append(@, [id |-> id, result |-> result])
                ELSE @,
    ![c].subscribed = fields.subscribed,
    ![c].authorized = fields.authorized]

Knows(subscribed, authorized) ==
  [subscribed |-> subscribed, authorized |-> authorized]

\* mining.subscribe starts a session that is not authorized yet.
HandleSubscribe(c) ==
  /\ Head(conns[c].up).method = "subscribe"
  /\ Reply(c, Head(conns[c].up).id, "array", Knows(TRUE, FALSE))
  /\ UNCHANGED log

HandleAuthorize(c) ==
  /\ Head(conns[c].up).method = "authorize"
  /\ IF conns[c].subscribed
       THEN Reply(c, Head(conns[c].up).id, "true", Knows(TRUE, TRUE))
       ELSE Reply(c, Head(conns[c].up).id, "false", conns[c])
  /\ UNCHANGED log

\* mining.submit: false for a share that is not looked at, otherwise null,
\* with an error beside it unless the share was valid.
HandleSubmit(c) ==
  /\ Head(conns[c].up).method = "submit"
  /\ \E outcome \in IF conns[c].authorized THEN Outcomes ELSE {"refused"} :
       /\ Reply(c, Head(conns[c].up).id,
                IF outcome = "refused" THEN "false" ELSE "null", conns[c])
       /\ log' = log \cup {[id |-> Head(conns[c].up).id, as |-> outcome]}

HandlePing(c) ==
  /\ Head(conns[c].up).method = "ping"
  /\ Reply(c, Head(conns[c].up).id, "pong", conns[c])
  /\ UNCHANGED log

PoolHandles(c) ==
  /\ conns[c].open /\ conns[c].up # << >>
  /\ \/ HandleSubscribe(c) \/ HandleAuthorize(c)
     \/ HandleSubmit(c) \/ HandlePing(c)
  /\ UNCHANGED <<client, nextId, miner, thread, keeper, verdicts, budget>>

\* Silence for five minutes, a read or write error, or the pool's process
\* ends.  With lines not handled the answers on their way are lost, too.
PoolCloses(c) ==
  /\ conns[c].open
  /\ IF c \in {reader, writer} THEN Spend("faults") ELSE UNCHANGED budget
  /\ \E down \in {conns[c].down, << >>} :
       conns' = [conns EXCEPT ![c].open = FALSE, ![c].up = << >>,
                              ![c].down = down]
  /\ UNCHANGED <<client, nextId, miner, thread, keeper, log, verdicts>>

-----------------------------------------------------------------------------
ClientInit ==
  /\ conns = << >> /\ reader = 0 /\ writer = 0
  /\ state = "Disconnected" /\ nextId = 1
  /\ miner = "socket" /\ waiting = 0 /\ started = FALSE /\ attempts = 0
  /\ keeper = "idle"
  /\ log = {} /\ accepted = {} /\ rejected = {}
  /\ budget = [shares |-> MaxShares, pings |-> MaxPings, faults |-> MaxFaults]

Connect ==
  \/ SetReader \/ SetWriter \/ SetConnected
  \/ SubscribeSend \/ SubscribeFails \/ Subscribed
  \/ AuthorizeSend \/ AuthorizeFails \/ Authorized

Reconnect == DropReader \/ DropWriter \/ SetDisconnected

SubmitShare == ShareSend \/ ShareFails \/ ShareSkips \/ ShareAnswered

MiningLoop == Connect \/ HealthCheck \/ Reconnect \/ SubmitShare

Keepalive == KeepaliveCheck \/ KeepaliveSend \/ KeepaliveFailed

ClientNext ==
  \/ MiningLoop \/ ConnectRefused \/ FindShare \/ Keepalive
  \/ \E c \in DOMAIN conns : PoolHandles(c) \/ PoolCloses(c)

\* The thread runs and looks at its connection every thirty seconds; the pool
\* answers on a connection that stays.
ClientSpec ==
  /\ ClientInit /\ [][ClientNext]_clientVars
  /\ WF_clientVars(MiningLoop)
  /\ \A c \in 1..MaxConns : WF_clientVars(c \in DOMAIN conns /\ PoolHandles(c))

-----------------------------------------------------------------------------
ThreadPoints ==
  {"socket", "set_writer", "set_connected", "sub_send", "sub_read",
   "auth_send", "auth_read", "mining", "retry", "drop_reader",
   "drop_writer", "set_disconnected", "share_send", "share_read", "ended"}

\* Where the thread uses its connection.
InUse == {"sub_send", "sub_read", "auth_send", "auth_read", "mining",
          "share_send", "share_read"}

Request == [id : Nat \ {0}, method : Methods]
Answer == [id : Nat, result : Results]

Conn == [up : Seq(Request), down : Seq(Answer),
         open : BOOLEAN, reset : BOOLEAN,
         subscribed : BOOLEAN, authorized : BOOLEAN]

\* Whenever the thread uses its connection, it reads from the one it writes
\* to, although connect and reconnect set the two one after another.
ClientTypeOK ==
  /\ conns \in Seq(Conn)
  /\ {reader, writer} \subseteq 0..Len(conns)
  /\ state \in States /\ nextId \in Nat \ {0}
  /\ miner \in InUse => reader = writer /\ reader # 0
  /\ miner \in ThreadPoints /\ waiting \in Nat
  /\ started \in BOOLEAN /\ attempts \in Nat
  /\ keeper \in {"idle", "checked", "failed"}
  /\ log \subseteq [id : Nat \ {0}, as : Outcomes]
  /\ {accepted, rejected} \subseteq SUBSET Nat
  /\ budget \in [shares : Nat, pings : Nat, faults : Nat]

\* A client that says it is authorized writes to and reads from one
\* connection, on which the pool has authorized it: neither an answer that
\* belongs to another request nor a reconnect half done makes it say so.
AuthorizedBelieved ==
  state = "Authorized" =>
    reader = writer /\ reader # 0 /\ conns[reader].authorized

\* submit_share calls a share accepted only if the pool has counted it, and
\* rejected only if the pool has not, whatever answers came late or pings
\* were answered in between.
AnswersMatch ==
  /\ \A id \in accepted : \E l \in log : l.id = id /\ l.as # "refused"
  /\ \A id \in rejected : \A l \in log : l.id = id => l.as = "refused"

\* A client that has lost its authorization gets it back, or its thread has
\* ended before it ever had it: reconnects survive handshakes that fail and a
\* keepalive that marks the new connection as broken.
Reauthorizes == (state # "Authorized") ~> (state = "Authorized" \/ miner = "ended")

\* A share that is submitted ends as accepted, rejected or an error: a
\* connection that closes does not keep the thread.
SubmissionEnds == (miner = "share_send") ~> (miner = "mining")

=============================================================================
