---------------------------- MODULE StratumServer ----------------------------
(***************************************************************************)
(* The plain Stratum server (src/src/stratum.rs).                          *)
(*                                                                         *)
(* One task accepts connections, one task serves each of them.  The        *)
(* acceptor tests the address and the number of clients, each under a lock *)
(* it lets go of at once; a client is counted only when its own task       *)
(* enters it into the table, at its first mining.subscribe.  A connection  *)
(* that ends or falls silent is taken out of the table; one that fails, or *)
(* sends too much, is not.                                                 *)
(*                                                                         *)
(* Time is left to the environment: a window of the limits may be over at  *)
(* any test of it.  The difficulty nobody reads is left out.               *)
(***************************************************************************)
EXTENDS LockedTasks, Integers, FiniteSets

CONSTANTS
  Acceptor,        \* the task of accept_connections
  Owner,           \* the task that sets and broadcasts work
  Addresses,       \* IP addresses
  MaxClients,      \* max_clients
  MaxPerIp,        \* max_connections_per_ip
  RateLimit,       \* rate_limit_per_second
  MaxConnections,  \* bound: connections let in
  MaxClientShares  \* bound: shares of a client

ASSUME ServerAssumption ==
  /\ {Acceptor, Owner} \subseteq Tasks /\ Acceptor # Owner
  /\ {MaxClients, MaxPerIp, RateLimit, MaxConnections, MaxClientShares}
       \subseteq Nat

VARIABLES
  clients,        \* HashMap<client id, StratumClient>
  ip_rate_limits, \* HashMap<IpAddr, IpRateLimit>
  current_work,   \* whether there is some
  \* what the code does not keep:
  accepted,       \* connections let in so far; the last one's id
  unlisted,       \* connections not in the table when the last count was taken
  abandoned       \* clients whose connection ended without their removal

serverData == <<clients, ip_rate_limits, current_work, accepted, unlisted,
                abandoned>>
serverVars == <<serverData, taskVars>>

ServerLocks == {"clients", "ip_rate_limits", "current_work"}

Handlers == Tasks \ {Acceptor, Owner}

ServerCall(t, value, point, lock, mode) ==
  Enter(t, value, point, lock, mode) /\ UNCHANGED serverData

Ask(t, point, lock, mode) ==
  Await(t, point, lock, mode) /\ UNCHANGED <<serverData, arg>>

-----------------------------------------------------------------------------
(* accept_connections                                                      *)

AcceptConnection(ip) ==
  ServerCall(Acceptor, [ip |-> ip], "acc_blocked", "ip_rate_limits", "read")

NoLimit == [connection_count |-> 0, blocked |-> FALSE]

LimitOf(ip) == IF ip \in DOMAIN ip_rate_limits THEN ip_rate_limits[ip]
               ELSE NoLimit

\* is_ip_blocked; a block may be over.
AcceptBlocked ==
  /\ Reached(Acceptor, "acc_blocked", "ip_rate_limits")
  /\ LimitOf(arg[Acceptor].ip).blocked
  /\ Return(Acceptor)
  /\ UNCHANGED serverData

AcceptUnblocked ==
  /\ Reached(Acceptor, "acc_blocked", "ip_rate_limits")
  /\ Drop(Acceptor, "ip_rate_limits", "acc_unblocked")
  /\ UNCHANGED <<serverData, arg>>

AcceptLimitAsk ==
  /\ pc[Acceptor] = "acc_unblocked"
  /\ Ask(Acceptor, "acc_limit", "ip_rate_limits", "write")

\* check_ip_rate_limit, from a count that is a new window's or not.
CountConnection(ip, count, blocked) ==
  ip_rate_limits' = [i \in DOMAIN ip_rate_limits \cup {ip} |->
    IF i = ip THEN [connection_count |-> count, blocked |-> blocked]
    ELSE ip_rate_limits[i]]

\* Every count above the limit is kept as one.
WindowCounts(ip) ==
  LET count == LimitOf(ip).connection_count
  IN  {1, IF count > MaxPerIp THEN count ELSE count + 1}

AcceptLimited ==
  /\ Reached(Acceptor, "acc_limit", "ip_rate_limits")
  /\ \E count \in WindowCounts(arg[Acceptor].ip) :
       count > MaxPerIp /\ CountConnection(arg[Acceptor].ip, count, TRUE)
  /\ Return(Acceptor)
  /\ UNCHANGED <<clients, current_work, accepted, unlisted, abandoned>>

AcceptCounted ==
  /\ Reached(Acceptor, "acc_limit", "ip_rate_limits")
  /\ \E count \in WindowCounts(arg[Acceptor].ip) :
       /\ count <= MaxPerIp
       /\ CountConnection(arg[Acceptor].ip, count,
                          LimitOf(arg[Acceptor].ip).blocked)
  /\ Drop(Acceptor, "ip_rate_limits", "acc_within")
  /\ UNCHANGED <<clients, current_work, accepted, unlisted, abandoned, arg>>

AcceptCountAsk ==
  /\ pc[Acceptor] = "acc_within"
  /\ Ask(Acceptor, "acc_clients", "clients", "read")

ClientCount == Cardinality(DOMAIN clients)

AcceptFull ==
  /\ Reached(Acceptor, "acc_clients", "clients")
  /\ ClientCount >= MaxClients
  /\ Return(Acceptor)
  /\ UNCHANGED serverData

Live == {h \in Handlers : pc[h] # "idle"}

\* Connections that are served and not counted.
Unlisted == {h \in Live : arg[h].id \notin DOMAIN clients}

\* Variant: the limit itself still lets a connection in.
RoomForOneMore == ClientCount <= MaxClients

RoomLeft == ClientCount < MaxClients

\* The table is unlocked before anything is done about the connection.
AcceptRoom ==
  /\ Reached(Acceptor, "acc_clients", "clients")
  /\ RoomLeft /\ accepted < MaxConnections
  /\ unlisted' = Cardinality(Unlisted)
  /\ Drop(Acceptor, "clients", "acc_room")
  /\ UNCHANGED <<clients, ip_rate_limits, current_work, accepted, abandoned,
                 arg>>

\* The connection gets a task of its own, and a client id.
AcceptSpawn(h) ==
  /\ pc[Acceptor] = "acc_room"
  /\ h \in Handlers /\ pc[h] = "idle"
  /\ accepted' = accepted + 1
  /\ pc' = [pc EXCEPT ![Acceptor] = "idle", ![h] = "greeting"]
  /\ arg' = [arg EXCEPT ![Acceptor] = None,
                        ![h] = [id |-> accepted + 1, messages |-> 0]]
  /\ UNCHANGED <<clients, ip_rate_limits, current_work, unlisted, abandoned,
                 locks>>

-----------------------------------------------------------------------------
(* handle_client                                                           *)

Id(h) == arg[h].id

Greet(h) ==
  /\ pc[h] = "greeting"
  /\ Move(h, "reading")
  /\ UNCHANGED <<serverData, arg>>

\* The handler returns and leaves the table as it is.
Abandon(h) ==
  /\ abandoned' = abandoned \cup ({Id(h)} \cap DOMAIN clients)
  /\ Return(h)
  /\ UNCHANGED <<clients, ip_rate_limits, current_work, accepted, unlisted>>

GreetFails(h) == pc[h] = "greeting" /\ Abandon(h)

ReadFails(h) == pc[h] = "reading" /\ Abandon(h)

\* More messages than the window allows.
RateLimited(h) ==
  /\ pc[h] = "reading"
  /\ arg[h].messages = RateLimit
  /\ Abandon(h)

\* The end of the stream, or client_timeout without a message.
Ends(h) ==
  /\ pc[h] = "reading"
  /\ Ask(h, "removing", "clients", "write")

RemoveClient(h) ==
  /\ Reached(h, "removing", "clients")
  /\ clients' = [id \in DOMAIN clients \ {Id(h)} |-> clients[id]]
  /\ Return(h)
  /\ UNCHANGED <<ip_rate_limits, current_work, accepted, unlisted, abandoned>>

\* A message that is within the rate, of this window or a new one.
WithinRate(h) ==
  \E count \in {1, arg[h].messages + 1} :
    count <= RateLimit /\ Keep(h, [arg[h] EXCEPT !.messages = count])

SharesOf(h) ==
  IF Id(h) \in DOMAIN clients THEN clients[Id(h)].shares_accepted ELSE 0

Message(h, point) ==
  /\ pc[h] = "reading"
  /\ WithinRate(h)
  /\ point = "submitting" => SharesOf(h) < MaxClientShares
  /\ Await(h, point, "clients", "write")
  /\ UNCHANGED serverData

\* An empty line, too few parameters, or nothing the server knows.
Ignore(h) ==
  /\ pc[h] = "reading"
  /\ WithinRate(h)
  /\ UNCHANGED <<serverData, locks, pc>>

NewClient == [authorized |-> FALSE, shares_accepted |-> 0]

\* Subscribing again makes a new client of it.
SubscribeClient(h) ==
  /\ Reached(h, "subscribing", "clients")
  /\ clients' = [id \in DOMAIN clients \cup {Id(h)} |->
                   IF id = Id(h) THEN NewClient ELSE clients[id]]
  /\ Drop(h, "clients", "reading")
  /\ UNCHANGED <<ip_rate_limits, current_work, accepted, unlisted, abandoned,
                 arg>>

UpdateClient(h, granted, credit) ==
  /\ clients' = [id \in DOMAIN clients |->
                   IF id # Id(h) THEN clients[id]
                   ELSE [clients[id] EXCEPT !.authorized = @ \/ granted,
                                            !.shares_accepted = @ + credit]]
  /\ UNCHANGED <<ip_rate_limits, current_work, accepted, unlisted, abandoned,
                 arg>>

AuthorizeClient(h) ==
  /\ Reached(h, "authorizing", "clients")
  /\ UpdateClient(h, TRUE, 0)
  /\ Drop(h, "clients", "answering")

\* Authorized or not; the table stays locked while the answer is written.
ClientShare(h) ==
  /\ Reached(h, "submitting", "clients")
  /\ UpdateClient(h, FALSE, 1)
  /\ Move(h, "acknowledging")

Answering == {"answering", "acknowledging"}

Answer(h) ==
  /\ pc[h] \in Answering
  /\ Drop(h, "clients", "reading")
  /\ UNCHANGED <<serverData, arg>>

AnswerFails(h) == pc[h] \in Answering /\ Abandon(h)

-----------------------------------------------------------------------------
(* set_work and broadcast_work.  No client has a channel to be sent        *)
(* anything through: a broadcast to clients fails for each of them.        *)

SetWork == ServerCall(Owner, None, "set_work", "current_work", "write")

WorkSet ==
  /\ Reached(Owner, "set_work", "current_work")
  /\ current_work' = TRUE
  /\ Return(Owner)
  /\ UNCHANGED <<clients, ip_rate_limits, accepted, unlisted, abandoned>>

BroadcastWork == ServerCall(Owner, None, "bc_work", "current_work", "read")

BroadcastNothing ==
  /\ Reached(Owner, "bc_work", "current_work")
  /\ ~current_work
  /\ Return(Owner)
  /\ UNCHANGED serverData

BroadcastAsk ==
  /\ Reached(Owner, "bc_work", "current_work")
  /\ current_work
  /\ Ask(Owner, "bc_clients", "clients", "read")

BroadcastDone ==
  /\ Reached(Owner, "bc_clients", "clients")
  /\ Return(Owner)
  /\ UNCHANGED serverData

-----------------------------------------------------------------------------
Accept ==
  \/ \E ip \in Addresses : AcceptConnection(ip)
  \/ AcceptBlocked \/ AcceptUnblocked \/ AcceptLimitAsk \/ AcceptLimited
  \/ AcceptCounted \/ AcceptCountAsk \/ AcceptFull \/ AcceptRoom
  \/ \E h \in Handlers : AcceptSpawn(h)

Serve(h) ==
  \/ Greet(h) \/ GreetFails(h) \/ ReadFails(h) \/ RateLimited(h)
  \/ Ends(h) \/ RemoveClient(h) \/ Ignore(h)
  \/ \E point \in {"subscribing", "authorizing", "submitting"} :
       Message(h, point)
  \/ SubscribeClient(h) \/ AuthorizeClient(h) \/ ClientShare(h)
  \/ Answer(h) \/ AnswerFails(h)

Work ==
  \/ SetWork \/ WorkSet \/ BroadcastWork \/ BroadcastNothing \/ BroadcastAsk
  \/ BroadcastDone

ServerInit ==
  /\ clients = << >> /\ ip_rate_limits = << >> /\ current_work = FALSE
  /\ accepted = 0 /\ unlisted = 0 /\ abandoned = {}
  /\ NoCalls(ServerLocks)

ServerNext == Accept \/ Work \/ \E h \in Handlers : Serve(h)

ServerSpec == ServerInit /\ [][ServerNext]_serverVars

-----------------------------------------------------------------------------
(* What the owner of the server may rely on.                               *)

\* The table holds the clients of live connections and those of connections
\* that failed or sent too much, and never more than max_clients but for the
\* connections that had not subscribed when the last one was counted: the
\* limit is tested against a table that others enter later.
ClientsBounded ==
  /\ DOMAIN clients \subseteq {Id(h) : h \in Live} \cup abandoned
  /\ ClientCount + Cardinality(Unlisted) <= MaxClients + unlisted
=============================================================================
