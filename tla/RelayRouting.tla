----------------------------- MODULE RelayRouting -----------------------------
(***************************************************************************)
(* The relay server (caterm-relay): the routing table of routing.rs, and   *)
(* for every websocket connection the task run_socket of main.rs with its  *)
(* queue and its writer task.  The tasks run concurrently; each method of  *)
(* the table holds its lock, and between two of them anything may happen:  *)
(* the recipients of a frame are looked up first and served afterwards.    *)
(*                                                                         *)
(* A connection belongs to one session and is a daemon's or a client's,    *)
(* which the handshake checks (parse_request and RelayAuth: external).     *)
(***************************************************************************)
EXTENDS Integers, Sequences, SequencesExt, FiniteSets, Functions

CONSTANTS
  Sessions,
  DaemonConns, ClientConns,   \* connections daemons and clients may make
  None

ASSUME RelayAssumption ==
  /\ DaemonConns \cap ClientConns = {}
  /\ None \notin DaemonConns \cup ClientConns

Conns == DaemonConns \cup ClientConns

VARIABLES
  routes,      \* RoutingTable: session |-> [daemon, clients]
  session,     \* connection |-> its session, once it is accepted
  state,       \* connection |-> "new", "accepted", "open", "closing", "closed"
  sent,        \* frames read from the connection
  forwarding,  \* the recipients looked up for the last frame, not yet served
  queue,       \* the channel to the writer task
  writing,     \* whether the writer task still takes from the channel
  delivered    \* frames written to the connection: <<sender, number>>

conns == <<session, state, sent, forwarding, queue, writing, delivered>>
relayVars == <<routes, conns>>

RelayInit ==
  /\ routes = [s \in {} |-> s]
  /\ session = [c \in Conns |-> None]
  /\ state = [c \in Conns |-> "new"]
  /\ sent = [c \in Conns |-> 0]
  /\ forwarding = [c \in Conns |-> {}]
  /\ queue = [c \in Conns |-> <<>>]
  /\ writing = [c \in Conns |-> FALSE]
  /\ delivered = [c \in Conns |-> <<>>]

-------------------------------------------------------------------------------
\* The methods of RoutingTable, as functions of the table.
Route(table, s) ==
  IF s \in DOMAIN table THEN table[s] ELSE [daemon |-> None, clients |-> {}]

With(table, s, route) ==
  [t \in DOMAIN table \cup {s} |-> IF t = s THEN route ELSE table[t]]

\* Mutants: the entry stays when the last of a session has left; it goes when
\* the daemon has left, or the last client.
KeepRoute(table, s, route) == With(table, s, route)
LeaveEarly(table, s, route) ==
  IF s \notin DOMAIN table THEN table
  ELSE IF route.daemon = None \/ route.clients = {}
       THEN Restrict(table, DOMAIN table \ {s})
       ELSE With(table, s, route)

\* What detach leaves of an entry: nothing of one without daemon and clients.
LeaveRoute(table, s, route) ==
  IF s \notin DOMAIN table THEN table
  ELSE IF route.daemon = None /\ route.clients = {}
       THEN Restrict(table, DOMAIN table \ {s})
       ELSE With(table, s, route)

AttachDaemon(table, s, c) ==
  With(table, s, [daemon |-> c, clients |-> Route(table, s).clients])

AttachClient(table, s, c) ==
  With(table, s, [daemon |-> Route(table, s).daemon,
                  clients |-> Route(table, s).clients \cup {c}])

\* Whichever connection the daemon's route leads to.
DetachDaemon(table, s) ==
  LeaveRoute(table, s, [daemon |-> None, clients |-> Route(table, s).clients])

DetachClient(table, s, c) ==
  LeaveRoute(table, s, [daemon |-> Route(table, s).daemon,
                        clients |-> Route(table, s).clients \ {c}])

\* Mutant: every frame goes to everybody.
RecipientsAll(table, s, c) ==
  UNION {table[t].clients \cup {table[t].daemon} : t \in DOMAIN table} \ {None, c}

\* client_txs for a daemon's frame, daemon_tx for a client's
Recipients(table, s, c) ==
  IF c \in DaemonConns THEN Route(table, s).clients
  ELSE {Route(table, s).daemon} \ {None}

-------------------------------------------------------------------------------
Accept(c, s) ==
  /\ state[c] = "new"
  /\ state' = [state EXCEPT ![c] = "accepted"]
  /\ session' = [session EXCEPT ![c] = s]
  /\ UNCHANGED <<routes, sent, forwarding, queue, writing, delivered>>

\* register, and then the spawn of the writer task
Register(c) ==
  /\ state[c] = "accepted"
  /\ routes' = IF c \in DaemonConns THEN AttachDaemon(routes, session[c], c)
               ELSE AttachClient(routes, session[c], c)
  /\ state' = [state EXCEPT ![c] = "open"]
  /\ writing' = [writing EXCEPT ![c] = TRUE]
  /\ UNCHANGED <<session, sent, forwarding, queue, delivered>>

\* A frame is read, and its recipients are looked up.
Read(c) ==
  /\ state[c] = "open" /\ forwarding[c] = {}
  /\ sent' = [sent EXCEPT ![c] = @ + 1]
  /\ forwarding' = [forwarding EXCEPT ![c] = Recipients(routes, session[c], c)]
  /\ UNCHANGED <<routes, session, state, queue, writing, delivered>>

\* Mutant: the newest frame overtakes the queue.
PushFront(q, frame) == <<frame>> \o q

Push(q, frame) == Append(q, frame)

\* Mutant: the channel is taken to outlive its writer task.
ForwardAnyway(c, r) ==
  /\ state[c] = "open" /\ r \in forwarding[c]
  /\ forwarding' = [forwarding EXCEPT ![c] = @ \ {r}]
  /\ queue' = [queue EXCEPT ![r] = Push(@, <<c, sent[c]>>)]
  /\ UNCHANGED <<routes, session, state, sent, writing, delivered>>

\* The frame goes into the queue of one recipient, unless that queue is gone
\* with its writer task: then it is lost without a word.
Forward(c, r) ==
  /\ state[c] = "open" /\ r \in forwarding[c]
  /\ forwarding' = [forwarding EXCEPT ![c] = @ \ {r}]
  /\ queue' = IF writing[r] THEN [queue EXCEPT ![r] = Push(@, <<c, sent[c]>>)]
              ELSE queue
  /\ UNCHANGED <<routes, session, state, sent, writing, delivered>>

\* The writer task.  A failed write ends it, with what is left in its queue.
Write(c) ==
  /\ writing[c] /\ queue[c] # <<>>
  /\ \/ /\ delivered' = [delivered EXCEPT ![c] = Append(@, Head(queue[c]))]
        /\ queue' = [queue EXCEPT ![c] = Tail(@)]
        /\ UNCHANGED writing
     \/ /\ writing' = [writing EXCEPT ![c] = FALSE]
        /\ queue' = [queue EXCEPT ![c] = <<>>]
        /\ UNCHANGED delivered
  /\ UNCHANGED <<routes, session, state, sent, forwarding>>

\* The peer closed, or reading from it failed.
Close(c) ==
  /\ state[c] = "open" /\ forwarding[c] = {}
  /\ state' = [state EXCEPT ![c] = "closing"]
  /\ UNCHANGED <<routes, session, sent, forwarding, queue, writing, delivered>>

\* unregister, and then the abort of the writer task
Unregister(c) ==
  /\ state[c] = "closing"
  /\ routes' = IF c \in DaemonConns THEN DetachDaemon(routes, session[c])
               ELSE DetachClient(routes, session[c], c)
  /\ state' = [state EXCEPT ![c] = "closed"]
  /\ writing' = [writing EXCEPT ![c] = FALSE]
  /\ queue' = [queue EXCEPT ![c] = <<>>]
  /\ UNCHANGED <<session, sent, forwarding, delivered>>

RelayNext ==
  \E c \in Conns :
    \/ \E s \in Sessions : Accept(c, s)
    \/ Register(c)
    \/ Read(c)
    \/ \E r \in Conns : Forward(c, r)
    \/ Write(c)
    \/ Close(c)
    \/ Unregister(c)

\* The relay whatever its peers send.  RelayClient adds what a daemon does.
RelaySpec == RelayInit /\ [][RelayNext]_relayVars

-------------------------------------------------------------------------------
Registered(c) == state[c] \in {"open", "closing"}

\* Type invariant.
RelayTypeOK ==
  /\ DOMAIN routes \subseteq Sessions
  /\ \A s \in DOMAIN routes :
       routes[s] \in [daemon : DaemonConns \cup {None}, clients : SUBSET ClientConns]
  /\ session \in [Conns -> Sessions \cup {None}]
  /\ state \in [Conns -> {"new", "accepted", "open", "closing", "closed"}]
  /\ sent \in [Conns -> Nat]
  /\ forwarding \in [Conns -> SUBSET Conns]
  /\ writing \in [Conns -> BOOLEAN]
  /\ \A c \in Conns : queue[c] # <<>> => writing[c]

(***************************************************************************)
(* The table holds no more than the sessions that are in use, whatever     *)
(* order their connections come and go in: an entry has somebody in it,    *)
(* and everybody in it is connected, and connected to that session.        *)
(***************************************************************************)
RoutesAreLive ==
  \A s \in DOMAIN routes :
    LET all == ({routes[s].daemon} \ {None}) \cup routes[s].clients
    IN  all # {} /\ \A c \in all : Registered(c) /\ session[c] = s

\* A connected client is in the table until it has left.
ClientsAreRouted ==
  \A c \in ClientConns :
    Registered(c) =>
      session[c] \in DOMAIN routes /\ c \in routes[session[c]].clients

\* Whatever way it took, a frame stays within its session and goes from the
\* daemon's side to the clients' side or back.
FramesStayInSession ==
  \A r \in Conns : \A i \in 1 .. Len(delivered[r]) :
    LET c == delivered[r][i][1]
    IN  session[c] = session[r] /\ (c \in DaemonConns <=> r \in ClientConns)

\* Of the frames of one sender a receiver gets every one once at most, and in
\* the order they were sent, although tasks run concurrently and frames may be
\* lost.
FramesInOrder ==
  \A r \in Conns : \A i, j \in 1 .. Len(delivered[r]) :
    i < j /\ delivered[r][i][1] = delivered[r][j][1] =>
      delivered[r][i][2] < delivered[r][j][2]

(***************************************************************************)
(* README.md:155 "Automatic reconnect with exponential backoff" and 97     *)
(* "Maintains session mappings": when a daemon's connection is the only    *)
(* one its session has left, clients reach it.  Violated: the old          *)
(* connection of a daemon that has already reconnected is unregistered     *)
(* later, and takes the route of the new one with it.                      *)
(***************************************************************************)
ReconnectedIsRouted ==
  \A c \in DaemonConns :
    /\ state[c] = "open"
    /\ \A d \in DaemonConns \ {c} : state[d] \in {"new", "closed"}
    => session[c] \in DOMAIN routes /\ routes[session[c]].daemon = c
===============================================================================
