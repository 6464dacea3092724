--------------------------- MODULE RelayClientProofs ---------------------------
(***************************************************************************)
(* Proofs about the relay, for any number of sessions, connections and     *)
(* frames and peers that may send anything, and about the daemon's end of  *)
(* it.  Every step of RelayClient is a step of the relay or leaves it      *)
(* alone, so that what the first part shows of the relay holds with the    *)
(* daemon too; to that come the daemon's own invariants: no request is     *)
(* served twice, and answers are to the frames that ask for one, in order. *)
(***************************************************************************)
EXTENDS RelayClient, SequenceTheorems, TLAPS

(* The relay. *)

Entries == [daemon : DaemonConns \cup {None}, clients : SUBSET ClientConns]

Frames == Conns \X Nat

\* What a sequence of frames holds.
Held(frames) == {frames[i] : i \in 1 .. Len(frames)}

-------------------------------------------------------------------------------
\* The type invariant, and the types of the frames on their way.
RelayTypes ==
  /\ RelayTypeOK
  /\ queue \in [Conns -> Seq(Frames)]
  /\ delivered \in [Conns -> Seq(Frames)]

\* A connection has a session from when it is accepted, and passes frames on
\* while it is open.
Accepted ==
  \A c \in Conns :
    /\ state[c] # "new" => session[c] \in Sessions
    /\ forwarding[c] # {} => state[c] = "open"

\* c may send to r: they are at the two ends of one session.
Opposite(c, r) ==
  /\ state[c] # "new" /\ state[r] # "new"
  /\ session[c] = session[r]
  /\ c \in DaemonConns <=> r \in ClientConns

\* Frames are on their way, or have been, between the two ends of a session.
OnTheirWay ==
  \A c, r \in Conns :
    /\ r \in forwarding[c] => Opposite(c, r)
    /\ \A f \in Held(queue[r]) \cup Held(delivered[r]) : f[1] = c => Opposite(c, r)

RelayInv ==
  RelayTypes /\ Accepted /\ RoutesAreLive /\ ClientsAreRouted /\ OnTheirWay

-------------------------------------------------------------------------------
\* What Route and LeaveRoute make of a typed table.
LEMMA RouteTyped ==
  ASSUME NEW table, NEW s, \A t \in DOMAIN table : table[t] \in Entries
  PROVE  Route(table, s) \in Entries
  BY DEF Route, Entries

\* An empty queue holds nothing.
LEMMA HeldEmpty == Held(<<>>) = {}
  BY DEF Held

\* Appending adds one frame.
LEMMA HeldAppend ==
  ASSUME NEW S, NEW frames \in Seq(S), NEW f \in S
  PROVE  /\ Append(frames, f) \in Seq(S)
         /\ Len(Append(frames, f)) = Len(frames) + 1
         /\ \A i \in 1 .. Len(frames) : Append(frames, f)[i] = frames[i]
         /\ Append(frames, f)[Len(frames) + 1] = f
         /\ Held(Append(frames, f)) = Held(frames) \cup {f}
  BY DEF Held

\* Taking the head removes at most that frame.
LEMMA HeldTail ==
  ASSUME NEW S, NEW frames \in Seq(S), frames # <<>>
  PROVE  /\ Tail(frames) \in Seq(S) /\ Head(frames) \in S
         /\ Head(frames) = frames[1] /\ Len(frames) > 0
         /\ Len(Tail(frames)) = Len(frames) - 1
         /\ \A i \in 1 .. Len(Tail(frames)) : Tail(frames)[i] = frames[i + 1]
         /\ Head(frames) \in Held(frames)
         /\ Held(Tail(frames)) \subseteq Held(frames)
  <1>1. /\ Tail(frames) \in Seq(S) /\ Head(frames) \in S
        /\ Head(frames) = frames[1] /\ Len(frames) > 0
        /\ Len(Tail(frames)) = Len(frames) - 1
        /\ \A i \in 1 .. Len(Tail(frames)) : Tail(frames)[i] = frames[i + 1]
    BY HeadTailProperties, EmptySeq
  <1>2. QED
    BY <1>1 DEF Held
-------------------------------------------------------------------------------
\* The inductive invariant holds in the beginning.
LEMMA RelayInitially == ASSUME RelayInit PROVE RelayInv
  <1>1. RelayTypes
    BY DEF RelayInit, RelayTypes, RelayTypeOK, Frames
  <1>2. Accepted /\ RoutesAreLive
    BY DEF RelayInit, Accepted, RoutesAreLive
  <1>3. ClientsAreRouted
    BY DEF RelayInit, ClientsAreRouted, Registered, Conns
  <1>4. OnTheirWay
    BY DEF RelayInit, OnTheirWay, Held
  <1>5. QED
    BY <1>1, <1>2, <1>3, <1>4 DEF RelayInv

\* What the table is after a connection has registered, and after it has left.
LEMMA AfterRegister ==
  ASSUME RelayTypes, Accepted, NEW c \in Conns, Register(c)
  PROVE  LET s == session[c]
             route == Route(routes, s)
         IN
         /\ s \in Sessions /\ route \in Entries
         /\ DOMAIN routes' = DOMAIN routes \cup {s}
         /\ \A t \in DOMAIN routes \ {s} : routes'[t] = routes[t]
         /\ c \in DaemonConns =>
              routes'[s] = [daemon |-> c, clients |-> route.clients]
         /\ c \notin DaemonConns =>
              routes'[s] = [daemon |-> route.daemon, clients |-> route.clients \cup {c}]
  <1> DEFINE s == session[c]
             route == Route(routes, s)
  <1>1. s \in Sessions
    BY DEF Register, Accepted
  <1>2. \A t \in DOMAIN routes : routes[t] \in Entries
    BY DEF RelayTypes, RelayTypeOK, Entries
  <1>3. route \in Entries
    BY <1>2, RouteTyped
  <1>4. CASE c \in DaemonConns
    <2>1. routes' = With(routes, s, [daemon |-> c, clients |-> route.clients])
      BY <1>4 DEF Register, AttachDaemon
    <2>2. QED
      BY <1>1, <1>3, <1>4, <2>1 DEF With
  <1>5. CASE c \notin DaemonConns
    <2>1. routes' = With(routes, s, [daemon |-> route.daemon,
                                     clients |-> route.clients \cup {c}])
      BY <1>5 DEF Register, AttachClient
    <2>2. QED
      BY <1>1, <1>3, <1>5, <2>1 DEF With
  <1>6. QED
    BY <1>4, <1>5

\* What detach leaves of the table: the entry as it was given, or none if nobody
\* is in it.
LEMMA AfterLeaveRoute ==
  ASSUME NEW table, NEW s, NEW route
  PROVE  LET new == LeaveRoute(table, s, route)
         IN  /\ DOMAIN new \subseteq DOMAIN table
             /\ DOMAIN table \ {s} \subseteq DOMAIN new
             /\ \A t \in DOMAIN table \ {s} : new[t] = table[t]
             /\ s \in DOMAIN new =>
                  new[s] = route /\ (route.daemon # None \/ route.clients # {})
             /\ s \in DOMAIN table \ DOMAIN new => route.clients = {}
  <1>1. CASE s \notin DOMAIN table
    BY <1>1 DEF LeaveRoute
  <1>2. CASE s \in DOMAIN table /\ route.daemon = None /\ route.clients = {}
    <2>1. LeaveRoute(table, s, route) = Restrict(table, DOMAIN table \ {s})
      BY <1>2 DEF LeaveRoute
    <2>2. QED
      BY <1>2, <2>1 DEF Restrict
  <1>3. CASE s \in DOMAIN table /\ ~(route.daemon = None /\ route.clients = {})
    <2>1. LeaveRoute(table, s, route) = With(table, s, route)
      BY <1>3 DEF LeaveRoute
    <2>2. QED
      BY <1>3, <2>1 DEF With
  <1>4. QED
    BY <1>1, <1>2, <1>3

\* What is left of the entry when a connection leaves it.
Rest(c) ==
  LET route == Route(routes, session[c])
  IN  IF c \in DaemonConns THEN [daemon |-> None, clients |-> route.clients]
      ELSE [daemon |-> route.daemon, clients |-> route.clients \ {c}]

\* A connection that leaves changes the entry of its session alone, and a client
\* that leaves no longer is in it.
LEMMA AfterUnregister ==
  ASSUME RelayTypes, NEW c \in Conns, Unregister(c)
  PROVE  /\ DOMAIN routes' \subseteq DOMAIN routes
         /\ DOMAIN routes \ {session[c]} \subseteq DOMAIN routes'
         /\ \A t \in DOMAIN routes \ {session[c]} : routes'[t] = routes[t]
         /\ session[c] \in DOMAIN routes' =>
              /\ routes'[session[c]] = Rest(c)
              /\ Rest(c).daemon # None \/ Rest(c).clients # {}
         /\ session[c] \in DOMAIN routes \ DOMAIN routes' => Rest(c).clients = {}
         /\ Rest(c) \in Entries
         /\ session[c] \in DOMAIN routes => Route(routes, session[c]) = routes[session[c]]
  <1>1. \A t \in DOMAIN routes : routes[t] \in Entries
    BY DEF RelayTypes, RelayTypeOK, Entries
  <1>2. routes' = LeaveRoute(routes, session[c], Rest(c))
    BY DEF Unregister, DetachDaemon, DetachClient, Rest
  <1>3. session[c] \in DOMAIN routes => Route(routes, session[c]) = routes[session[c]]
    BY DEF Route
  <1>4. Rest(c) \in Entries
    <2>1. Route(routes, session[c]) \in Entries
      BY <1>1, RouteTyped
    <2>2. QED
      BY <2>1 DEF Rest, Entries
  <1>5. QED
    BY <1>1, <1>2, <1>3, <1>4, AfterLeaveRoute

\* Every step keeps the types.
LEMMA RelayTypesKept ==
  ASSUME RelayTypes, Accepted, RelayNext
  PROVE  RelayTypes'
  <1>1. ASSUME NEW c \in Conns, NEW s \in Sessions, Accept(c, s)
        PROVE  RelayTypes'
    BY <1>1 DEF Accept, RelayTypes, RelayTypeOK
  <1>2. ASSUME NEW c \in Conns, Register(c)
        PROVE  RelayTypes'
    <2>3. /\ DOMAIN routes' \subseteq Sessions
          /\ \A t \in DOMAIN routes' : routes'[t] \in Entries
      <3> DEFINE route == Route(routes, session[c])
      <3>1. /\ session[c] \in Sessions /\ route \in Entries
            /\ DOMAIN routes' = DOMAIN routes \cup {session[c]}
            /\ \A t \in DOMAIN routes \ {session[c]} : routes'[t] = routes[t]
            /\ c \in DaemonConns =>
                 routes'[session[c]] = [daemon |-> c, clients |-> route.clients]
            /\ c \notin DaemonConns =>
                 routes'[session[c]] =
                   [daemon |-> route.daemon, clients |-> route.clients \cup {c}]
        BY <1>2, AfterRegister
      <3> HIDE DEF route
      <3>2. QED
        BY <3>1 DEF Entries, Conns, RelayTypes, RelayTypeOK
    <2>4. QED
      BY <1>2, <2>3 DEF Register, Entries, RelayTypes, RelayTypeOK
  <1>3. ASSUME NEW c \in Conns, Read(c)
        PROVE  RelayTypes'
    <2>1. Recipients(routes, session[c], c) \subseteq Conns
      <3>1. Route(routes, session[c]) \in Entries
        BY RouteTyped DEF Entries, RelayTypes, RelayTypeOK
      <3>2. QED
        BY <3>1 DEF Recipients, Entries, Conns
    <2>2. QED
      BY <1>3, <2>1 DEF Read, RelayTypes, RelayTypeOK
  <1>4. ASSUME NEW c \in Conns, NEW r \in Conns, Forward(c, r)
        PROVE  RelayTypes'
    <2>1. <<c, sent[c]>> \in Frames
      BY DEF Frames, RelayTypes, RelayTypeOK
    <2>2. Append(queue[r], <<c, sent[c]>>) \in Seq(Frames)
      BY <2>1 DEF RelayTypes
    <2>3. QED
      BY <1>4, <2>2 DEF Forward, Push, RelayTypes, RelayTypeOK
  <1>5. ASSUME NEW c \in Conns, Write(c)
        PROVE  RelayTypes'
    <2>1. Head(queue[c]) \in Frames /\ Tail(queue[c]) \in Seq(Frames)
      BY <1>5, HeldTail DEF Write, RelayTypes
    <2>2. Append(delivered[c], Head(queue[c])) \in Seq(Frames)
      BY <2>1 DEF RelayTypes
    <2>3. <<>> \in Seq(Frames)
      OBVIOUS
    <2>4. CASE UNCHANGED writing /\ queue' = [queue EXCEPT ![c] = Tail(@)]
                 /\ delivered' = [delivered EXCEPT ![c] = Append(@, Head(queue[c]))]
      BY <1>5, <2>1, <2>2, <2>4 DEF Write, RelayTypes, RelayTypeOK
    <2>5. CASE /\ writing' = [writing EXCEPT ![c] = FALSE] /\ UNCHANGED delivered
               /\ queue' = [queue EXCEPT ![c] = <<>>]
      BY <1>5, <2>3, <2>5 DEF Write, RelayTypes, RelayTypeOK
    <2>6. QED
      BY <1>5, <2>4, <2>5 DEF Write
  <1>6. ASSUME NEW c \in Conns, Close(c)
        PROVE  RelayTypes'
    BY <1>6 DEF Close, RelayTypes, RelayTypeOK
  <1>7. ASSUME NEW c \in Conns, Unregister(c)
        PROVE  RelayTypes'
    <2>3. /\ DOMAIN routes' \subseteq Sessions
          /\ \A t \in DOMAIN routes' : routes'[t] \in Entries
      <3>1. \A t \in DOMAIN routes : routes[t] \in Entries
        BY DEF RelayTypes, RelayTypeOK, Entries
      <3>2. /\ DOMAIN routes' \subseteq DOMAIN routes
            /\ \A t \in DOMAIN routes \ {session[c]} : routes'[t] = routes[t]
            /\ session[c] \in DOMAIN routes' => routes'[session[c]] \in Entries
        BY <1>7, AfterUnregister
      <3>3. QED
        BY <3>1, <3>2 DEF RelayTypes, RelayTypeOK
    <2>4. QED
      BY <1>7, <2>3 DEF Unregister, Entries, RelayTypes, RelayTypeOK
  <1>8. QED
    BY <1>1, <1>2, <1>3, <1>4, <1>5, <1>6, <1>7 DEF RelayNext
\* What no step changes once a connection has been accepted.
LEMMA SessionsStay ==
  ASSUME RelayTypes, RelayNext, NEW c \in Conns, state[c] # "new"
  PROVE  session'[c] = session[c] /\ state'[c] # "new"
  BY DEF RelayNext, RelayTypes, RelayTypeOK, Accept, Register, Read, Forward, Write,
         Close, Unregister

\* A connection has a session from its handshake on.
LEMMA AcceptedKept ==
  ASSUME RelayTypes, Accepted, RelayNext
  PROVE  Accepted'
  BY DEF RelayNext, RelayTypes, RelayTypeOK, Accepted, Accept, Register, Read, Forward,
         Write, Close, Unregister

\* The steps that leave the table alone, and who is in it.
Passing(c) ==
  \/ \E s \in Sessions : Accept(c, s)
  \/ Read(c)
  \/ \E r \in Conns : Forward(c, r)
  \/ Write(c)
  \/ Close(c)

\* The steps that pass frames on leave the table alone.
LEMMA PassingKeeps ==
  ASSUME RelayTypes, NEW c \in Conns, Passing(c)
  PROVE  /\ UNCHANGED routes
         /\ \A d \in Conns :
              /\ Registered(d)' <=> Registered(d)
              /\ Registered(d) => session'[d] = session[d]
  BY DEF Passing, Registered, RelayTypes, RelayTypeOK, Accept, Read, Forward, Write, Close

\* A step is one that changes the table, or one that does not.
LEMMA Steps ==
  ASSUME RelayNext
  PROVE  \E c \in Conns : Register(c) \/ Unregister(c) \/ Passing(c)
  BY DEF RelayNext, Passing

\* Only registering and leaving change who is registered, and they change the
\* table to match.
LEMMA RoutesLiveKept ==
  ASSUME RelayTypes, Accepted, RoutesAreLive, RelayNext
  PROVE  RoutesAreLive'
  <1>1. ASSUME NEW c \in Conns, Register(c)
        PROVE  RoutesAreLive'
    <2> DEFINE s == session[c]
               route == Route(routes, s)
    <2>1. \A d \in Conns : Registered(d)' <=> Registered(d) \/ d = c
      BY <1>1 DEF Register, Registered, RelayTypes, RelayTypeOK
    <2>2. UNCHANGED session
      BY <1>1 DEF Register
    <2>3. /\ route.daemon \in DaemonConns \cup {None}
          /\ route.clients \subseteq ClientConns
          /\ \A d \in ({route.daemon} \ {None}) \cup route.clients :
               Registered(d) /\ session[d] = s
      BY AfterRegister, <1>1 DEF Entries, RoutesAreLive, Route
    <2>4. /\ DOMAIN routes' = DOMAIN routes \cup {s}
          /\ \A t \in DOMAIN routes \ {s} : routes'[t] = routes[t]
          /\ c \in DaemonConns =>
               routes'[s] = [daemon |-> c, clients |-> route.clients]
          /\ c \notin DaemonConns =>
               routes'[s] = [daemon |-> route.daemon, clients |-> route.clients \cup {c}]
      BY <1>1, AfterRegister
    <2> HIDE DEF s, route
    <2>5. ASSUME NEW t \in DOMAIN routes',
                 NEW all, all = ({routes'[t].daemon} \ {None}) \cup routes'[t].clients
          PROVE  all # {} /\ \A d \in all : Registered(d)' /\ session'[d] = t
      <3>1. CASE t # s
        <4>1. /\ all = ({routes[t].daemon} \ {None}) \cup routes[t].clients
              /\ t \in DOMAIN routes
              /\ all \subseteq Conns
          BY <2>4, <2>5, <3>1 DEF RelayTypes, RelayTypeOK, Conns
        <4>2. QED
          BY <2>1, <2>2, <4>1 DEF RoutesAreLive
      <3>2. CASE t = s
        <4>1. c \in all /\ all \subseteq {c} \cup ({route.daemon} \ {None}) \cup route.clients
          BY <2>4, <2>5, <3>2, RelayAssumption DEF Conns
        <4>2. QED
          BY <2>1, <2>2, <2>3, <3>2, <4>1 DEF Conns, s
      <3>3. QED
        BY <3>1, <3>2
    <2>6. QED
      BY <2>5 DEF RoutesAreLive
  <1>2. ASSUME NEW c \in Conns, Unregister(c)
        PROVE  RoutesAreLive'
    <2>1. \A d \in Conns : Registered(d)' <=> Registered(d) /\ d # c
      BY <1>2 DEF Unregister, Registered, RelayTypes, RelayTypeOK
    <2>2. UNCHANGED session
      BY <1>2 DEF Unregister
    <2>3. ASSUME NEW t \in DOMAIN routes',
                 NEW all, all = ({routes'[t].daemon} \ {None}) \cup routes'[t].clients
          PROVE  all # {} /\ \A d \in all : Registered(d)' /\ session'[d] = t
      <3> DEFINE before == ({routes[t].daemon} \ {None}) \cup routes[t].clients
      <3>1. t \in DOMAIN routes
        BY <1>2, AfterUnregister
      <3>2. before \subseteq Conns /\ \A d \in before : Registered(d) /\ session[d] = t
        BY <3>1 DEF RoutesAreLive, RelayTypes, RelayTypeOK, Conns
      <3>3. CASE t # session[c]
        <4>1. routes'[t] = routes[t]
          BY <1>2, <3>1, <3>3, AfterUnregister
        <4>2. all = before /\ before # {}
          BY <2>3, <3>1, <4>1 DEF RoutesAreLive
        <4>3. QED
          BY <2>1, <2>2, <3>2, <3>3, <4>2
      <3>4. CASE t = session[c]
        <4>1. /\ routes'[t] = Rest(c) /\ Rest(c) \in Entries
              /\ Rest(c).daemon # None \/ Rest(c).clients # {}
              /\ Route(routes, t) = routes[t]
          BY <1>2, <3>1, <3>4, AfterUnregister
        <4>2. all # {} /\ all \subseteq before \ {c}
          <5>1. routes[t] \in Entries
            BY <3>1 DEF RelayTypes, RelayTypeOK, Entries
          <5>2. QED
            BY <2>3, <3>4, <4>1, <5>1, RelayAssumption DEF Rest, Entries, Conns
        <4>3. QED
          BY <2>1, <2>2, <3>2, <4>2
      <3>5. QED
        BY <3>3, <3>4
    <2>4. QED
      BY <2>3 DEF RoutesAreLive
  <1>3. ASSUME NEW c \in Conns, Passing(c)
        PROVE  RoutesAreLive'
    <2>1. \A t \in DOMAIN routes :
            ({routes[t].daemon} \ {None}) \cup routes[t].clients \subseteq Conns
      BY DEF RelayTypes, RelayTypeOK, Conns
    <2>2. QED
      BY <1>3, <2>1, PassingKeeps DEF RoutesAreLive
  <1>4. QED
    BY <1>1, <1>2, <1>3, Steps

\* Nobody but a client itself takes it out of the table.
LEMMA ClientsRoutedKept ==
  ASSUME RelayTypes, Accepted, ClientsAreRouted, RelayNext
  PROVE  ClientsAreRouted'
  <1>1. ASSUME NEW c \in Conns, Register(c), NEW d \in ClientConns, Registered(d)'
        PROVE  session'[d] \in DOMAIN routes' /\ d \in routes'[session'[d]].clients
    <2> DEFINE s == session[c]
               route == Route(routes, s)
    <2>1. /\ DOMAIN routes' = DOMAIN routes \cup {s}
          /\ \A t \in DOMAIN routes \ {s} : routes'[t] = routes[t]
          /\ c \in DaemonConns =>
               routes'[s] = [daemon |-> c, clients |-> route.clients]
          /\ c \notin DaemonConns =>
               routes'[s] = [daemon |-> route.daemon, clients |-> route.clients \cup {c}]
      BY <1>1, AfterRegister
    <2>2. session' = session /\ (d # c => Registered(d))
      BY <1>1 DEF Register, Registered, RelayTypes, RelayTypeOK
    <2>3. CASE d = c
      BY <1>1, <2>1, <2>2, <2>3, RelayAssumption
    <2>4. CASE d # c
      <3>1. session[d] \in DOMAIN routes /\ d \in routes[session[d]].clients
        BY <2>2, <2>4 DEF ClientsAreRouted
      <3>2. session[d] = s => d \in route.clients
        BY <3>1 DEF Route
      <3> HIDE DEF s, route
      <3>3. QED
        BY <2>1, <2>2, <3>1, <3>2
    <2>5. QED
      BY <2>3, <2>4
  <1>2. ASSUME NEW c \in Conns, Unregister(c), NEW d \in ClientConns, Registered(d)'
        PROVE  session'[d] \in DOMAIN routes' /\ d \in routes'[session'[d]].clients
    <2>1. session' = session /\ Registered(d) /\ d # c
      BY <1>2 DEF Unregister, Registered, RelayTypes, RelayTypeOK, Conns
    <2>2. session[d] \in DOMAIN routes /\ d \in routes[session[d]].clients
      BY <2>1 DEF ClientsAreRouted
    <2>3. session[d] = session[c] => d \in Rest(c).clients
      BY <1>2, <2>1, <2>2 DEF Rest, Route
    <2>4. QED
      BY <1>2, <2>1, <2>2, <2>3, AfterUnregister
  <1>3. ASSUME NEW c \in Conns, Passing(c), NEW d \in ClientConns, Registered(d)'
        PROVE  session'[d] \in DOMAIN routes' /\ d \in routes'[session'[d]].clients
    BY <1>3, PassingKeeps DEF ClientsAreRouted, Conns
  <1>4. QED
    BY <1>1, <1>2, <1>3, Steps DEF ClientsAreRouted
-------------------------------------------------------------------------------
\* Frames come into a queue by Forward, and move on from there by Write.
LEMMA FramesMove ==
  ASSUME RelayTypes, RelayNext, NEW r \in Conns,
         NEW f \in Held(queue'[r]) \cup Held(delivered'[r])
  PROVE  \/ f \in Held(queue[r]) \cup Held(delivered[r])
         \/ \E c \in Conns : Forward(c, r) /\ f = <<c, sent[c]>>
  <1>1. ASSUME NEW c \in Conns, NEW d \in Conns, Forward(c, d)
        PROVE  \/ f \in Held(queue[r]) \cup Held(delivered[r])
               \/ c \in Conns /\ Forward(c, r) /\ f = <<c, sent[c]>>
    <2>1. UNCHANGED delivered /\ (d # r => queue'[r] = queue[r])
      BY <1>1 DEF Forward, RelayTypes
    <2>2. CASE queue'[r] = queue[r]
      BY <2>1, <2>2
    <2>3. CASE d = r /\ queue'[r] = Append(queue[r], <<c, sent[c]>>)
      <3>1. Held(queue'[r]) = Held(queue[r]) \cup {<<c, sent[c]>>}
        <4>1. <<c, sent[c]>> \in Frames /\ queue[r] \in Seq(Frames)
          BY DEF RelayTypes, RelayTypeOK, Frames
        <4>2. QED
          BY <2>3, <4>1, HeldAppend
      <3>2. QED
        BY <1>1, <2>1, <2>3, <3>1
    <2>4. QED
      BY <1>1, <2>1, <2>2, <2>3 DEF Forward, Push, RelayTypes
  <1>2. ASSUME NEW c \in Conns, Write(c)
        PROVE  f \in Held(queue[r]) \cup Held(delivered[r])
    <2>1. c # r => queue'[r] = queue[r] /\ delivered'[r] = delivered[r]
      BY <1>2 DEF Write, RelayTypes
    <2>2. queue[c] \in Seq(Frames) /\ queue[c] # <<>> /\ delivered[c] \in Seq(Frames)
      BY <1>2 DEF Write, RelayTypes
    <2>3. CASE /\ queue'[c] = Tail(queue[c])
               /\ delivered'[c] = Append(delivered[c], Head(queue[c]))
      <3>1. Held(queue'[c]) \cup Held(delivered'[c]) \subseteq
              Held(queue[c]) \cup Held(delivered[c])
        BY <2>2, <2>3, HeldTail, HeldAppend
      <3>2. QED
        BY <2>1, <3>1
    <2>4. CASE queue'[c] = <<>> /\ delivered'[c] = delivered[c]
      BY <2>1, <2>4, HeldEmpty
    <2>5. QED
      BY <1>2, <2>3, <2>4 DEF Write, RelayTypes
  <1>3. ASSUME NEW c \in Conns, Unregister(c)
        PROVE  f \in Held(queue[r]) \cup Held(delivered[r])
    <2>1. delivered' = delivered /\ queue'[r] \in {queue[r], <<>>}
      BY <1>3 DEF Unregister, RelayTypes
    <2>2. QED
      BY <2>1, HeldEmpty
  <1>4. CASE UNCHANGED <<queue, delivered>>
    BY <1>4
  <1>5. QED
    BY <1>1, <1>2, <1>3, <1>4 DEF RelayNext, Accept, Register, Read, Close

\* Whom a frame read from an open connection goes to.
LEMMA RecipientsOpposite ==
  ASSUME RelayTypes, RoutesAreLive, NEW c \in Conns, state[c] = "open",
         NEW r \in Recipients(routes, session[c], c)
  PROVE  r \in Conns /\ Opposite(c, r)
  <1> DEFINE route == Route(routes, session[c])
  <1>1. /\ route.daemon \in DaemonConns \cup {None} /\ route.clients \subseteq ClientConns
        /\ \A d \in ({route.daemon} \ {None}) \cup route.clients :
             Registered(d) /\ session[d] = session[c]
    BY RouteTyped DEF Route, RoutesAreLive, RelayTypes, RelayTypeOK, Entries
  <1>2. IF c \in DaemonConns THEN r \in route.clients
        ELSE r = route.daemon /\ r # None
    BY DEF Recipients
  <1> HIDE DEF route
  <1>3. QED
    BY <1>1, <1>2, RelayAssumption DEF Opposite, Registered, Conns

\* Every frame is on its way to the other side of its session, at every step of
\* the way.
LEMMA OnTheirWayKept ==
  ASSUME RelayTypes, Accepted, RoutesAreLive, OnTheirWay, RelayNext
  PROVE  OnTheirWay'
  <1>1. \A c, r \in Conns : Opposite(c, r) => Opposite(c, r)'
    BY SessionsStay DEF Opposite
  <1>2. ASSUME NEW c \in Conns, NEW r \in forwarding'[c]
        PROVE  Opposite(c, r)'
    <2>1. ASSUME NEW d \in Conns, Read(d)
          PROVE  Opposite(c, r)
      <3>1. CASE c = d
        BY <2>1, <3>1, <1>2, RecipientsOpposite DEF Read, RelayTypes, RelayTypeOK
      <3>2. CASE c # d
        BY <2>1, <3>2, <1>2 DEF Read, OnTheirWay, RelayTypes, RelayTypeOK
      <3>3. QED
        BY <3>1, <3>2
    <2>2. r \in Conns
      BY <1>2, RelayTypesKept DEF RelayTypes, RelayTypeOK
    <2>3. r \in forwarding[c] \/ \E d \in Conns : Read(d)
      <3>1. ASSUME NEW d \in Conns, NEW e \in Conns, Forward(d, e)
            PROVE  r \in forwarding[c]
        BY <1>2, <3>1 DEF Forward, RelayTypes, RelayTypeOK
      <3>2. CASE UNCHANGED forwarding
        BY <1>2, <3>2
      <3>3. QED
        BY <3>1, <3>2 DEF RelayNext, Accept, Register, Write, Close, Unregister
    <2>4. QED
      BY <1>1, <2>1, <2>2, <2>3 DEF OnTheirWay
  <1>3. ASSUME NEW c \in Conns, NEW r \in Conns,
               NEW f \in Held(queue'[r]) \cup Held(delivered'[r]), f[1] = c
        PROVE  Opposite(c, r)'
    <2>1. CASE f \in Held(queue[r]) \cup Held(delivered[r])
      BY <1>1, <1>3, <2>1 DEF OnTheirWay
    <2>2. ASSUME NEW d \in Conns, Forward(d, r), f = <<d, sent[d]>>
          PROVE  Opposite(c, r)'
      BY <1>1, <1>3, <2>2 DEF OnTheirWay, Forward
    <2>3. QED
      BY <2>1, <2>2, FramesMove
  <1>4. QED
    BY <1>2, <1>3 DEF OnTheirWay

-------------------------------------------------------------------------------
\* The invariant of the relay is inductive: one lemma for each of its parts.
LEMMA RelayInvKept == ASSUME RelayInv, [RelayNext]_relayVars PROVE RelayInv'
  <1>1. CASE RelayNext
    BY <1>1, RelayTypesKept, AcceptedKept, RoutesLiveKept, ClientsRoutedKept,
       OnTheirWayKept DEF RelayInv
  <1>2. CASE UNCHANGED relayVars
    BY <1>2 DEF RelayInv, RelayTypes, RelayTypeOK, Accepted, RoutesAreLive,
                ClientsAreRouted, OnTheirWay, Opposite, Registered, relayVars, conns
  <1>3. QED
    BY <1>1, <1>2

\* What the invariant says of the frames that are delivered.
LEMMA RelayInvStaysInSession == RelayInv => FramesStayInSession
  <1> SUFFICES ASSUME RelayInv, NEW r \in Conns, NEW i \in 1 .. Len(delivered[r])
               PROVE  /\ session[delivered[r][i][1]] = session[r]
                      /\ delivered[r][i][1] \in DaemonConns <=> r \in ClientConns
    BY DEF FramesStayInSession
  <1>1. delivered[r][i] \in Held(delivered[r]) /\ delivered[r][i] \in Frames
    BY DEF Held, RelayInv, RelayTypes
  <1>2. delivered[r][i][1] \in Conns
    BY <1>1 DEF Frames
  <1>3. QED
    BY <1>1, <1>2 DEF RelayInv, OnTheirWay, Opposite

(***************************************************************************)
(* Whatever its peers send and in whatever order they come and go, the     *)
(* relay's table, its connections and the frames on their way satisfy the  *)
(* inductive invariant.                                                    *)
(***************************************************************************)
THEOREM RelayInvariant == RelaySpec => []RelayInv
  BY RelayInitially, RelayInvKept, PTL DEF RelaySpec
-------------------------------------------------------------------------------
\* c has sent frame f, and if it is still looking after its last frame for one of
\* rs, f was an earlier one.
Sent(c, f, rs) ==
  f[1] = c => f[2] <= sent[c] /\ (forwarding[c] \cap rs # {} => f[2] < sent[c])

\* In the two sequences, which follow each other, the frames of each sender are in
\* the order of their numbers.
Ordered(first, second) ==
  /\ \A i, j \in 1 .. Len(first) :
       i < j /\ first[i][1] = first[j][1] => first[i][2] < first[j][2]
  /\ \A i, j \in 1 .. Len(second) :
       i < j /\ second[i][1] = second[j][1] => second[i][2] < second[j][2]
  /\ \A f \in Held(first), g \in Held(second) : f[1] = g[1] => f[2] < g[2]

\* The order that FramesInOrder states of the delivered frames holds of the queue
\* behind them too, and of the frame that is looked after.
OrderInv ==
  \A r \in Conns :
    /\ Ordered(delivered[r], queue[r])
    /\ \A c \in Conns :
         \A f \in Held(queue[r]) \cup Held(delivered[r]) : Sent(c, f, {r})

\* A frame newer than all the others of its sender goes to the end.
LEMMA OrderedAppend ==
  ASSUME NEW first \in Seq(Frames), NEW second \in Seq(Frames), NEW f \in Frames,
         Ordered(first, second),
         \A g \in Held(first) \cup Held(second) : g[1] = f[1] => g[2] < f[2]
  PROVE  Ordered(first, Append(second, f))
  <1>1. /\ Len(Append(second, f)) = Len(second) + 1
        /\ \A i \in 1 .. Len(second) : Append(second, f)[i] = second[i]
        /\ Append(second, f)[Len(second) + 1] = f
        /\ Held(Append(second, f)) = Held(second) \cup {f}
    BY HeldAppend
  <1>2. ASSUME NEW i \in 1 .. Len(second) + 1, NEW j \in 1 .. Len(second) + 1, i < j,
               Append(second, f)[i][1] = Append(second, f)[j][1]
        PROVE  Append(second, f)[i][2] < Append(second, f)[j][2]
    <2>1. Append(second, f)[i] = second[i] /\ second[i] \in Held(second)
      BY <1>1, <1>2 DEF Held
    <2>2. CASE j <= Len(second)
      BY <1>1, <1>2, <2>1, <2>2 DEF Ordered
    <2>3. CASE j = Len(second) + 1
      BY <1>1, <1>2, <2>1, <2>3
    <2>4. QED
      BY <2>2, <2>3
  <1>3. QED
    BY <1>1, <1>2 DEF Ordered

\* What a receiver holds, in its queue and what was delivered, stays in order when
\* the writer moves the first of the queue.
LEMMA OrderedMove ==
  ASSUME NEW first \in Seq(Frames), NEW second \in Seq(Frames), second # <<>>,
         Ordered(first, second)
  PROVE  Ordered(Append(first, Head(second)), Tail(second))
  <1> DEFINE f == Head(second)
  <1>1. /\ f \in Frames /\ f = second[1] /\ f \in Held(second) /\ Len(second) > 0
        /\ Tail(second) \in Seq(Frames) /\ Len(Tail(second)) = Len(second) - 1
        /\ \A i \in 1 .. Len(Tail(second)) : Tail(second)[i] = second[i + 1]
        /\ Held(Tail(second)) \subseteq Held(second)
    BY HeldTail
  <1>2. Ordered(Append(first, f), <<>>)
    <2>1. Ordered(<<>>, Append(first, f))
      <3>1. Ordered(<<>>, first)
        BY HeldEmpty DEF Ordered
      <3>2. \A g \in Held(<<>>) \cup Held(first) : g[1] = f[1] => g[2] < f[2]
        BY <1>1, HeldEmpty DEF Ordered
      <3>3. <<>> \in Seq(Frames)
        OBVIOUS
      <3>4. QED
        BY <1>1, <3>1, <3>2, <3>3, OrderedAppend
    <2>2. QED
      BY <2>1, HeldEmpty DEF Ordered
  <1>3. \A i, j \in 1 .. Len(Tail(second)) :
          i < j /\ Tail(second)[i][1] = Tail(second)[j][1] =>
            Tail(second)[i][2] < Tail(second)[j][2]
    <2>1. ASSUME NEW i \in 1 .. Len(Tail(second)), NEW j \in 1 .. Len(Tail(second)), i < j,
                 Tail(second)[i][1] = Tail(second)[j][1]
          PROVE  Tail(second)[i][2] < Tail(second)[j][2]
      <3>1. i + 1 \in 1 .. Len(second) /\ j + 1 \in 1 .. Len(second)
        BY <1>1
      <3>2. second[i + 1][1] = second[j + 1][1] => second[i + 1][2] < second[j + 1][2]
        BY <2>1, <3>1 DEF Ordered
      <3>3. QED
        BY <1>1, <2>1, <3>2
    <2>2. QED
      BY <2>1
  <1>4. \A g \in Held(Append(first, f)), h \in Held(Tail(second)) :
          g[1] = h[1] => g[2] < h[2]
    <2>1. Held(Append(first, f)) = Held(first) \cup {f}
      BY <1>1, HeldAppend
    <2>2. \A h \in Held(Tail(second)) : f[1] = h[1] => f[2] < h[2]
      <3>1. ASSUME NEW i \in 1 .. Len(Tail(second)), f[1] = Tail(second)[i][1]
            PROVE  f[2] < Tail(second)[i][2]
        <4>1. i + 1 \in 1 .. Len(second) /\ 1 \in 1 .. Len(second) /\ 1 < i + 1
          BY <1>1
        <4>2. second[1][1] = second[i + 1][1] => second[1][2] < second[i + 1][2]
          BY <4>1 DEF Ordered
        <4>3. QED
          BY <1>1, <3>1, <4>2
      <3>2. QED
        BY <3>1 DEF Held
    <2>3. QED
      BY <1>1, <2>1, <2>2 DEF Ordered
  <1>5. QED
    BY <1>2, <1>3, <1>4 DEF Ordered
\* A frame that has been sent stays so, and keeps its number.
LEMMA SentKept ==
  ASSUME RelayTypes, Accepted, RelayNext, NEW rs, NEW c \in Conns, NEW f \in Frames,
         Sent(c, f, rs)
  PROVE  Sent(c, f, rs)'
  <1>1. ASSUME NEW d \in Conns, Read(d)
        PROVE  Sent(c, f, rs)'
    <2>1. sent[c] \in Nat /\ f[2] \in Nat
      BY DEF RelayTypes, RelayTypeOK, Frames
    <2>2. CASE c = d
      BY <1>1, <2>1, <2>2 DEF Read, Sent, RelayTypes, RelayTypeOK
    <2>3. CASE c # d
      BY <1>1, <2>1, <2>3 DEF Read, Sent, RelayTypes, RelayTypeOK
    <2>4. QED
      BY <2>2, <2>3
  <1>2. ASSUME NEW d \in Conns, NEW e \in Conns, Forward(d, e)
        PROVE  Sent(c, f, rs)'
    BY <1>2 DEF Forward, Sent, RelayTypes, RelayTypeOK
  <1>3. CASE UNCHANGED <<sent, forwarding>>
    BY <1>3 DEF Sent
  <1>4. QED
    BY <1>1, <1>2, <1>3 DEF RelayNext, Accept, Register, Write, Close, Unregister

\* Each step of a connection keeps the frames to each receiver in order.
LEMMA OrderKept ==
  ASSUME RelayTypes, Accepted, OrderInv, RelayNext
  PROVE  OrderInv'
  <1>1. ASSUME NEW r \in Conns
        PROVE  Ordered(delivered'[r], queue'[r])
    <2>1. /\ Ordered(delivered[r], queue[r])
          /\ delivered[r] \in Seq(Frames) /\ queue[r] \in Seq(Frames)
      BY DEF OrderInv, RelayTypes
    <2>2. Ordered(delivered[r], <<>>)
      BY <2>1, HeldEmpty DEF Ordered
    <2>3. ASSUME NEW c \in Conns, Forward(c, r), queue'[r] # queue[r]
          PROVE  Ordered(delivered'[r], queue'[r])
      <3>1. /\ delivered' = delivered /\ queue'[r] = Append(queue[r], <<c, sent[c]>>)
            /\ r \in forwarding[c] /\ <<c, sent[c]>> \in Frames
        BY <2>3 DEF Forward, Push, RelayTypes, RelayTypeOK, Frames
      <3>2. \A g \in Held(delivered[r]) \cup Held(queue[r]) : g[1] = c => g[2] < sent[c]
        BY <3>1 DEF OrderInv, Sent
      <3>3. QED
        BY <2>1, <3>1, <3>2, OrderedAppend
    <2>4. CASE Write(r)
      <3>1. queue[r] # <<>>
        BY <2>4 DEF Write
      <3>2. CASE /\ queue'[r] = Tail(queue[r])
                 /\ delivered'[r] = Append(delivered[r], Head(queue[r]))
        BY <2>1, <3>1, <3>2, OrderedMove
      <3>3. CASE queue'[r] = <<>> /\ delivered'[r] = delivered[r]
        BY <2>2, <3>3
      <3>4. QED
        BY <2>4, <3>2, <3>3 DEF Write, RelayTypes
    <2>5. CASE Unregister(r)
      BY <2>2, <2>5 DEF Unregister, RelayTypes
    <2>6. CASE queue'[r] = queue[r] /\ delivered'[r] = delivered[r]
      BY <2>1, <2>6
    <2>7. \/ \E c \in Conns : Forward(c, r)
          \/ Write(r) \/ Unregister(r)
          \/ queue'[r] = queue[r] /\ delivered'[r] = delivered[r]
      <3>1. ASSUME NEW c \in Conns, c # r, Write(c) \/ Unregister(c)
            PROVE  queue'[r] = queue[r] /\ delivered'[r] = delivered[r]
        BY <3>1 DEF Write, Unregister, RelayTypes
      <3>2. ASSUME NEW c \in Conns, NEW d \in Conns, d # r, Forward(c, d)
            PROVE  queue'[r] = queue[r] /\ delivered'[r] = delivered[r]
        BY <3>2 DEF Forward, RelayTypes
      <3>3. QED
        BY <3>1, <3>2 DEF RelayNext, Accept, Register, Read, Close
    <2>8. ASSUME NEW c \in Conns, Forward(c, r)
          PROVE  delivered' = delivered
      BY <2>8 DEF Forward
    <2>9. QED
      BY <2>3, <2>4, <2>5, <2>6, <2>7, <2>8
  <1>2. ASSUME NEW r \in Conns, NEW c \in Conns,
               NEW f \in Held(queue'[r]) \cup Held(delivered'[r])
        PROVE  Sent(c, f, {r})'
    <2>1. CASE f \in Held(queue[r]) \cup Held(delivered[r])
      <3>1. f \in Frames
        BY <2>1 DEF Held, RelayTypes
      <3>2. QED
        BY <2>1, <3>1, SentKept DEF OrderInv
    <2>2. ASSUME NEW d \in Conns, Forward(d, r), f = <<d, sent[d]>>
          PROVE  Sent(c, f, {r})'
      BY <2>2 DEF Forward, Sent, RelayTypes, RelayTypeOK
    <2>3. QED
      BY <2>1, <2>2, FramesMove
  <1>3. QED
    BY <1>1, <1>2 DEF OrderInv

(***************************************************************************)
(* Of the frames of one sender a receiver gets every one once at most, and *)
(* in the order they were sent, whichever of them are lost.                *)
(***************************************************************************)
THEOREM RelayKeepsOrder == RelaySpec => []FramesInOrder
  <1>1. RelayInit => OrderInv
    BY HeldEmpty DEF RelayInit, OrderInv, Ordered
  <1>2. RelayInv /\ OrderInv /\ [RelayNext]_relayVars => OrderInv'
    <2>1. RelayInv /\ OrderInv /\ RelayNext => OrderInv'
      BY OrderKept DEF RelayInv
    <2>2. OrderInv /\ UNCHANGED relayVars => OrderInv'
      BY DEF OrderInv, Sent, relayVars, conns
    <2>3. QED
      BY <2>1, <2>2
  <1>3. OrderInv => FramesInOrder
    BY DEF OrderInv, Ordered, FramesInOrder
  <1>4. QED
    BY <1>1, <1>2, <1>3, RelayInvariant, PTL DEF RelaySpec

-------------------------------------------------------------------------------
(* The daemon's end of it. *)

\* The daemon and its clients drive the relay as its specification allows.
LEMMA RelayStep == [Next]_vars => [RelayNext]_relayVars
  <1> SUFFICES ASSUME [Next]_vars PROVE [RelayNext]_relayVars
    OBVIOUS
  <1>1. ASSUME NEW d \in DaemonConns, Dial(d) PROVE RelayNext
    BY <1>1, ClientAssumption DEF Dial, RelayNext, Conns
  <1>2. CASE DialInVain
    BY <1>2, ClientAssumption DEF DialInVain, RelayNext, Conns
  <1>3. CASE Wake \/ Receive \/ Handle \/ Answer \/ HangUp
    BY <1>3 DEF Wake, Receive, Handle, Answer, HangUp
  <1>4. ASSUME NEW c \in Conns, ClientSends(c) \/ AnswerArrives(c) \/ Relay(c)
        PROVE  RelayNext
    BY <1>4 DEF ClientSends, AnswerArrives, Relay, ClientConnects, RelayNext
  <1>5. CASE UNCHANGED vars
    BY <1>5 DEF vars
  <1>6. QED
    BY <1>1, <1>2, <1>3, <1>4, <1>5 DEF Next

(***************************************************************************)
(* RelayClient implements the relay's specification, fairness aside.       *)
(***************************************************************************)
THEOREM ImplementsRelay == Spec => RelaySpec
  <1>1. Init => RelayInit
    BY DEF Init
  <1>2. QED
    BY <1>1, RelayStep, PTL DEF Spec, RelaySpec

\* What the first part shows of every step of the relay holds of every step
\* here.
LEMMA RelayInvHere == Spec => []RelayInv
  BY ImplementsRelay, RelayInvariant, PTL

(***************************************************************************)
(* The relay's table holds the sessions in use and nobody who has left,    *)
(* for any number of daemons and clients that come and go in any order.    *)
(***************************************************************************)
THEOREM RoutesAlwaysLive == Spec => []RoutesAreLive
  <1>1. RelayInv => RoutesAreLive
    BY DEF RelayInv
  <1>2. QED
    BY <1>1, RelayInvHere, PTL

(***************************************************************************)
(* A connected client is in the table until it has left.                   *)
(***************************************************************************)
THEOREM ClientsAlwaysRouted == Spec => []ClientsAreRouted
  <1>1. RelayInv => ClientsAreRouted
    BY DEF RelayInv
  <1>2. QED
    BY <1>1, RelayInvHere, PTL

(***************************************************************************)
(* No frame reaches a connection of another session, or of its own side.   *)
(***************************************************************************)
THEOREM FramesAlwaysInSession == Spec => []FramesStayInSession
  BY RelayInvHere, RelayInvStaysInSession, PTL

(***************************************************************************)
(* A receiver gets the frames of a sender in order, each once at most.     *)
(***************************************************************************)
THEOREM FramesAlwaysInOrder == Spec => []FramesInOrder
  BY ImplementsRelay, RelayKeepsOrder, PTL

-------------------------------------------------------------------------------
\* The frames a connection has been given, or will be.
Given(r) == Held(queue[r]) \cup Held(delivered[r])

\* A client's frame goes to one daemon connection at most.
OneDaemon ==
  /\ \A c \in ClientConns : \A r, q \in forwarding[c] : r = q
  /\ \A d \in DaemonConns : \A f \in Given(d) : Sent(f[1], f, Conns)
  /\ \A d, e \in DaemonConns : d # e => Given(d) \cap Given(e) = {}

\* The daemon's end: what it has taken it was sent, and a request that waits is
\* the last one taken.
TakenWasSent == \A d \in DaemonConns : taken[d] <= Len(delivered[d])

LinkInv ==
  /\ LinkTypeOK
  /\ TakenWasSent
  /\ task \in {"waiting", "answering"} => taken[current] > 0
  /\ current # None => state[current] # "new"

\* Every request that was served is one the daemon has taken, and not the one
\* that waits.
ServedWasTaken ==
  \A i \in 1 .. Len(handled) :
    \E d \in DaemonConns : \E k \in 1 .. taken[d] :
      /\ handled[i] = delivered[d][k]
      /\ ~(task = "waiting" /\ d = current /\ k = taken[d])

\* A daemon connection's frames come from clients.
LEMMA FromClients ==
  ASSUME RelayInv, NEW d \in DaemonConns, NEW f \in Given(d)
  PROVE  f \in ClientConns \X Nat /\ state[d] # "new" /\ Opposite(f[1], d)
  <1>1. f \in Frames
    BY DEF Given, Held, RelayInv, RelayTypes, Conns
  <1>2. Opposite(f[1], d)
    BY <1>1 DEF Given, RelayInv, OnTheirWay, Frames, Conns
  <1>3. QED
    BY <1>1, <1>2, RelayAssumption DEF Opposite, Frames, Conns

\* What has been delivered stays delivered.
LEMMA DeliveredGrows ==
  ASSUME RelayTypes, [RelayNext]_relayVars, NEW r \in Conns
  PROVE  /\ Len(delivered'[r]) >= Len(delivered[r])
         /\ \A i \in 1 .. Len(delivered[r]) : delivered'[r][i] = delivered[r][i]
  <1>1. ASSUME NEW c \in Conns, Write(c)
        PROVE  \/ delivered'[r] = delivered[r]
               \/ /\ queue[r] # <<>>
                  /\ delivered'[r] = Append(delivered[r], Head(queue[r]))
    BY <1>1 DEF Write, RelayTypes
  <1>2. \/ delivered'[r] = delivered[r]
        \/ queue[r] # <<>> /\ delivered'[r] = Append(delivered[r], Head(queue[r]))
    BY <1>1 DEF RelayNext, Accept, Register, Read, Forward, Close, Unregister,
                relayVars, conns
  <1>3. delivered[r] \in Seq(Frames) /\ queue[r] \in Seq(Frames)
    BY DEF RelayTypes
  <1>4. QED
    BY <1>2, <1>3, HeldTail, HeldAppend

\* A frame of a client goes to one connection of a daemon and to no second one.
LEMMA OneDaemonKept ==
  ASSUME RelayInv, OneDaemon, [RelayNext]_relayVars
  PROVE  OneDaemon'
  <1>1. ASSUME RelayNext, NEW c \in ClientConns
        PROVE  (\A r, q \in forwarding[c] : r = q)'
    <2>1. ASSUME NEW d \in Conns, Read(d)
          PROVE  \A r, q \in forwarding'[c] : r = q
      <3>1. c # d => forwarding'[c] = forwarding[c]
        BY <2>1 DEF Read, RelayInv, RelayTypes, RelayTypeOK
      <3>2. c = d => forwarding'[c] = {Route(routes, session[c]).daemon} \ {None}
        BY <2>1, RelayAssumption DEF Read, Recipients, RelayInv, RelayTypes, RelayTypeOK
      <3>3. QED
        BY <3>1, <3>2 DEF OneDaemon
    <2>2. ASSUME NEW d \in Conns, NEW e \in Conns, Forward(d, e)
          PROVE  \A r, q \in forwarding'[c] : r = q
      <3>1. forwarding'[c] \subseteq forwarding[c]
        BY <2>2 DEF Forward, RelayInv, RelayTypes, RelayTypeOK, Conns
      <3>2. QED
        BY <3>1 DEF OneDaemon
    <2>3. CASE UNCHANGED forwarding
      BY <2>3 DEF OneDaemon
    <2>4. QED
      BY <1>1, <2>1, <2>2, <2>3 DEF RelayNext, Accept, Register, Write, Close, Unregister
  <1>2. ASSUME RelayNext, NEW d \in DaemonConns, NEW f \in Given(d)'
        PROVE  \/ f \in Given(d)
               \/ Forward(f[1], d) /\ f = <<f[1], sent[f[1]]>> /\ f[1] \in ClientConns
    <2>1. ASSUME NEW c \in Conns, Forward(c, d)
          PROVE  c \in ClientConns
      BY <2>1, RelayAssumption DEF Forward, RelayInv, OnTheirWay, Opposite, Conns
    <2>2. QED
      BY <1>2, <2>1, FramesMove DEF Given, RelayInv, Conns
  <1>3. ASSUME RelayNext, NEW d \in DaemonConns, NEW f \in Given(d)'
        PROVE  Sent(f[1], f, Conns)'
    <2>1. CASE f \in Given(d)
      BY <1>3, <2>1, SentKept, FromClients DEF OneDaemon, RelayInv, Frames, Conns
    <2>2. CASE f \notin Given(d)
      <3>1. /\ Forward(f[1], d) /\ f = <<f[1], sent[f[1]]>> /\ f[1] \in ClientConns
        BY <1>2, <1>3, <2>2
      <3>2. forwarding'[f[1]] = {} /\ sent' = sent
        BY <3>1 DEF Forward, OneDaemon, RelayInv, RelayTypes, RelayTypeOK, Conns
      <3>3. QED
        BY <3>1, <3>2 DEF Sent, RelayInv, RelayTypes, RelayTypeOK, Conns
    <2>3. QED
      BY <2>1, <2>2
  <1>4. ASSUME RelayNext, NEW d \in DaemonConns, NEW e \in DaemonConns, d # e,
               NEW f \in Given(d)'
        PROVE  f \notin Given(e)'
    <2>1. ASSUME NEW a \in DaemonConns, NEW b \in DaemonConns, f \in Given(b),
                 Forward(f[1], a), f = <<f[1], sent[f[1]]>>, f[1] \in ClientConns
          PROVE  FALSE
      <3>1. forwarding[f[1]] \cap Conns # {}
        BY <2>1 DEF Forward, Conns
      <3>2. f[2] < sent[f[1]] /\ f[2] = sent[f[1]]
        BY <2>1, <3>1 DEF OneDaemon, Sent
      <3>3. sent[f[1]] \in Nat
        BY <2>1 DEF RelayInv, RelayTypes, RelayTypeOK, Conns
      <3>4. QED
        BY <3>2, <3>3
    <2>2. ASSUME Forward(f[1], d), Forward(f[1], e), f[1] \in ClientConns
          PROVE  FALSE
      BY <1>4, <2>2 DEF Forward, OneDaemon
    <2>3. QED
      BY <1>2, <1>4, <2>1, <2>2 DEF OneDaemon
  <1>5. CASE RelayNext
    BY <1>1, <1>3, <1>4, <1>5 DEF OneDaemon
  <1>6. CASE UNCHANGED relayVars
    BY <1>6 DEF OneDaemon, Given, Sent, relayVars, conns
  <1>7. QED
    BY <1>5, <1>6

\* The last part of OneDaemon and the order of frames: no frame is at two places.
LEMMA DeliveredOnce ==
  ASSUME RelayInv, OrderInv, OneDaemon,
         NEW d \in DaemonConns, NEW e \in DaemonConns,
         NEW i \in 1 .. Len(delivered[d]), NEW j \in 1 .. Len(delivered[e]),
         delivered[d][i] = delivered[e][j]
  PROVE  d = e /\ i = j
  <1>1. delivered[d][i] \in Given(d) /\ delivered[e][j] \in Given(e)
    BY DEF Given, Held
  <1>2. d = e
    BY <1>1 DEF OneDaemon
  <1>3. delivered[d][i] \in ClientConns \X Nat
    BY <1>1, FromClients
  <1>4. \A k, l \in 1 .. Len(delivered[d]) :
          k < l => ~(delivered[d][k][1] = delivered[d][l][1]
                      /\ delivered[d][k][2] = delivered[d][l][2])
    <2>1. ASSUME NEW k \in 1 .. Len(delivered[d]), NEW l \in 1 .. Len(delivered[d]),
                 k < l, delivered[d][k][1] = delivered[d][l][1]
          PROVE  delivered[d][k][2] # delivered[d][l][2]
      <3>1. delivered[d][k][2] < delivered[d][l][2]
        BY <2>1 DEF OrderInv, Ordered, Conns
      <3>2. delivered[d][k] \in Given(d) /\ delivered[d][l] \in Given(d)
        BY DEF Given, Held
      <3>3. delivered[d][k][2] \in Nat /\ delivered[d][l][2] \in Nat
        BY <3>2, FromClients
      <3>4. QED
        BY <3>1, <3>3
    <2>2. QED
      BY <2>1
  <1>5. Len(delivered[d]) \in Nat
    BY DEF RelayInv, RelayTypes, Conns
  <1>6. QED
    BY <1>2, <1>4, <1>5

\* The delay stays between a second and its maximum.
LEMMA DoubleBounded ==
  ASSUME NEW seconds \in 1 .. MaxBackoff
  PROVE  Double(seconds) \in 1 .. MaxBackoff
  <1> DEFINE S == {2 * seconds, MaxBackoff}
  <1>1. MaxBackoff \in Nat
    BY ClientAssumption
  <1>2. \E x \in S : \A y \in S : x <= y
    BY <1>1
  <1>3. Min(S) \in S /\ \A y \in S : Min(S) <= y
    BY <1>2 DEF Min
  <1>4. QED
    BY <1>1, <1>3 DEF Double

\* The daemon has taken and served nothing at first.
LEMMA LinkInitially == ASSUME Init PROVE LinkInv /\ OneDaemon /\ ServedWasTaken
  <1>1. LinkTypeOK
    <2>1. RelayTypeOK
      BY RelayInitially DEF Init, RelayInv, RelayTypes
    <2>2. QED
      BY <2>1, ClientAssumption, RelayAssumption DEF Init, LinkTypeOK, Conns
  <1>2. QED
    BY <1>1, HeldEmpty DEF Init, RelayInit, LinkInv, TakenWasSent, OneDaemon, ServedWasTaken,
                          Given, Conns

\* A connection that is dialled is new, and nothing was taken from it; a frame
\* that is taken has been delivered to it.
LEMMA LinkKept ==
  ASSUME RelayInv, LinkInv, [Next]_vars
  PROVE  LinkInv'
  <1> USE RelayAssumption, ClientAssumption
  <1>1. /\ RelayTypeOK'
        /\ \A d \in DaemonConns :
             /\ Len(delivered[d]) \in Nat /\ Len(delivered'[d]) \in Nat
             /\ Len(delivered'[d]) >= Len(delivered[d])
             /\ state[d] # "new" => state'[d] # "new"
    <2>1. [RelayNext]_relayVars /\ RelayInv'
      BY RelayStep, RelayInvKept
    <2>2. ASSUME NEW d \in DaemonConns
          PROVE  state[d] # "new" => state'[d] # "new"
      BY <2>1, SessionsStay DEF RelayInv, Conns, relayVars, conns
    <2>3. QED
      BY <2>1, <2>2, DeliveredGrows DEF RelayInv, RelayTypes, Conns
  <1>2. ASSUME UNCHANGED taken PROVE TakenWasSent'
    <2>1. ASSUME NEW d \in DaemonConns PROVE taken'[d] <= Len(delivered'[d])
      <3>1. taken[d] \in Nat /\ taken[d] <= Len(delivered[d]) /\ taken'[d] = taken[d]
        BY <1>2 DEF LinkInv, LinkTypeOK, TakenWasSent
      <3>2. QED
        BY <1>1, <3>1
    <2>2. QED
      BY <2>1 DEF TakenWasSent
  <1>3. ASSUME UNCHANGED linkVars PROVE LinkInv'
    BY <1>1, <1>2, <1>3 DEF LinkInv, LinkTypeOK, linkVars
  <1>4. ASSUME NEW d \in DaemonConns, Dial(d) PROVE LinkInv'
    <2>1. state'[d] = "accepted"
      BY <1>4 DEF Dial, Accept, RelayInv, RelayTypes, RelayTypeOK, Conns
    <2>2. QED
      BY <1>1, <1>2, <1>4, <2>1 DEF Dial, LinkInv, LinkTypeOK
  <1>5. CASE DialInVain
    BY <1>1, <1>2, <1>5 DEF DialInVain, Fail, LinkInv, LinkTypeOK
  <1>6. CASE Wake
    BY <1>1, <1>2, <1>6, DoubleBounded DEF Wake, LinkInv, LinkTypeOK
  <1>7. CASE Receive
    <2>1. /\ current \in DaemonConns /\ taken'[current] = taken[current] + 1
          /\ taken[current] < Len(delivered[current])
          /\ taken' \in [DaemonConns -> Nat]
          /\ \A d \in DaemonConns : d # current => taken'[d] = taken[d]
      BY <1>7 DEF Receive, LinkInv, LinkTypeOK
    <2>2. TakenWasSent'
      <3>1. ASSUME NEW d \in DaemonConns PROVE taken'[d] <= Len(delivered'[d])
        <4>1. taken[d] \in Nat /\ taken[d] <= Len(delivered[d])
          BY DEF LinkInv, LinkTypeOK, TakenWasSent
        <4>2. QED
          BY <1>1, <2>1, <4>1
      <3>2. QED
        BY <3>1 DEF TakenWasSent
    <2>3. /\ kind' \in [DaemonConns -> Seq(Kinds)]
          /\ \A d \in DaemonConns : Len(kind'[d]) = taken'[d]
      <3>1. PICK k \in Kinds : kind' = [kind EXCEPT ![current] = Append(@, k)]
        BY <1>7 DEF Receive
      <3>2. /\ kind \in [DaemonConns -> Seq(Kinds)]
            /\ \A d \in DaemonConns : Len(kind[d]) = taken[d]
        BY DEF LinkInv, LinkTypeOK
      <3>3. /\ Append(kind[current], k) \in Seq(Kinds)
            /\ Len(Append(kind[current], k)) = Len(kind[current]) + 1
        BY <2>1, <3>2, HeldAppend
      <3>4. QED
        BY <2>1, <3>1, <3>2, <3>3
    <2>4. UNCHANGED <<handled, answers, backoff>>
      BY <1>7 DEF Receive, Fail
    <2>5. CASE current' = None
      <3>1. task' = "sleeping"
        BY <1>7, <2>1, <2>5 DEF Receive, Fail
      <3>2. QED
        BY <1>1, <2>1, <2>2, <2>3, <2>4, <2>5, <3>1 DEF LinkInv, LinkTypeOK
    <2>6. CASE current' # None
      <3>1. current' = current /\ task' \in {"reading", "waiting", "answering"}
        BY <1>7, <2>6 DEF Receive, Fail
      <3>2. LinkTypeOK'
        BY <1>1, <2>1, <2>3, <2>4, <2>6, <3>1 DEF LinkInv, LinkTypeOK
      <3>3. taken'[current'] > 0
        BY <2>1, <3>1 DEF LinkInv, LinkTypeOK
      <3>4. state'[current'] # "new"
        BY <1>1, <2>1, <3>1 DEF LinkInv
      <3>5. QED
        BY <2>2, <3>2, <3>3, <3>4 DEF LinkInv
    <2>7. QED
      BY <2>5, <2>6
  <1>8. CASE Handle
    <2>1. current \in DaemonConns /\ taken[current] \in 1 .. Len(delivered[current])
      BY <1>1, <1>8 DEF Handle, LinkInv, LinkTypeOK, TakenWasSent
    <2>2. Taken \in ClientConns \X Nat
      BY <2>1, FromClients DEF Taken, Given, Held
    <2>3. handled' \in Seq(ClientConns \X Nat)
      BY <1>8, <2>2 DEF Handle, LinkInv, LinkTypeOK
    <2>4. QED
      BY <1>1, <1>2, <1>8, <2>3 DEF Handle, LinkInv, LinkTypeOK
  <1>9. CASE Answer
    <2>1. current \in DaemonConns /\ taken[current] \in 1 .. Len(delivered[current])
      BY <1>1, <1>9 DEF Answer, LinkInv, LinkTypeOK, TakenWasSent
    <2>2. Append(answers[current], taken[current]) \in Seq(Nat)
      BY <2>1 DEF LinkInv, LinkTypeOK
    <2>3. answers' \in [DaemonConns -> Seq(Nat)]
      BY <1>9, <2>1, <2>2 DEF Answer, LinkInv, LinkTypeOK
    <2>4. QED
      BY <1>1, <1>2, <1>9, <2>3 DEF Answer, Fail, LinkInv, LinkTypeOK
  <1>10. CASE HangUp
    BY <1>1, <1>2, <1>10 DEF HangUp, Fail, LinkInv, LinkTypeOK
  <1>11. ASSUME NEW c \in Conns, ClientSends(c) PROVE LinkInv'
    BY <1>3, <1>11 DEF ClientSends
  <1>12. QED
    BY <1>3, <1>4, <1>5, <1>6, <1>7, <1>8, <1>9, <1>10, <1>11
       DEF Next, AnswerArrives, Relay, vars

\* A request is served when it is the last one taken and waits, and that one was
\* not served before.
LEMMA ServedKept ==
  ASSUME RelayInv, OrderInv, OneDaemon, LinkInv, ServedWasTaken, HandledOnce, [Next]_vars
  PROVE  ServedWasTaken' /\ HandledOnce'
  <1>1. \A d \in DaemonConns :
          /\ taken[d] \in Nat /\ Len(delivered[d]) \in Nat /\ taken[d] <= Len(delivered[d])
          /\ \A k \in 1 .. Len(delivered[d]) : delivered'[d][k] = delivered[d][k]
    <2>1. [RelayNext]_relayVars
      BY RelayStep
    <2>2. QED
      BY <2>1, DeliveredGrows
         DEF LinkInv, LinkTypeOK, TakenWasSent, RelayInv, RelayTypes, Conns
  <1>2. handled \in Seq(ClientConns \X Nat)
    BY DEF LinkInv, LinkTypeOK
  <1>3. ASSUME NEW i \in 1 .. Len(handled)
        PROVE  \E d \in DaemonConns : \E k \in 1 .. taken[d] :
                 /\ k \in 1 .. Len(delivered[d])
                 /\ handled[i] = delivered[d][k] /\ handled[i] = delivered'[d][k]
                 /\ ~(task = "waiting" /\ d = current /\ k = taken[d])
    <2>1. PICK d \in DaemonConns : \E k \in 1 .. taken[d] :
            /\ handled[i] = delivered[d][k]
            /\ ~(task = "waiting" /\ d = current /\ k = taken[d])
      BY <1>3 DEF ServedWasTaken
    <2>2. \A k \in 1 .. taken[d] :
            k \in 1 .. Len(delivered[d]) /\ delivered'[d][k] = delivered[d][k]
      BY <1>1
    <2>3. QED
      BY <2>1, <2>2
  <1>4. CASE Handle
    <2>1. /\ task = "waiting" /\ task' = "answering" /\ taken' = taken /\ current' = current
          /\ handled' = Append(handled, Taken)
          /\ current \in DaemonConns /\ taken[current] \in 1 .. Len(delivered[current])
      BY <1>1, <1>4 DEF Handle, LinkInv, LinkTypeOK
    <2>2. Taken \in ClientConns \X Nat
      BY <2>1, FromClients DEF Taken, Given, Held
    <2>3. /\ Len(handled') = Len(handled) + 1
          /\ \A i \in 1 .. Len(handled) : handled'[i] = handled[i]
          /\ handled'[Len(handled) + 1] = Taken
          /\ DOMAIN handled = 1 .. Len(handled) /\ DOMAIN handled' = 1 .. Len(handled) + 1
      BY <1>2, <2>1, <2>2, HeldAppend
    <2>4. ASSUME NEW i \in 1 .. Len(handled)
          PROVE  handled[i] # Taken
      <3>1. PICK d \in DaemonConns : \E k \in 1 .. taken[d] :
                   /\ k \in 1 .. Len(delivered[d]) /\ handled[i] = delivered[d][k]
                   /\ ~(task = "waiting" /\ d = current /\ k = taken[d])
        BY <1>3
      <3>2. PICK k \in 1 .. taken[d] :
                   /\ k \in 1 .. Len(delivered[d]) /\ handled[i] = delivered[d][k]
                   /\ ~(task = "waiting" /\ d = current /\ k = taken[d])
        BY <3>1
      <3>3. ASSUME handled[i] = Taken PROVE d = current /\ k = taken[current]
        <4>1. delivered[d][k] = delivered[current][taken[current]]
          BY <3>2, <3>3 DEF Taken
        <4>2. QED
          BY <2>1, <3>2, <4>1, DeliveredOnce
      <3>4. QED
        BY <2>1, <3>2, <3>3
    <2>5. HandledOnce'
      BY <2>3, <2>4 DEF HandledOnce, IsInjective
    <2>6. ASSUME NEW i \in 1 .. Len(handled')
          PROVE  \E d \in DaemonConns : \E k \in 1 .. taken'[d] :
                   handled'[i] = delivered'[d][k]
      <3>1. CASE i \in 1 .. Len(handled)
        BY <1>3, <2>1, <2>3, <3>1
      <3>2. CASE i = Len(handled) + 1
        BY <1>1, <2>1, <2>3, <3>2 DEF Taken
      <3>3. QED
        BY <1>2, <2>3, <3>1, <3>2
    <2>7. QED
      BY <2>1, <2>5, <2>6 DEF ServedWasTaken
  <1>5. CASE Receive
    <2>1. /\ task # "waiting" /\ handled' = handled /\ current \in DaemonConns
          /\ taken'[current] = taken[current] + 1 /\ current' \in {current, None}
          /\ \A d \in DaemonConns : d # current => taken'[d] = taken[d]
      BY <1>5 DEF Receive, Fail, LinkInv, LinkTypeOK
    <2>2. ASSUME NEW i \in 1 .. Len(handled')
          PROVE  \E d \in DaemonConns : \E k \in 1 .. taken'[d] :
                   /\ handled'[i] = delivered'[d][k]
                   /\ ~(task' = "waiting" /\ d = current' /\ k = taken'[d])
      <3>1. PICK d \in DaemonConns : \E k \in 1 .. taken[d] : handled[i] = delivered'[d][k]
        BY <1>3, <2>1
      <3>2. PICK k \in 1 .. taken[d] : handled[i] = delivered'[d][k]
        BY <3>1
      <3>3. k \in 1 .. taken'[d] /\ ~(d = current' /\ k = taken'[d])
        BY <1>1, <2>1, RelayAssumption DEF Conns
      <3>4. QED
        BY <2>1, <3>2, <3>3
    <2>3. QED
      BY <2>1, <2>2 DEF ServedWasTaken, HandledOnce
  <1>6. CASE /\ UNCHANGED <<handled, taken>>
             /\ task' = "waiting" => UNCHANGED <<task, current>>
    <2>1. ASSUME NEW i \in 1 .. Len(handled')
          PROVE  \E d \in DaemonConns : \E k \in 1 .. taken'[d] :
                   /\ handled'[i] = delivered'[d][k]
                   /\ ~(task' = "waiting" /\ d = current' /\ k = taken'[d])
      <3>1. PICK d \in DaemonConns : \E k \in 1 .. taken[d] :
                   /\ handled[i] = delivered'[d][k]
                   /\ ~(task = "waiting" /\ d = current /\ k = taken[d])
        BY <1>3, <1>6
      <3>2. PICK k \in 1 .. taken[d] :
                   /\ handled[i] = delivered'[d][k]
                   /\ ~(task = "waiting" /\ d = current /\ k = taken[d])
        BY <3>1
      <3>3. k \in 1 .. taken'[d] /\ handled'[i] = delivered'[d][k]
        BY <1>6, <3>2
      <3>4. ~(task' = "waiting" /\ d = current' /\ k = taken'[d])
        BY <1>6, <3>2
      <3>5. QED
        BY <3>3, <3>4
    <2>2. QED
      BY <1>6, <2>1 DEF ServedWasTaken, HandledOnce
  <1>7. QED
    <2>1. CASE \E d \in DaemonConns : Dial(d)
      BY <1>6, <2>1 DEF Dial
    <2>2. CASE DialInVain \/ Wake \/ Answer \/ HangUp
      BY <1>6, <2>2 DEF DialInVain, Wake, Answer, HangUp, Fail
    <2>3. CASE \E c \in Conns : ClientSends(c) \/ AnswerArrives(c) \/ Relay(c)
      BY <1>6, <2>3 DEF ClientSends, AnswerArrives, Relay, linkVars
    <2>4. CASE UNCHANGED vars
      BY <1>6, <2>4 DEF vars, linkVars
    <2>5. QED
      BY <1>4, <1>5, <2>1, <2>2, <2>3, <2>4 DEF Next
-------------------------------------------------------------------------------
\* Frames are numbered from 1.
Numbered ==
  \A r \in Conns :
    /\ forwarding[r] # {} => sent[r] >= 1
    /\ \A f \in Given(r) : f[2] >= 1

\* Where the last answer on a connection is, and up to where its frames are dealt
\* with: all that were taken but the one that is being served.
LastAnswered(d) == Before(d, Len(answers[d]) + 1)
Settled == IF task \in {"waiting", "answering"} THEN taken[current] - 1 ELSE taken[current]

\* Every answer that was sent is in turn, the frames dealt with since the last one
\* are ignored ones, and the relay has read no more answers than were sent.
AnsweredInTurn ==
  \A d \in DaemonConns :
    /\ sent[d] <= Len(answers[d])
    /\ \A n \in 1 .. Len(answers[d]) : InTurn(d, n)
    /\ d = current =>
         /\ LastAnswered(d) <= Settled
         /\ \A k \in LastAnswered(d) + 1 .. Settled : kind[d][k] = "ignored"

\* What is about to be answered is a ping or has been served.
ReadyToAnswer ==
  task = "answering" =>
    kind[current][taken[current]] = "ping" \/ Taken \in ToSet(handled)

AnswerInv == AnsweredInTurn /\ ReadyToAnswer

\* The frames of a connection are numbered from 1.
LEMMA NumberedKept ==
  ASSUME RelayInv, Numbered, [RelayNext]_relayVars
  PROVE  Numbered'
  <1>1. ASSUME RelayNext, NEW r \in Conns
        PROVE  forwarding'[r] # {} => sent'[r] >= 1
    <2>1. ASSUME NEW d \in Conns, Read(d)
          PROVE  forwarding'[r] # {} => sent'[r] >= 1
      <3>1. sent[r] \in Nat
        BY DEF RelayInv, RelayTypes, RelayTypeOK
      <3>2. CASE d = r
        <4>1. sent'[r] = sent[r] + 1
          BY <2>1, <3>2 DEF Read, RelayInv, RelayTypes, RelayTypeOK
        <4>2. QED
          BY <3>1, <4>1
      <3>3. CASE d # r
        BY <2>1, <3>3 DEF Read, Numbered, RelayInv, RelayTypes, RelayTypeOK
      <3>4. QED
        BY <3>2, <3>3
    <2>2. ASSUME NEW d \in Conns, NEW e \in Conns, Forward(d, e)
          PROVE  forwarding'[r] # {} => sent'[r] >= 1
      BY <2>2 DEF Forward, Numbered, RelayInv, RelayTypes, RelayTypeOK
    <2>3. CASE UNCHANGED <<forwarding, sent>>
      BY <2>3 DEF Numbered
    <2>4. QED
      BY <1>1, <2>1, <2>2, <2>3 DEF RelayNext, Accept, Register, Write, Close, Unregister
  <1>2. ASSUME RelayNext, NEW r \in Conns, NEW f \in Given(r)'
        PROVE  f[2] >= 1
    <2>1. ASSUME NEW c \in Conns, Forward(c, r)
          PROVE  sent[c] >= 1
      BY <2>1 DEF Forward, Numbered
    <2>2. QED
      BY <1>2, <2>1, FramesMove DEF Numbered, Given, RelayInv
  <1>3. CASE UNCHANGED relayVars
    BY <1>3 DEF Numbered, Given, relayVars, conns
  <1>4. QED
    BY <1>1, <1>2, <1>3 DEF Numbered

\* What the daemon has taken, served and answered, it keeps.
LEMMA HistoryGrows ==
  ASSUME RelayInv, LinkInv, [Next]_vars
  PROVE  /\ ToSet(handled) \subseteq ToSet(handled')
         /\ \A d \in DaemonConns :
              /\ taken[d] \in Nat /\ taken'[d] \in Nat /\ taken[d] <= taken'[d]
              /\ Len(delivered[d]) \in Nat /\ taken[d] <= Len(delivered[d])
              /\ answers[d] \in Seq(Nat) /\ Len(answers[d]) \in Nat
              /\ \A k \in 1 .. Len(delivered[d]) : delivered'[d][k] = delivered[d][k]
              /\ \A k \in 1 .. taken[d] : kind'[d][k] = kind[d][k]
              /\ \A n \in 1 .. Len(answers[d]) : answers'[d][n] = answers[d][n]
  <1>1. \A d \in DaemonConns :
          /\ Len(delivered[d]) \in Nat
          /\ \A k \in 1 .. Len(delivered[d]) : delivered'[d][k] = delivered[d][k]
    BY RelayStep, DeliveredGrows DEF RelayInv, RelayTypes, Conns
  <1>2. \A d \in DaemonConns :
          /\ taken[d] \in Nat /\ taken[d] <= Len(delivered[d])
          /\ kind[d] \in Seq(Kinds) /\ Len(kind[d]) = taken[d]
          /\ answers[d] \in Seq(Nat) /\ Len(answers[d]) \in Nat
    BY DEF LinkInv, LinkTypeOK, TakenWasSent
  <1>3. CASE UNCHANGED <<handled, taken, kind, answers>>
    BY <1>1, <1>2, <1>3
  <1>4. CASE Receive
    <2>1. /\ UNCHANGED <<handled, answers>> /\ current \in DaemonConns
          /\ taken' = [taken EXCEPT ![current] = @ + 1]
      BY <1>4 DEF Receive, LinkInv, LinkTypeOK
    <2>2. PICK x \in Kinds : kind' = [kind EXCEPT ![current] = Append(@, x)]
      BY <1>4 DEF Receive
    <2>3. \A k \in 1 .. taken[current] : Append(kind[current], x)[k] = kind[current][k]
      BY <1>2, <2>1, HeldAppend
    <2>4. taken \in [DaemonConns -> Nat] /\ kind \in [DaemonConns -> Seq(Kinds)]
      BY DEF LinkInv, LinkTypeOK
    <2>5. ASSUME NEW d \in DaemonConns
          PROVE  /\ taken'[d] \in Nat /\ taken[d] <= taken'[d]
                 /\ \A k \in 1 .. taken[d] : kind'[d][k] = kind[d][k]
      <3>1. CASE d = current
        <4>1. taken'[d] = taken[d] + 1 /\ taken[d] \in Nat
          BY <2>1, <2>4, <3>1
        <4>2. kind'[d] = Append(kind[d], x)
          BY <2>2, <2>4, <3>1
        <4>3. taken'[d] \in Nat /\ taken[d] <= taken'[d]
          BY <4>1
        <4>4. \A k \in 1 .. taken[d] : Append(kind[d], x)[k] = kind[d][k]
          BY <2>3, <3>1
        <4>5. \A k \in 1 .. taken[d] : kind'[d][k] = kind[d][k]
          BY <4>2, <4>4
        <4>6. QED
          BY <4>3, <4>5
      <3>2. CASE d # current
        BY <2>1, <2>2, <2>4, <3>2
      <3>3. QED
        BY <3>1, <3>2
    <2>6. QED
      BY <1>1, <1>2, <2>1, <2>5
  <1>5. CASE Handle
    <2>1. /\ UNCHANGED <<taken, kind, answers>> /\ handled' = Append(handled, Taken)
      BY <1>5 DEF Handle
    <2>2. ToSet(handled) \subseteq ToSet(handled')
      <3>1. /\ handled \in Seq(ClientConns \X Nat)
            /\ current \in DaemonConns /\ taken[current] > 0
        BY <1>5 DEF Handle, LinkInv, LinkTypeOK
      <3>2. Taken \in ClientConns \X Nat
        <4>1. taken[current] \in 1 .. Len(delivered[current])
          BY <1>2, <3>1
        <4>2. QED
          BY <3>1, <4>1, FromClients DEF Taken, Given, Held
      <3>3. /\ handled' \in Seq(ClientConns \X Nat) /\ Len(handled') = Len(handled) + 1
            /\ \A i \in 1 .. Len(handled) : handled'[i] = handled[i]
        BY <2>1, <3>1, <3>2, HeldAppend
      <3>4. DOMAIN handled = 1 .. Len(handled) /\ DOMAIN handled' = 1 .. Len(handled')
        BY <3>1, <3>3
      <3>5. Len(handled) \in Nat
        BY <3>1
      <3>6. QED
        BY <3>3, <3>4, <3>5 DEF ToSet
    <2>3. QED
      BY <1>1, <1>2, <2>1, <2>2
  <1>6. CASE Answer
    <2>1. /\ UNCHANGED <<handled, taken, kind>> /\ current \in DaemonConns
          /\ \/ answers' = answers
             \/ answers' = [answers EXCEPT ![current] = Append(@, taken[current])]
      BY <1>6 DEF Answer, LinkInv, LinkTypeOK
    <2>2. \A n \in 1 .. Len(answers[current]) :
            Append(answers[current], taken[current])[n] = answers[current][n]
      BY <1>2, <2>1, HeldAppend
    <2>3. answers \in [DaemonConns -> Seq(Nat)]
      BY DEF LinkInv, LinkTypeOK
    <2>4. \A d \in DaemonConns : \A n \in 1 .. Len(answers[d]) : answers'[d][n] = answers[d][n]
      BY <2>1, <2>2, <2>3
    <2>5. QED
      BY <1>1, <1>2, <2>1, <2>4
  <1>7. QED
    BY <1>3, <1>4, <1>5, <1>6 DEF Next, Dial, DialInVain, Wake, HangUp, ClientSends,
       AnswerArrives, Relay, linkVars, vars

\* An answer in turn stays so.
LEMMA InTurnStays ==
  ASSUME RelayInv, LinkInv, [Next]_vars, NEW d \in DaemonConns,
         NEW n \in 1 .. Len(answers[d]), InTurn(d, n)
  PROVE  InTurn(d, n)'
  <1>1. /\ ToSet(handled) \subseteq ToSet(handled')
        /\ taken[d] \in Nat /\ taken'[d] \in Nat /\ taken[d] <= taken'[d]
        /\ Len(delivered[d]) \in Nat /\ taken[d] <= Len(delivered[d])
        /\ answers[d] \in Seq(Nat) /\ Len(answers[d]) \in Nat
        /\ \A k \in 1 .. Len(delivered[d]) : delivered'[d][k] = delivered[d][k]
        /\ \A k \in 1 .. taken[d] : kind'[d][k] = kind[d][k]
        /\ \A m \in 1 .. Len(answers[d]) : answers'[d][m] = answers[d][m]
    BY HistoryGrows
  <1>2. answers'[d][n] = answers[d][n] /\ answers[d][n] \in Nat
    BY <1>1
  <1>3. Before(d, n)' = Before(d, n) /\ Before(d, n) \in Nat
    <2>1. CASE n = 1
      BY <2>1 DEF Before
    <2>2. CASE n # 1
      <3>1. n - 1 \in 1 .. Len(answers[d])
        BY <1>1, <2>2
      <3>2. answers'[d][n - 1] = answers[d][n - 1] /\ answers[d][n - 1] \in Nat
        BY <1>1, <3>1
      <3>3. QED
        BY <2>2, <3>2 DEF Before
    <2>3. QED
      BY <2>1, <2>2
  <1> DEFINE p == answers[d][n]
             b == Before(d, n)
  <1>4. /\ p \in b + 1 .. taken[d]
        /\ \A k \in b + 1 .. p - 1 : kind[d][k] = "ignored"
        /\ kind[d][p] = "ping" \/ delivered[d][p] \in ToSet(handled)
    BY DEF InTurn, AnsweredFrame
  <1>5. answers'[d][n] = p /\ Before(d, n)' = b /\ p \in Nat /\ b \in Nat
    BY <1>2, <1>3
  <1> HIDE DEF p, b
  <1>6. p \in b + 1 .. taken'[d] /\ p \in 1 .. taken[d] /\ p \in 1 .. Len(delivered[d])
    BY <1>1, <1>4, <1>5
  <1>7. \A k \in b + 1 .. p - 1 : kind'[d][k] = "ignored"
    <2>1. \A k \in b + 1 .. p - 1 : k \in 1 .. taken[d]
      BY <1>1, <1>5, <1>6
    <2>2. QED
      BY <1>1, <1>4, <2>1
  <1>8. kind'[d][p] = "ping" \/ delivered'[d][p] \in ToSet(handled')
    BY <1>1, <1>4, <1>6
  <1>9. QED
    BY <1>5, <1>6, <1>7, <1>8 DEF InTurn, AnsweredFrame

\* The last answer is to a frame that was taken.
LEMMA LastAnsweredTaken ==
  ASSUME LinkInv, AnsweredInTurn, NEW d \in DaemonConns
  PROVE  LastAnswered(d) \in Nat /\ LastAnswered(d) <= taken[d]
  <1>1. /\ answers[d] \in Seq(Nat) /\ Len(answers[d]) \in Nat /\ taken[d] \in Nat
    BY DEF LinkInv, LinkTypeOK
  <1>2. CASE Len(answers[d]) = 0
    BY <1>1, <1>2 DEF LastAnswered, Before
  <1>3. CASE Len(answers[d]) # 0
    <2> DEFINE n == Len(answers[d])
    <2>1. n \in 1 .. Len(answers[d])
      BY <1>1, <1>3
    <2>2. answers[d][n] \in Nat /\ answers[d][n] <= taken[d]
      <3>1. answers[d][n] \in Nat
        BY <1>1, <2>1
      <3>2. InTurn(d, n)
        BY <2>1 DEF AnsweredInTurn
      <3>3. answers[d][n] \in Before(d, n) + 1 .. taken[d]
        BY <3>2 DEF InTurn
      <3>4. QED
        BY <3>1, <3>3
    <2>3. LastAnswered(d) = answers[d][n]
      BY <1>1, <1>3 DEF LastAnswered, Before
    <2>4. QED
      BY <2>2, <2>3
  <1>4. QED
    BY <1>2, <1>3

\* Answering settles the last frame taken, an ignored one is settled when it is
\* taken, and dialling begins on a connection from which nothing was taken yet.
LEMMA AnswersKept ==
  ASSUME RelayInv, LinkInv, AnswerInv, [Next]_vars
  PROVE  AnswerInv'
  <1>1. \A d \in DaemonConns :
          /\ sent[d] \in Nat /\ sent[d] <= Len(answers[d])
          /\ taken[d] \in Nat /\ Len(answers[d]) \in Nat /\ answers[d] \in Seq(Nat)
          /\ LastAnswered(d) \in Nat /\ LastAnswered(d) <= taken[d]
          /\ Len(delivered[d]) \in Nat /\ taken[d] <= Len(delivered[d])
          /\ \A k \in 1 .. Len(delivered[d]) : delivered'[d][k] = delivered[d][k]
    <2>1. \A d \in DaemonConns : sent[d] \in Nat
      BY DEF RelayInv, RelayTypes, RelayTypeOK, Conns
    <2>2. \A d \in DaemonConns : LastAnswered(d) \in Nat /\ LastAnswered(d) <= taken[d]
      BY LastAnsweredTaken DEF AnswerInv
    <2>3. QED
      BY <2>1, <2>2, HistoryGrows DEF AnswerInv, AnsweredInTurn
  <1>2. ASSUME NEW d \in DaemonConns, NEW n \in 1 .. Len(answers[d])
        PROVE  InTurn(d, n)'
    BY InTurnStays DEF AnswerInv, AnsweredInTurn
  <1>3. current \in DaemonConns =>
          /\ LastAnswered(current) <= Settled
          /\ \A k \in LastAnswered(current) + 1 .. Settled : kind[current][k] = "ignored"
    BY DEF AnswerInv, AnsweredInTurn
  <1>4. ASSUME UNCHANGED answers, \A d \in DaemonConns : sent'[d] <= Len(answers[d]),
               current' \in DaemonConns =>
                 /\ LastAnswered(current') <= Settled'
                 /\ \A k \in LastAnswered(current') + 1 .. Settled' :
                      kind'[current'][k] = "ignored"
        PROVE  AnsweredInTurn'
    <2>1. ASSUME NEW d \in DaemonConns
          PROVE  LastAnswered(d)' = LastAnswered(d)
      BY <1>4 DEF LastAnswered, Before
    <2>2. ASSUME NEW d \in DaemonConns, NEW n \in 1 .. Len(answers'[d])
          PROVE  InTurn(d, n)'
      BY <1>2, <1>4, <2>2
    <2>3. ASSUME NEW d \in DaemonConns, d = current'
          PROVE  /\ LastAnswered(d)' <= Settled'
                 /\ \A k \in LastAnswered(d)' + 1 .. Settled' : kind'[d][k] = "ignored"
      BY <1>4, <2>1, <2>3
    <2>4. QED
      BY <1>4, <2>2, <2>3 DEF AnsweredInTurn
  <1>5. CASE Answer
    <2>1. /\ current \in DaemonConns /\ task = "answering"
          /\ UNCHANGED <<sent, delivered, taken, kind, handled>>
          /\ task' # "answering"
      BY <1>5 DEF Answer, Fail, LinkInv, LinkTypeOK, relayVars, conns
    <2>2. ReadyToAnswer'
      BY <2>1 DEF ReadyToAnswer
    <2>3. CASE answers' = answers /\ current' = None
      <3>1. AnsweredInTurn'
        BY <1>1, <1>4, <2>1, <2>3, RelayAssumption DEF Conns
      <3>2. QED
        BY <2>2, <3>1 DEF AnswerInv
    <2>4. CASE /\ answers' = [answers EXCEPT ![current] = Append(@, taken[current])]
               /\ task' = "reading" /\ current' = current
      <3>1. PICK e \in DaemonConns : e = current
        BY <2>1
      <3>2. PICK p \in Nat : p = taken[e]
        BY <1>1
      <3>3. PICK m \in Nat : m = Len(answers[e]) + 1
        BY <1>1
      <3>4. PICK b \in Nat : b = LastAnswered(e)
        BY <1>1
      <3>5. /\ Len(answers'[e]) = m /\ answers'[e][m] = p
            /\ \A n \in 1 .. Len(answers[e]) : answers'[e][n] = answers[e][n]
            /\ \A d \in DaemonConns : d # e => answers'[d] = answers[d]
        <4>1. answers \in [DaemonConns -> Seq(Nat)] /\ answers[e] \in Seq(Nat)
          BY DEF LinkInv, LinkTypeOK
        <4>2. /\ Len(Append(answers[e], p)) = m
              /\ \A n \in 1 .. Len(answers[e]) : Append(answers[e], p)[n] = answers[e][n]
              /\ Append(answers[e], p)[m] = p
          BY <3>3, <4>1, HeldAppend
        <4>3. answers' = [answers EXCEPT ![e] = Append(answers[e], p)]
          BY <2>4, <3>1, <3>2
        <4>4. QED
          BY <4>1, <4>2, <4>3
      <3>6. m >= 1 /\ Len(answers[e]) \in Nat
        BY <1>1, <3>3
      <3>7. Before(e, m)' = b
        <4>1. CASE m = 1
          <5>1. b = 0
            BY <3>3, <3>4, <4>1 DEF LastAnswered, Before
          <5>2. QED
            BY <4>1, <5>1 DEF Before
        <4>2. CASE m # 1
          <5>1. m - 1 \in 1 .. Len(answers[e])
            BY <3>3, <3>6, <4>2
          <5>2. answers'[e][m - 1] = answers[e][m - 1]
            BY <3>5, <5>1
          <5>3. b = answers[e][m - 1]
            BY <3>3, <3>4, <4>2 DEF LastAnswered, Before
          <5>4. QED
            BY <4>2, <5>2, <5>3 DEF Before
        <4>3. QED
          BY <4>1, <4>2
      <3>8. Settled = p - 1 /\ Settled' = p
        BY <2>1, <2>4, <3>1, <3>2 DEF Settled
      <3>9. b <= p - 1 /\ \A k \in b + 1 .. p - 1 : kind[e][k] = "ignored"
        BY <1>3, <3>1, <3>4, <3>8
      <3>10. kind[e][p] = "ping" \/ delivered[e][p] \in ToSet(handled)
        BY <2>1, <3>1, <3>2 DEF AnswerInv, ReadyToAnswer, Taken
      <3>11. InTurn(e, m)'
        <4>1. p \in b + 1 .. taken'[e]
          BY <2>1, <3>2, <3>9
        <4>2. QED
          BY <2>1, <3>5, <3>7, <3>9, <3>10, <4>1 DEF InTurn, AnsweredFrame
      <3>12. LastAnswered(e)' = p
        <4>1. Len(answers'[e]) + 1 # 1 /\ Len(answers'[e]) + 1 - 1 = m
          BY <3>5, <3>6
        <4>2. LastAnswered(e)' = answers'[e][m]
          BY <4>1 DEF LastAnswered, Before
        <4>3. QED
          BY <3>5, <4>2
      <3>13. ASSUME NEW d \in DaemonConns, NEW n \in 1 .. Len(answers'[d])
             PROVE  InTurn(d, n)'
        <4>1. CASE n \in 1 .. Len(answers[d])
          BY <1>2, <4>1
        <4>2. CASE n \notin 1 .. Len(answers[d])
          <5>1. d = e
            BY <3>5, <3>13, <4>2
          <5>2. n = m
            BY <3>3, <3>5, <3>6, <3>13, <4>2, <5>1
          <5>3. QED
            BY <3>11, <5>1, <5>2
        <4>3. QED
          BY <4>1, <4>2
      <3>14. ASSUME NEW d \in DaemonConns
             PROVE  sent'[d] <= Len(answers'[d])
        <4>1. sent[d] \in Nat /\ sent[d] <= Len(answers[d]) /\ Len(answers[d]) \in Nat
          BY <1>1
        <4>2. QED
          BY <2>1, <3>3, <3>5, <4>1
      <3>15. ASSUME NEW d \in DaemonConns, d = current'
             PROVE  /\ LastAnswered(d)' <= Settled'
                    /\ \A k \in LastAnswered(d)' + 1 .. Settled' : kind'[d][k] = "ignored"
        <4>1. LastAnswered(d)' = p /\ Settled' = p
          BY <2>4, <3>1, <3>8, <3>12, <3>15
        <4>2. QED
          BY <4>1
      <3>16. AnsweredInTurn'
        BY <3>13, <3>14, <3>15 DEF AnsweredInTurn
      <3>17. QED
        BY <2>2, <3>16 DEF AnswerInv
    <2>5. QED
      BY <1>5, <2>3, <2>4 DEF Answer, Fail
  <1>6. CASE Handle
    <2>1. /\ current \in DaemonConns /\ taken[current] \in Nat
          /\ task = "waiting" /\ task' = "answering" /\ handled' = Append(handled, Taken)
          /\ UNCHANGED <<sent, delivered, current, taken, kind, answers>>
      BY <1>1, <1>6 DEF Handle, LinkInv, LinkTypeOK, relayVars, conns
    <2>2. Settled' = Settled
      BY <2>1 DEF Settled
    <2>3. AnsweredInTurn'
      BY <1>1, <1>3, <1>4, <2>1, <2>2
    <2>4. Taken' \in ToSet(handled')
      <3>1. handled \in Seq(ClientConns \X Nat)
        BY DEF LinkInv, LinkTypeOK
      <3>2. Taken' = Taken
        BY <2>1 DEF Taken
      <3>3. QED
        BY <2>1, <3>1, <3>2 DEF ToSet
    <2>5. QED
      BY <2>3, <2>4 DEF AnswerInv, ReadyToAnswer
  <1>7. CASE Receive
    <2>1. /\ current \in DaemonConns /\ task = "reading"
          /\ taken'[current] = taken[current] + 1
          /\ UNCHANGED <<sent, delivered, handled, answers>>
      BY <1>7 DEF Receive, LinkInv, LinkTypeOK, relayVars, conns
    <2>2. Settled = taken[current]
      BY <2>1 DEF Settled
    <2>3. PICK x \in Kinds :
            /\ kind' = [kind EXCEPT ![current] = Append(@, x)]
            /\ \/ x = "garbled" /\ Fail
               \/ x = "ignored" /\ UNCHANGED <<task, current, backoff>>
               \/ x = "ping" /\ task' = "answering" /\ UNCHANGED <<current, backoff>>
               \/ x = "request" /\ task' = "waiting" /\ UNCHANGED <<current, backoff>>
      BY <1>7 DEF Receive
    <2>4. /\ kind'[current][taken[current] + 1] = x
          /\ \A k \in 1 .. taken[current] : kind'[current][k] = kind[current][k]
      <3>1. /\ kind \in [DaemonConns -> Seq(Kinds)] /\ kind[current] \in Seq(Kinds)
            /\ Len(kind[current]) = taken[current]
        BY <2>1 DEF LinkInv, LinkTypeOK
      <3>2. /\ \A k \in 1 .. Len(kind[current]) :
                 Append(kind[current], x)[k] = kind[current][k]
            /\ Append(kind[current], x)[Len(kind[current]) + 1] = x
        BY <3>1, HeldAppend
      <3>3. kind'[current] = Append(kind[current], x)
        BY <2>1, <2>3, <3>1
      <3>4. QED
        BY <3>1, <3>2, <3>3
    <2>5. /\ LastAnswered(current) \in Nat /\ taken[current] \in Nat
          /\ LastAnswered(current) <= taken[current]
          /\ \A k \in LastAnswered(current) + 1 .. taken[current] :
               kind'[current][k] = "ignored"
      BY <1>1, <1>3, <2>1, <2>2, <2>4
    <2>6. \A d \in DaemonConns : sent'[d] <= Len(answers[d])
      BY <1>1, <2>1
    <2>7. CASE current' = None
      <3>1. AnsweredInTurn'
        BY <1>4, <2>1, <2>6, <2>7, RelayAssumption DEF Conns
      <3>2. task' # "answering"
        BY <2>1, <2>3, <2>7, RelayAssumption DEF Fail, Conns
      <3>3. QED
        BY <3>1, <3>2 DEF AnswerInv, ReadyToAnswer
    <2>8. CASE current' = current /\ x = "ignored" /\ task' = task
      <3>1. Settled' = taken[current] + 1
        BY <2>1, <2>8 DEF Settled
      <3>2. /\ LastAnswered(current) <= taken[current] + 1
            /\ \A k \in LastAnswered(current) + 1 .. taken[current] + 1 :
                 kind'[current][k] = "ignored"
        BY <2>4, <2>5, <2>8
      <3>3. AnsweredInTurn'
        BY <1>4, <2>1, <2>6, <2>8, <3>1, <3>2
      <3>4. QED
        BY <2>1, <2>8, <3>3 DEF AnswerInv, ReadyToAnswer
    <2>9. CASE current' = current /\ task' \in {"waiting", "answering"}
      <3>1. Settled' = taken[current]
        <4>1. Settled' = taken'[current] - 1
          BY <2>9 DEF Settled
        <4>2. QED
          BY <2>1, <2>5, <4>1
      <3>2. AnsweredInTurn'
        BY <1>4, <2>1, <2>5, <2>6, <2>9, <3>1
      <3>3. task' = "answering" => kind'[current'][taken'[current']] = "ping"
        BY <2>1, <2>3, <2>4, <2>9 DEF Fail
      <3>4. QED
        BY <3>2, <3>3 DEF AnswerInv, ReadyToAnswer
    <2>10. QED
      BY <2>3, <2>7, <2>8, <2>9 DEF Fail
  <1>8. ASSUME UNCHANGED <<handled, taken, kind, answers>>, task' # "answering",
               \A d \in DaemonConns : sent'[d] <= Len(answers[d]),
               current' \in DaemonConns =>
                 LastAnswered(current') = taken[current'] /\ task' # "waiting"
        PROVE  AnswerInv'
    <2>1. current' \in DaemonConns => Settled' = LastAnswered(current')
      BY <1>8 DEF Settled
    <2>2. AnsweredInTurn'
      BY <1>1, <1>4, <1>8, <2>1
    <2>3. QED
      BY <1>8, <2>2 DEF AnswerInv, ReadyToAnswer
  <1>9. ASSUME NEW c \in Conns, NEW s \in Sessions, Accept(c, s) PROVE UNCHANGED sent
    BY <1>9 DEF Accept
  <1>10. ASSUME NEW d \in DaemonConns, Dial(d) PROVE AnswerInv'
    <2>1. Len(delivered[d]) = 0
      <3>1. Given(d) = {}
        BY <1>10, FromClients DEF Dial, Accept
      <3>2. 1 \in 1 .. Len(delivered[d]) => delivered[d][1] \in Given(d)
        BY DEF Given, Held
      <3>3. QED
        BY <1>1, <3>1, <3>2
    <2>2. LastAnswered(d) = taken[d]
      BY <1>1, <2>1
    <2>3. /\ UNCHANGED <<handled, taken, kind, answers, sent>>
          /\ task' = "reading" /\ current' = d
      BY <1>10 DEF Dial, Accept
    <2>4. QED
      BY <1>1, <1>8, <2>2, <2>3
  <1>11. CASE DialInVain \/ Wake \/ HangUp
    <2>1. UNCHANGED sent
      BY <1>9, <1>11, ClientAssumption DEF DialInVain, Wake, HangUp, relayVars, conns, Conns
    <2>2. /\ UNCHANGED <<handled, taken, kind, answers>> /\ current' = None
          /\ task' \notin {"waiting", "answering"}
      BY <1>11 DEF DialInVain, Wake, HangUp, Fail, LinkInv, LinkTypeOK
    <2>3. current' \notin DaemonConns
      BY <2>2, RelayAssumption DEF Conns
    <2>4. QED
      BY <1>1, <1>8, <2>1, <2>2, <2>3
  <1>12. ASSUME UNCHANGED linkVars, \A d \in DaemonConns : sent'[d] <= Len(answers[d])
         PROVE  AnswerInv'
    <2>1. UNCHANGED <<task, current, taken, kind, handled, answers>>
      BY <1>12 DEF linkVars
    <2>2. Settled' = Settled
      BY <2>1 DEF Settled
    <2>3. AnsweredInTurn'
      BY <1>3, <1>4, <1>12, <2>1, <2>2
    <2>4. ASSUME task = "answering" PROVE Taken' = Taken
      <3>1. current \in DaemonConns /\ taken[current] > 0
        BY <2>4 DEF LinkInv, LinkTypeOK
      <3>2. taken[current] \in 1 .. Len(delivered[current])
        BY <1>1, <3>1
      <3>3. QED
        BY <1>1, <2>1, <3>1, <3>2 DEF Taken
    <2>5. ReadyToAnswer'
      BY <2>1, <2>4 DEF AnswerInv, ReadyToAnswer
    <2>6. QED
      BY <2>3, <2>5 DEF AnswerInv
  <1>13. ASSUME NEW c \in Conns, ClientSends(c) \/ AnswerArrives(c) PROVE AnswerInv'
    <2>1. /\ Read(c) /\ (c \in DaemonConns => sent[c] < Len(answers[c]))
          /\ UNCHANGED linkVars
      BY <1>13, RelayAssumption DEF ClientSends, AnswerArrives
    <2>2. ASSUME NEW d \in DaemonConns PROVE sent'[d] <= Len(answers[d])
      <3>1. CASE d = c
        <4>1. sent'[d] = sent[d] + 1
          BY <2>1, <3>1 DEF Read, RelayInv, RelayTypes, RelayTypeOK
        <4>2. QED
          BY <1>1, <2>1, <3>1, <4>1
      <3>2. CASE d # c
        <4>1. sent'[d] = sent[d]
          BY <2>1, <3>2 DEF Read, RelayInv, RelayTypes, RelayTypeOK, Conns
        <4>2. QED
          BY <1>1, <4>1
      <3>3. QED
        BY <3>1, <3>2
    <2>3. QED
      BY <1>12, <2>1, <2>2
  <1>14. ASSUME NEW c \in Conns, Relay(c) PROVE AnswerInv'
    <2>1. UNCHANGED sent
      BY <1>14 DEF Relay, ClientConnects, Accept, Register, Forward, Write, Close, Unregister
    <2>2. QED
      BY <1>1, <1>12, <1>14, <2>1 DEF Relay
  <1>15. CASE UNCHANGED vars
    BY <1>1, <1>12, <1>15 DEF vars, relayVars, conns
  <1>16. QED
    BY <1>5, <1>6, <1>7, <1>10, <1>11, <1>13, <1>14, <1>15 DEF Next

\* The answers that clients are sent are among those that the daemon has given.
LEMMA AnswerInvInOrder ==
  RelayInv /\ OrderInv /\ LinkInv /\ Numbered /\ AnswerInv => AnswersInOrder
  <1> SUFFICES ASSUME RelayInv, OrderInv, LinkInv, Numbered, AnswerInv
               PROVE  AnswersInOrder
    OBVIOUS
  <1>1. \A d \in DaemonConns : \A n \in 1 .. Len(answers[d]) : InTurn(d, n)
    BY DEF AnswerInv, AnsweredInTurn
  <1>2. ASSUME NEW c \in ClientConns, NEW i \in 1 .. Len(delivered[c]),
               NEW d, d = delivered[c][i][1], NEW n, n = delivered[c][i][2]
        PROVE  n <= Len(answers[d]) /\ session[AnsweredFrame(d, n)[1]] = session[c]
    <2>1. delivered[c][i] \in Given(c) /\ delivered[c][i] \in Frames
      BY DEF Given, Held, RelayInv, RelayTypes, Conns
    <2>2. d \in DaemonConns /\ session[d] = session[c]
      BY <1>2, <2>1, RelayAssumption DEF RelayInv, OnTheirWay, Opposite, Given, Frames, Conns
    <2>3. n \in Nat /\ n >= 1 /\ n <= sent[d]
      BY <1>2, <2>1, <2>2 DEF Numbered, OrderInv, Sent, Given, Frames, Conns
    <2>4. /\ sent[d] \in Nat /\ sent[d] <= Len(answers[d]) /\ Len(answers[d]) \in Nat
          /\ answers[d] \in Seq(Nat) /\ taken[d] \in Nat
          /\ taken[d] <= Len(delivered[d]) /\ Len(delivered[d]) \in Nat
      BY <2>2 DEF AnswerInv, AnsweredInTurn, LinkInv, LinkTypeOK, TakenWasSent,
                  RelayInv, RelayTypes, RelayTypeOK, Conns
    <2>5. n \in 1 .. Len(answers[d])
      BY <2>3, <2>4
    <2>6. answers[d][n] \in 1 .. Len(delivered[d])
      <3>1. answers[d][n] \in Before(d, n) + 1 .. taken[d]
        BY <1>1, <2>2, <2>5 DEF InTurn
      <3>2. Before(d, n) \in Nat
        <4>1. n # 1 => n - 1 \in 1 .. Len(answers[d])
          BY <2>4, <2>5
        <4>2. QED
          BY <2>4, <4>1 DEF Before
      <3>3. QED
        BY <2>4, <3>1, <3>2
    <2>7. Opposite(AnsweredFrame(d, n)[1], d)
      BY <2>2, <2>6, FromClients DEF AnsweredFrame, Given, Held
    <2>8. QED
      BY <2>2, <2>4, <2>5, <2>7 DEF Opposite
  <1>3. QED
    BY <1>1, <1>2 DEF AnswersInOrder

-------------------------------------------------------------------------------
\* All parts of the daemon's invariant.
ClientInv ==
  /\ RelayInv /\ OrderInv /\ OneDaemon
  /\ LinkInv /\ ServedWasTaken /\ HandledOnce
  /\ Numbered /\ AnswerInv

(***************************************************************************)
(* The daemon's end of the relay satisfies its inductive invariant,        *)
(* whatever connections are made and lost, and whatever clients send:      *)
(* requests, pings, texts that are none, and frames that are ignored.      *)
(***************************************************************************)
THEOREM ClientInvariant == Spec => []ClientInv
  <1>1. Init => ClientInv
    <2>1. Init => RelayInv
      BY RelayInitially DEF Init
    <2>2. Init => OrderInv /\ HandledOnce /\ Numbered
      BY HeldEmpty DEF Init, RelayInit, OrderInv, Ordered, HandledOnce, IsInjective,
                       Numbered, Given
    <2>3. Init => AnswerInv
      BY RelayAssumption DEF Init, RelayInit, AnswerInv, AnsweredInTurn, ReadyToAnswer, Conns
    <2>4. QED
      BY <2>1, <2>2, <2>3, LinkInitially DEF ClientInv
  <1>2. ClientInv /\ [Next]_vars => ClientInv'
    <2> SUFFICES ASSUME ClientInv, [Next]_vars PROVE ClientInv'
      OBVIOUS
    <2>1. [RelayNext]_relayVars
      BY RelayStep
    <2>2. RelayInv' /\ OneDaemon' /\ Numbered'
      BY <2>1, RelayInvKept, OneDaemonKept, NumberedKept DEF ClientInv
    <2>3. OrderInv'
      <3>1. CASE RelayNext
        BY <3>1, OrderKept DEF ClientInv, RelayInv
      <3>2. CASE UNCHANGED relayVars
        BY <3>2 DEF ClientInv, OrderInv, Sent, relayVars, conns
      <3>3. QED
        BY <2>1, <3>1, <3>2
    <2>4. LinkInv' /\ ServedWasTaken' /\ HandledOnce' /\ AnswerInv'
      BY LinkKept, ServedKept, AnswersKept DEF ClientInv
    <2>5. QED
      BY <2>2, <2>3, <2>4 DEF ClientInv
  <1>3. QED
    BY <1>1, <1>2, PTL DEF Spec

(***************************************************************************)
(* The type invariant of the relay and of the daemon's end of it.          *)
(***************************************************************************)
THEOREM LinkTyped == Spec => []LinkTypeOK
  <1>1. ClientInv => LinkTypeOK
    BY DEF ClientInv, LinkInv
  <1>2. QED
    BY <1>1, ClientInvariant, PTL

(***************************************************************************)
(* No request is served twice, whatever connections are lost and made      *)
(* again between its sending and its answer.                               *)
(***************************************************************************)
THEOREM RequestsHandledOnce == Spec => []HandledOnce
  <1>1. ClientInv => HandledOnce
    BY DEF ClientInv
  <1>2. QED
    BY <1>1, ClientInvariant, PTL

(***************************************************************************)
(* On every connection the daemon answers the frames that ask for an       *)
(* answer, requests it has served and pings, in their order, with none     *)
(* left out and none added, whatever frames it ignores in between; and     *)
(* what a client is sent are such answers, to frames of its session.       *)
(***************************************************************************)
THEOREM AnswersAlwaysInOrder == Spec => []AnswersInOrder
  <1>1. ClientInv => AnswersInOrder
    BY AnswerInvInOrder DEF ClientInv
  <1>2. QED
    BY <1>1, ClientInvariant, PTL
===============================================================================
