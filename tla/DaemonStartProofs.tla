--------------------------- MODULE DaemonStartProofs ---------------------------
(***************************************************************************)
(* What holds of any number of processes that start, stop and die on one   *)
(* path, and of any number of clients: the invariants of DaemonStart.      *)
(***************************************************************************)
EXTENDS DaemonStart, SequenceTheorems, TLAPS

Ats == Open \cup {"answered", "closed"}
Links == [to : Processes, kind : Kinds, at : Ats]

\* The type invariant, connections and queues in parts of their own.
ConnsTyped == conn \in [Ends -> Links \cup {NoConnection}]

Queued(p) == {e \in Ends : conn[e].to = p /\ conn[e].at = "queued"}

QueuesTyped ==
  /\ requests \in [Processes -> Seq(Ends)]
  /\ \A p \in Processes :
       IsInjective(requests[p]) /\ Range(requests[p]) = Queued(p)

FilesTyped ==
  /\ phase \in [Processes -> Phases]
  /\ socket \in Processes \cup {None}
  /\ metadata \in Processes \cup {None, Torn}
  /\ seen \in [Processes -> Processes \cup {None, Torn}]
  /\ pass \in [Processes -> 1 .. 2]
  /\ writers \subseteq Processes

HistoryTyped ==
  /\ crashed \subseteq Processes /\ company \subseteq Processes
  /\ found \in [Processes -> Processes \cup {None}]
  /\ raced \in BOOLEAN

Typed == ConnsTyped /\ QueuesTyped /\ FilesTyped /\ HistoryTyped

-------------------------------------------------------------------------------
\* A connection that gets further keeps its process and its kind.
LEMMA MovesOn ==
  ASSUME ConnsTyped, NEW e \in Ends, conn[e].at # "none", NEW at \in Ats, Moves(e, at)
  PROVE  /\ ConnsTyped'
         /\ \A x \in Ends \ {e} : conn'[x] = conn[x]
         /\ conn'[e].to = conn[e].to /\ conn'[e].at = at /\ conn'[e].kind = conn[e].kind
         /\ conn[e].to \in Processes /\ conn[e] # NoConnection /\ conn'[e] # NoConnection
  <1>1. conn[e] \in Links
    BY DEF ConnsTyped, NoConnection
  <1>2. conn' = [x \in Ends |-> IF x = e THEN [conn[e] EXCEPT !.at = at] ELSE conn[x]]
    BY DEF Moves, ConnsTyped
  <1>3. /\ [conn[e] EXCEPT !.at = at] \in Links
        /\ [conn[e] EXCEPT !.at = at].to = conn[e].to
        /\ [conn[e] EXCEPT !.at = at].kind = conn[e].kind
        /\ [conn[e] EXCEPT !.at = at].at = at
    BY <1>1 DEF Links
  <1>4. \A l \in Links : l # NoConnection
    BY DEF Links, Ats, Open, NoConnection
  <1>5. QED
    BY <1>1, <1>2, <1>3, <1>4 DEF ConnsTyped, Links

\* A new connection.
LEMMA Sends ==
  ASSUME ConnsTyped, NEW e \in Ends, NEW kind \in Kinds, NEW p \in Processes,
         Send(e, kind, p)
  PROVE  /\ ConnsTyped'
         /\ \A x \in Ends \ {e} : conn'[x] = conn[x]
         /\ conn[e].at = "none" /\ conn'[e].to = p /\ conn'[e].at = "sent"
         /\ conn'[e] # NoConnection
  <1>1. [to |-> p, kind |-> kind, at |-> "sent"] \in Links
    BY DEF Links, Ats, Open
  <1>2. conn' = [x \in Ends |-> IF x = e THEN [to |-> p, kind |-> kind, at |-> "sent"]
                                ELSE conn[x]]
    BY DEF Send, ConnsTyped
  <1>3. QED
    BY <1>1, <1>2 DEF ConnsTyped, Send, NoConnection

\* The end of a process closes the connections to it, and no other.
LEMMA Closes ==
  ASSUME ConnsTyped, NEW p \in Processes, Closing(p)
  PROVE  /\ ConnsTyped'
         /\ \A e \in Ends :
              /\ conn'[e] = NoConnection <=> conn[e] = NoConnection
              /\ conn'[e].to = conn[e].to
              /\ \/ conn'[e] = conn[e] /\ ~(conn[e].to = p /\ conn[e].at \in Open)
                 \/ conn'[e].at = "closed" /\ conn[e].to = p
  <1>1. ASSUME NEW e \in Ends, conn[e].to = p, conn[e].at \in Open
        PROVE  /\ conn[e] \in Links /\ conn'[e] \in Links
               /\ conn'[e].to = p /\ conn'[e].at = "closed"
    <2>1. conn[e] \in Links
      BY <1>1 DEF ConnsTyped, NoConnection, Open
    <2>2. conn'[e] = [conn[e] EXCEPT !.at = "closed"]
      BY <1>1 DEF Closing
    <2>3. QED
      BY <1>1, <2>1, <2>2 DEF Links, Ats
  <1>2. ASSUME NEW e \in Ends, ~(conn[e].to = p /\ conn[e].at \in Open)
        PROVE  conn'[e] = conn[e]
    BY <1>2 DEF Closing
  <1>3. \A l \in Links : l # NoConnection
    BY DEF Links, Ats, Open, NoConnection
  <1>4. conn' \in [Ends -> Links \cup {NoConnection}]
    <2>1. \A e \in Ends : conn'[e] \in Links \cup {NoConnection}
      BY <1>1, <1>2 DEF ConnsTyped
    <2>2. conn' = [e \in Ends |-> conn'[e]]
      BY DEF Closing
    <2>3. QED
      BY <2>1, <2>2
  <1>5. QED
    BY <1>1, <1>2, <1>3, <1>4 DEF ConnsTyped

\* A queue whose members are all different stays so.
LEMMA QueueAppend ==
  ASSUME NEW S, NEW q \in Seq(S), IsInjective(q), NEW e \in S, e \notin Range(q)
  PROVE  /\ Append(q, e) \in Seq(S) /\ IsInjective(Append(q, e))
         /\ Range(Append(q, e)) = Range(q) \cup {e}
  <1>1. /\ Len(q) \in Nat /\ DOMAIN q = 1 .. Len(q)
        /\ Append(q, e) \in Seq(S) /\ DOMAIN Append(q, e) = 1 .. Len(q) + 1
        /\ \A i \in 1 .. Len(q) : Append(q, e)[i] = q[i]
        /\ Append(q, e)[Len(q) + 1] = e
    BY AppendProperties
  <1>2. Range(Append(q, e)) = Range(q) \cup {e}
    BY <1>1 DEF Range
  <1>3. \A i \in DOMAIN q : q[i] # e
    BY DEF Range
  <1>4. QED
    BY <1>1, <1>2, <1>3 DEF IsInjective

\* Nor does it hold any more what was taken from it.
LEMMA QueueTail ==
  ASSUME NEW S, NEW q \in Seq(S), q # <<>>, IsInjective(q)
  PROVE  /\ Tail(q) \in Seq(S) /\ IsInjective(Tail(q))
         /\ Range(Tail(q)) = Range(q) \ {Head(q)}
         /\ Head(q) \in Range(q) /\ Head(q) \in S
  <1>1. /\ Len(q) \in Nat /\ Len(q) > 0 /\ DOMAIN q = 1 .. Len(q)
        /\ Head(q) = q[1] /\ Head(q) \in S
        /\ Tail(q) \in Seq(S) /\ DOMAIN Tail(q) = 1 .. Len(q) - 1
        /\ \A i \in 1 .. Len(q) - 1 : Tail(q)[i] = q[i + 1]
    BY HeadTailProperties, EmptySeq
  <1>2. IsInjective(Tail(q))
    BY <1>1 DEF IsInjective
  <1>3. \A i \in 2 .. Len(q) : q[i] # Head(q)
    BY <1>1 DEF IsInjective
  <1>4. Range(Tail(q)) \subseteq Range(q) \ {Head(q)}
    <2> SUFFICES ASSUME NEW x \in Range(Tail(q)) PROVE x \in Range(q) \ {Head(q)}
      OBVIOUS
    <2>1. PICK i \in 1 .. Len(q) - 1 : x = Tail(q)[i]
      BY <1>1 DEF Range
    <2>2. PICK j \in 2 .. Len(q) : x = q[j]
      <3>1. i + 1 \in 2 .. Len(q) /\ x = q[i + 1]
        BY <1>1, <2>1
      <3>2. QED
        BY <3>1
    <2>3. x \in Range(q) /\ x # Head(q)
      BY <1>1, <1>3, <2>2 DEF Range
    <2>4. QED
      BY <2>3
  <1>5. Range(q) \ {Head(q)} \subseteq Range(Tail(q))
    <2> SUFFICES ASSUME NEW x \in Range(q), x # Head(q) PROVE x \in Range(Tail(q))
      OBVIOUS
    <2>1. PICK i \in 1 .. Len(q) : x = q[i] /\ i # 1
      BY <1>1 DEF Range
    <2>2. i - 1 \in 1 .. Len(q) - 1 /\ x = Tail(q)[i - 1]
      BY <1>1, <2>1
    <2>3. i - 1 \in DOMAIN Tail(q)
      BY <1>1, <2>2
    <2>4. QED
      BY <2>2, <2>3 DEF Range
  <1>6. QED
    BY <1>1, <1>2, <1>4, <1>5 DEF Range

-------------------------------------------------------------------------------
\* The steps of a process on the files and its own way, which leave connections and
\* queues alone.
OnFiles(p) ==
  \/ ReadMetadata(p) \/ Check(p) \/ RemoveSocket(p) \/ RemoveMetadata(p)
  \/ Bind(p) \/ BeginMetadata(p) \/ WriteMetadata(p) \/ Restored(p)
  \/ Interrupt(p) \/ RemoveOwnSocket(p)

OnProcess(p) ==
  Begin(p) \/ Probe(p) \/ ProbeEnds(p) \/ OnFiles(p) \/ Serve(p) \/ Leave(p) \/ Crash(p)

Carries(e) == Carry(e) /\ UNCHANGED <<fileVars, history>>

\* The steps, as the proofs take them.
LEMMA StepCases ==
  ASSUME Next
  PROVE  \/ \E p \in Processes : OnProcess(p)
         \/ \E c \in Clients : \E kind \in Kinds : Ask(c, kind)
         \/ \E e \in Ends : Carries(e)
  BY DEF Next, Start, Stop, OnFiles, OnProcess, Carries

\* The queues hold what is queued, through every step.
LEMMA QueuesKept ==
  ASSUME Typed, Next
  PROVE  ConnsTyped' /\ QueuesTyped'
  <1> USE DEF Typed
  <1>1. ASSUME UNCHANGED <<conn, requests>>
        PROVE  ConnsTyped' /\ QueuesTyped'
    BY <1>1 DEF ConnsTyped, QueuesTyped, Queued
  <1>2. ASSUME NEW e \in Ends, UNCHANGED requests, ConnsTyped',
               \A x \in Ends \ {e} : conn'[x] = conn[x],
               conn[e].at # "queued", conn'[e].at # "queued"
        PROVE  ConnsTyped' /\ QueuesTyped'
    <2>1. \A p \in Processes : Queued(p)' = Queued(p)
      BY <1>2 DEF Queued
    <2>2. QED
      BY <1>2, <2>1 DEF QueuesTyped
  <1>3. ASSUME NEW e \in Ends, NEW kind \in Kinds, socket # None, Send(e, kind, socket),
               UNCHANGED requests
        PROVE  ConnsTyped' /\ QueuesTyped'
    <2>1. socket \in Processes
      BY <1>3 DEF FilesTyped
    <2>2. QED
      BY <1>2, <1>3, <2>1, Sends
  <1>4. ASSUME NEW p \in Processes, Probe(p) PROVE ConnsTyped' /\ QueuesTyped'
    BY <1>1, <1>3, <1>4 DEF Probe, Ends, Kinds
  <1>5. ASSUME NEW c \in Clients, NEW kind \in Kinds, Ask(c, kind)
        PROVE  ConnsTyped' /\ QueuesTyped'
    BY <1>3, <1>5 DEF Ask, Ends
  <1>6. ASSUME NEW p \in Processes, Begin(p) \/ ProbeEnds(p) \/ OnFiles(p)
        PROVE  ConnsTyped' /\ QueuesTyped'
    BY <1>1, <1>6 DEF Begin, ProbeEnds, OnFiles, ReadMetadata, Check, RemoveSocket,
                      RemoveMetadata, Bind, BeginMetadata, WriteMetadata, Restored,
                      Interrupt, RemoveOwnSocket
  <1>7. ASSUME NEW e \in Ends, Take(e) PROVE ConnsTyped' /\ QueuesTyped'
    <2> DEFINE p == conn[e].to
    <2>1. conn[e].at = "sent" /\ Moves(e, "queued")
      BY <1>7 DEF Take
    <2>2. /\ ConnsTyped' /\ p \in Processes /\ conn'[e].to = p /\ conn'[e].at = "queued"
          /\ \A x \in Ends \ {e} : conn'[x] = conn[x]
      BY <2>1, MovesOn DEF Ats, Open
    <2>3. requests' = [requests EXCEPT ![p] = Append(@, e)]
      BY <1>7 DEF Take
    <2>4. Queued(p)' = Queued(p) \cup {e} /\ e \notin Queued(p)
      BY <2>1, <2>2 DEF Queued
    <2>5. \A q \in Processes \ {p} : Queued(q)' = Queued(q) /\ requests'[q] = requests[q]
      BY <2>1, <2>2, <2>3 DEF Queued, QueuesTyped
    <2>6. requests'[p] = Append(requests[p], e) /\ requests[p] \in Seq(Ends)
      BY <2>2, <2>3 DEF QueuesTyped
    <2>7. /\ requests'[p] \in Seq(Ends) /\ IsInjective(requests'[p])
          /\ Range(requests'[p]) = Queued(p)'
      BY <2>2, <2>4, <2>6, QueueAppend DEF QueuesTyped
    <2>8. requests' \in [Processes -> Seq(Ends)]
      BY <2>2, <2>3, <2>6, <2>7 DEF QueuesTyped
    <2>9. QED
      BY <2>2, <2>5, <2>7, <2>8 DEF QueuesTyped
  <1>8. ASSUME NEW p \in Processes, Serve(p) PROVE ConnsTyped' /\ QueuesTyped'
    <2> DEFINE e == Head(requests[p])
    <2>1. requests[p] # <<>> /\ requests' = [requests EXCEPT ![p] = Tail(@)]
      BY <1>8 DEF Serve, Handle
    <2>2. /\ Tail(requests[p]) \in Seq(Ends) /\ IsInjective(Tail(requests[p]))
          /\ Range(Tail(requests[p])) = Queued(p) \ {e} /\ e \in Queued(p) /\ e \in Ends
      BY <2>1, QueueTail DEF QueuesTyped
    <2>3. Moves(e, "answering") \/ Moves(e, "streaming")
      BY <1>8 DEF Serve, Handle
    <2>4. /\ ConnsTyped' /\ conn'[e].at # "queued"
          /\ \A x \in Ends \ {e} : conn'[x] = conn[x]
      BY <2>2, <2>3, MovesOn DEF Ats, Open, Queued
    <2>5. Queued(p)' = Queued(p) \ {e}
      BY <2>2, <2>4 DEF Queued
    <2>6. \A q \in Processes \ {p} : Queued(q)' = Queued(q) /\ requests'[q] = requests[q]
      <3>1. \A q \in Processes \ {p} : requests'[q] = requests[q]
        BY <2>1 DEF QueuesTyped
      <3>2. conn[e].to = p
        BY <2>2 DEF Queued
      <3>3. \A q \in Processes \ {p} : e \notin Queued(q) /\ e \notin Queued(q)'
        BY <2>4, <3>2 DEF Queued
      <3>4. \A q \in Processes \ {p} : Queued(q)' = Queued(q)
        BY <2>4, <3>3 DEF Queued
      <3>5. QED
        BY <3>1, <3>4
    <2>7. requests' \in [Processes -> Seq(Ends)] /\ requests'[p] = Tail(requests[p])
      BY <2>1, <2>2 DEF QueuesTyped
    <2>8. QED
      BY <2>2, <2>4, <2>5, <2>6, <2>7 DEF QueuesTyped
  <1>9. ASSUME NEW e \in Ends, Reply(e) \/ Reset(e) PROVE ConnsTyped' /\ QueuesTyped'
    <2>1. /\ conn[e].at \in {"answering", "sent"} /\ UNCHANGED requests
          /\ Moves(e, "answered") \/ Moves(e, "closed")
      BY <1>9 DEF Reply, Reset
    <2>2. /\ ConnsTyped' /\ \A x \in Ends \ {e} : conn'[x] = conn[x]
          /\ conn'[e].at \in {"answered", "closed"}
      BY <2>1, MovesOn DEF Ats
    <2>3. QED
      BY <1>2, <2>1, <2>2
  <1>10. ASSUME NEW p \in Processes, Closing(p) PROVE ConnsTyped' /\ QueuesTyped'
    <2>1. Queued(p)' = {}
      BY <1>10, Closes DEF Queued, Open
    <2>2. \A q \in Processes \ {p} : Queued(q)' = Queued(q)
      BY <1>10, Closes DEF Queued, Open
    <2>3. requests' = [requests EXCEPT ![p] = <<>>]
      BY <1>10 DEF Closing
    <2>4. <<>> \in Seq(Ends) /\ IsInjective(<<>>) /\ Range(<<>>) = {}
      BY DEF IsInjective, Range
    <2>5. requests' \in [Processes -> Seq(Ends)] /\ requests'[p] = <<>>
      BY <2>3, <2>4 DEF QueuesTyped
    <2>6. \A q \in Processes \ {p} : requests'[q] = requests[q]
      BY <2>3 DEF QueuesTyped
    <2>7. ConnsTyped'
      BY <1>10, Closes
    <2>8. QED
      BY <2>1, <2>2, <2>4, <2>5, <2>6, <2>7 DEF QueuesTyped
  <1>11. QED
    BY <1>4, <1>5, <1>6, <1>7, <1>8, <1>9, <1>10, StepCases
       DEF OnProcess, Carries, Carry, Leave, Crash

\* The files and the histories stay what they are, and a process goes from one
\* phase to another.
LEMMA FilesKept ==
  ASSUME Typed, Next
  PROVE  FilesTyped' /\ HistoryTyped'
  <1>1. ASSUME NEW p \in Processes, NEW to \in Phases, Goes(p, to)
        PROVE  phase' \in [Processes -> Phases]
    BY <1>1 DEF Goes, Typed, FilesTyped
  <1>2. ASSUME NEW p \in Processes, Handle(p)
        PROVE  phase' \in [Processes -> Phases]
    BY <1>2 DEF Handle, Typed, FilesTyped, Phases
  <1>3. ASSUME NEW p \in Processes, Begin(p) PROVE FilesTyped' /\ HistoryTyped'
    BY <1>1, <1>3 DEF Begin, Phases, Typed, FilesTyped, HistoryTyped, fileVars, Alive
  <1>4. ASSUME NEW p \in Processes, Probe(p) \/ ProbeEnds(p)
        PROVE  FilesTyped' /\ HistoryTyped'
    BY <1>1, <1>4 DEF Probe, ProbeEnds, Phases, Over, Typed, FilesTyped, HistoryTyped,
                      fileVars, history
  <1>5. ASSUME NEW p \in Processes, ReadMetadata(p) \/ Check(p) \/ RemoveSocket(p)
        PROVE  FilesTyped' /\ HistoryTyped'
    BY <1>1, <1>5 DEF ReadMetadata, Check, RemoveSocket, Phases, Over, Typed, FilesTyped,
                      HistoryTyped, fileVars, history
  <1>6. ASSUME NEW p \in Processes,
               RemoveMetadata(p) \/ Bind(p) \/ BeginMetadata(p) \/ WriteMetadata(p)
        PROVE  FilesTyped' /\ HistoryTyped'
    BY <1>1, <1>6 DEF RemoveMetadata, Bind, BeginMetadata, WriteMetadata, Phases, Over,
                      Typed, FilesTyped, HistoryTyped, fileVars, history
  <1>7. ASSUME NEW p \in Processes,
               Restored(p) \/ Interrupt(p) \/ RemoveOwnSocket(p) \/ Leave(p) \/ Crash(p)
        PROVE  FilesTyped' /\ HistoryTyped'
    BY <1>1, <1>7 DEF Restored, Interrupt, RemoveOwnSocket, Leave, Crash, Phases, Over,
                      Typed, FilesTyped, HistoryTyped, fileVars, history
  <1>8. ASSUME NEW p \in Processes, Serve(p) PROVE FilesTyped' /\ HistoryTyped'
    BY <1>2, <1>8 DEF Serve, Typed, FilesTyped, HistoryTyped, fileVars
  <1>9. ASSUME UNCHANGED <<phase, fileVars, history>> PROVE FilesTyped' /\ HistoryTyped'
    BY <1>9 DEF Typed, FilesTyped, HistoryTyped, fileVars, history
  <1>10. QED
    BY <1>3, <1>4, <1>5, <1>6, <1>7, <1>8, <1>9, StepCases
       DEF OnProcess, OnFiles, Ask, Carries, Carry, Take, Reply, Reset, history

\* The parts make up the type invariant.
LEMMA TypedImplies == Typed => LocalTypeOK
  BY DEF Typed, ConnsTyped, QueuesTyped, FilesTyped, HistoryTyped, LocalTypeOK, Links, Ats,
         Queued

\* At first nobody runs, and nothing is queued.
LEMMA TypedInitially == ASSUME Init PROVE Typed
  <1>1. ConnsTyped /\ \A p \in Processes : Queued(p) = {}
    BY DEF Init, LocalInit, ConnsTyped, Queued, NoConnection
  <1>2. <<>> \in Seq(Ends) /\ IsInjective(<<>>) /\ Range(<<>>) = {}
    BY DEF IsInjective, Range
  <1>3. QueuesTyped
    <2>1. requests = [p \in Processes |-> <<>>]
      BY DEF Init, LocalInit
    <2>2. requests \in [Processes -> Seq(Ends)]
      BY <1>2, <2>1
    <2>3. \A p \in Processes : requests[p] = <<>>
      BY <2>1
    <2>4. QED
      BY <1>1, <1>2, <2>2, <2>3 DEF QueuesTyped
  <1>4. FilesTyped
    BY DEF FilesTyped, Init, LocalInit, Phases
  <1>5. HistoryTyped
    BY DEF HistoryTyped, Init
  <1>6. QED
    BY <1>1, <1>3, <1>4, <1>5 DEF Typed

-------------------------------------------------------------------------------
\* Before it binds a process may take what others have left; after that it only
\* goes on to its end.
Past(p) == phase[p] \in {"reading", "checking", "removing", "removed", "binding"}
HasBound(p) == Listening(p) \/ Stopping(p) \/ phase[p] = "ended"

\* The part of this where it does take them.
Taking(p) == phase[p] \in {"removing", "removed", "binding"}

\* The way of a process through its phases, and what its step means for the others.
OnItsWay(p) ==
  /\ HasBound(p) => HasBound(p)'
  /\ Alive(p)' /\ ~Alive(p) => Begin(p)
  /\ Starting(p)' /\ ~Starting(p) => Begin(p)
  /\ Listening(p)' /\ ~Listening(p) => Bind(p) /\ socket = None /\ socket' = p
  /\ Past(p)' /\ ~Past(p) => phase[p] = "probing" /\ (Probe(p) \/ ProbeEnds(p))
  /\ phase'[p] = "checking" /\ phase[p] # "checking" => ReadMetadata(p)
  /\ Taking(p)' /\ ~Taking(p) => Check(p)
  /\ Stopping(p)' /\ ~Stopping(p) => Serve(p) \/ Interrupt(p)
  /\ phase[p] = "ended" => phase'[p] = "ended"

\* Every step keeps every process on its way.
LEMMA Ways ==
  ASSUME Typed, Next
  PROVE  \A p \in Processes : OnItsWay(p)
  <1> USE DEF OnItsWay, HasBound, Alive, Starting, Stopping, Listening, Past, Taking, Over
  <1>1. ASSUME NEW p \in Processes, UNCHANGED phase PROVE OnItsWay(p)
    BY <1>1
  <1>2. ASSUME NEW p \in Processes, NEW to, Goes(p, to), NEW q \in Processes, q # p
        PROVE  OnItsWay(q)
    <2>1. phase'[q] = phase[q]
      BY <1>2 DEF Goes, Typed, FilesTyped
    <2>2. QED
      BY <2>1
  <1>3. ASSUME NEW p \in Processes, NEW to, Goes(p, to) PROVE phase'[p] = to
    BY <1>3 DEF Goes, Typed, FilesTyped
  <1>4. ASSUME NEW p \in Processes, Begin(p) PROVE \A q \in Processes : OnItsWay(q)
    <2>1. phase[p] = "off" /\ Goes(p, "probing")
      BY <1>4 DEF Begin
    <2>2. phase'[p] = "probing"
      BY <1>3, <2>1
    <2>3. OnItsWay(p)
      BY <1>4, <2>1, <2>2
    <2>4. QED
      BY <1>2, <2>1, <2>3
  <1>5. ASSUME NEW p \in Processes, Probe(p) \/ ProbeEnds(p)
        PROVE  \A q \in Processes : OnItsWay(q)
    <2>1. CASE Probe(p)
      BY <1>1, <1>2, <1>3, <2>1 DEF Probe
    <2>2. CASE ProbeEnds(p)
      BY <1>1, <1>2, <1>3, <2>2 DEF ProbeEnds
    <2>3. QED
      BY <1>5, <2>1, <2>2
  <1>6. ASSUME NEW p \in Processes, ReadMetadata(p) \/ Check(p) \/ RemoveSocket(p)
        PROVE  \A q \in Processes : OnItsWay(q)
    BY <1>2, <1>3, <1>6 DEF ReadMetadata, Check, RemoveSocket
  <1>7. ASSUME NEW p \in Processes, RemoveMetadata(p) \/ Bind(p) \/ BeginMetadata(p)
        PROVE  \A q \in Processes : OnItsWay(q)
    BY <1>2, <1>3, <1>7 DEF RemoveMetadata, Bind, BeginMetadata
  <1>8. ASSUME NEW p \in Processes,
               \/ WriteMetadata(p) \/ Restored(p) \/ Interrupt(p) \/ RemoveOwnSocket(p)
               \/ Leave(p) \/ Crash(p)
        PROVE  \A q \in Processes : OnItsWay(q)
    BY <1>2, <1>3, <1>8 DEF WriteMetadata, Restored, Interrupt, RemoveOwnSocket, Leave, Crash
  <1>9. ASSUME NEW p \in Processes, Serve(p)
        PROVE  \A q \in Processes : OnItsWay(q)
    BY <1>1, <1>9 DEF Serve, Handle, Typed, FilesTyped
  <1>10. QED
    BY <1>1, <1>4, <1>5, <1>6, <1>7, <1>8, <1>9, StepCases
       DEF OnProcess, OnFiles, Ask, Carries, Carry, Take, Reply, Reset

-------------------------------------------------------------------------------
\* Who has crashed is at its end.
CrashedEnded == \A p \in crashed : phase[p] = "ended"

\* Of two that run both have company.
InCompany ==
  \A p, q \in Processes : Alive(p) /\ Alive(q) /\ p # q => p \in company

\* A connection leads to a process that has bound its socket, and is closed only
\* when that one does not listen any more.  A process that has pinged another one
\* had its company.
Connected ==
  /\ \A e \in Ends : conn[e] # NoConnection =>
       /\ HasBound(conn[e].to)
       /\ conn[e].at = "closed" => ~Listening(conn[e].to)
  /\ \A p \in Processes : conn[p] # NoConnection => p \in company
  /\ \A p \in Processes : found[p] # None => HasBound(found[p])

\* A process that has crashed has ended, and stays so.
LEMMA CrashedKept ==
  ASSUME Typed, Next, CrashedEnded
  PROVE  CrashedEnded'
  <1>1. \A p \in crashed : phase'[p] = "ended"
    BY Ways DEF OnItsWay, CrashedEnded, Typed, HistoryTyped
  <1>2. ASSUME NEW p \in Processes, Crash(p) PROVE CrashedEnded'
    BY <1>1, <1>2 DEF Crash, Goes, CrashedEnded, Typed, FilesTyped
  <1>3. ASSUME UNCHANGED crashed PROVE CrashedEnded'
    BY <1>1, <1>3 DEF CrashedEnded
  <1>4. QED
    BY <1>2, <1>3, StepCases
       DEF OnProcess, OnFiles, Carries, Ask, Begin, Probe, ProbeEnds, ReadMetadata, Check,
           RemoveSocket, RemoveMetadata, Bind, BeginMetadata, WriteMetadata, Restored,
           Serve, Interrupt, RemoveOwnSocket, Leave, history

\* The company grows.
LEMMA CompanyGrows ==
  ASSUME Typed, Next
  PROVE  /\ company \subseteq company'
         /\ raced => raced'
         /\ crashed \subseteq crashed'
  <1>1. company \subseteq company' /\ crashed \subseteq crashed'
    BY StepCases
       DEF OnProcess, OnFiles, Carries, Ask, Begin, Probe, ProbeEnds, ReadMetadata, Check,
           RemoveSocket, RemoveMetadata, Bind, BeginMetadata, WriteMetadata, Restored,
           Serve, Interrupt, RemoveOwnSocket, Leave, Crash, history
  <1>2. ASSUME NEW p \in Processes, OnProcess(p) PROVE raced => raced'
    <2>1. CASE UNCHANGED raced
      BY <2>1
    <2>2. CASE Begin(p)
      BY <2>2, Zenon DEF Begin
    <2>3. CASE Serve(p)
      BY <2>3, Zenon DEF Serve
    <2>4. CASE Interrupt(p)
      BY <2>4, Zenon DEF Interrupt
    <2>5. QED
      BY <1>2, <2>1, <2>2, <2>3, <2>4
         DEF OnProcess, OnFiles, Probe, ProbeEnds, ReadMetadata, Check, RemoveSocket,
             RemoveMetadata, Bind, BeginMetadata, WriteMetadata, Restored, RemoveOwnSocket,
             Leave, Crash, history
  <1>3. QED
    BY <1>1, <1>2, StepCases DEF Carries, Ask, history

\* Two processes that run at once have both begun, the second beside the first.
LEMMA CompanyKept ==
  ASSUME Typed, Next, InCompany
  PROVE  InCompany'
  <1> SUFFICES ASSUME NEW p \in Processes, NEW q \in Processes, Alive(p)', Alive(q)', p # q
               PROVE  p \in company'
    BY DEF InCompany
  <1>1. CASE Begin(p)
    <2>1. Alive(q)
      BY <1>1 DEF Begin, Goes, Typed, FilesTyped, Alive
    <2>2. QED
      BY <1>1, <2>1 DEF Begin
  <1>2. CASE Begin(q)
    <2>1. Alive(p)
      BY <1>2 DEF Begin, Goes, Typed, FilesTyped, Alive
    <2>2. QED
      BY <1>2, <2>1 DEF Begin
  <1>3. CASE ~Begin(p) /\ ~Begin(q)
    BY <1>3, Ways, CompanyGrows DEF OnItsWay, InCompany
  <1>4. QED
    BY <1>1, <1>2, <1>3

\* A connection is made to a process that listens, and is closed only with it.
LEMMA ConnectedKept ==
  ASSUME Typed, Next, FilesHaveOwners, CrashedEnded, InCompany, Connected
  PROVE  Connected'
  <1>1. socket # None => socket \in Processes /\ HasBound(socket)
    BY DEF FilesHaveOwners, CrashedEnded, HasBound, Stopping, Typed, FilesTyped
  <1>2. \A p \in Processes : HasBound(p) => HasBound(p)' /\ (Listening(p)' => Listening(p))
    BY Ways DEF OnItsWay, Bind, HasBound, Listening, Stopping
  <1>3. \A e \in Ends : conn[e] # NoConnection => conn[e].to \in Processes
    BY DEF Typed, ConnsTyped, Links
  <1>4. ASSUME UNCHANGED <<conn, found>> PROVE Connected'
    BY <1>2, <1>3, <1>4, CompanyGrows DEF Connected, Typed, HistoryTyped
  <1>5. ASSUME NEW p \in Processes, Begin(p) PROVE Connected'
    <2>1. UNCHANGED conn /\ found' = [found EXCEPT ![p] = socket]
      BY <1>5 DEF Begin
    <2>2. \A q \in Processes : (found[q] # None => HasBound(found[q]))'
      BY <1>1, <1>2, <2>1 DEF Connected, Typed, HistoryTyped
    <2>3. QED
      BY <1>2, <1>3, <2>1, <2>2, CompanyGrows DEF Connected
  <1>6. ASSUME NEW e \in Ends, UNCHANGED found,
               \A x \in Ends \ {e} : conn'[x] = conn[x],
               conn'[e] # NoConnection =>
                 /\ conn'[e].to \in Processes /\ HasBound(conn'[e].to)
                 /\ conn'[e].at = "closed" => ~Listening(conn'[e].to)
                 /\ e \in Processes => e \in company
        PROVE  Connected'
    BY <1>2, <1>3, <1>6, CompanyGrows DEF Connected, Typed, HistoryTyped, Ends
  <1>7. ASSUME NEW e \in Ends, NEW kind \in Kinds, socket # None,
               Send(e, kind, socket), UNCHANGED found, e \in Processes => e \in company
        PROVE  Connected'
    <2>1. /\ conn'[e].to = socket /\ conn'[e].at = "sent"
          /\ \A x \in Ends \ {e} : conn'[x] = conn[x]
      BY <1>1, <1>7, Sends DEF Typed
    <2>2. QED
      BY <1>1, <1>6, <1>7, <2>1
  <1>8. ASSUME NEW p \in Processes, Probe(p) PROVE Connected'
    <2>1. CASE socket # None /\ Listening(socket)
      <3>1. p \in company
        BY <1>1, <1>8, <2>1 DEF Probe, InCompany, Alive, Listening, Over
      <3>2. QED
        BY <1>7, <1>8, <2>1, <3>1 DEF Probe, Kinds, Ends, history
    <2>2. CASE ~(socket # None /\ Listening(socket))
      BY <1>4, <1>8, <2>2 DEF Probe, history
    <2>3. QED
      BY <2>1, <2>2
  <1>8a. ASSUME NEW p \in Processes, ProbeEnds(p) PROVE Connected'
    <2>1. /\ UNCHANGED conn
          /\ found' = found \/ found' = [found EXCEPT ![p] = None]
      BY <1>8a DEF ProbeEnds
    <2>2. \A q \in Processes : (found[q] # None => HasBound(found[q]))'
      BY <1>2, <2>1 DEF Connected, Typed, HistoryTyped
    <2>3. QED
      BY <1>2, <1>3, <2>1, <2>2, CompanyGrows DEF Connected
  <1>9. ASSUME NEW c \in Clients, NEW kind \in Kinds, Ask(c, kind) PROVE Connected'
    BY <1>7, <1>9, LocalAssumption DEF Ask, Ends, history
  <1>10. ASSUME NEW e \in Ends, NEW at \in Ats, conn[e].at # "none", Moves(e, at),
                at = "closed" => ~Listening(conn[e].to), UNCHANGED found
         PROVE  Connected'
    <2>1. /\ \A x \in Ends \ {e} : conn'[x] = conn[x]
          /\ conn'[e].to = conn[e].to /\ conn'[e].at = at
          /\ conn[e].to \in Processes /\ conn[e] # NoConnection
      BY <1>10, MovesOn DEF Typed
    <2>2. HasBound(conn[e].to) /\ (e \in Processes => e \in company)
      BY <2>1 DEF Connected
    <2>3. QED
      BY <1>6, <1>10, <2>1, <2>2
  <1>11. ASSUME NEW e \in Ends, Carries(e) PROVE Connected'
    <2>1. /\ conn[e].at # "none" /\ UNCHANGED found
          /\ \/ Moves(e, "queued") \/ Moves(e, "answered")
             \/ Moves(e, "closed") /\ ~Listening(conn[e].to)
      BY <1>11 DEF Carries, Carry, Take, Reply, Reset, Listening, history
    <2>2. QED
      BY <1>10, <2>1 DEF Ats, Open
  <1>12. ASSUME NEW p \in Processes, Serve(p) PROVE Connected'
    <2> DEFINE e == Head(requests[p])
    <2>1. /\ Moves(e, "answering") \/ Moves(e, "streaming")
          /\ requests[p] # <<>> /\ UNCHANGED found
      BY <1>12 DEF Serve, Handle
    <2>2. e \in Ends /\ conn[e].at = "queued"
      BY <2>1, QueueTail DEF Typed, QueuesTyped, Queued
    <2>3. QED
      BY <1>10, <2>1, <2>2 DEF Ats, Open
  <1>13. ASSUME NEW p \in Processes, Leave(p) \/ Crash(p) PROVE Connected'
    <2>1. /\ Closing(p) /\ UNCHANGED found /\ ~Listening(p)'
      BY <1>13 DEF Leave, Crash, history, Goes, Typed, FilesTyped, Listening
    <2>2. QED
      BY <1>2, <1>3, <2>1, Closes, CompanyGrows DEF Connected, Typed, HistoryTyped, Ends
  <1>14. QED
    BY <1>4, <1>5, <1>8, <1>8a, <1>9, <1>11, <1>12, <1>13, StepCases
       DEF OnProcess, OnFiles, ReadMetadata, Check,
           RemoveSocket, RemoveMetadata, Bind, BeginMetadata, WriteMetadata, Restored,
           Interrupt, RemoveOwnSocket, history

-------------------------------------------------------------------------------
\* As long as nothing has raced, no start overlaps another one or an end.
NoOverlap ==
  ~raced =>
    \A p, q \in Processes : Starting(p) /\ (Starting(q) \/ Stopping(q)) => p = q

\* Then metadata that is being written stays where its writer has opened it, and
\* afterwards it names the daemon.
WriterNamed ==
  ~raced =>
    \A p \in Processes :
      /\ phase[p] = "writing" => p \in writers /\ metadata = Torn
      /\ phase[p] \in {"restoring", "serving"} => metadata = p

\* A daemon that listens is not disturbed: the other processes, if any, ping it or
\* read that it runs.
NobodyElse ==
  ~raced =>
    \A p, q \in Processes : Listening(p) /\ p # q =>
      /\ ~Taking(q) /\ ~Stopping(q)
      /\ phase[q] = "checking" => seen[q] = p

\* Every start that overlaps another one or an end is recorded as a race.
LEMMA NoOverlapKept ==
  ASSUME Typed, Next, NoOverlap
  PROVE  NoOverlap'
  <1> SUFFICES ASSUME ~raced', NEW p \in Processes, NEW q \in Processes, p # q,
                      Starting(p)', Starting(q)' \/ Stopping(q)'
               PROVE  FALSE
    BY DEF NoOverlap
  <1>1. ~raced
    BY CompanyGrows, Zenon
  <1>2. CASE Begin(p)
    <2>1. Alive(q) /\ (Starting(q) \/ Stopping(q))
      BY <1>2 DEF Begin, Goes, Typed, FilesTyped, Starting, Stopping, Alive, Over
    <2>2. QED
      BY <1>2, <2>1 DEF Begin
  <1>3. CASE Begin(q)
    <2>1. phase'[q] = "probing" /\ Alive(p) /\ Starting(p)
      BY <1>3 DEF Begin, Goes, Typed, FilesTyped, Starting, Stopping, Alive, Over
    <2>2. QED
      BY <1>3, <2>1 DEF Begin
  <1>4. CASE (Serve(q) \/ Interrupt(q)) /\ Stopping(q)'
    <2>1. Starting(p)
      BY <1>4 DEF Serve, Handle, Interrupt, Goes, Typed, FilesTyped, Starting, Alive, Over
    <2>2. QED
      BY <1>4, <2>1 DEF Serve, Interrupt
  <1>5. CASE ~Begin(p) /\ ~Begin(q) /\ ~((Serve(q) \/ Interrupt(q)) /\ Stopping(q)')
    <2>1. Starting(p) /\ (Starting(q) \/ Stopping(q))
      BY <1>5, Ways DEF OnItsWay
    <2>2. QED
      BY <1>1, <2>1 DEF NoOverlap
  <1>6. QED
    BY <1>2, <1>3, <1>4, <1>5

\* The step of one process leaves the others where they are.
LEMMA OthersStay ==
  ASSUME Typed, NEW p \in Processes, OnProcess(p), NEW q \in Processes, q # p
  PROVE  phase'[q] = phase[q]
  BY DEF OnProcess, OnFiles, Goes, Typed, FilesTyped, Begin, Probe, ProbeEnds, ReadMetadata,
         Check, RemoveSocket, RemoveMetadata, Bind, BeginMetadata, WriteMetadata, Restored,
         Serve, Handle, Interrupt, RemoveOwnSocket, Leave, Crash

\* No step leads back to the phases before the ping.
LEMMA NoWayBack ==
  ASSUME Typed, Next, NEW p \in Processes
  PROVE  /\ phase[p] # "off" => phase'[p] # "off"
         /\ phase'[p] = "probing" => Begin(p) \/ phase[p] = "probing"
  <1>1. ASSUME NEW to, Goes(p, to) PROVE phase'[p] = to
    BY <1>1 DEF Goes, Typed, FilesTyped
  <1>2. CASE phase'[p] = phase[p]
    BY <1>2
  <1>3. CASE OnFiles(p)
    BY <1>1, <1>3 DEF OnFiles, ReadMetadata, Check, RemoveSocket, RemoveMetadata, Bind,
                      BeginMetadata, WriteMetadata, Restored, Interrupt, RemoveOwnSocket
  <1>4. CASE Begin(p)
    BY <1>1, <1>4 DEF Begin
  <1>5. CASE Probe(p)
    BY <1>1, <1>2, <1>5 DEF Probe
  <1>6. CASE ProbeEnds(p)
    BY <1>1, <1>6 DEF ProbeEnds
  <1>7. CASE Serve(p)
    <2>1. phase' = phase \/ Goes(p, "stopping")
      BY <1>7 DEF Serve, Handle, Goes
    <2>2. QED
      BY <1>1, <1>2, <2>1
  <1>8. CASE Leave(p) \/ Crash(p)
    BY <1>1, <1>8 DEF Leave, Crash
  <1>9. CASE \E c \in Clients : \E kind \in Kinds : Ask(c, kind)
    BY <1>2, <1>9 DEF Ask
  <1>10. CASE \E e \in Ends : Carries(e)
    BY <1>2, <1>10 DEF Carries, Carry, Take, Reply, Reset
  <1>11. CASE \E q \in Processes : q # p /\ OnProcess(q)
    BY <1>2, <1>11, OthersStay
  <1>12. CASE OnProcess(p)
    BY <1>3, <1>4, <1>5, <1>6, <1>7, <1>8, <1>12 DEF OnProcess
  <1>13. QED
    BY <1>9, <1>10, <1>11, <1>12, StepCases

\* Without races nobody else writes or removes the metadata of a daemon that listens.
LEMMA WriterKept ==
  ASSUME Typed, Next, NoOverlap, OneServer, NobodyElse, WriterNamed
  PROVE  WriterNamed'
  <1> DEFINE Named(p) == /\ phase[p] = "writing" => p \in writers /\ metadata = Torn
                         /\ phase[p] \in {"restoring", "serving"} => metadata = p
  <1> SUFFICES ASSUME ~raced', NEW p \in Processes PROVE Named(p)'
    BY DEF WriterNamed
  <1>1. ~raced
    BY CompanyGrows, Zenon
  <1>2. Named(p)
    BY <1>1 DEF WriterNamed
  <1>3. ASSUME UNCHANGED <<writers, metadata>>, phase'[p] = phase[p] PROVE Named(p)'
    BY <1>2, <1>3
  <1>4. ASSUME UNCHANGED phase, UNCHANGED fileVars PROVE Named(p)'
    BY <1>2, <1>4 DEF fileVars
  <1>5. ASSUME OnProcess(p) PROVE Named(p)'
    <2>1. CASE phase'[p] \notin {"writing", "restoring", "serving"}
      BY <2>1
    <2>2. CASE BeginMetadata(p)
      BY <2>2 DEF BeginMetadata, Goes, Typed, FilesTyped
    <2>3. CASE WriteMetadata(p)
      BY <1>2, <2>3 DEF WriteMetadata, Goes, Typed, FilesTyped
    <2>4. CASE Restored(p)
      BY <1>2, <2>4 DEF Restored, Goes, Typed, FilesTyped, fileVars
    <2>5. CASE Serve(p) /\ UNCHANGED phase
      BY <1>4, <2>5 DEF Serve
    <2>6. QED
      BY <1>5, <2>1, <2>2, <2>3, <2>4, <2>5
         DEF OnProcess, OnFiles, Goes, Typed, FilesTyped, Begin, Probe, ProbeEnds,
             ReadMetadata, Check, RemoveSocket, RemoveMetadata, Bind, Serve, Handle,
             Interrupt, RemoveOwnSocket, Leave, Crash
  <1>6. ASSUME NEW q \in Processes, q # p, OnProcess(q) PROVE Named(p)'
    <2>1. phase'[p] = phase[p]
      BY <1>6, OthersStay
    <2>2. CASE phase[p] \notin {"writing", "restoring", "serving"}
      BY <2>1, <2>2
    <2>3. CASE phase[p] \in {"writing", "restoring", "serving"}
      <3>1. Listening(p)
        BY <2>3 DEF Listening
      <3>2. ~Taking(q) /\ ~Stopping(q) /\ ~Listening(q)
        BY <1>1, <1>6, <3>1 DEF NobodyElse, OneServer
      <3>3. UNCHANGED <<writers, metadata>>
        BY <1>6, <3>2
           DEF OnProcess, OnFiles, Begin, Probe, ProbeEnds, ReadMetadata, Check,
               RemoveSocket, RemoveMetadata, Bind, BeginMetadata, WriteMetadata, Restored,
               Serve, Interrupt, RemoveOwnSocket, Leave, Crash, fileVars, Taking, Stopping,
               Listening
      <3>4. QED
        BY <1>3, <2>1, <3>3
    <2>4. QED
      BY <2>2, <2>3
  <1>7. QED
    BY <1>4, <1>5, <1>6, StepCases
       DEF Ask, Carries, Carry, Take, Reply, Reset

\* The parts of FilesHaveOwners.
SocketOwned ==
  socket # None =>
    socket \in crashed \/ Listening(socket) \/ phase[socket] = "stopping"
MetadataOwned ==
  metadata \in Processes =>
    \/ metadata \in crashed
    \/ phase[metadata] \in {"restoring", "serving", "stopping", "leaving"}
TornFor == raced \/ crashed # {} \/ \E p \in Processes : phase[p] = "writing"

\* Files are left by those who have crashed only.
LEMMA FilesOwnedKept ==
  ASSUME Typed, Next, NoOverlap, WriterNamed, CrashedEnded, FilesHaveOwners
  PROVE  FilesHaveOwners'
  <1>1. SocketOwned /\ MetadataOwned /\ (metadata = Torn => TornFor)
    BY DEF FilesHaveOwners, SocketOwned, MetadataOwned, TornFor
  <1>2. ASSUME UNCHANGED phase, UNCHANGED fileVars PROVE FilesHaveOwners'
    BY <1>2, CompanyGrows DEF FilesHaveOwners, fileVars, Listening
  <1>3. ASSUME NEW p \in Processes, OnProcess(p) PROVE FilesHaveOwners'
    <2>1. SocketOwned'
      <3>1. CASE socket' = None
        BY <3>1 DEF SocketOwned
      <3>2. CASE Bind(p) /\ socket = None /\ socket' = p
        BY <3>2 DEF Bind, Goes, Typed, FilesTyped, Listening, SocketOwned
      <3>3. CASE socket' = socket /\ socket # None
        <4>2. CASE socket # p
          BY <1>1, <1>3, <3>3, <4>2, OthersStay, CompanyGrows
             DEF Typed, FilesTyped, Listening, SocketOwned
        <4>3. CASE socket = p
          BY <1>1, <1>3, <3>3, <4>3
             DEF OnProcess, OnFiles, Goes, Typed, FilesTyped, Begin, Probe, ProbeEnds,
                 ReadMetadata, Check, RemoveSocket, RemoveMetadata, Bind, BeginMetadata,
                 WriteMetadata, Restored, Serve, Handle, Interrupt, RemoveOwnSocket, Leave,
                 Crash, history, Listening, CrashedEnded, SocketOwned
        <4>4. QED
          BY <4>2, <4>3
      <3>4. QED
        BY <1>1, <1>3, <3>1, <3>2, <3>3
           DEF OnProcess, OnFiles, Begin, Probe, ProbeEnds, ReadMetadata, Check,
               RemoveSocket, RemoveMetadata, Bind, BeginMetadata, WriteMetadata, Restored,
               Serve, Interrupt, RemoveOwnSocket, Leave, Crash, fileVars
    <2>2. \/ metadata' = metadata \/ metadata' = None
          \/ BeginMetadata(p) /\ metadata' = Torn
          \/ WriteMetadata(p)
      BY <1>3
         DEF OnProcess, OnFiles, Begin, Probe, ProbeEnds, ReadMetadata, Check,
             RemoveSocket, RemoveMetadata, Bind, BeginMetadata, WriteMetadata, Restored,
             Serve, Interrupt, RemoveOwnSocket, Leave, Crash, fileVars
    <2>3. MetadataOwned'
      <3>1. CASE metadata' \in {None, Torn}
        BY <3>1, LocalAssumption, StartAssumption DEF Ends, MetadataOwned
      <3>2. CASE WriteMetadata(p) /\ metadata' = p
        BY <3>2 DEF WriteMetadata, Goes, Typed, FilesTyped, MetadataOwned
      <3>3. CASE metadata' = metadata /\ metadata \in Processes
        <4>2. CASE metadata # p
          BY <1>1, <1>3, <3>3, <4>2, OthersStay, CompanyGrows DEF MetadataOwned
        <4>3. CASE metadata = p
          BY <1>1, <1>3, <3>3, <4>3, LocalAssumption
             DEF OnProcess, OnFiles, Goes, Typed, FilesTyped, Begin, Probe, ProbeEnds,
                 ReadMetadata, Check, RemoveSocket, RemoveMetadata, Bind, BeginMetadata,
                 WriteMetadata, Restored, Serve, Handle, Interrupt, RemoveOwnSocket, Leave,
                 Crash, history, CrashedEnded, MetadataOwned
        <4>4. QED
          BY <4>2, <4>3
      <3>4. QED
        BY <3>1, <3>2, <3>3, <2>2 DEF WriteMetadata, Typed, FilesTyped
    <2>4. (metadata = Torn => TornFor)'
      <3>1. CASE metadata' # Torn
        BY <3>1 DEF TornFor
      <3>2. CASE BeginMetadata(p)
        BY <3>2 DEF BeginMetadata, Goes, Typed, FilesTyped, TornFor
      <3>3. CASE WriteMetadata(p) /\ metadata' = Torn
        <4>1. CASE raced' \/ crashed' # {}
          BY <4>1 DEF TornFor
        <4>2. CASE ~raced' /\ crashed' = {}
          <5>1. ~raced /\ crashed = {}
            BY <4>2, CompanyGrows
          <5>2. p \in writers /\ metadata = Torn
            BY <3>3, <5>1 DEF WriterNamed, WriteMetadata
          <5>3. QED
            BY <3>3, <5>2, StartAssumption DEF WriteMetadata
        <4>3. QED
          BY <4>1, <4>2
      <3>4. CASE metadata' = Torn /\ metadata = Torn /\ ~WriteMetadata(p)
        <4>1. TornFor
          BY <1>1, <3>4
        <4>2. CASE raced \/ crashed # {}
          BY <4>2, CompanyGrows DEF TornFor
        <4>3. ASSUME NEW q \in Processes, phase[q] = "writing" PROVE TornFor'
          <5>1. CASE q # p
            BY <1>3, <4>3, <5>1, OthersStay DEF TornFor
          <5>2. CASE q = p
            <6>1. Crash(p)
              BY <1>3, <3>4, <4>3, <5>2
                 DEF OnProcess, OnFiles, Begin, Probe, ProbeEnds, ReadMetadata, Check,
                     RemoveSocket, RemoveMetadata, Bind, BeginMetadata, WriteMetadata,
                     Restored, Serve, Handle, Interrupt, RemoveOwnSocket, Leave
            <6>2. QED
              BY <6>1 DEF Crash, TornFor
          <5>3. QED
            BY <5>1, <5>2
        <4>4. QED
          BY <4>1, <4>2, <4>3 DEF TornFor
      <3>5. QED
        BY <3>1, <3>2, <3>3, <3>4, <2>2, StartAssumption
    <2>5. QED
      BY <2>1, <2>3, <2>4 DEF FilesHaveOwners, SocketOwned, MetadataOwned, TornFor
  <1>4. QED
    BY <1>2, <1>3, StepCases DEF Ask, Carries, Carry, Take, Reply, Reset

-------------------------------------------------------------------------------
\* What a start has read of the metadata names somebody else.
SeenOthers ==
  \A p \in Processes : phase[p] = "checking" => seen[p] \in (Processes \ {p}) \cup {None}

\* A start without company finds the socket as it has left it.
LoneSocket ==
  \A p \in Processes \ company :
    /\ phase[p] = "removing" => socket # None
    /\ phase[p] \in {"removed", "binding"} => socket = None

\* One that was refused without company has met torn metadata, and nobody gets past
\* them afterwards.
LoneRefusal ==
  \A p \in Processes \ company :
    phase[p] = "refused" =>
      /\ metadata = Torn
      /\ \A q \in Processes : phase[q] \in {"off", "probing", "reading"} \cup Over

\* A process reads the metadata before it writes its own.
LEMMA SeenKept ==
  ASSUME Typed, Next, FilesHaveOwners, CrashedEnded, SeenOthers
  PROVE  SeenOthers'
  <1> SUFFICES ASSUME NEW p \in Processes, phase'[p] = "checking"
               PROVE  seen'[p] \in (Processes \ {p}) \cup {None}
    BY DEF SeenOthers
  <1>1. CASE UNCHANGED <<phase, fileVars>>
    BY <1>1 DEF SeenOthers, fileVars
  <1>2. CASE ReadMetadata(p)
    <2>1. metadata # p /\ metadata # Torn
      BY <1>2 DEF ReadMetadata, FilesHaveOwners, CrashedEnded, Goes, Typed, FilesTyped
    <2>2. QED
      BY <1>2, <2>1 DEF ReadMetadata, Typed, FilesTyped
  <1>3. CASE OnProcess(p) /\ ~ReadMetadata(p)
    BY <1>3
       DEF OnProcess, OnFiles, Goes, Typed, FilesTyped, Begin, Probe, ProbeEnds, Check,
           RemoveSocket, RemoveMetadata, Bind, BeginMetadata, WriteMetadata, Restored,
           Serve, Handle, Interrupt, RemoveOwnSocket, Leave, Crash
  <1>4. ASSUME NEW q \in Processes, q # p, OnProcess(q)
        PROVE  seen'[p] \in (Processes \ {p}) \cup {None}
    <2>1. seen'[p] = seen[p]
      BY <1>4
         DEF OnProcess, OnFiles, Typed, FilesTyped, Begin, Probe, ProbeEnds, ReadMetadata,
             Check, RemoveSocket, RemoveMetadata, Bind, BeginMetadata, WriteMetadata,
             Restored, Serve, Interrupt, RemoveOwnSocket, Leave, Crash, fileVars
    <2>2. QED
      BY <1>4, <2>1, OthersStay DEF SeenOthers
  <1>5. QED
    BY <1>1, <1>2, <1>3, <1>4, StepCases DEF Ask, Carries, Carry, Take, Reply, Reset

\* A lone start meets nobody who binds after it has removed the socket.
LEMMA LoneSocketKept ==
  ASSUME Typed, Next, InCompany, LoneSocket
  PROVE  LoneSocket'
  <1> SUFFICES ASSUME NEW p \in Processes, p \notin company'
               PROVE  /\ phase'[p] = "removing" => socket' # None
                      /\ phase'[p] \in {"removed", "binding"} => socket' = None
    BY DEF LoneSocket
  <1>1. p \notin company
    BY CompanyGrows
  <1>2. CASE UNCHANGED <<phase, fileVars>>
    BY <1>1, <1>2 DEF LoneSocket, fileVars
  <1>3. CASE OnProcess(p)
    <2>1. CASE Check(p)
      BY <2>1 DEF Check, Goes, Typed, FilesTyped, fileVars
    <2>2. CASE RemoveSocket(p)
      BY <2>2 DEF RemoveSocket, Goes, Typed, FilesTyped
    <2>3. CASE RemoveMetadata(p)
      BY <1>1, <2>3 DEF RemoveMetadata, Goes, Typed, FilesTyped, LoneSocket
    <2>4. CASE ~(Check(p) \/ RemoveSocket(p) \/ RemoveMetadata(p))
      <3>1. phase'[p] \notin {"removing", "removed", "binding"}
        BY <1>3, <2>4
           DEF OnProcess, OnFiles, Goes, Typed, FilesTyped, Begin, Probe, ProbeEnds,
               ReadMetadata, Bind, BeginMetadata, WriteMetadata, Restored, Serve, Handle,
               Interrupt, RemoveOwnSocket, Leave, Crash
      <3>2. QED
        BY <3>1
    <2>5. QED
      BY <2>1, <2>2, <2>3, <2>4
  <1>4. ASSUME NEW q \in Processes, q # p, OnProcess(q),
               phase'[p] \in {"removing", "removed", "binding"}
        PROVE  UNCHANGED socket /\ phase'[p] = phase[p]
    <2>1. phase'[p] = phase[p] /\ Alive(p)
      BY <1>4, OthersStay DEF Alive, Over
    <2>2. ~Alive(q)
      BY <1>1, <1>4, <2>1 DEF InCompany
    <2>3. QED
      BY <1>4, <2>1, <2>2
         DEF OnProcess, OnFiles, Begin, Probe, ProbeEnds, ReadMetadata, Check, RemoveSocket,
             RemoveMetadata, Bind, BeginMetadata, WriteMetadata, Restored, Serve, Handle,
             Interrupt, RemoveOwnSocket, Leave, Crash, fileVars, Alive, Over
  <1>5. QED
    BY <1>1, <1>2, <1>3, <1>4, StepCases
       DEF LoneSocket, Ask, Carries, Carry, Take, Reply, Reset

\* Only torn metadata refuse a lone start, and whoever reads them later is refused too.
LEMMA LoneRefusalKept ==
  ASSUME Typed, Next, InCompany, Connected, SeenOthers, LoneSocket, LoneRefusal
  PROVE  LoneRefusal'
  <1> SUFFICES ASSUME NEW p \in Processes, p \notin company', phase'[p] = "refused"
               PROVE  /\ metadata' = Torn
                      /\ \A q \in Processes :
                           phase'[q] \in {"off", "probing", "reading"} \cup Over
    BY DEF LoneRefusal
  <1>1. p \notin company
    BY CompanyGrows
  <1>2. CASE UNCHANGED <<phase, fileVars>>
    BY <1>1, <1>2 DEF LoneRefusal, fileVars
  <1>3. ASSUME NEW q \in Processes, OnProcess(q), phase[p] = "refused"
        PROVE  /\ metadata' = Torn
               /\ \A r \in Processes : phase'[r] \in {"off", "probing", "reading"} \cup Over
    <2>1. /\ metadata = Torn
          /\ \A r \in Processes : phase[r] \in {"off", "probing", "reading"} \cup Over
      BY <1>1, <1>3 DEF LoneRefusal
    <2>2. phase[q] \in {"off", "probing", "reading"} \cup Over
      BY <2>1
    <2>3. UNCHANGED metadata /\ phase'[q] \in {"off", "probing", "reading"} \cup Over
      BY <1>3, <2>1, <2>2
         DEF OnProcess, OnFiles, Goes, Typed, FilesTyped, Begin, Probe, ProbeEnds,
             ReadMetadata, Check, RemoveSocket, RemoveMetadata, Bind, BeginMetadata,
             WriteMetadata, Restored, Serve, Handle, Interrupt, RemoveOwnSocket, Leave,
             Crash, fileVars, Over, Alive
    <2>4. QED
      BY <1>3, <2>1, <2>3, OthersStay
  <1>4. CASE OnProcess(p) /\ phase[p] # "refused"
    <2>1. ReadMetadata(p) /\ metadata = Torn
      <3>1. Alive(p)
        BY <1>4
           DEF OnProcess, OnFiles, Goes, Typed, FilesTyped, Begin, Probe, ProbeEnds,
               ReadMetadata, Check, RemoveSocket, RemoveMetadata, Bind, BeginMetadata,
               WriteMetadata, Restored, Serve, Handle, Interrupt, RemoveOwnSocket, Leave,
               Crash, Alive, Over
      <3>2. ~ProbeEnds(p)
        BY <1>1, <1>4 DEF ProbeEnds, Connected, NoConnection
      <3>3. ~Check(p)
        BY <1>1, <1>4, <3>1
           DEF Check, Goes, Typed, FilesTyped, SeenOthers, InCompany
      <3>4. ~RemoveSocket(p) /\ ~Bind(p)
        BY <1>1, <1>4 DEF RemoveSocket, Bind, Goes, Typed, FilesTyped, LoneSocket
      <3>5. QED
        BY <1>4, <3>2, <3>3, <3>4
           DEF OnProcess, OnFiles, Goes, Typed, FilesTyped, Begin, Probe, ReadMetadata,
               RemoveMetadata, BeginMetadata, WriteMetadata, Restored, Serve, Handle,
               Interrupt, RemoveOwnSocket, Leave, Crash
    <2>2. \A q \in Processes \ {p} : ~Alive(q) /\ phase'[q] = phase[q]
      BY <1>1, <1>4, <2>1, OthersStay DEF InCompany, ReadMetadata, Alive, Over
    <2>3. QED
      BY <2>1, <2>2 DEF ReadMetadata, Alive, Over
  <1>5. QED
    BY <1>1, <1>2, <1>3, <1>4, OthersStay, StepCases
       DEF Ask, Carries, Carry, Take, Reply, Reset

\* The parts together give what a lone start is promised.
LEMMA LoneStarts == LoneRefusal => AloneItStarts
  BY DEF LoneRefusal, AloneItStarts

-------------------------------------------------------------------------------
\* Even with races, whom a start has found it leaves alone while it listens.
FoundIsLeft ==
  \A p \in Processes :
    found[p] # None /\ socket = found[p] /\ Listening(found[p]) =>
      /\ ~Past(p)
      /\ phase[p] = "probing" /\ conn[p] # NoConnection => conn[p].to = found[p]

\* How a step changes the socket.
LEMMA SocketSteps ==
  ASSUME Typed, Next
  PROVE  \/ socket' = socket
         \/ \E p \in Processes :
              socket' = None /\ (RemoveSocket(p) \/ RemoveOwnSocket(p))
         \/ \E p \in Processes : socket = None /\ socket' = p /\ Bind(p)
  <1>1. ASSUME NEW p \in Processes, OnProcess(p)
        PROVE  \/ socket' = socket
               \/ socket' = None /\ (RemoveSocket(p) \/ RemoveOwnSocket(p))
               \/ socket = None /\ socket' = p /\ Bind(p)
    BY <1>1
       DEF OnProcess, OnFiles, Begin, Probe, ProbeEnds, ReadMetadata, Check, RemoveSocket,
           RemoveMetadata, Bind, BeginMetadata, WriteMetadata, Restored, Serve, Interrupt,
           RemoveOwnSocket, Leave, Crash, fileVars
  <1>2. QED
    BY <1>1, StepCases DEF Ask, Carries, fileVars

\* Without races a socket is removed by its owner, or when nobody listens.
LEMMA OneServerKept ==
  ASSUME Typed, Next, NoOverlap, NobodyElse, OneServer
  PROVE  OneServer'
  <1> SUFFICES ASSUME ~raced', NEW p \in Processes, Listening(p)' PROVE socket' = p
    BY DEF OneServer
  <1>1. ~raced
    BY CompanyGrows
  <1>2. CASE ~Listening(p)
    BY <1>2, Ways DEF OnItsWay
  <1>3. CASE Listening(p)
    <2>1. socket = p
      BY <1>1, <1>3 DEF OneServer
    <2>2. \A q \in Processes : q # p => ~Taking(q) /\ ~Stopping(q)
      BY <1>1, <1>3 DEF NobodyElse
    <2>3. \A q \in Processes : ~RemoveSocket(q) /\ ~RemoveOwnSocket(q)
      BY <1>3, <2>2 DEF RemoveSocket, RemoveOwnSocket, Taking, Stopping, Listening
    <2>4. QED
      BY <2>1, <2>3, SocketSteps, LocalAssumption DEF Ends
  <1>4. QED
    BY <1>2, <1>3

\* What a step does to the connection of a process that pings.
LEMMA PingSteps ==
  ASSUME Typed, Next, NEW q \in Processes
  PROVE  \/ conn'[q] = conn[q]
         \/ /\ Probe(q) /\ socket # None /\ Listening(socket)
            /\ conn'[q].to = socket /\ conn'[q].at = "sent"
         \/ /\ conn[q] # NoConnection /\ conn'[q] # NoConnection
            /\ conn'[q].to = conn[q].to
            /\ conn'[q].at = "closed" => ~Listening(conn[q].to)'
  <1>1. ASSUME NEW e \in Ends, NEW at \in Ats, conn[e].at # "none", Moves(e, at),
               UNCHANGED phase, at = "closed" => ~Listening(conn[e].to)
        PROVE  \/ conn'[q] = conn[q]
               \/ /\ conn[q] # NoConnection /\ conn'[q] # NoConnection
                  /\ conn'[q].to = conn[q].to
                  /\ conn'[q].at = "closed" => ~Listening(conn[q].to)'
    BY <1>1, MovesOn DEF Typed, Ends, Listening
  <1>2. ASSUME NEW e \in Ends, Carries(e)
        PROVE  \/ conn'[q] = conn[q]
               \/ /\ conn[q] # NoConnection /\ conn'[q] # NoConnection
                  /\ conn'[q].to = conn[q].to
                  /\ conn'[q].at = "closed" => ~Listening(conn[q].to)'
    <2>1. /\ conn[e].at # "none" /\ UNCHANGED phase
          /\ \/ Moves(e, "queued") \/ Moves(e, "answered")
             \/ Moves(e, "closed") /\ ~Listening(conn[e].to)
      BY <1>2 DEF Carries, Carry, Take, Reply, Reset, Listening
    <2>2. QED
      BY <1>1, <2>1 DEF Ats, Open
  <1>3. ASSUME NEW p \in Processes, Serve(p)
        PROVE  \/ conn'[q] = conn[q]
               \/ /\ conn[q] # NoConnection /\ conn'[q] # NoConnection
                  /\ conn'[q].to = conn[q].to /\ conn'[q].at # "closed"
    <2> DEFINE e == Head(requests[p])
    <2>1. /\ Moves(e, "answering") \/ Moves(e, "streaming")
          /\ requests[p] # <<>>
      BY <1>3 DEF Serve, Handle
    <2>2. e \in Ends /\ conn[e].at = "queued"
      BY <2>1, QueueTail DEF Typed, QueuesTyped, Queued
    <2>3. QED
      BY <2>1, <2>2, MovesOn DEF Typed, Ends, Ats, Open
  <1>4. ASSUME NEW p \in Processes, Leave(p) \/ Crash(p)
        PROVE  \/ conn'[q] = conn[q]
               \/ /\ conn[q] # NoConnection /\ conn'[q] # NoConnection
                  /\ conn'[q].to = conn[q].to /\ conn[q].to = p /\ ~Listening(p)'
    <2>1. Closing(p) /\ ~Listening(p)'
      BY <1>4 DEF Leave, Crash, Goes, Typed, FilesTyped, Listening
    <2>2. conn'[q].at = "closed" => conn'[q] # NoConnection
      BY DEF NoConnection
    <2>3. QED
      BY <2>1, <2>2, Closes DEF Typed, Ends
  <1>5. ASSUME NEW p \in Processes, Probe(p)
        PROVE  \/ conn'[q] = conn[q]
               \/ /\ Probe(q) /\ socket # None /\ Listening(socket)
                  /\ conn'[q].to = socket /\ conn'[q].at = "sent"
    <2>1. CASE socket # None /\ Listening(socket)
      <3>1. Send(p, "command", socket) /\ socket \in Processes
        BY <1>5, <2>1 DEF Probe, Typed, FilesTyped
      <3>2. /\ conn'[p].to = socket /\ conn'[p].at = "sent"
            /\ \A x \in Ends \ {p} : conn'[x] = conn[x]
        BY <3>1, Sends DEF Typed, Ends, Kinds
      <3>3. QED
        BY <1>5, <2>1, <3>2 DEF Ends
    <2>2. CASE ~(socket # None /\ Listening(socket))
      BY <1>5, <2>2 DEF Probe
    <2>3. QED
      BY <2>1, <2>2
  <1>6. ASSUME NEW c \in Clients, NEW kind \in Kinds, Ask(c, kind)
        PROVE  conn'[q] = conn[q]
    <2>1. Send(c, kind, socket) /\ socket \in Processes /\ c \in Ends /\ q # c
      BY <1>6, LocalAssumption DEF Ask, Typed, FilesTyped, Ends
    <2>2. QED
      BY <2>1, Sends DEF Typed, Ends
  <1>7. ASSUME NEW p \in Processes, Begin(p) \/ ProbeEnds(p) \/ OnFiles(p)
        PROVE  conn' = conn
    BY <1>7 DEF Begin, ProbeEnds, OnFiles, ReadMetadata, Check, RemoveSocket,
                RemoveMetadata, Bind, BeginMetadata, WriteMetadata, Restored,
                Interrupt, RemoveOwnSocket
  <1>8. QED
    BY <1>2, <1>3, <1>4, <1>5, <1>6, <1>7, StepCases DEF OnProcess

\* Who has pinged has begun.
PingsBegun == \A p \in Processes : conn[p] # NoConnection => phase[p] # "off"

\* Only a process that has begun pings.
LEMMA PingsBegunKept ==
  ASSUME Typed, Next, PingsBegun
  PROVE  PingsBegun'
  <1> SUFFICES ASSUME NEW p \in Processes, conn'[p] # NoConnection
               PROVE  phase'[p] # "off"
    BY DEF PingsBegun
  <1>1. phase[p] # "off"
    <2>1. CASE conn[p] # NoConnection
      BY <2>1 DEF PingsBegun
    <2>2. CASE conn[p] = NoConnection
      BY <2>2, PingSteps DEF Probe
    <2>3. QED
      BY <2>1, <2>2
  <1>2. QED
    BY <1>1, NoWayBack

\* While a daemon listens its metadata sends away a start that gets past the ping, and
\* nobody else ends.
LEMMA NobodyElseKept ==
  ASSUME Typed, Next, NoOverlap, OneServer, WriterNamed, NobodyElse
  PROVE  NobodyElse'
  <1> SUFFICES ASSUME ~raced', NEW p \in Processes, NEW q \in Processes, Listening(p)', p # q
               PROVE  /\ ~Taking(q)' /\ ~Stopping(q)'
                      /\ phase'[q] = "checking" => seen'[q] = p
    BY DEF NobodyElse
  <1>1. ~raced
    BY CompanyGrows
  <1>2. CASE ~Listening(p)
    <2>1. Bind(p)
      BY <1>2, Ways DEF OnItsWay
    <2>2. Starting(p)
      BY <2>1 DEF Bind, Starting, Alive, Over
    <2>3. ~Starting(q) /\ ~Stopping(q)
      BY <1>1, <2>2 DEF NoOverlap
    <2>4. phase'[q] = phase[q]
      BY <2>1, OthersStay DEF OnProcess, OnFiles
    <2>5. QED
      BY <2>3, <2>4 DEF Starting, Stopping, Taking, Alive, Over
  <1>3. CASE Listening(p)
    <2>1. /\ socket = p /\ p # None
          /\ Listening(q) => FALSE
      BY <1>1, <1>3, LocalAssumption DEF OneServer, Ends
    <2>2. /\ ~Taking(q) /\ ~Stopping(q)
          /\ phase[q] = "checking" => seen[q] = p
      BY <1>1, <1>3 DEF NobodyElse
    <2>3. ~Taking(q)'
      <3>1. SUFFICES ASSUME Taking(q)', Check(q) PROVE FALSE
        BY <2>2, Ways DEF OnItsWay
      <3>2. seen[q] = p /\ Alive(p)
        BY <1>3, <2>2, <3>1 DEF Check, Listening, Alive, Over
      <3>3. QED
        BY <2>1, <3>1, <3>2 DEF Check, Goes, Typed, FilesTyped, Taking
    <2>4. ~Stopping(q)'
      BY <2>1, <2>2, Ways DEF OnItsWay, Serve, Handle, Interrupt, Listening
    <2>5. ASSUME phase'[q] = "checking" PROVE seen'[q] = p
      <3>1. CASE phase[q] = "checking"
        <4>1. seen'[q] = seen[q]
          BY <2>5, <3>1, StepCases
             DEF OnProcess, OnFiles, Typed, FilesTyped, Begin, Probe, ProbeEnds,
                 ReadMetadata, Check, RemoveSocket, RemoveMetadata, Bind, BeginMetadata,
                 WriteMetadata, Restored, Serve, Interrupt, RemoveOwnSocket, Leave, Crash,
                 fileVars, Ask, Carries
        <4>2. QED
          BY <2>2, <3>1, <4>1
      <3>2. CASE phase[q] # "checking"
        <4>1. ReadMetadata(q)
          BY <2>5, <3>2, Ways DEF OnItsWay
        <4>2. ~Starting(p)
          BY <1>1, <4>1 DEF NoOverlap, ReadMetadata, Starting, Alive, Over
        <4>3. phase[p] = "serving"
          BY <1>3, <4>2 DEF Starting, Listening, Alive, Over
        <4>4. metadata = p
          BY <1>1, <4>3 DEF WriterNamed
        <4>5. QED
          BY <4>1, <4>4 DEF ReadMetadata, Typed, FilesTyped
      <3>3. QED
        BY <3>1, <3>2
    <2>6. QED
      BY <2>3, <2>4, <2>5
  <1>4. QED
    BY <1>2, <1>3

\* A start that finds a daemon pings it, and its answer sends the start away.
LEMMA FoundIsLeftKept ==
  ASSUME Typed, Next, Connected, PingsBegun, FoundIsLeft
  PROVE  FoundIsLeft'
  <1> SUFFICES ASSUME NEW p \in Processes, NEW f \in Processes,
                      f = found'[p], socket' = f, Listening(f)'
               PROVE  /\ ~Past(p)'
                      /\ phase'[p] = "probing" /\ conn'[p] # NoConnection =>
                           conn'[p].to = f
    <2>1. HistoryTyped'
      BY FilesKept
    <2>2. QED
      BY <2>1 DEF FoundIsLeft, HistoryTyped
  <1>1. f # None
    BY LocalAssumption DEF Ends
  <1>2. CASE Begin(p)
    <2>1. phase[p] = "off" /\ phase'[p] = "probing" /\ conn'[p] = conn[p]
      BY <1>2 DEF Begin, Goes, Typed, FilesTyped
    <2>2. QED
      BY <2>1 DEF PingsBegun, Past
  <1>3. CASE ~Begin(p)
    <2>1. found[p] = f
      BY <1>1, <1>3, StepCases
         DEF OnProcess, OnFiles, Begin, Probe, ProbeEnds, ReadMetadata, Check, RemoveSocket,
             RemoveMetadata, Bind, BeginMetadata, WriteMetadata, Restored, Serve, Interrupt,
             RemoveOwnSocket, Leave, Crash, Ask, Carries, history, Typed, HistoryTyped
    <2>2. HasBound(f) /\ ~Bind(f)
      BY <1>1, <2>1 DEF Connected, Bind, HasBound, Listening, Stopping
    <2>3. Listening(f) /\ socket = f
      BY <1>1, <2>2, Ways, SocketSteps DEF OnItsWay
    <2>4. /\ ~Past(p)
          /\ phase[p] = "probing" /\ conn[p] # NoConnection => conn[p].to = f
      BY <1>1, <2>1, <2>3 DEF FoundIsLeft
    <2>5. ~Past(p)'
      <3>1. SUFFICES ASSUME Past(p)' PROVE FALSE
        OBVIOUS
      <3>2. phase[p] = "probing" /\ (Probe(p) \/ ProbeEnds(p))
        BY <2>4, <3>1, Ways DEF OnItsWay
      <3>3. CASE Probe(p)
        BY <1>1, <2>3, <3>1, <3>2, <3>3 DEF Probe, Past
      <3>4. CASE ProbeEnds(p)
        <4>1. conn[p] # NoConnection
          BY <3>4 DEF ProbeEnds, NoConnection
        <4>2. conn[p].at # "closed"
          BY <2>3, <2>4, <3>2, <4>1 DEF Connected, Ends
        <4>3. found'[p] = None
          BY <3>1, <3>4, <4>2 DEF ProbeEnds, Goes, Typed, FilesTyped, HistoryTyped, Past
        <4>4. QED
          BY <1>1, <4>3
      <3>5. QED
        BY <3>2, <3>3, <3>4
    <2>6. ASSUME phase'[p] = "probing", conn'[p] # NoConnection PROVE conn'[p].to = f
      <3>1. phase[p] = "probing"
        BY <1>3, <2>6, NoWayBack
      <3>2. QED
        BY <2>3, <2>4, <2>6, <3>1, PingSteps
    <2>7. QED
      BY <2>5, <2>6
  <1>4. QED
    BY <1>2, <1>3

-------------------------------------------------------------------------------
\* The inductive invariant.
StartInv ==
  /\ Typed /\ CrashedEnded /\ FilesHaveOwners
  /\ InCompany /\ Connected /\ PingsBegun
  /\ SeenOthers /\ LoneSocket /\ LoneRefusal
  /\ NoOverlap /\ WriterNamed /\ OneServer /\ NobodyElse
  /\ FoundIsLeft

(***************************************************************************)
(* However many processes start, stop and die on the path, and whatever    *)
(* the order of their steps, the invariant holds.                          *)
(***************************************************************************)
THEOREM StartInvariant == Spec => []StartInv
  <1>1. Init => StartInv
    <2> SUFFICES ASSUME Init PROVE StartInv
      OBVIOUS
    <2>1. Typed
      BY TypedInitially
    <2>2. /\ \A p \in Processes : phase[p] = "off" /\ found[p] = None
          /\ \A e \in Ends : conn[e] = NoConnection
          /\ socket = None /\ metadata = None /\ crashed = {}
      BY DEF Init, LocalInit
    <2>3. CrashedEnded /\ FilesHaveOwners
      BY <2>2, LocalAssumption, StartAssumption DEF CrashedEnded, FilesHaveOwners, Ends
    <2>4. InCompany /\ Connected /\ PingsBegun
      BY <2>2 DEF InCompany, Connected, PingsBegun, Alive, Ends
    <2>5. SeenOthers /\ LoneSocket /\ LoneRefusal
      BY <2>2 DEF SeenOthers, LoneSocket, LoneRefusal
    <2>6. NoOverlap /\ WriterNamed /\ OneServer /\ NobodyElse
      BY <2>2 DEF NoOverlap, WriterNamed, OneServer, NobodyElse, Starting, Alive, Listening
    <2>7. FoundIsLeft
      BY <2>2 DEF FoundIsLeft
    <2>8. QED
      BY <2>1, <2>3, <2>4, <2>5, <2>6, <2>7 DEF StartInv
  <1>2. StartInv /\ [Next]_vars => StartInv'
    <2> SUFFICES ASSUME StartInv, [Next]_vars PROVE StartInv'
      OBVIOUS
    <2>1. CASE Next
      <3> USE <2>1 DEF StartInv
      <3>1. Typed'
        BY QueuesKept, FilesKept DEF Typed
      <3>2. CrashedEnded' /\ FilesHaveOwners'
        BY CrashedKept, FilesOwnedKept
      <3>3. InCompany' /\ Connected' /\ PingsBegun'
        BY CompanyKept, ConnectedKept, PingsBegunKept
      <3>4. SeenOthers' /\ LoneSocket' /\ LoneRefusal'
        BY SeenKept, LoneSocketKept, LoneRefusalKept
      <3>5. NoOverlap' /\ WriterNamed' /\ OneServer' /\ NobodyElse'
        BY NoOverlapKept, WriterKept, OneServerKept, NobodyElseKept
      <3>6. FoundIsLeft'
        BY FoundIsLeftKept
      <3>7. QED
        BY <3>1, <3>2, <3>3, <3>4, <3>5, <3>6
    <2>2. CASE UNCHANGED vars
      BY <2>2
         DEF vars, localVars, fileVars, history, StartInv, Typed, ConnsTyped, QueuesTyped,
             Queued, FilesTyped, HistoryTyped, CrashedEnded, FilesHaveOwners, InCompany,
             Connected, PingsBegun, SeenOthers, LoneSocket, LoneRefusal, NoOverlap,
             WriterNamed, OneServer, NobodyElse, FoundIsLeft, HasBound, Past, Taking, Alive,
             Starting, Stopping, Listening
    <2>3. QED
      BY <2>1, <2>2
  <1>3. QED
    BY <1>1, <1>2, PTL DEF Spec

(***************************************************************************)
(* The type invariant, with it that a request is in the queue of the       *)
(* daemon it was sent to exactly while it waits there.                     *)
(***************************************************************************)
THEOREM LocalTyped == Spec => []LocalTypeOK
  <1>1. StartInv => LocalTypeOK
    BY TypedImplies DEF StartInv
  <1>2. QED
    BY <1>1, StartInvariant, PTL

(***************************************************************************)
(* Only a crash leaves a socket or metadata behind.                        *)
(***************************************************************************)
THEOREM FilesAlwaysOwned == Spec => []FilesHaveOwners
  <1>1. StartInv => FilesHaveOwners
    BY DEF StartInv
  <1>2. QED
    BY <1>1, StartInvariant, PTL

(***************************************************************************)
(* A start that is alone is not refused but for torn metadata.             *)
(***************************************************************************)
THEOREM AloneItAlwaysStarts == Spec => []AloneItStarts
  <1>1. StartInv => AloneItStarts
    BY LoneStarts DEF StartInv
  <1>2. QED
    BY <1>1, StartInvariant, PTL

(***************************************************************************)
(* Unless a start overlaps another one or an end, one daemon at most       *)
(* listens, and it is the one that is reached.                             *)
(***************************************************************************)
THEOREM OneServerAlways == Spec => []OneServer
  <1>1. StartInv => OneServer
    BY DEF StartInv
  <1>2. QED
    BY <1>1, StartInvariant, PTL

(***************************************************************************)
(* A start does not remove the socket of a daemon it has found and that    *)
(* still listens, whatever other starts do meanwhile.                      *)
(***************************************************************************)
THEOREM NoTakeovers == Spec => NoTakeover
  <1>1. ASSUME StartInv, NEW p \in Processes, NEW q \in Processes,
               phase[p] = "removing", socket = q, found[p] = q
        PROVE  ~Listening(q)
    BY <1>1, LocalAssumption DEF StartInv, FoundIsLeft, Past, Ends
  <1>2. StartInv /\ [Next]_vars =>
          [\A p, q \in Processes :
             phase[p] = "removing" /\ socket = q /\ socket' = None /\ found[p] = q
               => ~Listening(q)]_vars
    BY <1>1
  <1>3. QED
    BY <1>2, StartInvariant, PTL DEF Spec, NoTakeover
===============================================================================
