-------------------------- MODULE EventStreamProofs --------------------------
(***************************************************************************)
(* Proofs about the output of a pane: the buffer keeps the promise of      *)
(* OutputLedger step by step, and the clients' queues lose and repeat      *)
(* nothing, for any limits, sizes and output.  The invariant is in four    *)
(* parts: where the buffers stand in the output, where the characters are, *)
(* what the log of events says, and how far the queues have it.            *)
(***************************************************************************)
EXTENDS EventStream, FiniteSetTheorems, SequenceTheorems, WellFoundedInduction,
        TLAPS

Events == [lost : Nat, from : Nat, to : Nat]

\* The buffers end where the daemon has read to, and hold as much of the newest
\* output as they may.
BuffersTyped ==
  /\ written \in 0 .. MaxWritten /\ received \in 0 .. written
  /\ ends \subseteq received + 1 .. written
  /\ wide \subseteq 1 .. written
  /\ dropped \in Nat
  /\ historyFrom = Trimmed(0, received, MaxHistory)
  /\ pendingFrom \in 0 .. received /\ received - pendingFrom <= MaxPending
  /\ task \in {"idle", "draining", "dead"}

\* Chunks end between characters, and so do the buffers.
Between ==
  /\ ends \cap wide = {}
  /\ {received, historyFrom, pendingFrom} \cap wide = {}

LogTyped ==
  /\ log \in Seq(Events)
  /\ \A i \in 1 .. Len(log) : log[i].from <= log[i].to /\ log[i].to <= Settled
  /\ Settled \in 0 .. pendingFrom

\* An attached client has been sent the newest output, from where the next
\* event, if none was made since, will go on.
Replayed ==
  replay # NotAttached =>
    /\ replay \in [from : Nat, to : Nat, since : Nat]
    /\ replay.since <= Len(log)
    /\ replay.to - replay.from = Min({replay.to, MaxHistory})
    /\ IF Len(log) > replay.since
       THEN log[replay.since + 1].from - log[replay.since + 1].lost <= replay.to
       ELSE Settled <= replay.to

PaneInv ==
  /\ BuffersTyped /\ Between /\ LogTyped
  /\ DroppedIsTheGap /\ CutsBetweenCharacters
  /\ Replayed

-------------------------------------------------------------------------------
\* A nonempty set of naturals has a least member.
LEMMA LeastByte ==
  ASSUME NEW S \in SUBSET Nat, S # {}
  PROVE  Min(S) \in S /\ \A y \in S : Min(S) <= y
  <1>1. PICK x \in S : \A y \in S : <<y, x>> \notin OpToRel(<, Nat)
    BY NatLessThanWellFounded, WFMin, Zenon
  <1>2. \A y \in S : ~ (y < x)
    BY <1>1, Zenon DEF OpToRel
  <1>3. \A y \in S : x <= y
    BY <1>2
  <1>4. QED
    BY <1>3 DEF Min

\* Cutting a buffer in front leaves its newest bytes, as many as the limit.
LEMMA TrimmedKeeps ==
  ASSUME NEW from \in Int, NEW to \in Int, NEW limit \in Nat
  PROVE  /\ Trimmed(from, to, limit) = IF from >= to - limit THEN from ELSE to - limit
         /\ Trimmed(from, to, limit) \in Int
  BY DEF Trimmed, Max

\* The history of a longer output is cut as if it had never been cut before.
LEMMA TrimmedTwice ==
  ASSUME NEW a \in Nat, NEW b \in Nat, a <= b, NEW limit \in Nat
  PROVE  Trimmed(Trimmed(0, a, limit), b, limit) = Trimmed(0, b, limit)
  <1>1. Trimmed(0, a, limit) = IF 0 >= a - limit THEN 0 ELSE a - limit
    BY TrimmedKeeps
  <1>2. Trimmed(0, b, limit) = IF 0 >= b - limit THEN 0 ELSE b - limit
    BY TrimmedKeeps
  <1>3. \A from \in Int :
          Trimmed(from, b, limit) = IF from >= b - limit THEN from ELSE b - limit
    BY TrimmedKeeps
  <1>4. QED
    BY <1>1, <1>2, <1>3

\* A full history holds as much as it may.
LEMMA TrimmedLength ==
  ASSUME NEW to \in Nat, NEW limit \in Nat
  PROVE  /\ Trimmed(0, to, limit) \in 0 .. to
         /\ to - Trimmed(0, to, limit) = Min({to, limit})
  <1>1. Trimmed(0, to, limit) = IF 0 >= to - limit THEN 0 ELSE to - limit
    BY TrimmedKeeps
  <1>2. Min({to, limit}) = IF to <= limit THEN to ELSE limit
    BY DEF Min
  <1>3. QED
    BY <1>1, <1>2

\* A chunk taken from pending output is not empty, unless the output is, and ends
\* between characters.
LEMMA EmitToCuts ==
  ASSUME OutputAssumption, BuffersTyped, Between
  PROVE  /\ EmitTo \in pendingFrom .. received
         /\ pendingFrom # received => EmitTo > pendingFrom
         /\ EmitTo \notin wide
  <1>1. CASE received - pendingFrom <= MaxEmit
    BY <1>1 DEF EmitTo, BuffersTyped, Between
  <1>2. CASE ~(received - pendingFrom <= MaxEmit)
    <2> DEFINE Cuts == {cut \in pendingFrom + MaxEmit .. received : cut \notin wide}
    <2>1. /\ pendingFrom \in Nat /\ received \in Nat /\ MaxEmit \in Nat \ {0}
          /\ received >= pendingFrom + MaxEmit
      BY <1>2 DEF BuffersTyped, OutputAssumption
    <2>2. received \in Cuts
      BY <2>1 DEF Between
    <2>3. Cuts \in SUBSET Nat
      BY <2>1
    <2>4. Min(Cuts) \in Cuts
      <3> HIDE DEF Cuts
      <3> QED
        BY <2>2, <2>3, LeastByte
    <2>5. EmitTo = Min(Cuts)
      BY <1>2 DEF EmitTo
    <2>6. QED
      BY <2>1, <2>4, <2>5
  <1>3. QED
    BY <1>1, <1>2

-------------------------------------------------------------------------------
\* At first nothing is written and nobody attached.
LEMMA PaneInitially ==
  ASSUME OutputAssumption, PaneInit
  PROVE  PaneInv
  <1>1. Trimmed(0, 0, MaxHistory) = 0
    BY TrimmedKeeps DEF OutputAssumption
  <1>2. BuffersTyped
    BY <1>1 DEF PaneInit, BuffersTyped, OutputAssumption
  <1>3. Len(log) = 0 /\ log \in Seq(Events) /\ Settled = 0
    BY DEF PaneInit, Settled
  <1>4. QED
    BY <1>2, <1>3
       DEF PaneInit, PaneInv, Between, LogTyped, DroppedIsTheGap, CutsBetweenCharacters,
           Replayed

\* What the pump writes is behind all that is in the buffers and the log.
LEMMA PumpKeeps ==
  ASSUME OutputAssumption, PaneInv, NEW size \in Chunks, Pump(size)
  PROVE  PaneInv'
  <1>1. /\ written' = written + size /\ written' <= MaxWritten
        /\ size \in Nat \ {0} /\ MaxWritten \in Nat
        /\ ends' = ends \cup {written'}
        /\ UNCHANGED <<received, historyFrom, pendingFrom, dropped, task, log, replay>>
    BY DEF Pump, buffers, OutputAssumption
  <1>2. PICK inner \in SUBSET (written + 1 .. written' - 1) : wide' = wide \cup inner
    BY DEF Pump
  <1>3. Settled' = Settled
    BY <1>1 DEF Settled
  <1>4. BuffersTyped'
    <2>1. written \in Nat /\ received \in Nat /\ received <= written
      BY DEF PaneInv, BuffersTyped
    <2>2. written' \in 0 .. MaxWritten /\ received' \in 0 .. written'
      BY <1>1, <2>1
    <2>3. ends' \subseteq received' + 1 .. written' /\ wide' \subseteq 1 .. written'
      BY <1>1, <1>2, <2>1 DEF PaneInv, BuffersTyped
    <2>4. historyFrom' = Trimmed(0, received', MaxHistory)
      BY <1>1 DEF PaneInv, BuffersTyped
    <2>5. QED
      BY <1>1, <2>2, <2>3, <2>4 DEF PaneInv, BuffersTyped
  <1>5. historyFrom \in 0 .. received
    <2>1. received \in Nat /\ MaxHistory \in Nat
      BY DEF PaneInv, BuffersTyped, OutputAssumption
    <2>2. QED
      BY <2>1, TrimmedLength DEF PaneInv, BuffersTyped
  <1>6. Between'
    BY <1>1, <1>2, <1>5 DEF PaneInv, BuffersTyped, Between
  <1>7. LogTyped'
    BY <1>1, <1>3 DEF PaneInv, LogTyped
  <1>8. CutsBetweenCharacters'
    <2> SUFFICES ASSUME NEW i \in 1 .. Len(log)
                 PROVE  {log[i].from, log[i].to} \cap wide' = {}
      BY <1>1 DEF CutsBetweenCharacters
    <2>1. log[i] \in Events
      BY DEF PaneInv, LogTyped
    <2>2. /\ log[i].from \in Nat /\ log[i].to \in Nat
          /\ log[i].from <= log[i].to /\ log[i].to <= Settled
      BY <2>1 DEF Events, PaneInv, LogTyped
    <2>3. log[i].to <= written
      BY <2>2 DEF PaneInv, LogTyped, BuffersTyped
    <2>4. {log[i].from, log[i].to} \cap wide = {}
      BY DEF PaneInv, CutsBetweenCharacters
    <2>5. QED
      BY <1>2, <2>2, <2>3, <2>4 DEF PaneInv, BuffersTyped
  <1>9. QED
    BY <1>1, <1>3, <1>4, <1>6, <1>7, <1>8 DEF PaneInv, DroppedIsTheGap, Replayed

\* A step of the task alone.
LEMMA BeginKeeps ==
  ASSUME PaneInv, BeginCollect
  PROVE  PaneInv'
  BY DEF BeginCollect, buffers, PaneInv, BuffersTyped, Between, LogTyped, DroppedIsTheGap,
         CutsBetweenCharacters, Replayed, Settled, Trimmed

\* A chunk from the channel: either both buffers are cut between characters, and
\* what leaves the pending one is counted, or the daemon dies.
LEMMA ReceiveKeeps ==
  ASSUME OutputAssumption, PaneInv, Receive
  PROVE  PaneInv'
  <1> DEFINE to == Min(ends)
             history == Trimmed(historyFrom, to, MaxHistory)
             pending == Trimmed(pendingFrom, to, MaxPending)
  <1>1. /\ ends # {} /\ Enqueue(to)
        /\ ends' = ends \ {to}
        /\ UNCHANGED <<written, wide, log, replay>>
    BY DEF Receive
  <1>2. to \in ends /\ \A x \in ends : to <= x
    <2>1. ends \in SUBSET Nat
      BY DEF PaneInv, BuffersTyped
    <2>2. QED
      BY <1>1, <2>1, LeastByte
  <1> HIDE DEF to
  <1>3. /\ to \in Nat /\ received \in Nat /\ received < to /\ to <= written
        /\ pendingFrom \in Nat /\ pendingFrom <= received
        /\ MaxHistory \in Nat /\ MaxPending \in Nat
    BY <1>2 DEF PaneInv, BuffersTyped, OutputAssumption
  <1>4. Settled' = Settled
    BY <1>1 DEF Settled
  <1>5. ends' \subseteq received + 1 .. written /\ ends' \cap wide = {}
    BY <1>1 DEF PaneInv, BuffersTyped, Between
  <1>6. CASE UNCHANGED buffers /\ task' = "dead"
    BY <1>1, <1>4, <1>5, <1>6
       DEF buffers, PaneInv, BuffersTyped, Between, LogTyped, DroppedIsTheGap,
           CutsBetweenCharacters, Replayed, Trimmed
  <1>7. CASE /\ {history, pending} \cap wide = {}
             /\ received' = to /\ historyFrom' = history /\ pendingFrom' = pending
             /\ dropped' = dropped + (pending - pendingFrom)
             /\ UNCHANGED task
    <2>1. pending = IF pendingFrom >= to - MaxPending THEN pendingFrom ELSE to - MaxPending
      BY <1>3, TrimmedKeeps
    <2>2. history = Trimmed(0, to, MaxHistory)
      BY <1>3, TrimmedTwice DEF PaneInv, BuffersTyped
    <2>3. pending \in pendingFrom .. to /\ to - pending <= MaxPending
      BY <1>3, <2>1
    <2>4. \A x \in ends' : x \in to + 1 .. written
      BY <1>1, <1>2, <1>5, <1>3
    <2> HIDE DEF history, pending
    <2>5. BuffersTyped'
      BY <1>1, <1>3, <1>7, <2>2, <2>3, <2>4 DEF PaneInv, BuffersTyped, Trimmed
    <2>6. to \notin wide
      BY <1>2 DEF PaneInv, Between
    <2>7. Between'
      BY <1>1, <1>5, <1>7, <2>6 DEF Between
    <2>8. LogTyped' /\ DroppedIsTheGap'
      BY <1>1, <1>3, <1>4, <1>7, <2>3
         DEF PaneInv, BuffersTyped, LogTyped, DroppedIsTheGap
    <2>9. CutsBetweenCharacters' /\ Replayed'
      BY <1>1, <1>4 DEF PaneInv, CutsBetweenCharacters, Replayed
    <2>10. QED
      BY <2>5, <2>7, <2>8, <2>9 DEF PaneInv
  <1>8. QED
    BY <1>1, <1>6, <1>7 DEF Enqueue

\* A collect makes no event or one.
Makes(event) ==
  /\ log' = Append(log, event)
  /\ event = [lost |-> dropped, from |-> pendingFrom, to |-> EmitTo]
  /\ pendingFrom' = EmitTo /\ dropped' = 0
  /\ ~(pendingFrom = received /\ dropped = 0)

\* The two cases of a collect's end.
LEMMA EndCases ==
  ASSUME EndCollect
  PROVE  /\ task = "draining" /\ task' = "idle" /\ ends = {}
         /\ UNCHANGED <<written, wide, ends, received, historyFrom, replay>>
         /\ \/ UNCHANGED <<pendingFrom, dropped, log>>
            \/ \E event : Makes(event)
  BY DEF EndCollect, TakeChunk, Makes

\* The event that is made follows the others.
LEMMA MadeFollows ==
  ASSUME OutputAssumption, PaneInv, NEW event, Makes(event)
  PROVE  /\ event \in Events /\ event.from <= event.to
         /\ event.from - event.lost = Settled
         /\ event.to > Settled
         /\ Settled' = event.to
         /\ {event.from, event.to} \cap wide = {}
         /\ Len(log') = Len(log) + 1 /\ log' \in Seq(Events)
         /\ log'[Len(log) + 1] = event
         /\ \A i \in 1 .. Len(log) : log'[i] = log[i]
  <1>1. /\ EmitTo \in pendingFrom .. received
        /\ pendingFrom # received => EmitTo > pendingFrom
        /\ EmitTo \notin wide
    BY EmitToCuts DEF PaneInv
  <1>2. pendingFrom \in Nat /\ received \in Nat /\ dropped \in Nat /\ Settled \in Nat
    BY DEF PaneInv, BuffersTyped, LogTyped
  <1>3. event.lost = dropped /\ event.from = pendingFrom /\ event.to = EmitTo
    BY DEF Makes
  <1>4. event \in Events /\ event.from <= event.to
    BY <1>1, <1>2 DEF Events, Makes
  <1>5. dropped = pendingFrom - Settled /\ Settled <= pendingFrom
    BY DEF PaneInv, DroppedIsTheGap, LogTyped
  <1>6. event.from - event.lost = Settled /\ event.to > Settled
    BY <1>1, <1>2, <1>3, <1>5 DEF Makes
  <1>7. {event.from, event.to} \cap wide = {}
    BY <1>1, <1>3 DEF PaneInv, Between
  <1>8. log \in Seq(Events) /\ log' = Append(log, event)
    BY DEF PaneInv, LogTyped, Makes
  <1>9. /\ Len(log') = Len(log) + 1 /\ log' \in Seq(Events)
        /\ log'[Len(log) + 1] = event
        /\ \A i \in 1 .. Len(log) : log'[i] = log[i]
    BY <1>4, <1>8, AppendProperties
  <1>10. Settled' = event.to
    BY <1>8, <1>9 DEF Settled
  <1>11. QED
    BY <1>4, <1>6, <1>7, <1>9, <1>10

\* The event that is made keeps the log in order, whole and between characters.
LEMMA EndKeeps ==
  ASSUME OutputAssumption, PaneInv, EndCollect
  PROVE  PaneInv'
  <1>1. /\ task' = "idle"
        /\ UNCHANGED <<written, wide, ends, received, historyFrom, replay>>
    BY EndCases
  <1>2. CASE UNCHANGED <<pendingFrom, dropped, log>>
    BY <1>1, <1>2
       DEF PaneInv, BuffersTyped, Between, LogTyped, DroppedIsTheGap,
           CutsBetweenCharacters, Replayed, Settled, Trimmed
  <1>3. ASSUME NEW event, Makes(event) PROVE PaneInv'
    <2>1. /\ EmitTo \in pendingFrom .. received /\ EmitTo \notin wide
          /\ pendingFrom' = EmitTo /\ dropped' = 0 /\ event.to = EmitTo
      BY <1>3, EmitToCuts DEF PaneInv, Makes
    <2>2. /\ event \in Events /\ event.from <= event.to
          /\ event.from - event.lost = Settled
          /\ event.to > Settled /\ Settled' = event.to
          /\ {event.from, event.to} \cap wide = {}
      BY <1>3, MadeFollows
    <2>3. /\ Len(log') = Len(log) + 1 /\ log' \in Seq(Events)
          /\ log'[Len(log) + 1] = event
          /\ \A i \in 1 .. Len(log) : log'[i] = log[i]
      BY <1>3, MadeFollows
    <2>4. Len(log) \in Nat
      BY DEF PaneInv, LogTyped
    <2>5. \A i \in 1 .. Len(log') : i \in 1 .. Len(log) \/ i = Len(log) + 1
      BY <2>3, <2>4
    <2>6. /\ pendingFrom \in Nat /\ received \in Nat /\ received - pendingFrom <= MaxPending
          /\ MaxPending \in Nat
      BY DEF PaneInv, BuffersTyped, OutputAssumption
    <2>7. EmitTo \in 0 .. received /\ received - EmitTo <= MaxPending
      BY <2>1, <2>6
    <2>8. historyFrom' = Trimmed(0, received', MaxHistory)
      BY <1>1 DEF PaneInv, BuffersTyped
    <2>9. BuffersTyped' /\ Between'
      BY <1>1, <2>1, <2>7, <2>8 DEF PaneInv, BuffersTyped, Between
    <2>10. LogTyped'
      <3>1. ASSUME NEW i \in 1 .. Len(log')
            PROVE  log'[i].from <= log'[i].to /\ log'[i].to <= Settled'
        <4>1. CASE i = Len(log) + 1
          BY <2>2, <2>3, <4>1 DEF Events
        <4>2. CASE i \in 1 .. Len(log)
          <5>1. log[i] \in Events
            BY <4>2 DEF PaneInv, LogTyped
          <5>2. log[i].from <= log[i].to /\ log[i].to <= Settled
            BY <4>2 DEF PaneInv, LogTyped
          <5>3. log[i].to \in Nat /\ event.to \in Nat /\ Settled \in Nat
            BY <2>2, <5>1 DEF Events, PaneInv, LogTyped, BuffersTyped
          <5>4. QED
            BY <2>2, <2>3, <4>2, <5>2, <5>3
        <4>3. QED
          BY <2>5, <4>1, <4>2
      <3>2. Settled' \in 0 .. pendingFrom'
        BY <2>1, <2>2, <2>7
      <3>3. QED
        BY <2>3, <3>1, <3>2 DEF LogTyped
    <2>11. DroppedIsTheGap'
      BY <2>1, <2>2, <2>7 DEF DroppedIsTheGap
    <2>12. CutsBetweenCharacters'
      BY <1>1, <2>2, <2>3, <2>5 DEF PaneInv, CutsBetweenCharacters
    <2>13. Replayed'
      <3> SUFFICES ASSUME replay # NotAttached PROVE Replayed'
        BY <1>1 DEF Replayed
      <3>1. /\ replay \in [from : Nat, to : Nat, since : Nat]
            /\ replay.since <= Len(log)
            /\ replay.to - replay.from = Min({replay.to, MaxHistory})
        BY DEF PaneInv, Replayed
      <3>2. CASE Len(log) > replay.since
        <4>1. replay.since + 1 \in 1 .. Len(log)
          BY <2>4, <3>1, <3>2
        <4>2. log'[replay.since + 1] = log[replay.since + 1]
          BY <2>3, <4>1
        <4>3. log[replay.since + 1].from - log[replay.since + 1].lost <= replay.to
          BY <3>2 DEF PaneInv, Replayed
        <4>4. QED
          BY <1>1, <2>3, <2>4, <3>1, <3>2, <4>2, <4>3 DEF Replayed
      <3>3. CASE Len(log) = replay.since
        <4>1. Settled <= replay.to
          BY <3>3 DEF PaneInv, Replayed
        <4>2. log'[replay.since + 1] = event /\ Len(log') > replay.since
          BY <2>3, <2>4, <3>3
        <4>3. log'[replay.since + 1].from - log'[replay.since + 1].lost <= replay.to
          BY <2>2, <4>1, <4>2
        <4>4. QED
          BY <1>1, <2>3, <2>4, <3>1, <3>3, <4>2, <4>3 DEF Replayed
      <3>4. QED
        BY <2>4, <3>1, <3>2, <3>3
    <2>14. QED
      BY <2>9, <2>10, <2>11, <2>12, <2>13 DEF PaneInv
  <1>4. QED
    BY <1>2, <1>3, EndCases

\* The replay is the history, and what comes next in the log is pending then.
LEMMA AttachKeeps ==
  ASSUME OutputAssumption, PaneInv, Attach
  PROVE  PaneInv'
  <1>1. /\ UNCHANGED <<written, wide, ends, buffers, task, log>>
        /\ replay' = [from |-> historyFrom, to |-> received, since |-> Len(log)]
    BY DEF Attach
  <1>2. received \in Nat /\ MaxHistory \in Nat
    BY DEF PaneInv, BuffersTyped, OutputAssumption
  <1>3. historyFrom \in 0 .. received /\ received - historyFrom = Min({received, MaxHistory})
    BY <1>2, TrimmedLength DEF PaneInv, BuffersTyped
  <1>4. Settled' = Settled /\ Settled <= received
    BY <1>1, <1>2 DEF PaneInv, BuffersTyped, LogTyped, Settled
  <1>5. Replayed'
    BY <1>1, <1>2, <1>3, <1>4 DEF PaneInv, LogTyped, Replayed
  <1>6. QED
    BY <1>1, <1>4, <1>5
       DEF PaneInv, BuffersTyped, Between, LogTyped, DroppedIsTheGap,
           CutsBetweenCharacters, buffers, Trimmed

\* The steps of the pane, under whatever the loop serves.
PaneStep ==
  \/ \E size \in Chunks : Pump(size)
  \/ BeginCollect \/ Receive \/ EndCollect \/ Attach
  \/ UNCHANGED paneVars

\* Every step is one of the pane, or leaves it alone.
LEMMA Steps == ASSUME [Next]_vars PROVE PaneStep
  BY DEF Next, vars, PaneStep, PumpOutput, Begin, Drain, EndsCollect, CollectAgain, Succeed,
         Fail, ClientAttaches

\* The pane's invariant holds whatever the order of the steps.
LEMMA PaneKept ==
  ASSUME OutputAssumption, PaneInv, PaneStep
  PROVE  PaneInv'
  <1>1. CASE UNCHANGED paneVars
    BY <1>1 DEF paneVars, buffers, PaneInv, BuffersTyped, Between, LogTyped, DroppedIsTheGap,
                CutsBetweenCharacters, Replayed, Settled, Trimmed
  <1>2. QED
    BY <1>1, PumpKeeps, BeginKeeps, ReceiveKeeps, EndKeeps, AttachKeeps DEF PaneStep

-------------------------------------------------------------------------------
\* Every event in the queues is behind the next one to be made.
QueuedEvents ==
  /\ stream \in Seq(Events) /\ held \in Seq(Events)
  /\ \A i \in 1 .. Len(stream) : stream[i].to <= Settled
  /\ \A i \in 1 .. Len(held) : held[i].to <= Settled

\* Only a request that has collected holds an event, and at most one.
HeldOnce ==
  /\ serving \in {"none", "tick", "request", "input"} /\ failed \in BOOLEAN
  /\ Len(held) <= 1
  /\ serving \in {"none", "tick"} => held = <<>>
  /\ serving = "request" /\ task # "idle" => held = <<>>

\* What is held follows everything broadcast, but for the one event that an input
\* has broadcast meanwhile.
Overtaking ==
  held # <<>> =>
    \A i \in 1 .. Len(stream) :
      \/ Before(stream[i], held[1])
      \/ /\ serving = "input" /\ task = "idle"
         /\ i = Len(stream) /\ Before(held[1], stream[i])

\* Every event made since a client attached is broadcast or held, unless dropped.
Passed ==
  replay # NotAttached /\ ~failed =>
    \A i \in replay.since + 1 .. Len(log) : log[i] \in ToSet(stream) \cup ToSet(held)

StreamInv ==
  /\ PaneInv /\ QueuedEvents /\ HeldOnce /\ Overtaking /\ OvertakenOnce /\ Passed

\* A sequence of at most one element.
LEMMA AtMostOne ==
  ASSUME NEW S, NEW s \in Seq(S), Len(s) <= 1
  PROVE  \/ s = <<>>
         \/ s = <<s[1]>> /\ Len(s) = 1 /\ s[1] \in S
  <1>1. Len(s) \in Nat
    BY LenProperties
  <1>2. CASE Len(s) = 0
    <2>1. s # <<>> => Len(s) \in Nat \ {0}
      BY EmptySeq
    <2>2. QED
      BY <1>2, <2>1
  <1>3. CASE Len(s) = 1
    <2>1. s[1] \in S
      BY <1>3, ElementOfSeq
    <2>2. s = <<s[1]>>
      BY <1>3
    <2>3. QED
      BY <1>3, <2>1, <2>2
  <1>4. Len(s) = 0 \/ Len(s) = 1
    <2>1. \A n \in Nat : n <= 1 => n = 0 \/ n = 1
      OBVIOUS
    <2>2. QED
      BY <1>1, <2>1, Zenon
  <1>5. QED
    BY <1>2, <1>3, <1>4, Zenon

\* What a collect has made.
LEMMA MadeIs ==
  ASSUME OutputAssumption, PaneInv, EndCollect
  PROVE  \/ Made = <<>> /\ log' = log
         \/ \E event \in Events :
              /\ Made = <<event>> /\ log' = Append(log, event)
              /\ event.from <= event.to /\ event.from >= Settled /\ Settled' = event.to
  <1>1. log \in Seq(Events) /\ Len(log) \in Nat
    BY DEF PaneInv, LogTyped
  <1>2. CASE log' = log
    <2>1. Len(Made) = 0 /\ Made \in Seq(Events)
      BY <1>1, <1>2, SubSeqProperties DEF Made
    <2>2. QED
      BY <1>2, <2>1, EmptySeq
  <1>3. ASSUME NEW event, Makes(event)
        PROVE  /\ event \in Events
               /\ Made = <<event>> /\ log' = Append(log, event)
               /\ event.from <= event.to /\ event.from >= Settled /\ Settled' = event.to
    <2>1. /\ event \in Events /\ event.from <= event.to
          /\ event.from - event.lost = Settled /\ Settled' = event.to
          /\ Len(log') = Len(log) + 1 /\ log' \in Seq(Events)
          /\ log'[Len(log) + 1] = event
      BY <1>3, MadeFollows
    <2>2. Made = <<event>>
      <3> DEFINE n == Len(log) + 1
      <3>1. n \in Int /\ Len(log') = n /\ \A i \in n .. n : log'[i] \in Events
        BY <1>1, <2>1
      <3>2. /\ Made \in Seq(Events) /\ Len(Made) = 1
            /\ Made[1] = log'[n]
        <4> HIDE DEF n
        <4>1. Made = SubSeq(log', n, n)
          BY <3>1 DEF Made, n
        <4>2. /\ SubSeq(log', n, n) \in Seq(Events)
              /\ Len(SubSeq(log', n, n)) = IF n <= n THEN n - n + 1 ELSE 0
              /\ \A i \in 1 .. n - n + 1 : SubSeq(log', n, n)[i] = log'[n + i - 1]
          BY <3>1, SubSeqProperties
        <4>3. n - n + 1 = 1 /\ n <= n /\ n + 1 - 1 = n
          BY <3>1
        <4>4. QED
          BY <4>1, <4>2, <4>3
      <3>3. QED
        BY <2>1, <3>2
    <2>3. event.from >= Settled
      BY <2>1 DEF Events, PaneInv, LogTyped, BuffersTyped
    <2>4. QED
      BY <1>3, <2>1, <2>2, <2>3 DEF Makes
  <1>4. QED
    BY <1>2, <1>3, EndCases

\* Nothing is queued at first.
LEMMA StreamInitially ==
  ASSUME OutputAssumption, Init
  PROVE  StreamInv
  <1>1. PaneInv
    BY PaneInitially DEF Init
  <1>2. /\ serving = "none" /\ held = <<>> /\ stream = <<>> /\ failed = FALSE
        /\ replay = NotAttached
    BY DEF Init, PaneInit
  <1>3. Len(stream) = 0 /\ stream \in Seq(Events) /\ held \in Seq(Events) /\ Len(held) = 0
    BY <1>2
  <1>4. QueuedEvents /\ HeldOnce
    <2>1. 1 .. Len(stream) = {} /\ 1 .. Len(held) = {} /\ Len(held) <= 1
      BY <1>3
    <2>2. QED
      BY <1>2, <1>3, <2>1 DEF QueuedEvents, HeldOnce
  <1>5. Overtaking /\ OvertakenOnce /\ Passed
    BY <1>2, <1>3 DEF Overtaking, OvertakenOnce, Passed
  <1>6. QED
    BY <1>1, <1>4, <1>5 DEF StreamInv

\* A sequence with one more event.
LEMMA OneMore ==
  ASSUME NEW s \in Seq(Events), NEW event \in Events
  PROVE  /\ s \o <<event>> \in Seq(Events)
         /\ Len(s \o <<event>>) = Len(s) + 1
         /\ \A i \in 1 .. Len(s) : (s \o <<event>>)[i] = s[i]
         /\ (s \o <<event>>)[Len(s) + 1] = event
         /\ ToSet(s \o <<event>>) = ToSet(s) \cup {event}
  <1> DEFINE t == s \o <<event>>
  <1>1. /\ t \in Seq(Events) /\ Len(t) = Len(s) + 1
        /\ \A i \in 1 .. Len(s) + 1 : t[i] = IF i <= Len(s) THEN s[i] ELSE <<event>>[i - Len(s)]
    <2>1. <<event>> \in Seq(Events) /\ Len(<<event>>) = 1
      OBVIOUS
    <2>2. QED
      BY <2>1, ConcatProperties
  <1>2. Len(s) \in Nat /\ DOMAIN s = 1 .. Len(s) /\ DOMAIN t = 1 .. Len(s) + 1
    BY <1>1, LenProperties
  <1> HIDE DEF t
  <1>3. /\ \A i \in 1 .. Len(s) : t[i] = s[i]
        /\ t[Len(s) + 1] = event
    BY <1>1, <1>2
  <1>4. ToSet(t) = ToSet(s) \cup {event}
    BY <1>2, <1>3 DEF ToSet
  <1>5. QED
    BY <1>1, <1>3, <1>4 DEF t

\* Where the stream, what is held and the log do not change, only the loop and the
\* collect have gone on.
LEMMA QuietKeeps ==
  ASSUME StreamInv, PaneInv', UNCHANGED <<stream, held, log, failed>>,
         UNCHANGED replay \/ Len(log) = replay'.since,
         HeldOnce',
         serving = "input" /\ task = "idle" /\ held # <<>> =>
           serving' = "input" /\ task' = "idle"
  PROVE  StreamInv'
  <1>1. Settled' = Settled
    BY DEF Settled
  <1>2. QueuedEvents' /\ OvertakenOnce'
    BY <1>1 DEF StreamInv, QueuedEvents, OvertakenOnce, Before
  <1>3. Overtaking'
    BY DEF StreamInv, Overtaking, Before
  <1>4. Passed'
    <2>1. CASE UNCHANGED replay
      BY <2>1 DEF StreamInv, Passed
    <2>2. CASE Len(log) = replay'.since
      <3>1. Len(log) \in Nat
        BY DEF StreamInv, PaneInv, LogTyped
      <3>2. replay'.since + 1 .. Len(log') = {}
        BY <2>2, <3>1
      <3>3. QED
        BY <3>2 DEF Passed
    <2>3. QED
      BY <2>1, <2>2
  <1>5. QED
    BY <1>2, <1>3, <1>4 DEF StreamInv

\* The event that a collect has made is held, or behind all that was broadcast.
LEMMA EndsCollectKeeps ==
  ASSUME OutputAssumption, StreamInv, PaneInv', EndsCollect
  PROVE  StreamInv'
  <1>1. /\ EndCollect /\ UNCHANGED <<failed, replay>>
        /\ task = "draining" /\ task' = "idle"
        /\ IF serving = "request" THEN held' = Made /\ UNCHANGED stream
           ELSE stream' = stream \o Made /\ UNCHANGED held
        /\ serving' = IF serving = "tick" THEN "none" ELSE serving
    BY EndCases DEF EndsCollect
  <1>2. /\ stream \in Seq(Events) /\ held \in Seq(Events) /\ log \in Seq(Events)
        /\ Len(stream) \in Nat /\ Len(log) \in Nat
        /\ Settled \in Nat
        /\ serving = "request" => held = <<>>
    <2>1. stream \in Seq(Events) /\ held \in Seq(Events)
      BY DEF StreamInv, QueuedEvents
    <2>2. log \in Seq(Events) /\ Settled \in Nat
      BY DEF StreamInv, PaneInv, LogTyped, BuffersTyped
    <2>3. serving = "request" => held = <<>>
      BY <1>1 DEF StreamInv, HeldOnce
    <2>4. Len(stream) \in Nat /\ Len(log) \in Nat
      BY <2>1, <2>2, LenProperties
    <2>5. QED
      BY <2>1, <2>2, <2>3, <2>4
  <1>3. CASE Made = <<>> /\ log' = log
    <2>1. UNCHANGED <<stream, held>>
      BY <1>1, <1>2, <1>3, ConcatEmptySeq
    <2>2. HeldOnce'
      BY <1>1, <2>1 DEF StreamInv, HeldOnce
    <2>3. QED
      BY <1>1, <1>3, <2>1, <2>2, QuietKeeps
  <1>4. ASSUME NEW event \in Events, Made = <<event>>, log' = Append(log, event),
               event.from <= event.to, event.from >= Settled, Settled' = event.to
        PROVE  StreamInv'
    <2>1. event.from \in Nat /\ event.to \in Nat /\ Settled' >= Settled
      BY <1>2, <1>4 DEF Events
    <2>2. /\ \A i \in 1 .. Len(stream) :
               stream[i].to <= Settled' /\ Before(stream[i], event)
          /\ \A i \in 1 .. Len(held) :
               held[i].to <= Settled' /\ Before(held[i], event)
      <3>1. ASSUME NEW e \in Events, e.to <= Settled
            PROVE  e.to <= Settled' /\ Before(e, event)
        <4>1. e.to \in Nat /\ Settled \in Nat
          BY <1>2, <3>1 DEF Events
        <4>2. event.from >= Settled /\ event.from <= event.to /\ Settled' = event.to
          BY <1>4
        <4>3. QED
          BY <2>1, <3>1, <4>1, <4>2 DEF Before
      <3>2. QED
        BY <1>2, <3>1, ElementOfSeq DEF StreamInv, QueuedEvents
    <2>3. /\ Len(log') = Len(log) + 1 /\ log'[Len(log) + 1] = event
          /\ \A i \in 1 .. Len(log) : log'[i] = log[i]
      BY <1>2, <1>4, AppendProperties
    <2>4. ASSUME ToSet(stream) \cup ToSet(held) \cup {event}
                   \subseteq ToSet(stream') \cup ToSet(held')
          PROVE  Passed'
      <3> SUFFICES ASSUME replay # NotAttached, ~failed,
                          NEW i \in replay.since + 1 .. Len(log')
                   PROVE  log'[i] \in ToSet(stream') \cup ToSet(held')
        BY <1>1 DEF Passed
      <3>1. replay.since \in Nat
        BY DEF StreamInv, PaneInv, Replayed
      <3>2. i \in replay.since + 1 .. Len(log) \/ i = Len(log) + 1
        BY <1>2, <2>3, <3>1
      <3>3. CASE i \in replay.since + 1 .. Len(log)
        <4>1. log[i] \in ToSet(stream) \cup ToSet(held)
          BY <3>3 DEF StreamInv, Passed
        <4>2. log'[i] = log[i]
          BY <1>2, <2>3, <3>1, <3>3
        <4>3. QED
          BY <2>4, <4>1, <4>2
      <3>4. QED
        BY <2>3, <2>4, <3>2, <3>3
    <2>5. CASE serving = "request"
      <3>1. held' = <<event>> /\ stream' = stream /\ held = <<>> /\ serving' = "request"
        BY <1>1, <1>2, <1>4, <2>5
      <3>2. held' \in Seq(Events) /\ Len(held') = 1 /\ held'[1] = event
        BY <1>4, <3>1
      <3>3. QueuedEvents' /\ HeldOnce'
        BY <1>1, <1>2, <1>4, <2>1, <2>2, <3>1, <3>2 DEF StreamInv, QueuedEvents, HeldOnce
      <3>4. Overtaking' /\ OvertakenOnce'
        BY <2>2, <3>1, <3>2 DEF StreamInv, Overtaking, OvertakenOnce, Before
      <3>5. ToSet(stream) \cup ToSet(held) \cup {event} \subseteq ToSet(stream') \cup ToSet(held')
        BY <3>1, <3>2 DEF ToSet
      <3>6. QED
        BY <2>4, <3>3, <3>4, <3>5 DEF StreamInv
    <2>6. CASE serving # "request"
      <3>1. stream' = stream \o <<event>> /\ held' = held
        BY <1>1, <1>4, <2>6
      <3>2. /\ stream' \in Seq(Events) /\ Len(stream') = Len(stream) + 1
            /\ \A i \in 1 .. Len(stream) : stream'[i] = stream[i]
            /\ stream'[Len(stream) + 1] = event
            /\ ToSet(stream') = ToSet(stream) \cup {event}
        BY <1>2, <1>4, <3>1, OneMore
      <3>3. \A i \in 1 .. Len(stream') : i \in 1 .. Len(stream) \/ i = Len(stream) + 1
        BY <1>2, <3>2
      <3>4. QueuedEvents'
        BY <1>2, <1>4, <2>1, <2>2, <3>1, <3>2, <3>3 DEF QueuedEvents
      <3>5. HeldOnce'
        BY <1>1, <2>6, <3>1 DEF StreamInv, HeldOnce
      <3>6. Overtaking'
        <4> SUFFICES ASSUME held # <<>>, NEW i \in 1 .. Len(stream')
                     PROVE  \/ Before(stream'[i], held[1])
                            \/ /\ serving' = "input" /\ task' = "idle"
                               /\ i = Len(stream') /\ Before(held[1], stream'[i])
          BY <3>1 DEF Overtaking, Before
        <4>1. serving = "input" /\ Len(held) \in Nat \ {0}
          BY <1>2, <2>6, EmptySeq DEF StreamInv, HeldOnce
        <4>2. CASE i \in 1 .. Len(stream)
          BY <1>1, <3>2, <4>2 DEF StreamInv, Overtaking
        <4>3. CASE i = Len(stream) + 1
          <5>1. 1 \in 1 .. Len(held)
            BY <4>1
          <5>2. Before(held[1], event)
            BY <2>2, <5>1
          <5>3. QED
            BY <1>1, <3>2, <4>1, <4>3, <5>2
        <4>4. QED
          BY <3>3, <4>2, <4>3
      <3>7. OvertakenOnce'
        <4> SUFFICES ASSUME NEW i \in 1 .. Len(stream'), NEW j \in 1 .. Len(stream'), i < j
                     PROVE  \/ Before(stream'[i], stream'[j])
                            \/ j = i + 1 /\ Before(stream'[j], stream'[i])
          BY DEF OvertakenOnce, Before
        <4>1. i \in 1 .. Len(stream)
          BY <1>2, <3>2
        <4>2. CASE j \in 1 .. Len(stream)
          BY <3>2, <4>1, <4>2 DEF StreamInv, OvertakenOnce
        <4>3. CASE j = Len(stream) + 1
          BY <2>2, <3>2, <4>1, <4>3
        <4>4. QED
          BY <3>3, <4>2, <4>3
      <3>8. ToSet(stream) \cup ToSet(held) \cup {event} \subseteq ToSet(stream') \cup ToSet(held')
        BY <3>1, <3>2
      <3>9. QED
        BY <2>4, <3>4, <3>5, <3>6, <3>7, <3>8 DEF StreamInv
    <2>7. QED
      BY <2>5, <2>6
  <1>5. QED
    BY <1>1, <1>3, <1>4, MadeIs DEF StreamInv

\* What a request held comes after all that was broadcast, but for what its input
\* has broadcast.
LEMMA SucceedKeeps ==
  ASSUME StreamInv, PaneInv', Succeed
  PROVE  StreamInv'
  <1>1. /\ stream' = stream \o held /\ held' = <<>> /\ serving' = "none"
        /\ serving \in {"request", "input"} /\ task = "idle"
        /\ UNCHANGED <<log, replay, failed>>
    BY DEF Succeed, Returned, paneVars
  <1>2. /\ stream \in Seq(Events) /\ held \in Seq(Events) /\ Len(stream) \in Nat
        /\ Len(held) <= 1 /\ failed \in BOOLEAN
    BY DEF StreamInv, QueuedEvents, HeldOnce
  <1>3. Settled' = Settled
    BY <1>1 DEF Settled
  <1>4. /\ held' \in Seq(Events) /\ Len(held') = 0 /\ 1 .. Len(held') = {}
        /\ ToSet(held') = {}
    BY <1>1 DEF ToSet
  <1>5. HeldOnce' /\ Overtaking'
    BY <1>1, <1>2, <1>4 DEF HeldOnce, Overtaking
  <1>6. CASE held = <<>>
    <2>1. UNCHANGED <<stream, held>>
      BY <1>1, <1>2, <1>6, ConcatEmptySeq
    <2>2. QED
      BY <1>1, <1>5, <1>6, <2>1, QuietKeeps
  <1>7. CASE held # <<>>
    <2>1. held = <<held[1]>> /\ held[1] \in Events /\ Len(held) = 1
      BY <1>2, <1>7, AtMostOne
    <2>2. /\ stream' \in Seq(Events) /\ Len(stream') = Len(stream) + 1
          /\ \A i \in 1 .. Len(stream) : stream'[i] = stream[i]
          /\ stream'[Len(stream) + 1] = held[1]
          /\ ToSet(stream') = ToSet(stream) \cup {held[1]}
      <3>1. stream' = stream \o <<held[1]>>
        BY <1>1, <2>1, Zenon
      <3>2. QED
        BY <1>2, <2>1, <3>1, OneMore
    <2>3. \A i \in 1 .. Len(stream') : i \in 1 .. Len(stream) \/ i = Len(stream) + 1
      BY <1>2, <2>2
    <2>4. QueuedEvents'
      BY <1>3, <1>4, <2>1, <2>2, <2>3 DEF StreamInv, QueuedEvents
    <2>5. OvertakenOnce'
      <3> SUFFICES ASSUME NEW i \in 1 .. Len(stream'), NEW j \in 1 .. Len(stream'), i < j
                   PROVE  \/ Before(stream'[i], stream'[j])
                          \/ j = i + 1 /\ Before(stream'[j], stream'[i])
        BY DEF OvertakenOnce, Before
      <3>1. i \in 1 .. Len(stream)
        BY <1>2, <2>2
      <3>2. CASE j \in 1 .. Len(stream)
        BY <2>2, <3>1, <3>2 DEF StreamInv, OvertakenOnce
      <3>3. CASE j = Len(stream) + 1
        <4>1. \/ Before(stream[i], held[1])
              \/ i = Len(stream) /\ Before(held[1], stream[i])
          BY <1>7, <3>1 DEF StreamInv, Overtaking
        <4>2. QED
          BY <2>2, <3>1, <3>3, <4>1
      <3>4. QED
        BY <2>3, <3>2, <3>3
    <2>6. ToSet(held) = {held[1]}
      BY <2>1 DEF ToSet
    <2>7. Passed'
      BY <1>1, <1>4, <2>2, <2>6 DEF StreamInv, Passed
    <2>8. QED
      BY <1>5, <2>4, <2>5, <2>7 DEF StreamInv
  <1>8. QED
    BY <1>6, <1>7

\* A request that fails drops what it held, and that is on record.
LEMMA FailKeeps ==
  ASSUME StreamInv, PaneInv', Fail
  PROVE  StreamInv'
  <1>1. /\ failed' = (failed \/ held # <<>>)
        /\ held' = <<>> /\ serving' = "none" /\ task = "idle"
        /\ UNCHANGED <<log, replay, stream>>
    BY DEF Fail, Returned, paneVars
  <1>2. Settled' = Settled
    BY <1>1 DEF Settled
  <1>3. held' \in Seq(Events) /\ Len(held') = 0 /\ 1 .. Len(held') = {}
    BY <1>1
  <1>4. failed' \in BOOLEAN
    BY <1>1 DEF StreamInv, HeldOnce
  <1>5. QueuedEvents'
    BY <1>1, <1>2, <1>3 DEF StreamInv, QueuedEvents
  <1>6. HeldOnce' /\ Overtaking'
    BY <1>1, <1>3, <1>4 DEF HeldOnce, Overtaking
  <1>7. OvertakenOnce'
    BY <1>1 DEF StreamInv, OvertakenOnce, Before
  <1>8. Passed'
    BY <1>1 DEF StreamInv, Passed
  <1>9. QED
    BY <1>5, <1>6, <1>7, <1>8 DEF StreamInv

\* The other steps leave the queues alone.
LEMMA OthersKeep ==
  ASSUME StreamInv, PaneInv',
         \/ PumpOutput \/ Drain \/ CollectAgain \/ ClientAttaches
         \/ \E what \in {"tick", "request"} : Begin(what)
  PROVE  StreamInv'
  <1> USE DEF StreamInv, HeldOnce
  <1>1. CASE PumpOutput
    <2>1. UNCHANGED <<stream, held, log, failed, replay, serving, task>>
      BY <1>1 DEF PumpOutput, Pump, streamVars
    <2>2. QED
      BY <2>1, QuietKeeps
  <1>2. CASE Drain
    <2>1. /\ UNCHANGED <<stream, held, log, failed, replay, serving>>
          /\ task = "draining"
      BY <1>2 DEF Drain, Receive, streamVars
    <2>2. QED
      BY <2>1, QuietKeeps
  <1>3. CASE CollectAgain
    <2>1. /\ UNCHANGED <<stream, held, log, failed, replay>>
          /\ serving = "request" /\ serving' = "input"
      BY <1>3 DEF CollectAgain, BeginCollect
    <2>2. QED
      BY <2>1, QuietKeeps
  <1>4. ASSUME NEW what \in {"tick", "request"}, Begin(what) PROVE StreamInv'
    <2>1. /\ UNCHANGED <<stream, held, log, failed, replay>>
          /\ serving = "none" /\ serving' = what /\ held = <<>>
      BY <1>4 DEF Begin, BeginCollect
    <2>2. QED
      BY <2>1, QuietKeeps
  <1>5. CASE ClientAttaches
    <2>1. /\ UNCHANGED <<stream, held, log, serving, task>>
          /\ failed' = FALSE /\ serving = "none" /\ held = <<>>
          /\ replay'.since = Len(log)
      BY <1>5 DEF ClientAttaches, Attach
    <2>2. Len(log) \in Nat
      BY DEF PaneInv, LogTyped
    <2>3. replay'.since + 1 .. Len(log') = {} /\ Settled' = Settled
      BY <2>1, <2>2 DEF Settled
    <2>4. QueuedEvents' /\ HeldOnce'
      BY <2>1, <2>3 DEF QueuedEvents
    <2>5. Overtaking' /\ OvertakenOnce' /\ Passed'
      BY <2>1, <2>3 DEF Overtaking, OvertakenOnce, Passed, Before
    <2>6. QED
      BY <2>4, <2>5
  <1>6. QED
    BY <1>1, <1>2, <1>3, <1>4, <1>5

(***************************************************************************)
(* The invariant of the pane's buffers, the loop and the clients' queues:  *)
(* it holds for any limits, chunks and characters.                         *)
(***************************************************************************)
THEOREM StreamInvariant == Spec => []StreamInv
  <1>1. Init => StreamInv
    BY StreamInitially, OutputAssumption
  <1>2. StreamInv /\ [Next]_vars => StreamInv'
    <2> SUFFICES ASSUME StreamInv, [Next]_vars PROVE StreamInv'
      OBVIOUS
    <2>1. PaneInv'
      BY Steps, PaneKept, OutputAssumption DEF StreamInv
    <2>2. CASE UNCHANGED vars
      BY <2>1, <2>2, QuietKeeps
         DEF vars, paneVars, streamVars, StreamInv, HeldOnce
    <2>3. CASE EndsCollect
      BY <2>1, <2>3, EndsCollectKeeps, OutputAssumption
    <2>4. CASE Succeed \/ Fail
      BY <2>1, <2>4, SucceedKeeps, FailKeeps
    <2>5. QED
      BY <2>1, <2>2, <2>3, <2>4, OthersKeep DEF Next
  <1>3. QED
    BY <1>1, <1>2, PTL DEF Spec

\* The invariant's parts give the type invariant, with the limits of the buffers.
LEMMA StreamInvTyped == ASSUME OutputAssumption, StreamInv PROVE StreamTypeOK
  <1>1. received \in Nat /\ MaxHistory \in Nat
    BY DEF StreamInv, PaneInv, BuffersTyped, OutputAssumption
  <1>2. historyFrom = IF 0 >= received - MaxHistory THEN 0 ELSE received - MaxHistory
    <2>1. Trimmed(0, received, MaxHistory)
            = IF 0 >= received - MaxHistory THEN 0 ELSE received - MaxHistory
      BY <1>1, TrimmedKeeps
    <2>2. QED
      BY <2>1 DEF StreamInv, PaneInv, BuffersTyped
  <1>3. historyFrom \in 0 .. received /\ received - historyFrom <= MaxHistory
    BY <1>1, <1>2
  <1>4. replay \in [from : Nat, to : Nat, since : Nat \cup {-1}]
    BY DEF StreamInv, PaneInv, Replayed, NotAttached
  <1>5. OutputTypeOK
    BY <1>1, <1>3, <1>4
       DEF StreamInv, PaneInv, BuffersTyped, LogTyped, OutputTypeOK, Events
  <1>6. QED
    BY <1>5 DEF StreamInv, QueuedEvents, HeldOnce, StreamTypeOK, Events

(***************************************************************************)
(* The type invariant, with it that neither buffer exceeds its limit.      *)
(***************************************************************************)
THEOREM StreamTyped == Spec => []StreamTypeOK
  <1>1. StreamInv => StreamTypeOK
    BY StreamInvTyped, OutputAssumption
  <1>2. QED
    BY <1>1, StreamInvariant, PTL

(***************************************************************************)
(* The bytes counted as dropped are exactly those between the last event   *)
(* and the next one.                                                       *)
(***************************************************************************)
THEOREM DroppedAlwaysTheGap == Spec => []DroppedIsTheGap
  <1>1. StreamInv => DroppedIsTheGap
    BY DEF StreamInv, PaneInv
  <1>2. QED
    BY <1>1, StreamInvariant, PTL

(***************************************************************************)
(* No event starts or ends inside a character, however wide they are.      *)
(***************************************************************************)
THEOREM CutsAlwaysBetween == Spec => []CutsBetweenCharacters
  <1>1. StreamInv => CutsBetweenCharacters
    BY DEF StreamInv, PaneInv
  <1>2. QED
    BY <1>1, StreamInvariant, PTL

(***************************************************************************)
(* No event is broadcast twice, and one that a request held is overtaken   *)
(* by no more than the one that its input has broadcast.                   *)
(***************************************************************************)
THEOREM OvertakenAtMostOnce == Spec => []OvertakenOnce
  <1>1. StreamInv => OvertakenOnce
    BY DEF StreamInv
  <1>2. QED
    BY <1>1, StreamInvariant, PTL

(***************************************************************************)
(* A client that attaches gets the newest output and every event from      *)
(* there on, until a request fails.                                        *)
(***************************************************************************)
THEOREM ClientsMissNothing == Spec => []ClientMissesNothing
  <1>1. ASSUME StreamInv, replay # NotAttached PROVE ReplayLeavesNoGap
    <2>1. pendingFrom - dropped = Settled
      BY <1>1 DEF StreamInv, PaneInv, DroppedIsTheGap, BuffersTyped, LogTyped
    <2>2. QED
      BY <1>1, <2>1 DEF StreamInv, PaneInv, Replayed, ReplayLeavesNoGap
  <1>2. ASSUME StreamInv, replay # NotAttached, ~failed, serving = "none"
        PROVE  \A i \in replay.since + 1 .. Len(log) : log[i] \in ToSet(stream)
    <2>1. held = <<>>
      BY <1>2 DEF StreamInv, HeldOnce
    <2>2. ToSet(held) = {}
      BY <2>1 DEF ToSet
    <2>3. QED
      BY <1>2, <2>2 DEF StreamInv, Passed
  <1>3. StreamInv => ClientMissesNothing
    BY <1>1, <1>2 DEF ClientMissesNothing
  <1>4. QED
    BY <1>3, StreamInvariant, PTL

-------------------------------------------------------------------------------
(***************************************************************************)
(* Every step of the pump, the collects and the loop is one that           *)
(* OutputLedger allows, or none that it sees: the safety of                *)
(* ImplementsLedger.                                                       *)
(***************************************************************************)
THEOREM KeepsLedger == Spec => Ledger!Init /\ [][Ledger!Next]_(Ledger!vars)
  <1>1. Init => Ledger!Init
    BY DEF Init, PaneInit, Ledger!Init
  <1>2. StreamInv /\ [Next]_vars => [Ledger!Next]_(Ledger!vars)
    <2> SUFFICES ASSUME StreamInv, PaneStep
                 PROVE  [Ledger!Next]_(Ledger!vars)
      BY Steps
    <2>1. ASSUME NEW size \in Chunks, Pump(size) PROVE Ledger!Write
      <3>1. /\ written' = written + size /\ written' <= MaxWritten
            /\ UNCHANGED <<log, task>>
        BY <2>1 DEF Pump
      <3>2. size \in Nat \ {0} /\ written \in Nat /\ MaxWritten \in Nat
        BY OutputAssumption DEF OutputAssumption, StreamInv, PaneInv, BuffersTyped
      <3>3. QED
        BY <3>1, <3>2 DEF Ledger!Write
    <2>2. CASE BeginCollect \/ Attach \/ UNCHANGED paneVars
      BY <2>2 DEF BeginCollect, Attach, paneVars, Ledger!vars
    <2>3. CASE Receive
      <3>1. task = "draining" /\ UNCHANGED <<written, log>>
            /\ (task' = "dead" \/ UNCHANGED task)
        BY <2>3 DEF Receive, Enqueue
      <3>2. QED
        BY <3>1 DEF Ledger!vars, Ledger!Next, Ledger!Die
    <2>4. CASE EndCollect
      <3>1. task = "draining" /\ task' = "idle" /\ UNCHANGED written
        BY <2>4, EndCases
      <3>2. CASE UNCHANGED log
        BY <3>1, <3>2 DEF Ledger!vars
      <3>3. ASSUME NEW event, Makes(event) PROVE Ledger!Deliver
        <4>1. /\ event \in Events /\ event.from <= event.to
              /\ event.from - event.lost = Settled /\ event.to > Settled
              /\ log' = Append(log, event)
          BY <3>3, MadeFollows, OutputAssumption DEF StreamInv, Makes
        <4>2. event = [lost |-> dropped, from |-> pendingFrom, to |-> EmitTo]
          BY <3>3 DEF Makes
        <4>3. /\ EmitTo \in pendingFrom .. received /\ received \in 0 .. written
              /\ Settled \in 0 .. pendingFrom /\ pendingFrom \in Nat /\ written \in Nat
              /\ dropped = pendingFrom - Settled
          BY EmitToCuts, OutputAssumption
             DEF StreamInv, PaneInv, BuffersTyped, LogTyped, DroppedIsTheGap
        <4>4. pendingFrom \in Settled .. written /\ EmitTo \in pendingFrom .. written
          BY <4>3
        <4>5. Ledger!Settled = Settled
          BY DEF Ledger!Settled, Settled
        <4>6. EmitTo > Settled
          BY <4>1, <4>2
        <4>7. log' = Append(log, [lost |-> pendingFrom - Settled,
                                  from |-> pendingFrom, to |-> EmitTo])
          BY <4>1, <4>2, <4>3
        <4>8. QED
          BY <3>1, <4>4, <4>5, <4>6, <4>7 DEF Ledger!Deliver
      <3>4. QED
        BY <2>4, <3>2, <3>3, EndCases DEF Ledger!Next
    <2>5. QED
      BY <2>1, <2>2, <2>3, <2>4 DEF PaneStep, Ledger!Next
  <1>3. QED
    BY <1>1, <1>2, StreamInvariant, PTL DEF Spec
===============================================================================
