------------------------------ MODULE PaneOutput ------------------------------
(***************************************************************************)
(* The output of one pane, from the shell to an attached client: the pump  *)
(* thread of pty.rs, the channel it fills, the buffers of pane.rs, and the *)
(* part of collect_runtime_events and attach_client (server.rs) that       *)
(* empties and replays them.                                               *)
(*                                                                         *)
(* The decoded output is a stream of bytes counted from 0, and a buffer is *)
(* the interval of the stream it holds.  An offset in wide is inside a     *)
(* character of several bytes: String::drain panics when it cuts there.    *)
(* What from_utf8_lossy made of the raw bytes is in the stream already.    *)
(***************************************************************************)
EXTENDS Integers, Sequences, FiniteSets, FiniteSetsExt

CONSTANTS
  MaxHistory, MaxPending, MaxEmit,  \* the limits of pane.rs, scaled down
  Chunks,        \* sizes of what the pump reads at once
  Wide,          \* whether there are characters of several bytes
  MaxWritten     \* bound: bytes written

ASSUME OutputAssumption ==
  /\ MaxHistory \in Nat \ {0} /\ MaxPending \in Nat \ {0}
  /\ MaxEmit \in Nat \ {0}
  /\ Chunks \subseteq Nat \ {0}
  /\ Wide \in BOOLEAN
  /\ MaxWritten \in Nat

VARIABLES
  written,       \* bytes pumped into the channel so far
  wide,          \* offsets inside a character
  ends,          \* where the chunks in the channel end, the channel being a queue
  received,      \* bytes taken from the channel: the end of both buffers
  historyFrom,   \* output_history is historyFrom .. received - 1
  pendingFrom,   \* pending_output is pendingFrom .. received - 1
  dropped,       \* dropped_output_bytes
  task,          \* "idle", "draining" the channel, or "dead" after a panic
  log,           \* the PtyOutput events made: bytes reported lost, from, to
  replay         \* what a client was sent at its attach: from, to, and the
                 \* length of the log then; or NotAttached

buffers == <<received, historyFrom, pendingFrom, dropped>>
paneVars == <<written, wide, ends, buffers, task, log, replay>>

NotAttached == [from |-> 0, to |-> 0, since |-> -1]

PaneInit ==
  /\ written = 0 /\ wide = {} /\ ends = {}
  /\ received = 0 /\ historyFrom = 0 /\ pendingFrom = 0 /\ dropped = 0
  /\ task = "idle" /\ log = <<>> /\ replay = NotAttached

-------------------------------------------------------------------------------
\* The pump thread: one read of the terminal.  A chunk is decoded on its own,
\* so that characters end where chunks do.
Pump(size) ==
  /\ written + size <= MaxWritten
  /\ written' = written + size
  /\ ends' = ends \cup {written'}
  /\ \E inner \in IF Wide THEN SUBSET (written + 1 .. written' - 1) ELSE {{}} :
       wide' = wide \cup inner
  /\ UNCHANGED <<buffers, task, log, replay>>

\* The start of a buffer that ends at to and begins at from, once only limit
\* bytes are kept.
Trimmed(from, to, limit) == Max({from, to - limit})

\* Mutants: what is dropped is not counted; nothing is ever cut.
EnqueueUncounted(to) ==
  /\ received' = to
  /\ historyFrom' = Trimmed(historyFrom, to, MaxHistory)
  /\ pendingFrom' = Trimmed(pendingFrom, to, MaxPending)
  /\ UNCHANGED <<dropped, task>>
EnqueueUnbounded(to) ==
  /\ received' = to
  /\ UNCHANGED <<historyFrom, pendingFrom, dropped, task>>

\* Pane::enqueue_output.  Both buffers are appended to and cut at the front.
Enqueue(to) ==
  LET history == Trimmed(historyFrom, to, MaxHistory)
      pending == Trimmed(pendingFrom, to, MaxPending)
  IN  IF {history, pending} \cap wide # {}
      THEN task' = "dead" /\ UNCHANGED buffers
      ELSE /\ received' = to
           /\ historyFrom' = history
           /\ pendingFrom' = pending
           /\ dropped' = dropped + (pending - pendingFrom)
           /\ UNCHANGED task

BeginCollect ==
  /\ task = "idle"
  /\ task' = "draining"
  /\ UNCHANGED <<written, wide, ends, buffers, log, replay>>

\* try_recv until the channel is empty; the pump goes on meanwhile.
Receive ==
  /\ task = "draining" /\ ends # {}
  /\ Enqueue(Min(ends))
  /\ ends' = ends \ {Min(ends)}
  /\ UNCHANGED <<written, wide, log, replay>>

\* Mutant: the cut is made after MaxEmit bytes, wherever that is.
EmitToLimit == Min({received, pendingFrom + MaxEmit})

\* Where take_output_chunk cuts: after the last character that begins within
\* the first MaxEmit bytes.
EmitTo ==
  IF received - pendingFrom <= MaxEmit THEN received
  ELSE Min({cut \in pendingFrom + MaxEmit .. received : cut \notin wide})

\* Mutant: what follows the emitted bytes is cleared with them.
TakeChunkClearing ==
  IF pendingFrom = received /\ dropped = 0
  THEN UNCHANGED <<pendingFrom, dropped, log>>
  ELSE /\ log' = Append(log, [lost |-> dropped, from |-> pendingFrom, to |-> EmitTo])
       /\ pendingFrom' = received
       /\ dropped' = 0

\* Pane::take_output_chunk, and the event that brings it to the clients
TakeChunk ==
  IF pendingFrom = received /\ dropped = 0
  THEN UNCHANGED <<pendingFrom, dropped, log>>
  ELSE /\ log' = Append(log, [lost |-> dropped, from |-> pendingFrom, to |-> EmitTo])
       /\ pendingFrom' = EmitTo
       /\ dropped' = 0

EndCollect ==
  /\ task = "draining" /\ ends = {}
  /\ TakeChunk
  /\ task' = "idle"
  /\ UNCHANGED <<written, wide, ends, received, historyFrom, replay>>

\* attach_client replays the history, and then passes on every later event.
Attach ==
  /\ task = "idle" /\ replay = NotAttached
  /\ replay' = [from |-> historyFrom, to |-> received, since |-> Len(log)]
  /\ UNCHANGED <<written, wide, ends, buffers, task, log>>

Settled == IF log = <<>> THEN 0 ELSE log[Len(log)].to

\* Type invariant.  The buffers keep within their limits.
OutputTypeOK ==
  /\ written \in 0 .. MaxWritten
  /\ ends \subseteq received + 1 .. written
  /\ wide \subseteq 1 .. written
  /\ received \in Nat /\ dropped \in Nat
  /\ historyFrom \in 0 .. received /\ received - historyFrom <= MaxHistory
  /\ pendingFrom \in 0 .. received /\ received - pendingFrom <= MaxPending
  /\ task \in {"idle", "draining", "dead"}
  /\ log \in Seq([lost : Nat, from : Nat, to : Nat])
  /\ replay \in [from : Nat, to : Nat, since : Nat \cup {-1}]

\* What was taken out and not delivered is pending, but for the bytes the next
\* event will report as lost.
DroppedIsTheGap == dropped = pendingFrom - Settled

\* No event starts or ends in the middle of a character: clients decode each
\* event on its own.
CutsBetweenCharacters ==
  \A i \in 1 .. Len(log) : {log[i].from, log[i].to} \cap wide = {}

\* The replay of an attached client is the newest output, as much as is kept,
\* and nothing is missing between it and the events that follow.
ReplayLeavesNoGap ==
  replay # NotAttached =>
    /\ replay.to - replay.from = Min({replay.to, MaxHistory})
    /\ IF Len(log) > replay.since
       THEN log[replay.since + 1].from - log[replay.since + 1].lost <= replay.to
       ELSE pendingFrom - dropped <= replay.to

\* The buffer keeps the promise of OutputLedger: until a panic ends the daemon
\* everything the shell writes is in one event, in order, or reported lost, and
\* it is so in the end.
Ledger == INSTANCE OutputLedger WITH alive <- task # "dead"

ImplementsLedger == Ledger!Spec

(***************************************************************************)
(* pane.rs:100, the test output_buffer_drops_oldest_bytes_and_reports_it:  *)
(* a full buffer drops its oldest bytes.  Violated: if the byte to cut at  *)
(* is inside a character, String::drain panics, and the daemon with it.    *)
(***************************************************************************)
NeverPanics == task # "dead"
===============================================================================
