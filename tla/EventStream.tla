------------------------------ MODULE EventStream ------------------------------
(***************************************************************************)
(* When the events that PaneOutput makes are put into the queues of the    *)
(* attached clients (run, handle_request and send_input of server.rs).     *)
(* The runtime tick broadcasts what it collects at once.  A request begins *)
(* with a collect too, whose events are held while it is served: they come *)
(* before its own if it succeeds, and are dropped if it fails.  send_input *)
(* collects again after it has waited for the terminal, and broadcasts     *)
(* that before it returns, and so before what is held.                     *)
(*                                                                         *)
(* The queues are unbounded and in order.                                  *)
(***************************************************************************)
EXTENDS PaneOutput, SequencesExt

VARIABLES
  serving,     \* what the loop is in: "none", a "tick", a "request", or the
               \* "input" it has written
  held,        \* the events collected for the request
  stream,      \* the events broadcast so far
  failed       \* history: a request has failed since the client attached

streamVars == <<serving, held, stream, failed>>
vars == <<paneVars, streamVars>>

Init ==
  /\ PaneInit
  /\ serving = "none" /\ held = <<>> /\ stream = <<>> /\ failed = FALSE

-------------------------------------------------------------------------------
PumpOutput ==
  /\ \E size \in Chunks : Pump(size)
  /\ UNCHANGED streamVars

\* The tick, or a request that is taken from the queue, begins with a collect.
Begin(what) ==
  /\ serving = "none"
  /\ BeginCollect
  /\ serving' = what
  /\ UNCHANGED <<held, stream, failed>>

Drain == Receive /\ UNCHANGED streamVars

\* The events that the step makes
Made == SubSeq(log', Len(log) + 1, Len(log'))

\* Mutant: a request broadcasts what it has collected at once, and again in the
\* end.
EndsCollectTwice ==
  /\ EndCollect
  /\ stream' = stream \o Made
  /\ held' = IF serving = "request" THEN Made ELSE held
  /\ serving' = IF serving = "tick" THEN "none" ELSE serving
  /\ UNCHANGED failed

\* Only a request holds what was collected.
EndsCollect ==
  /\ EndCollect
  /\ IF serving = "request" THEN held' = Made /\ UNCHANGED stream
     ELSE stream' = stream \o Made /\ UNCHANGED held
  /\ serving' = IF serving = "tick" THEN "none" ELSE serving
  /\ UNCHANGED failed

Returned == serving \in {"request", "input"} /\ task = "idle"

\* send_input has written to the terminal and waited.
CollectAgain ==
  /\ serving = "request"
  /\ BeginCollect
  /\ serving' = "input"
  /\ UNCHANGED <<held, stream, failed>>

\* Mutant: an answer leaves out what was collected first.
SucceedQuietly ==
  /\ Returned
  /\ held' = <<>> /\ serving' = "none"
  /\ UNCHANGED <<paneVars, stream, failed>>

Succeed ==
  /\ Returned
  /\ stream' = stream \o held
  /\ held' = <<>> /\ serving' = "none"
  /\ UNCHANGED <<paneVars, failed>>

\* The handler returns an error: send_input before it has written.
Fail ==
  /\ Returned /\ serving = "request"
  /\ failed' = (failed \/ held # <<>>)
  /\ held' = <<>> /\ serving' = "none"
  /\ UNCHANGED <<paneVars, stream>>

ClientAttaches ==
  /\ serving = "none"
  /\ Attach
  /\ failed' = FALSE
  /\ UNCHANGED <<serving, held, stream>>

Next ==
  \/ PumpOutput
  \/ Begin("tick")
  \/ Begin("request")
  \/ Drain
  \/ EndsCollect
  \/ CollectAgain
  \/ Succeed
  \/ Fail
  \/ ClientAttaches

\* The runtime tick keeps coming between requests, and a collect and a request,
\* once begun, run to their end.
Spec ==
  /\ Init /\ [][Next]_vars
  /\ WF_vars(Begin("tick")) /\ WF_vars(Drain) /\ WF_vars(EndsCollect)
  /\ WF_vars(Succeed)

-------------------------------------------------------------------------------
\* Type invariant.
StreamTypeOK ==
  /\ OutputTypeOK
  /\ serving \in {"none", "tick", "request", "input"}
  /\ held \in Seq([lost : Nat, from : Nat, to : Nat])
  /\ stream \in Seq([lost : Nat, from : Nat, to : Nat])
  /\ failed \in BOOLEAN

Before(a, b) == a.to <= b.from

\* Nothing is broadcast twice, and what is broadcast late, because a request
\* held it, is overtaken by one event of its pane and no more.
OvertakenOnce ==
  \A i, j \in 1 .. Len(stream) :
    i < j => \/ Before(stream[i], stream[j])
             \/ j = i + 1 /\ Before(stream[j], stream[i])

\* Unless a request has failed, an attached client misses nothing: it is sent
\* the newest output and then every event that is made, without a gap between.
ClientMissesNothing ==
  replay # NotAttached /\ ~failed /\ serving = "none" =>
    /\ ReplayLeavesNoGap
    /\ \A i \in replay.since + 1 .. Len(log) : log[i] \in ToSet(stream)
===============================================================================
