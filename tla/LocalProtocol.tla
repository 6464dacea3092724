----------------------------- MODULE LocalProtocol -----------------------------
(***************************************************************************)
(* The connections to the daemon's Unix socket: handle_local_connection    *)
(* with its task per connection, the queue to the daemon's loop, and what  *)
(* send_client_request and attach_client_stream see of it at the other     *)
(* end (server.rs).  The daemon is one of several processes, whose start   *)
(* and end are in DaemonStart.                                             *)
(*                                                                         *)
(* A connection carries one request.  Its task ends with the process that  *)
(* runs it, whatever it had yet to write.                                  *)
(***************************************************************************)
EXTENDS Integers, Sequences, Functions

CONSTANTS
  Processes,       \* `caterm start` on one socket path, each once
  Clients,         \* other invocations of caterm, each with one request
  None

ASSUME LocalAssumption ==
  Processes \cap Clients = {} /\ None \notin Processes \cup Clients

Ends == Processes \cup Clients     \* a starting process is a client too: it pings

Kinds == {"command", "attach", "stop"}

VARIABLES
  phase,      \* process |-> where it is, see DaemonStart
  requests,   \* process |-> the queue to its loop: the ends that asked
  conn        \* end |-> [to, kind, at]: its connection, and how far it has got

localVars == <<phase, requests, conn>>

NoConnection == [to |-> None, kind |-> "none", at |-> "none"]

LocalInit ==
  /\ phase = [p \in Processes |-> "off"]
  /\ requests = [p \in Processes |-> <<>>]
  /\ conn = [e \in Ends |-> NoConnection]

\* Once the socket is bound connections are made, although nobody takes them
\* before the loop runs.
Listening(p) == phase[p] \in {"bound", "writing", "restoring", "serving"}

Moves(e, at) == conn' = [conn EXCEPT ![e].at = at]

-------------------------------------------------------------------------------
\* A request is sent on a new connection.
Send(e, kind, p) ==
  /\ conn[e] = NoConnection
  /\ conn' = [conn EXCEPT ![e] = [to |-> p, kind |-> kind, at |-> "sent"]]

\* Mutant: the task goes on reading once it has passed on a request.
TakeReading(e) ==
  LET p == conn[e].to
  IN  /\ conn[e].at = "sent" /\ phase[p] = "serving" /\ Len(requests[p]) < 2
      /\ requests' = [requests EXCEPT ![p] = Append(@, e)]
      /\ UNCHANGED <<phase, conn>>

\* spawn_local_listener accepts, and the new task puts the request in the queue.
Take(e) ==
  LET p == conn[e].to
  IN  /\ conn[e].at = "sent" /\ phase[p] = "serving"
      /\ Moves(e, "queued")
      /\ requests' = [requests EXCEPT ![p] = Append(@, e)]
      /\ UNCHANGED phase

\* Mutant: the error of a refused attach is kept from the connection's task.
HandleQuietly(p) ==
  /\ phase[p] = "serving" /\ requests[p] # <<>>
  /\ LET e == Head(requests[p])
     IN  \/ conn[e].kind = "command" /\ Moves(e, "answering") /\ UNCHANGED phase
         \/ /\ conn[e].kind = "attach"
            /\ UNCHANGED conn \/ Moves(e, "streaming")
            /\ UNCHANGED phase
         \/ /\ conn[e].kind = "stop"
            /\ Moves(e, "answering") /\ phase' = [phase EXCEPT ![p] = "stopping"]
  /\ requests' = [requests EXCEPT ![p] = Tail(@)]

\* One turn of the loop: the answer goes to the connection's task, an attached
\* client gets its queue of events or the reason why not, and stop ends the loop.
Handle(p) ==
  /\ phase[p] = "serving" /\ requests[p] # <<>>
  /\ LET e == Head(requests[p])
     IN  \/ conn[e].kind = "command" /\ Moves(e, "answering") /\ UNCHANGED phase
         \/ /\ conn[e].kind = "attach"
            /\ Moves(e, "answering") \/ Moves(e, "streaming")
            /\ UNCHANGED phase
         \/ /\ conn[e].kind = "stop"
            /\ Moves(e, "answering") /\ phase' = [phase EXCEPT ![p] = "stopping"]
  /\ requests' = [requests EXCEPT ![p] = Tail(@)]

\* The connection's task writes the answer.
Reply(e) ==
  /\ conn[e].at = "answering"
  /\ Moves(e, "answered")
  /\ UNCHANGED <<phase, requests>>

Open == {"sent", "queued", "answering", "streaming"}

\* The listener goes with the loop, and with it whom it has not accepted.
Reset(e) ==
  /\ conn[e].at = "sent" /\ phase[conn[e].to] \in {"stopping", "leaving"}
  /\ Moves(e, "closed")
  /\ UNCHANGED <<phase, requests>>

\* What becomes of the connections of a process that ends.
Closing(p) ==
  /\ conn' = [e \in Ends |->
       IF conn[e].to = p /\ conn[e].at \in Open THEN [conn[e] EXCEPT !.at = "closed"]
       ELSE conn[e]]
  /\ requests' = [requests EXCEPT ![p] = <<>>]
===============================================================================
