------------------------------ MODULE DaemonStart ------------------------------
(***************************************************************************)
(* The start and the end of a daemon: Mode::Start of main.rs,              *)
(* is_server_running and cleanup_stale_socket, the beginning and the end   *)
(* of SessionManagerServer::run, and the two files they leave for others,  *)
(* the socket and the metadata with the process id.  Several processes     *)
(* start, stop and die on one path; nothing but the files stands between   *)
(* them.  Process ids are not used again.                                  *)
(*                                                                         *)
(* Each step is the code between two points where the task is suspended.   *)
(***************************************************************************)
EXTENDS LocalProtocol

CONSTANT Torn      \* metadata that does not decode

ASSUME StartAssumption == Torn \notin Processes \cup {None}

VARIABLES
  socket,     \* the process whose socket is at the path, or None
  metadata,   \* the process the metadata file names, or Torn, or None
  writers,    \* the processes that have opened this metadata file to write it
  seen,       \* process |-> what it read there
  pass,       \* process |-> cleanups it has been through: main and run do one each
  crashed,    \* history: the processes that ended without removing their files
  found,      \* history: process |-> whose socket was there when it began, unless the
              \* answer to its ping did not refuse it
  company,    \* history: processes that have run beside another one
  raced       \* history: a start has overlapped another one, or an end

fileVars == <<socket, metadata, writers, seen, pass>>
history == <<crashed, found, company, raced>>
vars == <<localVars, fileVars, history>>

Init ==
  /\ LocalInit
  /\ socket = None /\ metadata = None /\ writers = {}
  /\ seen = [p \in Processes |-> None]
  /\ pass = [p \in Processes |-> 1]
  /\ crashed = {} /\ found = [p \in Processes |-> None]
  /\ company = {} /\ raced = FALSE

Over == {"refused", "ended"}
Alive(p) == phase[p] \notin Over \cup {"off"}
Starting(p) == Alive(p) /\ phase[p] \notin {"serving", "stopping", "leaving"}
Stopping(p) == phase[p] \in {"stopping", "leaving"}

Goes(p, to) == phase' = [phase EXCEPT ![p] = to]

-------------------------------------------------------------------------------
Begin(p) ==
  LET others == {q \in Processes : Alive(q)}
  IN  /\ phase[p] = "off"
      /\ Goes(p, "probing")
      /\ found' = [found EXCEPT ![p] = socket]
      /\ company' = IF others = {} THEN company ELSE company \cup others \cup {p}
      /\ raced' = (raced \/ \E q \in others : Starting(q) \/ Stopping(q))
      /\ UNCHANGED <<requests, conn, fileVars, crashed>>

\* is_server_running: whoever listens at the path is sent a ping.
Probe(p) ==
  /\ phase[p] = "probing" /\ conn[p] = NoConnection
  /\ IF socket # None /\ Listening(socket)
     THEN Send(p, "command", socket) /\ UNCHANGED phase
     ELSE Goes(p, "reading") /\ UNCHANGED conn
  /\ UNCHANGED <<requests, fileVars, history>>

\* Mutants: the probe does not wait for its answer; a start that is refused
\* removes the socket on its way out.
ProbeEndsImpatiently(p) ==
  /\ phase[p] = "probing" /\ conn[p] # NoConnection
  /\ Goes(p, IF conn[p].at = "answered" THEN "refused" ELSE "reading")
  /\ UNCHANGED <<requests, conn, fileVars, history>>
ProbeEndsCleaning(p) ==
  /\ phase[p] = "probing" /\ conn[p].at \in {"answered", "closed"}
  /\ Goes(p, IF conn[p].at = "answered" THEN "refused" ELSE "reading")
  /\ socket' = IF conn[p].at = "answered" THEN None ELSE socket
  /\ UNCHANGED <<requests, conn, metadata, writers, seen, pass, history>>

\* The ping is waited for without a limit of time.  An answer refuses the start,
\* unless it is an error, as when the daemon cannot ask for the state of a shell,
\* or of another version of the protocol.
ProbeEnds(p) ==
  /\ phase[p] = "probing"
  /\ \/ conn[p].at = "answered" /\ Goes(p, "refused") /\ UNCHANGED found
     \/ conn[p].at = "closed" /\ Goes(p, "reading") /\ UNCHANGED found
     \/ /\ conn[p].at = "answered" /\ Goes(p, "reading")
        /\ found' = [found EXCEPT ![p] = None]
  /\ UNCHANGED <<requests, conn, fileVars, crashed, company, raced>>

\* cleanup_stale_socket, from here to RemoveMetadata
ReadMetadata(p) ==
  /\ phase[p] = "reading"
  /\ Goes(p, IF metadata = Torn THEN "refused" ELSE "checking")
  /\ seen' = [seen EXCEPT ![p] = metadata]
  /\ UNCHANGED <<requests, conn, socket, metadata, writers, pass, history>>

\* Mutant: the process that is named is not looked for.
CheckTrusting(p) ==
  /\ phase[p] = "checking"
  /\ Goes(p, IF seen[p] # None /\ socket # None THEN "refused"
             ELSE IF socket # None THEN "removing" ELSE "removed")
  /\ UNCHANGED <<requests, conn, fileVars, history>>

Check(p) ==
  /\ phase[p] = "checking"
  /\ Goes(p, IF seen[p] # None /\ Alive(seen[p]) /\ socket # None THEN "refused"
             ELSE IF socket # None THEN "removing" ELSE "removed")
  /\ UNCHANGED <<requests, conn, fileVars, history>>

\* Whatever socket is there now; if there is none any more the start fails.
RemoveSocket(p) ==
  /\ phase[p] = "removing"
  /\ Goes(p, IF socket = None THEN "refused" ELSE "removed")
  /\ socket' = None
  /\ UNCHANGED <<requests, conn, metadata, writers, seen, pass, history>>

RemoveMetadata(p) ==
  /\ phase[p] = "removed"
  /\ IF seen[p] = None THEN UNCHANGED <<metadata, writers>>
     ELSE metadata' = None /\ writers' = {}
  /\ pass' = [pass EXCEPT ![p] = 2]
  /\ Goes(p, IF pass[p] = 1 THEN "reading" ELSE "binding")
  /\ UNCHANGED <<requests, conn, socket, seen, history>>

Bind(p) ==
  /\ phase[p] = "binding"
  /\ Goes(p, IF socket = None THEN "bound" ELSE "refused")
  /\ socket' = IF socket = None THEN p ELSE socket
  /\ UNCHANGED <<requests, conn, metadata, writers, seen, pass, history>>

\* write_metadata truncates the file and then writes it.
BeginMetadata(p) ==
  /\ phase[p] = "bound"
  /\ Goes(p, "writing")
  /\ metadata' = Torn
  /\ writers' = writers \cup {p}
  /\ UNCHANGED <<requests, conn, socket, seen, pass, history>>

\* The text goes where the file has gone if it was removed meanwhile.  It may
\* leave the end of a longer one that another process has written.
WriteMetadata(p) ==
  /\ phase[p] = "writing"
  /\ Goes(p, "restoring")
  /\ metadata' \in IF p \notin writers THEN {metadata}
                   ELSE IF metadata = Torn THEN {p} ELSE {p, Torn}
  /\ UNCHANGED <<requests, conn, socket, writers, seen, pass, history>>

\* restore_state and persist_state, before the listener and the loop.
Restored(p) ==
  /\ phase[p] = "restoring"
  /\ Goes(p, "serving")
  /\ UNCHANGED <<requests, conn, fileVars, history>>

-------------------------------------------------------------------------------
\* A turn of the loop, which a stop request ends, and ctrl_c.
Serve(p) ==
  /\ Handle(p)
  /\ raced' = (raced \/ (Stopping(p)' /\ \E q \in Processes : Starting(q)))
  /\ UNCHANGED <<fileVars, crashed, found, company>>

Interrupt(p) ==
  /\ phase[p] = "serving"
  /\ Goes(p, "stopping")
  /\ raced' = (raced \/ \E q \in Processes : Starting(q))
  /\ UNCHANGED <<requests, conn, fileVars, crashed, found, company>>

\* After shutdown_all run removes what is at the path, which may be another's.
RemoveOwnSocket(p) ==
  /\ phase[p] = "stopping"
  /\ Goes(p, "leaving")
  /\ socket' = None
  /\ UNCHANGED <<requests, conn, metadata, writers, seen, pass, history>>

\* Mutant: the metadata stays.
LeaveMetadata(p) ==
  /\ phase[p] = "leaving"
  /\ Goes(p, "ended")
  /\ Closing(p)
  /\ UNCHANGED <<fileVars, history>>

Leave(p) ==
  /\ phase[p] = "leaving"
  /\ Goes(p, "ended")
  /\ metadata' = None /\ writers' = {}
  /\ Closing(p)
  /\ UNCHANGED <<socket, seen, pass, history>>

\* The process is killed, or run returns the error of write_metadata,
\* restore_state or persist_state: the files stay.
Crash(p) ==
  /\ Alive(p)
  /\ Goes(p, "ended")
  /\ crashed' = crashed \cup {p}
  /\ Closing(p)
  /\ UNCHANGED <<fileVars, found, company, raced>>

Ask(c, kind) ==
  /\ socket # None /\ Listening(socket)
  /\ Send(c, kind, socket)
  /\ UNCHANGED <<phase, requests, fileVars, history>>

Carry(e) == Take(e) \/ Reply(e) \/ Reset(e)

Start(p) ==
  \/ Probe(p)
  \/ ProbeEnds(p)
  \/ ReadMetadata(p)
  \/ Check(p)
  \/ RemoveSocket(p)
  \/ RemoveMetadata(p)
  \/ Bind(p)
  \/ BeginMetadata(p)
  \/ WriteMetadata(p)
  \/ Restored(p)

Stop(p) == RemoveOwnSocket(p) \/ Leave(p)

Next ==
  \/ \E p \in Processes :
       Begin(p) \/ Start(p) \/ Serve(p) \/ Interrupt(p) \/ Stop(p) \/ Crash(p)
  \/ \E c \in Clients : \E kind \in Kinds : Ask(c, kind)
  \/ \E e \in Ends : Carry(e) /\ UNCHANGED <<fileVars, history>>

\* Processes and tasks run on: a daemon that was begun gets to its loop or to
\* its end, the loop serves its queue, a task its connection.
Fairness ==
  /\ \A p \in Processes : WF_vars(Start(p)) /\ WF_vars(Serve(p)) /\ WF_vars(Stop(p))
  /\ \A e \in Ends : WF_vars(Carry(e) /\ UNCHANGED <<fileVars, history>>)

Spec == Init /\ [][Next]_vars /\ Fairness

-------------------------------------------------------------------------------
Phases ==
  {"off", "probing", "reading", "checking", "removing", "removed", "binding",
   "bound", "writing", "restoring", "serving", "stopping", "leaving"} \cup Over

\* Type invariant.  A request is in the queue of the process it was sent to, once,
\* until it is served.
LocalTypeOK ==
  /\ phase \in [Processes -> Phases]
  /\ conn \in [Ends -> [to : Processes, kind : Kinds,
                        at : Open \cup {"answered", "closed"}] \cup {NoConnection}]
  /\ \A p \in Processes :
       /\ requests[p] \in Seq(Ends) /\ IsInjective(requests[p])
       /\ Range(requests[p]) = {e \in Ends : conn[e].to = p /\ conn[e].at = "queued"}
  /\ socket \in Processes \cup {None}
  /\ metadata \in Processes \cup {None, Torn}
  /\ seen \in [Processes -> Processes \cup {None, Torn}]
  /\ pass \in [Processes -> 1 .. 2]
  /\ writers \subseteq Processes
  /\ crashed \subseteq Processes /\ company \subseteq Processes
  /\ found \in [Processes -> Processes \cup {None}]
  /\ raced \in BOOLEAN

(***************************************************************************)
(* What status calls stale is the work of a crash: a socket or metadata of *)
(* a process that neither runs nor has crashed are never left, whosever    *)
(* files the processes remove.                                             *)
(***************************************************************************)
FilesHaveOwners ==
  /\ socket # None =>
       \/ socket \in crashed
       \/ Listening(socket) \/ phase[socket] = "stopping"
  /\ metadata \in Processes =>
       metadata \in crashed
         \/ phase[metadata] \in {"restoring", "serving", "stopping", "leaving"}
  /\ metadata = Torn =>
       raced \/ crashed # {} \/ \E p \in Processes : phase[p] = "writing"

\* A daemon that is alone from its start to its end is never refused, whatever
\* crashed daemons have left behind, but for metadata torn in the middle.
AloneItStarts ==
  \A p \in Processes :
    phase[p] = "refused" => p \in company \/ metadata = Torn

\* Unless a start overlaps another one or the end of a daemon, there is at most
\* one daemon, and those who connect reach it.
OneServer ==
  ~raced =>
    \A p \in Processes : Listening(p) => socket = p

\* Even then a start does not remove the socket of a daemon it has found at its
\* beginning and that still runs, because it waits for the answer to its ping,
\* unless that is an error.
NoTakeover ==
  [][\A p, q \in Processes :
       phase[p] = "removing" /\ socket = q /\ socket' = None /\ found[p] = q
         => ~Listening(q)]_vars

Waits(e) == conn[e].at \in {"sent", "queued", "answering"}

\* Nobody waits for ever: every request, also the ping of a starting process, is
\* answered, or its connection is closed, whatever becomes of the daemon.
RequestsEnd == \A e \in Ends : Waits(e) ~> ~Waits(e)
===============================================================================
