------------------------------ MODULE RelayClient ------------------------------
(***************************************************************************)
(* The daemon's side of the relay (relay.rs): the task that connects,      *)
(* reads one frame after another, waits for the daemon to serve it if it   *)
(* is a request, sends the answer, and connects again after a delay when   *)
(* the connection is lost.  It is composed with the relay of RelayRouting, where a daemon *)
(* connection now carries nothing but answers.                             *)
(*                                                                         *)
(* The two ends of a connection notice its end on their own, and what one  *)
(* end has written may never be read by the other.  The relay passes on    *)
(* every frame but the one that closes a connection, so the daemon gets    *)
(* whatever its clients send: requests, texts that are none, pings, and    *)
(* binary frames and pongs, which it ignores.                              *)
(***************************************************************************)
EXTENDS RelayRouting

CONSTANTS
  Home,            \* the session of the daemon's configuration
  MaxBackoff,      \* seconds, 30 in relay.rs
  MaxConns,        \* bound: connections that are made
  MaxRequests      \* bound: frames a client connection sends

ASSUME ClientAssumption ==
  /\ Home \in Sessions
  /\ MaxBackoff \in Nat \ {0}
  /\ MaxConns \in Nat /\ MaxRequests \in Nat

VARIABLES
  task,        \* "connecting", "reading", "waiting", "answering" or "sleeping"
  current,     \* the connection the task has, or None
  taken,       \* connection |-> frames the daemon has read from it
  kind,        \* connection |-> what these frames were, in order
  handled,     \* requests the daemon has served, in order
  answers,     \* connection |-> which of its frames the daemon has answered, in order
  backoff      \* seconds

linkVars == <<task, current, taken, kind, handled, answers, backoff>>
vars == <<relayVars, linkVars>>

Init ==
  /\ RelayInit
  /\ task = "connecting" /\ current = None /\ backoff = 1
  /\ taken = [d \in DaemonConns |-> 0]
  /\ answers = [d \in DaemonConns |-> <<>>]
  /\ kind = [d \in DaemonConns |-> <<>>] /\ handled = <<>>

-------------------------------------------------------------------------------
\* One more connection may be made.
MayConnect == Cardinality({c \in Conns : state[c] # "new"}) < MaxConns

\* connect_async returns once the relay has accepted the handshake.
Dial(d) ==
  /\ task = "connecting" /\ MayConnect
  /\ Accept(d, Home)
  /\ task' = "reading" /\ current' = d
  /\ UNCHANGED <<taken, kind, handled, answers, backoff>>

\* run_connection returns an error.
Fail ==
  /\ task' = "sleeping" /\ current' = None
  /\ UNCHANGED backoff

\* The relay cannot be reached, or its acceptance is lost on the way.
DialInVain ==
  /\ task = "connecting"
  /\ \/ UNCHANGED relayVars
     \/ MayConnect /\ \E d \in DaemonConns : Accept(d, Home)
  /\ Fail
  /\ UNCHANGED <<taken, kind, handled, answers>>

Double(seconds) == Min({2 * seconds, MaxBackoff})

\* The sleep of spawn_relay_client, after which the next one is longer.
Wake ==
  /\ task = "sleeping"
  /\ task' = "connecting" /\ backoff' = Double(backoff)
  /\ UNCHANGED <<relayVars, current, taken, kind, handled, answers>>

\* The last frame the daemon has read from its connection.
Taken == delivered[current][taken[current]]

\* What a frame may be to run_connection: a request, a text that is none, a ping,
\* or a frame of another kind, binary or a pong.
Kinds == {"request", "garbled", "ping", "ignored"}

\* Mutant: a text that is no request is ignored.
ReceivePassingOver ==
  /\ task = "reading" /\ taken[current] < Len(delivered[current])
  /\ taken' = [taken EXCEPT ![current] = @ + 1]
  /\ \E k \in Kinds :
       /\ kind' = [kind EXCEPT ![current] = Append(@, k)]
       /\ task' = CASE k = "request" -> "waiting" [] k = "ping" -> "answering"
                    [] OTHER -> "reading"
  /\ UNCHANGED <<relayVars, current, handled, answers, backoff>>

\* A frame arrives, which may be of any kind.  A text that is no request ends the
\* connection, whosever it is; a ping is answered without the daemon's loop.
Receive ==
  /\ task = "reading" /\ taken[current] < Len(delivered[current])
  /\ taken' = [taken EXCEPT ![current] = @ + 1]
  /\ \E k \in Kinds :
       /\ kind' = [kind EXCEPT ![current] = Append(@, k)]
       /\ \/ k = "garbled" /\ Fail
          \/ k = "ignored" /\ UNCHANGED <<task, current, backoff>>
          \/ k = "ping" /\ task' = "answering" /\ UNCHANGED <<current, backoff>>
          \/ k = "request" /\ task' = "waiting" /\ UNCHANGED <<current, backoff>>
  /\ UNCHANGED <<relayVars, handled, answers>>

\* dispatch_request: the daemon's loop serves the request, while the task waits
\* and does not notice what becomes of its connection.
Handle ==
  /\ task = "waiting"
  /\ handled' = Append(handled, Taken)
  /\ task' = "answering"
  /\ UNCHANGED <<relayVars, current, taken, kind, answers, backoff>>

\* Mutants: a frame whose answer cannot be sent is put back; the task goes on
\* to the next frame without having answered.
AnswerRetrying ==
  /\ task = "answering"
  /\ \/ /\ answers' = [answers EXCEPT ![current] = Append(@, taken[current])]
        /\ task' = "reading" /\ UNCHANGED <<current, taken, kind, backoff>>
     \/ /\ task' = "reading" /\ taken' = [taken EXCEPT ![current] = @ - 1]
        /\ kind' = [kind EXCEPT ![current] = Front(@)]
        /\ UNCHANGED <<current, answers, backoff>>
  /\ UNCHANGED <<relayVars, handled>>
AnswerSkipping ==
  /\ task = "answering"
  /\ task' = "reading"
  /\ UNCHANGED <<relayVars, current, taken, kind, handled, answers, backoff>>

\* The answer, or the pong, is sent.  If that fails, the request has been served
\* all the same.
Answer ==
  /\ task = "answering"
  /\ \/ /\ answers' = [answers EXCEPT ![current] = Append(@, taken[current])]
        /\ task' = "reading" /\ UNCHANGED <<current, backoff>>
     \/ Fail /\ UNCHANGED answers
  /\ UNCHANGED <<relayVars, taken, kind, handled>>

\* The connection ends while the task reads: in order, or with an error.
HangUp ==
  /\ task = "reading"
  /\ \/ task' = "connecting" /\ current' = None /\ backoff' = 1
     \/ Fail
  /\ UNCHANGED <<relayVars, taken, kind, handled, answers>>

-------------------------------------------------------------------------------
\* A client sends what it likes; a daemon's connection has its answers to read.
ClientSends(c) ==
  /\ c \in ClientConns /\ sent[c] < MaxRequests
  /\ Read(c)
  /\ UNCHANGED linkVars

AnswerArrives(d) ==
  /\ d \in DaemonConns /\ sent[d] < Len(answers[d])
  /\ Read(d)
  /\ UNCHANGED linkVars

ClientConnects(c) ==
  c \in ClientConns /\ MayConnect /\ \E s \in Sessions : Accept(c, s)

Relay(c) ==
  /\ \/ ClientConnects(c)
     \/ Register(c)
     \/ \E r \in Conns : Forward(c, r)
     \/ Write(c)
     \/ Close(c)
     \/ Unregister(c)
  /\ UNCHANGED linkVars

Next ==
  \/ \E d \in DaemonConns : Dial(d)
  \/ DialInVain
  \/ Wake
  \/ Receive
  \/ Handle
  \/ Answer
  \/ HangUp
  \/ \E c \in Conns : ClientSends(c) \/ AnswerArrives(c) \/ Relay(c)

\* The tasks of the relay and of the daemon run on: a frame that has arrived is
\* read, looked up, queued and written, and a request is served and answered.
Fairness ==
  /\ WF_vars(Receive) /\ WF_vars(Handle) /\ WF_vars(Answer)
  /\ \A c \in Conns :
       /\ WF_vars(AnswerArrives(c))
       /\ WF_vars(Write(c) /\ UNCHANGED linkVars)
       /\ \A r \in Conns : WF_vars(Forward(c, r) /\ UNCHANGED linkVars)

Spec == Init /\ [][Next]_vars /\ Fairness

-------------------------------------------------------------------------------
\* Type invariant.
LinkTypeOK ==
  /\ RelayTypeOK
  /\ task \in {"connecting", "reading", "waiting", "answering", "sleeping"}
  /\ current \in DaemonConns \cup {None}
  /\ current = None <=> task \in {"connecting", "sleeping"}
  /\ taken \in [DaemonConns -> Nat]
  /\ kind \in [DaemonConns -> Seq(Kinds)]
  /\ \A d \in DaemonConns : Len(kind[d]) = taken[d]
  /\ handled \in Seq(ClientConns \X Nat)
  /\ answers \in [DaemonConns -> Seq(Nat)]
  /\ backoff \in 1 .. MaxBackoff

\* No request is served twice, whatever connections are lost before its answer
\* is sent: the daemon forgets what it took from a connection with it.
HandledOnce == IsInjective(handled)

\* The frame that the n-th answer on d answers, and where the one before it is.
AnsweredFrame(d, n) == delivered[d][answers[d][n]]
Before(d, n) == IF n = 1 THEN 0 ELSE answers[d][n - 1]

\* The n-th answer on d is to the first frame after the one answered before it
\* that is not ignored: a ping, or a request that the daemon has served.
InTurn(d, n) ==
  /\ answers[d][n] \in Before(d, n) + 1 .. taken[d]
  /\ \A k \in Before(d, n) + 1 .. answers[d][n] - 1 : kind[d][k] = "ignored"
  /\ kind[d][answers[d][n]] = "ping" \/ AnsweredFrame(d, n) \in ToSet(handled)

(***************************************************************************)
(* A connection's answers are to the frames on it that ask for one, in the *)
(* order in which the relay passed them on, with none left out and none    *)
(* added, however many frames in between are ignored.  What a client is    *)
(* sent by a daemon is such an answer, to a frame of the client's session; *)
(* all clients of the session get it, and cannot tell whose it is.         *)
(***************************************************************************)
AnswersInOrder ==
  /\ \A d \in DaemonConns : \A n \in 1 .. Len(answers[d]) : InTurn(d, n)
  /\ \A c \in ClientConns : \A i \in 1 .. Len(delivered[c]) :
       LET d == delivered[c][i][1]
           n == delivered[c][i][2]
       IN  n <= Len(answers[d]) /\ session[AnsweredFrame(d, n)[1]] = session[c]

Asked(c, n, d) == current = d /\ <<c, n>> \in ToSet(queue[d])

Ignored(c, n, d) ==
  \E k \in 1 .. taken[d] : delivered[d][k] = <<c, n>> /\ kind[d][k] = "ignored"

Answered(c, n, d) ==
  \E i \in 1 .. Len(delivered[c]) :
    /\ delivered[c][i][1] = d
    /\ AnsweredFrame(d, delivered[c][i][2]) = <<c, n>>

\* Both ends of a connection have it, and the relay can write to it.
Linked(c, d) ==
  /\ current = d /\ state[d] = "open" /\ writing[d]
  /\ state[c] = "open" /\ writing[c]

(***************************************************************************)
(* A frame that was queued for the daemon's connection is answered in the  *)
(* end, unless it turns out to be one of those that are ignored, or its    *)
(* own connection or that one breaks, as it does for a text that is no     *)
(* request.                                                                *)
(***************************************************************************)
RequestsAreAnswered ==
  \A c \in ClientConns, n \in 1 .. MaxRequests, d \in DaemonConns :
    Asked(c, n, d) ~> (Answered(c, n, d) \/ Ignored(c, n, d) \/ ~Linked(c, d))
===============================================================================
