---------------------------- MODULE SessionManager ----------------------------
(***************************************************************************)
(* SessionManagerServer::run around the hierarchy of SessionTree: the      *)
(* state file, start and restore, the save after every successful command, *)
(* stop, the interrupt signal, and the death of the daemon at any point.   *)
(*                                                                         *)
(* write_state truncates the file and then writes it, so that a death in   *)
(* between leaves a file that read_state cannot decode.  The exit codes in *)
(* the file are never read back; a saved tree is one with no pane exited.  *)
(***************************************************************************)
EXTENDS SessionTree

CONSTANT MaxDowns        \* bound: times the daemon goes down

ASSUME DownsAssumption == MaxDowns \in Nat

VARIABLES
  disk,        \* [state |-> "absent" | "torn" | "tree", tree]
  phase,       \* "down", "saving", "answering", "serving" or "stopping"
  after,       \* the phase that follows the answer
  downs,
  promised,    \* history: the tree when a command was last answered
  attempted    \* history: the tree of the last save that was begun

daemonVars == <<disk, phase, after, downs, promised, attempted>>
vars == <<treeVars, daemonVars>>

Empty == [s \in {} |-> s]

Running(pane) == [pane EXCEPT !.exited = FALSE]

\* What a restart makes of a saved window, session and snapshot.
RunningWindow(window) ==
  [window EXCEPT !.panes = [p \in DOMAIN @ |-> Running(@[p])]]

RunningSession(session) ==
  [session EXCEPT !.windows = [w \in DOMAIN @ |-> RunningWindow(@[w])]]

Saved(tree) == [s \in DOMAIN tree |-> RunningSession(tree[s])]

\* Mutant: the largest id is given out again.
AfterOffByOne(ids) == Max({1} \cup ids)

\* One past the largest of a set of ids, at least 1.
After(ids) == Max({0} \cup ids) + 1

Init ==
  /\ TreeInit
  /\ disk = [state |-> "absent", tree |-> Empty]
  /\ phase = "down" /\ after = "serving" /\ downs = 0
  /\ promised = Empty /\ attempted = Empty

\* Mutant: the client is answered before the save.
BeginSaveAnswered(next) ==
  /\ phase' = "saving"
  /\ after' = next
  /\ attempted' = Saved(sessions)' /\ promised' = Saved(sessions)'
  /\ UNCHANGED <<disk, downs>>

BeginSave(next) ==
  /\ phase' = "saving"
  /\ after' = next
  /\ attempted' = Saved(sessions)'
  /\ UNCHANGED <<disk, downs, promised>>

\* run up to the loop: restore_state, and then persist_state
Start ==
  /\ phase = "down" /\ disk.state # "torn"
  /\ sessions' = disk.tree
  /\ nextSession' = After(SessionIds')
  /\ nextWindow' = After(LiveWindows')
  /\ nextPane' = After(LivePanes')
  /\ reply' = "none"
  /\ BeginSave("serving")

\* read_state cannot decode the file, or a restored pane has no shell: run
\* returns the error, having written nothing.
FailedStart == phase = "down" /\ UNCHANGED vars

\* Mutant: nothing is saved after a command.
ServeUnsaved ==
  /\ phase = "serving"
  /\ Command
  /\ UNCHANGED daemonVars

\* An arm of the select loop: a command.  Only a success is saved.
Serve ==
  /\ phase = "serving"
  /\ Command
  /\ IF reply' = "ok" THEN BeginSave("serving") ELSE UNCHANGED daemonVars

Stop ==
  /\ phase = "serving" /\ downs < MaxDowns
  /\ Query
  /\ BeginSave("stopping")

Save ==
  /\ phase = "saving"
  /\ disk' = [state |-> "tree", tree |-> Saved(sessions)]
  /\ phase' = "answering"
  /\ UNCHANGED <<treeVars, after, downs, promised, attempted>>

\* The events of the command are broadcast, and it is answered.  After the first
\* save the loop is entered, where anybody may ask for the tree.
Answer ==
  /\ phase = "answering"
  /\ phase' = after
  /\ promised' = Saved(sessions)
  /\ UNCHANGED <<treeVars, disk, after, downs, attempted>>

\* The runtime tick.
Tick ==
  /\ phase = "serving"
  /\ Collect
  /\ UNCHANGED daemonVars

\* The process ends, and its memory with it.
GoDown ==
  /\ downs < MaxDowns
  /\ downs' = downs + 1
  /\ phase' = "down"
  /\ sessions' = Empty
  /\ nextSession' = 1 /\ nextWindow' = 1 /\ nextPane' = 1
  /\ reply' = "none"
  /\ UNCHANGED <<after, promised, attempted>>

\* Mutant: the deletions of shutdown_all are saved like those of a client.
ShutdownSaving ==
  /\ phase \in {"stopping", "serving"}
  /\ GoDown
  /\ disk' = [state |-> "tree", tree |-> Empty]

\* shutdown_all after stop or ctrl-c deletes every session from memory, and
\* saves nothing.
Shutdown ==
  /\ phase \in {"stopping", "serving"}
  /\ GoDown
  /\ UNCHANGED disk

\* The process is killed, or run returns an error of persist_state or of
\* collect_runtime_events.
Die ==
  /\ phase # "down"
  /\ GoDown
  /\ disk' \in {disk} \cup
       IF phase = "saving"
       THEN {[state |-> "torn", tree |-> Empty],
             [state |-> "tree", tree |-> Saved(sessions)]}
       ELSE {}

Next ==
  \/ Start
  \/ FailedStart
  \/ Serve
  \/ Stop
  \/ Save
  \/ Answer
  \/ Tick
  \/ Shutdown
  \/ Die

Spec == Init /\ [][Next]_vars

\* Somebody starts the daemon again, and a save that nothing stops ends.
FairSpec == Spec /\ WF_vars(Start) /\ WF_vars(Save) /\ WF_vars(Answer)

-------------------------------------------------------------------------------
\* Type invariant.
ManagerTypeOK ==
  /\ TypeOK
  /\ disk.state \in {"absent", "torn", "tree"}
  /\ disk.state # "tree" => disk.tree = Empty
  /\ phase \in {"down", "saving", "answering", "serving", "stopping"}
  /\ after \in {"serving", "stopping"}
  /\ downs \in 0 .. MaxDowns

\* A well-formed hierarchy, also of what was restored, with counters that
\* were recomputed from what had been saved.
HierarchyOK ==
  /\ NamesUnique /\ IndexesUnique /\ ActiveIsLive
  /\ IdsLiveOnce /\ IndexBelowId /\ LayoutMatchesPanes /\ SizesFillWindow

(***************************************************************************)
(* What a client was told is done survives: outside a torn file the disk   *)
(* holds the tree of the last answered command or of one that was being    *)
(* saved when the daemon died, never an older one and never a shut down    *)
(* one.                                                                    *)
(***************************************************************************)
AnsweredIsDurable ==
  /\ disk.state = "tree" => disk.tree \in {promised, attempted}
  /\ disk.state = "absent" => promised = Empty

\* When a command is answered and until the next one, and as long as none was
\* refused, the file holds the tree that is served.
ServedIsDurable ==
  phase \in {"answering", "serving", "stopping"} /\ reply # "err" =>
    disk = [state |-> "tree", tree |-> Saved(sessions)]

(***************************************************************************)
(* README.md:156 "Session resume support": a daemon that went down serves  *)
(* again once it is started.  Violated: after a death in the middle of     *)
(* write_state the file cannot be decoded, and every start fails.          *)
(***************************************************************************)
ServesAgain == phase = "down" ~> phase = "serving"
===============================================================================
