------------------------------ MODULE SessionTree ------------------------------
(***************************************************************************)
(* The hierarchy of sessions, windows and panes that SessionManagerServer  *)
(* keeps in memory (server.rs), and the commands that change it.           *)
(*                                                                         *)
(* One action is one call of handle_request: the daemon serves requests    *)
(* one at a time from one task.  An action takes the ids its targets       *)
(* resolve to (module Targets is about the resolution): a window or pane   *)
(* target that resolves names a live window or pane, while a numeric       *)
(* session target is taken as an id unchecked.  reply is what the handler  *)
(* returned, Ok or Err.  Creating a pane spawns a shell, which may fail.   *)
(*                                                                         *)
(* A name is a pair <<stem, number>>: the text of the stem followed by the *)
(* number, so <<"window", 0>> is the default name of the first window and  *)
(* <<"", 2>> is the text "2".                                              *)
(***************************************************************************)
EXTENDS WindowLayout

CONSTANTS
  Stems,          \* the texts names start with
  UserNames,      \* the names clients choose
  Unnamed,        \* a create request without a name
  Deltas,         \* the resize deltas clients send
  MaxSession, MaxWindow, MaxPane    \* bounds: ids ever given out

Name == Stems \X Nat

ASSUME TreeAssumption ==
  /\ {"session", "window", "pane"} \subseteq Stems
  /\ UserNames \subseteq Name
  /\ Unnamed \notin Name
  /\ Deltas \subseteq Int
  /\ MaxSession \in Nat /\ MaxWindow \in Nat /\ MaxPane \in Nat

VARIABLES
  sessions,       \* id |-> [name, active, windows]
  nextSession, nextWindow, nextPane,
  reply           \* "ok" or "err", "none" before the first command

counters == <<nextSession, nextWindow, nextPane>>
treeVars == <<sessions, counters, reply>>

\* Whatever ids are live, for the quantifiers of Next.
SessionIds == DOMAIN sessions
WindowsOf(s) == DOMAIN sessions[s].windows
PanesOf(s, w) == DOMAIN sessions[s].windows[w].panes

Given(name, default) == IF name = Unnamed THEN default ELSE name

NameTaken(map, name) == \E k \in DOMAIN map : map[k].name = name

\* Mutant: rename does not look at the siblings.
NameNeverTaken(map, self, name) == FALSE

NameTakenByOther(map, self, name) ==
  \E k \in DOMAIN map \ {self} : map[k].name = name

-------------------------------------------------------------------------------
TreeInit ==
  /\ sessions = [s \in {} |-> s]
  /\ nextSession = 1 /\ nextWindow = 1 /\ nextPane = 1
  /\ reply = "none"

\* The handler returns an error and has changed nothing.
Refuse == reply' = "err" /\ UNCHANGED <<sessions, counters>>

\* A pane as spawn_pane returns it; a window and a session as created.
NewPane(name, index) ==
  [index |-> index, name |-> name, size |-> Full, exited |-> FALSE]

NewWindow(name, index, pane) ==
  [index |-> index, name |-> name, layout |-> "single", active |-> pane,
   panes |-> [k \in {pane} |-> NewPane(<<"pane", pane>>, 0)]]

NewSession(name, window, pane) ==
  [name |-> name, active |-> window,
   windows |-> [k \in {window} |-> NewWindow(<<"window", 0>>, 0, pane)]]

\* Mutant: the id goes to the next pane again.
SpawnKeepsId(tree) ==
  /\ nextPane <= MaxPane
  /\ nextPane' = nextPane
  /\ sessions' = tree /\ reply' = "ok"

(***************************************************************************)
(* spawn_pane takes a pane id and then starts a shell.  If the shell does  *)
(* not start the handler fails with the ids it took gone, and tree, the    *)
(* hierarchy with the new pane, is not installed.                          *)
(***************************************************************************)
Spawn(tree) ==
  /\ nextPane <= MaxPane
  /\ nextPane' = nextPane + 1
  /\ \/ sessions' = tree /\ reply' = "ok"
     \/ sessions' = sessions /\ reply' = "err"

CreateSession(name) ==
  LET chosen == Given(name, <<"session", nextSession>>)
  IN  /\ nextSession <= MaxSession
      /\ nextSession' = nextSession + 1
      /\ IF NameTaken(sessions, chosen)
         THEN reply' = "err" /\ UNCHANGED <<sessions, nextWindow, nextPane>>
         ELSE /\ nextWindow <= MaxWindow
              /\ nextWindow' = nextWindow + 1
              /\ Spawn(Insert(sessions, nextSession,
                              NewSession(chosen, nextWindow, nextPane)))

\* The session as create_window leaves it.
WithWindow(session, window, name, pane) ==
  [session EXCEPT
     !.active = window,
     !.windows = Insert(@, window,
                        NewWindow(name, NextIndex(session.windows), pane))]

CreateWindow(s, name) ==
  /\ nextWindow <= MaxWindow
  /\ nextWindow' = nextWindow + 1
  /\ UNCHANGED nextSession
  /\ IF s \notin SessionIds
     THEN reply' = "err" /\ UNCHANGED <<sessions, nextPane>>
     ELSE LET windows == sessions[s].windows
              chosen == Given(name, <<"window", NextIndex(windows)>>)
          IN  IF NameTaken(windows, chosen)
              THEN reply' = "err" /\ UNCHANGED <<sessions, nextPane>>
              ELSE Spawn([sessions EXCEPT ![s] =
                            WithWindow(@, nextWindow, chosen, nextPane)])

\* The window as create_pane (layout = "none") or a split leaves it.
WithPane(window, pane, name, layout) ==
  LET filled == Rebalance([window EXCEPT
        !.active = pane,
        !.panes = Insert(@, pane, NewPane(name, NextIndex(window.panes)))])
  IN  IF layout = "none" THEN SyncLayout(filled)
      ELSE SetSplitLayout(filled, layout)

CreatePane(s, w, name, layout) ==
  LET window == sessions[s].windows[w]
      chosen == Given(name, <<"pane", nextPane>>)
  IN  IF NameTaken(window.panes, chosen) THEN Refuse
      ELSE /\ Spawn([sessions EXCEPT ![s].windows[w] =
                       WithPane(@, nextPane, chosen, layout)])
           /\ UNCHANGED <<nextSession, nextWindow>>

-------------------------------------------------------------------------------
\* A command that changes the hierarchy to tree and succeeds.
Commit(tree) ==
  /\ sessions' = tree
  /\ reply' = "ok"
  /\ UNCHANGED counters

SelectWindow(s, w) ==
  Commit([sessions EXCEPT ![s].active = w, ![s].windows[w] = SyncLayout(@)])

SelectPane(s, w, p) ==
  Commit([sessions EXCEPT
            ![s].windows[w] = [SyncLayout(@) EXCEPT !.active = p]])

RenameSession(s, name) ==
  IF s \notin SessionIds \/ NameTakenByOther(sessions, s, name) THEN Refuse
  ELSE Commit([sessions EXCEPT ![s].name = name])

RenameWindow(s, w, name) ==
  IF NameTakenByOther(sessions[s].windows, w, name) THEN Refuse
  ELSE Commit([sessions EXCEPT ![s].windows[w].name = name])

RenamePane(s, w, p, name) ==
  IF NameTakenByOther(sessions[s].windows[w].panes, p, name) THEN Refuse
  ELSE Commit([sessions EXCEPT ![s].windows[w].panes[p].name = name])

ResizePane(s, w, p, delta) ==
  IF ~CanResize(sessions[s].windows[w], p, delta) THEN Refuse
  ELSE Commit([sessions EXCEPT ![s].windows[w] = Resize(@, p, delta)])

\* Mutant: the id counter follows the live sessions, as on a restart.
DeleteSessionFreesId(s) ==
  IF s \notin SessionIds THEN Refuse
  ELSE /\ sessions' = Remove(sessions, s)
       /\ nextSession' = Max({0} \cup SessionIds') + 1
       /\ reply' = "ok"
       /\ UNCHANGED <<nextWindow, nextPane>>

\* terminate_session ignores the errors of its panes.
DeleteSession(s) ==
  IF s \notin SessionIds THEN Refuse ELSE Commit(Remove(sessions, s))

WithoutWindow(session, w) ==
  LET windows == Remove(session.windows, w)
  IN  [session EXCEPT
         !.windows = windows,
         !.active = IF @ = w THEN FirstKey(windows) ELSE @]

DeleteWindow(s, w) ==
  IF Cardinality(WindowsOf(s)) = 1 THEN Refuse
  ELSE Commit([sessions EXCEPT ![s] = WithoutWindow(@, w)])

\* Mutants: the pointer to the active pane, the layout is not repaired.
WithoutPaneStale(window, p) ==
  SyncLayout(Rebalance([window EXCEPT !.panes = Remove(@, p)]))
WithoutPaneNoSync(window, p) ==
  LET rest == Rebalance([window EXCEPT !.panes = Remove(@, p)])
  IN  [rest EXCEPT !.active = IF @ = p THEN FirstKey(rest.panes) ELSE @]

WithoutPane(window, p) ==
  LET rest == SyncLayout(Rebalance([window EXCEPT !.panes = Remove(@, p)]))
  IN  [rest EXCEPT !.active = IF @ = p THEN FirstKey(rest.panes) ELSE @]

\* The pane is gone from the window before its shell is terminated, and when
\* that fails the handler fails too.
DeletePane(s, w, p) ==
  IF Cardinality(PanesOf(s, w)) = 1 THEN Refuse
  ELSE /\ sessions' = [sessions EXCEPT ![s].windows[w] = WithoutPane(@, p)]
       /\ reply' \in {"ok", "err"}
       /\ UNCHANGED counters

\* Writing to the shell may fail.  collect_runtime_events, which every request
\* starts with, is PaneExits.
SendInput(s, w, p) ==
  /\ IF sessions[s].windows[w].panes[p].exited THEN reply' = "err"
     ELSE reply' \in {"ok", "err"}
  /\ UNCHANGED <<sessions, counters>>

\* list, ping and stop; a target that resolves to nothing.
Query == reply' = "ok" /\ UNCHANGED <<sessions, counters>>

UnresolvedTarget == Refuse

\* collect_runtime_events finds that the shell has ended.
PaneExits(s, w, p) ==
  /\ ~sessions[s].windows[w].panes[p].exited
  /\ sessions' = [sessions EXCEPT ![s].windows[w].panes[p].exited = TRUE]
  /\ UNCHANGED <<counters, reply>>

-------------------------------------------------------------------------------
SplitLayouts == {"horizontal", "vertical"}

SessionCommand ==
  \/ \E name \in UserNames \cup {Unnamed} : CreateSession(name)
  \/ \E s \in 1 .. MaxSession :
       \/ \E name \in UserNames \cup {Unnamed} : CreateWindow(s, name)
       \/ \E name \in UserNames : RenameSession(s, name)
       \/ DeleteSession(s)

WindowCommand(s, w) ==
  \/ \E name \in UserNames \cup {Unnamed}, layout \in SplitLayouts \cup {"none"} :
       CreatePane(s, w, name, layout)
  \/ SelectWindow(s, w)
  \/ \E name \in UserNames : RenameWindow(s, w, name)
  \/ DeleteWindow(s, w)

PaneCommand(s, w, p) ==
  \/ SelectPane(s, w, p)
  \/ \E name \in UserNames : RenamePane(s, w, p, name)
  \/ \E delta \in Deltas : ResizePane(s, w, p, delta)
  \/ DeletePane(s, w, p)

\* The commands that change the hierarchy when they succeed, and announce it.
Change ==
  \/ SessionCommand
  \/ \E s \in SessionIds : \E w \in WindowsOf(s) : WindowCommand(s, w)
  \/ \E s \in SessionIds : \E w \in WindowsOf(s) : \E p \in PanesOf(s, w) :
       PaneCommand(s, w, p)

Input ==
  \E s \in SessionIds : \E w \in WindowsOf(s) : \E p \in PanesOf(s, w) :
    SendInput(s, w, p)

Command ==
  \/ Change
  \/ Input
  \/ Query
  \/ UnresolvedTarget

Collect ==
  \E s \in SessionIds : \E w \in WindowsOf(s) : \E p \in PanesOf(s, w) :
    PaneExits(s, w, p)

TreeNext == Command \/ Collect

TreeSpec == TreeInit /\ [][TreeNext]_treeVars

-------------------------------------------------------------------------------
(***************************************************************************)
(* Types.  The bounds are parameters, so that the predicates can be stated *)
(* of the next state's counters too.                                       *)
(***************************************************************************)
Pane == [index : Nat, name : Name, size : Nat, exited : BOOLEAN]

PanesTyped(panes, pb) ==
  /\ panes \in [DOMAIN panes -> Pane]
  /\ DOMAIN panes \subseteq 1 .. pb - 1

WindowTyped(window, pb) ==
  /\ window \in [index : Nat, name : Name, layout : Layouts, active : Nat,
                 panes : {window.panes}]
  /\ PanesTyped(window.panes, pb)

SessionTyped(session, wb, pb) ==
  /\ session \in [name : Name, active : Nat, windows : {session.windows}]
  /\ session.windows \in [DOMAIN session.windows -> Range(session.windows)]
  /\ DOMAIN session.windows \subseteq 1 .. wb - 1
  /\ \A w \in DOMAIN session.windows : WindowTyped(session.windows[w], pb)

\* Type invariant.  Every live id was given out by its counter.
TypeOK ==
  /\ sessions \in [DOMAIN sessions -> Range(sessions)]
  /\ SessionIds \subseteq 1 .. nextSession - 1
  /\ \A s \in SessionIds : SessionTyped(sessions[s], nextWindow, nextPane)
  /\ nextSession \in Nat \ {0} /\ nextWindow \in Nat \ {0}
  /\ nextPane \in Nat \ {0}
  /\ reply \in {"none", "ok", "err"}

-------------------------------------------------------------------------------
NamesDistinct(map) ==
  \A j, k \in DOMAIN map : j # k => map[j].name # map[k].name

IndexesDistinct(map) ==
  \A j, k \in DOMAIN map : j # k => map[j].index # map[k].index

\* What a client addresses by name is one thing: create and rename check the
\* siblings, and generated names are checked like chosen ones.
NamesUnique ==
  /\ NamesDistinct(sessions)
  /\ \A s \in SessionIds :
       /\ NamesDistinct(sessions[s].windows)
       /\ \A w \in WindowsOf(s) : NamesDistinct(sessions[s].windows[w].panes)

\* ... and so is what it addresses by index, although indexes are computed
\* from what is left after deletions.
IndexesUnique ==
  \A s \in SessionIds :
    /\ IndexesDistinct(sessions[s].windows)
    /\ \A w \in WindowsOf(s) : IndexesDistinct(sessions[s].windows[w].panes)

\* The active window of a session is one of its windows and the active pane
\* of a window one of its panes, so neither is ever empty: every deletion
\* repairs the pointer and the last window or pane cannot be deleted.
ActiveIsLive ==
  \A s \in SessionIds :
    /\ sessions[s].active \in WindowsOf(s)
    /\ \A w \in WindowsOf(s) :
         sessions[s].windows[w].active \in PanesOf(s, w)

\* The maps are nested, but a window or pane id is in one place only:
\* subscribers' filters and runtime events rely on it.
IdsLiveOnce ==
  \A s, t \in SessionIds :
    /\ s # t => WindowsOf(s) \cap WindowsOf(t) = {}
    /\ \A w \in WindowsOf(s), v \in WindowsOf(t) :
         <<s, w>> # <<t, v>> => PanesOf(s, w) \cap PanesOf(t, v) = {}

\* An index never catches up with the id it belongs to, which is what keeps
\* the indexes bounded; IndexesUnique is inductive with it.
IndexBelowId ==
  \A s \in SessionIds : \A w \in WindowsOf(s) :
    /\ sessions[s].windows[w].index < w
    /\ \A p \in PanesOf(s, w) : sessions[s].windows[w].panes[p].index < p

\* Every window's layout says whether it is split.
LayoutMatchesPanes ==
  \A s \in SessionIds : \A w \in WindowsOf(s) :
    sessions[s].windows[w].layout = "single" <=> Cardinality(PanesOf(s, w)) <= 1

\* The panes of every window fill it.
SizesFillWindow ==
  \A s \in SessionIds : \A w \in WindowsOf(s) :
    FillsWindow(sessions[s].windows[w].panes)

LiveWindows == UNION {WindowsOf(s) : s \in SessionIds}

LivePanes ==
  UNION {UNION {PanesOf(s, w) : w \in WindowsOf(s)} : s \in SessionIds}

\* While the daemon runs an id is never given out twice, also not after what
\* it named is gone: a stale id in a client's hands names nothing else.
IdsNeverReused ==
  [][/\ nextSession <= nextSession' /\ nextWindow <= nextWindow'
     /\ nextPane <= nextPane'
     /\ \A s \in SessionIds' \ SessionIds : s >= nextSession /\ s < nextSession'
     /\ \A w \in LiveWindows' \ LiveWindows : w >= nextWindow /\ w < nextWindow'
     /\ \A p \in LivePanes' \ LivePanes : p >= nextPane /\ p < nextPane'
    ]_treeVars
===============================================================================
