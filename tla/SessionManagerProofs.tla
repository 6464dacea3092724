------------------------- MODULE SessionManagerProofs -------------------------
(***************************************************************************)
(* The hierarchy across saves, deaths and restarts: what is on disk is a   *)
(* well-formed hierarchy without counters, a restart finds counters for    *)
(* it, and what was answered is what is on disk.  Every step in memory is  *)
(* one of SessionTree, and is proved there.                                *)
(***************************************************************************)
EXTENDS SessionManager, Targets, SessionTreeProofs

(* What a snapshot keeps. *)

\* A saved window is a window with the same panes, and saving it again changes
\* nothing.
LEMMA RunningWindowOK ==
  ASSUME NEW pb \in Nat \ {0}, NEW window, WindowOK(window, pb)
  PROVE  LET v == RunningWindow(window)
         IN  /\ WindowOK(v, pb)
             /\ v.name = window.name /\ v.index = window.index
             /\ DOMAIN v.panes = DOMAIN window.panes
             /\ RunningWindow(v) = v
<1>. DEFINE panes == [p \in DOMAIN window.panes |-> Running(window.panes[p])]
            v == RunningWindow(window)
<1>1. /\ window \in [index : Nat, name : Name, layout : Layouts, active : Nat,
                     panes : {window.panes}]
      /\ \A p \in DOMAIN window.panes : window.panes[p] \in Pane
      /\ DOMAIN window.panes \subseteq 1 .. pb - 1
  BY DEF WindowOK, WindowShaped, WindowTyped, PanesTyped
<1>2. \A p \in DOMAIN window.panes :
        /\ Running(window.panes[p]) \in Pane
        /\ Running(window.panes[p]).name = window.panes[p].name
        /\ Running(window.panes[p]).index = window.panes[p].index
        /\ Running(window.panes[p]).size = window.panes[p].size
        /\ Running(Running(window.panes[p])) = Running(window.panes[p])
  BY <1>1 DEF Running, Pane
<1>3. /\ DOMAIN panes = DOMAIN window.panes
      /\ panes \in [DOMAIN panes -> Pane]
      /\ \A p \in DOMAIN panes :
           /\ panes[p].name = window.panes[p].name
           /\ panes[p].index = window.panes[p].index
           /\ panes[p].size = window.panes[p].size
      /\ [p \in DOMAIN panes |-> Running(panes[p])] = panes
  BY <1>2
<1>4. v = [window EXCEPT !.panes = panes]
  BY DEF RunningWindow
<1>. HIDE DEF panes
<1>5. /\ v \in [index : Nat, name : Name, layout : Layouts, active : Nat,
                panes : {panes}]
      /\ v.panes = panes /\ v.name = window.name /\ v.index = window.index
      /\ v.active = window.active /\ v.layout = window.layout
  BY <1>1, <1>4
<1>6. RunningWindow(v) = v
  <2>1. RunningWindow(v) = [v EXCEPT !.panes = panes]
    BY <1>3, <1>5 DEF RunningWindow
  <2>. HIDE DEF v
  <2>. QED
    BY <1>5, <2>1
<1>. HIDE DEF v
<1>7. WindowTyped(v, pb)
  BY <1>1, <1>3, <1>5 DEF WindowTyped, PanesTyped
<1>8. Addressable(v.panes)
  BY <1>3, <1>5 DEF WindowOK, WindowShaped, Addressable, NamesDistinct, IndexesDistinct
<1>9. FillsWindow(v.panes)
  BY <1>3, <1>5, SameSizesFill DEF WindowOK
<1>10. WindowOK(v, pb)
  BY <1>3, <1>5, <1>7, <1>8, <1>9 DEF WindowOK, WindowShaped
<1>. QED
  BY <1>3, <1>5, <1>6, <1>10 DEF v

\* ... and so is a saved session.
LEMMA RunningSessionOK ==
  ASSUME NEW wb \in Nat \ {0}, NEW pb \in Nat \ {0},
         NEW session, SessionOK(session, wb, pb)
  PROVE  LET v == RunningSession(session)
         IN  /\ SessionOK(v, wb, pb)
             /\ v.name = session.name
             /\ DOMAIN v.windows = DOMAIN session.windows
             /\ \A w \in DOMAIN v.windows :
                  DOMAIN v.windows[w].panes = DOMAIN session.windows[w].panes
             /\ RunningSession(v) = v
<1>. DEFINE windows == [w \in DOMAIN session.windows |-> RunningWindow(session.windows[w])]
            v == RunningSession(session)
<1>1. /\ session \in [name : Name, active : Nat, windows : {session.windows}]
      /\ \A w \in DOMAIN session.windows : WindowOK(session.windows[w], pb)
  BY DEF SessionOK, SessionTyped
<1>2. \A w \in DOMAIN session.windows :
        /\ WindowOK(RunningWindow(session.windows[w]), pb)
        /\ RunningWindow(session.windows[w]).name = session.windows[w].name
        /\ RunningWindow(session.windows[w]).index = session.windows[w].index
        /\ DOMAIN RunningWindow(session.windows[w]).panes = DOMAIN session.windows[w].panes
        /\ RunningWindow(RunningWindow(session.windows[w])) = RunningWindow(session.windows[w])
  BY <1>1, RunningWindowOK
<1>3. /\ DOMAIN windows = DOMAIN session.windows
      /\ windows \in [DOMAIN windows -> Range(windows)]
      /\ \A w \in DOMAIN windows :
           /\ WindowOK(windows[w], pb)
           /\ windows[w].name = session.windows[w].name
           /\ windows[w].index = session.windows[w].index
           /\ DOMAIN windows[w].panes = DOMAIN session.windows[w].panes
      /\ [w \in DOMAIN windows |-> RunningWindow(windows[w])] = windows
  BY <1>2 DEF Range
<1>4. v = [session EXCEPT !.windows = windows]
  BY DEF RunningSession
<1>. HIDE DEF windows
<1>5. /\ v \in [name : Name, active : Nat, windows : {windows}]
      /\ v.windows = windows /\ v.name = session.name /\ v.active = session.active
  BY <1>1, <1>4
<1>6. RunningSession(v) = v
  <2>1. RunningSession(v) = [v EXCEPT !.windows = windows]
    BY <1>3, <1>5 DEF RunningSession
  <2>. HIDE DEF v
  <2>. QED
    BY <1>5, <2>1
<1>. HIDE DEF v
<1>7. SessionTyped(v, wb, pb)
  BY <1>3, <1>5 DEF SessionTyped, SessionOK, WindowOK, WindowShaped
<1>8. Addressable(v.windows) /\ PanesApart(v.windows)
  BY <1>3, <1>5
     DEF SessionOK, Addressable, NamesDistinct, IndexesDistinct, PanesApart
<1>9. SessionOK(v, wb, pb)
  BY <1>3, <1>5, <1>7, <1>8 DEF SessionOK
<1>. QED
  BY <1>3, <1>5, <1>6, <1>9 DEF v

\* What is saved is well-formed, and restored and saved again it is the same.
LEMMA SavedOK ==
  ASSUME NEW sb \in Nat \ {0}, NEW wb \in Nat \ {0}, NEW pb \in Nat \ {0},
         NEW tree, TreeOK(tree, sb, wb, pb)
  PROVE  TreeOK(Saved(tree), sb, wb, pb) /\ Saved(Saved(tree)) = Saved(tree)
<1>. DEFINE v == Saved(tree)
<1>1. \A s \in DOMAIN tree : SessionOK(tree[s], wb, pb)
  BY DEF TreeOK
<1>2. \A s \in DOMAIN tree :
        /\ SessionOK(RunningSession(tree[s]), wb, pb)
        /\ RunningSession(tree[s]).name = tree[s].name
        /\ DOMAIN RunningSession(tree[s]).windows = DOMAIN tree[s].windows
        /\ \A w \in DOMAIN RunningSession(tree[s]).windows :
             DOMAIN RunningSession(tree[s]).windows[w].panes
               = DOMAIN tree[s].windows[w].panes
        /\ RunningSession(RunningSession(tree[s])) = RunningSession(tree[s])
  BY <1>1, RunningSessionOK
<1>3. v = [s \in DOMAIN tree |-> RunningSession(tree[s])]
  BY DEF Saved
<1>. HIDE DEF v
<1>4. /\ DOMAIN v = DOMAIN tree
      /\ v \in [DOMAIN v -> Range(v)]
      /\ \A s \in DOMAIN v :
           /\ SessionOK(v[s], wb, pb) /\ v[s].name = tree[s].name
           /\ DOMAIN v[s].windows = DOMAIN tree[s].windows
           /\ \A w \in DOMAIN v[s].windows :
                DOMAIN v[s].windows[w].panes = DOMAIN tree[s].windows[w].panes
      /\ [s \in DOMAIN v |-> RunningSession(v[s])] = v
  BY <1>2, <1>3 DEF Range
<1>5. Saved(v) = v
  BY <1>4 DEF Saved
<1>6. NamesDistinct(v) /\ SessionsApart(v)
  BY <1>4 DEF TreeOK, NamesDistinct, SessionsApart
<1>7. TreeOK(v, sb, wb, pb)
  BY <1>4, <1>6 DEF TreeOK
<1>. QED
  BY <1>5, <1>7 DEF v

-------------------------------------------------------------------------------
(* What a restart finds. *)

\* A tree needs no more ids than it holds.
LEMMA Tighten ==
  ASSUME NEW sb \in Nat \ {0}, NEW wb \in Nat \ {0}, NEW pb \in Nat \ {0},
         NEW tree, TreeOK(tree, sb, wb, pb),
         NEW st \in Nat \ {0}, NEW wt \in Nat \ {0}, NEW pt \in Nat \ {0},
         DOMAIN tree \subseteq 1 .. st - 1,
         \A s \in DOMAIN tree :
           /\ DOMAIN tree[s].windows \subseteq 1 .. wt - 1
           /\ \A w \in DOMAIN tree[s].windows :
                DOMAIN tree[s].windows[w].panes \subseteq 1 .. pt - 1
  PROVE  TreeOK(tree, st, wt, pt)
<1>1. ASSUME NEW s \in DOMAIN tree
      PROVE  SessionOK(tree[s], wt, pt)
  <2>1. SessionOK(tree[s], wb, pb)
    BY DEF TreeOK
  <2>2. \A w \in DOMAIN tree[s].windows : WindowOK(tree[s].windows[w], pt)
    BY <2>1 DEF SessionOK, WindowOK, WindowShaped, WindowTyped, PanesTyped
  <2>3. SessionTyped(tree[s], wt, pt)
    BY <2>1, <2>2 DEF SessionOK, SessionTyped, WindowOK, WindowShaped
  <2>. QED
    BY <2>1, <2>2, <2>3 DEF SessionOK
<1>. QED
  BY <1>1 DEF TreeOK

\* The counter restore_state computes is past every id it restored.
LEMMA AfterBounds ==
  ASSUME NEW bound \in Nat \ {0}, NEW ids, ids \subseteq 1 .. bound - 1
  PROVE  After(ids) \in Nat \ {0} /\ ids \subseteq 1 .. After(ids) - 1
<1>. DEFINE all == {0} \cup ids
<1>1. /\ all \in SUBSET Nat /\ all # {}
      /\ \A x \in all : x <= bound
  OBVIOUS
<1>. HIDE DEF all
<1>2. Max(all) \in all /\ \A y \in all : y <= Max(all)
  BY <1>1, MaxNat
<1>3. Max(all) \in Nat
  BY <1>1, <1>2
<1>4. After(ids) = Max(all) + 1
  BY DEF After, all
<1>. QED
  BY <1>2, <1>3, <1>4 DEF all

\* A shell that ends is not in a snapshot.
LEMMA ExitSaved ==
  ASSUME IInv, Collect
  PROVE  Saved(sessions)' = Saved(sessions)
<1>a. PICK s \in DOMAIN sessions :
        \E w \in DOMAIN sessions[s].windows :
          \E p \in DOMAIN sessions[s].windows[w].panes : PaneExits(s, w, p)
  BY DEF Collect, SessionIds, WindowsOf, PanesOf
<1>b. PICK w \in DOMAIN sessions[s].windows :
        \E p \in DOMAIN sessions[s].windows[w].panes : PaneExits(s, w, p)
  BY <1>a
<1>1. PICK p \in DOMAIN sessions[s].windows[w].panes : PaneExits(s, w, p)
  BY <1>b
<1>. DEFINE old == sessions[s].windows[w]
            pane == [old.panes[p] EXCEPT !.exited = TRUE]
            window == [old EXCEPT !.panes[p] = pane]
            session == [sessions[s] EXCEPT !.windows[w] = window]
<1>2. /\ SessionOK(sessions[s], nextWindow, nextPane)
      /\ WindowOK(old, nextPane) /\ nextPane \in Nat \ {0}
  BY WindowInTree DEF IInv, TreeOK
<1>3. old.panes[p] \in Pane
  BY <1>2 DEF WindowOK, WindowShaped, WindowTyped, PanesTyped
<1>4. Running(pane) = Running(old.panes[p])
  BY <1>3 DEF Running, Pane
<1>5. RunningWindow(window) = RunningWindow(old)
  <2>1. /\ old \in [index : Nat, name : Name, layout : Layouts, active : Nat,
                    panes : {old.panes}]
        /\ old.panes \in [DOMAIN old.panes -> Pane]
    BY <1>2 DEF WindowOK, WindowShaped, WindowTyped, PanesTyped
  <2>. DEFINE panes == [old.panes EXCEPT ![p] = pane]
  <2>2. /\ DOMAIN panes = DOMAIN old.panes
        /\ panes[p] = pane
        /\ \A q \in DOMAIN old.panes \ {p} : panes[q] = old.panes[q]
    BY <2>1
  <2>3. [q \in DOMAIN panes |-> Running(panes[q])]
          = [q \in DOMAIN old.panes |-> Running(old.panes[q])]
    <3>. HIDE DEF panes, pane, old
    <3>. QED
      BY <1>4, <2>2
  <2>4. window = [old EXCEPT !.panes = panes] /\ window.panes = panes
    BY <2>1
  <2>. HIDE DEF panes, pane, old
  <2>5. [window EXCEPT !.panes = [q \in DOMAIN old.panes |-> Running(old.panes[q])]]
          = [old EXCEPT !.panes = [q \in DOMAIN old.panes |-> Running(old.panes[q])]]
    BY <2>1, <2>4
  <2>. QED
    BY <2>3, <2>4, <2>5 DEF RunningWindow
<1>6. RunningSession(session) = RunningSession(sessions[s])
  <2>1. /\ sessions[s] \in [name : Name, active : Nat, windows : {sessions[s].windows}]
        /\ sessions[s].windows \in [DOMAIN sessions[s].windows -> Range(sessions[s].windows)]
    BY <1>2 DEF SessionOK, SessionTyped
  <2>. DEFINE windows == [sessions[s].windows EXCEPT ![w] = window]
  <2>2. /\ DOMAIN windows = DOMAIN sessions[s].windows
        /\ windows[w] = window
        /\ \A v \in DOMAIN sessions[s].windows \ {w} :
             windows[v] = sessions[s].windows[v]
    BY <2>1
  <2>3. [v \in DOMAIN windows |-> RunningWindow(windows[v])]
          = [v \in DOMAIN sessions[s].windows |-> RunningWindow(sessions[s].windows[v])]
    <3>. HIDE DEF windows, window
    <3>. QED
      BY <1>5, <2>2 DEF old
  <2>4. session = [sessions[s] EXCEPT !.windows = windows] /\ session.windows = windows
    BY <2>1
  <2>. HIDE DEF windows, window
  <2>. QED
    BY <2>1, <2>3, <2>4 DEF RunningSession
<1>7. sessions' = [sessions EXCEPT ![s] = session]
  <2>1. window = [old EXCEPT !.panes[p].exited = TRUE]
    OBVIOUS
  <2>. QED
    BY <1>1, <2>1 DEF PaneExits
<1>. HIDE DEF session
<1>8. /\ DOMAIN sessions' = DOMAIN sessions /\ sessions'[s] = session
      /\ \A t \in DOMAIN sessions \ {s} : sessions'[t] = sessions[t]
  BY <1>7 DEF IInv, TreeOK
<1>. QED
  BY <1>6, <1>8 DEF Saved

-------------------------------------------------------------------------------
(* The invariant. *)

\* What the file can hold: a hierarchy that some counters fit and that a
\* restart leaves as it is.
DiskOK ==
  /\ disk \in [state : {"absent", "torn", "tree"}, tree : {disk.tree}]
  /\ disk.state # "tree" => disk.tree = Empty
  /\ \E sb, wb, pb \in Nat \ {0} : TreeOK(disk.tree, sb, wb, pb)
  /\ Saved(disk.tree) = disk.tree

\* Which tree it is, and when it is the one that is served.
DiskCurrent ==
  /\ disk.state = "tree" => disk.tree \in {promised, attempted}
  /\ disk.state = "absent" => promised = Empty
  /\ phase \in {"saving", "answering"} => attempted = Saved(sessions)
  /\ phase \in {"answering", "serving", "stopping"} => disk.state = "tree"
  /\ phase = "answering" => disk.tree = Saved(sessions)
  /\ phase \in {"serving", "stopping"} => disk.tree = promised
  /\ phase \in {"serving", "stopping"} /\ reply # "err" =>
       disk.tree = Saved(sessions)

PhasesOK ==
  /\ phase \in {"down", "saving", "answering", "serving", "stopping"}
  /\ after \in {"serving", "stopping"}
  /\ downs \in 0 .. MaxDowns

ManagerInv == IInv /\ DiskOK /\ DiskCurrent /\ PhasesOK

\* It implies what the runs check.
LEMMA ManagerInvImplies ==
  ASSUME ManagerInv
  PROVE  /\ ManagerTypeOK /\ AnsweredIsDurable /\ ServedIsDurable
         /\ HierarchyOK
<1>1. TypeOK /\ HierarchyOK
  BY InvImplies DEF ManagerInv, HierarchyOK
<1>2. ManagerTypeOK
  BY <1>1 DEF ManagerInv, ManagerTypeOK, DiskOK, PhasesOK
<1>3. AnsweredIsDurable /\ ServedIsDurable
  BY DEF ManagerInv, DiskOK, DiskCurrent, AnsweredIsDurable, ServedIsDurable
<1>. QED
  BY <1>1, <1>2, <1>3

\* The empty hierarchy is one, whatever the counters.
LEMMA EmptyOK ==
  /\ \A sb, wb, pb \in Nat \ {0} : TreeOK(Empty, sb, wb, pb)
  /\ Saved(Empty) = Empty
BY DEF TreeOK, Empty, NamesDistinct, SessionsApart, Range, Saved

-------------------------------------------------------------------------------
(* The steps. *)

\* A restart builds a hierarchy that keeps the invariant of SessionTree.
LEMMA StartStep ==
  ASSUME ManagerInv, Start
  PROVE  ManagerInv'
<1>1. /\ sessions' = disk.tree
      /\ nextSession' = After(SessionIds') /\ nextWindow' = After(LiveWindows')
      /\ nextPane' = After(LivePanes') /\ reply' = "none"
  BY DEF Start
<1>2. PICK sb \in Nat \ {0}, wb \in Nat \ {0}, pb \in Nat \ {0} :
        TreeOK(sessions', sb, wb, pb)
  BY <1>1 DEF ManagerInv, DiskOK
<1>3. /\ DOMAIN sessions' \subseteq 1 .. sb - 1
      /\ \A s \in DOMAIN sessions' :
           /\ DOMAIN sessions'[s].windows \subseteq 1 .. wb - 1
           /\ \A w \in DOMAIN sessions'[s].windows :
                DOMAIN sessions'[s].windows[w].panes \subseteq 1 .. pb - 1
  BY <1>2, TreeBounded
<1>4. /\ SessionIds' \subseteq 1 .. sb - 1
      /\ LiveWindows' \subseteq 1 .. wb - 1
      /\ LivePanes' \subseteq 1 .. pb - 1
  BY <1>3 DEF SessionIds, LiveWindows, LivePanes, WindowsOf, PanesOf
<1>5. /\ nextSession' \in Nat \ {0} /\ SessionIds' \subseteq 1 .. nextSession' - 1
      /\ nextWindow' \in Nat \ {0} /\ LiveWindows' \subseteq 1 .. nextWindow' - 1
      /\ nextPane' \in Nat \ {0} /\ LivePanes' \subseteq 1 .. nextPane' - 1
  BY <1>1, <1>4, AfterBounds
<1>6. /\ DOMAIN sessions' \subseteq 1 .. nextSession' - 1
      /\ \A s \in DOMAIN sessions' :
           /\ DOMAIN sessions'[s].windows \subseteq 1 .. nextWindow' - 1
           /\ \A w \in DOMAIN sessions'[s].windows :
                DOMAIN sessions'[s].windows[w].panes \subseteq 1 .. nextPane' - 1
  BY <1>5 DEF SessionIds, LiveWindows, LivePanes, WindowsOf, PanesOf
<1>7. TreeOK(sessions', nextSession', nextWindow', nextPane')
  BY <1>2, <1>5, <1>6, Tighten
<1>8. IInv'
  BY <1>1, <1>5, <1>7 DEF IInv
<1>9. /\ phase' = "saving" /\ after' = "serving"
      /\ attempted' = Saved(sessions') /\ UNCHANGED <<disk, downs, promised>>
  BY DEF Start, BeginSave, Saved
<1>10. Saved(sessions') = disk.tree
  BY <1>1 DEF ManagerInv, DiskOK
<1>11. DiskOK'
  BY <1>9 DEF ManagerInv, DiskOK
<1>12. DiskCurrent'
  BY <1>9, <1>10 DEF ManagerInv, DiskOK, DiskCurrent
<1>13. PhasesOK'
  BY <1>9 DEF ManagerInv, PhasesOK
<1>. QED
  BY <1>8, <1>11, <1>12, <1>13 DEF ManagerInv

\* A command is answered.
LEMMA CommandReplies ==
  ASSUME Command
  PROVE  reply' \in {"ok", "err"}
<1>1. ASSUME NEW tree, Spawn(tree)
      PROVE  reply' \in {"ok", "err"}
  BY <1>1 DEF Spawn
<1>2. ASSUME NEW tree, Commit(tree)
      PROVE  reply' \in {"ok", "err"}
  BY <1>2 DEF Commit
<1>3. CASE SessionCommand
  BY <1>1, <1>2, <1>3
     DEF SessionCommand, CreateSession, CreateWindow, RenameSession,
         DeleteSession, Refuse
<1>4. ASSUME NEW s, NEW w, WindowCommand(s, w)
      PROVE  reply' \in {"ok", "err"}
  BY <1>1, <1>2, <1>4
     DEF WindowCommand, CreatePane, SelectWindow, RenameWindow, DeleteWindow,
         Refuse
<1>5. ASSUME NEW s, NEW w, NEW p, PaneCommand(s, w, p)
      PROVE  reply' \in {"ok", "err"}
  BY <1>1, <1>2, <1>5
     DEF PaneCommand, SelectPane, RenamePane, ResizePane, DeletePane, Refuse
<1>6. CASE Input \/ Query \/ UnresolvedTarget
  BY <1>6 DEF Input, SendInput, Query, UnresolvedTarget, Refuse
<1>. QED
  BY <1>3, <1>4, <1>5, <1>6 DEF Command, Change

\* A command keeps the hierarchy, and what it changed is to be saved.
LEMMA ServeStep ==
  ASSUME ManagerInv, Serve
  PROVE  ManagerInv'
<1>1. StepOK
  BY CommandStep DEF ManagerInv, Serve
<1>2. IInv' /\ reply' \in {"none", "ok", "err"}
  BY <1>1 DEF StepOK, IInv
<1>3. CASE reply' = "ok"
  <2>1. /\ phase' = "saving" /\ after' = "serving"
        /\ attempted' = Saved(sessions)' /\ UNCHANGED <<disk, downs, promised>>
    BY <1>3 DEF Serve, BeginSave
  <2>2. DiskOK'
    BY <2>1 DEF ManagerInv, DiskOK
  <2>3. DiskCurrent' /\ PhasesOK'
    BY <2>1 DEF ManagerInv, DiskOK, DiskCurrent, PhasesOK, Serve
  <2>. QED
    BY <1>2, <2>2, <2>3 DEF ManagerInv
<1>4. CASE reply' # "ok"
  <2>1. /\ phase = "serving"
        /\ UNCHANGED <<disk, phase, after, downs, promised, attempted>>
    BY <1>4 DEF Serve, daemonVars
  <2>2. reply' = "err"
    BY <1>4, CommandReplies DEF Serve
  <2>3. DiskOK'
    BY <2>1 DEF ManagerInv, DiskOK
  <2>4. DiskCurrent' /\ PhasesOK'
    BY <2>1, <2>2 DEF ManagerInv, DiskCurrent, PhasesOK
  <2>. QED
    BY <1>2, <2>3, <2>4 DEF ManagerInv
<1>. QED
  BY <1>3, <1>4

\* stop is answered, and the hierarchy saved once more.
LEMMA StopStep ==
  ASSUME ManagerInv, Stop
  PROVE  ManagerInv'
<1>1. IInv'
  BY CommandStep DEF ManagerInv, Stop, Command, StepOK
<1>2. /\ phase' = "saving" /\ after' = "stopping" /\ phase = "serving"
      /\ attempted' = Saved(sessions)' /\ UNCHANGED <<disk, downs, promised>>
  BY DEF Stop, BeginSave
<1>3. DiskOK'
  BY <1>2 DEF ManagerInv, DiskOK
<1>4. DiskCurrent' /\ PhasesOK'
  BY <1>2 DEF ManagerInv, DiskOK, DiskCurrent, PhasesOK
<1>. QED
  BY <1>1, <1>3, <1>4 DEF ManagerInv

\* What a save has written, a restart can read.
LEMMA SavedDiskOK ==
  ASSUME IInv, NEW file, file = [state |-> "tree", tree |-> Saved(sessions)]
  PROVE  /\ \E sb, wb, pb \in Nat \ {0} : TreeOK(file.tree, sb, wb, pb)
         /\ Saved(file.tree) = file.tree
BY SavedOK DEF IInv

\* A save that ends makes the file what is served, and is about to be answered.
LEMMA SaveStep ==
  ASSUME ManagerInv, Save
  PROVE  ManagerInv'
<1>1. /\ disk' = [state |-> "tree", tree |-> Saved(sessions)]
      /\ phase = "saving" /\ phase' = "answering"
      /\ UNCHANGED <<sessions, nextSession, nextWindow, nextPane, reply>>
      /\ UNCHANGED <<after, downs, promised, attempted>>
  BY DEF Save, treeVars, counters
<1>2. IInv'
  BY <1>1 DEF ManagerInv, IInv
<1>3. DiskOK'
  BY <1>1, SavedDiskOK DEF ManagerInv, DiskOK
<1>4. Saved(sessions)' = Saved(sessions)
  BY <1>1
<1>5. DiskCurrent' /\ PhasesOK'
  BY <1>1, <1>4 DEF ManagerInv, DiskCurrent, PhasesOK
<1>. QED
  BY <1>2, <1>3, <1>5 DEF ManagerInv

\* What is answered is in the file.
LEMMA AnswerStep ==
  ASSUME ManagerInv, Answer
  PROVE  ManagerInv'
<1>1. /\ phase = "answering" /\ phase' = after /\ promised' = Saved(sessions)
      /\ UNCHANGED <<sessions, nextSession, nextWindow, nextPane, reply>>
      /\ UNCHANGED <<disk, after, downs, attempted>>
  BY DEF Answer, treeVars, counters
<1>2. IInv' /\ DiskOK'
  BY <1>1 DEF ManagerInv, IInv, DiskOK
<1>3. Saved(sessions)' = Saved(sessions)
  BY <1>1
<1>4. DiskCurrent' /\ PhasesOK'
  BY <1>1, <1>3 DEF ManagerInv, DiskCurrent, PhasesOK
<1>. QED
  BY <1>2, <1>4 DEF ManagerInv

\* A shell that ends changes nothing that is saved.
LEMMA TickStep ==
  ASSUME ManagerInv, Tick
  PROVE  ManagerInv'
<1>1. /\ Collect /\ phase = "serving"
      /\ UNCHANGED <<disk, phase, after, downs, promised, attempted>>
  BY DEF Tick, daemonVars
<1>2. IInv'
  BY <1>1, CollectStep DEF ManagerInv, StepOK
<1>3. Saved(sessions)' = Saved(sessions)
  BY <1>1, ExitSaved DEF ManagerInv
<1>4. reply' = reply
  BY <1>1 DEF Collect, PaneExits
<1>5. DiskOK'
  BY <1>1 DEF ManagerInv, DiskOK
<1>6. DiskCurrent' /\ PhasesOK'
  BY <1>1, <1>3, <1>4 DEF ManagerInv, DiskCurrent, PhasesOK
<1>. QED
  BY <1>2, <1>5, <1>6 DEF ManagerInv

\* The memory of a daemon that went down is empty.
LEMMA GoDownTree ==
  ASSUME GoDown, PhasesOK
  PROVE  /\ IInv' /\ PhasesOK'
         /\ phase' = "down" /\ UNCHANGED <<promised, attempted>>
<1>2. IInv'
  BY EmptyOK DEF GoDown, IInv
<1>3. PhasesOK'
  BY DownsAssumption DEF DownsAssumption, GoDown, PhasesOK
<1>. QED
  BY <1>2, <1>3 DEF GoDown

\* ... and the file is left as it is, or as an interrupted save left it.
LEMMA DownStep ==
  ASSUME ManagerInv, Shutdown \/ Die
  PROVE  ManagerInv'
<1>1. /\ IInv' /\ PhasesOK' /\ phase' = "down"
      /\ UNCHANGED <<promised, attempted>>
  BY GoDownTree DEF ManagerInv, Shutdown, Die
<1>2. CASE disk' = disk
  <2>1. DiskOK'
    BY <1>2 DEF ManagerInv, DiskOK
  <2>2. DiskCurrent'
    BY <1>1, <1>2 DEF ManagerInv, DiskCurrent
  <2>. QED
    BY <1>1, <2>1, <2>2 DEF ManagerInv
<1>3. CASE disk' = [state |-> "torn", tree |-> Empty]
  <2>1. DiskOK'
    BY <1>3, EmptyOK DEF DiskOK
  <2>2. DiskCurrent'
    BY <1>1, <1>3 DEF DiskCurrent
  <2>. QED
    BY <1>1, <2>1, <2>2 DEF ManagerInv
<1>4. CASE phase = "saving" /\ disk' = [state |-> "tree", tree |-> Saved(sessions)]
  <2>1. DiskOK'
    BY <1>4, SavedDiskOK DEF ManagerInv, DiskOK
  <2>2. DiskCurrent'
    BY <1>1, <1>4 DEF ManagerInv, DiskCurrent
  <2>. QED
    BY <1>1, <2>1, <2>2 DEF ManagerInv
<1>. QED
  BY <1>2, <1>3, <1>4 DEF Shutdown, Die

\* Before the first start there is no file.
LEMMA ManagerInvInit == Init => ManagerInv
<1>. SUFFICES ASSUME Init PROVE ManagerInv
  OBVIOUS
<1>1. IInv
  BY InvInit DEF Init
<1>2. /\ disk = [state |-> "absent", tree |-> Empty] /\ phase = "down"
      /\ after = "serving" /\ downs = 0 /\ promised = Empty /\ attempted = Empty
  BY DEF Init
<1>3. DiskOK
  BY <1>2, EmptyOK DEF DiskOK
<1>4. DiskCurrent /\ PhasesOK
  BY <1>2, DownsAssumption DEF DiskCurrent, PhasesOK, DownsAssumption
<1>. QED
  BY <1>1, <1>3, <1>4 DEF ManagerInv

\* The invariant is inductive.
LEMMA ManagerInvNext ==
  ASSUME ManagerInv, [Next]_vars
  PROVE  ManagerInv'
<1>1. CASE UNCHANGED vars
  <2>1. /\ UNCHANGED <<sessions, nextSession, nextWindow, nextPane, reply>>
        /\ UNCHANGED <<disk, phase, after, downs, promised, attempted>>
    BY <1>1 DEF vars, treeVars, counters, daemonVars
  <2>2. Saved(sessions)' = Saved(sessions)
    BY <2>1
  <2>3. IInv' /\ DiskOK'
    BY <2>1 DEF ManagerInv, IInv, DiskOK
  <2>4. DiskCurrent' /\ PhasesOK'
    BY <2>1, <2>2 DEF ManagerInv, DiskCurrent, PhasesOK
  <2>. QED
    BY <2>3, <2>4 DEF ManagerInv
<1>2. CASE FailedStart
  BY <1>1, <1>2 DEF FailedStart
<1>. QED
  BY <1>1, <1>2, StartStep, ServeStep, StopStep, SaveStep, AnswerStep, TickStep, DownStep
     DEF Next

-------------------------------------------------------------------------------
(* The theorems. *)

\* The invariant of the daemon: the hierarchy in memory, the file, and how
\* the two are related.
THEOREM ManagerInvariant == Spec => []ManagerInv
<1>. QED
  BY ManagerInvInit, ManagerInvNext, PTL DEF Spec

\* Type correctness of the daemon with its file, across restarts.
THEOREM ManagerTyped == Spec => []ManagerTypeOK
<1>1. ManagerInv => ManagerTypeOK
  BY ManagerInvImplies
<1>. QED
  BY <1>1, ManagerInvariant, PTL

(***************************************************************************)
(* However often the daemon dies and is started again, what it serves is a *)
(* well-formed hierarchy under counters past every live id, in which the   *)
(* panes of every window fill it.                                          *)
(***************************************************************************)
THEOREM HierarchyRestored == Spec => []HierarchyOK
<1>1. ManagerInv => HierarchyOK
  BY ManagerInvImplies
<1>. QED
  BY <1>1, ManagerInvariant, PTL

\* A file that can be read holds what was last answered, or what was being
\* saved when the daemon died.
THEOREM AnsweredAlwaysDurable == Spec => []AnsweredIsDurable
<1>1. ManagerInv => AnsweredIsDurable
  BY ManagerInvImplies
<1>. QED
  BY <1>1, ManagerInvariant, PTL

\* From the answer to a command, or earlier, until the next one the file holds what is
\* served.
THEOREM ServedAlwaysDurable == Spec => []ServedIsDurable
<1>1. ManagerInv => ServedIsDurable
  BY ManagerInvImplies
<1>. QED
  BY <1>1, ManagerInvariant, PTL

-------------------------------------------------------------------------------
(* Targets. *)

\* The only thing that matches is what is found.
LEMMA FindOnly ==
  ASSUME NEW k \in Nat
  PROVE  Min({k}) = k
BY MinNat

\* Among siblings that can be told apart a target finds what it was made of.
LEMMA FoundAmong ==
  ASSUME NEW map, DOMAIN map \subseteq Nat, Addressable(map),
         NEW k \in DOMAIN map, map[k].name \in Name, map[k].index \in Nat
  PROVE  /\ ResolveAmong(map, <<"", k>>) = k
         /\ ~IsId(map[k].name) => ResolveAmong(map, map[k].name) = k
         /\ \/ map[k].index \in DOMAIN map
            \/ NameTakenByOther(map, k, <<"", map[k].index>>)
            \/ ResolveAmong(map, <<"", map[k].index>>) = k
<1>1. ResolveAmong(map, <<"", k>>) = k
  BY DEF ResolveAmong, IsId
<1>2. ASSUME NEW target, ~(IsId(target) /\ target[2] \in DOMAIN map),
             {j \in DOMAIN map : MatchesTarget(map[j], target)} = {k}
      PROVE  ResolveAmong(map, target) = k
  BY <1>2, FindOnly DEF ResolveAmong, Find
<1>3. ASSUME ~IsId(map[k].name)
      PROVE  ResolveAmong(map, map[k].name) = k
  <2>1. ASSUME NEW n, map[k].name = <<"", n>> PROVE FALSE
    <3>1. <<"", n>>[1] = ""
      OBVIOUS
    <3>. QED
      BY <1>3, <2>1, <3>1 DEF IsId
  <2>2. {j \in DOMAIN map : MatchesTarget(map[j], map[k].name)} = {k}
    BY <2>1 DEF MatchesTarget, Addressable, NamesDistinct
  <2>. QED
    BY <1>2, <1>3, <2>2
<1>4. ASSUME map[k].index \notin DOMAIN map,
             ~NameTakenByOther(map, k, <<"", map[k].index>>)
      PROVE  ResolveAmong(map, <<"", map[k].index>>) = k
  <2>1. \A j \in DOMAIN map :
          <<"", map[k].index>> = <<"", map[j].index>> => j = k
    BY DEF Addressable, IndexesDistinct
  <2>2. \A j \in DOMAIN map \ {k} : map[j].name # <<"", map[k].index>>
    BY <1>4 DEF NameTakenByOther
  <2>3. {j \in DOMAIN map : MatchesTarget(map[j], <<"", map[k].index>>)} = {k}
    BY <2>1, <2>2 DEF MatchesTarget
  <2>. QED
    BY <1>2, <1>4, <2>3
<1>. QED
  BY <1>1, <1>3, <1>4

\* What a client is shown finds what it was shown for, in every hierarchy.
LEMMA InvTargets ==
  ASSUME IInv
  PROVE  TargetsFound
<1>1. ASSUME NEW s \in SessionIds
      PROVE  /\ SessionOK(sessions[s], nextWindow, nextPane)
             /\ s \in Nat /\ nextWindow \in Nat /\ nextPane \in Nat
  BY DEF IInv, TreeOK, SessionIds
<1>2. ASSUME NEW s \in SessionIds, NEW k \in DOMAIN sessions[s].windows
      PROVE  /\ DOMAIN sessions[s].windows \subseteq Nat
             /\ Addressable(sessions[s].windows)
             /\ sessions[s].windows[k].name \in Name
             /\ sessions[s].windows[k].index \in Nat
  BY <1>1 DEF SessionOK, SessionTyped, WindowTyped
<1>3. ASSUME NEW s \in SessionIds, NEW w \in DOMAIN sessions[s].windows,
             NEW k \in DOMAIN sessions[s].windows[w].panes
      PROVE  LET panes == sessions[s].windows[w].panes
             IN  /\ DOMAIN panes \subseteq Nat /\ Addressable(panes)
                 /\ panes[k].name \in Name /\ panes[k].index \in Nat
  BY <1>1 DEF SessionOK, WindowOK, WindowShaped, WindowTyped, PanesTyped, Pane
<1>4. FoundById
  BY <1>2, <1>3, FoundAmong
     DEF FoundById, EveryFamily, ResolveSession, IsId, WindowsOf
<1>5. ASSUME NEW s \in SessionIds, ~IsId(sessions[s].name)
      PROVE  ResolveSession(sessions[s].name) = s
  <2>1. {t \in SessionIds : sessions[t].name = sessions[s].name} = {s}
    BY DEF IInv, TreeOK, NamesDistinct, SessionIds
  <2>. QED
    BY <1>1, <1>5, <2>1, FindOnly DEF ResolveSession, Find
<1>6. FoundByName
  BY <1>2, <1>3, <1>5, FoundAmong DEF FoundByName, EveryFamily, WindowsOf
<1>7. FoundByIndex
  BY <1>2, <1>3, FoundAmong DEF FoundByIndex, EveryFamily, WindowsOf
<1>. QED
  BY <1>4, <1>6, <1>7 DEF TargetsFound

\* Ids, names that are no number and indexes that nothing hides find what they
\* belong to, whatever was created, renamed, deleted and restored before.
THEOREM TargetsAlwaysFound == Spec => []TargetsFound
<1>1. ManagerInv => TargetsFound
  BY InvTargets DEF ManagerInv
<1>. QED
  BY <1>1, ManagerInvariant, PTL
===============================================================================
