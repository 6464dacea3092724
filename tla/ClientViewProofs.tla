--------------------------- MODULE ClientViewProofs ---------------------------
(***************************************************************************)
(* What attached clients see, for any clients, texts and bounds: the view  *)
(* of a client is the part of the hierarchy it is attached to, its place   *)
(* is in it, and no step moves a client whose pane lives.                  *)
(*                                                                         *)
(* A view is a cut of the hierarchy in which exits are marked.  The proof  *)
(* is that marking and cutting commute, that what the cut keeps is what    *)
(* the filter admits, and that a refresh finds a place whenever there is   *)
(* one; then one short step per action, over the invariant of SessionTree. *)
(***************************************************************************)
EXTENDS ClientView, SessionTreeProofs

(* Marking exits. *)

\* The shape of a hierarchy or of a cut of one: records and functions all the
\* way down.
WindowShape(window) ==
  /\ window = [index |-> window.index, name |-> window.name,
               layout |-> window.layout, active |-> window.active,
               panes |-> window.panes]
  /\ window.panes = [p \in DOMAIN window.panes |-> window.panes[p]]

SessionShape(session) ==
  /\ session = [name |-> session.name, active |-> session.active,
                windows |-> session.windows]
  /\ session.windows = [w \in DOMAIN session.windows |-> session.windows[w]]
  /\ \A w \in DOMAIN session.windows : WindowShape(session.windows[w])

TreeShape(tree) ==
  /\ tree = [s \in DOMAIN tree |-> tree[s]]
  /\ \A s \in DOMAIN tree : SessionShape(tree[s])

\* A marked window: nothing but the panes differs.
MarkedWindow(window, told) ==
  [window EXCEPT !.panes = MarkedPanes(window.panes, told)]

MarkedSession(session, told) ==
  [session EXCEPT !.windows = MarkedWindows(session.windows, told)]

\* Marking panes, twice, not at all, or panes that are not there.
LEMMA MarkPanes ==
  ASSUME NEW panes, panes = [p \in DOMAIN panes |-> panes[p]], NEW told
  PROVE  /\ DOMAIN MarkedPanes(panes, told) = DOMAIN panes
         /\ MarkedPanes(panes, told)
              = [p \in DOMAIN panes |-> MarkedPanes(panes, told)[p]]
         /\ told \cap DOMAIN panes = {} => MarkedPanes(panes, told) = panes
         /\ \A more : MarkedPanes(MarkedPanes(panes, told), more)
                        = MarkedPanes(panes, told \cup more)
         /\ \A kept : kept \subseteq DOMAIN panes =>
              MarkedPanes(Restrict(panes, kept), told)
                = Restrict(MarkedPanes(panes, told), kept)
<1>1. told \cap DOMAIN panes = {} => MarkedPanes(panes, told) = panes
  BY DEF MarkedPanes
<1>2. ASSUME NEW more
      PROVE  MarkedPanes(MarkedPanes(panes, told), more)
               = MarkedPanes(panes, told \cup more)
  <2>1. \A pane : [[pane EXCEPT !.exited = TRUE] EXCEPT !.exited = TRUE]
                    = [pane EXCEPT !.exited = TRUE]
    OBVIOUS
  <2>2. \A p \in DOMAIN panes :
          MarkedPanes(MarkedPanes(panes, told), more)[p]
            = MarkedPanes(panes, told \cup more)[p]
    BY <2>1 DEF MarkedPanes
  <2>3. /\ MarkedPanes(MarkedPanes(panes, told), more)
             = [p \in DOMAIN panes |->
                  MarkedPanes(MarkedPanes(panes, told), more)[p]]
        /\ MarkedPanes(panes, told \cup more)
             = [p \in DOMAIN panes |-> MarkedPanes(panes, told \cup more)[p]]
    BY DEF MarkedPanes
  <2>. QED
    BY <2>2, <2>3
<1>3. ASSUME NEW kept, kept \subseteq DOMAIN panes
      PROVE  MarkedPanes(Restrict(panes, kept), told)
               = Restrict(MarkedPanes(panes, told), kept)
  BY <1>3 DEF MarkedPanes, Restrict
<1>. QED
  BY <1>1, <1>2, <1>3 DEF MarkedPanes

\* The same of a window.
LEMMA MarkWindow ==
  ASSUME NEW window, WindowShape(window), NEW told
  PROVE  LET v == MarkedWindow(window, told)
         IN  /\ WindowShape(v)
             /\ v = [index |-> window.index, name |-> window.name,
                     layout |-> window.layout, active |-> window.active,
                     panes |-> MarkedPanes(window.panes, told)]
             /\ DOMAIN v.panes = DOMAIN window.panes
             /\ told \cap DOMAIN window.panes = {} => v = window
             /\ \A more : MarkedWindow(v, more)
                            = MarkedWindow(window, told \cup more)
<1>. DEFINE panes == MarkedPanes(window.panes, told)
            v == MarkedWindow(window, told)
<1>1. /\ DOMAIN panes = DOMAIN window.panes
      /\ panes = [p \in DOMAIN panes |-> panes[p]]
      /\ told \cap DOMAIN window.panes = {} => panes = window.panes
      /\ \A more : MarkedPanes(panes, more)
                     = MarkedPanes(window.panes, told \cup more)
  BY MarkPanes DEF WindowShape
<1>. HIDE DEF panes
<1>2. v = [index |-> window.index, name |-> window.name,
           layout |-> window.layout, active |-> window.active, panes |-> panes]
  BY DEF MarkedWindow, WindowShape, panes
<1>3. \A more : MarkedWindow(window, more) =
        [index |-> window.index, name |-> window.name,
         layout |-> window.layout, active |-> window.active,
         panes |-> MarkedPanes(window.panes, more)]
  BY DEF MarkedWindow, WindowShape
<1>. HIDE DEF v
<1>4. \A more : MarkedWindow(v, more) =
        [index |-> window.index, name |-> window.name,
         layout |-> window.layout, active |-> window.active,
         panes |-> MarkedPanes(panes, more)]
  BY <1>2 DEF MarkedWindow
<1>5. told \cap DOMAIN window.panes = {} => v = window
  BY <1>1, <1>2 DEF WindowShape
<1>6. \A more : MarkedWindow(v, more) = MarkedWindow(window, told \cup more)
  BY <1>1, <1>3, <1>4
<1>7. WindowShape(v) /\ v.panes = panes
  BY <1>1, <1>2 DEF WindowShape
<1>. QED
  BY <1>1, <1>2, <1>5, <1>6, <1>7 DEF v, panes

WindowsShape(windows) ==
  /\ windows = [w \in DOMAIN windows |-> windows[w]]
  /\ \A w \in DOMAIN windows : WindowShape(windows[w])

\* ... of the windows of a session,
LEMMA MarkWindows ==
  ASSUME NEW windows, WindowsShape(windows), NEW told
  PROVE  LET m == MarkedWindows(windows, told)
         IN  /\ WindowsShape(m)
             /\ DOMAIN m = DOMAIN windows
             /\ \A w \in DOMAIN windows : m[w] = MarkedWindow(windows[w], told)
             /\ (\A w \in DOMAIN windows : told \cap DOMAIN windows[w].panes = {})
                  => m = windows
             /\ \A more : MarkedWindows(m, more)
                            = MarkedWindows(windows, told \cup more)
<1>. DEFINE m == MarkedWindows(windows, told)
<1>1. /\ m = [w \in DOMAIN m |-> m[w]] /\ DOMAIN m = DOMAIN windows
      /\ \A w \in DOMAIN windows : m[w] = MarkedWindow(windows[w], told)
  BY DEF MarkedWindows, MarkedWindow
<1>2. \A w \in DOMAIN windows :
        /\ WindowShape(MarkedWindow(windows[w], told))
        /\ told \cap DOMAIN windows[w].panes = {}
             => MarkedWindow(windows[w], told) = windows[w]
        /\ \A more : MarkedWindow(MarkedWindow(windows[w], told), more)
                       = MarkedWindow(windows[w], told \cup more)
  BY MarkWindow DEF WindowsShape
<1>. HIDE DEF m
<1>3. ASSUME NEW more
      PROVE  MarkedWindows(m, more) = MarkedWindows(windows, told \cup more)
  <2>1. MarkedWindows(m, more)
          = [w \in DOMAIN windows |-> MarkedWindow(m[w], more)]
    BY <1>1 DEF MarkedWindows, MarkedWindow
  <2>2. MarkedWindows(windows, told \cup more)
          = [w \in DOMAIN windows |-> MarkedWindow(windows[w], told \cup more)]
    BY DEF MarkedWindows, MarkedWindow
  <2>. QED
    BY <1>1, <1>2, <2>1, <2>2
<1>4. (\A w \in DOMAIN windows : told \cap DOMAIN windows[w].panes = {})
        => m = windows
  BY <1>1, <1>2 DEF WindowsShape
<1>5. WindowsShape(m)
  BY <1>1, <1>2 DEF WindowsShape
<1>. QED
  BY <1>1, <1>3, <1>4, <1>5 DEF m

\* ... of a session,
LEMMA MarkSession ==
  ASSUME NEW session, SessionShape(session), NEW told
  PROVE  LET v == MarkedSession(session, told)
         IN  /\ SessionShape(v)
             /\ v = [name |-> session.name, active |-> session.active,
                     windows |-> MarkedWindows(session.windows, told)]
             /\ DOMAIN v.windows = DOMAIN session.windows
             /\ \A w \in DOMAIN session.windows :
                  v.windows[w] = MarkedWindow(session.windows[w], told)
             /\ (\A w \in DOMAIN session.windows :
                   told \cap DOMAIN session.windows[w].panes = {})
                  => v = session
             /\ \A more : MarkedSession(v, more)
                            = MarkedSession(session, told \cup more)
<1>. DEFINE windows == MarkedWindows(session.windows, told)
            v == MarkedSession(session, told)
<1>0. WindowsShape(session.windows)
  BY DEF SessionShape, WindowsShape
<1>1. /\ WindowsShape(windows) /\ DOMAIN windows = DOMAIN session.windows
      /\ \A w \in DOMAIN session.windows :
           windows[w] = MarkedWindow(session.windows[w], told)
      /\ (\A w \in DOMAIN session.windows :
            told \cap DOMAIN session.windows[w].panes = {})
           => windows = session.windows
      /\ \A more : MarkedWindows(windows, more)
                     = MarkedWindows(session.windows, told \cup more)
  BY <1>0, MarkWindows
<1>2. \A more : MarkedSession(session, more) =
        [name |-> session.name, active |-> session.active,
         windows |-> MarkedWindows(session.windows, more)]
  BY DEF MarkedSession, SessionShape
<1>3. v = [name |-> session.name, active |-> session.active,
           windows |-> windows]
  BY <1>2
<1>. HIDE DEF windows, v
<1>4. \A more : MarkedSession(v, more) =
        [name |-> session.name, active |-> session.active,
         windows |-> MarkedWindows(windows, more)]
  BY <1>3 DEF MarkedSession
<1>5. v.windows = windows /\ SessionShape(v)
  BY <1>1, <1>3 DEF SessionShape, WindowsShape
<1>6. (\A w \in DOMAIN session.windows :
         told \cap DOMAIN session.windows[w].panes = {}) => v = session
  BY <1>1, <1>3 DEF SessionShape
<1>7. \A more : MarkedSession(v, more) = MarkedSession(session, told \cup more)
  BY <1>1, <1>2, <1>4
<1>. QED
  BY <1>1, <1>3, <1>5, <1>6, <1>7 DEF v, windows

\* ... and of a hierarchy.
LEMMA MarkTree ==
  ASSUME NEW tree, TreeShape(tree), NEW told
  PROVE  LET m == Marked(tree, told)
         IN  /\ TreeShape(m)
             /\ DOMAIN m = DOMAIN tree
             /\ \A s \in DOMAIN tree : m[s] = MarkedSession(tree[s], told)
             /\ (\A s \in DOMAIN tree : \A w \in DOMAIN tree[s].windows :
                   told \cap DOMAIN tree[s].windows[w].panes = {})
                  => m = tree
             /\ \A more : Marked(m, more) = Marked(tree, told \cup more)
<1>. DEFINE m == Marked(tree, told)
<1>1. /\ m = [s \in DOMAIN m |-> m[s]] /\ DOMAIN m = DOMAIN tree
      /\ \A s \in DOMAIN tree : m[s] = MarkedSession(tree[s], told)
  BY DEF Marked, MarkedSession
<1>2. \A s \in DOMAIN tree :
        /\ SessionShape(MarkedSession(tree[s], told))
        /\ (\A w \in DOMAIN tree[s].windows :
              told \cap DOMAIN tree[s].windows[w].panes = {})
             => MarkedSession(tree[s], told) = tree[s]
        /\ \A more : MarkedSession(MarkedSession(tree[s], told), more)
                       = MarkedSession(tree[s], told \cup more)
  BY MarkSession DEF TreeShape
<1>. HIDE DEF m
<1>3. ASSUME NEW more PROVE Marked(m, more) = Marked(tree, told \cup more)
  <2>1. Marked(m, more) = [s \in DOMAIN tree |-> MarkedSession(m[s], more)]
    BY <1>1 DEF Marked, MarkedSession
  <2>2. Marked(tree, told \cup more)
          = [s \in DOMAIN tree |-> MarkedSession(tree[s], told \cup more)]
    BY DEF Marked, MarkedSession
  <2>. QED
    BY <1>1, <1>2, <2>1, <2>2
<1>4. (\A s \in DOMAIN tree : \A w \in DOMAIN tree[s].windows :
         told \cap DOMAIN tree[s].windows[w].panes = {}) => m = tree
  BY <1>1, <1>2 DEF TreeShape
<1>5. TreeShape(m)
  BY <1>1, <1>2 DEF TreeShape
<1>. QED
  BY <1>1, <1>3, <1>4, <1>5 DEF m

-------------------------------------------------------------------------------
(* Cutting out what a filter admits. *)

\* Windows and sessions are what their fields are.
LEMMA SameWindow ==
  ASSUME NEW v, WindowShape(v), NEW u, WindowShape(u),
         v.index = u.index, v.name = u.name, v.layout = u.layout,
         v.active = u.active, DOMAIN v.panes = DOMAIN u.panes,
         \A p \in DOMAIN u.panes : v.panes[p] = u.panes[p]
  PROVE  v = u
<1>1. v.panes = u.panes
  BY DEF WindowShape
<1>. QED
  BY <1>1 DEF WindowShape

\* ... and so are sessions.
LEMMA SameSession ==
  ASSUME NEW v, SessionShape(v), NEW u, SessionShape(u),
         v.name = u.name, v.active = u.active,
         DOMAIN v.windows = DOMAIN u.windows,
         \A w \in DOMAIN u.windows : v.windows[w] = u.windows[w]
  PROVE  v = u
<1>1. v.windows = u.windows
  BY DEF SessionShape
<1>. QED
  BY <1>1 DEF SessionShape

\* v is what Windows, OnePane and Panes leave.
WindowsLeft(f, session, v) ==
  /\ SessionShape(v) /\ v.name = session.name
  /\ v.active = IF f.window = None \/ session.active = f.window
                THEN session.active ELSE None
  /\ DOMAIN v.windows = {w \in DOMAIN session.windows : Admits(f.window, w)}
  /\ \A w \in DOMAIN v.windows : v.windows[w] = session.windows[w]

PaneLeft(f, window, v) ==
  /\ WindowShape(v) /\ v.index = window.index
  /\ v.name = window.name /\ v.layout = window.layout
  /\ v.active = IF window.active = f.pane THEN window.active ELSE None
  /\ DOMAIN v.panes = DOMAIN window.panes \cap {f.pane}
  /\ \A p \in DOMAIN v.panes : v.panes[p] = window.panes[p]

PanesLeft(f, session, v) ==
  /\ SessionShape(v) /\ v.name = session.name
  /\ v.active = IF f.pane = None THEN session.active ELSE FirstKey(v.windows)
  /\ DOMAIN v.windows = {w \in DOMAIN session.windows :
       f.pane = None \/ f.pane \in DOMAIN session.windows[w].panes}
  /\ \A w \in DOMAIN v.windows :
       v.windows[w] = IF f.pane = None THEN session.windows[w]
                      ELSE OnePane(f, session.windows[w])

\* The session that Windows leaves.
LEMMA WindowsCut ==
  ASSUME NEW session, SessionShape(session), NEW f
  PROVE  WindowsLeft(f, session, Windows(f, session))
<1>. USE DEF WindowsLeft
<1>. DEFINE v == Windows(f, session)
<1>1. CASE f.window = None
  BY <1>1 DEF Windows, Admits
<1>2. CASE f.window # None
  <2>. DEFINE kept == DOMAIN session.windows \cap {f.window}
              windows == Restrict(session.windows, kept)
              active == IF session.active = f.window THEN session.active ELSE None
  <2>1. v = [name |-> session.name, active |-> active, windows |-> windows]
    BY <1>2 DEF Windows, SessionShape
  <2>2. /\ DOMAIN windows = kept
        /\ windows = [w \in kept |-> windows[w]]
        /\ \A w \in kept : windows[w] = session.windows[w]
    BY DEF Restrict
  <2>. HIDE DEF windows, active, v
  <2>3. SessionShape(v)
    BY <2>1, <2>2 DEF SessionShape
  <2>. QED
    BY <1>2, <2>1, <2>2, <2>3 DEF v, active, Admits
<1>. QED
  BY <1>1, <1>2

\* The window that OnePane leaves.
LEMMA OnePaneCut ==
  ASSUME NEW window, WindowShape(window), NEW f
  PROVE  PaneLeft(f, window, OnePane(f, window))
<1>. USE DEF PaneLeft
<1>. DEFINE kept == DOMAIN window.panes \cap {f.pane}
            panes == Restrict(window.panes, kept)
            active == IF window.active = f.pane THEN window.active ELSE None
            v == OnePane(f, window)
<1>1. v = [index |-> window.index, name |-> window.name,
           layout |-> window.layout, active |-> active, panes |-> panes]
  <2>1. v = [window EXCEPT !.panes = panes, !.active = active]
    BY DEF OnePane
  <2>. HIDE DEF panes, active, v
  <2>. QED
    BY <2>1 DEF WindowShape
<1>2. /\ DOMAIN panes = kept /\ panes = [p \in kept |-> panes[p]]
      /\ \A p \in kept : panes[p] = window.panes[p]
  BY DEF Restrict
<1>. HIDE DEF panes, active, v
<1>3. WindowShape(v)
  BY <1>1, <1>2 DEF WindowShape
<1>. QED
  BY <1>1, <1>2, <1>3 DEF v, active

\* The session that Panes leaves.
LEMMA PanesCut ==
  ASSUME NEW session, SessionShape(session), NEW f
  PROVE  PanesLeft(f, session, Panes(f, session))
<1>. USE DEF PanesLeft
<1>. DEFINE v == Panes(f, session)
<1>1. CASE f.pane = None
  BY <1>1 DEF Panes
<1>2. CASE f.pane # None
  <2>. DEFINE kept == {w \in DOMAIN session.windows :
                         f.pane \in DOMAIN session.windows[w].panes}
              windows == [w \in kept |-> OnePane(f, session.windows[w])]
  <2>1. v = [name |-> session.name, active |-> FirstKey(windows),
             windows |-> windows]
    <3>1. v = [session EXCEPT !.windows = windows, !.active = FirstKey(windows)]
      BY <1>2 DEF Panes
    <3>. HIDE DEF windows, v
    <3>. QED
      BY <3>1 DEF SessionShape
  <2>2. /\ DOMAIN windows = kept
        /\ windows = [w \in kept |-> windows[w]]
        /\ \A w \in kept : windows[w] = OnePane(f, session.windows[w])
    OBVIOUS
  <2>3. \A w \in kept : WindowShape(windows[w])
    BY <2>2, OnePaneCut DEF SessionShape, PaneLeft
  <2>. HIDE DEF windows, v
  <2>4. SessionShape(v)
    BY <2>1, <2>2, <2>3 DEF SessionShape
  <2>5. /\ v.name = session.name /\ v.windows = windows
        /\ v.active = FirstKey(v.windows)
    BY <2>1
  <2>6. /\ DOMAIN v.windows = {w \in DOMAIN session.windows :
             f.pane = None \/ f.pane \in DOMAIN session.windows[w].panes}
        /\ \A w \in DOMAIN v.windows :
             v.windows[w] = OnePane(f, session.windows[w])
    BY <1>2, <2>2, <2>5
  <2>. QED
    BY <1>2, <2>4, <2>5, <2>6 DEF v
<1>. QED
  BY <1>1, <1>2

\* The part of a session that a filter admits, if it admits the session.
Cut(f, session) == Panes(f, Windows(f, session))

CutLeft(f, session, v) ==
  /\ SessionShape(v) /\ v.name = session.name
  /\ v.active = IF f.pane # None THEN FirstKey(v.windows)
                ELSE IF f.window = None \/ session.active = f.window
                THEN session.active ELSE None
  /\ DOMAIN v.windows = {w \in DOMAIN session.windows :
       /\ Admits(f.window, w)
       /\ f.pane = None \/ f.pane \in DOMAIN session.windows[w].panes}
  /\ \A w \in DOMAIN v.windows :
       v.windows[w] = IF f.pane = None THEN session.windows[w]
                      ELSE OnePane(f, session.windows[w])

\* What Cut keeps, and of it what.
LEMMA CutShape ==
  ASSUME NEW session, SessionShape(session), NEW f
  PROVE  CutLeft(f, session, Cut(f, session))
<1>. DEFINE u == Windows(f, session)
            v == Panes(f, u)
<1>1. WindowsLeft(f, session, u)
  BY WindowsCut
<1>2. PanesLeft(f, u, v)
  BY <1>1, PanesCut DEF WindowsLeft
<1>3. v = Cut(f, session)
  BY DEF Cut
<1>. HIDE DEF u, v
<1>. USE <1>1, <1>2 DEF WindowsLeft, PanesLeft
<1>4. DOMAIN v.windows = {w \in DOMAIN session.windows :
        /\ Admits(f.window, w)
        /\ f.pane = None \/ f.pane \in DOMAIN session.windows[w].panes}
  OBVIOUS
<1>5. \A w \in DOMAIN v.windows :
        v.windows[w] = IF f.pane = None THEN session.windows[w]
                       ELSE OnePane(f, session.windows[w])
  OBVIOUS
<1>6. v.active = IF f.pane # None THEN FirstKey(v.windows)
                 ELSE IF f.window = None \/ session.active = f.window
                 THEN session.active ELSE None
  OBVIOUS
<1>. QED
  BY <1>3, <1>4, <1>5, <1>6 DEF CutLeft

\* The panes of a window that is cut are those the filter admits.
LEMMA CutPanes ==
  ASSUME NEW session, SessionShape(session), NEW f,
         NEW w \in DOMAIN Cut(f, session).windows
  PROVE  /\ w \in DOMAIN session.windows
         /\ DOMAIN Cut(f, session).windows[w].panes
              = {p \in DOMAIN session.windows[w].panes : Admits(f.pane, p)}
<1>1. /\ w \in DOMAIN session.windows
      /\ Cut(f, session).windows[w]
           = IF f.pane = None THEN session.windows[w]
             ELSE OnePane(f, session.windows[w])
  BY CutShape DEF CutLeft
<1>2. DOMAIN OnePane(f, session.windows[w]).panes
        = DOMAIN session.windows[w].panes \cap {f.pane}
  BY <1>1, OnePaneCut DEF SessionShape, PaneLeft
<1>. QED
  BY <1>1, <1>2 DEF Admits

\* Marking and cutting commute, of a window
LEMMA OnePaneMarked ==
  ASSUME NEW window, WindowShape(window), NEW f, NEW told
  PROVE  OnePane(f, MarkedWindow(window, told))
           = MarkedWindow(OnePane(f, window), told)
<1>. DEFINE m == MarkedWindow(window, told)
            o == OnePane(f, window)
            v == OnePane(f, m)
            u == MarkedWindow(o, told)
<1>1. /\ WindowShape(m)
      /\ m = [index |-> window.index, name |-> window.name,
              layout |-> window.layout, active |-> window.active,
              panes |-> MarkedPanes(window.panes, told)]
      /\ DOMAIN m.panes = DOMAIN window.panes
  BY MarkWindow
<1>2. PaneLeft(f, window, o)
  BY OnePaneCut
<1>. HIDE DEF m, o
<1>3. PaneLeft(f, m, v)
  BY <1>1, OnePaneCut
<1>4. /\ WindowShape(u)
      /\ u = [index |-> o.index, name |-> o.name,
              layout |-> o.layout, active |-> o.active,
              panes |-> MarkedPanes(o.panes, told)]
      /\ DOMAIN u.panes = DOMAIN o.panes
  BY <1>2, MarkWindow DEF PaneLeft
<1>. HIDE DEF v, u
<1>. USE DEF PaneLeft
<1>5. \A p \in DOMAIN u.panes : v.panes[p] = u.panes[p]
  <2>. SUFFICES ASSUME NEW p \in DOMAIN u.panes PROVE v.panes[p] = u.panes[p]
    OBVIOUS
  <2>1. p \in DOMAIN o.panes /\ p \in DOMAIN window.panes
        /\ p \in DOMAIN v.panes
    BY <1>1, <1>2, <1>3, <1>4
  <2>2. u.panes[p] = IF p \in told THEN [o.panes[p] EXCEPT !.exited = TRUE]
                     ELSE o.panes[p]
    BY <1>4, <2>1 DEF MarkedPanes
  <2>3. m.panes[p] = IF p \in told THEN [window.panes[p] EXCEPT !.exited = TRUE]
                     ELSE window.panes[p]
    BY <1>1, <2>1 DEF MarkedPanes
  <2>. QED
    BY <1>2, <1>3, <2>1, <2>2, <2>3
<1>6. /\ v.index = u.index /\ v.name = u.name /\ v.layout = u.layout
      /\ v.active = u.active /\ DOMAIN v.panes = DOMAIN u.panes
  BY <1>1, <1>2, <1>3, <1>4
<1>7. v = u
  BY <1>3, <1>4, <1>5, <1>6, SameWindow
<1>. QED
  BY <1>7 DEF v, u, m, o

\* ... and of a session.
LEMMA CutMarked ==
  ASSUME NEW session, SessionShape(session), NEW f, NEW told
  PROVE  Cut(f, MarkedSession(session, told))
           = MarkedSession(Cut(f, session), told)
<1>. DEFINE m == MarkedSession(session, told)
            o == Cut(f, session)
            v == Cut(f, m)
            u == MarkedSession(o, told)
<1>1. /\ SessionShape(m)
      /\ m = [name |-> session.name, active |-> session.active,
              windows |-> MarkedWindows(session.windows, told)]
      /\ DOMAIN m.windows = DOMAIN session.windows
      /\ \A w \in DOMAIN session.windows :
           m.windows[w] = MarkedWindow(session.windows[w], told)
  BY MarkSession
<1>2. CutLeft(f, session, o)
  BY CutShape
<1>3. \A w \in DOMAIN session.windows :
        DOMAIN m.windows[w].panes = DOMAIN session.windows[w].panes
  BY <1>1, MarkWindow DEF SessionShape
<1>4. \A w \in DOMAIN session.windows :
        OnePane(f, MarkedWindow(session.windows[w], told))
          = MarkedWindow(OnePane(f, session.windows[w]), told)
  BY OnePaneMarked DEF SessionShape
<1>. HIDE DEF m, o
<1>5. CutLeft(f, m, v)
  BY <1>1, CutShape
<1>6. /\ SessionShape(u) /\ u.name = o.name /\ u.active = o.active
      /\ DOMAIN u.windows = DOMAIN o.windows
      /\ \A w \in DOMAIN o.windows :
           u.windows[w] = MarkedWindow(o.windows[w], told)
  BY <1>2, MarkSession DEF CutLeft
<1>. HIDE DEF v, u
<1>. USE DEF CutLeft
<1>7. DOMAIN v.windows = DOMAIN u.windows
  BY <1>1, <1>2, <1>3, <1>5, <1>6
<1>8. FirstKey(v.windows) = FirstKey(o.windows)
  BY <1>6, <1>7 DEF FirstKey
<1>9. \A w \in DOMAIN u.windows : v.windows[w] = u.windows[w]
  BY <1>1, <1>2, <1>4, <1>5, <1>6, <1>7
<1>10. v.name = u.name /\ v.active = u.active
  BY <1>1, <1>2, <1>5, <1>6, <1>8
<1>11. v = u
  BY <1>5, <1>6, <1>7, <1>9, <1>10, SameSession
<1>. QED
  BY <1>11 DEF v, u, m, o

\* What filter_snapshot keeps of a hierarchy.
FilterLeft(f, tree, v) ==
  /\ TreeShape(v)
  /\ DOMAIN v = {s \in DOMAIN tree :
       /\ Admits(f.session, s)
       /\ f.window = None \/ DOMAIN Cut(f, tree[s]).windows # {}}
  /\ \A s \in DOMAIN v : v[s] = Cut(f, tree[s])

\* filter_snapshot leaves that.
LEMMA FilterShape ==
  ASSUME NEW tree, TreeShape(tree), NEW f
  PROVE  FilterLeft(f, tree, FilterSnapshot(f, tree))
<1>. DEFINE mine == {s \in DOMAIN tree : Admits(f.session, s)}
            all == [s \in mine |-> Cut(f, tree[s])]
            some == {s \in mine : DOMAIN all[s].windows # {}}
            cut == FilterSnapshot(f, tree)
<1>1. cut = IF f.window = None THEN all ELSE Restrict(all, some)
  BY DEF FilterSnapshot, Cut
<1>2. /\ DOMAIN cut = {s \in mine :
           f.window = None \/ DOMAIN Cut(f, tree[s]).windows # {}}
      /\ cut = [s \in DOMAIN cut |-> cut[s]]
      /\ \A s \in DOMAIN cut : cut[s] = Cut(f, tree[s])
  BY <1>1 DEF Restrict
<1>3. \A s \in DOMAIN tree : SessionShape(Cut(f, tree[s]))
  BY CutShape DEF TreeShape, CutLeft
<1>. HIDE DEF cut
<1>4. TreeShape(cut)
  BY <1>2, <1>3 DEF TreeShape
<1>. QED
  BY <1>2, <1>4 DEF cut, FilterLeft

\* Marking and cutting commute.
LEMMA FilterMarked ==
  ASSUME NEW tree, TreeShape(tree), NEW f, NEW told
  PROVE  FilterSnapshot(f, Marked(tree, told))
           = Marked(FilterSnapshot(f, tree), told)
<1>. DEFINE m == Marked(tree, told)
            o == FilterSnapshot(f, tree)
            v == FilterSnapshot(f, m)
            u == Marked(o, told)
<1>1. /\ TreeShape(m) /\ DOMAIN m = DOMAIN tree
      /\ \A s \in DOMAIN tree : m[s] = MarkedSession(tree[s], told)
  BY MarkTree
<1>2. FilterLeft(f, tree, o)
  BY FilterShape
<1>. HIDE DEF m, o
<1>3. FilterLeft(f, m, v)
  BY <1>1, FilterShape
<1>4. /\ TreeShape(u) /\ DOMAIN u = DOMAIN o
      /\ \A s \in DOMAIN o : u[s] = MarkedSession(o[s], told)
  BY <1>2, MarkTree DEF FilterLeft
<1>. HIDE DEF v, u
<1>5. ASSUME NEW s \in DOMAIN tree
      PROVE  /\ Cut(f, m[s]) = MarkedSession(Cut(f, tree[s]), told)
             /\ DOMAIN Cut(f, m[s]).windows = DOMAIN Cut(f, tree[s]).windows
  <2>1. SessionShape(tree[s])
    BY DEF TreeShape
  <2>2. Cut(f, m[s]) = MarkedSession(Cut(f, tree[s]), told)
    BY <1>1, <2>1, CutMarked
  <2>3. SessionShape(Cut(f, tree[s]))
    BY <2>1, CutShape DEF CutLeft
  <2>. QED
    BY <2>2, <2>3, MarkSession
<1>. USE DEF FilterLeft
<1>6. DOMAIN v = DOMAIN u
  BY <1>1, <1>2, <1>3, <1>4, <1>5
<1>7. \A s \in DOMAIN u : v[s] = u[s]
  BY <1>1, <1>2, <1>3, <1>4, <1>5, <1>6
<1>8. v = u
  BY <1>3, <1>4, <1>6, <1>7 DEF TreeShape
<1>. QED
  BY <1>8 DEF v, u, m, o

-------------------------------------------------------------------------------
(* What a cut holds, and what a refresh finds. *)

Holds(tree, s, w, p) ==
  /\ s \in DOMAIN tree
  /\ w \in DOMAIN tree[s].windows
  /\ p \in DOMAIN tree[s].windows[w].panes

Ids == [session : MaybeId, window : MaybeId, pane : MaybeId]

\* A filter names no window without its session, and no pane without its
\* window.
Nested(f) ==
  /\ f \in Ids
  /\ f.session = None => f.window = None
  /\ f.window = None => f.pane = None

\* A cut holds what the filter admits of a hierarchy, and nothing else.
LEMMA FilterHolds ==
  ASSUME NEW tree, TreeShape(tree), NEW f, NEW s, NEW w, NEW p
  PROVE  Holds(FilterSnapshot(f, tree), s, w, p)
           <=> Holds(tree, s, w, p) /\ MatchesPane(f, s, w, p)
<1>. DEFINE cut == FilterSnapshot(f, tree)
<1>1. FilterLeft(f, tree, cut)
  BY FilterShape
<1>. HIDE DEF cut
<1>2. s \in DOMAIN tree => CutLeft(f, tree[s], Cut(f, tree[s]))
  BY CutShape DEF TreeShape
<1>3. s \in DOMAIN tree /\ w \in DOMAIN Cut(f, tree[s]).windows =>
        DOMAIN Cut(f, tree[s]).windows[w].panes
          = {q \in DOMAIN tree[s].windows[w].panes : Admits(f.pane, q)}
  BY CutPanes DEF TreeShape
<1>4. Holds(cut, s, w, p) => Holds(tree, s, w, p) /\ MatchesPane(f, s, w, p)
  BY <1>1, <1>2, <1>3
     DEF Holds, FilterLeft, CutLeft, MatchesPane, MatchesWindow
<1>5. ASSUME Holds(tree, s, w, p), MatchesPane(f, s, w, p)
      PROVE  Holds(cut, s, w, p)
  <2>1. w \in DOMAIN Cut(f, tree[s]).windows
    BY <1>2, <1>5 DEF Holds, CutLeft, MatchesPane, MatchesWindow, Admits
  <2>2. s \in DOMAIN cut /\ cut[s] = Cut(f, tree[s])
    BY <1>1, <1>5, <2>1 DEF Holds, FilterLeft, MatchesPane, MatchesWindow
  <2>. QED
    BY <1>3, <1>5, <2>1, <2>2 DEF Holds, MatchesPane
<1>. QED
  BY <1>4, <1>5 DEF cut

\* A hierarchy the daemon keeps: its shape, its ids and its pointers.
Coherent(tree) ==
  /\ TreeShape(tree)
  /\ DOMAIN tree \subseteq Nat \ {None}
  /\ \A s \in DOMAIN tree :
       /\ DOMAIN tree[s].windows \subseteq Nat \ {None}
       /\ tree[s].active \in DOMAIN tree[s].windows
       /\ \A w \in DOMAIN tree[s].windows :
            /\ DOMAIN tree[s].windows[w].panes \subseteq Nat \ {None}
            /\ tree[s].windows[w].active \in DOMAIN tree[s].windows[w].panes

\* The invariant of SessionTree makes it one.
LEMMA TreeFacts ==
  ASSUME NEW tree, NEW sb \in Nat, NEW wb \in Nat, NEW pb \in Nat,
         TreeOK(tree, sb, wb, pb)
  PROVE  Coherent(tree)
<1>. USE DEF Coherent
<1>1. /\ tree = [s \in DOMAIN tree |-> tree[s]]
      /\ \A s \in DOMAIN tree : SessionOK(tree[s], wb, pb)
      /\ DOMAIN tree \subseteq 1 .. sb - 1
  BY DEF TreeOK
<1>2. \A k \in Nat : 1 .. k - 1 \subseteq Nat \ {None}
  BY DEF None
<1>3. ASSUME NEW window, WindowOK(window, pb)
      PROVE  /\ WindowShape(window)
             /\ DOMAIN window.panes \subseteq Nat \ {None}
             /\ window.active \in DOMAIN window.panes
  <2>1. /\ WindowTyped(window, pb) /\ window.active \in DOMAIN window.panes
    BY <1>3 DEF WindowOK, WindowShaped
  <2>2. window.panes = [p \in DOMAIN window.panes |-> window.panes[p]]
    BY <2>1 DEF WindowTyped, PanesTyped
  <2>3. window = [index |-> window.index, name |-> window.name,
                  layout |-> window.layout, active |-> window.active,
                  panes |-> window.panes]
    BY <2>1 DEF WindowTyped
  <2>. QED
    BY <1>2, <2>1, <2>2, <2>3 DEF WindowShape, WindowTyped, PanesTyped
<1>4. ASSUME NEW session, SessionOK(session, wb, pb)
      PROVE  /\ SessionShape(session)
             /\ DOMAIN session.windows \subseteq Nat \ {None}
             /\ session.active \in DOMAIN session.windows
  <2>1. /\ SessionTyped(session, wb, pb)
        /\ session.active \in DOMAIN session.windows
        /\ \A w \in DOMAIN session.windows : WindowOK(session.windows[w], pb)
    BY <1>4 DEF SessionOK
  <2>2. session.windows = [w \in DOMAIN session.windows |-> session.windows[w]]
    BY <2>1 DEF SessionTyped
  <2>3. session = [name |-> session.name, active |-> session.active,
                   windows |-> session.windows]
    BY <2>1 DEF SessionTyped
  <2>. QED
    BY <1>2, <1>3, <2>1, <2>2, <2>3 DEF SessionShape, SessionTyped
<1>5. TreeShape(tree) /\ DOMAIN tree \subseteq Nat \ {None}
  BY <1>1, <1>2, <1>4 DEF TreeShape
<1>6. \A s \in DOMAIN tree : \A w \in DOMAIN tree[s].windows :
        WindowOK(tree[s].windows[w], pb)
  BY <1>1 DEF SessionOK
<1>. QED
  BY <1>1, <1>3, <1>4, <1>5, <1>6

\* The same, of the state of the daemon.
LEMMA LiveTree ==
  ASSUME IInv
  PROVE  Coherent(sessions)
BY TreeFacts DEF IInv

\* The first of some ids is one of them.
LEMMA FirstKeyIn ==
  ASSUME NEW map, DOMAIN map \subseteq Nat
  PROVE  /\ FirstKey(map) \in MaybeId
         /\ DOMAIN map # {} => FirstKey(map) \in DOMAIN map
<1>1. DOMAIN map # {} => Min(DOMAIN map) \in DOMAIN map
  BY MinNat
<1>. QED
  BY <1>1 DEF FirstKey, MaybeId

\* A pointer to an active child, in a cut, is empty or to something in it.
ClosedCut(tree) ==
  \A s \in DOMAIN tree :
    /\ tree[s].active \in {None} \cup DOMAIN tree[s].windows
    /\ \A w \in DOMAIN tree[s].windows :
         tree[s].windows[w].active \in
           {None} \cup DOMAIN tree[s].windows[w].panes

\* filter_snapshot clears or moves the pointers to what it leaves out.
LEMMA FilterClosed ==
  ASSUME NEW tree, Coherent(tree), NEW f
  PROVE  ClosedCut(FilterSnapshot(f, tree))
<1>. DEFINE cut == FilterSnapshot(f, tree)
<1>1. FilterLeft(f, tree, cut)
  BY FilterShape DEF Coherent
<1>. HIDE DEF cut
<1>. SUFFICES ASSUME NEW s \in DOMAIN cut
              PROVE  /\ cut[s].active \in {None} \cup DOMAIN cut[s].windows
                     /\ \A w \in DOMAIN cut[s].windows :
                          cut[s].windows[w].active \in
                            {None} \cup DOMAIN cut[s].windows[w].panes
  BY DEF ClosedCut, cut
<1>2. s \in DOMAIN tree /\ cut[s] = Cut(f, tree[s]) /\ SessionShape(tree[s])
  BY <1>1 DEF FilterLeft, Coherent, TreeShape
<1>3. CutLeft(f, tree[s], cut[s])
  BY <1>2, CutShape
<1>4. DOMAIN cut[s].windows \subseteq DOMAIN tree[s].windows
  BY <1>3 DEF CutLeft
<1>5. FirstKey(cut[s].windows) \in {None} \cup DOMAIN cut[s].windows
  <2>1. DOMAIN cut[s].windows \subseteq Nat
    BY <1>2, <1>4 DEF Coherent
  <2>. QED
    BY <2>1, FirstKeyIn DEF FirstKey
<1>6. cut[s].active \in {None} \cup DOMAIN cut[s].windows
  BY <1>2, <1>3, <1>5 DEF CutLeft, Coherent, Admits
<1>7. ASSUME NEW w \in DOMAIN cut[s].windows
      PROVE  cut[s].windows[w].active \in
               {None} \cup DOMAIN cut[s].windows[w].panes
  <2>. DEFINE old == tree[s].windows[w]
              v == cut[s].windows[w]
  <2>1. /\ v = IF f.pane = None THEN old ELSE OnePane(f, old)
        /\ WindowShape(old) /\ old.active \in DOMAIN old.panes
    BY <1>2, <1>3, <1>4 DEF CutLeft, Coherent, SessionShape
  <2>2. PaneLeft(f, old, OnePane(f, old))
    BY <2>1, OnePaneCut
  <2>. HIDE DEF v, old
  <2>3. v.active \in {None} \cup DOMAIN v.panes
    BY <2>1, <2>2 DEF PaneLeft
  <2>. QED
    BY <2>3 DEF v
<1>. QED
  BY <1>6, <1>7

\* What a cut that is not empty is about exists.
LEMMA FilterSome ==
  ASSUME NEW tree, Coherent(tree), NEW f, Nested(f),
         DOMAIN FilterSnapshot(f, tree) # {}
  PROVE  \E s, w, p : Holds(tree, s, w, p) /\ MatchesPane(f, s, w, p)
<1>. USE DEF Coherent
<1>1. FilterLeft(f, tree, FilterSnapshot(f, tree))
  BY FilterShape
<1>2. PICK s \in DOMAIN tree :
        /\ Admits(f.session, s)
        /\ f.window = None \/ DOMAIN Cut(f, tree[s]).windows # {}
  BY <1>1 DEF FilterLeft
<1>3. CASE f.window = None
  <2>. DEFINE w == tree[s].active
              p == tree[s].windows[w].active
  <2>1. Holds(tree, s, w, p) /\ MatchesPane(f, s, w, p)
    BY <1>2, <1>3 DEF Holds, MatchesPane, MatchesWindow, Admits, Nested
  <2>. QED
    BY <2>1
<1>4. CASE f.window # None
  <2>1. CutLeft(f, tree[s], Cut(f, tree[s]))
    BY CutShape DEF TreeShape
  <2>2. PICK w \in DOMAIN tree[s].windows :
          /\ Admits(f.window, w)
          /\ f.pane = None \/ f.pane \in DOMAIN tree[s].windows[w].panes
    BY <1>2, <1>4, <2>1 DEF CutLeft
  <2>. DEFINE p == IF f.pane = None THEN tree[s].windows[w].active ELSE f.pane
  <2>3. Holds(tree, s, w, p) /\ MatchesPane(f, s, w, p)
    BY <1>2, <2>2 DEF Holds, MatchesPane, MatchesWindow, Admits
  <2>. QED
    BY <2>3
<1>. QED
  BY <1>3, <1>4

-------------------------------------------------------------------------------
(* refresh_client_state. *)

Lives(tree, at) == Holds(tree, at.session, at.window, at.pane)

Within(f, at) == MatchesPane(f, at.session, at.window, at.pane)

\* The three pointers, each of what is kept of the old ones or chosen anew.
LEMMA RefreshParts ==
  ASSUME NEW tree, NEW f, NEW at
  PROVE  LET new == Refresh(tree, f, at)
             s == new.session
             w == new.window
         IN  /\ s = IF SessionExists(tree, f, at.session) THEN at.session
                    ELSE DefaultSession(tree, f)
             /\ w = IF WindowExists(tree, f, s, at.window) THEN at.window
                    ELSE DefaultWindow(tree, f, s)
             /\ new.pane = IF PaneExists(tree, f, s, w, at.pane) THEN at.pane
                           ELSE DefaultPane(tree, f, s, w)
             /\ new = Place(s, w, new.pane)
BY DEF Refresh, Place


\* What a refresh chooses anew: an id, what the filter names, or else what is
\* active.
LEMMA DefaultWindowIs ==
  ASSUME NEW tree, Coherent(tree), NEW f, Nested(f), NEW s
  PROVE  /\ DefaultWindow(tree, f, s) \in MaybeId
         /\ f.window # None => DefaultWindow(tree, f, s) = f.window
         /\ f.window = None /\ s \in DOMAIN tree /\ Admits(f.session, s)
              => DefaultWindow(tree, f, s) = tree[s].active
<1>. DEFINE fits == {k \in DOMAIN tree[s].windows : MatchesWindow(f, s, k)}
            rest == Restrict(tree[s].windows, fits)
<1>1. CASE f.window # None
  BY <1>1 DEF DefaultWindow, Nested, Ids
<1>2. CASE f.window = None /\ s \notin DOMAIN tree
  BY <1>2 DEF DefaultWindow, Has, MaybeId
<1>3. CASE f.window = None /\ s \in DOMAIN tree
  <2>1. DefaultWindow(tree, f, s) =
          IF tree[s].active # None /\ MatchesWindow(f, s, tree[s].active)
          THEN tree[s].active ELSE FirstKey(rest)
    BY <1>3 DEF DefaultWindow, Has, Preferred
  <2>2. DOMAIN rest \subseteq Nat
    BY <1>3 DEF Coherent, Restrict
  <2>3. tree[s].active \in Nat \ {None}
    BY <1>3 DEF Coherent
  <2>. HIDE DEF rest
  <2>4. DefaultWindow(tree, f, s) \in MaybeId
    BY <2>1, <2>2, <2>3, FirstKeyIn DEF MaybeId
  <2>. QED
    BY <1>3, <2>1, <2>3, <2>4 DEF MatchesWindow, Admits
<1>. QED
  BY <1>1, <1>2, <1>3

\* ... and the same of a pane.
LEMMA DefaultPaneIs ==
  ASSUME NEW tree, Coherent(tree), NEW f, Nested(f), NEW s, NEW w
  PROVE  /\ DefaultPane(tree, f, s, w) \in MaybeId
         /\ f.pane # None => DefaultPane(tree, f, s, w) = f.pane
         /\ /\ f.pane = None /\ MatchesWindow(f, s, w)
            /\ s \in DOMAIN tree /\ w \in DOMAIN tree[s].windows
            => DefaultPane(tree, f, s, w) = tree[s].windows[w].active
<1>. DEFINE window == tree[s].windows[w]
            fits == {k \in DOMAIN window.panes : MatchesPane(f, s, w, k)}
            rest == Restrict(window.panes, fits)
<1>1. CASE f.pane # None
  BY <1>1 DEF DefaultPane, Nested, Ids
<1>2. CASE f.pane = None /\ (s \in DOMAIN tree => w \notin DOMAIN tree[s].windows)
  BY <1>2 DEF DefaultPane, Has, MaybeId
<1>3. CASE f.pane = None /\ s \in DOMAIN tree /\ w \in DOMAIN tree[s].windows
  <2>1. DefaultPane(tree, f, s, w) =
          IF window.active # None /\ MatchesPane(f, s, w, window.active)
          THEN window.active ELSE FirstKey(rest)
    BY <1>3 DEF DefaultPane, Has, Preferred
  <2>2. DOMAIN rest \subseteq Nat
    BY <1>3 DEF Coherent, Restrict
  <2>3. window.active \in Nat \ {None}
    BY <1>3 DEF Coherent
  <2>. HIDE DEF rest
  <2>4. DefaultPane(tree, f, s, w) \in MaybeId
    BY <2>1, <2>2, <2>3, FirstKeyIn DEF MaybeId
  <2>. QED
    BY <1>3, <2>1, <2>3, <2>4 DEF MatchesPane, Admits
<1>. QED
  BY <1>1, <1>2, <1>3

\* A refresh never leaves what the client is attached to.
LEMMA RefreshWithin ==
  ASSUME NEW tree, NEW f, Nested(f), NEW at
  PROVE  Within(f, Refresh(tree, f, at))
<1>. DEFINE new == Refresh(tree, f, at)
            s == new.session
            w == new.window
<1>1. /\ s = IF SessionExists(tree, f, at.session) THEN at.session
             ELSE DefaultSession(tree, f)
      /\ w = IF WindowExists(tree, f, s, at.window) THEN at.window
             ELSE DefaultWindow(tree, f, s)
      /\ new.pane = IF PaneExists(tree, f, s, w, at.pane) THEN at.pane
                    ELSE DefaultPane(tree, f, s, w)
  BY RefreshParts
<1>. HIDE DEF new
<1>2. Admits(f.session, s)
  BY <1>1 DEF SessionExists, DefaultSession, Admits
<1>3. Admits(f.window, w)
  BY <1>1 DEF WindowExists, MatchesWindow, DefaultWindow, Admits
<1>4. Admits(f.pane, new.pane)
  BY <1>1 DEF PaneExists, MatchesPane, DefaultPane, Admits
<1>5. Within(f, new)
  BY <1>2, <1>3, <1>4 DEF Within, MatchesPane, MatchesWindow
<1>. QED
  BY <1>5 DEF new

\* ... and finds ids, or none.
LEMMA RefreshTyped ==
  ASSUME NEW tree, Coherent(tree), NEW f, Nested(f), NEW at \in Ids
  PROVE  Refresh(tree, f, at) \in Ids
<1>. DEFINE new == Refresh(tree, f, at)
            s == new.session
            w == new.window
<1>1. /\ s = IF SessionExists(tree, f, at.session) THEN at.session
             ELSE DefaultSession(tree, f)
      /\ w = IF WindowExists(tree, f, s, at.window) THEN at.window
             ELSE DefaultWindow(tree, f, s)
      /\ new.pane = IF PaneExists(tree, f, s, w, at.pane) THEN at.pane
                    ELSE DefaultPane(tree, f, s, w)
      /\ new = Place(s, w, new.pane)
  BY RefreshParts
<1>. HIDE DEF new
<1>2. f.session \in MaybeId /\ f.window \in MaybeId /\ f.pane \in MaybeId
      /\ at.session \in MaybeId /\ at.window \in MaybeId /\ at.pane \in MaybeId
  BY DEF Nested, Ids
<1>3. DefaultSession(tree, f) \in MaybeId
  BY <1>2, FirstKeyIn DEF DefaultSession, Coherent
<1>4. DefaultWindow(tree, f, s) \in MaybeId
  BY DefaultWindowIs
<1>5. DefaultPane(tree, f, s, w) \in MaybeId
  BY DefaultPaneIs
<1>6. s \in MaybeId /\ w \in MaybeId /\ new.pane \in MaybeId
  BY <1>1, <1>2, <1>3, <1>4, <1>5
<1>. QED
  BY <1>1, <1>6 DEF Place, Ids, new

\* A place that lives and is within the filter is kept.
LEMMA RefreshKept ==
  ASSUME NEW tree, Coherent(tree), NEW f, NEW at \in Ids,
         Lives(tree, at), Within(f, at)
  PROVE  Refresh(tree, f, at) = at
<1>. DEFINE new == Refresh(tree, f, at)
            s == new.session
            w == new.window
<1>1. /\ s = IF SessionExists(tree, f, at.session) THEN at.session
             ELSE DefaultSession(tree, f)
      /\ w = IF WindowExists(tree, f, s, at.window) THEN at.window
             ELSE DefaultWindow(tree, f, s)
      /\ new.pane = IF PaneExists(tree, f, s, w, at.pane) THEN at.pane
                    ELSE DefaultPane(tree, f, s, w)
      /\ new = Place(s, w, new.pane)
  BY RefreshParts
<1>. HIDE DEF new
<1>. USE DEF Lives, Holds, Within, MatchesPane, MatchesWindow, Has
<1>2. SessionExists(tree, f, at.session)
  BY DEF SessionExists, Coherent
<1>3. WindowExists(tree, f, at.session, at.window)
  BY DEF WindowExists, Admits
<1>4. PaneExists(tree, f, at.session, at.window, at.pane)
  BY DEF PaneExists, Admits
<1>5. new = Place(at.session, at.window, at.pane)
  BY <1>1, <1>2, <1>3, <1>4
<1>. QED
  BY <1>5 DEF Place, Ids, new

\* When there is anything the client is attached to, a refresh finds a live
\* pane of it, in its window, in its session.
LEMMA RefreshLives ==
  ASSUME NEW tree, Coherent(tree), NEW f, Nested(f), NEW at \in Ids,
         \E s, w, p : Holds(tree, s, w, p) /\ MatchesPane(f, s, w, p)
  PROVE  Lives(tree, Refresh(tree, f, at))
<1>. DEFINE new == Refresh(tree, f, at)
            s == new.session
            w == new.window
            p == new.pane
<1>1. /\ s = IF SessionExists(tree, f, at.session) THEN at.session
             ELSE DefaultSession(tree, f)
      /\ w = IF WindowExists(tree, f, s, at.window) THEN at.window
             ELSE DefaultWindow(tree, f, s)
      /\ p = IF PaneExists(tree, f, s, w, at.pane) THEN at.pane
             ELSE DefaultPane(tree, f, s, w)
  BY RefreshParts
<1>. HIDE DEF new
<1>2. PICK s0, w0, p0 :
        Holds(tree, s0, w0, p0) /\ MatchesPane(f, s0, w0, p0)
  OBVIOUS
<1>3. /\ f.session = None => f.window = None
      /\ f.window = None => f.pane = None
  BY DEF Nested
<1>4. s \in DOMAIN tree /\ Admits(f.session, s)
  <2>1. CASE SessionExists(tree, f, at.session)
    BY <1>1, <2>1 DEF SessionExists, Has
  <2>2. CASE ~SessionExists(tree, f, at.session) /\ f.session # None
    BY <1>1, <1>2, <2>2
       DEF DefaultSession, Holds, MatchesPane, MatchesWindow, Admits
  <2>3. CASE ~SessionExists(tree, f, at.session) /\ f.session = None
    <3>1. s = FirstKey(tree) /\ DOMAIN tree # {}
      BY <1>1, <1>2, <2>3 DEF DefaultSession, Holds
    <3>. QED
      BY <2>3, <3>1, FirstKeyIn DEF Coherent, Admits
  <2>. QED
    BY <2>1, <2>2, <2>3
<1>5. s # None /\ tree[s].active \in DOMAIN tree[s].windows
      /\ tree[s].active # None
  BY <1>4 DEF Coherent
<1>6. PICK w1, p1 : Holds(tree, s, w1, p1) /\ MatchesPane(f, s, w1, p1)
  <2>1. CASE f.session # None
    <3>1. s = s0
      BY <1>2, <1>4, <2>1 DEF MatchesPane, MatchesWindow, Admits
    <3>. QED
      BY <1>2, <3>1
  <2>2. CASE f.session = None
    <3>. DEFINE v == tree[s].active
                q == tree[s].windows[v].active
    <3>1. Holds(tree, s, v, q) /\ MatchesPane(f, s, v, q)
      BY <1>3, <1>4, <1>5, <2>2
         DEF Coherent, Holds, MatchesPane, MatchesWindow, Admits
    <3>. QED
      BY <3>1
  <2>. QED
    BY <2>1, <2>2
<1>7. w \in DOMAIN tree[s].windows /\ Admits(f.window, w)
  <2>1. CASE WindowExists(tree, f, s, at.window)
    BY <1>1, <1>5, <2>1 DEF WindowExists, Has, MatchesWindow, Admits
  <2>2. CASE ~WindowExists(tree, f, s, at.window) /\ f.window # None
    BY <1>1, <1>6, <2>2, DefaultWindowIs
       DEF Holds, MatchesPane, MatchesWindow, Admits
  <2>3. CASE ~WindowExists(tree, f, s, at.window) /\ f.window = None
    BY <1>1, <1>4, <1>5, <2>3, DefaultWindowIs DEF Admits
  <2>. QED
    BY <2>1, <2>2, <2>3
<1>8. /\ w # None
      /\ tree[s].windows[w].active \in DOMAIN tree[s].windows[w].panes
      /\ tree[s].windows[w].active # None
  BY <1>4, <1>7 DEF Coherent
<1>9. \E q : Holds(tree, s, w, q) /\ MatchesPane(f, s, w, q)
  <2>1. CASE f.window # None
    BY <1>6, <1>7, <2>1 DEF MatchesPane, MatchesWindow, Admits
  <2>2. CASE f.window = None
    BY <1>3, <1>4, <1>7, <1>8, <2>2
       DEF Holds, MatchesPane, MatchesWindow, Admits
  <2>. QED
    BY <2>1, <2>2
<1>10. p \in DOMAIN tree[s].windows[w].panes
  <2>1. CASE PaneExists(tree, f, s, w, at.pane)
    BY <1>1, <1>5, <1>8, <2>1 DEF PaneExists, Has, Admits
  <2>2. CASE ~PaneExists(tree, f, s, w, at.pane) /\ f.pane # None
    BY <1>1, <1>9, <2>2, DefaultPaneIs
       DEF Holds, MatchesPane, MatchesWindow, Admits
  <2>3. CASE ~PaneExists(tree, f, s, w, at.pane) /\ f.pane = None
    BY <1>1, <1>4, <1>7, <1>8, <2>3, DefaultPaneIs DEF MatchesWindow
  <2>. QED
    BY <2>1, <2>2, <2>3
<1>. QED
  BY <1>4, <1>7, <1>10 DEF Lives, Holds, new

-------------------------------------------------------------------------------
(* What a client is told. *)

\* A pane that ends is marked, and nothing else changes: its id is in one
\* place only.
LEMMA ExitMarks ==
  ASSUME IInv, NEW s, NEW w, NEW p, Holds(sessions, s, w, p), PaneExits(s, w, p)
  PROVE  sessions' = Marked(sessions, {p})
<1>. DEFINE window == sessions[s].windows[w]
            panes == [window.panes EXCEPT ![p].exited = TRUE]
            windows == [sessions[s].windows EXCEPT ![w].panes = panes]
<1>1. /\ TreeShape(sessions)
      /\ s \in DOMAIN sessions /\ w \in DOMAIN sessions[s].windows
      /\ p \in DOMAIN window.panes
      /\ SessionShape(sessions[s]) /\ WindowShape(window)
  BY LiveTree DEF Coherent, TreeShape, SessionShape, Holds
<1>2. sessions' = [sessions EXCEPT ![s].windows = windows]
  BY DEF PaneExits
<1>3. \A t \in DOMAIN sessions : \A v \in DOMAIN sessions[t].windows :
        p \in DOMAIN sessions[t].windows[v].panes => t = s /\ v = w
  BY <1>1, InvImplies DEF IdsLiveOnce, SessionIds, WindowsOf, PanesOf
<1>4. panes = MarkedPanes(window.panes, {p})
  BY <1>1 DEF MarkedPanes, WindowShape
<1>. HIDE DEF panes
<1>5. windows = MarkedWindows(sessions[s].windows, {p})
  <2>1. /\ WindowsShape(sessions[s].windows)
        /\ WindowsShape(MarkedWindows(sessions[s].windows, {p}))
        /\ DOMAIN MarkedWindows(sessions[s].windows, {p})
             = DOMAIN sessions[s].windows
        /\ \A v \in DOMAIN sessions[s].windows :
             MarkedWindows(sessions[s].windows, {p})[v]
               = MarkedWindow(sessions[s].windows[v], {p})
    <3>1. WindowsShape(sessions[s].windows)
      BY <1>1 DEF SessionShape, WindowsShape
    <3>. QED
      BY <3>1, MarkWindows
  <2>2. \A v \in DOMAIN sessions[s].windows :
          v # w => MarkedWindow(sessions[s].windows[v], {p})
                     = sessions[s].windows[v]
    BY <1>1, <1>3, MarkWindow DEF SessionShape
  <2>3. MarkedWindow(window, {p}) = [window EXCEPT !.panes = panes]
    BY <1>4 DEF MarkedWindow
  <2>4. \A v \in DOMAIN sessions[s].windows :
          windows[v] = MarkedWindows(sessions[s].windows, {p})[v]
    BY <1>1, <2>1, <2>2, <2>3
  <2>5. windows = [v \in DOMAIN sessions[s].windows |-> windows[v]]
    BY <1>1 DEF SessionShape
  <2>. HIDE DEF windows
  <2>. QED
    BY <2>1, <2>4, <2>5 DEF WindowsShape
<1>. HIDE DEF windows
<1>6. MarkedSession(sessions[s], {p}) = [sessions[s] EXCEPT !.windows = windows]
  BY <1>5 DEF MarkedSession
<1>7. \A t \in DOMAIN sessions :
        t # s => MarkedSession(sessions[t], {p}) = sessions[t]
  BY <1>1, <1>3, MarkSession DEF TreeShape
<1>8. /\ TreeShape(Marked(sessions, {p}))
      /\ DOMAIN Marked(sessions, {p}) = DOMAIN sessions
      /\ \A t \in DOMAIN sessions :
           Marked(sessions, {p})[t] = MarkedSession(sessions[t], {p})
  BY <1>1, MarkTree
<1>9. /\ DOMAIN sessions' = DOMAIN sessions
      /\ sessions' = [t \in DOMAIN sessions |-> sessions'[t]]
      /\ \A t \in DOMAIN sessions :
           sessions'[t] = Marked(sessions, {p})[t]
  BY <1>1, <1>2, <1>6, <1>7, <1>8 DEF TreeShape
<1>. QED
  BY <1>8, <1>9 DEF TreeShape

ViewOK(view) ==
  /\ view = [sessions |-> view.sessions, active |-> view.active]
  /\ TreeShape(view.sessions) /\ ClosedCut(view.sessions)
  /\ view.active \in Ids

Sent(f, exits) ==
  {e[3] : e \in {x \in exits : MatchesPane(f, x[1], x[2], x[3])}}

\* Told, in terms of the panes that are marked.
LEMMA ToldIs ==
  ASSUME NEW view, ViewOK(view), NEW f, NEW exits
  PROVE  Told(view, f, exits)
           = [sessions |-> Marked(view.sessions, Sent(f, exits)),
              active |-> view.active]
<1>1. Told(view, f, exits)
        = [view EXCEPT !.sessions = Marked(view.sessions, Sent(f, exits))]
  BY DEF Told, Sent
<1>2. view = [sessions |-> view.sessions, active |-> view.active]
  BY DEF ViewOK
<1>. QED
  BY <1>1, <1>2

\* What a client has been told of does not spoil its view.
LEMMA ToldOK ==
  ASSUME NEW view, ViewOK(view), NEW f, NEW exits
  PROVE  ViewOK(Told(view, f, exits))
<1>. DEFINE tree == view.sessions
            told == Sent(f, exits)
            m == Marked(tree, told)
<1>1. TreeShape(tree) /\ ClosedCut(tree) /\ view.active \in Ids
  BY DEF ViewOK
<1>2. /\ TreeShape(m) /\ DOMAIN m = DOMAIN tree
      /\ \A s \in DOMAIN tree : m[s] = MarkedSession(tree[s], told)
  BY <1>1, MarkTree
<1>. HIDE DEF m, told
<1>3. \A s \in DOMAIN tree :
        /\ m[s].active = tree[s].active
        /\ DOMAIN m[s].windows = DOMAIN tree[s].windows
        /\ \A w \in DOMAIN tree[s].windows :
             m[s].windows[w] = MarkedWindow(tree[s].windows[w], told)
  <2>1. ASSUME NEW session, SessionShape(session)
        PROVE  /\ MarkedSession(session, told).active = session.active
               /\ DOMAIN MarkedSession(session, told).windows
                    = DOMAIN session.windows
               /\ \A w \in DOMAIN session.windows :
                    MarkedSession(session, told).windows[w]
                      = MarkedWindow(session.windows[w], told)
    BY <2>1, MarkSession
  <2>. QED
    BY <1>1, <1>2, <2>1 DEF TreeShape
<1>4. \A s \in DOMAIN tree : \A w \in DOMAIN tree[s].windows :
        /\ m[s].windows[w].active = tree[s].windows[w].active
        /\ DOMAIN m[s].windows[w].panes = DOMAIN tree[s].windows[w].panes
  <2>1. ASSUME NEW window, WindowShape(window)
        PROVE  /\ MarkedWindow(window, told).active = window.active
               /\ DOMAIN MarkedWindow(window, told).panes
                    = DOMAIN window.panes
    BY <2>1, MarkWindow
  <2>2. ASSUME NEW s \in DOMAIN tree, NEW w \in DOMAIN tree[s].windows
        PROVE  /\ WindowShape(tree[s].windows[w])
               /\ m[s].windows[w] = MarkedWindow(tree[s].windows[w], told)
    <3>1. SessionShape(tree[s])
      BY <1>1 DEF TreeShape
    <3>2. WindowShape(tree[s].windows[w])
      BY <3>1 DEF SessionShape
    <3>. QED
      BY <1>3, <3>2
  <2>. HIDE DEF tree
  <2>. QED
    BY <2>1, <2>2
<1>5. ClosedCut(m)
  BY <1>1, <1>2, <1>3, <1>4 DEF ClosedCut
<1>6. Told(view, f, exits) = [sessions |-> m, active |-> view.active]
  BY ToldIs DEF m, told
<1>. QED
  BY <1>1, <1>2, <1>5, <1>6 DEF ViewOK

\* Being told of nothing changes nothing, and being told twice is being told
\* of both.
LEMMA ToldTwice ==
  ASSUME NEW view, ViewOK(view), NEW f
  PROVE  /\ Told(view, f, {}) = view
         /\ \A some, more : Told(Told(view, f, some), f, more)
                              = Told(view, f, some \cup more)
<1>1. \A some, more : Sent(f, some \cup more) = Sent(f, some) \cup Sent(f, more)
  BY DEF Sent
<1>2. Sent(f, {}) = {}
  BY DEF Sent
<1>3. /\ view = [sessions |-> view.sessions, active |-> view.active]
      /\ TreeShape(view.sessions)
  BY DEF ViewOK
<1>4. /\ Marked(view.sessions, {}) = view.sessions
      /\ \A some, more : Marked(Marked(view.sessions, some), more)
                           = Marked(view.sessions, some \cup more)
  BY <1>3, MarkTree
<1>5. Told(view, f, {}) = view
  BY <1>2, <1>3, <1>4, ToldIs
<1>6. ASSUME NEW some, NEW more
      PROVE  Told(Told(view, f, some), f, more) = Told(view, f, some \cup more)
  <2>. DEFINE told == Told(view, f, some)
  <2>1. told = [sessions |-> Marked(view.sessions, Sent(f, some)),
                active |-> view.active]
    BY ToldIs
  <2>2. ViewOK(told)
    BY ToldOK
  <2>. HIDE DEF told
  <2>3. Told(told, f, more) = [sessions |-> Marked(told.sessions, Sent(f, more)),
                               active |-> told.active]
    BY <2>2, ToldIs
  <2>4. Told(view, f, some \cup more)
          = [sessions |-> Marked(view.sessions, Sent(f, some \cup more)),
             active |-> view.active]
    BY ToldIs
  <2>. QED
    BY <1>1, <1>4, <2>1, <2>3, <2>4 DEF told
<1>. QED
  BY <1>5, <1>6

\* A client that has the snapshot of before and is told of the exit has the
\* snapshot of after.
LEMMA ToldExit ==
  ASSUME IInv, NEW s, NEW w, NEW p, Holds(sessions, s, w, p),
         PaneExits(s, w, p), NEW f, NEW at \in Ids
  PROVE  Told(SnapshotFor(f, sessions, at), f, ExitOf(s, w, p))
           = SnapshotFor(f, sessions', at)
<1>. DEFINE cut == FilterSnapshot(f, sessions)
            view == SnapshotFor(f, sessions, at)
<1>1. sessions' = Marked(sessions, {p}) /\ Coherent(sessions)
  BY ExitMarks, LiveTree
<1>2. TreeShape(sessions) /\ TreeShape(cut) /\ ClosedCut(cut)
  BY <1>1, FilterShape, FilterClosed DEF Coherent, FilterLeft
<1>3. FilterSnapshot(f, sessions') = Marked(cut, {p})
  BY <1>1, <1>2, FilterMarked
<1>4. ~MatchesPane(f, s, w, p) => Marked(cut, {p}) = cut
  <2>. SUFFICES ASSUME ~MatchesPane(f, s, w, p) PROVE Marked(cut, {p}) = cut
    OBVIOUS
  <2>1. \A t, v : ~Holds(cut, t, v, p)
    <3>1. \A t, v : Holds(sessions, t, v, p) => t = s /\ v = w
      BY InvImplies DEF Holds, IdsLiveOnce, SessionIds, WindowsOf, PanesOf
    <3>. QED
      BY <1>2, <3>1, FilterHolds
  <2>2. \A t \in DOMAIN cut : \A v \in DOMAIN cut[t].windows :
          {p} \cap DOMAIN cut[t].windows[v].panes = {}
    BY <2>1 DEF Holds
  <2>. QED
    BY <1>2, <2>2, MarkTree
<1>5. Marked(cut, {}) = cut
  BY <1>2, MarkTree
<1>. HIDE DEF cut
<1>6. view = [sessions |-> cut, active |-> at] /\ ViewOK(view)
  BY <1>2 DEF SnapshotFor, ViewOK, cut
<1>7. Sent(f, ExitOf(s, w, p)) = IF MatchesPane(f, s, w, p) THEN {p} ELSE {}
  <2>. DEFINE e == <<s, w, p>>
              mine == {x \in ExitOf(s, w, p) : MatchesPane(f, x[1], x[2], x[3])}
  <2>1. e[1] = s /\ e[2] = w /\ e[3] = p /\ ExitOf(s, w, p) = {e}
    BY DEF ExitOf
  <2>2. mine = IF MatchesPane(f, s, w, p) THEN {e} ELSE {}
    BY <2>1
  <2>3. Sent(f, ExitOf(s, w, p)) = {x[3] : x \in mine}
    BY DEF Sent
  <2>. HIDE DEF e, mine
  <2>. QED
    BY <2>1, <2>2, <2>3
<1>. HIDE DEF view
<1>8. Told(view, f, ExitOf(s, w, p))
        = [sessions |-> Marked(cut, Sent(f, ExitOf(s, w, p))), active |-> at]
  BY <1>6, ToldIs
<1>9. SnapshotFor(f, sessions', at) = [sessions |-> Marked(cut, {p}), active |-> at]
  BY <1>3 DEF SnapshotFor
<1>. QED
  BY <1>4, <1>5, <1>7, <1>8, <1>9 DEF view

-------------------------------------------------------------------------------
(* The invariant, and one step per action. *)

\* A client, over a hierarchy and with the exits it is going to be told of.
\* When nothing was lost, these are all that its view lacks, and its place
\* lives already: this is what makes ViewIsCurrent and PlaceIsLive inductive
\* while a request is being served.
ClientOK(client, tree, exits, lost) ==
  /\ Nested(client.filter)
  /\ client.active \in Ids
  /\ Within(client.filter, client.active)
  /\ ViewOK(client.view)
  /\ ~lost /\ DOMAIN FilterSnapshot(client.filter, tree) # {} =>
       /\ Told(client.view, client.filter, exits)
            = SnapshotFor(client.filter, tree, client.active)
       /\ Lives(tree, client.active)

ClientInv ==
  /\ IInv
  /\ DOMAIN subscribers \subseteq Clients
  /\ stale \in BOOLEAN
  /\ \A c \in DOMAIN subscribers :
       ClientOK(subscribers[c], sessions, collected, stale)

\* The invariant implies what the run checks.
LEMMA ClientInvImplies ==
  ASSUME ClientInv
  PROVE  ClientTypeOK /\ ViewIsCurrent /\ PlaceIsLive /\ ViewIsClosed
<1>1. ClientTypeOK
  BY DEF ClientTypeOK, ClientInv, ClientOK, Nested, Ids, ViewOK
<1>2. ViewIsClosed
  BY DEF ViewIsClosed, ClientInv, ClientOK, ViewOK, ClosedCut
<1>3. ASSUME NEW c \in DOMAIN subscribers, UpToDate(c)
      PROVE  /\ subscribers[c].view
                  = [sessions |-> Now(c), active |-> subscribers[c].active]
             /\ Lives(Now(c), subscribers[c].active)
  <2>. DEFINE f == subscribers[c].filter
              at == subscribers[c].active
              view == subscribers[c].view
  <2>1. /\ ViewOK(view) /\ Within(f, at) /\ Lives(sessions, at)
        /\ Told(view, f, {}) = SnapshotFor(f, sessions, at)
    BY <1>3 DEF UpToDate, Now, ClientInv, ClientOK
  <2>2. Told(view, f, {}) = view
    BY <2>1, ToldTwice
  <2>3. TreeShape(sessions)
    BY LiveTree DEF ClientInv, Coherent
  <2>4. Lives(FilterSnapshot(f, sessions), at)
    BY <2>1, <2>3, FilterHolds DEF Lives, Within
  <2>. QED
    BY <2>1, <2>2, <2>4 DEF SnapshotFor, Now
<1>4. ViewIsCurrent
  BY <1>3 DEF ViewIsCurrent
<1>5. PlaceIsLive
  BY <1>3 DEF PlaceIsLive, Lives, Holds, Has
<1>. QED
  BY <1>1, <1>2, <1>4, <1>5

\* A client that is sent a snapshot.
LEMMA SnapshotOK ==
  ASSUME NEW tree, Coherent(tree), NEW f, Nested(f), NEW at \in Ids, NEW lost,
         NEW client,
         client = [filter |-> f, active |-> Refresh(tree, f, at),
                   view |-> SnapshotFor(f, tree, Refresh(tree, f, at))]
  PROVE  ClientOK(client, tree, {}, lost)
<1>. DEFINE new == Refresh(tree, f, at)
            cut == FilterSnapshot(f, tree)
            view == SnapshotFor(f, tree, new)
<1>1. new \in Ids /\ Within(f, new)
  BY RefreshTyped, RefreshWithin
<1>2. TreeShape(cut) /\ ClosedCut(cut)
  BY FilterShape, FilterClosed DEF Coherent, FilterLeft
<1>3. DOMAIN cut # {} => Lives(tree, new)
  BY FilterSome, RefreshLives
<1>. HIDE DEF new
<1>4. ViewOK(view)
  BY <1>1, <1>2 DEF ViewOK, SnapshotFor
<1>5. Told(view, f, {}) = view
  BY <1>4, ToldTwice
<1>6. client.filter = f /\ client.active = new /\ client.view = view
  BY DEF new
<1>. HIDE DEF view
<1>7. Told(client.view, client.filter, {})
        = SnapshotFor(client.filter, tree, client.active)
  BY <1>5, <1>6 DEF view
<1>. QED
  BY <1>1, <1>3, <1>4, <1>6, <1>7 DEF ClientOK

\* A client that is told of exits, and has missed nothing else if the answer
\* is to be trusted.
LEMMA TellOK ==
  ASSUME NEW tree, Coherent(tree), NEW old, NEW before, NEW missed,
         NEW client, ClientOK(client, old, before, missed),
         NEW exits, NEW lost, NEW told,
         ~lost /\ DOMAIN FilterSnapshot(client.filter, tree) # {} =>
           /\ Told(client.view, client.filter, exits)
                = SnapshotFor(client.filter, tree, client.active)
           /\ Lives(tree, client.active),
         told = [filter |-> client.filter,
                 active |-> Refresh(tree, client.filter, client.active),
                 view |-> Told(client.view, client.filter, exits)]
  PROVE  ClientOK(told, tree, {}, lost)
<1>. DEFINE f == client.filter
            at == client.active
            view == Told(client.view, f, exits)
            new == Refresh(tree, f, at)
<1>1. Nested(f) /\ at \in Ids /\ Within(f, at) /\ ViewOK(client.view)
  BY DEF ClientOK
<1>2. new \in Ids /\ Within(f, new)
  BY <1>1, RefreshTyped, RefreshWithin
<1>3. ViewOK(view) /\ Told(view, f, {}) = view
  BY <1>1, ToldOK, ToldTwice
<1>4. Lives(tree, at) => new = at
  BY <1>1, RefreshKept
<1>5. told.filter = f /\ told.active = new /\ told.view = view
  OBVIOUS
<1>. HIDE DEF new, view
<1>6. ~lost /\ DOMAIN FilterSnapshot(f, tree) # {} =>
        view = SnapshotFor(f, tree, at) /\ Lives(tree, at)
  BY DEF view
<1>. HIDE DEF f, at
<1>. QED
  BY <1>1, <1>2, <1>3, <1>4, <1>5, <1>6 DEF ClientOK

\* broadcast_events keeps the invariant if, where it sends no snapshot, the
\* exits it tells are all that was missing.
LEMMA BroadcastOK ==
  ASSUME ClientInv, IInv', collected' = {}, stale' \in BOOLEAN,
         NEW exits, NEW snapshot \in BOOLEAN, Broadcast(exits, snapshot),
         ~snapshot => \A c \in DOMAIN subscribers :
           LET f == subscribers[c].filter
               at == subscribers[c].active
           IN  ~stale' /\ DOMAIN FilterSnapshot(f, sessions') # {} =>
                 /\ Told(subscribers[c].view, f, exits)
                      = SnapshotFor(f, sessions', at)
                 /\ Lives(sessions', at)
  PROVE  ClientInv'
<1>1. Coherent(sessions')
  BY TreeFacts DEF IInv
<1>2. /\ DOMAIN subscribers' = DOMAIN subscribers
      /\ DOMAIN subscribers \subseteq Clients
  BY DEF Broadcast, ClientInv
<1>3. ASSUME NEW c \in DOMAIN subscribers
      PROVE  ClientOK(subscribers'[c], sessions', collected', stale')
  <2>. DEFINE client == subscribers[c]
              f == client.filter
              at == client.active
              new == Refresh(sessions', f, at)
              view == SnapshotFor(f, sessions', new)
              told == Told(client.view, f, exits)
  <2>1. ClientOK(client, sessions, collected, stale)
    BY DEF ClientInv
  <2>2. Nested(f) /\ at \in Ids
    BY <2>1 DEF ClientOK
  <2>3. subscribers'[c]
          = [filter |-> f, active |-> new,
             view |-> IF snapshot /\ DOMAIN view.sessions # {}
                      THEN view ELSE told]
    BY DEF Broadcast
  <2>4. DOMAIN view.sessions = DOMAIN FilterSnapshot(f, sessions')
    BY DEF SnapshotFor
  <2>5. CASE snapshot /\ DOMAIN view.sessions # {}
    <3>1. subscribers'[c] = [filter |-> f, active |-> new, view |-> view]
      BY <2>3, <2>5
    <3>. QED
      BY <1>1, <2>2, <3>1, SnapshotOK
  <2>6. CASE ~(snapshot /\ DOMAIN view.sessions # {})
    <3>1. subscribers'[c] = [filter |-> f, active |-> new, view |-> told]
      BY <2>3, <2>6
    <3>2. ~stale' /\ DOMAIN FilterSnapshot(f, sessions') # {} =>
            told = SnapshotFor(f, sessions', at) /\ Lives(sessions', at)
      BY <2>4, <2>6
    <3>. HIDE DEF new, view
    <3>. QED
      BY <1>1, <2>1, <3>1, <3>2, TellOK DEF new
  <2>. QED
    BY <2>5, <2>6
<1>. QED
  BY <1>2, <1>3 DEF ClientInv

\* What a text names is an id or nothing.
LEMMA FoundIsId ==
  ASSUME NEW ids, ids \subseteq Nat, NEW found, found \subseteq ids
  PROVE  (IF found = {} THEN Unresolved ELSE Min(found)) \in Nat \cup {Unresolved}
<1>1. found # {} => Min(found) \in found
  BY MinNat
<1>. QED
  BY <1>1

\* A name or an index finds one of the siblings, or nothing.
LEMMA AmongIsId ==
  ASSUME NEW map, DOMAIN map \subseteq Nat, NEW target
  PROVE  ResolveAmong(map, target) \in DOMAIN map \cup {Unresolved}
<1>. DEFINE found == {k \in DOMAIN map : MatchesTarget(map[k], target)}
<1>1. found # {} => Min(found) \in found
  BY MinNat
<1>2. ResolveAmong(map, target) =
        IF IsId(target) /\ target[2] \in DOMAIN map THEN target[2]
        ELSE IF found = {} THEN Unresolved ELSE Min(found)
  BY DEF ResolveAmong, Find
<1>. QED
  BY <1>1, <1>2

\* resolve_attach_filter names a session, a window of it or a pane of that,
\* or fails.
LEMMA ResolveNested ==
  ASSUME IInv, NEW session \in Name \cup {NoText},
         NEW window \in Name \cup {NoText}, NEW pane \in Name \cup {NoText},
         LET f == ResolveAttach(session, window, pane)
         IN  Unresolved \notin {f.session, f.window, f.pane}
  PROVE  Nested(ResolveAttach(session, window, pane))
<1>. DEFINE s == IF session = NoText THEN None ELSE ResolveSession(session)
            w == IF session = NoText \/ window = NoText THEN None
                 ELSE ResolveWindow(s, window)
            p == IF w = None \/ pane = NoText THEN None
                 ELSE ResolvePane(s, w, pane)
<1>1. ResolveAttach(session, window, pane) = Place(s, w, p)
  BY DEF ResolveAttach
<1>2. Coherent(sessions)
  BY LiveTree
<1>3. s \in MaybeId \cup {Unresolved}
  <2>1. CASE session = NoText
    BY <2>1 DEF MaybeId
  <2>2. CASE session # NoText
    <3>1. session \in Name
      BY <2>2
    <3>. DEFINE found == {k \in SessionIds : sessions[k].name = session}
    <3>2. ResolveSession(session) =
            IF IsId(session) THEN session[2]
            ELSE IF found = {} THEN Unresolved ELSE Min(found)
      BY DEF ResolveSession, Find
    <3>3. session[2] \in Nat
      BY <3>1 DEF Name
    <3>4. found # {} => Min(found) \in found
      BY <1>2, MinNat DEF Coherent, SessionIds
    <3>5. found \subseteq Nat
      BY <1>2 DEF Coherent, SessionIds
    <3>. HIDE DEF found
    <3>. QED
      BY <2>2, <3>2, <3>3, <3>4, <3>5 DEF MaybeId
  <2>. QED
    BY <2>1, <2>2
<1>. HIDE DEF s
<1>4. /\ w \in MaybeId \cup {Unresolved}
      /\ w \notin {None, Unresolved} => s \in DOMAIN sessions
                                        /\ w \in DOMAIN sessions[s].windows
  <2>1. CASE session = NoText \/ window = NoText
    BY <2>1 DEF MaybeId
  <2>2. CASE ~(session = NoText \/ window = NoText) /\ s \notin SessionIds
    BY <2>2 DEF ResolveWindow
  <2>3. CASE ~(session = NoText \/ window = NoText) /\ s \in SessionIds
    <3>1. w = ResolveAmong(sessions[s].windows, window)
      BY <2>3 DEF ResolveWindow
    <3>2. DOMAIN sessions[s].windows \subseteq Nat
      BY <1>2, <2>3 DEF Coherent, SessionIds
    <3>. QED
      BY <2>3, <3>1, <3>2, AmongIsId DEF SessionIds, MaybeId
  <2>. QED
    BY <2>1, <2>2, <2>3
<1>. HIDE DEF w
<1>5. p \in MaybeId \cup {Unresolved}
  <2>1. CASE w = None \/ pane = NoText
    BY <2>1 DEF MaybeId
  <2>2. CASE /\ ~(w = None \/ pane = NoText)
             /\ s \notin SessionIds \/ w \notin WindowsOf(s)
    BY <2>2 DEF ResolvePane
  <2>3. CASE /\ ~(w = None \/ pane = NoText)
             /\ s \in SessionIds /\ w \in WindowsOf(s)
    <3>1. p = ResolveAmong(sessions[s].windows[w].panes, pane)
      BY <2>3 DEF ResolvePane
    <3>2. DOMAIN sessions[s].windows[w].panes \subseteq Nat
      BY <1>2, <2>3 DEF Coherent, SessionIds, WindowsOf
    <3>. QED
      BY <3>1, <3>2, AmongIsId DEF MaybeId
  <2>. QED
    BY <2>1, <2>2, <2>3
<1>6. w = None => p = None
  OBVIOUS
<1>. HIDE DEF p
<1>7. Unresolved \notin {s, w, p}
  BY <1>1 DEF Place
<1>8. s = None => w = None
  BY <1>2, <1>4, <1>7 DEF Coherent
<1>. QED
  BY <1>1, <1>3, <1>4, <1>5, <1>6, <1>7, <1>8 DEF Nested, Ids, Place

\* A client attaches.
LEMMA AttachStep ==
  ASSUME ClientInv, NEW c \in Clients,
         NEW session \in AttachTexts \cup {NoText},
         NEW window \in AttachTexts \cup {NoText},
         NEW pane \in AttachTexts \cup {NoText},
         Attach(c, session, window, pane)
  PROVE  ClientInv'
<1>. DEFINE f == ResolveAttach(session, window, pane)
            new == [filter |-> f, active |-> Refresh(sessions, f, f),
                    view |-> SnapshotFor(f, sessions, Refresh(sessions, f, f))]
<1>1. /\ subscribers' = Insert(subscribers, c, new)
      /\ UNCHANGED <<treeVars, collected, stale>> /\ collected = {}
      /\ Unresolved \notin {f.session, f.window, f.pane}
  BY DEF Attach
<1>2. IInv /\ Coherent(sessions)
  BY LiveTree DEF ClientInv
<1>3. Nested(f) /\ f \in Ids
  BY <1>1, <1>2, ResolveNested, ClientAssumption DEF ClientAssumption, Nested
<1>4. ClientOK(new, sessions, {}, stale)
  BY <1>2, <1>3, SnapshotOK
<1>. HIDE DEF new, f
<1>5. \A d \in DOMAIN subscribers \cup {c} :
        subscribers'[d] = IF d = c THEN new ELSE subscribers[d]
  BY <1>1 DEF Insert
<1>6. DOMAIN subscribers' = DOMAIN subscribers \cup {c}
  BY <1>1 DEF Insert
<1>7. IInv' /\ UNCHANGED <<sessions, collected, stale>>
  BY <1>1, <1>2 DEF treeVars, counters, IInv
<1>8. \A d \in DOMAIN subscribers' :
        ClientOK(subscribers'[d], sessions, collected, stale)
  BY <1>1, <1>4, <1>5, <1>6 DEF ClientInv
<1>. QED
  BY <1>6, <1>7, <1>8 DEF ClientInv

\* A client leaves.
LEMMA DetachStep ==
  ASSUME ClientInv, NEW c, Detach(c)
  PROVE  ClientInv'
<1>1. /\ subscribers' = Remove(subscribers, c)
      /\ UNCHANGED <<treeVars, collected, stale>>
  BY DEF Detach
<1>2. IInv' /\ UNCHANGED <<sessions, collected, stale>>
  BY <1>1 DEF treeVars, counters, IInv, ClientInv
<1>3. /\ DOMAIN subscribers' \subseteq DOMAIN subscribers
      /\ \A d \in DOMAIN subscribers' : subscribers'[d] = subscribers[d]
  BY <1>1 DEF Remove, Restrict
<1>. QED
  BY <1>2, <1>3 DEF ClientInv

\* What a pane's end makes of the two conditions of ClientOK.
LEMMA ExitTold ==
  ASSUME ClientInv, NEW s, NEW w, NEW p, Holds(sessions, s, w, p),
         PaneExits(s, w, p), NEW c \in DOMAIN subscribers, ~stale,
         DOMAIN FilterSnapshot(subscribers[c].filter, sessions') # {}
  PROVE  LET client == subscribers[c]
             exits == collected \cup ExitOf(s, w, p)
         IN  /\ Told(client.view, client.filter, exits)
                  = SnapshotFor(client.filter, sessions', client.active)
             /\ Lives(sessions', client.active)
<1>. DEFINE f == subscribers[c].filter
            at == subscribers[c].active
            view == subscribers[c].view
            cut == FilterSnapshot(f, sessions)
<1>1. IInv /\ Coherent(sessions) /\ sessions' = Marked(sessions, {p})
  BY LiveTree, ExitMarks DEF ClientInv
<1>2. TreeShape(sessions) /\ TreeShape(cut)
  BY <1>1, FilterShape DEF Coherent, FilterLeft
<1>3. FilterSnapshot(f, sessions') = Marked(cut, {p})
  BY <1>1, <1>2, FilterMarked
<1>4. DOMAIN cut # {}
  BY <1>2, <1>3, MarkTree
<1>5. /\ ViewOK(view) /\ at \in Ids
      /\ Told(view, f, collected) = SnapshotFor(f, sessions, at)
      /\ Lives(sessions, at)
  BY <1>4 DEF ClientInv, ClientOK
<1>6. Told(view, f, collected \cup ExitOf(s, w, p))
        = Told(SnapshotFor(f, sessions, at), f, ExitOf(s, w, p))
  BY <1>5, ToldTwice
<1>7. Told(SnapshotFor(f, sessions, at), f, ExitOf(s, w, p))
        = SnapshotFor(f, sessions', at)
  BY <1>1, <1>5, ToldExit
<1>8. Lives(sessions', at)
  <2>. DEFINE m == Marked(sessions, {p})
  <2>1. /\ DOMAIN m = DOMAIN sessions
        /\ \A t \in DOMAIN sessions : m[t] = MarkedSession(sessions[t], {p})
    BY <1>2, MarkTree
  <2>. HIDE DEF m
  <2>2. ASSUME NEW t \in DOMAIN sessions
        PROVE  /\ DOMAIN m[t].windows = DOMAIN sessions[t].windows
               /\ \A v \in DOMAIN sessions[t].windows :
                    m[t].windows[v] = MarkedWindow(sessions[t].windows[v], {p})
    <3>1. SessionShape(sessions[t])
      BY <1>2 DEF TreeShape
    <3>2. m[t] = MarkedSession(sessions[t], {p})
      BY <2>1
    <3>. QED
      BY <3>1, <3>2, MarkSession
  <2>3. ASSUME NEW t \in DOMAIN sessions, NEW v \in DOMAIN sessions[t].windows
        PROVE  DOMAIN MarkedWindow(sessions[t].windows[v], {p}).panes
                 = DOMAIN sessions[t].windows[v].panes
    <3>1. WindowShape(sessions[t].windows[v])
      BY <1>2 DEF TreeShape, SessionShape
    <3>. QED
      BY <3>1, MarkWindow
  <2>4. Lives(m, at)
    <3>. DEFINE s0 == at.session
                w0 == at.window
                p0 == at.pane
    <3>1. /\ s0 \in DOMAIN sessions /\ w0 \in DOMAIN sessions[s0].windows
          /\ p0 \in DOMAIN sessions[s0].windows[w0].panes
      BY <1>5 DEF Lives, Holds
    <3>. HIDE DEF s0, w0, p0
    <3>2. s0 \in DOMAIN m /\ w0 \in DOMAIN m[s0].windows
      BY <2>1, <2>2, <3>1
    <3>3. p0 \in DOMAIN m[s0].windows[w0].panes
      BY <2>2, <2>3, <3>1
    <3>. QED
      BY <3>2, <3>3 DEF Lives, Holds, s0, w0, p0
  <2>. QED
    BY <1>1, <2>4 DEF m
<1>. QED
  BY <1>6, <1>7, <1>8

\* The runtime tick finds an exit and tells the clients.
LEMMA TickStep ==
  ASSUME ClientInv, Tick
  PROVE  ClientInv'
<1>1. PICK s \in SessionIds : \E w \in WindowsOf(s) : \E p \in PanesOf(s, w) :
        PaneExits(s, w, p) /\ Broadcast(ExitOf(s, w, p), FALSE)
  BY DEF Tick
<1>2. PICK w \in WindowsOf(s) : \E p \in PanesOf(s, w) :
        PaneExits(s, w, p) /\ Broadcast(ExitOf(s, w, p), FALSE)
  BY <1>1
<1>3. PICK p \in PanesOf(s, w) :
        PaneExits(s, w, p) /\ Broadcast(ExitOf(s, w, p), FALSE)
  BY <1>2
<1>4. collected = {} /\ collected' = collected /\ stale' = stale
      /\ stale \in BOOLEAN
  BY DEF Tick, ClientInv
<1>5. Holds(sessions, s, w, p)
  BY DEF Holds, SessionIds, WindowsOf, PanesOf
<1>6. IInv'
  BY <1>3, CollectStep DEF Collect, ClientInv, StepOK
<1>7. collected \cup ExitOf(s, w, p) = ExitOf(s, w, p)
  BY <1>4
<1>8. \A c \in DOMAIN subscribers :
        LET f == subscribers[c].filter
            at == subscribers[c].active
        IN  ~stale' /\ DOMAIN FilterSnapshot(f, sessions') # {} =>
              /\ Told(subscribers[c].view, f, ExitOf(s, w, p))
                   = SnapshotFor(f, sessions', at)
              /\ Lives(sessions', at)
  BY <1>3, <1>4, <1>5, <1>7, ExitTold
<1>. QED
  BY <1>3, <1>4, <1>6, <1>8, BroadcastOK

\* A request collects an exit, of which the clients are told with the answer.
LEMMA BeginStep ==
  ASSUME ClientInv, BeginRequest
  PROVE  ClientInv'
<1>1. PICK s \in SessionIds : \E w \in WindowsOf(s) : \E p \in PanesOf(s, w) :
        PaneExits(s, w, p) /\ collected' = collected \cup ExitOf(s, w, p)
  BY DEF BeginRequest
<1>2. PICK w \in WindowsOf(s) : \E p \in PanesOf(s, w) :
        PaneExits(s, w, p) /\ collected' = collected \cup ExitOf(s, w, p)
  BY <1>1
<1>3. PICK p \in PanesOf(s, w) :
        PaneExits(s, w, p) /\ collected' = collected \cup ExitOf(s, w, p)
  BY <1>2
<1>4. UNCHANGED <<subscribers, stale>>
  BY DEF BeginRequest
<1>5. Holds(sessions, s, w, p)
  BY DEF Holds, SessionIds, WindowsOf, PanesOf
<1>6. IInv'
  BY <1>3, CollectStep DEF Collect, ClientInv, StepOK
<1>7. ASSUME NEW c \in DOMAIN subscribers
      PROVE  ClientOK(subscribers[c], sessions', collected', stale)
  <2>1. ~stale /\ DOMAIN FilterSnapshot(subscribers[c].filter, sessions') # {} =>
          /\ Told(subscribers[c].view, subscribers[c].filter, collected')
               = SnapshotFor(subscribers[c].filter, sessions',
                             subscribers[c].active)
          /\ Lives(sessions', subscribers[c].active)
    BY <1>3, <1>5, ExitTold
  <2>2. ClientOK(subscribers[c], sessions, collected, stale)
    BY DEF ClientInv
  <2>. QED
    BY <2>1, <2>2 DEF ClientOK
<1>. QED
  BY <1>4, <1>6, <1>7 DEF ClientInv

\* A change is announced with a snapshot.
LEMMA AnswerChangeStep ==
  ASSUME ClientInv, AnswerChange
  PROVE  ClientInv'
<1>1. /\ Change /\ Broadcast(collected, TRUE)
      /\ collected' = {} /\ stale' = FALSE
  BY DEF AnswerChange
<1>2. IInv'
  BY <1>1, CommandStep DEF Command, ClientInv, StepOK
<1>. QED
  BY <1>1, <1>2, BroadcastOK

\* Any other answer tells the exits.
LEMMA AnswerOtherStep ==
  ASSUME ClientInv, AnswerOther
  PROVE  ClientInv'
<1>1. /\ Input \/ Query
      /\ Broadcast(collected, FALSE) /\ collected' = {} /\ stale' = stale
  BY DEF AnswerOther
<1>2. IInv'
  BY <1>1, CommandStep DEF Command, ClientInv, StepOK
<1>3. sessions' = sessions /\ stale \in BOOLEAN
  BY <1>1 DEF Input, SendInput, Query, ClientInv
<1>4. \A c \in DOMAIN subscribers :
        LET f == subscribers[c].filter
            at == subscribers[c].active
        IN  ~stale' /\ DOMAIN FilterSnapshot(f, sessions') # {} =>
              /\ Told(subscribers[c].view, f, collected)
                   = SnapshotFor(f, sessions', at)
              /\ Lives(sessions', at)
  BY <1>1, <1>3 DEF ClientInv, ClientOK
<1>. QED
  BY <1>1, <1>2, <1>3, <1>4, BroadcastOK

\* An error tells nobody anything, and is remembered if there was something.
LEMMA AnswerErrorStep ==
  ASSUME ClientInv, AnswerError
  PROVE  ClientInv'
<1>1. /\ Command /\ UNCHANGED subscribers /\ collected' = {}
      /\ stale' = (stale \/ collected # {} \/ sessions' # sessions)
  BY DEF AnswerError
<1>2. IInv'
  BY <1>1, CommandStep DEF ClientInv, StepOK
<1>3. stale' \in BOOLEAN
  BY <1>1 DEF ClientInv
<1>4. ~stale' => ~stale /\ collected = {} /\ sessions' = sessions
  BY <1>1
<1>5. \A c \in DOMAIN subscribers :
        ClientOK(subscribers[c], sessions', collected', stale')
  BY <1>1, <1>4 DEF ClientInv, ClientOK
<1>. QED
  BY <1>1, <1>2, <1>3, <1>5 DEF ClientInv

-------------------------------------------------------------------------------
\* The daemon starts without clients.
LEMMA ClientInit == Init => ClientInv
BY InvInit DEF Init, ClientInv

\* The invariant is inductive.
LEMMA ClientNext ==
  ASSUME ClientInv, [Next]_vars
  PROVE  ClientInv'
<1>1. CASE UNCHANGED vars
  <2>1. UNCHANGED <<treeVars, subscribers, collected, stale>>
    BY <1>1 DEF vars, clientVars
  <2>2. IInv' /\ sessions' = sessions
    BY <2>1 DEF treeVars, counters, IInv, ClientInv
  <2>. QED
    BY <2>1, <2>2 DEF ClientInv
<1>2. CASE Next
  BY <1>2, AttachStep, DetachStep, TickStep, BeginStep, AnswerChangeStep,
     AnswerOtherStep, AnswerErrorStep DEF Next
<1>. QED
  BY <1>1, <1>2

\* A broadcast leaves a client whose pane lives where it is.
LEMMA BroadcastStays ==
  ASSUME ClientInv, IInv', NEW exits, NEW snapshot, Broadcast(exits, snapshot),
         NEW c \in DOMAIN subscribers, Lives(sessions', subscribers[c].active)
  PROVE  subscribers'[c].active = subscribers[c].active
<1>1. Coherent(sessions')
  BY TreeFacts DEF IInv
<1>2. /\ subscribers[c].active \in Ids
      /\ Within(subscribers[c].filter, subscribers[c].active)
  BY DEF ClientInv, ClientOK
<1>3. subscribers'[c].active
        = Refresh(sessions', subscribers[c].filter, subscribers[c].active)
  BY DEF Broadcast
<1>. QED
  BY <1>1, <1>2, <1>3, RefreshKept

\* No step moves a client whose pane lives.
LEMMA StaysStep ==
  ASSUME ClientInv, [Next]_vars, NEW c \in DOMAIN subscribers,
         c \in DOMAIN subscribers', Lives(sessions', subscribers[c].active)
  PROVE  subscribers'[c].active = subscribers[c].active
<1>1. CASE UNCHANGED vars
  BY <1>1 DEF vars, clientVars
<1>2. ASSUME NEW d, NEW session, NEW window, NEW pane,
             Attach(d, session, window, pane)
      PROVE  subscribers'[c].active = subscribers[c].active
  BY <1>2 DEF Attach, Insert
<1>3. ASSUME NEW d, Detach(d)
      PROVE  subscribers'[c].active = subscribers[c].active
  BY <1>3 DEF Detach, Remove, Restrict
<1>4. CASE Tick \/ AnswerChange \/ AnswerOther
  <2>1. IInv'
    BY ClientNext DEF ClientInv
  <2>2. \E exits, snapshot : Broadcast(exits, snapshot)
    BY <1>4 DEF Tick, AnswerChange, AnswerOther
  <2>. QED
    BY <2>1, <2>2, BroadcastStays
<1>5. CASE BeginRequest \/ AnswerError
  BY <1>5 DEF BeginRequest, AnswerError
<1>. QED
  BY <1>1, <1>2, <1>3, <1>4, <1>5 DEF Next

\* The invariant holds in every reachable state.
THEOREM ClientInvariant == Spec => []ClientInv
<1>. QED
  BY ClientInit, ClientNext, PTL DEF Spec

\* The daemon with clients is a daemon: whatever SessionTree shows of the
\* hierarchy holds while clients come, go and are told.
THEOREM ClientsLeaveTree == Spec => TreeSpec
<1>1. Init => TreeInit
  BY DEF Init
<1>2. [Next]_vars => [TreeNext]_treeVars
  BY DEF Next, vars, Attach, Detach, Tick, BeginRequest, AnswerChange,
         AnswerOther, AnswerError, TreeNext, Command, Collect
<1>. QED
  BY <1>1, <1>2, PTL DEF Spec, TreeSpec

\* The filters, places and views of clients are of their types: a filter
\* names no window without its session and no pane without its window
\* (resolve_attach_filter).
THEOREM ClientTypeCorrect == Spec => []ClientTypeOK
<1>1. ClientInv => ClientTypeOK
  BY ClientInvImplies
<1>. QED
  BY <1>1, ClientInvariant, PTL

\* A client that applies the snapshots and exits it is sent sees what it is
\* attached to as it is, whatever was created, renamed, resized or deleted, by
\* whichever handlers, unless an error kept something from it
\* (broadcast_events, filter_snapshot).
THEOREM ViewsAreCurrent == Spec => []ViewIsCurrent
<1>1. ClientInv => ViewIsCurrent
  BY ClientInvImplies
<1>. QED
  BY <1>1, ClientInvariant, PTL

\* The session, window and pane a client has before it lie in each other, and
\* within what it is attached to (refresh_client_state).
THEOREM PlacesAreLive == Spec => []PlaceIsLive
<1>1. ClientInv => PlaceIsLive
  BY ClientInvImplies
<1>. QED
  BY <1>1, ClientInvariant, PTL

\* No snapshot points to a window or pane that it leaves out
\* (filter_snapshot).
THEOREM ViewsAreClosed == Spec => []ViewIsClosed
<1>1. ClientInv => ViewIsClosed
  BY ClientInvImplies
<1>. QED
  BY <1>1, ClientInvariant, PTL

\* No client is moved by what others do while its pane lives
\* (refresh_client_state keeps what still exists).
THEOREM PlacesStay == Spec => PlaceStays
<1>. DEFINE Stays ==
       \A c \in DOMAIN subscribers \cap DOMAIN subscribers' :
         LET at == subscribers[c].active
         IN  /\ Has(sessions', at.session)
             /\ Has(sessions'[at.session].windows, at.window)
             /\ Has(sessions'[at.session].windows[at.window].panes, at.pane)
             => subscribers'[c].active = at
<1>1. ClientInv /\ [Next]_vars => [Stays]_vars
  BY StaysStep DEF Lives, Holds, Has
<1>2. Spec => [][Stays]_vars
  BY <1>1, ClientInvariant, PTL DEF Spec
<1>. QED
  BY <1>2 DEF PlaceStays
===============================================================================
