------------------------------- MODULE ClientView -------------------------------
(***************************************************************************)
(* What the clients that are attached to the daemon see of the hierarchy:  *)
(* attach_client, the refresh of a client's own active session, window and *)
(* pane, and the snapshots broadcast_events sends it (server.rs).          *)
(*                                                                         *)
(* A client's view is the last snapshot put into its queue, brought up to  *)
(* date with the PaneExited events that follow it; the queue is unbounded, *)
(* in order, and loses nothing while the client is connected.  Pane output *)
(* is left out.                                                            *)
(***************************************************************************)
EXTENDS Targets

CONSTANTS Clients,
          AttachTexts     \* the target texts clients attach with

ASSUME ClientAssumption == AttachTexts \subseteq Name

VARIABLES
  subscribers,   \* client |-> [filter, active, view]
  collected,     \* panes whose exit the request being served has collected
  stale          \* history: an error kept something from the clients, and no
                 \* snapshot has been broadcast since

clientVars == <<subscribers, collected, stale>>
vars == <<treeVars, clientVars>>

\* AttachFilter, and the active ids of a ClientState: None or an id each.
Place(s, w, p) == [session |-> s, window |-> w, pane |-> p]

NoText == Unnamed             \* a target that the client does not give

-------------------------------------------------------------------------------
Admits(wanted, id) == wanted = None \/ wanted = id

MatchesWindow(f, s, w) == Admits(f.session, s) /\ Admits(f.window, w)

MatchesPane(f, s, w, p) == MatchesWindow(f, s, w) /\ Admits(f.pane, p)

\* Mutant: the pointer to the active window is not cleared.
WindowsStale(f, session) ==
  IF f.window = None THEN session
  ELSE [session EXCEPT !.windows = Restrict(@, DOMAIN @ \cap {f.window})]

\* filter_snapshot, with the pointers it clears or moves
Windows(f, session) ==
  IF f.window = None THEN session
  ELSE [session EXCEPT
          !.windows = Restrict(@, DOMAIN @ \cap {f.window}),
          !.active = IF @ = f.window THEN @ ELSE None]

OnePane(f, window) ==
  [window EXCEPT
     !.panes = Restrict(@, DOMAIN @ \cap {f.pane}),
     !.active = IF @ = f.pane THEN @ ELSE None]

Panes(f, session) ==
  IF f.pane = None THEN session
  ELSE LET kept == {w \in DOMAIN session.windows :
                      f.pane \in DOMAIN session.windows[w].panes}
           windows == [w \in kept |-> OnePane(f, session.windows[w])]
       IN  [session EXCEPT !.windows = windows, !.active = FirstKey(windows)]

FilterSnapshot(f, tree) ==
  LET mine == {s \in DOMAIN tree : Admits(f.session, s)}
      cut == [s \in mine |-> Panes(f, Windows(f, tree[s]))]
  IN  IF f.window = None THEN cut
      ELSE Restrict(cut, {s \in mine : DOMAIN cut[s].windows # {}})

-------------------------------------------------------------------------------
\* BTreeMap::contains_key, of an Option too
Has(map, key) == key \in DOMAIN map

\* The active child if it fits, or the first that does.
Preferred(active, map, Fits(_)) ==
  IF active # None /\ Fits(active) THEN active
  ELSE FirstKey(Restrict(map, {k \in DOMAIN map : Fits(k)}))

DefaultSession(tree, f) ==
  IF f.session # None THEN f.session ELSE FirstKey(tree)

DefaultWindow(tree, f, s) ==
  IF f.window # None THEN f.window
  ELSE IF ~Has(tree, s) THEN None
  ELSE Preferred(tree[s].active, tree[s].windows,
                 LAMBDA w : MatchesWindow(f, s, w))

DefaultPane(tree, f, s, w) ==
  IF f.pane # None THEN f.pane
  ELSE IF ~Has(tree, s) THEN None
  ELSE IF ~Has(tree[s].windows, w) THEN None
  ELSE Preferred(tree[s].windows[w].active, tree[s].windows[w].panes,
                 LAMBDA p : MatchesPane(f, s, w, p))

SessionExists(tree, f, s) == s # None /\ Admits(f.session, s) /\ Has(tree, s)

WindowExists(tree, f, s, w) ==
  \E t \in DOMAIN tree :
    Admits(s, t) /\ Has(tree[t].windows, w) /\ MatchesWindow(f, t, w)

PaneExists(tree, f, s, w, p) ==
  \E t \in DOMAIN tree : \E v \in DOMAIN tree[t].windows :
    /\ Admits(s, t) /\ Admits(w, v)
    /\ Has(tree[t].windows[v].panes, p) /\ MatchesPane(f, t, v, p)

\* Mutants: the window is refreshed before the session; the client follows
\* whatever is active.
RefreshWindowFirst(tree, f, active) ==
  LET w == IF WindowExists(tree, f, active.session, active.window)
           THEN active.window ELSE DefaultWindow(tree, f, active.session)
      s == IF SessionExists(tree, f, active.session) THEN active.session
           ELSE DefaultSession(tree, f)
      p == IF PaneExists(tree, f, s, w, active.pane) THEN active.pane
           ELSE DefaultPane(tree, f, s, w)
  IN  Place(s, w, p)
RefreshFollowing(tree, f, active) ==
  LET s == DefaultSession(tree, f)
      w == DefaultWindow(tree, f, s)
  IN  Place(s, w, DefaultPane(tree, f, s, w))

(***************************************************************************)
(* refresh_client_state: each pointer, in this order, is kept while what   *)
(* it points to exists below the pointers before it, and else set anew.    *)
(***************************************************************************)
Refresh(tree, f, active) ==
  LET s == IF SessionExists(tree, f, active.session) THEN active.session
           ELSE DefaultSession(tree, f)
      w == IF WindowExists(tree, f, s, active.window) THEN active.window
           ELSE DefaultWindow(tree, f, s)
      p == IF PaneExists(tree, f, s, w, active.pane) THEN active.pane
           ELSE DefaultPane(tree, f, s, w)
  IN  Place(s, w, p)

SnapshotFor(f, tree, active) ==
  [sessions |-> FilterSnapshot(f, tree), active |-> active]

-------------------------------------------------------------------------------
\* resolve_attach_filter: a window is only looked for below a session, and a
\* pane below a window.
ResolveAttach(session, window, pane) ==
  LET s == IF session = NoText THEN None ELSE ResolveSession(session)
      w == IF session = NoText \/ window = NoText THEN None
           ELSE ResolveWindow(s, window)
      p == IF w = None \/ pane = NoText THEN None ELSE ResolvePane(s, w, pane)
  IN  Place(s, w, p)

\* Mutant: a target that does not resolve is not refused.
AttachUnchecked(c, session, window, pane) ==
  LET filter == ResolveAttach(session, window, pane)
      active == Refresh(sessions, filter, filter)
  IN  /\ collected = {}
      /\ c \notin DOMAIN subscribers
      /\ subscribers' = Insert(subscribers, c,
           [filter |-> filter, active |-> active,
            view |-> SnapshotFor(filter, sessions, active)])
      /\ UNCHANGED <<treeVars, collected, stale>>

\* attach_client, between two requests
Attach(c, session, window, pane) ==
  LET filter == ResolveAttach(session, window, pane)
      active == Refresh(sessions, filter, filter)
  IN  /\ collected = {}
      /\ c \notin DOMAIN subscribers
      /\ Unresolved \notin {filter.session, filter.window, filter.pane}
      /\ subscribers' = Insert(subscribers, c,
           [filter |-> filter, active |-> active,
            view |-> SnapshotFor(filter, sessions, active)])
      /\ UNCHANGED <<treeVars, collected, stale>>

\* The connection of the client ended.
Detach(c) ==
  /\ collected = {}
  /\ c \in DOMAIN subscribers
  /\ subscribers' = Remove(subscribers, c)
  /\ UNCHANGED <<treeVars, collected, stale>>

\* The panes of a hierarchy that are told to have exited are marked in it.
MarkedPanes(panes, told) ==
  [p \in DOMAIN panes |->
     IF p \in told THEN [panes[p] EXCEPT !.exited = TRUE] ELSE panes[p]]

MarkedWindows(windows, told) ==
  [w \in DOMAIN windows |->
     [windows[w] EXCEPT !.panes = MarkedPanes(windows[w].panes, told)]]

Marked(tree, told) ==
  [s \in DOMAIN tree |->
     [tree[s] EXCEPT !.windows = MarkedWindows(tree[s].windows, told)]]

\* The client applies the PaneExited events it is sent.
Told(view, f, exits) ==
  LET sent == {e \in exits : MatchesPane(f, e[1], e[2], e[3])}
  IN  [view EXCEPT !.sessions = Marked(view.sessions, {e[3] : e \in sent})]

(***************************************************************************)
(* broadcast_events, of the panes that exited and after a change of the    *)
(* Snapshot event: every client is refreshed, and gets a snapshot of what  *)
(* it is attached to unless that is nothing.                               *)
(***************************************************************************)
Broadcast(exits, snapshot) ==
  subscribers' =
    [c \in DOMAIN subscribers |->
      LET f == subscribers[c].filter
          active == Refresh(sessions', f, subscribers[c].active)
          new == SnapshotFor(f, sessions', active)
      IN  [filter |-> f, active |-> active,
           view |-> IF snapshot /\ DOMAIN new.sessions # {} THEN new
                    ELSE Told(subscribers[c].view, f, exits)]]

ExitOf(s, w, p) == {<<s, w, p>>}

\* The runtime tick finds one exit; several are as many steps.
Tick ==
  /\ collected = {}
  /\ \E s \in SessionIds : \E w \in WindowsOf(s) : \E p \in PanesOf(s, w) :
       PaneExits(s, w, p) /\ Broadcast(ExitOf(s, w, p), FALSE)
  /\ UNCHANGED <<collected, stale>>

\* handle_request begins with a collect, which finds an exit.  The request is
\* then served before anything else happens.
BeginRequest ==
  /\ \E s \in SessionIds : \E w \in WindowsOf(s) : \E p \in PanesOf(s, w) :
       PaneExits(s, w, p) /\ collected' = collected \cup ExitOf(s, w, p)
  /\ UNCHANGED <<subscribers, stale>>

\* Mutant: the handler leaves out the snapshot.
AnswerChangeQuiet ==
  /\ Change
  /\ reply' = "ok"
  /\ Broadcast(collected, FALSE)
  /\ collected' = {} /\ stale' = FALSE

AnswerChange ==
  /\ Change
  /\ reply' = "ok"
  /\ Broadcast(collected, TRUE)
  /\ collected' = {} /\ stale' = FALSE

AnswerOther ==
  /\ Input \/ Query
  /\ reply' = "ok"
  /\ Broadcast(collected, FALSE)
  /\ collected' = {} /\ UNCHANGED stale

\* An error is announced to nobody, and what was collected is dropped.
AnswerError ==
  /\ Command
  /\ reply' = "err"
  /\ stale' = (stale \/ collected # {} \/ sessions' # sessions)
  /\ collected' = {} /\ UNCHANGED subscribers

Init ==
  /\ TreeInit
  /\ subscribers = [c \in {} |-> c] /\ collected = {} /\ stale = FALSE

Next ==
  \/ \E c \in Clients :
       \/ \E session, window, pane \in AttachTexts \cup {NoText} :
            Attach(c, session, window, pane)
       \/ Detach(c)
  \/ Tick
  \/ BeginRequest
  \/ AnswerChange
  \/ AnswerOther
  \/ AnswerError

Spec == Init /\ [][Next]_vars

-------------------------------------------------------------------------------
\* An id, which need not be of anything, or none.
MaybeId == Nat \cup {None}

\* Type invariant.
ClientTypeOK ==
  /\ DOMAIN subscribers \subseteq Clients
  /\ \A c \in DOMAIN subscribers :
       LET f == subscribers[c].filter
       IN  /\ {f, subscribers[c].active, subscribers[c].view.active} \subseteq
                [session : MaybeId, window : MaybeId, pane : MaybeId]
           /\ f.session = None => f.window = None
           /\ f.window = None => f.pane = None
  /\ stale \in BOOLEAN

Now(c) == FilterSnapshot(subscribers[c].filter, sessions)

\* Nothing is kept from the clients, and what c is attached to exists.
UpToDate(c) == ~stale /\ collected = {} /\ DOMAIN Now(c) # {}

(***************************************************************************)
(* A client that applies what it is sent sees the part of the hierarchy it *)
(* is attached to as it is, whenever it attached and whatever was deleted, *)
(* unless an error kept something from it.                                 *)
(***************************************************************************)
ViewIsCurrent ==
  \A c \in DOMAIN subscribers :
    UpToDate(c) =>
      subscribers[c].view = [sessions |-> Now(c), active |-> subscribers[c].active]

\* The pane a client has before it lies in its window, and that in its
\* session, within what it is attached to.
PlaceIsLive ==
  \A c \in DOMAIN subscribers :
    UpToDate(c) =>
      LET at == subscribers[c].active
      IN  /\ Has(Now(c), at.session)
          /\ Has(Now(c)[at.session].windows, at.window)
          /\ Has(Now(c)[at.session].windows[at.window].panes, at.pane)

\* What a client is sent hangs together on its own: an active window or pane
\* is named only if it is part of it.
ViewIsClosed ==
  \A c \in DOMAIN subscribers :
    LET tree == subscribers[c].view.sessions
    IN  \A s \in DOMAIN tree :
          /\ tree[s].active \in {None} \cup DOMAIN tree[s].windows
          /\ \A w \in DOMAIN tree[s].windows :
               tree[s].windows[w].active \in
                 {None} \cup DOMAIN tree[s].windows[w].panes

\* A client is not moved by what others select, create or delete while the
\* pane it has before it lives.
PlaceStays ==
  [][\A c \in DOMAIN subscribers \cap DOMAIN subscribers' :
       LET at == subscribers[c].active
       IN  /\ Has(sessions', at.session)
           /\ Has(sessions'[at.session].windows, at.window)
           /\ Has(sessions'[at.session].windows[at.window].panes, at.pane)
           => subscribers'[c].active = at]_vars

(***************************************************************************)
(* caterm/src/main.rs:665, attach: "Subscribe to live daemon events".  A   *)
(* client that sees a pane learns that its shell has ended.  Violated:     *)
(* handle_request collects the exit, then fails, and the event is dropped  *)
(* with the error.                                                         *)
(***************************************************************************)
ExitsReachClients ==
  collected = {} =>
    \A c \in DOMAIN subscribers : \A s \in DOMAIN Now(c) :
      \A w \in DOMAIN Now(c)[s].windows :
        \A p \in DOMAIN Now(c)[s].windows[w].panes :
          sessions[s].windows[w].panes[p].exited =>
            subscribers[c].view.sessions[s].windows[w].panes[p].exited
===============================================================================
