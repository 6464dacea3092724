------------------------------ MODULE WindowSizes ------------------------------
(***************************************************************************)
(* How the panes of one window share its space: the part that create_pane, *)
(* split_pane, delete_pane and resize_pane of server.rs have in the sizes  *)
(* and the layout of a window, for windows of more panes than SessionTree  *)
(* can afford.  Names, spawning and termination are in SessionTree.        *)
(***************************************************************************)
EXTENDS WindowLayout

CONSTANTS
  Starts,         \* <<panes of the window at the start, bound: operations
                  \* that change it>>
  Deltas          \* resize deltas a client sends, within the i16 range

\* The integers that a delta may be.
I16 == -(2^15) .. 2^15 - 1

ASSUME SizesAssumption ==
  /\ Starts \subseteq (Nat \ {0}) \X Nat
  /\ Deltas \subseteq I16

VARIABLES window, nextPane, left    \* left: operations left to the behaviour

vars == <<window, nextPane, left>>

PaneSet == DOMAIN window.panes

Size(k) == window.panes[k].size

(***************************************************************************)
(* A window as count creations leave it, the last one active: the window   *)
(* of a new session, or one that restore_state read back.                  *)
(***************************************************************************)
Init ==
  \E start \in Starts : LET count == start[1] IN
    /\ window = SyncLayout(Rebalance(
         [layout |-> "single", active |-> count,
          panes |-> [k \in 1 .. count |-> [index |-> k - 1, size |-> Full]]]))
    /\ nextPane = count + 1
    /\ left = start[2]

Commit(w, next) ==
  /\ left > 0
  /\ left' = left - 1
  /\ window' = w
  /\ nextPane' = next

Refuse == UNCHANGED vars

WithPane(w, id) ==
  Rebalance([w EXCEPT
    !.active = id,
    !.panes = Insert(w.panes, id,
                     [index |-> NextIndex(w.panes), size |-> Full])])

\* create_pane_with_layout without a layout, and with one
CreatePane ==
  Commit(SyncLayout(WithPane(window, nextPane)), nextPane + 1)

SplitPane(layout) ==
  Commit(SetSplitLayout(WithPane(window, nextPane), layout), nextPane + 1)

DeletePane(k) ==
  IF Cardinality(PaneSet) = 1 THEN Refuse
  ELSE LET rest == SyncLayout(Rebalance(
                     [window EXCEPT !.panes = Remove(window.panes, k)]))
       IN  Commit([rest EXCEPT !.active =
                     IF @ = k THEN FirstKey(rest.panes) ELSE @], nextPane)

ResizePane(k, delta) ==
  IF delta = 0 \/ ~CanResize(window, k, delta) THEN Refuse
  ELSE Commit(Resize(window, k, delta), nextPane)

Next ==
  \/ CreatePane
  \/ \E layout \in {"horizontal", "vertical"} : SplitPane(layout)
  \/ \E k \in PaneSet : DeletePane(k)
  \/ \E k \in PaneSet, delta \in Deltas : ResizePane(k, delta)

Spec == Init /\ [][Next]_vars

-------------------------------------------------------------------------------
\* Type invariant.
SizesTypeOK ==
  /\ window.layout \in Layouts
  /\ window.active \in Nat
  /\ PaneSet \subseteq 1 .. nextPane - 1
  /\ \A k \in PaneSet : window.panes[k].index \in Nat /\ Size(k) \in 0 .. Full
  /\ nextPane \in Nat
  /\ left \in Nat

\* The panes fill the window exactly, whatever sequence of creations,
\* removals and resizes produced them and whatever the rounding of 100/count.
SizesFillWindow == FillsWindow(window.panes)

(***************************************************************************)
(* A step that keeps the panes (a resize) moves space between two panes    *)
(* that are next to each other, and shrinks none of them below the minimum *)
(* size; a pane already below it (more than ten panes) never shrinks.      *)
(***************************************************************************)
Adjacent(panes, j, k) == Position(panes, j) - Position(panes, k) \in {-1, 1}

ResizeMovesOneBorder ==
  [][PaneSet' = PaneSet =>
       LET moved == {k \in PaneSet : Size(k)' # Size(k)}
       IN  \E j, k \in PaneSet :
             /\ moved = {j, k} /\ Adjacent(window.panes, j, k)
             /\ \A m \in moved : Size(m)' < Size(m) => Size(m)' >= MinPaneSize]_vars
===============================================================================
