----------------------------- MODULE WindowLayout -----------------------------
(***************************************************************************)
(* The operations of caterm/src/session_manager/window.rs on one window.   *)
(*                                                                         *)
(* A map (BTreeMap<u64, _>) is a function on a finite set of ids.  A pane  *)
(* is a record with at least the fields index and size, and a window a     *)
(* record with at least layout, active and panes.  The operators do not    *)
(* look at any other field, so WindowSizes uses them on bare panes and     *)
(* SessionTree on panes with a name and an exit flag.                      *)
(***************************************************************************)
EXTENDS Integers, FiniteSets, FiniteSetsExt, Functions

Layouts == {"single", "tiled", "horizontal", "vertical"}

None == -2                    \* Option::None: no id, not even 0, which a text can name

MinPaneSize == 10

Full == 100

\* BTreeMap::insert and BTreeMap::remove
Insert(map, key, value) ==
  [k \in DOMAIN map \cup {key} |-> IF k = key THEN value ELSE map[k]]

Remove(map, key) == Restrict(map, DOMAIN map \ {key})

\* BTreeMap::keys().next()
FirstKey(map) == IF DOMAIN map = {} THEN None ELSE Min(DOMAIN map)

\* Mutant: the next index is the count of what is left.
NextIndexByCount(map) == Cardinality(DOMAIN map)

(***************************************************************************)
(* One past the largest index, or 0: both Window::next_pane_index and      *)
(* Session::next_window_index.                                             *)
(***************************************************************************)
NextIndex(map) ==
  IF DOMAIN map = {} THEN 0 ELSE Max({map[k].index : k \in DOMAIN map}) + 1

SyncLayout(w) ==
  [w EXCEPT !.layout =
     IF Cardinality(DOMAIN w.panes) <= 1 THEN "single"
     ELSE IF w.layout \in {"horizontal", "vertical"} THEN w.layout
     ELSE "tiled"]

SetSplitLayout(w, layout) ==
  [w EXCEPT !.layout =
     IF Cardinality(DOMAIN w.panes) <= 1 THEN "single" ELSE layout]

\* The stable sort by index of the panes, which BTreeMap yields in id order.
Before(panes, j, k) ==
  \/ panes[j].index < panes[k].index
  \/ panes[j].index = panes[k].index /\ j < k

Position(panes, k) == Cardinality({j \in DOMAIN panes : Before(panes, j, k)})

\* Mutant: the remainder of the division is given to nobody.
RebalanceNoRemainder(w) ==
  [w EXCEPT !.panes = [k \in DOMAIN w.panes |->
     [w.panes[k] EXCEPT !.size = Full \div Cardinality(DOMAIN w.panes)]]]

(***************************************************************************)
(* Every pane gets an equal share of the hundred percent, and the first    *)
(* 100 % count panes get one percent more.                                 *)
(***************************************************************************)
Rebalance(w) ==
  LET count == Cardinality(DOMAIN w.panes)
      share(k) == Full \div count +
                  (IF Position(w.panes, k) < Full % count THEN 1 ELSE 0)
  IN  [w EXCEPT !.panes =
         [k \in DOMAIN w.panes |-> [w.panes[k] EXCEPT !.size = share(k)]]]

\* The panes of a window share all of it, and no more.
PaneSizes(panes) == [k \in DOMAIN panes |-> panes[k].size]

FillsWindow(panes) == SumFunction(PaneSizes(panes)) = Full

FirstOf(panes, S) ==
  CHOOSE j \in S : \A i \in S \ {j} : Before(panes, j, i)

LastOf(panes, S) ==
  CHOOSE j \in S : \A i \in S \ {j} : Before(panes, i, j)

\* The pane that pays for the growth of pane k: the next one, or for the
\* last pane the one before it.
Partner(panes, k) ==
  LET later == {j \in DOMAIN panes : Before(panes, k, j)}
  IN  IF later # {} THEN FirstOf(panes, later)
      ELSE LastOf(panes, DOMAIN panes \ {k})

\* Mutant: a pane can be squeezed to nothing.
RoomToZero(pane) == pane.size

\* size.saturating_sub(MIN_PANE_SIZE)
Room(pane) == Max({pane.size - MinPaneSize, 0})

\* Mutant: the neighbour is taken to have room enough.
ClampedNever(panes, k, delta) == delta

Clamped(panes, k, delta) ==
  IF delta > 0
  THEN Min({delta, Room(panes[Partner(panes, k)])})
  ELSE Max({delta, -Room(panes[k])})

\* Window::resize_pane succeeds: not a single pane, and either nothing to do
\* or something left of delta after the clamp.
CanResize(w, k, delta) ==
  /\ Cardinality(DOMAIN w.panes) >= 2
  /\ delta = 0 \/ Clamped(w.panes, k, delta) # 0

\* ... and its effect on the sizes.  Sizes stay within 0..100, far from the
\* limits of the u16 and i16 they are computed in.
Resize(w, k, delta) ==
  IF delta = 0 THEN w
  ELSE LET d == Clamped(w.panes, k, delta)
       IN  [w EXCEPT !.panes[k].size = @ + d,
                     !.panes[Partner(w.panes, k)].size = @ - d]
===============================================================================
