--------------------------- MODULE WindowSizesProofs ---------------------------
(***************************************************************************)
(* The sizes of a window's panes, for windows of any number of panes, any  *)
(* deltas and operations without bound: the panes fill the window, and a   *)
(* resize moves one border.                                                *)
(*                                                                         *)
(* FillsWindow is not inductive by itself: a rebalance hands out a hundred *)
(* percent only if no two panes have the same position, for which their    *)
(* indexes must differ; those are computed from what deletions left, and   *)
(* stay different because every index is below the id of its pane.         *)
(***************************************************************************)
EXTENDS WindowSizes, WindowLayoutProofs

\* Panes below the next id that can be told apart.
Panes(panes, next) ==
  /\ panes \in [DOMAIN panes -> [index : Nat, size : Nat]]
  /\ DOMAIN panes \subseteq 1 .. next - 1
  /\ DOMAIN panes # {}
  /\ \A k \in DOMAIN panes : panes[k].index < k
  /\ \A j, k \in DOMAIN panes : j # k => panes[j].index # panes[k].index

\* A window before its sizes and its layout are settled, and after.
Fits(w, next) ==
  /\ w \in [layout : Layouts, active : Nat, panes : {w.panes}]
  /\ Panes(w.panes, next)

Settled(w, next) == Fits(w, next) /\ FillsWindow(w.panes)

SizesInv ==
  /\ nextPane \in Nat \ {0} /\ left \in Nat
  /\ Settled(window, nextPane)

\* The ids of a window are finitely many naturals.
LEMMA PanesFinite ==
  ASSUME NEW next \in Nat \ {0}, NEW panes, Panes(panes, next)
  PROVE  /\ IsFiniteSet(DOMAIN panes) /\ DOMAIN panes \subseteq Nat
         /\ Cardinality(DOMAIN panes) \in Nat \ {0}
         /\ next \notin DOMAIN panes
         /\ \A k \in DOMAIN panes :
              panes[k].index \in Nat /\ panes[k].index <= next
<1>1. /\ IsFiniteSet(DOMAIN panes) /\ DOMAIN panes \subseteq Nat
      /\ next \notin DOMAIN panes
  <2>1. IsFiniteSet(1 .. next - 1)
    BY FS_Interval
  <2>. QED
    BY <2>1, FS_Subset DEF Panes
<1>2. Cardinality(DOMAIN panes) \in Nat \ {0}
  BY <1>1, FS_CardinalityType, FS_EmptySet DEF Panes
<1>. QED
  BY <1>1, <1>2 DEF Panes

\* rebalance settles the sizes,
LEMMA Rebalanced ==
  ASSUME NEW next \in Nat \ {0}, NEW w, Fits(w, next)
  PROVE  /\ Settled(Rebalance(w), next)
         /\ DOMAIN Rebalance(w).panes = DOMAIN w.panes
<1>. DEFINE count == Cardinality(DOMAIN w.panes)
            share(k) == Full \div count +
              (IF Position(w.panes, k) < Full % count THEN 1 ELSE 0)
            panes == [k \in DOMAIN w.panes |->
                        [w.panes[k] EXCEPT !.size = share(k)]]
<1>1. count \in Nat \ {0} /\ IsFiniteSet(DOMAIN w.panes)
      /\ DOMAIN w.panes \subseteq Nat
  BY PanesFinite DEF Fits
<1>2. Full \div count \in Nat
  <2>. HIDE DEF count
  <2>. QED
    BY <1>1 DEF Full
<1>3. \A k \in DOMAIN w.panes : share(k) \in Nat
  <2>. HIDE DEF count
  <2>. QED
    BY <1>2
<1>4. Rebalance(w) = [w EXCEPT !.panes = panes]
  BY DEF Rebalance
<1>. HIDE DEF share
<1>5. /\ panes \in [DOMAIN w.panes -> [index : Nat, size : Nat]]
      /\ \A k \in DOMAIN w.panes : panes[k].index = w.panes[k].index
  BY <1>3 DEF Fits, Panes
<1>. HIDE DEF panes
<1>6. Fits(Rebalance(w), next) /\ DOMAIN Rebalance(w).panes = DOMAIN w.panes
  BY <1>4, <1>5 DEF Fits, Panes
<1>7. FillsWindow(Rebalance(w).panes)
  <2>1. /\ "panes" \in DOMAIN w /\ DOMAIN w.panes # {}
        /\ \A k \in DOMAIN w.panes : /\ "size" \in DOMAIN w.panes[k]
                                    /\ w.panes[k].index \in Nat
        /\ \A j, k \in DOMAIN w.panes :
             j # k => w.panes[j].index # w.panes[k].index
    BY DEF Fits, Panes
  <2>. QED
    BY <1>1, <2>1, RebalanceFills
<1>. QED
  BY <1>6, <1>7 DEF Settled

\* ... and the layout is settled without them.
LEMMA LayoutSettled ==
  ASSUME NEW next \in Nat \ {0}, NEW w, Settled(w, next),
         NEW layout \in {"horizontal", "vertical"}
  PROVE  /\ Settled(SyncLayout(w), next)
         /\ Settled(SetSplitLayout(w, layout), next)
         /\ SyncLayout(w).panes = w.panes
         /\ SetSplitLayout(w, layout).panes = w.panes
BY DEF SyncLayout, SetSplitLayout, Settled, Fits, Layouts

\* Settled for one more id.
LEMMA SettledLonger ==
  ASSUME NEW next \in Nat \ {0}, NEW w, Settled(w, next)
  PROVE  Settled(w, next + 1)
BY DEF Settled, Fits, Panes

\* A pane that is added gets an index of its own.
LEMMA WithPaneSettled ==
  ASSUME NEW next \in Nat \ {0}, NEW w, Settled(w, next)
  PROVE  /\ Settled(WithPane(w, next), next + 1)
         /\ DOMAIN WithPane(w, next).panes = DOMAIN w.panes \cup {next}
<1>. DEFINE index == NextIndex(w.panes)
            pane == [index |-> index, size |-> Full]
            panes == Insert(w.panes, next, pane)
            v == [w EXCEPT !.active = next, !.panes = panes]
<1>1. /\ index \in Nat /\ index < next
      /\ \A k \in DOMAIN w.panes : w.panes[k].index < index
  BY NextIndexFresh DEF Settled, Fits, Panes
<1>2. next \notin DOMAIN w.panes
  BY PanesFinite DEF Settled, Fits
<1>. HIDE DEF index
<1>3. /\ pane \in [index : Nat, size : Nat] /\ pane.index = index
  BY <1>1 DEF Full
<1>. HIDE DEF pane
<1>4. /\ DOMAIN panes = DOMAIN w.panes \cup {next}
      /\ panes = [k \in DOMAIN w.panes \cup {next} |->
                    IF k = next THEN pane ELSE w.panes[k]]
  BY DEF Insert
<1>. HIDE DEF panes
<1>5. Panes(panes, next + 1)
  <2>1. panes \in [DOMAIN panes -> [index : Nat, size : Nat]]
    BY <1>3, <1>4 DEF Settled, Fits, Panes
  <2>2. \A k \in DOMAIN panes : panes[k].index < k
    BY <1>1, <1>3, <1>4 DEF Settled, Fits, Panes
  <2>3. \A j, k \in DOMAIN panes : j # k => panes[j].index # panes[k].index
    BY <1>1, <1>2, <1>3, <1>4 DEF Settled, Fits, Panes
  <2>4. DOMAIN panes \subseteq 1 .. (next + 1) - 1
    BY <1>4 DEF Settled, Fits, Panes
  <2>. QED
    BY <1>4, <2>1, <2>2, <2>3, <2>4 DEF Panes
<1>6. Fits(v, next + 1) /\ v.panes = panes
  BY <1>5 DEF Settled, Fits
<1>7. WithPane(w, next) = Rebalance(v)
  BY DEF WithPane, v, panes, pane, index
<1>. HIDE DEF v
<1>. QED
  BY <1>4, <1>6, <1>7, Rebalanced

\* A window of several panes loses one.
LEMMA DeleteSettled ==
  ASSUME SizesInv, NEW k \in PaneSet, Cardinality(PaneSet) # 1, DeletePane(k)
  PROVE  /\ SizesInv'
         /\ PaneSet' # PaneSet
<1>. DEFINE panes == Remove(window.panes, k)
            v == [window EXCEPT !.panes = panes]
            rest == SyncLayout(Rebalance(v))
            w == [rest EXCEPT !.active =
                    IF @ = k THEN FirstKey(rest.panes) ELSE @]
<1>1. /\ left > 0 /\ left' = left - 1 /\ window' = w /\ nextPane' = nextPane
  BY DEF DeletePane, Commit
<1>2. nextPane \in Nat \ {0} /\ left \in Nat /\ Settled(window, nextPane)
  BY DEF SizesInv
<1>3. /\ DOMAIN panes = PaneSet \ {k}
      /\ \A q \in DOMAIN panes : panes[q] = window.panes[q]
      /\ panes \in [DOMAIN panes -> [index : Nat, size : Nat]]
  BY <1>2 DEF Remove, Restrict, PaneSet, Settled, Fits, Panes
<1>4. DOMAIN panes # {}
  <2>1. PaneSet = {k} => Cardinality(PaneSet) = 1
    BY FS_Singleton
  <2>. QED
    BY <1>3, <2>1
<1>. HIDE DEF panes
<1>5. Fits(v, nextPane) /\ v.panes = panes
  BY <1>2, <1>3, <1>4 DEF Settled, Fits, Panes, PaneSet
<1>. HIDE DEF v
<1>6. /\ Settled(Rebalance(v), nextPane)
      /\ DOMAIN Rebalance(v).panes = PaneSet \ {k}
  BY <1>2, <1>3, <1>5, Rebalanced
<1>7. Settled(rest, nextPane) /\ DOMAIN rest.panes = PaneSet \ {k}
  BY <1>2, <1>6, LayoutSettled
<1>. HIDE DEF rest
<1>8. FirstKey(rest.panes) \in Nat
  <2>1. DOMAIN rest.panes \subseteq Nat /\ DOMAIN rest.panes # {}
    BY <1>2, <1>7, PanesFinite DEF Settled, Fits, Panes
  <2>. QED
    BY <2>1, FirstKeyLive
<1>9. Settled(w, nextPane) /\ w.panes = rest.panes
  BY <1>7, <1>8 DEF Settled, Fits
<1>. HIDE DEF w
<1>. QED
  BY <1>1, <1>2, <1>7, <1>9 DEF SizesInv, PaneSet

\* A resize moves what the clamp leaves of delta over the border between a
\* pane and its partner.
LEMMA ResizeSettled ==
  ASSUME NEW next \in Nat \ {0}, NEW w, Settled(w, next),
         NEW k \in DOMAIN w.panes, NEW delta \in Int \ {0},
         CanResize(w, k, delta)
  PROVE  LET v == Resize(w, k, delta)
             j == Partner(w.panes, k)
         IN  /\ Settled(v, next)
             /\ DOMAIN v.panes = DOMAIN w.panes
             /\ j \in DOMAIN w.panes \ {k}
             /\ Position(w.panes, j) - Position(w.panes, k) \in {-1, 1}
             /\ \A q \in DOMAIN w.panes \ {j, k} : v.panes[q] = w.panes[q]
             /\ \A q \in {j, k} :
                  /\ v.panes[q].size # w.panes[q].size
                  /\ v.panes[q].size < w.panes[q].size
                       => v.panes[q].size >= MinPaneSize
<1>. DEFINE j == Partner(w.panes, k)
            d == Clamped(w.panes, k, delta)
            v == Resize(w, k, delta)
            grown == [w.panes[k] EXCEPT !.size = @ + d]
            paid == [w.panes[j] EXCEPT !.size = @ - d]
            panes == [w.panes EXCEPT ![k] = grown, ![j] = paid]
<1>1. /\ w.panes \in [DOMAIN w.panes -> [index : Nat, size : Nat]]
      /\ Panes(w.panes, next) /\ FillsWindow(w.panes)
      /\ IsFiniteSet(DOMAIN w.panes) /\ DOMAIN w.panes \subseteq Nat
      /\ \A q \in DOMAIN w.panes :
           w.panes[q].index \in Nat /\ w.panes[q].index <= next
      /\ \A i, q \in DOMAIN w.panes :
           i # q => w.panes[i].index # w.panes[q].index
  BY PanesFinite DEF Settled, Fits, Panes
<1>2. DOMAIN w.panes # {k}
  <2>1. Cardinality({k}) = 1
    BY FS_Singleton
  <2>. QED
    BY <2>1 DEF CanResize
<1>3. /\ j \in DOMAIN w.panes \ {k}
      /\ Position(w.panes, j) - Position(w.panes, k) \in {-1, 1}
  BY <1>1, <1>2, PartnerIsPane, PartnerAdjacent
<1>4. /\ w.panes[k] \in [index : Nat, size : Nat]
      /\ w.panes[j] \in [index : Nat, size : Nat]
  BY <1>1, <1>3
<1>5. /\ d \in Int /\ d # 0
      /\ w.panes[k].size + d \in Nat /\ w.panes[j].size - d \in Nat
      /\ d > 0 => w.panes[j].size - d >= MinPaneSize
      /\ d < 0 => w.panes[k].size + d >= MinPaneSize
  <2>1. w.panes[k].size \in Nat /\ w.panes[j].size \in Nat
    BY <1>4
  <2>2. d # 0
    BY DEF CanResize
  <2>. QED
    BY <2>1, <2>2, ClampedFits
<1>6. v = [w EXCEPT !.panes = panes]
  <2>1. v = [w EXCEPT !.panes[k].size = @ + d, !.panes[j].size = @ - d]
    BY DEF Resize
  <2>. HIDE DEF d, j, v
  <2>. QED
    BY <1>3, <2>1
<1>. HIDE DEF d, j, v
<1>7. /\ grown \in [index : Nat, size : Nat]
      /\ grown.index = w.panes[k].index /\ grown.size = w.panes[k].size + d
      /\ paid \in [index : Nat, size : Nat]
      /\ paid.index = w.panes[j].index /\ paid.size = w.panes[j].size - d
  BY <1>4, <1>5
<1>. HIDE DEF grown, paid
<1>8. /\ DOMAIN panes = DOMAIN w.panes
      /\ panes[k] = grown /\ panes[j] = paid
      /\ \A q \in DOMAIN w.panes \ {j, k} : panes[q] = w.panes[q]
      /\ panes \in [DOMAIN panes -> [index : Nat, size : Nat]]
  BY <1>1, <1>3, <1>7
<1>. HIDE DEF panes
<1>9. FillsWindow(panes)
  <2>1. \A q \in DOMAIN w.panes : w.panes[q].size \in Int
    BY <1>1
  <2>2. /\ panes[k].size = w.panes[k].size + d
        /\ panes[j].size = w.panes[j].size - d
        /\ \A q \in DOMAIN w.panes \ {k, j} : panes[q].size = w.panes[q].size
    BY <1>7, <1>8
  <2>3. IsFiniteSet(DOMAIN w.panes) /\ FillsWindow(w.panes) /\ d \in Int
        /\ DOMAIN panes = DOMAIN w.panes /\ j \in DOMAIN w.panes /\ k # j
    BY <1>1, <1>3, <1>5, <1>8
  <2>. QED
    BY <2>1, <2>2, <2>3, ResizeFills
<1>10. Panes(panes, next)
  <2>1. \A q \in DOMAIN w.panes : panes[q].index = w.panes[q].index
    BY <1>7, <1>8
  <2>. QED
    BY <1>1, <1>8, <2>1 DEF Panes
<1>11. Settled(v, next) /\ v.panes = panes
  BY <1>6, <1>9, <1>10 DEF Settled, Fits
<1>12. \A q \in {j, k} :
         /\ panes[q].size # w.panes[q].size
         /\ panes[q].size < w.panes[q].size => panes[q].size >= MinPaneSize
  <2>1. w.panes[k].size \in Nat /\ w.panes[j].size \in Nat
    BY <1>4
  <2>. QED
    BY <1>5, <1>7, <1>8, <2>1 DEF MinPaneSize
<1>. QED
  BY <1>3, <1>8, <1>11, <1>12 DEF v, j

-------------------------------------------------------------------------------
\* The invariant implies what the run checks.
LEMMA SizesImply ==
  ASSUME SizesInv
  PROVE  SizesTypeOK /\ SizesFillWindow
<1>. USE DEF SizesInv, Settled, Fits, PaneSet, Size
<1>1. \A k \in PaneSet : Size(k) <= Full
  <2>1. /\ IsFiniteSet(DOMAIN window.panes)
        /\ \A k \in DOMAIN window.panes : window.panes[k].size \in Nat
    BY PanesFinite DEF Panes
  <2>. QED
    BY <2>1, PaneFits
<1>2. /\ PaneSet \subseteq 1 .. nextPane - 1
      /\ \A k \in PaneSet : window.panes[k].index \in Nat /\ Size(k) \in Nat
  BY DEF Panes
<1>3. \A k \in PaneSet : Size(k) \in 0 .. Full
  BY <1>1, <1>2 DEF Full
<1>4. window.layout \in Layouts /\ window.active \in Nat
  OBVIOUS
<1>. QED
  BY <1>2, <1>3, <1>4 DEF SizesTypeOK, SizesFillWindow

\* A delta is an integer.
LEMMA DeltasAreInts == \A delta \in Deltas : delta \in Int
<1>1. \A n \in I16 : n \in Int
  BY DEF I16
<1>. QED
  BY <1>1, SizesAssumption

\* A window as it was created or restored.
LEMMA SizesInit ==
  ASSUME Init
  PROVE  SizesInv
<1>1. PICK start \in Starts :
        /\ window = SyncLayout(Rebalance(
             [layout |-> "single", active |-> start[1],
              panes |-> [k \in 1 .. start[1] |->
                           [index |-> k - 1, size |-> Full]]]))
        /\ nextPane = start[1] + 1
        /\ left = start[2]
  BY DEF Init
<1>. DEFINE count == start[1]
            panes == [k \in 1 .. count |-> [index |-> k - 1, size |-> Full]]
            w == [layout |-> "single", active |-> count, panes |-> panes]
<1>2. count \in Nat \ {0} /\ left \in Nat
  <2>1. left = start[2]
    BY <1>1
  <2>2. start[1] \in Nat \ {0} /\ start[2] \in Nat
    BY SizesAssumption
  <2>. QED
    BY <2>1, <2>2
<1>3. /\ window = SyncLayout(Rebalance(w)) /\ nextPane = count + 1
      /\ count + 1 \in Nat \ {0}
  BY <1>1, <1>2
<1>. HIDE DEF count
<1>4. Panes(panes, count + 1)
  <2>1. 1 \in 1 .. count
    BY <1>2
  <2>. QED
    BY <1>2, <2>1 DEF Panes, Full
<1>. HIDE DEF panes
<1>5. Fits(w, count + 1)
  BY <1>2, <1>4 DEF Fits, Layouts
<1>. HIDE DEF w
<1>6. Settled(SyncLayout(Rebalance(w)), count + 1)
  BY <1>3, <1>5, Rebalanced, LayoutSettled
<1>. QED
  BY <1>2, <1>3, <1>6 DEF SizesInv

\* One operation: it keeps the invariant, and when it keeps the panes it moves
\* one border, if anything.
LEMMA SizesStep ==
  ASSUME SizesInv, [Next]_vars
  PROVE  /\ SizesInv'
         /\ \/ UNCHANGED vars
            \/ PaneSet' # PaneSet
            \/ \E j, k \in PaneSet :
                 /\ {m \in PaneSet : Size(m)' # Size(m)} = {j, k}
                 /\ Adjacent(window.panes, j, k)
                 /\ \A m \in {j, k} :
                      Size(m)' < Size(m) => Size(m)' >= MinPaneSize
<1>1. nextPane \in Nat \ {0} /\ left \in Nat /\ Settled(window, nextPane)
      /\ nextPane \notin PaneSet
  BY PanesFinite DEF SizesInv, Settled, Fits, PaneSet
<1>2. CASE UNCHANGED vars
  BY <1>1, <1>2 DEF vars, SizesInv
<1>3. ASSUME CreatePane \/ \E layout \in {"horizontal", "vertical"} :
                            SplitPane(layout)
      PROVE  SizesInv' /\ PaneSet' # PaneSet
  <2>. DEFINE w == WithPane(window, nextPane)
  <2>1. /\ Settled(w, nextPane + 1)
        /\ DOMAIN w.panes = PaneSet \cup {nextPane}
    BY <1>1, WithPaneSettled DEF PaneSet
  <2>2. /\ left > 0 /\ left' = left - 1 /\ nextPane' = nextPane + 1
        /\ \/ window' = SyncLayout(w)
           \/ \E layout \in {"horizontal", "vertical"} :
                window' = SetSplitLayout(w, layout)
    BY <1>3 DEF CreatePane, SplitPane, Commit
  <2>. HIDE DEF w
  <2>3. Settled(window', nextPane + 1) /\ window'.panes = w.panes
    BY <1>1, <2>1, <2>2, LayoutSettled
  <2>. QED
    BY <1>1, <2>1, <2>2, <2>3 DEF SizesInv, PaneSet
<1>4. ASSUME NEW k \in PaneSet, DeletePane(k)
      PROVE  \/ UNCHANGED vars
             \/ SizesInv' /\ PaneSet' # PaneSet
  BY <1>4, DeleteSettled DEF DeletePane, Refuse
<1>5. ASSUME NEW k \in PaneSet, NEW delta \in Deltas, ResizePane(k, delta),
             ~UNCHANGED vars
      PROVE  /\ SizesInv'
             /\ \E i, j \in PaneSet :
                  /\ {m \in PaneSet : Size(m)' # Size(m)} = {i, j}
                  /\ Adjacent(window.panes, i, j)
                  /\ \A m \in {i, j} :
                       Size(m)' < Size(m) => Size(m)' >= MinPaneSize
  <2>. DEFINE v == Resize(window, k, delta)
              j == Partner(window.panes, k)
  <2>1. /\ delta \in Int \ {0} /\ CanResize(window, k, delta)
        /\ left > 0 /\ left' = left - 1
        /\ window' = v /\ nextPane' = nextPane
    <3>1. delta \in Int
      BY <1>5, DeltasAreInts
    <3>2. ~(delta = 0 \/ ~CanResize(window, k, delta))
      BY <1>5 DEF ResizePane, Refuse
    <3>3. Commit(v, nextPane)
      BY <1>5, <3>2 DEF ResizePane
    <3>. QED
      BY <3>1, <3>2, <3>3 DEF Commit
  <2>2. /\ Settled(v, nextPane)
        /\ DOMAIN v.panes = DOMAIN window.panes
        /\ j \in DOMAIN window.panes \ {k}
        /\ Position(window.panes, j) - Position(window.panes, k) \in {-1, 1}
        /\ \A q \in DOMAIN window.panes \ {j, k} : v.panes[q] = window.panes[q]
        /\ \A q \in {j, k} :
             /\ v.panes[q].size # window.panes[q].size
             /\ v.panes[q].size < window.panes[q].size
                  => v.panes[q].size >= MinPaneSize
    BY <1>1, <2>1, ResizeSettled DEF PaneSet
  <2>. HIDE DEF v, j
  <2>3. {m \in PaneSet : Size(m)' # Size(m)} = {j, k}
    BY <2>1, <2>2 DEF Size, PaneSet
  <2>4. \A m \in {j, k} : Size(m)' < Size(m) => Size(m)' >= MinPaneSize
    BY <2>1, <2>2 DEF Size
  <2>5. Adjacent(window.panes, j, k) /\ j \in PaneSet
    BY <2>2 DEF Adjacent, PaneSet
  <2>6. SizesInv'
    BY <1>1, <2>1, <2>2 DEF SizesInv
  <2>. QED
    BY <2>3, <2>4, <2>5, <2>6
<1>. QED
  BY <1>2, <1>3, <1>4, <1>5 DEF Next

\* The invariant holds in every reachable state.
THEOREM SizesInvariant == Spec => []SizesInv
<1>1. SizesInv /\ [Next]_vars => SizesInv'
  BY SizesStep
<1>. QED
  BY <1>1, SizesInit, PTL DEF Spec

\* Layouts, indexes and sizes are of their types, and no pane is larger than
\* its window (window.rs).
THEOREM SizesTyped == Spec => []SizesTypeOK
<1>1. SizesInv => SizesTypeOK
  BY SizesImply
<1>. QED
  BY <1>1, SizesInvariant, PTL

\* The panes fill the window exactly, after any sequence of creations, splits,
\* removals and resizes of any number of panes (Window::rebalance_panes,
\* Window::resize_pane).
THEOREM SizesAlwaysFillWindow == Spec => []SizesFillWindow
<1>1. SizesInv => SizesFillWindow
  BY SizesImply
<1>. QED
  BY <1>1, SizesInvariant, PTL

\* A resize moves space between two neighbours only, and shrinks none of them
\* below the minimum (Window::resize_pane).
THEOREM ResizesMoveOneBorder == Spec => ResizeMovesOneBorder
<1>. DEFINE OneBorder ==
       PaneSet' = PaneSet =>
         LET moved == {k \in PaneSet : Size(k)' # Size(k)}
         IN  \E j, k \in PaneSet :
               /\ moved = {j, k} /\ Adjacent(window.panes, j, k)
               /\ \A m \in moved : Size(m)' < Size(m) => Size(m)' >= MinPaneSize
<1>1. SizesInv /\ [Next]_vars => [OneBorder]_vars
  BY SizesStep
<1>2. Spec => [][OneBorder]_vars
  BY <1>1, SizesInvariant, PTL DEF Spec
<1>. QED
  BY <1>2 DEF ResizeMovesOneBorder
===============================================================================
