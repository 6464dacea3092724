--------------------------- MODULE SessionTreeProofs ---------------------------
(***************************************************************************)
(* TypeOK, NamesUnique, IndexesUnique, ActiveIsLive, IdsLiveOnce,          *)
(* IndexBelowId, LayoutMatchesPanes, SizesFillWindow and IdsNeverReused of *)
(* SessionTree, for any bounds, names and deltas.                          *)
(*                                                                         *)
(* The invariant is a conjunction of facts about single windows, about     *)
(* single sessions and about the whole, and so is the proof: a lemma for   *)
(* what each operation makes of a window or a session, one lemma each that *)
(* puts a changed window back into its session and a changed session back  *)
(* into the tree, and then one short step per action.                      *)
(***************************************************************************)
EXTENDS SessionTree, WindowLayoutProofs

\* A map of panes or windows whose members can be told apart.
Addressable(map) ==
  /\ NamesDistinct(map)
  /\ IndexesDistinct(map)
  /\ \A k \in DOMAIN map : map[k].index < k

WindowShaped(window, pb) ==
  /\ WindowTyped(window, pb)
  /\ Addressable(window.panes)
  /\ window.active \in DOMAIN window.panes
  /\ window.layout = "single" <=> Cardinality(DOMAIN window.panes) <= 1

WindowOK(window, pb) == WindowShaped(window, pb) /\ FillsWindow(window.panes)

PanesApart(windows) ==
  \A w, v \in DOMAIN windows :
    w # v => DOMAIN windows[w].panes \cap DOMAIN windows[v].panes = {}

SessionOK(session, wb, pb) ==
  /\ SessionTyped(session, wb, pb)
  /\ Addressable(session.windows)
  /\ session.active \in DOMAIN session.windows
  /\ \A w \in DOMAIN session.windows : WindowOK(session.windows[w], pb)
  /\ PanesApart(session.windows)

SessionsApart(tree) ==
  \A s, t \in DOMAIN tree : s # t =>
    /\ DOMAIN tree[s].windows \cap DOMAIN tree[t].windows = {}
    /\ \A w \in DOMAIN tree[s].windows, v \in DOMAIN tree[t].windows :
         DOMAIN tree[s].windows[w].panes \cap
         DOMAIN tree[t].windows[v].panes = {}

TreeOK(tree, sb, wb, pb) ==
  /\ tree \in [DOMAIN tree -> Range(tree)]
  /\ DOMAIN tree \subseteq 1 .. sb - 1
  /\ \A s \in DOMAIN tree : SessionOK(tree[s], wb, pb)
  /\ NamesDistinct(tree)
  /\ SessionsApart(tree)

IInv ==
  /\ nextSession \in Nat \ {0}
  /\ nextWindow \in Nat \ {0}
  /\ nextPane \in Nat \ {0}
  /\ reply \in {"none", "ok", "err"}
  /\ TreeOK(sessions, nextSession, nextWindow, nextPane)

\* What tree has that old has not is what the counters give out next.
GainsOnly(tree, old, sb, wb, pb) ==
  /\ DOMAIN tree \subseteq DOMAIN old \cup {sb}
  /\ \A s \in DOMAIN tree : \A w \in DOMAIN tree[s].windows :
       /\ \/ w = wb
          \/ s \in DOMAIN old /\ w \in DOMAIN old[s].windows
       /\ \A p \in DOMAIN tree[s].windows[w].panes :
            \/ p = pb
            \/ /\ s \in DOMAIN old /\ w \in DOMAIN old[s].windows
               /\ p \in DOMAIN old[s].windows[w].panes

\* A step that keeps the invariant, and whose new ids are new.
StepOK ==
  /\ IInv'
  /\ nextSession' \in {nextSession, nextSession + 1}
  /\ nextWindow' \in {nextWindow, nextWindow + 1}
  /\ nextPane' \in {nextPane, nextPane + 1}
  /\ GainsOnly(sessions', sessions, nextSession, nextWindow, nextPane)

-------------------------------------------------------------------------------
\* The invariant implies the properties the runs check.
LEMMA InvImplies ==
  ASSUME IInv
  PROVE  /\ TypeOK
         /\ NamesUnique /\ IndexesUnique /\ ActiveIsLive /\ IdsLiveOnce
         /\ IndexBelowId /\ LayoutMatchesPanes /\ SizesFillWindow
<1>. USE DEF IInv, TreeOK
<1>1. TypeOK
  BY DEF TypeOK, SessionOK, SessionIds
<1>2. NamesUnique /\ IndexesUnique
  BY DEF NamesUnique, IndexesUnique, SessionOK, WindowOK, WindowShaped, Addressable,
         SessionIds, WindowsOf
<1>3. ActiveIsLive /\ LayoutMatchesPanes /\ IndexBelowId
  BY DEF ActiveIsLive, LayoutMatchesPanes, IndexBelowId, SessionOK, WindowOK, WindowShaped,
         Addressable, SessionIds, WindowsOf, PanesOf
<1>4. IdsLiveOnce
  BY DEF IdsLiveOnce, SessionsApart, SessionOK, PanesApart, SessionIds,
         WindowsOf, PanesOf
<1>5. SizesFillWindow
  BY DEF SizesFillWindow, SessionOK, WindowOK, SessionIds, WindowsOf
<1>. QED
  BY <1>1, <1>2, <1>3, <1>4, <1>5

-------------------------------------------------------------------------------
(* Windows. *)

\* A map of ids below a counter is finite, so NextIndex and FirstKey are defined.
LEMMA PanesFinite ==
  ASSUME NEW panes, NEW pb \in Nat \ {0}, DOMAIN panes \subseteq 1 .. pb - 1
  PROVE  /\ IsFiniteSet(DOMAIN panes)
         /\ Cardinality(DOMAIN panes) \in Nat
         /\ DOMAIN panes # {} => Cardinality(DOMAIN panes) # 0
<1>1. IsFiniteSet(1 .. pb - 1)
  BY FS_Interval
<1>2. IsFiniteSet(DOMAIN panes)
  BY <1>1, FS_Subset
<1>. QED
  BY <1>2, FS_CardinalityType, FS_EmptySet

\* A name is as good as any other in a place of its own.
LEMMA NamesTyped ==
  /\ \A n \in Nat : <<"session", n>> \in Name /\ <<"window", n>> \in Name
                    /\ <<"pane", n>> \in Name
  /\ \A name \in UserNames \cup {Unnamed}, default \in Name :
       Given(name, default) \in Name
<1>2. \A n \in Nat : <<"session", n>> \in Name /\ <<"window", n>> \in Name
                     /\ <<"pane", n>> \in Name
  BY TreeAssumption DEF TreeAssumption, Name
<1>3. \A name \in UserNames \cup {Unnamed}, default \in Name :
        Given(name, default) \in Name
  BY TreeAssumption DEF TreeAssumption, Given
<1>. QED
  BY <1>2, <1>3

\* Rebalancing changes sizes only, and fills the window.
LEMMA RebalanceSizes ==
  ASSUME NEW pb \in Nat \ {0}, NEW window, WindowTyped(window, pb),
         DOMAIN window.panes # {}, IndexesDistinct(window.panes)
  PROVE  LET r == Rebalance(window)
         IN  /\ r = [window EXCEPT !.panes = r.panes]
             /\ WindowTyped(r, pb)
             /\ DOMAIN r.panes = DOMAIN window.panes
             /\ \A k \in DOMAIN window.panes :
                  /\ r.panes[k].index = window.panes[k].index
                  /\ r.panes[k].name = window.panes[k].name
             /\ FillsWindow(r.panes)
<1>. DEFINE count == Cardinality(DOMAIN window.panes)
            share(k) == Full \div count +
              (IF Position(window.panes, k) < Full % count THEN 1 ELSE 0)
            panes == [k \in DOMAIN window.panes |->
                        [window.panes[k] EXCEPT !.size = share(k)]]
<1>1. count \in Nat \ {0}
  BY PanesFinite DEF WindowTyped, PanesTyped
<1>2. Full \div count \in Nat
  <2>. HIDE DEF count
  <2>. QED  BY <1>1 DEF Full
<1>3. \A k \in DOMAIN window.panes : share(k) \in Nat
  <2>. HIDE DEF count
  <2>. QED  BY <1>2
<1>4. Rebalance(window) = [window EXCEPT !.panes = panes]
  BY DEF Rebalance
<1>. HIDE DEF share
<1>5. panes \in [DOMAIN window.panes -> Pane]
  BY <1>3 DEF WindowTyped, PanesTyped, Pane
<1>6. \A k \in DOMAIN window.panes :
        panes[k].index = window.panes[k].index /\
        panes[k].name = window.panes[k].name
  BY DEF WindowTyped, PanesTyped, Pane
<1>. HIDE DEF panes
<1>7. FillsWindow(Rebalance(window).panes)
  <2>1. IsFiniteSet(DOMAIN window.panes)
    BY PanesFinite DEF WindowTyped, PanesTyped
  <2>2. /\ "panes" \in DOMAIN window /\ DOMAIN window.panes \subseteq Nat
        /\ \A k \in DOMAIN window.panes : /\ "size" \in DOMAIN window.panes[k]
                                         /\ window.panes[k].index \in Nat
    BY DEF WindowTyped, PanesTyped, Pane
  <2>. QED
    BY <2>1, <2>2, RebalanceFills DEF IndexesDistinct
<1>. QED
  BY <1>4, <1>5, <1>6, <1>7 DEF WindowTyped, PanesTyped

\* SyncLayout and SetSplitLayout settle the layout and nothing else.
LEMMA LayoutSettled ==
  ASSUME NEW pb \in Nat \ {0}, NEW window, WindowTyped(window, pb),
         NEW split \in SplitLayouts,
         NEW w \in {SyncLayout(window), SetSplitLayout(window, split)}
  PROVE  /\ w = [window EXCEPT !.layout = w.layout]
         /\ WindowTyped(w, pb)
         /\ w.layout = "single" <=> Cardinality(DOMAIN w.panes) <= 1
BY DEF SyncLayout, SetSplitLayout, WindowTyped, Layouts, SplitLayouts

\* A window with room for more ids is still one.
LEMMA WindowMonotone ==
  ASSUME NEW pb \in Nat \ {0}, NEW window, WindowOK(window, pb)
  PROVE  WindowOK(window, pb + 1)
BY DEF WindowOK, WindowShaped, WindowTyped, PanesTyped

\* A window as create_session and create_window make it, with its first pane.
LEMMA NewWindowOK ==
  ASSUME NEW name \in Name, NEW index \in Nat, NEW pane \in Nat \ {0}
  PROVE  LET w == NewWindow(name, index, pane)
         IN  /\ WindowOK(w, pane + 1)
             /\ w.name = name /\ w.index = index /\ DOMAIN w.panes = {pane}
<1>. DEFINE w == NewWindow(name, index, pane)
<1>1. w.panes = [k \in {pane} |-> NewPane(<<"pane", pane>>, 0)]
  BY DEF NewWindow
<1>2. NewPane(<<"pane", pane>>, 0) \in Pane
  BY NamesTyped DEF NewPane, Pane, Full
<1>3. WindowTyped(w, pane + 1)
  BY <1>2 DEF NewWindow, WindowTyped, PanesTyped, Layouts
<1>4. Addressable(w.panes)
  BY <1>1 DEF Addressable, NamesDistinct, IndexesDistinct, NewPane
<1>5. Cardinality(DOMAIN w.panes) <= 1
  BY <1>1, FS_Singleton
<1>6. FillsWindow(w.panes)
  <2>. DEFINE f == PaneSizes(w.panes)
  <2>1. DOMAIN f = {pane} /\ f[pane] = Full
    BY <1>1 DEF PaneSizes, NewPane
  <2>2. IsFiniteSet({pane}) /\ {pane} \ {pane} = {}
    BY FS_Singleton
  <2>3. SumFunctionOnSet(f, {pane}) = f[pane] + SumFunctionOnSet(f, {})
    <3>. HIDE DEF f
    <3>1. \A x \in {pane} : f[x] \in Int
      BY <2>1 DEF Full
    <3>. QED
      BY <2>2, <3>1, SumRemove
  <2>. QED
    BY <2>1, <2>3, SumEmpty DEF FillsWindow, SumFunction, Full
<1>. HIDE DEF w
<1>7. WindowShaped(w, pane + 1) /\ w.name = name /\ w.index = index
  BY <1>1, <1>3, <1>4, <1>5 DEF NewWindow, WindowShaped, w
<1>. QED
  BY <1>1, <1>6, <1>7 DEF WindowOK, w

\* A new pane in a window: its name was free, its index is new.
LEMMA WithPaneOK ==
  ASSUME NEW pb \in Nat \ {0}, NEW window, WindowOK(window, pb),
         NEW name \in Name, ~NameTaken(window.panes, name),
         NEW layout \in SplitLayouts \cup {"none"}
  PROVE  LET w == WithPane(window, pb, name, layout)
         IN  /\ WindowOK(w, pb + 1)
             /\ w.name = window.name /\ w.index = window.index
             /\ DOMAIN w.panes = DOMAIN window.panes \cup {pb}
<1>. DEFINE new == NewPane(name, NextIndex(window.panes))
            grown == Insert(window.panes, pb, new)
            inserted == [window EXCEPT !.active = pb, !.panes = grown]
            filled == Rebalance(inserted)
            w == WithPane(window, pb, name, layout)
<1>1. /\ NextIndex(window.panes) \in Nat /\ NextIndex(window.panes) < pb
      /\ \A k \in DOMAIN window.panes :
           window.panes[k].index < NextIndex(window.panes)
  BY NextIndexFresh DEF WindowOK, WindowShaped, WindowTyped, PanesTyped, Addressable, Pane
<1>2. new \in Pane /\ new.index = NextIndex(window.panes) /\ new.name = name
  BY <1>1 DEF NewPane, Pane, Full
<1>. HIDE DEF new
<1>3. /\ DOMAIN grown = DOMAIN window.panes \cup {pb}
      /\ grown \in [DOMAIN grown -> Pane]
      /\ grown[pb] = new
      /\ pb \notin DOMAIN window.panes
      /\ \A k \in DOMAIN window.panes : grown[k] = window.panes[k]
  BY <1>2 DEF Insert, WindowOK, WindowShaped, WindowTyped, PanesTyped
<1>. HIDE DEF grown
<1>4. Addressable(grown)
  BY <1>1, <1>2, <1>3
  DEF Addressable, NamesDistinct, IndexesDistinct, WindowOK, WindowShaped, WindowTyped,
      PanesTyped, Pane, NameTaken
<1>5. /\ WindowTyped(inserted, pb + 1) /\ inserted.panes = grown
      /\ inserted.active = pb /\ inserted.name = window.name
      /\ inserted.index = window.index
  <2>1. window \in [index : Nat, name : Name, layout : Layouts, active : Nat,
                    panes : {window.panes}]
    BY DEF WindowOK, WindowShaped, WindowTyped
  <2>2. inserted \in [index : Nat, name : Name, layout : Layouts,
                      active : Nat, panes : {grown}]
    BY <2>1
  <2>3. DOMAIN grown \subseteq 1 .. (pb + 1) - 1
    BY <1>3 DEF WindowOK, WindowShaped, WindowTyped, PanesTyped
  <2>. QED
    BY <1>3, <2>1, <2>2, <2>3 DEF WindowTyped, PanesTyped
<1>. HIDE DEF inserted
<1>6. /\ WindowTyped(filled, pb + 1)
      /\ DOMAIN filled.panes = DOMAIN grown
      /\ filled.active = pb /\ filled.name = window.name
      /\ filled.index = window.index
      /\ \A k \in DOMAIN grown : /\ filled.panes[k].index = grown[k].index
                                 /\ filled.panes[k].name = grown[k].name
      /\ FillsWindow(filled.panes)
  <2>1. /\ pb + 1 \in Nat \ {0} /\ DOMAIN inserted.panes # {}
        /\ IndexesDistinct(inserted.panes)
    BY <1>3, <1>4, <1>5 DEF Addressable
  <2>2. /\ filled = [inserted EXCEPT !.panes = filled.panes]
        /\ WindowTyped(filled, pb + 1)
        /\ DOMAIN filled.panes = DOMAIN inserted.panes
        /\ \A k \in DOMAIN inserted.panes :
             /\ filled.panes[k].index = inserted.panes[k].index
             /\ filled.panes[k].name = inserted.panes[k].name
        /\ FillsWindow(filled.panes)
    BY <1>5, <2>1, RebalanceSizes
  <2>. QED
    BY <1>5, <2>2 DEF WindowTyped
<1>7. w = IF layout = "none" THEN SyncLayout(filled)
          ELSE SetSplitLayout(filled, layout)
  BY DEF WithPane, inserted, grown, new
<1>. HIDE DEF filled, w
<1>8. /\ WindowTyped(w, pb + 1)
      /\ w.panes = filled.panes /\ w.active = filled.active
      /\ w.name = filled.name /\ w.index = filled.index
      /\ w.layout = "single" <=> Cardinality(DOMAIN w.panes) <= 1
  <2>1. CASE layout = "none"
    BY <1>6, <1>7, <2>1 DEF SyncLayout, WindowTyped, Layouts
  <2>2. CASE layout \in SplitLayouts
    BY <1>6, <1>7, <2>2 DEF SetSplitLayout, WindowTyped, Layouts, SplitLayouts
  <2>. QED
    BY <2>1, <2>2
<1>9. Addressable(w.panes)
  BY <1>3, <1>4, <1>6, <1>8 DEF Addressable, NamesDistinct, IndexesDistinct
<1>. QED
  BY <1>3, <1>6, <1>8, <1>9 DEF WindowOK, WindowShaped, w

\* The commands that leave a window its panes: its place and the ids, names
\* and indexes of its panes stay as they are.
LEMMA SyncedOK ==
  ASSUME NEW pb \in Nat \ {0}, NEW window, WindowOK(window, pb),
         NEW pane \in DOMAIN window.panes
  PROVE  LET synced == SyncLayout(window)
             selected == [synced EXCEPT !.active = pane]
         IN  /\ WindowOK(synced, pb) /\ WindowOK(selected, pb)
             /\ synced.name = window.name /\ synced.index = window.index
             /\ selected.name = window.name /\ selected.index = window.index
             /\ synced.panes = window.panes /\ selected.panes = window.panes
<1>. DEFINE synced == SyncLayout(window)
            selected == [synced EXCEPT !.active = pane]
<1>1. /\ window \in [index : Nat, name : Name, layout : Layouts, active : Nat,
                     panes : {window.panes}]
      /\ PanesTyped(window.panes, pb) /\ pane \in Nat
  BY DEF WindowOK, WindowShaped, WindowTyped, PanesTyped
<1>2. /\ synced = [window EXCEPT !.layout = synced.layout]
      /\ synced.layout \in Layouts
      /\ synced.layout = "single" <=> Cardinality(DOMAIN window.panes) <= 1
  BY <1>1 DEF SyncLayout, Layouts
<1>. HIDE DEF synced
<1>3. /\ synced \in [index : Nat, name : Name, layout : Layouts, active : Nat,
                     panes : {window.panes}]
      /\ synced.name = window.name /\ synced.index = window.index
      /\ synced.panes = window.panes /\ synced.active = window.active
  BY <1>1, <1>2
<1>4. /\ selected \in [index : Nat, name : Name, layout : Layouts, active : Nat,
                       panes : {window.panes}]
      /\ selected.name = window.name /\ selected.index = window.index
      /\ selected.panes = window.panes /\ selected.active = pane
      /\ selected.layout = synced.layout
  BY <1>1, <1>3
<1>. HIDE DEF selected
<1>5. WindowOK(synced, pb) /\ WindowOK(selected, pb)
  BY <1>1, <1>2, <1>3, <1>4 DEF WindowOK, WindowShaped, WindowTyped
<1>. QED
  BY <1>3, <1>4, <1>5 DEF synced, selected

\* rename_window changes the name of a window and nothing else.
LEMMA RenamedWindowOK ==
  ASSUME NEW pb \in Nat \ {0}, NEW window, WindowOK(window, pb),
         NEW name \in Name
  PROVE  LET w == [window EXCEPT !.name = name]
         IN  /\ WindowOK(w, pb)
             /\ w.name = name /\ w.index = window.index
             /\ w.panes = window.panes
BY DEF WindowOK, WindowShaped, WindowTyped, PanesTyped

\* A pane is changed in place, and its name, if that changes, is free.
LEMMA ChangedPaneShaped ==
  ASSUME NEW pb \in Nat \ {0}, NEW window, WindowShaped(window, pb),
         NEW p \in DOMAIN window.panes, NEW pane \in Pane,
         pane.index = window.panes[p].index,
         \A q \in DOMAIN window.panes \ {p} : window.panes[q].name # pane.name
  PROVE  LET w == [window EXCEPT !.panes[p] = pane]
         IN  /\ WindowShaped(w, pb)
             /\ w.name = window.name /\ w.index = window.index
             /\ DOMAIN w.panes = DOMAIN window.panes
             /\ w.panes = [window.panes EXCEPT ![p] = pane]
<1>. DEFINE w == [window EXCEPT !.panes[p] = pane]
            panes == [window.panes EXCEPT ![p] = pane]
<1>1. /\ window.panes \in [DOMAIN window.panes -> Pane]
      /\ DOMAIN window.panes \subseteq 1 .. pb - 1
  BY DEF WindowShaped, WindowTyped, PanesTyped
<1>2. /\ panes \in [DOMAIN window.panes -> Pane]
      /\ panes[p] = pane
      /\ \A q \in DOMAIN window.panes \ {p} : panes[q] = window.panes[q]
  BY <1>1
<1>3. /\ w \in [index : Nat, name : Name, layout : Layouts, active : Nat,
                panes : {panes}]
      /\ w.panes = panes /\ w.active = window.active
      /\ w.layout = window.layout
      /\ w.name = window.name /\ w.index = window.index
  BY DEF WindowShaped, WindowTyped
<1>. HIDE DEF panes, w
<1>4. Addressable(panes)
  <2>1. NamesDistinct(panes)
    BY <1>1, <1>2 DEF WindowShaped, Addressable, NamesDistinct
  <2>2. IndexesDistinct(panes)
    BY <1>1, <1>2 DEF WindowShaped, Addressable, IndexesDistinct
  <2>3. \A k \in DOMAIN panes : panes[k].index < k
    BY <1>1, <1>2 DEF WindowShaped, Addressable
  <2>. QED
    BY <2>1, <2>2, <2>3 DEF Addressable
<1>5. WindowShaped(w, pb)
  BY <1>1, <1>2, <1>3, <1>4 DEF WindowShaped, WindowTyped, PanesTyped
<1>. QED
  BY <1>1, <1>2, <1>3, <1>5 DEF w, panes

\* ... and if it keeps its size the window stays filled.
LEMMA ChangedPaneOK ==
  ASSUME NEW pb \in Nat \ {0}, NEW window, WindowOK(window, pb),
         NEW p \in DOMAIN window.panes, NEW pane \in Pane,
         pane.index = window.panes[p].index, pane.size = window.panes[p].size,
         \A q \in DOMAIN window.panes \ {p} : window.panes[q].name # pane.name
  PROVE  LET w == [window EXCEPT !.panes[p] = pane]
         IN  /\ WindowOK(w, pb)
             /\ w.name = window.name /\ w.index = window.index
             /\ DOMAIN w.panes = DOMAIN window.panes
<1>. DEFINE w == [window EXCEPT !.panes[p] = pane]
<1>1. /\ WindowShaped(w, pb)
      /\ w.name = window.name /\ w.index = window.index
      /\ DOMAIN w.panes = DOMAIN window.panes
      /\ w.panes = [window.panes EXCEPT ![p] = pane]
  BY ChangedPaneShaped DEF WindowOK
<1>. HIDE DEF w
<1>2. \A k \in DOMAIN window.panes : w.panes[k].size = window.panes[k].size
  BY <1>1
<1>3. FillsWindow(w.panes)
  BY <1>1, <1>2, SameSizesFill DEF WindowOK
<1>. QED
  BY <1>1, <1>3 DEF WindowOK, w

\* A resize moves what the clamp leaves of delta between two panes of the
\* window, and neither of them gets a negative size.
LEMMA ResizedOK ==
  ASSUME NEW pb \in Nat \ {0}, NEW window, WindowOK(window, pb),
         NEW k \in DOMAIN window.panes, NEW delta \in Int,
         CanResize(window, k, delta)
  PROVE  LET w == Resize(window, k, delta)
         IN  /\ WindowOK(w, pb)
             /\ w.name = window.name /\ w.index = window.index
             /\ DOMAIN w.panes = DOMAIN window.panes
<1>. DEFINE j == Partner(window.panes, k)
            d == Clamped(window.panes, k, delta)
            w == Resize(window, k, delta)
<1>1. /\ window.panes \in [DOMAIN window.panes -> Pane]
      /\ DOMAIN window.panes \subseteq 1 .. pb - 1
  BY DEF WindowOK, WindowShaped, WindowTyped, PanesTyped
<1>2. DOMAIN window.panes # {k}
  <2>1. Cardinality({k}) = 1
    BY FS_Singleton
  <2>. QED
    BY <2>1 DEF CanResize
<1>3. j \in DOMAIN window.panes \ {k}
  <2>1. /\ DOMAIN window.panes \subseteq Nat /\ pb \in Nat
        /\ \A q \in DOMAIN window.panes :
             window.panes[q].index \in Nat /\ window.panes[q].index <= pb
    BY <1>1 DEF WindowOK, WindowShaped, Addressable, Pane
  <2>2. \A i, q \in DOMAIN window.panes :
          i # q => window.panes[i].index # window.panes[q].index
    BY DEF WindowOK, WindowShaped, Addressable, IndexesDistinct
  <2>. QED
    BY <1>2, <2>1, <2>2, PartnerIsPane
<1>. HIDE DEF j
<1>4. CASE delta = 0
  BY <1>4 DEF Resize
<1>5. CASE delta # 0
  <2>2. window.panes[k] \in Pane /\ window.panes[j] \in Pane
    BY <1>1, <1>3
  <2>3. d \in Int /\ window.panes[k].size + d \in Nat
                  /\ window.panes[j].size - d \in Nat
    <3>1. window.panes[k].size \in Nat /\ window.panes[j].size \in Nat
      BY <2>2 DEF Pane
    <3>. QED
      BY <3>1, ClampedFits DEF j
  <2>. DEFINE grown == [window.panes[k] EXCEPT !.size = @ + d]
              paid == [window.panes[j] EXCEPT !.size = @ - d]
              v == [window EXCEPT !.panes[k] = grown]
  <2>. HIDE DEF d
  <2>4. /\ grown \in Pane /\ grown.index = window.panes[k].index
        /\ grown.name = window.panes[k].name
        /\ paid \in Pane /\ paid.index = window.panes[j].index
        /\ paid.name = window.panes[j].name
    BY <2>2, <2>3 DEF Pane
  <2>. HIDE DEF grown, paid
  <2>5. /\ WindowShaped(v, pb) /\ v.name = window.name /\ v.index = window.index
        /\ DOMAIN v.panes = DOMAIN window.panes
        /\ v.panes = [window.panes EXCEPT ![k] = grown]
    <3>1. \A q \in DOMAIN window.panes \ {k} :
            window.panes[q].name # grown.name
      BY <2>4 DEF WindowOK, WindowShaped, Addressable, NamesDistinct
    <3>. QED
      BY <2>4, <3>1, ChangedPaneShaped DEF WindowOK
  <2>6. /\ v.panes[j] = window.panes[j] /\ v.panes[k] = grown
        /\ \A q \in DOMAIN v.panes \ {k} : v.panes[q] = window.panes[q]
    BY <1>1, <1>3, <2>5
  <2>. HIDE DEF v
  <2>7. \A q \in DOMAIN v.panes \ {j} : v.panes[q].name # paid.name
    BY <1>3, <2>4, <2>5, <2>6 DEF WindowOK, WindowShaped, Addressable, NamesDistinct
  <2>. DEFINE u == [v EXCEPT !.panes[j] = paid]
  <2>8. /\ WindowShaped(u, pb) /\ u.name = v.name /\ u.index = v.index
        /\ DOMAIN u.panes = DOMAIN v.panes
        /\ u.panes = [v.panes EXCEPT ![j] = paid]
    <3>1. j \in DOMAIN v.panes /\ paid.index = v.panes[j].index
      BY <1>3, <2>4, <2>5, <2>6
    <3>. QED
      BY <2>4, <2>5, <2>7, <3>1, ChangedPaneShaped, SMTT(30)
  <2>. HIDE DEF u
  <2>9. w = u
    BY <1>5, <1>3 DEF Resize, d, j, v, u, grown, paid
  <2>10. FillsWindow(u.panes)
    <3>1. /\ grown.size = window.panes[k].size + d
          /\ paid.size = window.panes[j].size - d
      BY <2>2 DEF grown, paid, Pane
    <3>2. /\ DOMAIN u.panes = DOMAIN window.panes
          /\ u.panes[k].size = window.panes[k].size + d
          /\ u.panes[j].size = window.panes[j].size - d
          /\ \A q \in DOMAIN window.panes \ {k, j} :
               u.panes[q].size = window.panes[q].size
      BY <1>3, <2>5, <2>6, <2>8, <3>1
    <3>3. /\ IsFiniteSet(DOMAIN window.panes)
          /\ \A q \in DOMAIN window.panes : window.panes[q].size \in Int
      BY <1>1, PanesFinite DEF Pane
    <3>. HIDE DEF d
    <3>. QED
      BY <1>3, <2>3, <3>2, <3>3, ResizeFills DEF WindowOK
  <2>. QED
    BY <2>5, <2>8, <2>9, <2>10 DEF WindowOK
<1>. QED
  BY <1>4, <1>5

\* A pane is taken out of a window that has another one.
LEMMA WithoutPaneOK ==
  ASSUME NEW pb \in Nat \ {0}, NEW window, WindowOK(window, pb),
         NEW p \in DOMAIN window.panes, DOMAIN window.panes # {p}
  PROVE  LET w == WithoutPane(window, p)
         IN  /\ WindowOK(w, pb)
             /\ w.name = window.name /\ w.index = window.index
             /\ DOMAIN w.panes = DOMAIN window.panes \ {p}
<1>. DEFINE left == Remove(window.panes, p)
            shrunk == [window EXCEPT !.panes = left]
            filled == Rebalance(shrunk)
            rest == SyncLayout(filled)
            w == WithoutPane(window, p)
<1>1. /\ window \in [index : Nat, name : Name, layout : Layouts, active : Nat,
                     panes : {window.panes}]
      /\ PanesTyped(window.panes, pb)
  BY DEF WindowOK, WindowShaped, WindowTyped
<1>2. /\ DOMAIN left = DOMAIN window.panes \ {p} /\ DOMAIN left # {}
      /\ PanesTyped(left, pb)
      /\ \A k \in DOMAIN left : left[k] = window.panes[k]
  BY <1>1 DEF Remove, Restrict, PanesTyped
<1>. HIDE DEF left
<1>3. Addressable(left)
  BY <1>2 DEF WindowOK, WindowShaped, Addressable, NamesDistinct, IndexesDistinct
<1>4. /\ WindowTyped(shrunk, pb) /\ shrunk.panes = left
      /\ shrunk.active = window.active /\ shrunk.name = window.name
      /\ shrunk.index = window.index
  BY <1>1, <1>2 DEF WindowTyped
<1>. HIDE DEF shrunk
<1>5. /\ filled = [shrunk EXCEPT !.panes = filled.panes]
      /\ WindowTyped(filled, pb)
      /\ DOMAIN filled.panes = DOMAIN left
      /\ \A k \in DOMAIN left : /\ filled.panes[k].index = left[k].index
                                /\ filled.panes[k].name = left[k].name
      /\ FillsWindow(filled.panes)
  BY <1>2, <1>3, <1>4, RebalanceSizes DEF Addressable
<1>6. /\ filled.active = window.active /\ filled.name = window.name
      /\ filled.index = window.index
  BY <1>4, <1>5 DEF WindowTyped
<1>. HIDE DEF filled
<1>7. /\ WindowTyped(rest, pb) /\ rest.panes = filled.panes
      /\ rest.active = window.active /\ rest.name = window.name
      /\ rest.index = window.index
      /\ rest.layout = "single" <=> Cardinality(DOMAIN rest.panes) <= 1
  BY <1>5, <1>6 DEF SyncLayout, WindowTyped, Layouts
<1>8. Addressable(rest.panes) /\ DOMAIN rest.panes = DOMAIN left
  BY <1>3, <1>5, <1>7 DEF Addressable, NamesDistinct, IndexesDistinct
<1>9. /\ FirstKey(rest.panes) \in DOMAIN rest.panes
      /\ DOMAIN rest.panes \subseteq Nat
  BY <1>2, <1>7, <1>8, FirstKeyLive DEF WindowTyped, PanesTyped
<1>10. w = [rest EXCEPT !.active =
              IF @ = p THEN FirstKey(rest.panes) ELSE @]
  BY DEF WithoutPane, rest, filled, shrunk, left
<1>11. (IF rest.active = p THEN FirstKey(rest.panes) ELSE rest.active)
         \in DOMAIN rest.panes
  BY <1>2, <1>7, <1>8, <1>9 DEF WindowOK, WindowShaped
<1>. HIDE DEF rest, w
<1>12. /\ WindowTyped(w, pb) /\ w.panes = rest.panes
       /\ w.active \in DOMAIN rest.panes /\ w.name = rest.name
       /\ w.index = rest.index /\ w.layout = rest.layout
  BY <1>7, <1>9, <1>10, <1>11 DEF WindowTyped
<1>. QED
  BY <1>2, <1>5, <1>7, <1>8, <1>12 DEF WindowOK, WindowShaped, w

-------------------------------------------------------------------------------
(* Sessions. *)

\* A session with room for more ids is still one.
LEMMA SessionMonotone ==
  ASSUME NEW wb \in Nat \ {0}, NEW pb \in Nat \ {0}, NEW session,
         SessionOK(session, wb, pb)
  PROVE  /\ SessionOK(session, wb + 1, pb)
         /\ SessionOK(session, wb, pb + 1)
BY WindowMonotone DEF SessionOK, SessionTyped, WindowOK, WindowShaped

\* window may take the place of windows[w]: it has the index, a free name,
\* and no pane that another window may have.
FitsIn(window, windows, w, pb, bound) ==
  /\ WindowOK(window, bound)
  /\ window.index = windows[w].index
  /\ \A v \in DOMAIN windows \ {w} : windows[v].name # window.name
  /\ DOMAIN window.panes \subseteq DOMAIN windows[w].panes \cup pb .. bound - 1

PutWindow(session, w, window) == [session EXCEPT !.windows[w] = window]

\* A changed window that fits goes back into its session.
LEMMA ChangedWindowOK ==
  ASSUME NEW wb \in Nat \ {0}, NEW pb \in Nat \ {0}, NEW bound \in {pb, pb + 1},
         NEW session, SessionOK(session, wb, pb),
         NEW w \in DOMAIN session.windows, NEW window,
         FitsIn(window, session.windows, w, pb, bound)
  PROVE  LET s == PutWindow(session, w, window)
         IN  /\ SessionOK(s, wb, bound)
             /\ s.name = session.name /\ s.active = session.active
             /\ DOMAIN s.windows = DOMAIN session.windows
             /\ s.windows[w] = window
             /\ \A v \in DOMAIN session.windows \ {w} :
                  s.windows[v] = session.windows[v]
<1>. DEFINE s == PutWindow(session, w, window)
            windows == [session.windows EXCEPT ![w] = window]
<1>1. /\ session \in [name : Name, active : Nat, windows : {session.windows}]
      /\ session.windows \in [DOMAIN session.windows -> Range(session.windows)]
      /\ DOMAIN session.windows \subseteq 1 .. wb - 1
  BY DEF SessionOK, SessionTyped
<1>2. /\ DOMAIN windows = DOMAIN session.windows
      /\ windows \in [DOMAIN windows -> Range(windows)]
      /\ windows[w] = window
      /\ \A v \in DOMAIN windows \ {w} : windows[v] = session.windows[v]
  BY <1>1 DEF Range
<1>3. /\ s \in [name : Name, active : Nat, windows : {windows}]
      /\ s.windows = windows
      /\ s.name = session.name /\ s.active = session.active
  BY <1>1 DEF PutWindow
<1>. HIDE DEF windows, s
<1>4. Addressable(windows)
  BY <1>1, <1>2 DEF FitsIn, SessionOK, Addressable, NamesDistinct, IndexesDistinct
<1>5. \A v \in DOMAIN windows : WindowOK(windows[v], bound)
  BY <1>2, WindowMonotone DEF FitsIn, SessionOK
<1>6. \A v \in DOMAIN session.windows :
        DOMAIN session.windows[v].panes \subseteq 1 .. pb - 1
  BY DEF SessionOK, WindowOK, WindowShaped, WindowTyped, PanesTyped
<1>7. PanesApart(windows)
  BY <1>2, <1>6 DEF FitsIn, SessionOK, PanesApart
<1>8. SessionTyped(s, wb, bound)
  BY <1>1, <1>2, <1>3, <1>5 DEF SessionTyped, WindowOK, WindowShaped
<1>9. SessionOK(s, wb, bound)
  BY <1>2, <1>3, <1>4, <1>5, <1>7, <1>8 DEF SessionOK
<1>. QED
  BY <1>2, <1>3, <1>9 DEF s

\* create_session and create_window: a new window with a new pane.
LEMMA NewSessionOK ==
  ASSUME NEW name \in Name, NEW wb \in Nat \ {0}, NEW pb \in Nat \ {0}
  PROVE  LET s == NewSession(name, wb, pb)
         IN  /\ SessionOK(s, wb + 1, pb + 1)
             /\ s.name = name /\ DOMAIN s.windows = {wb}
             /\ DOMAIN s.windows[wb].panes = {pb}
<1>. DEFINE s == NewSession(name, wb, pb)
            w == NewWindow(<<"window", 0>>, 0, pb)
<1>1. /\ WindowOK(w, pb + 1) /\ w.index = 0 /\ DOMAIN w.panes = {pb}
  <2>. DEFINE default == <<"window", 0>>
  <2>1. default \in Name /\ 0 \in Nat
    BY TreeAssumption DEF TreeAssumption, Name
  <2>. HIDE DEF default
  <2>2. LET new == NewWindow(default, 0, pb)
        IN  /\ WindowOK(new, pb + 1)
            /\ new.name = default /\ new.index = 0 /\ DOMAIN new.panes = {pb}
    BY <2>1, NewWindowOK, Z3
  <2>. QED
    BY <2>2 DEF default
<1>2. s = [name |-> name, active |-> wb, windows |-> [k \in {wb} |-> w]]
  BY DEF NewSession
<1>. HIDE DEF w
<1>3. SessionTyped(s, wb + 1, pb + 1)
  BY <1>1, <1>2 DEF SessionTyped, WindowOK, WindowShaped, Range
<1>4. Addressable(s.windows) /\ PanesApart(s.windows)
  BY <1>1, <1>2 DEF Addressable, NamesDistinct, IndexesDistinct, PanesApart
<1>. QED
  BY <1>1, <1>2, <1>3, <1>4 DEF SessionOK

\* create_window: a window more, whose name was free and whose index is new.
LEMMA WithWindowOK ==
  ASSUME NEW wb \in Nat \ {0}, NEW pb \in Nat \ {0},
         NEW session, SessionOK(session, wb, pb),
         NEW name \in Name, ~NameTaken(session.windows, name)
  PROVE  LET s == WithWindow(session, wb, name, pb)
         IN  /\ SessionOK(s, wb + 1, pb + 1)
             /\ s.name = session.name
             /\ DOMAIN s.windows = DOMAIN session.windows \cup {wb}
             /\ DOMAIN s.windows[wb].panes = {pb}
             /\ \A v \in DOMAIN session.windows :
                  s.windows[v] = session.windows[v]
<1>. DEFINE new == NewWindow(name, NextIndex(session.windows), pb)
            windows == Insert(session.windows, wb, new)
            s == WithWindow(session, wb, name, pb)
<1>1. /\ session \in [name : Name, active : Nat, windows : {session.windows}]
      /\ DOMAIN session.windows \subseteq 1 .. wb - 1
      /\ \A v \in DOMAIN session.windows :
           /\ session.windows[v].index \in Nat
           /\ session.windows[v].index < v
           /\ DOMAIN session.windows[v].panes \subseteq 1 .. pb - 1
  BY DEF SessionOK, SessionTyped, WindowTyped, PanesTyped, Addressable
<1>2. /\ NextIndex(session.windows) \in Nat /\ NextIndex(session.windows) < wb
      /\ \A v \in DOMAIN session.windows :
           session.windows[v].index < NextIndex(session.windows)
  BY <1>1, NextIndexFresh
<1>3. /\ WindowOK(new, pb + 1) /\ new.name = name
      /\ new.index = NextIndex(session.windows) /\ DOMAIN new.panes = {pb}
  BY <1>2, NewWindowOK
<1>4. s = [session EXCEPT !.active = wb, !.windows = windows]
  BY DEF WithWindow
<1>. HIDE DEF new
<1>5. /\ DOMAIN windows = DOMAIN session.windows \cup {wb}
      /\ wb \notin DOMAIN session.windows
      /\ windows \in [DOMAIN windows -> Range(windows)]
      /\ windows[wb] = new
      /\ \A v \in DOMAIN session.windows : windows[v] = session.windows[v]
  BY <1>1 DEF Insert, Range
<1>. HIDE DEF windows, s
<1>6. /\ s \in [name : Name, active : Nat, windows : {windows}]
      /\ s.windows = windows /\ s.name = session.name /\ s.active = wb
  BY <1>1, <1>4
<1>7. Addressable(windows)
  BY <1>1, <1>2, <1>3, <1>5
  DEF SessionOK, Addressable, NamesDistinct, IndexesDistinct, NameTaken
<1>8. \A v \in DOMAIN windows : WindowOK(windows[v], pb + 1)
  BY <1>3, <1>5, WindowMonotone DEF SessionOK
<1>9. PanesApart(windows)
  BY <1>1, <1>3, <1>5 DEF SessionOK, PanesApart
<1>10. SessionTyped(s, wb + 1, pb + 1)
  BY <1>1, <1>5, <1>6, <1>8 DEF SessionTyped, WindowOK, WindowShaped
<1>11. SessionOK(s, wb + 1, pb + 1)
  BY <1>5, <1>6, <1>7, <1>8, <1>9, <1>10 DEF SessionOK
<1>. QED
  BY <1>3, <1>5, <1>6, <1>11 DEF s

\* delete_window: another window is left and gets active if need be.
LEMMA WithoutWindowOK ==
  ASSUME NEW wb \in Nat \ {0}, NEW pb \in Nat \ {0},
         NEW session, SessionOK(session, wb, pb),
         NEW w \in DOMAIN session.windows, DOMAIN session.windows # {w}
  PROVE  LET s == WithoutWindow(session, w)
         IN  /\ SessionOK(s, wb, pb)
             /\ s.name = session.name
             /\ s.windows = Remove(session.windows, w)
<1>. DEFINE windows == Remove(session.windows, w)
            s == WithoutWindow(session, w)
            active == IF session.active = w THEN FirstKey(windows)
                      ELSE session.active
<1>1. /\ session \in [name : Name, active : Nat, windows : {session.windows}]
      /\ DOMAIN session.windows \subseteq 1 .. wb - 1
      /\ session.active \in DOMAIN session.windows
  BY DEF SessionOK, SessionTyped
<1>2. /\ DOMAIN windows = DOMAIN session.windows \ {w} /\ DOMAIN windows # {}
      /\ windows \in [DOMAIN windows -> Range(windows)]
      /\ \A v \in DOMAIN windows : windows[v] = session.windows[v]
  BY <1>1 DEF Remove, Restrict, Range
<1>3. s = [session EXCEPT !.windows = windows, !.active = active]
  BY <1>1 DEF WithoutWindow
<1>. HIDE DEF windows
<1>4. active \in DOMAIN windows /\ active \in Nat
  BY <1>1, <1>2, FirstKeyLive
<1>. HIDE DEF active, s
<1>5. /\ s \in [name : Name, active : Nat, windows : {windows}]
      /\ s.windows = windows /\ s.name = session.name /\ s.active = active
  BY <1>1, <1>3, <1>4
<1>6. Addressable(windows) /\ PanesApart(windows)
  BY <1>2
  DEF SessionOK, Addressable, NamesDistinct, IndexesDistinct, PanesApart
<1>7. SessionTyped(s, wb, pb)
  BY <1>1, <1>2, <1>5 DEF SessionTyped, SessionOK
<1>8. SessionOK(s, wb, pb)
  BY <1>2, <1>4, <1>5, <1>6, <1>7 DEF SessionOK
<1>. QED
  BY <1>5, <1>8 DEF s, windows

\* rename_session, and the active window of select_window.
LEMMA RenamedSessionOK ==
  ASSUME NEW wb \in Nat \ {0}, NEW pb \in Nat \ {0},
         NEW session, SessionOK(session, wb, pb), NEW name \in Name
  PROVE  LET s == [session EXCEPT !.name = name]
         IN  /\ SessionOK(s, wb, pb)
             /\ s.name = name /\ s.windows = session.windows
BY DEF SessionOK, SessionTyped

\* select_window moves the pointer to a live window.
LEMMA ActivatedOK ==
  ASSUME NEW wb \in Nat \ {0}, NEW pb \in Nat \ {0},
         NEW session, SessionOK(session, wb, pb),
         NEW w \in DOMAIN session.windows
  PROVE  LET s == [session EXCEPT !.active = w]
         IN  /\ SessionOK(s, wb, pb)
             /\ s.name = session.name /\ s.windows = session.windows
BY DEF SessionOK, SessionTyped

-------------------------------------------------------------------------------
(* The whole tree. *)

\* The tree stays well-formed when the counters are ahead of it.
LEMMA TreeMonotone ==
  ASSUME NEW sb \in Nat \ {0}, NEW wb \in Nat \ {0}, NEW pb \in Nat \ {0},
         NEW tree, TreeOK(tree, sb, wb, pb)
  PROVE  /\ TreeOK(tree, sb + 1, wb, pb)
         /\ TreeOK(tree, sb, wb + 1, pb)
         /\ TreeOK(tree, sb, wb, pb + 1)
BY SessionMonotone DEF TreeOK

\* Everything a tree holds is below the counters.
LEMMA TreeBounded ==
  ASSUME NEW sb \in Nat \ {0}, NEW wb \in Nat \ {0}, NEW pb \in Nat \ {0},
         NEW tree, TreeOK(tree, sb, wb, pb)
  PROVE  /\ DOMAIN tree \subseteq 1 .. sb - 1
         /\ \A s \in DOMAIN tree :
              /\ DOMAIN tree[s].windows \subseteq 1 .. wb - 1
              /\ \A w \in DOMAIN tree[s].windows :
                   DOMAIN tree[s].windows[w].panes \subseteq 1 .. pb - 1
BY DEF TreeOK, SessionOK, SessionTyped, WindowTyped, PanesTyped

\* One session changes in place.  Its name is free, and what it has gained
\* in windows and panes the counters had not given out.
LEMMA ChangedSessionOK ==
  ASSUME NEW sb \in Nat \ {0}, NEW wb \in Nat \ {0}, NEW pb \in Nat \ {0},
         NEW wbNew \in {wb, wb + 1}, NEW pbNew \in {pb, pb + 1},
         NEW tree, TreeOK(tree, sb, wb, pb),
         NEW s \in DOMAIN tree, NEW session, SessionOK(session, wbNew, pbNew),
         \A t \in DOMAIN tree \ {s} : tree[t].name # session.name,
         \A w \in DOMAIN session.windows :
           /\ w \in DOMAIN tree[s].windows \/ w = wb
           /\ \A p \in DOMAIN session.windows[w].panes :
                \/ p = pb
                \/ /\ w \in DOMAIN tree[s].windows
                   /\ p \in DOMAIN tree[s].windows[w].panes
  PROVE  LET changed == [tree EXCEPT ![s] = session]
         IN  /\ TreeOK(changed, sb, wbNew, pbNew)
             /\ GainsOnly(changed, tree, sb, wb, pb)
<1>. DEFINE new == [tree EXCEPT ![s] = session]
<1>1. /\ DOMAIN new = DOMAIN tree /\ new[s] = session
      /\ \A t \in DOMAIN tree \ {s} : new[t] = tree[t]
      /\ new \in [DOMAIN new -> Range(new)]
  BY DEF TreeOK, Range
<1>. HIDE DEF new
<1>2. \A t \in DOMAIN new : SessionOK(new[t], wbNew, pbNew)
  <2>1. \A t \in DOMAIN tree : /\ SessionOK(tree[t], wb, pb)
                               /\ SessionOK(tree[t], wb + 1, pb)
                               /\ SessionOK(tree[t], wb, pb + 1)
    BY SessionMonotone DEF TreeOK
  <2>2. \A t \in DOMAIN tree : SessionOK(tree[t], wb + 1, pb + 1)
    BY <2>1, SessionMonotone
  <2>. QED
    BY <1>1, <2>1, <2>2
<1>3. NamesDistinct(new)
  BY <1>1 DEF TreeOK, NamesDistinct
<1>4. ASSUME NEW t \in DOMAIN tree \ {s}
      PROVE  /\ DOMAIN session.windows \cap DOMAIN tree[t].windows = {}
             /\ \A w \in DOMAIN session.windows, v \in DOMAIN tree[t].windows :
                  DOMAIN session.windows[w].panes \cap
                  DOMAIN tree[t].windows[v].panes = {}
  <2>1. /\ wb \notin DOMAIN tree[t].windows
        /\ \A v \in DOMAIN tree[t].windows :
             pb \notin DOMAIN tree[t].windows[v].panes
    BY TreeBounded, SMTT(30)
  <2>2. /\ DOMAIN tree[s].windows \cap DOMAIN tree[t].windows = {}
        /\ \A w \in DOMAIN tree[s].windows, v \in DOMAIN tree[t].windows :
             DOMAIN tree[s].windows[w].panes \cap
             DOMAIN tree[t].windows[v].panes = {}
    BY DEF TreeOK, SessionsApart
  <2>. QED
    BY <2>1, <2>2
<1>5. SessionsApart(new)
  BY <1>1, <1>4 DEF TreeOK, SessionsApart
<1>6. GainsOnly(new, tree, sb, wb, pb)
  BY <1>1 DEF GainsOnly
<1>. QED
  BY <1>1, <1>2, <1>3, <1>5, <1>6 DEF TreeOK, new

\* ... when only one of its windows has changed.
LEMMA ChangedTreeOK ==
  ASSUME NEW sb \in Nat \ {0}, NEW wb \in Nat \ {0}, NEW pb \in Nat \ {0},
         NEW bound \in {pb, pb + 1},
         NEW tree, TreeOK(tree, sb, wb, pb),
         NEW s \in DOMAIN tree, NEW w \in DOMAIN tree[s].windows,
         NEW window, FitsIn(window, tree[s].windows, w, pb, bound)
  PROVE  LET changed == [tree EXCEPT ![s].windows[w] = window]
         IN  /\ TreeOK(changed, sb, wb, bound)
             /\ GainsOnly(changed, tree, sb, wb, pb)
<1>. DEFINE session == PutWindow(tree[s], w, window)
<1>1. SessionOK(tree[s], wb, pb)
  BY DEF TreeOK
<1>2. /\ SessionOK(session, wb, bound)
      /\ session.name = tree[s].name
      /\ DOMAIN session.windows = DOMAIN tree[s].windows
      /\ session.windows[w] = window
      /\ \A v \in DOMAIN tree[s].windows \ {w} :
           session.windows[v] = tree[s].windows[v]
  BY <1>1, ChangedWindowOK
<1>3. [tree EXCEPT ![s].windows[w] = window] = [tree EXCEPT ![s] = session]
  BY DEF PutWindow
<1>. HIDE DEF session
<1>4. \A t \in DOMAIN tree \ {s} : tree[t].name # session.name
  BY <1>2 DEF TreeOK, NamesDistinct
<1>5. \A v \in DOMAIN session.windows :
        /\ v \in DOMAIN tree[s].windows
        /\ \A p \in DOMAIN session.windows[v].panes :
             p = pb \/ p \in DOMAIN tree[s].windows[v].panes
  BY <1>2 DEF FitsIn
<1>. QED
  BY <1>2, <1>3, <1>4, <1>5, ChangedSessionOK

\* create_session and delete_session.
LEMMA InsertedSessionOK ==
  ASSUME NEW sb \in Nat \ {0}, NEW wb \in Nat \ {0}, NEW pb \in Nat \ {0},
         NEW tree, TreeOK(tree, sb, wb, pb),
         NEW name \in Name, ~NameTaken(tree, name)
  PROVE  LET grown == Insert(tree, sb, NewSession(name, wb, pb))
         IN  /\ TreeOK(grown, sb + 1, wb + 1, pb + 1)
             /\ GainsOnly(grown, tree, sb, wb, pb)
<1>. DEFINE session == NewSession(name, wb, pb)
            new == Insert(tree, sb, session)
<1>1. /\ SessionOK(session, wb + 1, pb + 1) /\ session.name = name
      /\ DOMAIN session.windows = {wb}
      /\ DOMAIN session.windows[wb].panes = {pb}
  <2>1. LET s == NewSession(name, wb, pb)
        IN  /\ SessionOK(s, wb + 1, pb + 1)
            /\ s.name = name /\ DOMAIN s.windows = {wb}
            /\ DOMAIN s.windows[wb].panes = {pb}
    BY NewSessionOK, Z3
  <2>. QED
    BY <2>1
<1>. HIDE DEF session
<1>2. /\ DOMAIN new = DOMAIN tree \cup {sb} /\ sb \notin DOMAIN tree
      /\ new[sb] = session
      /\ \A t \in DOMAIN tree : new[t] = tree[t]
      /\ new \in [DOMAIN new -> Range(new)]
  <2>1. sb \notin DOMAIN tree
    BY TreeBounded
  <2>2. new = [k \in DOMAIN tree \cup {sb} |-> IF k = sb THEN session ELSE tree[k]]
    BY DEF Insert
  <2>. HIDE DEF new
  <2>3. new \in [DOMAIN new -> Range(new)]
    BY <2>2 DEF Range
  <2>. QED
    BY <2>1, <2>2, <2>3
<1>. HIDE DEF new
<1>3. \A t \in DOMAIN new : SessionOK(new[t], wb + 1, pb + 1)
  <2>1. \A t \in DOMAIN tree : SessionOK(tree[t], wb + 1, pb)
    BY SessionMonotone DEF TreeOK
  <2>2. \A t \in DOMAIN tree : SessionOK(tree[t], wb + 1, pb + 1)
    BY <2>1, SessionMonotone
  <2>. QED
    BY <1>1, <1>2, <2>2
<1>4. NamesDistinct(new)
  BY <1>1, <1>2 DEF TreeOK, NamesDistinct, NameTaken
<1>5. ASSUME NEW t \in DOMAIN tree
      PROVE  /\ DOMAIN session.windows \cap DOMAIN tree[t].windows = {}
             /\ \A w \in DOMAIN session.windows, v \in DOMAIN tree[t].windows :
                  DOMAIN session.windows[w].panes \cap
                  DOMAIN tree[t].windows[v].panes = {}
  BY <1>1, TreeBounded, SMTT(30)
<1>6. SessionsApart(new)
  BY <1>2, <1>5 DEF TreeOK, SessionsApart
<1>7. DOMAIN new \subseteq 1 .. (sb + 1) - 1
  BY <1>2, TreeBounded
<1>8. GainsOnly(new, tree, sb, wb, pb)
  BY <1>1, <1>2 DEF GainsOnly
<1>. QED
  BY <1>2, <1>3, <1>4, <1>6, <1>7, <1>8 DEF TreeOK, new, session

\* What is left after delete_session needs no repair.
LEMMA RemovedSessionOK ==
  ASSUME NEW sb \in Nat \ {0}, NEW wb \in Nat \ {0}, NEW pb \in Nat \ {0},
         NEW tree, TreeOK(tree, sb, wb, pb), NEW s
  PROVE  /\ TreeOK(Remove(tree, s), sb, wb, pb)
         /\ GainsOnly(Remove(tree, s), tree, sb, wb, pb)
<1>. DEFINE new == Remove(tree, s)
<1>1. /\ DOMAIN new = DOMAIN tree \ {s}
      /\ \A t \in DOMAIN new : new[t] = tree[t]
      /\ new \in [DOMAIN new -> Range(new)]
  BY DEF Remove, Restrict, Range
<1>. HIDE DEF new
<1>2. NamesDistinct(new) /\ SessionsApart(new)
  BY <1>1 DEF TreeOK, NamesDistinct, SessionsApart
<1>3. GainsOnly(new, tree, sb, wb, pb)
  BY <1>1 DEF GainsOnly
<1>. QED
  BY <1>1, <1>2, <1>3 DEF TreeOK, new

-------------------------------------------------------------------------------
(* Actions. *)

\* A step that changes neither the tree nor what the counters have given out.
LEMMA SameTree ==
  ASSUME IInv, UNCHANGED <<sessions, counters>>, reply' \in {"ok", "err"}
  PROVE  StepOK
BY DEF StepOK, GainsOnly, IInv, counters

\* spawn_pane, whatever became of the shell.
LEMMA SpawnStep ==
  ASSUME IInv, NEW sb \in {nextSession, nextSession + 1},
         NEW wb \in {nextWindow, nextWindow + 1},
         nextSession' = sb, nextWindow' = wb,
         NEW tree, TreeOK(tree, sb, wb, nextPane + 1),
         GainsOnly(tree, sessions, nextSession, nextWindow, nextPane),
         Spawn(tree)
  PROVE  StepOK
<1>1. /\ nextPane' = nextPane + 1
      /\ reply' \in {"ok", "err"}
      /\ sessions' = tree \/ sessions' = sessions
  BY DEF Spawn
<1>2. TreeOK(sessions, sb, wb, nextPane + 1)
  <2>1. TreeOK(sessions, sb, nextWindow, nextPane)
    BY TreeMonotone DEF IInv
  <2>2. TreeOK(sessions, sb, wb, nextPane)
    BY <2>1, TreeMonotone DEF IInv
  <2>. QED
    BY <2>2, TreeMonotone DEF IInv
<1>3. TreeOK(sessions', nextSession', nextWindow', nextPane')
  BY <1>1, <1>2
<1>4. GainsOnly(sessions', sessions, nextSession, nextWindow, nextPane)
  BY <1>1 DEF GainsOnly
<1>. QED
  BY <1>1, <1>3, <1>4 DEF StepOK, IInv

\* CreateSession, refused, spawned or failed.
LEMMA CreateSessionStep ==
  ASSUME IInv, NEW name \in UserNames \cup {Unnamed}, CreateSession(name)
  PROVE  StepOK
<1>. DEFINE chosen == Given(name, <<"session", nextSession>>)
<1>1. chosen \in Name
  BY NamesTyped DEF IInv
<1>2. CASE NameTaken(sessions, chosen)
  <2>1. TreeOK(sessions, nextSession + 1, nextWindow, nextPane)
    BY TreeMonotone DEF IInv
  <2>. QED
    BY <1>2, <2>1 DEF CreateSession, StepOK, GainsOnly, IInv
<1>3. CASE ~NameTaken(sessions, chosen)
  <2>. DEFINE tree == Insert(sessions, nextSession,
                             NewSession(chosen, nextWindow, nextPane))
  <2>1. /\ nextSession' = nextSession + 1 /\ nextWindow' = nextWindow + 1
        /\ Spawn(tree)
    BY <1>3 DEF CreateSession
  <2>. HIDE DEF chosen
  <2>2. /\ TreeOK(tree, nextSession + 1, nextWindow + 1, nextPane + 1)
        /\ GainsOnly(tree, sessions, nextSession, nextWindow, nextPane)
    BY <1>1, <1>3, InsertedSessionOK DEF IInv
  <2>. QED
    BY <2>1, <2>2, SpawnStep
<1>. QED
  BY <1>2, <1>3

\* CreateWindow, refused, spawned or failed.
LEMMA CreateWindowStep ==
  ASSUME IInv, NEW s, NEW name \in UserNames \cup {Unnamed},
         CreateWindow(s, name)
  PROVE  StepOK
<1>. USE DEF SessionIds
<1>. DEFINE windows == sessions[s].windows
            chosen == Given(name, <<"window", NextIndex(windows)>>)
<1>1. CASE s \notin DOMAIN sessions \/ NameTaken(windows, chosen)
  <2>1. TreeOK(sessions, nextSession, nextWindow + 1, nextPane)
    BY TreeMonotone DEF IInv
  <2>2. /\ nextWindow' = nextWindow + 1 /\ reply' = "err"
        /\ UNCHANGED <<sessions, nextSession, nextPane>>
    BY <1>1 DEF CreateWindow
  <2>. QED
    BY <2>1, <2>2 DEF StepOK, GainsOnly, IInv
<1>2. CASE s \in DOMAIN sessions /\ ~NameTaken(windows, chosen)
  <2>. DEFINE session == WithWindow(sessions[s], nextWindow, chosen, nextPane)
              tree == [sessions EXCEPT ![s] = session]
  <2>1. /\ nextSession' = nextSession /\ nextWindow' = nextWindow + 1
        /\ Spawn(tree)
    BY <1>2 DEF CreateWindow
  <2>2. SessionOK(sessions[s], nextWindow, nextPane)
    BY <1>2 DEF IInv, TreeOK
  <2>3. chosen \in Name
    <3>1. NextIndex(windows) \in Nat
      BY <2>2, NextIndexFresh
      DEF IInv, SessionOK, SessionTyped, WindowTyped, Addressable
    <3>. HIDE DEF windows
    <3>. QED
      BY <3>1, NamesTyped
  <2>. HIDE DEF chosen
  <2>4. /\ SessionOK(session, nextWindow + 1, nextPane + 1)
        /\ session.name = sessions[s].name
        /\ DOMAIN session.windows = DOMAIN sessions[s].windows \cup {nextWindow}
        /\ DOMAIN session.windows[nextWindow].panes = {nextPane}
        /\ \A v \in DOMAIN sessions[s].windows :
             session.windows[v] = sessions[s].windows[v]
    BY <1>2, <2>2, <2>3, WithWindowOK DEF IInv
  <2>. HIDE DEF session
  <2>5. \A t \in DOMAIN sessions \ {s} : sessions[t].name # session.name
    BY <1>2, <2>4 DEF IInv, TreeOK, NamesDistinct
  <2>6. /\ TreeOK(tree, nextSession, nextWindow + 1, nextPane + 1)
        /\ GainsOnly(tree, sessions, nextSession, nextWindow, nextPane)
    BY <1>2, <2>4, <2>5, ChangedSessionOK DEF IInv
  <2>. QED
    BY <2>1, <2>6, SpawnStep
<1>. QED
  BY <1>1, <1>2

\* What the invariant says of a window, and what a window that changes in
\* place needs to fit in again.
LEMMA WindowInTree ==
  ASSUME IInv, NEW s \in DOMAIN sessions, NEW w \in DOMAIN sessions[s].windows
  PROVE  /\ WindowOK(sessions[s].windows[w], nextPane)
         /\ SessionOK(sessions[s], nextWindow, nextPane)
         /\ \A v \in DOMAIN sessions[s].windows \ {w} :
              sessions[s].windows[v].name # sessions[s].windows[w].name
BY DEF IInv, TreeOK, SessionOK, Addressable, NamesDistinct

\* Commands that leave the counters alone and install a well-formed tree.
LEMMA CommitStep ==
  ASSUME IInv, NEW tree, TreeOK(tree, nextSession, nextWindow, nextPane),
         GainsOnly(tree, sessions, nextSession, nextWindow, nextPane),
         sessions' = tree, reply' \in {"none", "ok", "err"}, UNCHANGED counters
  PROVE  StepOK
BY DEF StepOK, IInv, counters

\* ... when only one window of the tree changes.
LEMMA CommitWindowStep ==
  ASSUME IInv, NEW s \in DOMAIN sessions, NEW w \in DOMAIN sessions[s].windows,
         NEW window, FitsIn(window, sessions[s].windows, w, nextPane, nextPane),
         sessions' = [sessions EXCEPT ![s].windows[w] = window],
         reply' \in {"none", "ok", "err"}, UNCHANGED counters
  PROVE  StepOK
<1>. DEFINE tree == [sessions EXCEPT ![s].windows[w] = window]
<1>1. /\ TreeOK(tree, nextSession, nextWindow, nextPane)
      /\ GainsOnly(tree, sessions, nextSession, nextWindow, nextPane)
  BY ChangedTreeOK DEF IInv
<1>. QED
  BY <1>1, CommitStep

\* CreatePane and the splits, refused, spawned or failed.
LEMMA CreatePaneStep ==
  ASSUME IInv, NEW s \in DOMAIN sessions, NEW w \in DOMAIN sessions[s].windows,
         NEW name \in UserNames \cup {Unnamed},
         NEW layout \in SplitLayouts \cup {"none"},
         CreatePane(s, w, name, layout)
  PROVE  StepOK
<1>. DEFINE old == sessions[s].windows[w]
            chosen == Given(name, <<"pane", nextPane>>)
            window == WithPane(old, nextPane, chosen, layout)
            tree == [sessions EXCEPT ![s].windows[w] = window]
<1>1. chosen \in Name
  BY NamesTyped DEF IInv
<1>2. CASE NameTaken(old.panes, chosen)
  BY <1>2, SameTree DEF CreatePane, Refuse
<1>3. CASE ~NameTaken(old.panes, chosen)
  <2>1. Spawn(tree) /\ nextSession' = nextSession /\ nextWindow' = nextWindow
    BY <1>3 DEF CreatePane
  <2>2. WindowOK(old, nextPane)
    BY WindowInTree
  <2>. HIDE DEF chosen, old
  <2>3. /\ WindowOK(window, nextPane + 1)
        /\ window.name = old.name /\ window.index = old.index
        /\ DOMAIN window.panes = DOMAIN old.panes \cup {nextPane}
    BY <1>1, <1>3, <2>2, WithPaneOK DEF IInv
  <2>. HIDE DEF window
  <2>4. FitsIn(window, sessions[s].windows, w, nextPane, nextPane + 1)
    BY <2>3, WindowInTree DEF FitsIn, IInv, old
  <2>5. /\ TreeOK(tree, nextSession, nextWindow, nextPane + 1)
        /\ GainsOnly(tree, sessions, nextSession, nextWindow, nextPane)
    BY <2>4, ChangedTreeOK DEF IInv
  <2>. QED
    BY <2>1, <2>5, SpawnStep
<1>. QED
  BY <1>2, <1>3

\* SelectWindow changes a session and a window of it, SelectPane a window.
LEMMA SelectStep ==
  ASSUME IInv, NEW s \in DOMAIN sessions, NEW w \in DOMAIN sessions[s].windows,
         \/ SelectWindow(s, w)
         \/ \E p \in DOMAIN sessions[s].windows[w].panes : SelectPane(s, w, p)
  PROVE  StepOK
<1>. DEFINE old == sessions[s].windows[w]
            synced == SyncLayout(old)
<1>1. WindowOK(old, nextPane) /\ nextPane \in Nat \ {0}
  BY WindowInTree DEF IInv
<1>2. CASE SelectWindow(s, w)
  <2>. DEFINE middle == [sessions EXCEPT ![s].windows[w] = synced]
  <2>. HIDE DEF old
  <2>1. old.active \in DOMAIN old.panes
    BY <1>1 DEF WindowOK, WindowShaped
  <2>2. /\ WindowOK(synced, nextPane) /\ synced.name = old.name
        /\ synced.index = old.index /\ synced.panes = old.panes
    BY <1>1, <2>1, SyncedOK
  <2>. HIDE DEF synced
  <2>3. FitsIn(synced, sessions[s].windows, w, nextPane, nextPane)
    BY <2>2, WindowInTree DEF FitsIn, IInv, old
  <2>4. /\ TreeOK(middle, nextSession, nextWindow, nextPane)
        /\ GainsOnly(middle, sessions, nextSession, nextWindow, nextPane)
    BY <2>3, ChangedTreeOK DEF IInv
  <2>5. /\ DOMAIN middle = DOMAIN sessions
        /\ DOMAIN middle[s].windows = DOMAIN sessions[s].windows
        /\ sessions' = [middle EXCEPT ![s] = [middle[s] EXCEPT !.active = w]]
        /\ reply' = "ok" /\ UNCHANGED counters
    <3>1. sessions[s] \in [name : Name, active : Nat,
                           windows : {sessions[s].windows}]
      BY WindowInTree DEF SessionOK, SessionTyped
    <3>. QED
      BY <1>2, <3>1 DEF SelectWindow, Commit, synced, old
  <2>. HIDE DEF middle
  <2>. DEFINE session == [middle[s] EXCEPT !.active = w]
  <2>6. SessionOK(middle[s], nextWindow, nextPane)
    BY <2>4, <2>5 DEF TreeOK
  <2>7. /\ SessionOK(session, nextWindow, nextPane)
        /\ session.name = middle[s].name
        /\ session.windows = middle[s].windows
    BY <2>5, <2>6, ActivatedOK DEF IInv
  <2>. HIDE DEF session
  <2>8. \A t \in DOMAIN middle \ {s} : middle[t].name # session.name
    BY <2>4, <2>5, <2>7 DEF TreeOK, NamesDistinct
  <2>. DEFINE tree == [middle EXCEPT ![s] = session]
  <2>9. /\ TreeOK(tree, nextSession, nextWindow, nextPane)
        /\ GainsOnly(tree, middle, nextSession, nextWindow, nextPane)
    BY <2>4, <2>5, <2>7, <2>8, ChangedSessionOK DEF IInv
  <2>10. GainsOnly(tree, sessions, nextSession, nextWindow, nextPane)
    BY <2>4, <2>9 DEF GainsOnly
  <2>. QED
    BY <2>5, <2>9, <2>10, CommitStep DEF session
<1>3. ASSUME NEW p \in DOMAIN old.panes, SelectPane(s, w, p)
      PROVE  StepOK
  <2>. DEFINE window == [synced EXCEPT !.active = p]
  <2>1. /\ sessions' = [sessions EXCEPT ![s].windows[w] = window]
        /\ reply' = "ok" /\ UNCHANGED counters
    BY <1>3 DEF SelectPane, Commit
  <2>. HIDE DEF old
  <2>2. /\ WindowOK(window, nextPane) /\ window.name = old.name
        /\ window.index = old.index /\ window.panes = old.panes
    BY <1>1, <1>3, SyncedOK
  <2>. HIDE DEF window
  <2>3. FitsIn(window, sessions[s].windows, w, nextPane, nextPane)
    BY <2>2, WindowInTree DEF FitsIn, IInv, old
  <2>. QED
    BY <2>1, <2>3, CommitWindowStep
<1>. QED
  BY <1>2, <1>3

\* The renames, refused when a sibling has the name.
LEMMA RenameStep ==
  ASSUME IInv, NEW name \in UserNames,
         \/ \E s : RenameSession(s, name)
         \/ \E s \in DOMAIN sessions : \E w \in DOMAIN sessions[s].windows :
              \/ RenameWindow(s, w, name)
              \/ \E p \in DOMAIN sessions[s].windows[w].panes :
                   RenamePane(s, w, p, name)
  PROVE  StepOK
<1>. name \in Name
  BY TreeAssumption DEF TreeAssumption
<1>1. ASSUME NEW s, RenameSession(s, name)
      PROVE  StepOK
  <2>1. CASE s \notin SessionIds \/ NameTakenByOther(sessions, s, name)
    BY <1>1, <2>1, SameTree DEF RenameSession, Refuse
  <2>2. CASE s \in SessionIds /\ ~NameTakenByOther(sessions, s, name)
    <3>. DEFINE session == [sessions[s] EXCEPT !.name = name]
                tree == [sessions EXCEPT ![s] = session]
    <3>1. s \in DOMAIN sessions /\ SessionOK(sessions[s], nextWindow, nextPane)
      BY <2>2 DEF SessionIds, IInv, TreeOK
    <3>2. /\ SessionOK(session, nextWindow, nextPane)
          /\ session.name = name /\ session.windows = sessions[s].windows
      BY <3>1, RenamedSessionOK DEF IInv
    <3>3. sessions' = tree /\ reply' = "ok" /\ UNCHANGED counters
      BY <1>1, <2>2 DEF RenameSession, Commit
    <3>. HIDE DEF session
    <3>4. \A t \in DOMAIN sessions \ {s} : sessions[t].name # session.name
      BY <2>2, <3>2 DEF NameTakenByOther
    <3>5. /\ TreeOK(tree, nextSession, nextWindow, nextPane)
          /\ GainsOnly(tree, sessions, nextSession, nextWindow, nextPane)
      BY <3>1, <3>2, <3>4, ChangedSessionOK DEF IInv
    <3>. QED
      BY <3>3, <3>5, CommitStep
  <2>. QED
    BY <2>1, <2>2
<1>2. ASSUME NEW s \in DOMAIN sessions, NEW w \in DOMAIN sessions[s].windows,
             RenameWindow(s, w, name)
      PROVE  StepOK
  <2>1. CASE NameTakenByOther(sessions[s].windows, w, name)
    BY <1>2, <2>1, SameTree DEF RenameWindow, Refuse
  <2>2. CASE ~NameTakenByOther(sessions[s].windows, w, name)
    <3>. DEFINE old == sessions[s].windows[w]
                window == [old EXCEPT !.name = name]
    <3>1. WindowOK(old, nextPane) /\ nextPane \in Nat \ {0}
      BY WindowInTree DEF IInv
    <3>2. /\ sessions' = [sessions EXCEPT ![s].windows[w] = window]
          /\ reply' = "ok" /\ UNCHANGED counters
      BY <1>2, <2>2 DEF RenameWindow, Commit
    <3>. HIDE DEF old
    <3>3. /\ WindowOK(window, nextPane) /\ window.name = name
          /\ window.index = old.index /\ window.panes = old.panes
      BY <3>1, RenamedWindowOK
    <3>. HIDE DEF window
    <3>4. FitsIn(window, sessions[s].windows, w, nextPane, nextPane)
      BY <2>2, <3>3 DEF FitsIn, IInv, NameTakenByOther, old
    <3>. QED
      BY <3>2, <3>4, CommitWindowStep
  <2>. QED
    BY <2>1, <2>2
<1>3. ASSUME NEW s \in DOMAIN sessions, NEW w \in DOMAIN sessions[s].windows,
             NEW p \in DOMAIN sessions[s].windows[w].panes,
             RenamePane(s, w, p, name)
      PROVE  StepOK
  <2>. DEFINE old == sessions[s].windows[w]
  <2>1. CASE NameTakenByOther(old.panes, p, name)
    BY <1>3, <2>1, SameTree DEF RenamePane, Refuse
  <2>2. CASE ~NameTakenByOther(old.panes, p, name)
    <3>. DEFINE pane == [old.panes[p] EXCEPT !.name = name]
                window == [old EXCEPT !.panes[p] = pane]
    <3>1. WindowOK(old, nextPane) /\ nextPane \in Nat \ {0}
      BY WindowInTree DEF IInv
    <3>2. old.panes[p] \in Pane /\ p \in DOMAIN old.panes
      BY <3>1 DEF WindowOK, WindowShaped, WindowTyped, PanesTyped
    <3>3. /\ sessions' = [sessions EXCEPT ![s].windows[w] = window]
          /\ reply' = "ok" /\ UNCHANGED counters
      BY <1>3, <2>2 DEF RenamePane, Commit
    <3>. HIDE DEF old
    <3>4. /\ pane \in Pane /\ pane.index = old.panes[p].index
          /\ pane.name = name /\ pane.size = old.panes[p].size
      BY <3>2 DEF Pane
    <3>5. \A q \in DOMAIN old.panes \ {p} : old.panes[q].name # pane.name
      BY <2>2, <3>4 DEF NameTakenByOther
    <3>. HIDE DEF pane
    <3>6. /\ WindowOK(window, nextPane) /\ window.name = old.name
          /\ window.index = old.index /\ DOMAIN window.panes = DOMAIN old.panes
      BY <3>1, <3>2, <3>4, <3>5, ChangedPaneOK
    <3>. HIDE DEF window
    <3>7. FitsIn(window, sessions[s].windows, w, nextPane, nextPane)
      BY <3>6, WindowInTree DEF FitsIn, old
    <3>. QED
      BY <3>3, <3>7, CommitWindowStep
  <2>. QED
    BY <2>1, <2>2
<1>. QED
  BY <1>1, <1>2, <1>3

\* A shell that ends marks its pane.
LEMMA PaneExitsStep ==
  ASSUME IInv, NEW s \in DOMAIN sessions, NEW w \in DOMAIN sessions[s].windows,
         NEW p \in DOMAIN sessions[s].windows[w].panes, PaneExits(s, w, p)
  PROVE  StepOK
<1>. DEFINE old == sessions[s].windows[w]
            pane == [old.panes[p] EXCEPT !.exited = TRUE]
            window == [old EXCEPT !.panes[p] = pane]
<1>1. WindowOK(old, nextPane) /\ nextPane \in Nat \ {0}
  BY WindowInTree DEF IInv
<1>2. old.panes[p] \in Pane /\ p \in DOMAIN old.panes
  BY <1>1 DEF WindowOK, WindowShaped, WindowTyped, PanesTyped
<1>3. /\ sessions' = [sessions EXCEPT ![s].windows[w] = window]
      /\ reply' \in {"none", "ok", "err"} /\ UNCHANGED counters
  <2>1. window = [old EXCEPT !.panes[p].exited = TRUE]
    OBVIOUS
  <2>. QED
    BY <2>1 DEF PaneExits, IInv
<1>. HIDE DEF old
<1>4. /\ pane \in Pane /\ pane.index = old.panes[p].index
      /\ pane.name = old.panes[p].name /\ pane.size = old.panes[p].size
  BY <1>2 DEF Pane
<1>5. \A q \in DOMAIN old.panes \ {p} : old.panes[q].name # pane.name
  BY <1>1, <1>2, <1>4 DEF WindowOK, WindowShaped, Addressable, NamesDistinct
<1>. HIDE DEF pane
<1>6. /\ WindowOK(window, nextPane) /\ window.name = old.name
      /\ window.index = old.index /\ DOMAIN window.panes = DOMAIN old.panes
  BY <1>1, <1>2, <1>4, <1>5, ChangedPaneOK
<1>. HIDE DEF window
<1>7. FitsIn(window, sessions[s].windows, w, nextPane, nextPane)
  BY <1>6, WindowInTree DEF FitsIn, old
<1>. QED
  BY <1>3, <1>7, CommitWindowStep

\* ResizePane, refused or clamped.
LEMMA ResizePaneStep ==
  ASSUME IInv, NEW s \in DOMAIN sessions, NEW w \in DOMAIN sessions[s].windows,
         NEW p \in DOMAIN sessions[s].windows[w].panes, NEW delta \in Deltas,
         ResizePane(s, w, p, delta)
  PROVE  StepOK
<1>. DEFINE old == sessions[s].windows[w]
            window == Resize(old, p, delta)
<1>1. delta \in Int
  BY TreeAssumption DEF TreeAssumption
<1>2. CASE ~CanResize(old, p, delta)
  BY <1>2, SameTree DEF ResizePane, Refuse
<1>3. CASE CanResize(old, p, delta)
  <2>1. /\ sessions' = [sessions EXCEPT ![s].windows[w] = window]
        /\ reply' = "ok" /\ UNCHANGED counters
    BY <1>3 DEF ResizePane, Commit
  <2>2. WindowOK(old, nextPane) /\ p \in DOMAIN old.panes
    BY WindowInTree
  <2>. HIDE DEF old
  <2>3. /\ WindowOK(window, nextPane) /\ window.name = old.name
        /\ window.index = old.index /\ DOMAIN window.panes = DOMAIN old.panes
    BY <1>1, <1>3, <2>2, ResizedOK DEF IInv
  <2>. HIDE DEF window
  <2>4. FitsIn(window, sessions[s].windows, w, nextPane, nextPane)
    BY <2>3, WindowInTree DEF FitsIn, old
  <2>. QED
    BY <2>1, <2>4, CommitWindowStep
<1>. QED
  BY <1>2, <1>3

\* The deletions; the last window and the last pane are refused.
LEMMA DeleteStep ==
  ASSUME IInv,
         \/ \E s : DeleteSession(s)
         \/ \E s \in DOMAIN sessions : \E w \in DOMAIN sessions[s].windows :
              \/ DeleteWindow(s, w)
              \/ \E p \in DOMAIN sessions[s].windows[w].panes :
                   DeletePane(s, w, p)
  PROVE  StepOK
<1>1. ASSUME NEW s, DeleteSession(s)
      PROVE  StepOK
  <2>1. CASE s \notin SessionIds
    BY <1>1, <2>1, SameTree DEF DeleteSession, Refuse
  <2>2. CASE s \in SessionIds
    <3>. DEFINE tree == Remove(sessions, s)
    <3>1. /\ TreeOK(tree, nextSession, nextWindow, nextPane)
          /\ GainsOnly(tree, sessions, nextSession, nextWindow, nextPane)
      BY RemovedSessionOK DEF IInv
    <3>. QED
      BY <1>1, <2>2, <3>1, CommitStep DEF DeleteSession, Commit
  <2>. QED
    BY <2>1, <2>2
<1>2. ASSUME NEW s \in DOMAIN sessions, NEW w \in DOMAIN sessions[s].windows,
             DeleteWindow(s, w)
      PROVE  StepOK
  <2>1. CASE Cardinality(WindowsOf(s)) = 1
    BY <1>2, <2>1, SameTree DEF DeleteWindow, Refuse
  <2>2. CASE Cardinality(WindowsOf(s)) # 1
    <3>. DEFINE old == sessions[s]
                session == WithoutWindow(old, w)
                tree == [sessions EXCEPT ![s] = session]
    <3>1. SessionOK(old, nextWindow, nextPane)
      BY WindowInTree
    <3>2. DOMAIN old.windows # {w}
      BY <2>2, FS_Singleton DEF WindowsOf
    <3>3. sessions' = tree /\ reply' = "ok" /\ UNCHANGED counters
      BY <1>2, <2>2 DEF DeleteWindow, Commit
    <3>4. /\ w \in DOMAIN old.windows
          /\ nextWindow \in Nat \ {0} /\ nextPane \in Nat \ {0}
      BY DEF IInv
    <3>. HIDE DEF old
    <3>5. /\ SessionOK(session, nextWindow, nextPane)
          /\ session.name = old.name
          /\ session.windows = Remove(old.windows, w)
      BY <3>1, <3>2, <3>4, WithoutWindowOK
    <3>. HIDE DEF session
    <3>6. \A t \in DOMAIN sessions \ {s} : sessions[t].name # session.name
      BY <3>5 DEF IInv, TreeOK, NamesDistinct, old
    <3>7. /\ TreeOK(tree, nextSession, nextWindow, nextPane)
          /\ GainsOnly(tree, sessions, nextSession, nextWindow, nextPane)
      BY <3>5, <3>6, ChangedSessionOK DEF IInv, Remove, Restrict, old
    <3>. QED
      BY <3>3, <3>7, CommitStep
  <2>. QED
    BY <2>1, <2>2
<1>3. ASSUME NEW s \in DOMAIN sessions, NEW w \in DOMAIN sessions[s].windows,
             NEW p \in DOMAIN sessions[s].windows[w].panes,
             DeletePane(s, w, p)
      PROVE  StepOK
  <2>1. CASE Cardinality(PanesOf(s, w)) = 1
    BY <1>3, <2>1, SameTree DEF DeletePane, Refuse
  <2>2. CASE Cardinality(PanesOf(s, w)) # 1
    <3>. DEFINE old == sessions[s].windows[w]
                window == WithoutPane(old, p)
    <3>1. WindowOK(old, nextPane) /\ p \in DOMAIN old.panes
      BY WindowInTree
    <3>2. DOMAIN old.panes # {p}
      BY <2>2, FS_Singleton DEF PanesOf
    <3>3. /\ sessions' = [sessions EXCEPT ![s].windows[w] = window]
          /\ reply' \in {"ok", "err"} /\ UNCHANGED counters
      BY <1>3, <2>2 DEF DeletePane
    <3>. HIDE DEF old
    <3>4. /\ WindowOK(window, nextPane)
          /\ window.name = old.name /\ window.index = old.index
          /\ DOMAIN window.panes = DOMAIN old.panes \ {p}
      BY <3>1, <3>2, WithoutPaneOK DEF IInv
    <3>. HIDE DEF window
    <3>5. FitsIn(window, sessions[s].windows, w, nextPane, nextPane)
      BY <3>4, WindowInTree DEF FitsIn, old
    <3>. QED
      BY <3>3, <3>5, CommitWindowStep
  <2>. QED
    BY <2>1, <2>2
<1>. QED
  BY <1>1, <1>2, <1>3

-------------------------------------------------------------------------------
\* The daemon starts with no session.
LEMMA InvInit == TreeInit => IInv
BY DEF TreeInit, IInv, TreeOK, NamesDistinct, SessionsApart, Range

\* One command: the case analysis of handle_request.
LEMMA CommandStep ==
  ASSUME IInv, Command
  PROVE  StepOK
<1>1. CASE SessionCommand
  <2>1. CASE \E name \in UserNames \cup {Unnamed} : CreateSession(name)
    BY <2>1, CreateSessionStep
  <2>2. CASE \E s \in 1 .. MaxSession :
               \E name \in UserNames \cup {Unnamed} : CreateWindow(s, name)
    BY <2>2, CreateWindowStep
  <2>3. CASE \E s \in 1 .. MaxSession :
               \E name \in UserNames : RenameSession(s, name)
    BY <2>3, RenameStep
  <2>4. CASE \E s \in 1 .. MaxSession : DeleteSession(s)
    BY <2>4, DeleteStep
  <2>. QED
    BY <1>1, <2>1, <2>2, <2>3, <2>4 DEF SessionCommand
<1>2. ASSUME NEW s \in DOMAIN sessions, NEW w \in DOMAIN sessions[s].windows,
             WindowCommand(s, w)
      PROVE  StepOK
  <2>1. CASE \E name \in UserNames \cup {Unnamed},
                layout \in SplitLayouts \cup {"none"} :
               CreatePane(s, w, name, layout)
    BY <2>1, CreatePaneStep
  <2>2. CASE SelectWindow(s, w)
    BY <2>2, SelectStep
  <2>3. CASE \E name \in UserNames : RenameWindow(s, w, name)
    BY <2>3, RenameStep
  <2>4. CASE DeleteWindow(s, w)
    BY <2>4, DeleteStep
  <2>. QED
    BY <1>2, <2>1, <2>2, <2>3, <2>4 DEF WindowCommand
<1>3. ASSUME NEW s \in DOMAIN sessions, NEW w \in DOMAIN sessions[s].windows,
             NEW p \in DOMAIN sessions[s].windows[w].panes,
             PaneCommand(s, w, p)
      PROVE  StepOK
  <2>1. CASE SelectPane(s, w, p)
    BY <2>1, SelectStep
  <2>2. CASE \E name \in UserNames : RenamePane(s, w, p, name)
    BY <2>2, RenameStep
  <2>3. CASE \E delta \in Deltas : ResizePane(s, w, p, delta)
    BY <2>3, ResizePaneStep
  <2>4. CASE DeletePane(s, w, p)
    BY <2>4, DeleteStep
  <2>. QED
    BY <1>3, <2>1, <2>2, <2>3, <2>4 DEF PaneCommand
<1>4. CASE Input \/ Query \/ UnresolvedTarget
  BY <1>4, SameTree DEF Input, SendInput, Query, UnresolvedTarget, Refuse
<1>. QED
  BY <1>1, <1>2, <1>3, <1>4 DEF Command, Change, SessionIds, WindowsOf, PanesOf

\* Collecting runtime events marks panes.
LEMMA CollectStep ==
  ASSUME IInv, Collect
  PROVE  StepOK
BY PaneExitsStep DEF Collect, SessionIds, WindowsOf, PanesOf

\* The invariant is inductive.
LEMMA InvNext ==
  ASSUME IInv, [TreeNext]_treeVars
  PROVE  IInv'
<1>1. CASE UNCHANGED treeVars
  BY <1>1 DEF treeVars, counters, IInv
<1>. QED
  BY <1>1, CommandStep, CollectStep DEF TreeNext, StepOK

\* The inductive invariant holds in every reachable state.
THEOREM InductiveInvariant == TreeSpec => []IInv
<1>. QED
  BY InvInit, InvNext, PTL DEF TreeSpec

\* Type correctness: every id in the tree was given out by its counter, and
\* names, indexes, sizes and pointers are of their types.
THEOREM TypeCorrect == TreeSpec => []TypeOK
<1>1. IInv => TypeOK
  BY InvImplies
<1>. QED
  BY <1>1, InductiveInvariant, PTL

\* No command leaves two sessions, two windows of a session or two panes of a
\* window with one name.
THEOREM Addressing == TreeSpec => []NamesUnique
<1>1. IInv => NamesUnique
  BY InvImplies
<1>. QED
  BY <1>1, InductiveInvariant, PTL

\* Nor with one index, although the next index is computed from what is left.
THEOREM Indexing == TreeSpec => []IndexesUnique
<1>1. IInv => IndexesUnique
  BY InvImplies
<1>. QED
  BY <1>1, InductiveInvariant, PTL

\* Active windows and panes are live, hence no session and no window is empty.
THEOREM ActiveAlwaysLive == TreeSpec => []ActiveIsLive
<1>1. IInv => ActiveIsLive
  BY InvImplies
<1>. QED
  BY <1>1, InductiveInvariant, PTL

\* No window is in two sessions and no pane in two windows.
THEOREM IdsAlwaysLiveOnce == TreeSpec => []IdsLiveOnce
<1>1. IInv => IdsLiveOnce
  BY InvImplies
<1>. QED
  BY <1>1, InductiveInvariant, PTL

\* Indexes stay below ids, and layouts say whether a window is split.
THEOREM IndexesAndLayouts == TreeSpec => [](IndexBelowId /\ LayoutMatchesPanes)
<1>1. IInv => IndexBelowId /\ LayoutMatchesPanes
  BY InvImplies
<1>. QED
  BY <1>1, InductiveInvariant, PTL

\* The sizes of the panes of a window add up to the whole of it, whatever was
\* created, deleted and resized in whatever order.
THEOREM SizesAlwaysFill == TreeSpec => []SizesFillWindow
<1>1. IInv => SizesFillWindow
  BY InvImplies
<1>. QED
  BY <1>1, InductiveInvariant, PTL

\* An id that was not there and is the next one lies between the counters.
LEMMA NextIdIsNew ==
  ASSUME NEW next \in Nat, NEW later \in Nat, NEW old, NEW ids,
         ids \subseteq old \cup {next}, ids \subseteq 1 .. later - 1
  PROVE  \A id \in ids \ old : id >= next /\ id < later
OBVIOUS

\* Ids are given out once, also after what they named is gone.  A step adds
\* what GainsOnly allows, and the invariant of the next state has the counters
\* past it.
THEOREM IdsGivenOnce == TreeSpec => IdsNeverReused
<1>. DEFINE Fresh ==
       /\ nextSession <= nextSession' /\ nextWindow <= nextWindow'
       /\ nextPane <= nextPane'
       /\ \A s \in SessionIds' \ SessionIds :
            s >= nextSession /\ s < nextSession'
       /\ \A w \in LiveWindows' \ LiveWindows :
            w >= nextWindow /\ w < nextWindow'
       /\ \A p \in LivePanes' \ LivePanes :
            p >= nextPane /\ p < nextPane'
<1>1. ASSUME IInv, TreeNext
      PROVE  Fresh
  <2>1. StepOK
    BY <1>1, CommandStep, CollectStep DEF TreeNext
  <2>2. /\ SessionIds' \subseteq SessionIds \cup {nextSession}
        /\ LiveWindows' \subseteq LiveWindows \cup {nextWindow}
        /\ LivePanes' \subseteq LivePanes \cup {nextPane}
    BY <2>1 DEF StepOK, GainsOnly, SessionIds, LiveWindows, LivePanes,
                WindowsOf, PanesOf
  <2>3. /\ SessionIds' \subseteq 1 .. nextSession' - 1
        /\ LiveWindows' \subseteq 1 .. nextWindow' - 1
        /\ LivePanes' \subseteq 1 .. nextPane' - 1
    <3>1. TreeOK(sessions', nextSession', nextWindow', nextPane')
      BY <2>1 DEF StepOK, IInv
    <3>2. /\ DOMAIN sessions' \subseteq 1 .. nextSession' - 1
          /\ \A s \in DOMAIN sessions' :
               /\ DOMAIN sessions'[s].windows \subseteq 1 .. nextWindow' - 1
               /\ \A w \in DOMAIN sessions'[s].windows :
                    DOMAIN sessions'[s].windows[w].panes
                      \subseteq 1 .. nextPane' - 1
      BY <2>1, <3>1, TreeBounded DEF StepOK, IInv
    <3>. QED
      BY <3>2 DEF SessionIds, LiveWindows, LivePanes, WindowsOf, PanesOf
  <2>4. /\ nextSession \in Nat /\ nextSession <= nextSession'
        /\ nextWindow \in Nat /\ nextWindow <= nextWindow'
        /\ nextPane \in Nat /\ nextPane <= nextPane'
        /\ nextSession' \in Nat /\ nextWindow' \in Nat /\ nextPane' \in Nat
    BY <1>1, <2>1 DEF StepOK, IInv
  <2>5. \A s \in SessionIds' \ SessionIds :
          s >= nextSession /\ s < nextSession'
    BY <2>2, <2>3, <2>4, NextIdIsNew
  <2>6. \A w \in LiveWindows' \ LiveWindows :
          w >= nextWindow /\ w < nextWindow'
    BY <2>2, <2>3, <2>4, NextIdIsNew
  <2>7. \A p \in LivePanes' \ LivePanes :
          p >= nextPane /\ p < nextPane'
    BY <2>2, <2>3, <2>4, NextIdIsNew
  <2>. QED
    BY <2>4, <2>5, <2>6, <2>7
<1>. QED
  BY <1>1, InductiveInvariant, PTL DEF TreeSpec, IdsNeverReused
===============================================================================
