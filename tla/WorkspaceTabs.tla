----------------------------- MODULE WorkspaceTabs -----------------------------
(***************************************************************************)
(* The tabs of one window and the split panes they sit in: the store of    *)
(* client/src/state/tabs.ts over the tree of state/workspace-layout.ts.    *)
(* Every operation is one synchronous update of the store, so it is an     *)
(* operator on the window's record and the action assigns its result.      *)
(*                                                                         *)
(* The tree is a function from panes to places.  A place is the sequence   *)
(* of branches from the root, each named by the side it is on, so that a   *)
(* split is horizontal when its branches are "left" and "right".  Ratios   *)
(* are left out: they only choose among the panes that touch an edge.      *)
(***************************************************************************)
EXTENDS Integers, FiniteSets, SequencesExt, Sums

CONSTANTS Tab, Pane, Nobody,
          MaxSize       \* bound: tabs, panes and open files together

ASSUME TabsAssumption ==
  /\ Nobody \notin Tab \cup Pane
  /\ Pane # {}
  /\ MaxSize \in Nat

VARIABLE window     \* the TabsState

(***************************************************************************)
(* Lists.                                                                  *)
(***************************************************************************)
\* The elements of a finite set in an order, the set of its pairs.
InOrder(S, order) ==
  [n \in 1..Cardinality(S) |->
     CHOOSE x \in S : Cardinality({y \in S : <<y, x>> \in order}) = n - 1]

\* What a list has at some of its places.
AtPlaces(s, places) ==
  LET place == InOrder(places, {pair \in places \X places : pair[1] < pair[2]})
  IN [n \in DOMAIN place |-> s[place[n]]]

Directions == {"left", "right", "up", "down"}
Opposite == [left |-> "right", right |-> "left", up |-> "down", down |-> "up"]
ComesFirst == {"left", "up"}     \* placesPaneFirst()

(***************************************************************************)
(* The tree of panes: [at: where each pane is, front: its activeTabId].    *)
(***************************************************************************)
Panes(root) == DOMAIN root.at

\* The tree of one pane (initialPane()).
OnePane(p) == [at |-> [q \in {p} |-> <<>>], front |-> [q \in {p} |-> Nobody]]

Within(root, place) == {p \in Panes(root) : IsPrefix(place, root.at[p])}

\* firstPane() of the subtree at a place.
FirstPane(root, place) ==
  CHOOSE p \in Within(root, place) :
    \A i \in (Len(place) + 1)..Len(root.at[p]) : root.at[p][i] \in ComesFirst

\* Reading order (panesInOrder()).
Precedes(s, t) ==
  \E i \in DOMAIN s \cap DOMAIN t :
    /\ SubSeq(s, 1, i - 1) = SubSeq(t, 1, i - 1)
    /\ s[i] \in ComesFirst /\ t[i] \notin ComesFirst

SetFront(root, p, id) == [root EXCEPT !.front[p] = id]

\* insertSplit()
InsertSplit(root, p, direction, new) ==
  [at |-> [q \in Panes(root) \cup {new} |->
             CASE q = new -> Append(root.at[p], direction)
               [] q = p -> Append(root.at[p], Opposite[direction])
               [] OTHER -> root.at[q]],
   front |-> [q \in Panes(root) \cup {new} |-> IF q = new THEN Nobody ELSE root.front[q]]]

\* The branch a pane leaves behind is one shorter.
Lifted(place, split) ==
  IF IsPrefix(split, place) THEN split \o SubSeq(place, Len(split) + 2, Len(place)) ELSE place

\* Variant: what the pane showed is left in the tree.
RemovePaneHalf(root, p) ==
  [at |-> [q \in Panes(root) \ {p} |-> Lifted(root.at[q], Front(root.at[p]))],
   front |-> root.front]

\* removePane(): the sibling takes the place of the split.
RemovePane(root, p) ==
  [at |-> [q \in Panes(root) \ {p} |-> Lifted(root.at[q], Front(root.at[p]))],
   front |-> Restrict(root.front, Panes(root) \ {p})]

\* collapsePane() names the pane that is focused instead.
SiblingOf(root, p) == Append(Front(root.at[p]), Opposite[Last(root.at[p])])
FocusAfter(root, p) == FirstPane(root, SiblingOf(root, p))

(***************************************************************************)
(* The ordered tabs.                                                       *)
(***************************************************************************)
NewTab(id, p, session) ==
  [id |-> id, pane |-> p, pinned |-> FALSE, session |-> session, editors |-> 0, shown |-> FALSE]

Ids(tabs) == {tabs[i].id : i \in DOMAIN tabs}
InPane(tabs, p) == AtPlaces(tabs, {i \in DOMAIN tabs : tabs[i].pane = p})
Without(tabs, id) == AtPlaces(tabs, {i \in DOMAIN tabs : tabs[i].id # id})
IndexOf(tabs, id) == CHOOSE i \in DOMAIN tabs : tabs[i].id = id
Named(tabs, id) == tabs[IndexOf(tabs, id)]
Edit(tabs, tab) == [i \in DOMAIN tabs |-> IF tabs[i].id = tab.id THEN tab ELSE tabs[i]]

\* The tab that comes forward when the one at an index left these.
TakesOver(remaining, index) ==
  IF remaining = <<>> THEN Nobody ELSE remaining[Min({index, Len(remaining)})].id

\* terminalIsVisible()
TerminalIsVisible(tab, root, zoomed) ==
  /\ tab.editors = 0 \/ tab.shown
  /\ zoomed \in {Nobody, tab.pane}
  /\ tab.pane \in Panes(root) /\ root.front[tab.pane] = tab.id

\* clearVisibleOutput()
ClearVisible(unread, tabs, root, zoomed) ==
  unread \ {tab.id : tab \in {t \in ToSet(tabs) : TerminalIsVisible(t, root, zoomed)}}

\* insertIntoPane()
InsertIntoPane(tabs, tab, p, target, edge) ==
  LET there == InPane(tabs, p)
      hits == {i \in DOMAIN there : there[i].id = target /\ there[i].pinned = tab.pinned}
      unpinned == {i \in DOMAIN there : ~there[i].pinned}
      place == IF hits # {} THEN Max(hits) + (IF edge = "after" THEN 1 ELSE 0)
               ELSE IF tab.pinned /\ unpinned # {} THEN Min(unpinned)
               ELSE Len(there) + 1
      index == IF place <= Len(there) THEN IndexOf(tabs, there[place].id)
               ELSE IF there # <<>> THEN IndexOf(tabs, Last(there).id) + 1
               ELSE Len(tabs) + 1
  IN InsertAt(tabs, index, [tab EXCEPT !.pane = p])

(***************************************************************************)
(* The operations, on the window w.                                        *)
(***************************************************************************)
\* open() and openEmpty()
Open(w, id, session) ==
  LET p == IF w.focus \in Panes(w.root) THEN w.focus ELSE FirstPane(w.root, <<>>)
  IN [w EXCEPT !.tabs = Append(@, NewTab(id, p, session)), !.root = SetFront(@, p, id),
               !.focus = p, !.activeId = id]

ReplaceEmpty(w, tab) ==
  [w EXCEPT !.tabs = Edit(@, [NewTab(tab.id, tab.pane, TRUE) EXCEPT !.pinned = tab.pinned])]

\* What close() and closePane() do to the rest when a pane goes.
Collapsed(w, p, tabs) ==
  LET root == RemovePane(w.root, p)
      next == FocusAfter(w.root, p)
      zoomed == IF w.zoomed = p THEN Nobody ELSE w.zoomed
  IN [tabs |-> tabs, root |-> root, zoomed |-> zoomed,
      unread |-> ClearVisible(w.unread \cap Ids(tabs), tabs, root, zoomed),
      focus |-> IF w.focus = p THEN next ELSE w.focus,
      activeId |-> IF w.focus = p THEN w.root.front[next] ELSE w.activeId]

Close(w, id) ==
  LET p == Named(w.tabs, id).pane
      tabs == Without(w.tabs, id)
      replacement == TakesOver(InPane(tabs, p), IndexOf(InPane(w.tabs, p), id))
      front == IF w.root.front[p] = id THEN replacement ELSE w.root.front[p]
      root == SetFront(w.root, p, front)
  IN IF replacement = Nobody /\ Cardinality(Panes(w.root)) > 1 THEN Collapsed(w, p, tabs)
     ELSE [w EXCEPT !.tabs = tabs, !.root = root,
                    !.unread = ClearVisible(@ \ {id}, tabs, root, w.zoomed),
                    !.activeId = IF @ = id THEN front ELSE @]

ClosePane(w, p) ==
  Collapsed(w, p, AtPlaces(w.tabs, {i \in DOMAIN w.tabs : w.tabs[i].pane # p}))

FocusPane(w, p) ==
  LET zoomed == IF w.zoomed = p THEN p ELSE Nobody
  IN [w EXCEPT !.unread = ClearVisible(@, w.tabs, w.root, zoomed), !.focus = p,
               !.activeId = w.root.front[p], !.zoomed = zoomed]

Activate(w, id) ==
  LET p == Named(w.tabs, id).pane
  IN FocusPane([w EXCEPT !.root = SetFront(@, p, id)], p)

\* The next or the previous one of a sequence, around its ends.
Around(s, i, backwards) == s[((i + (IF backwards THEN -2 ELSE 0) + Len(s)) % Len(s)) + 1]

Cycle(w, backwards) ==
  LET there == InPane(w.tabs, w.focus)
      next == Around(there, IndexOf(there, w.activeId), backwards).id
  IN [w EXCEPT !.unread = @ \ {next}, !.activeId = next, !.root = SetFront(@, w.focus, next)]

\* The store is left alone when the order and the panes of the tabs stay.
MoveTabToPane(w, id, p, target, edge) ==
  LET source == Named(w.tabs, id).pane
      tabs == InsertIntoPane(Without(w.tabs, id), Named(w.tabs, id), p, target, edge)
      remaining == InPane(tabs, source)
      front == IF w.root.front[source] # id THEN w.root.front[source]
               ELSE TakesOver(remaining, IndexOf(InPane(w.tabs, source), id))
      moved == SetFront(SetFront(w.root, source, front), p, id)
      root == IF remaining = <<>> THEN RemovePane(moved, source) ELSE moved
      zoomed == IF w.zoomed = p THEN p ELSE Nobody
  IN IF source = p THEN [w EXCEPT !.tabs = tabs]
     ELSE [tabs |-> tabs, root |-> root, zoomed |-> zoomed, focus |-> p, activeId |-> id,
           unread |-> ClearVisible(w.unread, tabs, root, zoomed)]

SetPinned(w, id, pinned) ==
  LET tab == [Named(w.tabs, id) EXCEPT !.pinned = pinned]
      others == Without(InPane(w.tabs, tab.pane), id)
      unpinned == {i \in DOMAIN others : ~others[i].pinned}
      there == InsertAt(others, IF unpinned = {} THEN Len(others) + 1 ELSE Min(unpinned), tab)
      Nth(i) == Cardinality({j \in 1..i : w.tabs[j].pane = tab.pane})
  IN [w EXCEPT !.tabs = [i \in DOMAIN @ |-> IF @[i].pane = tab.pane THEN there[Nth(i)] ELSE @[i]]]

Split(w, p, direction, new) ==
  LET root == InsertSplit(w.root, p, direction, new)
  IN [w EXCEPT !.root = root, !.unread = ClearVisible(@, w.tabs, root, Nobody),
               !.focus = new, !.activeId = Nobody, !.zoomed = Nobody]

\* Variant: the tab that comes to fill the canvas stays marked.
ToggleZoomMarked(w, p) ==
  [w EXCEPT !.zoomed = IF w.zoomed = p THEN Nobody ELSE p, !.focus = p,
            !.activeId = w.root.front[p]]

ToggleZoom(w, p) ==
  LET zoomed == IF w.zoomed = p THEN Nobody ELSE p
  IN [w EXCEPT !.unread = ClearVisible(@, w.tabs, w.root, zoomed), !.zoomed = zoomed,
               !.focus = p, !.activeId = w.root.front[p]]

\* moveTabToNewPane()
MoveToNewPane(w, id, direction, new) ==
  MoveTabToPane(Split(w, Named(w.tabs, id).pane, direction, new), id, new, Nobody, "after")

\* splitActivePane() with a session to carry into the new pane.
SplitActivePane(w, direction, new, id) == Open(Split(w, w.focus, direction, new), id, TRUE)

\* adoptTransferredTab(): the tab keeps what it had in the other window.
Adopt(w, tab, p, target, edge) ==
  Activate([w EXCEPT !.tabs = InsertIntoPane(@, tab, p, target, edge)], tab.id)

WithTabs(w, tabs) ==
  [w EXCEPT !.tabs = tabs, !.unread = ClearVisible(@, tabs, w.root, w.zoomed)]

\* openEditor() of one more file, or activateEditor() of an open one.  Neither
\* looks at the marks: what they do hides a terminal.
ShowEditor(w, tab, more) ==
  [w EXCEPT !.tabs = Edit(@, [tab EXCEPT !.editors = @ + more, !.shown = FALSE])]

CloseEditor(w, tab) ==
  WithTabs(w, Edit(w.tabs, [tab EXCEPT !.editors = @ - 1, !.shown = @ /\ tab.editors > 1]))

ShowTerminal(w, tab) == WithTabs(w, Edit(w.tabs, [tab EXCEPT !.shown = TRUE]))

NotifyOutput(w, id) ==
  [w EXCEPT !.unread = IF TerminalIsVisible(Named(w.tabs, id), w.root, w.zoomed) THEN @ \ {id}
                       ELSE @ \cup {id}]

\* serializeWorkspace() leaves out the empty tabs, and saves the tabs of one pane
\* after those of another.
SavedTabs(tabs) == {i \in DOMAIN tabs : tabs[i].session}
SavedOrder(tabs, root) ==
  {pair \in SavedTabs(tabs) \X SavedTabs(tabs) :
     LET p == tabs[pair[1]].pane
         q == tabs[pair[2]].pane
     IN (p = q /\ pair[1] < pair[2]) \/ Precedes(root.at[p], root.at[q])}
Cleared(tab) == [tab EXCEPT !.editors = 0, !.shown = FALSE]
Restored(tabs, root) ==
  LET place == InOrder(SavedTabs(tabs), SavedOrder(tabs, root))
  IN [n \in DOMAIN place |-> Cleared(tabs[place[n]])]

\* A pane whose active tab was empty shows its first tab.
RestoredFront(tabs, root, p) ==
  LET there == {i \in SavedTabs(tabs) : tabs[i].pane = p}
  IN IF root.front[p] \in {tabs[i].id : i \in there} THEN root.front[p]
     ELSE IF there = {} THEN Nobody ELSE tabs[Min(there)].id

\* restore() of what serializeWorkspace() returned.
Reopen(w) ==
  LET focus == IF w.focus \in Panes(w.root) THEN w.focus ELSE FirstPane(w.root, <<>>)
  IN [tabs |-> Restored(w.tabs, w.root),
      root |-> [at |-> w.root.at,
                front |-> [p \in Panes(w.root) |-> RestoredFront(w.tabs, w.root, p)]],
      focus |-> focus, activeId |-> RestoredFront(w.tabs, w.root, focus),
      zoomed |-> Nobody, unread |-> {}]

\* A split: the places of n panes, the first half of them on its first side.
Beside(first, second, half, n, side) ==
  [i \in 1..n |-> IF i <= half THEN <<side>> \o first[i]
                  ELSE <<Opposite[side]>> \o second[i - half]]

\* buildSessionSetTree() of n panes, at either depth, from those of fewer.
SetTree(layout, places, n) ==
  [depth \in 0..1 |->
     IF n = 1 THEN << <<>> >>
     ELSE LET half == (n + 1) \div 2
              side == IF layout = "rows" \/ (layout = "grid" /\ depth = 1) THEN "up" ELSE "left"
          IN Beside(places[half][1 - depth], places[n - half][1 - depth], half, n, side)]
SetPlaces(layout, N) ==
  LET places[n \in 1..N] == SetTree(layout, places, n)
  IN places[N][0]

IndexIn(s, x) == CHOOSE i \in DOMAIN s : s[i] = x
SetRoot(ids, panes, layout) ==
  LET places == SetPlaces(layout, Len(panes))
  IN [at |-> [p \in ToSet(panes) |-> places[IndexIn(panes, p)]],
      front |-> [p \in ToSet(panes) |-> IF Len(panes) = 1 THEN Last(ids)
                                        ELSE ids[IndexIn(panes, p)]]]

\* launchSet() of sessions named by the sequence ids, in these panes.
LaunchSet(ids, panes, layout) ==
  LET root == SetRoot(ids, panes, layout)
      focus == FirstPane(root, <<>>)
  IN [tabs |-> [i \in DOMAIN ids |-> NewTab(ids[i], panes[Min({i, Len(panes)})], TRUE)],
      root |-> root, focus |-> focus, activeId |-> root.front[focus], zoomed |-> Nobody,
      unread |-> {}]

(***************************************************************************)
(* What the user, the shells and the other windows may do.                 *)
(***************************************************************************)
TabsInit ==
  \E p \in Pane :
    window = [tabs |-> <<>>, root |-> OnePane(p), focus |-> p, activeId |-> Nobody,
              zoomed |-> Nobody, unread |-> {}]

Here == ToSet(window.tabs)
FreshTab == Tab \ Ids(window.tabs)
FreshPane == Pane \ Panes(window.root)

\* Whether so many more tabs, panes and open files stay within the bound.
Room(more) ==
  Len(window.tabs) + Cardinality(Panes(window.root))
    + SumOf([i \in DOMAIN window.tabs |-> window.tabs[i].editors]) + more <= MaxSize

\* Next to a tab of a pane, on one of its sides, or at the end of its group.
Spots(p, id) ==
  {<<Nobody, "after">>} \cup ((Ids(InPane(window.tabs, p)) \ {id}) \X {"before", "after"})

OpensTab ==
  \/ Room(1) /\ \E id \in FreshTab, session \in BOOLEAN : window' = Open(window, id, session)
  \/ \E tab \in Here : ~tab.session /\ window' = ReplaceEmpty(window, tab)
  \/ \E id \in FreshTab, p \in Panes(window.root), pinned, shown \in BOOLEAN, editors \in 0..1 :
       \E spot \in Spots(p, id) :
         /\ Room(1 + editors) /\ (shown => editors > 0)
         /\ window' = Adopt(window, [NewTab(id, p, TRUE) EXCEPT !.pinned = pinned,
                                       !.editors = editors, !.shown = shown],
                            p, spot[1], spot[2])

Closes ==
  \/ \E tab \in Here : window' = Close(window, tab.id)
  \/ Cardinality(Panes(window.root)) > 1
     /\ \E p \in Panes(window.root) : window' = ClosePane(window, p)

\* activateTabIndex() activates a tab it counts out; cyclePane() and
\* focusPaneDirection() focus a pane they find.
Focuses ==
  \/ \E tab \in Here : window' = Activate(window, tab.id)
  \/ \E p \in Panes(window.root) : window' = FocusPane(window, p)
  \/ /\ Len(InPane(window.tabs, window.focus)) > 1
     /\ \E backwards \in BOOLEAN : window' = Cycle(window, backwards)
  \/ /\ Cardinality(Panes(window.root)) > 1 \/ window.zoomed # Nobody
     /\ \E p \in Panes(window.root) : window' = ToggleZoom(window, p)

\* moveTabWithinPane() and reorderTab() move a tab next to one of its own group,
\* moveTabToDirection() moves it to the pane that borders, or to a new one.
MovesTab ==
  \/ \E tab \in Here, p \in Panes(window.root) :
       \E spot \in Spots(p, tab.id) :
         window' = MoveTabToPane(window, tab.id, p, spot[1], spot[2])
  \/ \E tab \in Here : window' = SetPinned(window, tab.id, ~tab.pinned)
  \/ \E direction \in Directions, tab \in Here, new \in FreshPane :
       /\ Room(1) /\ Len(InPane(window.tabs, tab.pane)) > 1
       /\ window' = MoveToNewPane(window, tab.id, direction, new)

Splits ==
  \E p \in Panes(window.root), direction \in Directions, new \in FreshPane :
    \/ Room(1) /\ window' = Split(window, p, direction, new)
    \/ /\ p = window.focus /\ window.activeId # Nobody
       /\ Room(2) /\ \E id \in FreshTab : window' = SplitActivePane(window, direction, new, id)

Edits ==
  \E tab \in Here :
    \/ tab.session /\ Room(1) /\ window' = ShowEditor(window, tab, 1)
    \/ tab.editors > 0 /\ window' = ShowEditor(window, tab, 0)
    \/ tab.editors > 0 /\ window' = CloseEditor(window, tab)
    \/ tab.editors > 0 /\ ~tab.shown /\ window' = ShowTerminal(window, tab)

Output == \E tab \in Here : tab.session /\ window' = NotifyOutput(window, tab.id)

Replaces ==
  \/ window' = Reopen(window)
  \/ /\ window.tabs = <<>>     \* what it leaves owes nothing to what it replaces
     /\ \E n \in 1..Cardinality(Tab), layout \in {"tabs", "columns", "rows", "grid"} :
       \E ids \in [1..n -> Tab] :
         \E panes \in [1..(IF layout = "tabs" THEN 1 ELSE n) -> Pane] :
           /\ IsInjective(ids) /\ IsInjective(panes) /\ n + Len(panes) <= MaxSize
           /\ window' = LaunchSet(ids, panes, layout)

TabsNext ==
  OpensTab \/ Closes \/ Focuses \/ MovesTab \/ Splits \/ Edits \/ Output \/ Replaces

TabsSpec == TabsInit /\ [][TabsNext]_window

(***************************************************************************)
(* Properties.                                                             *)
(***************************************************************************)
\* What the window holds has its type.
TabsTypeOK ==
  /\ DOMAIN window = {"tabs", "root", "focus", "activeId", "zoomed", "unread"}
  /\ \A tab \in Here : tab \in [id : Tab, pane : Pane, pinned : BOOLEAN, session : BOOLEAN,
                                editors : 0..MaxSize, shown : BOOLEAN]
  /\ IsInjective([i \in DOMAIN window.tabs |-> window.tabs[i].id])
  /\ Panes(window.root) \subseteq Pane /\ DOMAIN window.root.front = Panes(window.root)
  /\ window.unread \subseteq Tab

\* The places of the panes are the leaves of one binary tree: no pane lies
\* below another, and the other branch of every split holds a pane.
TreeIsWhole(root) ==
  \A p \in Panes(root), q \in Panes(root) :
    LET s == root.at[p]
        t == root.at[q]
    IN /\ IsPrefix(s, t) => p = q
       /\ \A i \in DOMAIN s : Within(root, Append(SubSeq(s, 1, i - 1), Opposite[s[i]])) # {}
       /\ \A i \in DOMAIN s \cap DOMAIN t :
            SubSeq(s, 1, i - 1) = SubSeq(t, 1, i - 1) => t[i] \in {s[i], Opposite[s[i]]}

\* Every tab is in a pane of the tree, and a pane shows one of its own tabs;
\* only an empty pane shows none.
FrontsAreThere ==
  /\ \A tab \in Here : tab.pane \in Panes(window.root)
  /\ \A p \in Panes(window.root) :
       LET there == Ids(InPane(window.tabs, p))
       IN IF there = {} THEN window.root.front[p] = Nobody ELSE window.root.front[p] \in there

\* The keyboard goes to the tab in front of the focused pane, and a pane that
\* fills the canvas is the focused one.
FocusIsFront ==
  /\ window.focus \in Panes(window.root)
  /\ window.activeId = window.root.front[window.focus]
  /\ window.zoomed \in {Nobody, window.focus}

\* "Pinned tabs stay grouped at the start of their pane" (tabs.ts:50).
PinnedFirst ==
  \A i, j \in DOMAIN window.tabs :
    (window.tabs[i].pane = window.tabs[j].pane /\ i < j /\ window.tabs[j].pinned)
      => window.tabs[i].pinned

\* "Terminal tabs with output that arrived while they were not visible"
\* (tabs.ts:151): a marked tab is one of the window that no one can see.
UnreadIsHidden ==
  /\ window.unread \subseteq {tab.id : tab \in {t \in Here : t.session}}
  /\ \A tab \in Here :
       tab.id \in window.unread => ~TerminalIsVisible(tab, window.root, window.zoomed)

\* Whatever sequence of operations led here, the tree, the tabs, the focus, the
\* zoom and the marks agree with each other (tabs.ts).
CanvasIsConsistent ==
  TreeIsWhole(window.root) /\ FrontsAreThere /\ FocusIsFront /\ PinnedFirst /\ UnreadIsHidden
=============================================================================
