---------------------------- MODULE MCWorkspaceTabs ----------------------------
(* One window with up to three tabs in up to three panes. *)
EXTENDS WorkspaceTabs, TLC

Symmetry == Permutations(Tab) \union Permutations(Pane)

\* The tree of a session set is whole for more sessions than the run launches.
ASSUME LaunchedTreesAreWhole ==
  \A n \in 1..7, layout \in {"tabs", "columns", "rows", "grid"} :
    TreeIsWhole([at |-> SetPlaces(layout, n)])
=============================================================================
