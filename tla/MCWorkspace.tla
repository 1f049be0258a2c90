---------------------------- MODULE MCWorkspace ----------------------------
(***************************************************************************)
(* Workspace for TLC.                                                      *)
(***************************************************************************)
EXTENDS Workspace, TLC

MCFeatures ==
  [tiling   |-> {"away"},
   heights  |-> {"sizes", "tabs", "maximized"},
   covering |-> {"fullscreen", "tabs", "stale"},
   gestures |-> {"fullscreen", "view", "gestures", "resize"},
   stacking |-> {"floating", "dialogs"},
   resizing |-> {"floating", "resize", "sizes"},
   mixed    |-> {"floating", "fullscreen", "maximized", "away"}]

MCMaxWins ==
  [tiling |-> 3, heights |-> 2, covering |-> 2, gestures |-> 2,
   stacking |-> 3, resizing |-> 2, mixed |-> 2]

WinSymmetry == Permutations(Win)

=============================================================================
