------------------------------- MODULE Actions -------------------------------
(***************************************************************************)
(* State::do_action (input/mod.rs): what a bound key or an IPC client asks  *)
(* of the layout, of the screenshot UI and of the cursor.  Two outputs side *)
(* by side; of each output the workspace it shows: its columns, the active  *)
(* one, and whether its active window floats.  Other floating windows and   *)
(* what the other workspaces hold are abstracted: a workspace that comes    *)
(* into view may hold anything.  A direction stands for the two axes, a     *)
(* column for windows and columns.                                          *)
(***************************************************************************)
EXTENDS Naturals, Integers, FiniteSets

CONSTANTS AcColsMax,   \* columns of a workspace
          AcWarp,      \* the values of warp-mouse-to-focus: subset of BOOLEAN
          AcNone

VARIABLES acShown,     \* output -> [cols, at, fa] of its active workspace
          acActive,    \* the active output
          acCursor,    \* the output under the cursor
          acShot,      \* the output of the screenshot UI's selection, or AcNone
          acOnDemand,  \* is a layer surface focused on demand
          acKbd,       \* is the keyboard focus in the layout, as last refreshed
          acWarp,      \* warp-mouse-to-focus
          acDid        \* what came last: an action of a "key" or an "ipc"
                       \* client, a "column-away", or AcNone

acVars == <<acShown, acActive, acCursor, acShot, acOnDemand, acKbd, acWarp, acDid>>

AcOutputs == {1, 2}    \* from left to right
Dirs == {-1, 1}

AcWorkspaces ==
  {w \in [cols : 0..AcColsMax, at : 0..AcColsMax, fa : BOOLEAN] :
     w.at \in (IF w.cols = 0 THEN {0} ELSE 1..w.cols)}

HasTile(w) == w.fa \/ w.cols > 0

AcInit ==
  /\ acShown \in [AcOutputs -> {w \in AcWorkspaces : ~w.fa}]
  /\ acActive = 1 /\ acCursor = 1
  /\ acShot = AcNone /\ acOnDemand = FALSE /\ acKbd = TRUE
  /\ acWarp \in AcWarp
  /\ acDid = AcNone

-----------------------------------------------------------------------------
(* The cursor.                                                              *)

(* move_cursor_to_focused_tile: not while a layer or a dialog has the       *)
(* keyboard, and only if the active workspace has a tile.                   *)
Warps == acWarp /\ acKbd /\ HasTile(acShown'[acActive'])

(* maybe_warp_cursor_to_focus.                                              *)
maybe_warp_cursor_to_focus == acCursor' = IF Warps THEN acActive' ELSE acCursor

\* Mutant: the cursor only moves if a tile is focused there.
WarpOrMoveTo_OnlyTile(o) ==
  acCursor' = IF Warps THEN acActive' ELSE acCursor

(* if !maybe_warp_cursor_to_focus_centered() { move_cursor_to_output(o) }:  *)
(* a cursor already inside the tile is not warped, so it goes to o.         *)
WarpOrMoveTo(o) ==
  acCursor' \in IF ~Warps THEN {o}
                ELSE IF acCursor = acActive' THEN {acActive', o} ELSE {acActive'}

OutputAt(o, d) == {p \in AcOutputs : p = o + d}

-----------------------------------------------------------------------------
(* The layout, as far as the actions ask it.                                *)

CanStep(w, d) == ~w.fa /\ w.at + d \in 1..w.cols
StepAt(w, d) == IF CanStep(w, d) THEN [w EXCEPT !.at = @ + d] ELSE w

RemoveActive(w) ==
  IF w.fa THEN [w EXCEPT !.fa = FALSE]
  ELSE [w EXCEPT !.cols = @ - 1, !.at = IF w.at = w.cols THEN @ - 1 ELSE @]

AddTile(w, floating, activate) ==
  IF floating THEN [w EXCEPT !.fa = @ \/ activate]
  ELSE [w EXCEPT !.cols = @ + 1,
                 !.at = IF activate \/ w.cols = 0 THEN @ + 1 ELSE @,
                 !.fa = @ /\ ~activate]

Room(w, floating) == floating \/ w.cols < AcColsMax

(* move_to_output / move_column_to_output of the active window; `shown`: is *)
(* the target the workspace that output shows.  A workspace without windows *)
(* has nothing to move.                                                     *)
MoveTo(o, activate, shown) ==
  LET w == acShown[acActive]
  IN  IF o = acActive \/ ~HasTile(w)
      THEN UNCHANGED <<acShown, acActive>>
      ELSE /\ shown => Room(acShown[o], w.fa)
           /\ \E seen \in IF shown THEN {AddTile(acShown[o], w.fa, activate)}
                          ELSE IF activate
                               THEN {v \in AcWorkspaces : HasTile(v) /\ v.fa = w.fa}
                               ELSE {acShown[o]} :
                acShown' = [acShown EXCEPT ![acActive] = RemoveActive(w), ![o] = seen]
           /\ acActive' = IF activate THEN o ELSE acActive

(* To another workspace of the active output, which then comes into view if *)
(* the focus follows.                                                       *)
MoveAlong(focus) ==
  LET w == acShown[acActive]
  IN  /\ \E v \in IF ~HasTile(w) THEN {w}
                  ELSE IF focus THEN {u \in AcWorkspaces : HasTile(u)}
                  ELSE {RemoveActive(w)} :
           acShown' = [acShown EXCEPT ![acActive] = v]
      /\ UNCHANGED acActive

(* A floating window moves on its own, to the workspace shown there, and is *)
(* followed whatever `activate` says.                                       *)
move_column_to_output(o, activate, shown) ==
  LET floating == acShown[acActive].fa
  IN  MoveTo(o, activate \/ floating, shown \/ floating)

-----------------------------------------------------------------------------
(* Who may ask for what.                                                    *)

(* The actions the screenshot UI handles (besides quitting, suspending and  *)
(* the monitors' power).                                                    *)
ac_allowed_during_screenshot(a) == a \in {"move-in-layout", "to-monitor", "size"}

Asked(a, byKey) ==
  /\ byKey /\ acShot # AcNone => ac_allowed_during_screenshot(a)
  /\ acDid' = IF a = "column-away" THEN a ELSE IF byKey THEN "key" ELSE "ipc"
  /\ UNCHANGED <<acKbd, acWarp>>

SameLayout == UNCHANGED <<acShown, acActive>>

(* The selection moves along; the layout stays.                             *)
ScreenshotMove(o) ==
  /\ acShot' = o /\ acCursor' = o
  /\ SameLayout /\ UNCHANGED acOnDemand

(* MoveColumnLeft ... MoveWindowUpOrToWorkspaceUp, and to the monitor if    *)
(* there is no room in that direction (orMonitor).                          *)
MoveInLayout(d, orMonitor, byKey) ==
  /\ Asked("move-in-layout", byKey)
  /\ UNCHANGED <<acShot, acOnDemand>>
  /\ LET w == acShown[acActive]
     IN \/ acShot # AcNone /\ SameLayout /\ UNCHANGED acCursor
        \/ /\ acShot = AcNone
           /\ w.fa \/ CanStep(w, d) \/ ~orMonitor \/ OutputAt(acActive, d) = {}
           /\ acShown' = [acShown EXCEPT ![acActive] = StepAt(w, d)]
           /\ UNCHANGED acActive
           /\ maybe_warp_cursor_to_focus
        \/ /\ acShot = AcNone /\ orMonitor /\ ~w.fa /\ ~CanStep(w, d)
           /\ \E o \in OutputAt(acActive, d) :
                move_column_to_output(o, TRUE, TRUE) /\ WarpOrMoveTo(o)

(* FocusColumnLeft ... FocusWindowOrMonitorUp.                              *)
FocusOrMonitor(d, orMonitor, byKey) ==
  /\ Asked("focus", byKey)
  /\ acOnDemand' = FALSE /\ UNCHANGED acShot
  /\ LET w == acShown[acActive]
     IN \/ /\ CanStep(w, d) \/ ~orMonitor \/ OutputAt(acActive, d) = {}
           /\ acShown' = [acShown EXCEPT ![acActive] = StepAt(w, d)]
           /\ UNCHANGED acActive
           /\ maybe_warp_cursor_to_focus
        \/ /\ orMonitor /\ ~CanStep(w, d)
           /\ UNCHANGED acShown
           /\ \E o \in OutputAt(acActive, d) : acActive' = o /\ WarpOrMoveTo(o)

(* Focus actions that stay in the workspace or between its two layers:      *)
(* FocusWindowDown ... FocusWindowInColumn clear the on-demand focus,       *)
(* FocusFloating, FocusTiling and their toggle do not.                      *)
FocusInWorkspace(byKey) ==
  /\ Asked("focus", byKey)
  /\ acOnDemand' = FALSE
  /\ \E i \in 1..AcColsMax :
       acShown' = [acShown EXCEPT ![acActive].at =
                     IF acShown[acActive].cols < i THEN @ ELSE i]
  /\ UNCHANGED <<acActive, acShot>>
  /\ maybe_warp_cursor_to_focus

SwitchFocusFloating(byKey) ==
  /\ Asked("focus-floating", byKey)
  /\ \E fa \in BOOLEAN : acShown' = [acShown EXCEPT ![acActive].fa = fa]
  /\ UNCHANGED <<acActive, acShot, acOnDemand>>
  /\ maybe_warp_cursor_to_focus

(* FocusWindow, FocusWindowPrevious, MruConfirm: focus_window.              *)
focus_window(o, byKey) ==
  /\ Asked("focus-window", byKey)
  /\ UNCHANGED <<acShot, acOnDemand>>
  /\ acActive' = o
  /\ \E w \in {v \in AcWorkspaces : HasTile(v)} : acShown' = [acShown EXCEPT ![o] = w]
  /\ IF o # acActive THEN WarpOrMoveTo(o) ELSE maybe_warp_cursor_to_focus

(* FocusWorkspaceDown ... FocusWorkspacePrevious, by reference to any       *)
(* output, or the one under the cursor (which is not made active).          *)
FocusWorkspace(o, underMouse, byKey) ==
  /\ Asked("workspace", byKey)
  /\ acOnDemand' = FALSE /\ UNCHANGED acShot
  /\ underMouse => o = acCursor
  /\ \E w \in AcWorkspaces : acShown' = [acShown EXCEPT ![o] = w]
  /\ acActive' = IF underMouse THEN acActive ELSE o
  /\ IF o # acActive /\ ~underMouse THEN WarpOrMoveTo(o) ELSE maybe_warp_cursor_to_focus

(* MoveWindowToWorkspace, of the active window; on the active output the    *)
(* target is another workspace of it.                                       *)
MoveWindowToWorkspace(o, focus, shown, byKey) ==
  /\ Asked("to-workspace", byKey)
  /\ UNCHANGED <<acShot, acOnDemand>>
  /\ \/ /\ o # acActive
        /\ MoveTo(o, focus, shown)
        /\ IF focus THEN WarpOrMoveTo(o) ELSE maybe_warp_cursor_to_focus
     \/ /\ o = acActive
        /\ MoveAlong(focus)
        /\ maybe_warp_cursor_to_focus

(* MoveColumnToWorkspace: unless the focus follows, no cursor moves.        *)
MoveColumnToWorkspace(o, focus, shown, byKey) ==
  /\ Asked(IF focus THEN "to-workspace" ELSE "column-away", byKey)
  /\ UNCHANGED <<acShot, acOnDemand>>
  /\ \/ /\ o # acActive
        /\ move_column_to_output(o, focus, shown)
        /\ IF focus THEN WarpOrMoveTo(o) ELSE UNCHANGED acCursor
     \/ /\ o = acActive
        /\ MoveAlong(focus)
        /\ IF focus THEN maybe_warp_cursor_to_focus ELSE UNCHANGED acCursor

(* MoveWindowToWorkspaceById, MoveWindowToMonitorById: a window anywhere,   *)
(* moved to output o; it is followed only if it was the focused one.        *)
MoveWindowById(o, focused, byKey) ==
  /\ Asked("by-id", byKey)
  /\ UNCHANGED <<acShot, acOnDemand>>
  /\ IF focused THEN HasTile(acShown[acActive]) /\ MoveTo(o, TRUE, TRUE)
     ELSE /\ Room(acShown[o], FALSE)
          /\ acShown' = [acShown EXCEPT ![o] = AddTile(@, FALSE, FALSE)]
          /\ UNCHANGED acActive
  /\ IF o # acActive /\ acActive' = o THEN WarpOrMoveTo(o) ELSE UNCHANGED acCursor

(* FocusMonitorLeft ... FocusMonitor(name).                                 *)
FocusMonitor(o, byKey) ==
  /\ Asked("monitor", byKey)
  /\ acActive' = o /\ acOnDemand' = FALSE
  /\ UNCHANGED <<acShown, acShot>>
  /\ WarpOrMoveTo(o)

(* MoveWindowToMonitorLeft ..., MoveColumnToMonitorLeft ...: the move, then *)
(* focus_output.                                                            *)
MoveToMonitor(o, column, byKey) ==
  /\ Asked("to-monitor", byKey)
  /\ \/ acShot # AcNone /\ ScreenshotMove(o)
     \/ /\ acShot = AcNone
        /\ LET w == acShown[acActive]
           IN IF o # acActive /\ HasTile(w)
              THEN /\ Room(acShown[o], w.fa)
                   /\ acShown' = [acShown EXCEPT ![acActive] = RemoveActive(w),
                                                 ![o] = AddTile(@, w.fa, TRUE)]
              ELSE UNCHANGED acShown
        /\ acActive' = o
        /\ UNCHANGED <<acShot, acOnDemand>>
        /\ WarpOrMoveTo(o)

(* MoveWorkspaceToMonitorLeft ... ByRef: of the active workspace, or of     *)
(* another one, which changes no focus; by name or reference the cursor     *)
(* moves only if the active monitor did.                                    *)
MoveWorkspaceToMonitor(o, byKey) ==
  /\ Asked("workspace-to-monitor", byKey)
  /\ UNCHANGED <<acShot, acOnDemand>>
  /\ \/ /\ o # acActive
        /\ \E w \in AcWorkspaces :
             acShown' = [acShown EXCEPT ![acActive] = w, ![o] = acShown[acActive]]
        /\ acActive' = o
        /\ WarpOrMoveTo(o)
     \/ SameLayout /\ UNCHANGED acCursor

(* SetColumnWidth, SetWindowWidth, SetWindowHeight: of the selection or of  *)
(* the window.  The presets, centring and maximising are for windows only.  *)
(* None of them moves the cursor.                                           *)
SetSize(byKey) ==
  /\ Asked("size", byKey)
  /\ SameLayout
  /\ UNCHANGED <<acShot, acOnDemand, acCursor>>

PresetSize(byKey) ==
  /\ Asked("preset-size", byKey)
  /\ SameLayout
  /\ UNCHANGED <<acShot, acOnDemand, acCursor>>

(* ConsumeWindowIntoColumn, ExpelWindowFromColumn, ConsumeOrExpel...: one   *)
(* column less or more.                                                     *)
ConsumeOrExpel(byKey) ==
  /\ Asked("consume", byKey)
  /\ ~acShown[acActive].fa /\ acShown[acActive].cols > 0
  /\ \E n \in {acShown[acActive].cols - 1, acShown[acActive].cols + 1} \cap (1..AcColsMax),
       i \in 1..AcColsMax :
         i <= n /\ acShown' = [acShown EXCEPT ![acActive].cols = n, ![acActive].at = i]
  /\ UNCHANGED <<acActive, acShot, acOnDemand>>
  /\ maybe_warp_cursor_to_focus \/ UNCHANGED acCursor

(* ToggleWindowFloating, MoveWindowToFloating, MoveWindowToTiling.          *)
ToggleFloating(byKey) ==
  /\ Asked("floating", byKey)
  /\ LET w == acShown[acActive]
     IN /\ HasTile(w) /\ Room(w, ~w.fa)
        /\ acShown' = [acShown EXCEPT ![acActive] = AddTile(RemoveActive(w), ~w.fa, TRUE)]
  /\ UNCHANGED <<acActive, acShot, acOnDemand, acCursor>>

(* Screenshot, ConfirmScreenshot, CancelScreenshot.                         *)
ToggleScreenshot(byKey) ==
  /\ acDid' = IF byKey THEN "key" ELSE "ipc"
  /\ acShot' = IF acShot = AcNone THEN acCursor ELSE AcNone
  /\ SameLayout /\ UNCHANGED <<acOnDemand, acCursor, acKbd, acWarp>>

-----------------------------------------------------------------------------
(* External: the pointer moves, a layer surface is clicked.                 *)
PointerMoves ==
  /\ acCursor' \in AcOutputs \ {acCursor}
  /\ acDid' = AcNone
  /\ UNCHANGED <<acShown, acActive, acShot, acOnDemand, acKbd, acWarp>>

LayerClicked ==
  /\ acShot = AcNone
  /\ acOnDemand' = ~acOnDemand
  /\ acDid' = AcNone
  /\ UNCHANGED <<acShown, acActive, acCursor, acShot, acKbd, acWarp>>

(* State::refresh between two turns of the event loop.                      *)
AcRefresh ==
  /\ acKbd' = (acShot = AcNone /\ ~acOnDemand)
  /\ acDid' = AcNone
  /\ UNCHANGED <<acShown, acActive, acCursor, acShot, acOnDemand, acWarp>>

Act(byKey) ==
  \/ \E d \in Dirs, m \in BOOLEAN : MoveInLayout(d, m, byKey)
  \/ \E d \in Dirs, m \in BOOLEAN : FocusOrMonitor(d, m, byKey)
  \/ FocusInWorkspace(byKey)
  \/ SwitchFocusFloating(byKey)
  \/ \E o \in AcOutputs : focus_window(o, byKey)
  \/ \E o \in AcOutputs, m \in BOOLEAN : FocusWorkspace(o, m, byKey)
  \/ \E o \in AcOutputs, f, s \in BOOLEAN : MoveWindowToWorkspace(o, f, s, byKey)
  \/ \E o \in AcOutputs, f, s \in BOOLEAN : MoveColumnToWorkspace(o, f, s, byKey)
  \/ \E o \in AcOutputs, f \in BOOLEAN : MoveWindowById(o, f, byKey)
  \/ \E o \in AcOutputs : FocusMonitor(o, byKey)
  \/ \E o \in AcOutputs, c \in BOOLEAN : MoveToMonitor(o, c, byKey)
  \/ \E o \in AcOutputs : MoveWorkspaceToMonitor(o, byKey)
  \/ SetSize(byKey)
  \/ PresetSize(byKey)
  \/ ConsumeOrExpel(byKey)
  \/ ToggleFloating(byKey)
  \/ ToggleScreenshot(byKey)

AcNext == (\E k \in BOOLEAN : Act(k)) \/ PointerMoves \/ LayerClicked \/ AcRefresh
AcSpec == AcInit /\ [][AcNext]_acVars

-----------------------------------------------------------------------------
(* An action that makes another output active brings the cursor there, with *)
(* and without warp-mouse-to-focus, on an empty workspace, and while a      *)
(* layer surface or the screenshot UI has the keyboard; otherwise the next  *)
(* pointer event would take the focus back.  (Moving a column away without  *)
(* following it is not meant to change the active output at all.)           *)
CursorFollowsFocus ==
  [][(acDid' \notin {AcNone, "column-away"} /\ acActive' # acActive)
       => acCursor' = acActive']_acVars

(* While the screenshot UI is open, a key binding never changes the layout  *)
(* behind it: the list of actions that ac_allowed_during_screenshot lets       *)
(* through and the arms of do_action that hand over to the UI agree.        *)
ScreenshotOwnsKeys ==
  [][(acDid' = "key" /\ acShot # AcNone) => UNCHANGED <<acShown, acActive>>]_acVars

(* Moving a column to a workspace without focus leaves the focus where it   *)
(* is: "If `false`, the focus will remain on the original workspace."       *)
(* (niri-ipc, MoveColumnToWorkspace).                                       *)
FocusRemains == [][acDid' = "column-away" => acActive' = acActive]_acVars
=============================================================================
