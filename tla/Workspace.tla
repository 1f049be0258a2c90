----------------------------- MODULE Workspace -----------------------------
(***************************************************************************)
(* One workspace (src/layout/workspace.rs): the scrolling space, the       *)
(* floating space above it and which of the two has the focus.  The state  *)
(* is driven by everything that reaches a workspace from outside: windows  *)
(* opening, closing and committing, key bindings, client requests, gestures*)
(* and interactive resizes, a column moved to another workspace and back.  *)
(*                                                                         *)
(* A behaviour runs under one profile, chosen at the start: the set of     *)
(* features it may use and the windows it may open.  Profiles bound the    *)
(* instance; they change no operation.                                     *)
(***************************************************************************)
EXTENDS Naturals, Sequences, FiniteSets

CONSTANTS Win, NoWin,
          Profiles,      \* names of profiles
          MaxWins,       \* profile -> how many windows may be open at a time
          FeaturesOf     \* profile -> a set of features

VARIABLES ws,        \* [sc, fl, fia]: scrolling, floating, FloatingActive
          parent,    \* window -> the window it is a dialog of
          flight,    \* window -> modes of superseded configures it may still answer
          away,      \* a column moved to another workspace, as a sequence of at most one
          profile

wsVars == <<ws, parent, flight, away, profile>>

S == INSTANCE Scrolling
F == INSTANCE Floating

Has(feature) == feature \in FeaturesOf[profile]

\* The view offset an operation aims at may or may not differ from the present one.
Far == IF Has("view") THEN BOOLEAN ELSE {FALSE}

\* The display mode the window rules give a new column.
Tab == IF Has("tabs") THEN BOOLEAN ELSE {FALSE}

Modes == {m \in {"maximized", "fullscreen"} : Has(m)}

Tiled == S!SpaceWins(ws.sc)
Floated == F!FloatWins(ws.fl)
AwayWins == IF away = <<>> THEN {} ELSE S!TileWins(away[1].tiles)
Present == Tiled \union Floated

FloatingActive(v) == v.fia = "yes"

active_window(v) == IF FloatingActive(v) THEN v.fl.act ELSE S!active_window(v.sc)

TileOf(v, w) == IF w \in F!FloatWins(v.fl) THEN F!float_tile(v.fl, w) ELSE S!tile_of(v.sc, w)

(***************************************************************************)
(* Operations of Workspace, as operators on ws records.                    *)
(***************************************************************************)
\* tile.restore_to_floating is set on the way in.  `next': the window to
\* open beside, or NoWin; `col': a column index, or 0.
add_tile(v, tile0, next, col, act, floating, tabbed, far) ==
  LET tile == [tile0 EXCEPT !.rtf = floating]
      on == IF act # "smart" THEN act = "yes"
            ELSE IF col # 0 THEN FALSE
            ELSE IF next # NoWin THEN active_window(v) = next
            ELSE ~S!is_active_pending_fullscreen(v.sc)
      float == floating /\ tile.req = "normal" /\ col = 0
      nextFloats == next \in F!FloatWins(v.fl)
      fl1 == IF nextFloats THEN F!add_tile_above(v.fl, parent, next, tile, on)
             ELSE F!add_tile(v.fl, parent, tile, on)
      sc1 == IF next # NoWin /\ ~nextFloats
             THEN S!add_tile_right_of(v.sc, next, tile, on, tabbed, far)
             ELSE S!add_tile(v.sc, IF col # 0 THEN col ELSE S!next_idx(v.sc),
                             tile, on, tabbed, far)
  IN IF float
     THEN [v EXCEPT !.fl = fl1, !.fia = IF on \/ v.sc.cols = <<>> THEN "yes" ELSE @]
     ELSE [v EXCEPT !.sc = sc1, !.fia = IF on THEN "no" ELSE @]

\* Mutant: the focus stays on a space that has just become empty.
update_focus_after_removing_Keeps(v, fromFloating) == v

update_focus_after_removing(v, fromFloating) ==
  IF fromFloating
  THEN IF v.fl.tiles = <<>> THEN [v EXCEPT !.fia = "no"] ELSE v
  ELSE IF v.sc.cols = <<>> /\ v.fl.tiles # <<>> THEN [v EXCEPT !.fia = "yes"] ELSE v

remove_tile(v, w, far) ==
  IF w \in F!FloatWins(v.fl)
  THEN update_focus_after_removing([v EXCEPT !.fl = F!remove_tile(v.fl, w)], TRUE)
  ELSE update_focus_after_removing([v EXCEPT !.sc = S!remove_tile(v.sc, w, far)], FALSE)

toggle_window_floating(v, w, tabbed, far) ==
  LET on == active_window(v) = w
  IN IF w \in F!FloatWins(v.fl)
     THEN [v EXCEPT !.fl = F!remove_tile(v.fl, w),
                    !.sc = S!add_tile(v.sc, S!next_idx(v.sc), F!float_tile(v.fl, w), on, tabbed, far),
                    !.fia = IF on THEN "no" ELSE @]
     ELSE [v EXCEPT !.sc = S!remove_tile(v.sc, w, far),
                    !.fl = F!add_tile(v.fl, parent, S!tile_of(v.sc, w), on),
                    !.fia = IF on THEN "yes" ELSE @]

SetRtf(v, w, on) ==
  LET ci == S!col_of(v.sc, w)
  IN [v EXCEPT !.sc.cols[ci].tiles[S!position(v.sc.cols[ci].tiles, w)].rtf = on]

\* A floating window becomes a tile to be made fullscreen or maximized, and
\* floats again when the mode ends.
set_mode(v, w, m, on, tabbed, far) ==
  LET wasFloating == w \in F!FloatWins(v.fl)
      c    == v.sc.cols[S!col_of(v.sc, w)]
      tile == S!tile_of(v.sc, w)
      back == /\ tile.rtf
              /\ IF m = "fullscreen" THEN c.pfs /\ ~c.pmax ELSE tile.req = "maximized"
      v1   == IF wasFloating THEN toggle_window_floating(v, w, tabbed, far) ELSE v
      v2   == [v1 EXCEPT !.sc = S!set_mode(v1.sc, w, m, on, tabbed, far)]
  IN IF wasFloating /\ ~on THEN v
     ELSE IF ~wasFloating /\ ~on /\ back THEN toggle_window_floating(v, w, tabbed, far)
     ELSE IF TileOf(v1, w).req = "normal" /\ TileOf(v2, w).req # "normal"
     THEN SetRtf(v2, w, wasFloating) ELSE v2

activate_window(v, w, far) ==
  IF w \in F!FloatWins(v.fl)
  THEN [v EXCEPT !.fl = F!activate_window(v.fl, parent, w), !.fia = "yes"]
  ELSE [v EXCEPT !.sc = S!activate_window(v.sc, w, far), !.fia = "no"]

activate_window_without_raising(v, w, far) ==
  IF w \in F!FloatWins(v.fl)
  THEN [v EXCEPT !.fl = F!activate_window_without_raising(v.fl, w), !.fia = "yes"]
  ELSE [v EXCEPT !.sc = S!activate_window(v.sc, w, far),
                 !.fia = IF @ = "no" THEN "no" ELSE "raised"]

switch_focus_floating_tiling(v) ==
  IF v.fl.tiles = <<>> \/ v.sc.cols = <<>> THEN v
  ELSE [v EXCEPT !.fia = IF FloatingActive(v) THEN "no" ELSE "yes"]

(***************************************************************************)
(* Actions.  Whatever changed a requested mode is sent to the client.      *)
(***************************************************************************)
WsInit ==
  /\ profile \in Profiles
  /\ ws = [sc |-> S!EmptySpace, fl |-> F!EmptyFloating, fia |-> "no"]
  /\ parent = [w \in Win |-> NoWin]
  /\ flight = [w \in Win |-> {}]
  /\ away = <<>>

Configures(v) ==
  flight' = [w \in Win |->
    IF w \in Present /\ w \in S!SpaceWins(v.sc) \union F!FloatWins(v.fl)
    THEN LET old == TileOf(ws, w)
             new == TileOf(v, w).req
         IN IF new = old.req \/ ~Has("stale") THEN flight[w]
            ELSE (flight[w] \union ({old.req} \ {old.size})) \ {new}
    ELSE flight[w]]

Become(v) == v # ws /\ ws' = v /\ Configures(v) /\ UNCHANGED <<parent, away, profile>>

CanOpen(w) ==
  /\ w \notin Present \union AwayWins
  /\ Cardinality(Present \union AwayWins) < MaxWins[profile]

Open(w) ==
  /\ CanOpen(w)
  /\ \E m \in {"normal"} \union Modes, act \in {"yes", "no", "smart"},
        next \in {NoWin} \union Present, col \in 0..(Len(ws.sc.cols) + 1),
        floating \in (IF Has("floating") THEN BOOLEAN ELSE {FALSE}),
        tabbed \in Tab, far \in Far :
       /\ next # NoWin => col = 0
       /\ ws' = add_tile(ws, [win |-> w, size |-> m, req |-> m, h |-> "auto1", rtf |-> FALSE],
                         next, col, act, floating, tabbed, far)
  /\ UNCHANGED <<parent, flight, away, profile>>

\* A window that is only unmapped keeps its parent and its dialogs.
Close(w) ==
  /\ w \in Present
  /\ \E far \in Far : ws' = remove_tile(ws, w, far)
  /\ \/ UNCHANGED parent
     \/ parent' = [x \in Win |-> IF w \in {x, parent[x]} THEN NoWin ELSE parent[x]]
  /\ flight' = [flight EXCEPT ![w] = {}]
  /\ UNCHANGED <<away, profile>>

\* The client answered its last configure, one it supersedes, or none.
Commit(w) ==
  /\ w \in Present
  /\ \E m \in flight[w] \union {TileOf(ws, w).size, TileOf(ws, w).req},
        late \in (IF Has("resize") THEN BOOLEAN ELSE {FALSE}), far \in Far :
       /\ ws' = IF w \in Floated
                THEN [ws EXCEPT !.fl = F!update_window(ws.fl, w, m)]
                ELSE [ws EXCEPT !.sc = S!update_window(ws.sc, w, m, late, far)]
       /\ flight' = [flight EXCEPT ![w] = IF m = TileOf(ws, w).req THEN {} ELSE @ \ {m}]
  /\ UNCHANGED <<parent, away, profile>>

RECURSIVE Ancestors(_)
Ancestors(w) == IF w = NoWin THEN {} ELSE {w} \union Ancestors(parent[w])

\* xdg_toplevel.set_parent, which the protocol library keeps free of cycles.
SetParent(w, p) ==
  /\ Has("dialogs") /\ w \in Present /\ p \in Present /\ w \notin Ancestors(p)
  /\ parent' = [parent EXCEPT ![w] = p]
  /\ ws' = IF p \in Floated
           THEN [ws EXCEPT !.fl = F!descendants_added(ws.fl, parent', p)] ELSE ws
  /\ UNCHANGED <<flight, away, profile>>

(***************************************************************************)
(* Focus actions.                                                          *)
(***************************************************************************)
Activate(w) ==
  \E far \in Far : w \in Present /\ Become(activate_window(ws, w, far))

ActivateWithoutRaising(w) ==
  \E far \in Far : w \in Present /\ Become(activate_window_without_raising(ws, w, far))

FocusFloating ==
  /\ FloatingActive(ws)
  /\ \E f \in F!FocusChoices(ws.fl, parent) : Become([ws EXCEPT !.fl = f])

Tiling(s) == ~FloatingActive(ws) /\ Become([ws EXCEPT !.sc = s])

FocusSideways ==
  \E far \in Far : \/ Tiling(S!focus_left(ws.sc, far))
                   \/ Tiling(S!focus_right(ws.sc, far))

\* Also when the floating space has the focus: focus_tiling comes first.
FocusColumn ==
  \E idx \in 1..(Len(ws.sc.cols) + 1), far \in Far :
    LET v == IF FloatingActive(ws) THEN switch_focus_floating_tiling(ws) ELSE ws
    IN Become([v EXCEPT !.sc = S!focus_column(v.sc, idx, far)])

FocusTile ==
  \/ \E dir \in {"up", "down", "top", "bottom"} : Tiling(S!focus_tile(ws.sc, dir))
  \/ \E idx \in 1..(Cardinality(Win) + 1) : Tiling(S!focus_window_in_column(ws.sc, idx))
  \/ \E dir \in {"up", "down"}, right \in BOOLEAN, far \in Far :
       Tiling(S!focus_tile_or_column(ws.sc, dir, right, far))

SwitchFocus == Become(switch_focus_floating_tiling(ws))

(***************************************************************************)
(* Arranging actions.                                                      *)
(***************************************************************************)
MoveColumn ==
  \E far \in Far :
    \/ Tiling(S!move_left(ws.sc, far))
    \/ Tiling(S!move_right(ws.sc, far))
    \/ \E idx \in 1..(Len(ws.sc.cols) + 1) : Tiling(S!move_column_to_index(ws.sc, idx, far))

MoveTile == \E dir \in {"up", "down"} : Tiling(S!move_vertically(ws.sc, dir))

ConsumeOrExpel(w) ==
  \E tabbed \in Tab, far \in Far :
    /\ w \in Tiled
    /\ \/ Become([ws EXCEPT !.sc = S!consume_or_expel_window_left(ws.sc, w, tabbed, far)])
       \/ Become([ws EXCEPT !.sc = S!consume_or_expel_window_right(ws.sc, w, tabbed, far)])

ConsumeIntoColumn == \E far \in Far : Tiling(S!consume_into_column(ws.sc, far))

ExpelFromColumn == \E tabbed \in Tab, far \in Far : Tiling(S!expel_from_column(ws.sc, tabbed, far))

SwapWindow ==
  \E dir \in {"left", "right"}, tabbed \in Tab, far \in Far :
    Tiling(S!swap_window_in_direction(ws.sc, dir, tabbed, far))

SetColumnDisplay ==
  \E tabbed \in BOOLEAN, far \in Far :
    Has("tabs") /\ Tiling(S!set_column_display(ws.sc, tabbed, far))

\* The end of an interactive move over a column.
DropIntoColumn(w) ==
  \E ci \in DOMAIN ws.sc.cols, activate \in BOOLEAN, far \in Far :
    \E ti \in 1..(Len(ws.sc.cols[ci].tiles) + 1) :
      /\ CanOpen(w)
      /\ ws' = [ws EXCEPT
           !.sc = S!add_tile_to_column(ws.sc, ci, ti,
                    [win |-> w, size |-> "normal", req |-> "normal", h |-> "auto1", rtf |-> FALSE],
                    activate, far),
           !.fia = IF activate THEN "no" ELSE @]
      /\ UNCHANGED <<parent, flight, away, profile>>

SendColumnAway ==
  /\ Has("away") /\ away = <<>> /\ ~FloatingActive(ws) /\ ws.sc.cols # <<>>
  /\ \E far \in Far :
       ws' = update_focus_after_removing(
               [ws EXCEPT !.sc = S!remove_column_by_idx(ws.sc, ws.sc.act, far)], FALSE)
  /\ away' = <<ws.sc.cols[ws.sc.act]>>
  /\ UNCHANGED <<parent, flight, profile>>

BringColumnBack ==
  /\ away # <<>>
  /\ \E activate \in BOOLEAN, far \in Far :
       ws' = [ws EXCEPT !.sc = S!add_column(ws.sc, S!next_idx(ws.sc), away[1], activate, far),
                        !.fia = IF activate THEN "no" ELSE @]
  /\ away' = <<>>
  /\ UNCHANGED <<parent, flight, profile>>

(***************************************************************************)
(* Modes and sizes.                                                        *)
(***************************************************************************)
SetMode(w, m, on) ==
  \E tabbed \in Tab, far \in Far :
    w \in Present /\ m \in Modes /\ Become(set_mode(ws, w, m, on, tabbed, far))

ToggleFloating(w) ==
  \E tabbed \in Tab, far \in Far :
    /\ Has("floating") /\ w \in Present
    /\ Become(toggle_window_floating(ws, w, tabbed, far))

SetSize(w) ==
  /\ Has("sizes") /\ w \in Present
  /\ IF w \in Floated
     THEN Become([ws EXCEPT !.fl = F!toggle_window_size(ws.fl, w)])
     ELSE \/ Become([ws EXCEPT !.sc = S!set_width_of(ws.sc, w)])
          \/ Become([ws EXCEPT !.sc = S!set_height_of(ws.sc, w)])
          \/ Become([ws EXCEPT !.sc = S!reset_height_of(ws.sc, w)])
          \/ \E far \in Far : Become([ws EXCEPT !.sc = S!center_window(ws.sc, w, far)])

SizeActiveColumn ==
  /\ Has("sizes")
  /\ \E far \in Far : \/ Tiling(S!toggle_full_width_active(ws.sc))
                      \/ Tiling(S!expand_column_to_available_width(ws.sc, TRUE, far))
                      \/ Tiling(S!center_column(ws.sc, far))
                      \/ Tiling(S!center_visible_columns(ws.sc, TRUE, far))

MoveFloating == FloatingActive(ws) /\ Become([ws EXCEPT !.fl = F!move_to(ws.fl)])

UpdateConfig ==
  \E presets \in (IF Has("sizes") THEN BOOLEAN ELSE {FALSE}), far \in Far :
    Become([ws EXCEPT !.sc = S!update_config(ws.sc, presets, far)])

AdvanceAnimations == Become([ws EXCEPT !.sc = S!advance_animations(ws.sc)])

(***************************************************************************)
(* Gestures and interactive resize.                                        *)
(***************************************************************************)
GestureBegin == Has("gestures") /\ Become([ws EXCEPT !.sc = S!view_offset_gesture_begin(ws.sc)])

DndScrollBegin == Has("gestures") /\ Become([ws EXCEPT !.sc = S!dnd_scroll_gesture_begin(ws.sc)])

GestureEnd ==
  \E idx \in 1..(Len(ws.sc.cols) + 1), still \in BOOLEAN, far \in Far :
    /\ idx \in DOMAIN ws.sc.cols \/ ws.sc.cols = <<>>
    /\ \/ Become([ws EXCEPT !.sc = S!view_offset_gesture_end(ws.sc, idx, far)])
       \/ Become([ws EXCEPT !.sc = S!dnd_scroll_gesture_end(ws.sc, still, idx, far)])

ResizeBegin(w) ==
  /\ Has("resize") /\ w \in Present
  /\ Become(IF w \in Floated THEN [ws EXCEPT !.fl = F!interactive_resize_begin(ws.fl, w)]
            ELSE [ws EXCEPT !.sc = S!interactive_resize_begin(ws.sc, w)])

ResizeUpdate(w) ==
  \E vertical \in BOOLEAN :
    w \in Tiled /\ Become([ws EXCEPT !.sc = S!interactive_resize_update(ws.sc, w, vertical)])

ResizeEnd(w) ==
  \E far \in Far :
    /\ w \in Present
    /\ Become(IF w \in Floated THEN [ws EXCEPT !.fl = F!interactive_resize_end(ws.fl, w)]
              ELSE [ws EXCEPT !.sc = S!interactive_resize_end(ws.sc, w, far)])

ResizeCancel ==
  Become([ws EXCEPT !.fl = F!interactive_resize_end(ws.fl, NoWin),
                    !.sc = S!interactive_resize_end(ws.sc, NoWin, FALSE)])

WsNext ==
  \/ \E w \in Win :
       \/ Open(w) \/ Close(w) \/ Commit(w) \/ Activate(w) \/ ActivateWithoutRaising(w)
       \/ ConsumeOrExpel(w) \/ DropIntoColumn(w) \/ ToggleFloating(w) \/ SetSize(w)
       \/ ResizeBegin(w) \/ ResizeUpdate(w) \/ ResizeEnd(w)
       \/ \E p \in Win : SetParent(w, p)
       \/ \E m \in {"maximized", "fullscreen"}, on \in BOOLEAN : SetMode(w, m, on)
  \/ FocusFloating \/ FocusSideways \/ FocusColumn \/ FocusTile \/ SwitchFocus
  \/ MoveColumn \/ MoveTile \/ ConsumeIntoColumn \/ ExpelFromColumn \/ SwapWindow
  \/ SetColumnDisplay \/ SendColumnAway \/ BringColumnBack
  \/ SizeActiveColumn \/ MoveFloating \/ UpdateConfig \/ AdvanceAnimations
  \/ GestureBegin \/ DndScrollBegin \/ GestureEnd \/ ResizeCancel

WsSpec == WsInit /\ [][WsNext]_wsVars

(***************************************************************************)
(* Properties.                                                             *)
(***************************************************************************)
\* The space that has the focus has a window to focus whenever the workspace
\* has one at all, whatever was closed, toggled, moved away or brought back
\* (Workspace::active_window, which add_tile unwraps).
FocusWellDefined ==
  /\ ws.fl.tiles = <<>> => ~FloatingActive(ws)
  /\ ws.sc.cols = <<>> /\ ws.fl.tiles # <<>> => FloatingActive(ws)
  /\ active_window(ws) = NoWin <=> Present = {}
  /\ ws.fl.act \in Floated \/ (ws.fl.act = NoWin /\ Floated = {})

\* An interactive resize is of a window of its own space, and the view is not
\* scrolled by a gesture under it.
ResizeTracksWindow ==
  /\ ws.sc.resize \in Tiled \union {NoWin}
  /\ ws.fl.resize \in Floated \union {NoWin}
  /\ ws.sc.resize # NoWin => ws.sc.view \notin {"gesture", "dnd"}

\* A window is in one place only.
OnePlacePerWindow ==
  LET n(i) == Len(ws.sc.cols[i].tiles)
      RECURSIVE Sum(_)
      Sum(k) == IF k = 0 THEN 0 ELSE n(k) + Sum(k - 1)
  IN /\ Sum(Len(ws.sc.cols)) = Cardinality(Tiled)
     /\ Len(ws.fl.tiles) = Cardinality(Floated)
     /\ Tiled \intersect Floated = {} /\ Present \intersect AwayWins = {}

\* Spaces, parents and configures in flight are of their types and every
\* index is in range.
WsTypeOK ==
  /\ ws.fia \in {"no", "raised", "yes"} /\ ws.sc.view \in S!Views
  /\ ws.sc.cols = <<>> \/ ws.sc.act \in DOMAIN ws.sc.cols
  /\ \A i \in DOMAIN ws.sc.cols :
       ws.sc.cols[i] \in S!Column /\ ws.sc.cols[i].act \in DOMAIN ws.sc.cols[i].tiles
  /\ \A i \in DOMAIN ws.fl.tiles : ws.fl.tiles[i] \in S!Tile
  /\ flight \in [Win -> SUBSET S!SizingModes] /\ parent \in [Win -> Win \union {NoWin}]

\* Every column asks all its tiles for one mode; only a tabbed column or one
\* with a single tile is fullscreen or maximized (the asserts of
\* Column::set_fullscreen and set_maximized), and one tile at most has a
\* height of its own.  A window is in one place only, an interactive resize
\* is of a window of its own space, and every index is in range.
ColumnsWellFormed ==
  /\ WsTypeOK /\ ResizeTracksWindow /\ OnePlacePerWindow
  /\ \A i \in DOMAIN ws.sc.cols :
    LET c == ws.sc.cols[i]
    IN /\ \A j \in DOMAIN c.tiles : c.tiles[j].req = S!pending_sizing_mode(c)
       /\ c.pfs \/ c.pmax => c.tabbed \/ Len(c.tiles) = 1
       /\ Cardinality({j \in DOMAIN c.tiles : c.tiles[j].h = "set"}) <= 1
       /\ Len(c.tiles) = 1 => c.tiles[1].h # "auto"

\* A view offset waits to be restored only while the active column is still
\* shown fullscreen or maximized, however late the client commits.
RestoreOnlyWhileCovered ==
  ws.sc.restore => ws.sc.cols # <<>> /\ S!sizing_mode(ws.sc.cols[ws.sc.act]) # "normal"

\* Every floating dialog is stacked above its parent, and no floating window
\* is asked to be fullscreen or maximized.
DialogsAboveParents ==
  /\ \A i, j \in DOMAIN ws.fl.tiles :
       parent[ws.fl.tiles[j].win] = ws.fl.tiles[i].win => j < i
  /\ \A i \in DOMAIN ws.fl.tiles : ws.fl.tiles[i].req = "normal"

\* What happens to another window leaves the focus alone: its closing, its
\* commits, its dialogs, its floating toggled by id, its mode set by its client.
FocusKept ==
  [][active_window(ws') # active_window(ws) =>
       \A w \in Win \ {active_window(ws)} :
         ~ \/ Close(w) \/ Commit(w) \/ ToggleFloating(w) \/ ConsumeOrExpel(w) \/ ResizeBegin(w)
           \/ \E p \in Win : SetParent(w, p)
           \/ \E m \in Modes, on \in BOOLEAN : SetMode(w, m, on)]_wsVars
=============================================================================
