----------------------------- MODULE Scrolling -----------------------------
(***************************************************************************)
(* The scrollable-tiling space of one workspace (src/layout/scrolling.rs): *)
(* columns of tiles, the focused column and the focused tile of each       *)
(* column, the pending and the committed sizing mode, and the three        *)
(* memories that must follow every index change: which column to focus     *)
(* when the active one goes away, whether a view offset waits for the end  *)
(* of fullscreen, and which window is being resized.                       *)
(*                                                                         *)
(* The module has no variables: a space is a record and every method of    *)
(* ScrollingSpace and Column is an operator from a space to a space, so    *)
(* that methods compose as they do in the code.  Workspace.tla holds the   *)
(* state.  Geometry is left out: the one geometric fact the control needs  *)
(* is `far', whether the view offset an operation aims at differs by more  *)
(* than a pixel from the present one.                                      *)
(*                                                                         *)
(* Indices count from 1; an empty space keeps active index 1.              *)
(***************************************************************************)
EXTENDS Naturals, Sequences, FiniteSets, SequencesExt

CONSTANTS Win,    \* windows
          NoWin   \* Option::None

SizingModes == {"normal", "maximized", "fullscreen"}

\* WindowHeight: Auto with weight 1, Auto with another weight, Fixed or Preset.
Heights == {"auto1", "auto", "set"}

Tile == [win : Win, size : SizingModes, req : SizingModes, h : Heights, rtf : BOOLEAN]

Column == [tiles : Seq(Tile), act : Nat, tabbed : BOOLEAN, pfs : BOOLEAN, pmax : BOOLEAN]

Views == {"static", "anim", "gesture", "dnd"}

EmptySpace == [cols |-> <<>>, act |-> 1, prev |-> FALSE, restore |-> FALSE,
               resize |-> NoWin, view |-> "static"]

(***************************************************************************)
(* Looking windows up.                                                     *)
(***************************************************************************)
TileWins(tiles) == {tiles[i].win : i \in DOMAIN tiles}

SpaceWins(s) == UNION {TileWins(s.cols[i].tiles) : i \in DOMAIN s.cols}

col_of(s, w) == CHOOSE i \in DOMAIN s.cols : w \in TileWins(s.cols[i].tiles)

position(tiles, w) == CHOOSE i \in DOMAIN tiles : tiles[i].win = w

tile_of(s, w) == LET t == s.cols[col_of(s, w)].tiles IN t[position(t, w)]

active_window(s) ==
  IF s.cols = <<>> THEN NoWin
  ELSE LET c == s.cols[s.act] IN c.tiles[c.act].win

is_active_pending_fullscreen(s) == s.cols # <<>> /\ s.cols[s.act].pfs

pending_sizing_mode(c) ==
  IF c.pfs THEN "fullscreen" ELSE IF c.pmax THEN "maximized" ELSE "normal"

sizing_mode(c) ==
  LET sizes == {c.tiles[i].size : i \in DOMAIN c.tiles}
  IN IF "fullscreen" \in sizes THEN "fullscreen"
     ELSE IF "maximized" \in sizes THEN "maximized" ELSE "normal"

(***************************************************************************)
(* Column.                                                                 *)
(***************************************************************************)
\* Every tile is asked for the mode the column is going to have.
update_tile_sizes(c) ==
  [c EXCEPT !.tiles = [i \in DOMAIN c.tiles |->
                         [c.tiles[i] EXCEPT !.req = pending_sizing_mode(c)]]]

add_tile_at(c, ti, tile) ==
  update_tile_sizes(
    [c EXCEPT !.tiles = InsertAt(c.tiles, ti, [tile EXCEPT !.h = "auto1"]),
              !.pfs = c.tabbed /\ c.pfs,
              !.pmax = c.tabbed /\ c.pmax])

\* The new column takes over the mode its window is waiting for.
new_with_tile(tile, tabbed) ==
  update_tile_sizes([tiles |-> <<[tile EXCEPT !.h = "auto1"]>>, act |-> 1, tabbed |-> tabbed,
                     pfs |-> tile.req = "fullscreen", pmax |-> tile.req = "maximized"])

convert_heights_to_auto(c) ==
  [c EXCEPT !.tiles = [i \in DOMAIN c.tiles |->
     [c.tiles[i] EXCEPT !.h = IF Len(c.tiles) = 1 THEN "auto1" ELSE "auto"]]]

\* set_window_height and toggle_window_height: only one tile has a set height.
set_window_height(c, ti) ==
  LET d == IF c.tiles[ti].h = "set" THEN c ELSE convert_heights_to_auto(c)
  IN update_tile_sizes([d EXCEPT !.tiles[ti].h = "set", !.pmax = FALSE])

reset_window_height(c, ti) ==
  [c EXCEPT !.tiles = [i \in DOMAIN c.tiles |->
     IF c.tabbed \/ i = ti THEN [c.tiles[i] EXCEPT !.h = "auto1"] ELSE c.tiles[i]]]

\* set_column_width and toggle_width: any explicit width ends maximization.
set_column_width(c) == update_tile_sizes([c EXCEPT !.pmax = FALSE])

toggle_full_width(c) == update_tile_sizes([c EXCEPT !.pmax = FALSE])

set_column_mode(c, m, on) ==
  update_tile_sizes(IF m = "fullscreen" THEN [c EXCEPT !.pfs = on] ELSE [c EXCEPT !.pmax = on])

ColFocus(c) ==
  [up     |-> IF c.act = 1 THEN 1 ELSE c.act - 1,
   down   |-> IF c.act = Len(c.tiles) THEN c.act ELSE c.act + 1,
   top    |-> 1,
   bottom |-> Len(c.tiles)]

move_tile(c, dir) ==
  LET to == ColFocus(c)[dir]
  IN [c EXCEPT !.tiles = [c.tiles EXCEPT ![to] = c.tiles[c.act], ![c.act] = c.tiles[to]],
               !.act = to]

(***************************************************************************)
(* The view.  Only a drag-and-drop scroll survives an animation of the     *)
(* view offset; a touchpad or pointer gesture is replaced by it.           *)
(***************************************************************************)
animate_view_offset(s, far) ==
  IF far /\ s.view # "dnd" THEN [s EXCEPT !.view = "anim"] ELSE s

activate_column(s, idx, far) ==
  IF s.act = idx /\ (s.cols = <<>> \/ s.view # "dnd") THEN s
  ELSE IF s.act = idx THEN animate_view_offset(s, far)
  ELSE [animate_view_offset(s, far) EXCEPT
          !.act = idx, !.prev = FALSE, !.restore = FALSE, !.resize = NoWin]

cancel_resize_for_column(s, ci) ==
  IF s.resize \in TileWins(s.cols[ci].tiles) THEN [s EXCEPT !.resize = NoWin] ELSE s

(***************************************************************************)
(* Adding.                                                                 *)
(***************************************************************************)
\* The previous column is remembered when the new one opens to its right.
add_column(s, idx, column, activate, far) ==
  LET empty == s.cols = <<>>
      s1    == [s EXCEPT !.cols = InsertAt(s.cols, idx, column)]
      s2    == IF empty THEN [s1 EXCEPT !.view = "static"] ELSE s1
  IN IF activate
     THEN [activate_column(s2, idx, far) EXCEPT !.prev = ~empty /\ idx = s.act + 1]
     ELSE IF ~empty /\ idx <= s.act THEN [s1 EXCEPT !.act = s.act + 1]
     ELSE s1

next_idx(s) == IF s.cols = <<>> THEN 1 ELSE s.act + 1

add_tile(s, idx, tile, activate, tabbed, far) ==
  add_column(s, idx, new_with_tile(tile, tabbed), activate, far)

add_tile_to_column(s, ci, ti, tile, activate, far) ==
  LET c  == s.cols[ci]
      s1 == [s EXCEPT !.cols[ci] = [add_tile_at(c, ti, tile) EXCEPT
               !.act = IF activate THEN ti ELSE IF ti <= c.act THEN c.act + 1 ELSE c.act]]
  IN IF activate /\ s.act # ci THEN activate_column(s1, ci, far) ELSE s1

add_tile_last(s, ci, tile, activate, far) ==
  add_tile_to_column(s, ci, Len(s.cols[ci].tiles) + 1, tile, activate, far)

add_tile_right_of(s, w, tile, activate, tabbed, far) ==
  add_tile(s, col_of(s, w) + 1, tile, activate, tabbed, far)

(***************************************************************************)
(* Removing.                                                               *)
(***************************************************************************)
\* Mutant: a column removed on the left leaves the active index where it was.
remove_column_by_idx_NoShift(s, ci, far) ==
  LET gone == TileWins(s.cols[ci].tiles)
      s1 == [s EXCEPT !.cols = RemoveAt(s.cols, ci),
                      !.resize = IF s.resize \in gone THEN NoWin ELSE s.resize,
                      !.restore = s.restore /\ ci # s.act,
                      !.prev = s.prev /\ ci + 1 # s.act]
  IN IF s1.cols = <<>> THEN s1
     ELSE activate_column(s1, IF s.act > Len(s1.cols) THEN Len(s1.cols) ELSE s.act, far)

remove_column_by_idx(s, ci, far) ==
  LET gone == TileWins(s.cols[ci].tiles)
      s1 == [s EXCEPT !.cols = RemoveAt(s.cols, ci),
                      !.resize = IF s.resize \in gone THEN NoWin ELSE s.resize,
                      !.restore = s.restore /\ ci # s.act,
                      !.prev = s.prev /\ ci + 1 # s.act]
  IN IF s1.cols = <<>> THEN s1
     ELSE IF ci < s.act THEN [s1 EXCEPT !.act = s.act - 1, !.prev = FALSE]
     ELSE IF ci = s.act /\ s1.prev
          THEN IF ci = 1 THEN s1
               ELSE animate_view_offset(activate_column(s1, s.act - 1, far), far)
     ELSE activate_column(s1, IF s.act > Len(s1.cols) THEN Len(s1.cols) ELSE s.act, far)

remove_tile_by_idx(s, ci, ti, far) ==
  IF Len(s.cols[ci].tiles) = 1 THEN remove_column_by_idx(s, ci, far)
  ELSE
    LET c     == s.cols[ci]
        rest  == RemoveAt(c.tiles, ti)
        rest1 == IF Len(rest) = 1 /\ rest[1].h = "auto"
                 THEN [rest EXCEPT ![1].h = "auto1"] ELSE rest
        act   == IF ti < c.act \/ (ti = c.act /\ ti > Len(rest)) THEN c.act - 1 ELSE c.act
        d     == update_tile_sizes([c EXCEPT !.tiles = rest1, !.act = act])
    IN [s EXCEPT !.cols[ci] = d,
                 !.resize = IF s.resize = c.tiles[ti].win THEN NoWin ELSE s.resize,
                 !.restore = s.restore /\ ~(/\ ci = s.act
                                            /\ sizing_mode(c) # "normal"
                                            /\ sizing_mode(d) = "normal")]

remove_tile(s, w, far) ==
  LET ci == col_of(s, w) IN remove_tile_by_idx(s, ci, position(s.cols[ci].tiles, w), far)

(***************************************************************************)
(* Focus.                                                                  *)
(***************************************************************************)
activate_window(s, w, far) ==
  LET ci == col_of(s, w)
  IN activate_column([s EXCEPT !.cols[ci].act = position(s.cols[ci].tiles, w)], ci, far)

focus_left(s, far) == IF s.act = 1 THEN s ELSE activate_column(s, s.act - 1, far)

focus_right(s, far) == IF s.act >= Len(s.cols) THEN s ELSE activate_column(s, s.act + 1, far)

focus_column(s, idx, far) ==
  IF s.cols = <<>> THEN s
  ELSE activate_column(s, IF idx > Len(s.cols) THEN Len(s.cols) ELSE idx, far)

focus_tile(s, dir) ==
  IF s.cols = <<>> THEN s ELSE [s EXCEPT !.cols[s.act].act = ColFocus(s.cols[s.act])[dir]]

focus_window_in_column(s, idx) ==
  IF s.cols = <<>> THEN s
  ELSE [s EXCEPT !.cols[s.act].act = LET n == Len(s.cols[s.act].tiles)
                                     IN IF idx > n THEN n ELSE idx]

\* focus_down_or_left and its three siblings: sideways when the column ends.
focus_tile_or_column(s, vert, right, far) ==
  IF focus_tile(s, vert) # s THEN focus_tile(s, vert)
  ELSE IF right THEN focus_right(s, far) ELSE focus_left(s, far)

(***************************************************************************)
(* Moving columns and tiles.                                               *)
(***************************************************************************)
move_column_to(s, new, far) ==
  IF s.cols = <<>> \/ s.act = new THEN s
  ELSE LET s1 == cancel_resize_for_column(s, s.act)
           c  == s.cols[s.act]
       IN activate_column(
            [s1 EXCEPT !.cols = InsertAt(RemoveAt(s.cols, s.act), new, c)], new, far)

move_left(s, far) == IF s.act = 1 THEN s ELSE move_column_to(s, s.act - 1, far)

move_right(s, far) == IF s.act >= Len(s.cols) THEN s ELSE move_column_to(s, s.act + 1, far)

move_column_to_index(s, idx, far) ==
  move_column_to(s, IF idx > Len(s.cols) THEN Len(s.cols) ELSE idx, far)

move_vertically(s, dir) ==
  IF s.cols = <<>> THEN s ELSE [s EXCEPT !.cols[s.act] = move_tile(s.cols[s.act], dir)]

consume_or_expel_window_left(s, w, tabbed, far) ==
  LET ci == col_of(s, w)
      ti == position(s.cols[ci].tiles, w)
      tile == tile_of(s, w)
      was == active_window(s) = w
  IN IF Len(s.cols[ci].tiles) > 1
     THEN LET s1 == add_tile(remove_tile_by_idx(s, ci, ti, far), ci, tile, was, tabbed, far)
          IN [s1 EXCEPT !.prev = s1.prev /\ ~was]
     ELSE IF ci = 1 THEN s
     ELSE add_tile_last(remove_tile_by_idx([s EXCEPT !.prev = s.prev \/ was], ci, ti, far),
                        ci - 1, tile, was, far)

consume_or_expel_window_right(s, w, tabbed, far) ==
  LET ci == col_of(s, w)
      ti == position(s.cols[ci].tiles, w)
      tile == tile_of(s, w)
      was == active_window(s) = w
  IN IF Len(s.cols[ci].tiles) > 1
     THEN add_tile(remove_tile_by_idx(s, ci, ti, far), ci + 1, tile, was, tabbed, far)
     ELSE IF ci = Len(s.cols) THEN s
     ELSE add_tile_last(remove_tile_by_idx([s EXCEPT !.prev = s.prev /\ ~was], ci, ti, far),
                        ci, tile, was, far)

consume_into_column(s, far) ==
  IF s.act >= Len(s.cols) THEN s
  ELSE add_tile_last(remove_tile_by_idx(s, s.act + 1, 1, far), s.act,
                     s.cols[s.act + 1].tiles[1], FALSE, far)

expel_from_column(s, tabbed, far) ==
  IF s.cols = <<>> THEN s
  ELSE LET c == s.cols[s.act]
           n == Len(c.tiles)
       IN IF n = 1 THEN s
          ELSE add_tile(remove_tile_by_idx(s, s.act, n, far), s.act + 1, c.tiles[n],
                        FALSE, tabbed, far)

\* The two active tiles change places; the source column is made anew when
\* its only tile leaves it.
swap_window_in_direction(s, dir, tabbed, far) ==
  LET src == s.act
      dst == IF dir = "left" THEN src - 1 ELSE src + 1
  IN IF s.cols = <<>> \/ dst \notin DOMAIN s.cols THEN s
     ELSE IF Len(s.cols[src].tiles) = 1 /\ Len(s.cols[dst].tiles) = 1
     THEN move_column_to(s, dst, far)
     ELSE LET st == s.cols[src].act
              dt == s.cols[dst].act
              drained == Len(s.cols[src].tiles) = 1
              dst1 == IF dir = "right" /\ drained THEN dst - 1 ELSE dst
              s1 == remove_tile_by_idx(s, src, st, far)
              s2 == add_tile_to_column(s1, dst1, dt, s.cols[src].tiles[st], FALSE, far)
              back == s2.cols[dst1].tiles[dt + 1]
              s3 == remove_tile_by_idx(s2, dst1, dt + 1, far)
              s4 == IF drained THEN add_tile(s3, src, back, TRUE, tabbed, far)
                    ELSE add_tile_to_column(s3, src, st, back, FALSE, far)
          IN activate_column([s4 EXCEPT !.cols[src].act = st, !.cols[dst].act = dt], dst, far)

(***************************************************************************)
(* Fullscreen, maximized and tabbed columns.                               *)
(***************************************************************************)
pending(c, m) == IF m = "fullscreen" THEN c.pfs ELSE c.pmax

\* Mutant: the window is not taken out of the column it shares.
set_mode_NoExpel(s, w, m, on, tabbed, far) ==
  LET ci == col_of(s, w)
  IN IF on = pending(s.cols[ci], m) THEN s
     ELSE [cancel_resize_for_column(s, ci) EXCEPT !.cols[ci] = set_column_mode(s.cols[ci], m, on)]

\* set_fullscreen and set_maximized: a window that shares an untabbed column
\* leaves it first.
set_mode(s, w, m, on, tabbed, far) ==
  LET ci == col_of(s, w)
      s1 == cancel_resize_for_column(s, ci)
      s2 == IF on /\ Len(s.cols[ci].tiles) > 1 /\ ~s.cols[ci].tabbed
            THEN consume_or_expel_window_right(s1, w, tabbed, far) ELSE s1
      cj == col_of(s2, w)
  IN IF on = pending(s.cols[ci], m) THEN s
     ELSE [s2 EXCEPT !.cols[cj] = set_column_mode(s2.cols[cj], m, on)]

set_column_display(s, tabbed, far) ==
  IF s.cols = <<>> \/ s.cols[s.act].tabbed = tabbed THEN s
  ELSE LET s1 == [cancel_resize_for_column(s, s.act) EXCEPT
                    !.cols[s.act] = update_tile_sizes([s.cols[s.act] EXCEPT !.tabbed = tabbed])]
           w  == active_window(s1)
       IN IF ~tabbed /\ Len(s1.cols[s1.act].tiles) > 1
          THEN set_mode(set_mode(s1, w, "fullscreen", FALSE, FALSE, far),
                        w, "maximized", FALSE, FALSE, far)
          ELSE s1

(***************************************************************************)
(* Sizes and centering: each ends an interactive resize of the column.     *)
(***************************************************************************)
OnColumn(s, ci, c) == [cancel_resize_for_column(s, ci) EXCEPT !.cols[ci] = c]

set_width_of(s, w) ==
  LET ci == col_of(s, w) IN OnColumn(s, ci, set_column_width(s.cols[ci]))

set_height_of(s, w) ==
  LET ci == col_of(s, w)
      c  == s.cols[ci]
  IN OnColumn(s, ci, set_window_height(c, position(c.tiles, w)))

reset_height_of(s, w) ==
  LET ci == col_of(s, w)
      c  == s.cols[ci]
  IN OnColumn(s, ci, reset_window_height(c, position(c.tiles, w)))

toggle_full_width_active(s) ==
  IF s.cols = <<>> THEN s ELSE OnColumn(s, s.act, toggle_full_width(s.cols[s.act]))

\* `fits': some room is left beside the columns that are fully in view.
expand_column_to_available_width(s, fits, far) ==
  IF s.cols = <<>> \/ pending_sizing_mode(s.cols[s.act]) # "normal" \/ ~fits THEN s
  ELSE animate_view_offset(cancel_resize_for_column(s, s.act), far)

center_column(s, far) ==
  IF s.cols = <<>> THEN s
  ELSE cancel_resize_for_column(animate_view_offset(s, far), s.act)

\* `fits': the active column is fully in view, so the visible ones can be centred.
center_visible_columns(s, fits, far) ==
  IF s.cols = <<>> \/ ~fits THEN s
  ELSE animate_view_offset(cancel_resize_for_column(s, s.act), far)

center_window(s, w, far) == IF col_of(s, w) # s.act THEN s ELSE center_column(s, far)

(***************************************************************************)
(* A client commits: its tile takes the mode `m' of the configure it       *)
(* acknowledged.  `late': the commit belongs to an interactive resize.     *)
(***************************************************************************)
update_window(s, w, m, late, far) ==
  LET ci   == col_of(s, w)
      ti   == position(s.cols[ci].tiles, w)
      s1   == [s EXCEPT !.cols[ci].tiles[ti].size = m]
      was  == sizing_mode(s.cols[ci]) = "normal"
      now  == sizing_mode(s1.cols[ci]) = "normal"
      s2   == [s1 EXCEPT
                 !.view = IF late /\ @ \in {"gesture", "dnd"} THEN "static" ELSE @,
                 !.restore = IF was /\ ~now THEN TRUE ELSE IF ~was /\ now THEN FALSE ELSE @]
  IN IF ci # s.act THEN s1
     ELSE IF s2.resize = NoWin /\ s2.view \notin {"gesture", "dnd"}
     THEN animate_view_offset(s2, far) ELSE s2

(***************************************************************************)
(* Gestures and interactive resize.                                        *)
(***************************************************************************)
view_offset_gesture_begin(s) ==
  IF s.cols = <<>> \/ s.resize # NoWin THEN s ELSE [s EXCEPT !.view = "gesture"]

dnd_scroll_gesture_begin(s) ==
  IF s.view = "dnd" THEN s ELSE [s EXCEPT !.view = "dnd", !.resize = NoWin]

\* The view snaps to some column, which becomes active; only the offset to
\* restore is forgotten.
view_offset_gesture_end(s, idx, far) ==
  IF s.view \notin {"gesture", "dnd"} THEN s
  ELSE IF s.cols = <<>> THEN [s EXCEPT !.view = "static"]
  ELSE animate_view_offset([s EXCEPT !.view = "anim", !.act = idx,
                                     !.restore = s.restore /\ s.act = idx], far)

\* `still': the drag never scrolled the view.
dnd_scroll_gesture_end(s, still, idx, far) ==
  IF s.view \notin {"gesture", "dnd"} THEN s
  ELSE IF still /\ s.view = "dnd"
  THEN IF s.cols = <<>> THEN [s EXCEPT !.view = "static"]
       ELSE animate_view_offset([s EXCEPT !.view = "static"], far)
  ELSE view_offset_gesture_end(s, idx, far)

interactive_resize_begin(s, w) ==
  IF s.resize # NoWin \/ pending_sizing_mode(s.cols[col_of(s, w)]) # "normal" THEN s
  ELSE [s EXCEPT !.resize = w, !.view = "static"]

\* Horizontal edges set the column's width, vertical ones the tile's height.
interactive_resize_update(s, w, vertical) ==
  IF s.resize # w THEN s
  ELSE LET ci == col_of(s, w)
           c  == s.cols[ci]
           ti == position(c.tiles, w)
       IN [s EXCEPT !.cols[ci] = IF vertical THEN set_window_height(c, ti)
                                 ELSE set_column_width(c)]

\* w = NoWin ends any resize.
interactive_resize_end(s, w, far) ==
  IF s.resize = NoWin \/ (w # NoWin /\ w # s.resize) THEN s
  ELSE [(IF w \in TileWins(s.cols[s.act].tiles) THEN animate_view_offset(s, far) ELSE s)
          EXCEPT !.resize = NoWin]

(***************************************************************************)
(* Configuration, output size and time.                                    *)
(***************************************************************************)
\* `presets': the preset heights changed, so heights become automatic.
update_config(s, presets, far) ==
  LET s1 == [s EXCEPT !.cols = [i \in DOMAIN s.cols |->
               update_tile_sizes(IF presets THEN convert_heights_to_auto(s.cols[i])
                                 ELSE s.cols[i])]]
  IN IF s.cols = <<>> \/ s.view \in {"gesture", "dnd"} THEN s1
     ELSE animate_view_offset(s1, far)

advance_animations(s) == IF s.view = "anim" THEN [s EXCEPT !.view = "static"] ELSE s
=============================================================================
