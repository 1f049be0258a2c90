------------------------------ MODULE Floating ------------------------------
(***************************************************************************)
(* The floating space of one workspace (src/layout/floating.rs): a stack   *)
(* of tiles, topmost first, the active window and the window being         *)
(* resized.  As in Scrolling.tla, a space is a record and every method an  *)
(* operator on it; positions and sizes are left out, stacking is not.      *)
(* `parent' maps a window to the window it is a dialog of.                 *)
(***************************************************************************)
EXTENDS Naturals, Sequences, SequencesExt

CONSTANTS Win, NoWin

EmptyFloating == [tiles |-> <<>>, act |-> NoWin, resize |-> NoWin]

FloatWins(f) == {f.tiles[i].win : i \in DOMAIN f.tiles}

idx_of(f, w) == CHOOSE i \in DOMAIN f.tiles : f.tiles[i].win = w

float_tile(f, w) == f.tiles[idx_of(f, w)]

(***************************************************************************)
(* Stacking: a dialog stays above the window it belongs to.                *)
(***************************************************************************)
raise_window(tiles, from, to) == InsertAt(RemoveAt(tiles, from), to, tiles[from])

\* The tiles below idx that descend from the tile at idx, found bottom-up.
DescendantsBelow(tiles, parent, idx) ==
  LET Add(acc, i) ==
        IF parent[tiles[i].win] \in {tiles[idx].win} \union {tiles[j].win : j \in acc}
        THEN acc \union {i} ELSE acc
  IN FoldLeft(Add, {}, Reverse([k \in 1..(Len(tiles) - idx) |-> idx + k]))

\* Mutant: only direct children follow a raised window.
bring_up_descendants_of_ChildrenOnly(tiles, parent, idx) ==
  LET Up(ts, i) == raise_window(ts, i, idx)
  IN FoldLeft(Up, tiles, SelectSeq([k \in 1..Len(tiles) |-> k],
                LAMBDA i : i > idx /\ parent[tiles[i].win] = tiles[idx].win))

\* They move, in their order, to just above the tile.
bring_up_descendants_of(tiles, parent, idx) ==
  LET ds   == DescendantsBelow(tiles, parent, idx)
      Is(i) == i \in ds
      down == SelectSeq([k \in 1..Len(tiles) |-> k], Is)
      Up(acc, i) == [ts |-> raise_window(acc.ts, i, acc.at), at |-> acc.at + 1]
  IN FoldLeft(Up, [ts |-> tiles, at |-> idx], down).ts

(***************************************************************************)
(* Adding and removing.  Entering the space asks the window for its        *)
(* floating size, which ends fullscreen and maximization.                  *)
(***************************************************************************)
add_tile_at(f, parent, idx, tile, activate) ==
  LET above == {i \in 1..(idx - 1) : f.tiles[i].win = parent[tile.win]}
      at    == IF above = {} THEN idx ELSE CHOOSE i \in above : \A j \in above : i <= j
      tiles == InsertAt(f.tiles, at, [tile EXCEPT !.req = "normal"])
  IN [f EXCEPT !.tiles = bring_up_descendants_of(tiles, parent, at),
               !.act = IF activate \/ f.tiles = <<>> THEN tile.win ELSE f.act]

add_tile(f, parent, tile, activate) == add_tile_at(f, parent, 1, tile, activate)

add_tile_above(f, parent, w, tile, activate) ==
  add_tile_at(f, parent, idx_of(f, w), tile, activate)

remove_tile(f, w) ==
  LET tiles == RemoveAt(f.tiles, idx_of(f, w))
  IN [f EXCEPT !.tiles = tiles,
               !.act = IF tiles = <<>> THEN NoWin
                       ELSE IF f.act = w THEN tiles[1].win ELSE f.act,
               !.resize = IF f.resize = w THEN NoWin ELSE f.resize]

(***************************************************************************)
(* Focus.                                                                  *)
(***************************************************************************)
activate_window_without_raising(f, w) == [f EXCEPT !.act = w]

activate_window(f, parent, w) ==
  [f EXCEPT !.tiles = bring_up_descendants_of(raise_window(f.tiles, idx_of(f, w), 1), parent, 1),
            !.act = w]

\* focus_directional and focus_leftmost .. focus_bottommost: positions pick
\* another window, or none.
FocusChoices(f, parent) == {f} \union {activate_window(f, parent, w) : w \in FloatWins(f)}

descendants_added(f, parent, w) ==
  [f EXCEPT !.tiles = bring_up_descendants_of(f.tiles, parent, idx_of(f, w))]

(***************************************************************************)
(* Interactive resize; moving any window ends it, sizing a window by a     *)
(* preset ends its own.                                                    *)
(***************************************************************************)
interactive_resize_begin(f, w) == IF f.resize # NoWin THEN f ELSE [f EXCEPT !.resize = w]

interactive_resize_end(f, w) ==
  IF w # NoWin /\ w # f.resize THEN f ELSE [f EXCEPT !.resize = NoWin]

move_to(f) == interactive_resize_end(f, NoWin)

toggle_window_size(f, w) == interactive_resize_end(f, w)

update_window(f, w, m) == [f EXCEPT !.tiles[idx_of(f, w)].size = m]
=============================================================================
