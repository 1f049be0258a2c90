-------------------------------- MODULE Focus --------------------------------
(***************************************************************************)
(* Who has the keyboard: update_keyboard_focus (niri.rs) ranks the dialogs, *)
(* the lock screen, the layer-shell surfaces and the layout; popup grabs    *)
(* (handlers/xdg_shell.rs) follow that choice; layer surfaces map, unmap    *)
(* and change their interactivity (handlers/layer_shell.rs).  One output is *)
(* active.  The state is refreshed once per turn of the event loop, after   *)
(* any number of events: fcFresh holds right after it.                      *)
(***************************************************************************)
EXTENDS Naturals, FiniteSets, Sequences

CONSTANTS FcProfiles,  \* scenes: [wins: windows, layers: surface -> layer,
                       \* ui: what may open, layouts: may layouts switch]
          FcNone       \* no surface

VARIABLES fcLayer,     \* surface -> [up, inter, backdrop]
          fcWin,       \* layout.focus(): the active window, or FcNone
          fcOnDemand,  \* layer_shell_on_demand_focus
          fcUi,        \* what is open, of {"dialog", "locked", "screenshot",
                       \* "mru", "overview", "above", "ime"}
          fcKbd,       \* keyboard_focus
          fcGrab,      \* popup_grab: [root, kbd, ended], root FcNone if none
          fcXkb,       \* the active keyboard layout, 0 or 1
          fcSaved,     \* surface -> the layout stored with it
          fcUsed,      \* surface -> the layout it was last used with
          fcFresh, fcProfile

(* No window and no layer surface is the lack of one.                       *)
ASSUME FcAssumption ==
  \A p \in FcProfiles : FcNone \notin p.wins \cup DOMAIN p.layers \cup {"lock"}

fcVars == <<fcLayer, fcWin, fcOnDemand, fcUi, fcKbd, fcGrab, fcXkb, fcSaved,
            fcUsed, fcFresh, fcProfile>>

FcWin == fcProfile.wins
FcLayers == DOMAIN fcProfile.layers
FcSurfaces == FcWin \cup FcLayers \cup {"lock"}
Layer(l) == fcProfile.layers[l]
NoGrab == [root |-> FcNone, kbd |-> FALSE, ended |-> FALSE]

Kbd(kind, s) == [kind |-> kind, surface |-> s]

FcInit ==
  /\ fcProfile \in FcProfiles
  /\ fcLayer = [l \in FcLayers |-> [up |-> FALSE, inter |-> "none", backdrop |-> FALSE]]
  /\ fcWin = FcNone /\ fcOnDemand = FcNone /\ fcUi = {}
  /\ fcKbd = Kbd("layout", FcNone) /\ fcGrab = NoGrab
  /\ fcXkb = 0 /\ fcSaved = [s \in FcSurfaces |-> 0] /\ fcUsed = fcSaved
  /\ fcFresh = TRUE

-----------------------------------------------------------------------------
(* update_keyboard_focus.                                                   *)

place_within_backdrop(l) == fcLayer[l].backdrop /\ Layer(l) = "background"

OnDemandGood ==
  /\ fcOnDemand # FcNone
  /\ fcLayer[fcOnDemand].up /\ fcLayer[fcOnDemand].inter = "ondemand"
  /\ ~place_within_backdrop(fcOnDemand)

(* Each rank offers a set with at most one focus; the first rank that       *)
(* offers one wins.                                                         *)
layout_focus == IF fcWin = FcNone THEN {} ELSE {Kbd("layout", fcWin)}

GrabOn(popup, layer) ==
  {Kbd("layer", l) : l \in {l \in FcLayers : /\ popup.root = l /\ Layer(l) = layer
                                             /\ fcLayer[l].inter # "none"}}

ExclusiveOn(layer) ==
  {Kbd("layer", l) : l \in {l \in FcLayers : /\ Layer(l) = layer
                                             /\ fcLayer[l].inter = "exclusive"
                                             /\ fcLayer[l].up
                                             /\ ~place_within_backdrop(l)}}

OnDemandOn(layer, onDemand) ==
  {Kbd("layer", l) : l \in {l \in FcLayers : l = onDemand /\ Layer(l) = layer}}

FirstOf(ranks) ==
  LET offered == {i \in 1..Len(ranks) : ranks[i] # {}}
  IN  IF offered = {} THEN Kbd("layout", FcNone)
      ELSE CHOOSE f \in ranks[CHOOSE i \in offered : \A j \in offered : i <= j] : TRUE

(* An exclusive surface of a layer goes before its on-demand one.           *)
FocusOn(layer, od) ==
  IF ExclusiveOn(layer) # {} THEN ExclusiveOn(layer) ELSE OnDemandOn(layer, od)

(* The overview hides the layers below the windows, and takes the keyboard. *)
GrabBelow(popup, layer) == IF "overview" \in fcUi THEN {} ELSE GrabOn(popup, layer)
overview_focus == IF "overview" \in fcUi THEN {Kbd("overview", FcNone)} ELSE {}

GrabRanks(popup) ==
  <<GrabOn(popup, "overlay"), GrabOn(popup, "top"),
    GrabBelow(popup, "bottom"), GrabBelow(popup, "background")>>

LayerRanks(od) ==
  IF "above" \in fcUi
  THEN <<layout_focus, FocusOn("top", od), FocusOn("bottom", od), FocusOn("background", od)>>
  ELSE <<FocusOn("top", od), overview_focus, OnDemandOn("bottom", od), OnDemandOn("background", od),
         layout_focus, ExclusiveOn("bottom"), ExclusiveOn("background")>>

ComputedFocus(od, popup) ==
  CASE "dialog" \in fcUi -> Kbd("dialog", FcNone)
    [] "locked" \in fcUi /\ "dialog" \notin fcUi -> Kbd("lock", "lock")
    [] "screenshot" \in fcUi /\ fcUi \cap {"dialog", "locked"} = {} -> Kbd("screenshot", FcNone)
    [] "mru" \in fcUi /\ fcUi \cap {"dialog", "locked", "screenshot"} = {} -> Kbd("mru", FcNone)
    [] OTHER -> FirstOf(GrabRanks(popup) \o <<FocusOn("overlay", od)>> \o LayerRanks(od))

-----------------------------------------------------------------------------
(* State::refresh: first the popup grab, then the keyboard focus.           *)

(* A grab ends by itself, or when an input method takes the keyboard.       *)
refresh_popup_grab ==
  IF fcGrab.ended \/ "ime" \in fcUi THEN NoGrab ELSE fcGrab

GrabAfter(popup, focus) ==
  IF fcKbd # focus /\ popup.kbd /\ popup.root # focus.surface THEN NoGrab ELSE popup

(* track-layout "window": the layout is stored with the surface that loses  *)
(* the focus and taken from the one that gets it.                           *)
SavedAfter(focus) ==
  IF fcKbd.surface # FcNone THEN [fcSaved EXCEPT ![fcKbd.surface] = fcXkb] ELSE fcSaved

\* Mutant: the new focus is computed before stale on-demand focus is dropped.
update_keyboard_focus_Late(od, popup) ==
  LET focus == ComputedFocus(fcOnDemand, popup)
  IN  /\ fcGrab' = GrabAfter(popup, focus)
      /\ fcSaved' = IF fcKbd = focus THEN fcSaved ELSE SavedAfter(focus)
      /\ fcXkb' = IF fcKbd = focus \/ focus.surface = FcNone THEN fcXkb
                  ELSE fcSaved'[focus.surface]
      /\ fcKbd' = focus
      /\ fcOnDemand' = od

update_keyboard_focus(od, popup) ==
  LET focus == ComputedFocus(od, popup)
  IN  /\ fcGrab' = GrabAfter(popup, focus)
      /\ fcSaved' = IF fcKbd = focus THEN fcSaved ELSE SavedAfter(focus)
      /\ fcXkb' = IF fcKbd = focus \/ focus.surface = FcNone THEN fcXkb
                  ELSE fcSaved'[focus.surface]
      /\ fcKbd' = focus
      /\ fcOnDemand' = od

Refresh ==
  /\ fcFresh' = TRUE
  /\ update_keyboard_focus(IF OnDemandGood THEN fcOnDemand ELSE FcNone,
                           refresh_popup_grab)
  /\ UNCHANGED <<fcLayer, fcWin, fcUi, fcUsed, fcProfile>>

Stale == fcFresh' = FALSE

-----------------------------------------------------------------------------
(* Layer surfaces.                                                          *)

(* A commit with a buffer maps the surface or changes what it asks for; a   *)
(* newly mapped on-demand surface is focused.                               *)
LayerCommit(l, inter) ==
  /\ fcLayer' = [fcLayer EXCEPT ![l].up = TRUE, ![l].inter = inter]
  /\ fcLayer' # fcLayer
  /\ fcOnDemand' = IF ~fcLayer[l].up /\ inter = "ondemand" THEN l ELSE fcOnDemand
  /\ Stale
  /\ UNCHANGED <<fcWin, fcUi, fcKbd, fcGrab, fcXkb, fcSaved, fcUsed, fcProfile>>

(* A null commit or the destruction of the surface; its popups end with it. *)
LayerUnmap(l) ==
  /\ fcLayer[l].up
  /\ fcLayer' = [fcLayer EXCEPT ![l].up = FALSE, ![l].inter = "none"]
  /\ fcGrab' = IF fcGrab.root = l THEN [fcGrab EXCEPT !.ended = TRUE] ELSE fcGrab
  /\ Stale
  /\ UNCHANGED <<fcWin, fcOnDemand, fcUi, fcKbd, fcXkb, fcSaved, fcUsed, fcProfile>>

(* A configuration reload moves the surface in or out of the backdrop.      *)
recompute_layer_rules(l) ==
  /\ Layer(l) = "background"
  /\ fcLayer' = [fcLayer EXCEPT ![l].backdrop = ~@]
  /\ Stale
  /\ UNCHANGED <<fcWin, fcOnDemand, fcUi, fcKbd, fcGrab, fcXkb, fcSaved, fcUsed, fcProfile>>

(* A click on layer surface l, or (FcNone) elsewhere.                       *)
focus_layer_surface_if_on_demand(l) ==
  /\ fcUi \cap {"dialog", "locked", "screenshot", "mru"} = {}
  /\ IF l = FcNone THEN TRUE ELSE fcLayer[l].up
  /\ fcOnDemand' = IF l = FcNone THEN FcNone
                   ELSE IF fcLayer[l].inter = "ondemand" THEN l ELSE FcNone
  /\ Stale
  /\ UNCHANGED <<fcLayer, fcWin, fcUi, fcKbd, fcGrab, fcXkb, fcSaved, fcUsed, fcProfile>>

(* With focus-follows-mouse, pointing at a layer surface focuses it even if *)
(* it takes no on-demand focus; the next refresh drops that.                *)
handle_focus_follows_mouse(l) ==
  /\ fcUi \cap {"dialog", "locked", "screenshot", "mru"} = {}
  /\ fcGrab = NoGrab
  /\ fcLayer[l].up
  /\ fcOnDemand' = l
  /\ Stale
  /\ UNCHANGED <<fcLayer, fcWin, fcUi, fcKbd, fcGrab, fcXkb, fcSaved, fcUsed, fcProfile>>

-----------------------------------------------------------------------------
(* Windows, popups, dialogs, keyboard layouts.                              *)

(* An action or a click focuses a window (or an empty workspace); focusing  *)
(* through an action also leaves the on-demand layer.                       *)
FocusWindow(w, byAction) ==
  /\ w # fcWin
  /\ fcWin' = w
  /\ fcOnDemand' = IF byAction THEN FcNone ELSE fcOnDemand
  /\ Stale
  /\ UNCHANGED <<fcLayer, fcUi, fcKbd, fcGrab, fcXkb, fcSaved, fcUsed, fcProfile>>

TakesInput(layer) ==
  \E l \in FcLayers : /\ Layer(l) = layer /\ fcLayer[l].up
                      /\ (fcLayer[l].inter = "exclusive" \/ l = fcOnDemand)

(* XdgShellHandler::grab: refused where update_keyboard_focus would put the *)
(* focus elsewhere, as far as the handler checks that.                      *)
GrabAllowed(root) ==
  CASE "dialog" \in fcUi -> FALSE
    [] "locked" \in fcUi /\ "dialog" \notin fcUi -> root = "lock"
    [] "screenshot" \in fcUi /\ fcUi \cap {"dialog", "locked"} = {} -> FALSE
    [] root \in FcLayers /\ fcUi \cap {"dialog", "locked", "screenshot"} = {} ->
         ~(fcLayer[root].up /\ place_within_backdrop(root))
    [] OTHER -> /\ ~TakesInput("overlay")
                /\ "above" \in fcUi \/ ~TakesInput("top")
                /\ root = fcWin

grab(root) ==
  /\ root \in FcLayers => fcLayer[root].up
  /\ "ime" \notin fcUi
  /\ GrabAllowed(root)
  /\ fcGrab.root \in {FcNone, root} /\ ~fcGrab.ended
  /\ fcGrab' = [root |-> root, ended |-> FALSE,
                kbd |-> IF root \in FcLayers THEN fcLayer[root].inter # "none" ELSE TRUE]
  /\ Stale
  /\ UNCHANGED <<fcLayer, fcWin, fcOnDemand, fcUi, fcKbd, fcXkb, fcSaved, fcUsed, fcProfile>>

(* External: the popup is dismissed or destroyed.                           *)
PopupGone ==
  /\ fcGrab # NoGrab /\ ~fcGrab.ended
  /\ fcGrab' = [fcGrab EXCEPT !.ended = TRUE]
  /\ Stale
  /\ UNCHANGED <<fcLayer, fcWin, fcOnDemand, fcUi, fcKbd, fcXkb, fcSaved, fcUsed, fcProfile>>

(* A dialog opens or closes, the session locks or unlocks, a fullscreen     *)
(* window covers the top layer, an input method takes the keyboard.  A new  *)
(* lock waits for its surfaces, so the unlock before it has been refreshed. *)
ToggleUi(u) ==
  /\ fcUi' = IF u \in fcUi THEN fcUi \ {u}
             ELSE (IF u = "locked" THEN fcUi \ {"screenshot", "mru"} ELSE fcUi) \cup {u}
  /\ "locked" \in fcUi => u \in {"locked", "dialog", "ime"}
  /\ (u = "locked" /\ u \notin fcUi) => fcKbd.kind # "lock"
  /\ Stale
  /\ UNCHANGED <<fcLayer, fcWin, fcOnDemand, fcKbd, fcGrab, fcXkb, fcSaved, fcUsed, fcProfile>>

(* Action::SwitchLayout, or the keymap's own switch key.                    *)
SwitchLayout ==
  /\ fcXkb' = 1 - fcXkb
  /\ fcUsed' = IF fcKbd.surface = FcNone THEN fcUsed
               ELSE [fcUsed EXCEPT ![fcKbd.surface] = 1 - fcXkb]
  /\ Stale
  /\ UNCHANGED <<fcLayer, fcWin, fcOnDemand, fcUi, fcKbd, fcGrab, fcSaved, fcProfile>>

FcNext ==
  \/ Refresh
  \/ \E l \in FcLayers, i \in {"none", "exclusive", "ondemand"} : LayerCommit(l, i)
  \/ \E l \in FcLayers : LayerUnmap(l)
  \/ \E l \in FcLayers : recompute_layer_rules(l)
  \/ \E l \in FcLayers \cup {FcNone} : focus_layer_surface_if_on_demand(l)
  \/ \E l \in FcLayers : handle_focus_follows_mouse(l)
  \/ \E w \in FcWin \cup {FcNone}, a \in BOOLEAN : FocusWindow(w, a)
  \/ \E r \in FcSurfaces : grab(r)
  \/ PopupGone
  \/ \E u \in fcProfile.ui : ToggleUi(u)
  \/ fcProfile.layouts /\ SwitchLayout

FcSpec == FcInit /\ [][FcNext]_fcVars

-----------------------------------------------------------------------------
(* One refresh settles the focus: refreshing again without an event in      *)
(* between changes neither the focus, the grab, the on-demand surface nor   *)
(* the keyboard layout (update_keyboard_focus drops grabs and on-demand     *)
(* focus that its own choice depends on).                                   *)
RefreshSettles == [][(fcFresh /\ fcFresh') => UNCHANGED fcVars]_fcVars

(* With per-window layouts, a surface that gets the focus back has the      *)
(* layout it was last used with, whatever was focused, locked or switched   *)
(* meanwhile (update_keyboard_focus, track_layout).                         *)
LayoutComesBack == fcKbd.surface # FcNone => fcXkb = fcUsed[fcKbd.surface]

(* Once the lock screen has the focus no popup of an application holds the  *)
(* keyboard, in whatever order the popup, the lock and a dialog appeared    *)
(* (grab, update_keyboard_focus).                                           *)
LockedPopupsLoseKeyboard ==
  (fcFresh /\ fcKbd.kind = "lock" /\ fcGrab.kbd) => fcGrab.root = "lock"

(* A popup that grabbed the keyboard belongs to the surface that has the    *)
(* focus: "We need to hand out the grab in a way consistent with what       *)
(* update_keyboard_focus() thinks the current focus is, otherwise it will   *)
(* desync" (grab).                                                          *)
GrabFollowsFocus == (fcFresh /\ fcGrab.kbd) => fcGrab.root = fcKbd.surface
=============================================================================
