------------------------------ MODULE Gestures ------------------------------
(***************************************************************************)
(* The gestures of the layout and who drives them: the pointer grabs and   *)
(* touch grabs that move and resize windows, drag the view and switch      *)
(* workspaces (input/*_grab.rs), the three- and four-finger swipes and the *)
(* two-finger scroll of the overview (input/mod.rs), and the gesture       *)
(* states of layout/mod.rs, monitor.rs and scrolling.rs that they begin,   *)
(* update and end.                                                         *)
(*                                                                         *)
(* Motion is "near" while a gesture is being recognised, then "wide" or    *)
(* "tall".  A gesture state is "ptr" (is_touchpad false), "pad"            *)
(* (is_touchpad true) or "dnd" (the scroll that follows a dragged window). *)
(***************************************************************************)
EXTENDS Integers, FiniteSets, Sequences

CONSTANTS
    GsNone,
    GsProfiles  \* set-ups: home (workspace -> output), order (the workspaces
                \* in the order of the layout), wins (window -> workspace), may
VARIABLES
    gsLay,      \* Layout: outs, active (output -> workspace), view, switch,
                \* overview, move, resize, at (window -> where), float
    gsPtr,      \* the grab of the pointer
    gsTch,      \* the grab of the touch screen
    gsDown,     \* the mouse buttons that are down
    gsFingers,  \* the touch slots that are down
    gsPad,      \* touchpad: swiping (fingers, 0 for none), cumulative, scroll, vertical
    gsFresh,    \* refresh ran after the last event
    gsProfile

gsVars == <<gsLay, gsPtr, gsTch, gsDown, gsFingers, gsPad, gsFresh, gsProfile>>

NoDrag == [kind |-> "none", st |-> "none", win |-> GsNone, ws |-> GsNone, out |-> GsNone, by |-> GsNone]
Home == gsProfile.home
Allowed(f) == f \in gsProfile.may
ShownWs(lay) == {w \in DOMAIN Home : Home[w] \in lay.outs}

-----------------------------------------------------------------------------
\* Whether a gesture of this kind of device is that of the layout: the scroll of
\* a drag counts as one of the pointer when a gesture ends.
IsPad(k) == k = "pad"
Ends(k, dev) == k # "no" /\ (IsPad(k) <=> IsPad(dev))
HasColumns(lay, w) == \E x \in DOMAIN lay.at : lay.at[x] = w /\ x \notin lay.float
ResizingOn(lay, w) == \E x \in lay.resize : lay.at[x] = w /\ x \notin lay.float

\* Begin on one workspace and end on the others; an empty workspace, or one with
\* an interactive resize, has no gesture to begin.
view_offset_gesture_begin(lay, w, dev) ==
    [lay EXCEPT !.view = [v \in DOMAIN @ |->
        IF Home[v] \notin lay.outs THEN @[v]
        ELSE IF v # w THEN "no"
        ELSE IF ~HasColumns(lay, v) \/ ResizingOn(lay, v) THEN @[v]
        ELSE dev]]
view_offset_gesture_update(lay, dev) == \E w \in ShownWs(lay) : lay.view[w] = dev
\* The first workspace whose gesture is one of this device ends it.
view_offset_gesture_end(lay, dev) ==
    LET found == {i \in DOMAIN gsProfile.order : LET w == gsProfile.order[i]
                                                 IN  w \in ShownWs(lay) /\ Ends(lay.view[w], dev)}
        first == CHOOSE i \in found : \A j \in found : i <= j
    IN  IF found = {} THEN lay ELSE [lay EXCEPT !.view[gsProfile.order[first]] = "no"]

workspace_switch_gesture_begin(lay, out, dev) ==
    [lay EXCEPT !.switch = [o \in DOMAIN @ |-> IF o \notin lay.outs THEN @[o] ELSE IF o = out THEN dev ELSE "no"]]
workspace_switch_gesture_update(lay, dev) == \E o \in lay.outs : lay.switch[o] = dev
workspace_switch_gesture_end(lay, dev) ==
    LET found == {o \in lay.outs : Ends(lay.switch[o], dev)}
    IN  IF found = {} THEN lay ELSE [lay EXCEPT !.switch[CHOOSE o \in found : TRUE] = "no"]

overview_gesture_begin(lay) == [lay EXCEPT !.overview = "gesture"]
\* The gesture ends open or closed, by where its speed would take it.
overview_gesture_end(lay, open) ==
    IF lay.overview = "gesture" THEN [lay EXCEPT !.overview = IF open THEN "open" ELSE "closed"] ELSE lay
toggle_overview(lay) == [lay EXCEPT !.overview = IF @ = "closed" THEN "open" ELSE "closed"]
is_overview_open(lay) == lay.overview # "closed"

\* The scroll that follows a drag, on every monitor and workspace.
DndEnd(lay) == [lay EXCEPT !.switch = [o \in DOMAIN @ |-> IF @[o] = "dnd" THEN "no" ELSE @[o]],
                           !.view = [w \in DOMAIN @ |-> "no"]]

interactive_move_begin(lay, x, out) ==
    IF lay.move = GsNone /\ lay.at[x] \in ShownWs(lay) /\ Home[lay.at[x]] = out
    THEN [lay EXCEPT !.move = [win |-> x, st |-> "starting", ws |-> lay.at[x]]]
    ELSE lay
\* An update past the threshold takes the window out of its workspace.
Unlocks(lay, x) == IF x \in lay.float THEN DndEnd(lay) ELSE lay
interactive_move_update(lay, x, far) ==
    IF far /\ lay.move # GsNone /\ lay.move.win = x /\ lay.move.st = "starting"
    THEN Unlocks([lay EXCEPT !.move.st = "moving", !.at[x] = GsNone, !.resize = @ \ {x}], x)
    ELSE lay
Moving(lay, x) == lay.move # GsNone /\ lay.move.win = x
interactive_move_end(lay, x) ==
    IF ~Moving(lay, x) THEN lay
    ELSE LET ended == IF lay.move.st = "starting" \/ x \notin lay.float THEN DndEnd(lay)
                      ELSE [DndEnd(lay) EXCEPT !.view = lay.view]
         IN  [ended EXCEPT !.move = GsNone, !.at[x] = lay.move.ws]

\* A resize ends the gesture of its workspace; there is one per workspace and layer.
CanResize(lay, x) ==
    lay.at[x] # GsNone /\ \A y \in lay.resize : lay.at[y] # lay.at[x] \/ (y \in lay.float) # (x \in lay.float)
interactive_resize_begin(lay, x) ==
    [lay EXCEPT !.resize = @ \cup {x}, !.view[lay.at[x]] = IF x \in lay.float THEN @ ELSE "no"]
interactive_resize_update(lay, x) == x \in lay.resize
\* The window being moved is not asked.
interactive_resize_end(lay, x) == [lay EXCEPT !.resize = @ \ {x}]

-----------------------------------------------------------------------------
\* What a grab does when it ends: MoveGrab, SpatialMovementGrab, ResizeGrab,
\* TouchOverviewGrab and TouchResizeGrab each end the gesture they began.
\* A tap activates its window or workspace and leaves the overview.  MoveGrab
\* looks whether the overview is open; TouchOverviewGrab does not.
TapInOverview(lay, d) ==
    LET target == IF d.win # GsNone THEN lay.at[d.win] ELSE d.ws
    IN  IF target \in ShownWs(lay) /\ (d.kind = "overview" \/ is_overview_open(lay)) THEN toggle_overview(lay) ELSE lay
on_ungrab(lay, d) ==
    CASE d.st = "resize"       -> interactive_resize_end(lay, d.win)
      [] d.st = "recognizing"  -> IF d.kind = "spatial" THEN lay ELSE TapInOverview(lay, d)
      [] d.st = "move"         -> interactive_move_end(lay, d.win)
      [] d.st = "view"         -> view_offset_gesture_end(lay, "ptr")
      [] d.st = "switch"       -> workspace_switch_gesture_end(lay, "ptr")
      [] OTHER                 -> lay

\* A step of a grab: the layout, the grab after it, and whether it goes on.
Goes(lay, d) == [lay |-> lay, d |-> d, on |-> TRUE]
Stops(lay, d) == [lay |-> lay, d |-> d, on |-> FALSE]

\* MoveGrab: a far motion becomes a move, or a view drag when that is enabled,
\* the window is tiled and the motion is wide.
BeginMove(lay, d) ==
    LET begun == interactive_move_begin(lay, d.win, d.out)
    IN  IF begun = lay THEN Stops(lay, d)
        ELSE Goes(interactive_move_update(begun, d.win, TRUE), [d EXCEPT !.st = "move"])
BeginView(lay, d) ==
    IF lay.at[d.win] \notin ShownWs(lay) THEN Stops(lay, d)
    ELSE LET begun == view_offset_gesture_begin(lay, lay.at[d.win], "ptr")
         IN  IF view_offset_gesture_update(begun, "ptr") THEN Goes(begun, [d EXCEPT !.st = "view"])
             ELSE Stops(begun, [d EXCEPT !.st = "view"])
on_motion(lay, d, m) ==
    CASE d.st = "recognizing" -> IF m = "near" THEN Goes(lay, d)
                                 ELSE IF lay.at[d.win] = GsNone THEN Stops(lay, d)
                                 ELSE IF d.by.drag /\ d.win \notin lay.float /\ m = "wide" THEN BeginView(lay, d)
                                 ELSE BeginMove(lay, d)
      [] d.st = "move" -> IF Moving(lay, d.win) THEN Goes(interactive_move_update(lay, d.win, m # "near"), d)
                          ELSE Stops(lay, d)
      [] d.st = "view" -> [lay |-> lay, d |-> d, on |-> view_offset_gesture_update(lay, "ptr")]

\* The other button, or another finger, toggles the window floating.
toggle_window_floating(lay, x) ==
    LET toggled == [lay EXCEPT !.float = (@ \ {x}) \cup ({x} \ @), !.resize = @ \ {x}]
    IN  IF lay.move # GsNone /\ lay.move.win = x /\ lay.move.st = "moving" /\ x \notin lay.float
        THEN [toggled EXCEPT !.view = [w \in DOMAIN @ |-> "no"]] ELSE toggled
on_toggle_floating(lay, d) ==
    IF d.st = "view" THEN Goes(lay, d)
    ELSE LET begun == IF d.st = "recognizing"
                      THEN IF lay.at[d.win] = GsNone THEN Stops(lay, d) ELSE BeginMove(lay, d)
                      ELSE Goes(lay, d)
         IN  IF begun.on THEN Goes(toggle_window_floating(begun.lay, d.win), begun.d) ELSE begun

\* SpatialMovementGrab::motion and the scrolls of TouchOverviewGrab::motion.
spatial_motion(lay, d, m) ==
    LET view   == view_offset_gesture_begin(lay, d.ws, "ptr")
        switch == workspace_switch_gesture_begin(lay, d.out, "ptr")
        begun  == [d EXCEPT !.st = IF m = "wide" THEN "view" ELSE "switch"]
    IN  CASE d.st = "recognizing" ->
                 IF m = "near" THEN Goes(lay, d)
                 ELSE IF m # "wide"
                 THEN [lay |-> switch, d |-> begun, on |-> workspace_switch_gesture_update(switch, "ptr")]
                 ELSE IF Home[d.ws] # d.out \/ d.out \notin lay.outs THEN Stops(lay, begun)
                 ELSE [lay |-> view, d |-> begun, on |-> view_offset_gesture_update(view, "ptr")]
          [] d.st = "view"   -> [lay |-> lay, d |-> d, on |-> view_offset_gesture_update(lay, "ptr")]
          [] d.st = "switch" -> [lay |-> lay, d |-> d, on |-> workspace_switch_gesture_update(lay, "ptr")]
\* TouchOverviewGrab: a touch held long enough becomes a move.
overview_motion(lay, d, m, held) ==
    LET begun == interactive_move_begin(lay, d.win, d.out)
    IN  IF d.st = "recognizing" /\ held /\ d.win # GsNone /\ begun # lay
        THEN Goes(interactive_move_update(begun, d.win, m # "near"), [d EXCEPT !.st = "move"])
        ELSE IF d.st = "move"
        THEN IF Moving(lay, d.win) THEN Goes(interactive_move_update(lay, d.win, m # "near"), d) ELSE Stops(lay, d)
        ELSE spatial_motion(lay, d, m)
resize_motion(lay, d) == [lay |-> lay, d |-> d, on |-> interactive_resize_update(lay, d.win)]

GrabMotion(lay, d, m, held) ==
    CASE d.kind = "move"     -> on_motion(lay, d, m)
      [] d.kind = "spatial"  -> spatial_motion(lay, d, m)
      [] d.kind = "overview" -> overview_motion(lay, d, m, held)
      [] d.kind = "resize"   -> resize_motion(lay, d)

SetPtr(step) ==
    /\ gsLay' = IF step.on THEN step.lay ELSE on_ungrab(step.lay, step.d)
    /\ gsPtr' = IF step.on THEN step.d ELSE NoDrag
    /\ gsFresh' = FALSE
SetTch(step) ==
    /\ gsLay' = IF step.on THEN step.lay ELSE on_ungrab(step.lay, step.d)
    /\ gsTch' = IF step.on THEN step.d ELSE NoDrag
    /\ gsFresh' = FALSE

-----------------------------------------------------------------------------
GsInit ==
    /\ gsProfile \in GsProfiles
    /\ gsLay = [outs |-> {Home[w] : w \in DOMAIN Home},
                active |-> [o \in {Home[w] : w \in DOMAIN Home} |-> CHOOSE w \in DOMAIN Home : Home[w] = o],
                view |-> [w \in DOMAIN Home |-> "no"],
                switch |-> [o \in {Home[w] : w \in DOMAIN Home} |-> "no"],
                overview |-> "closed", move |-> GsNone, resize |-> {}, at |-> gsProfile.wins, float |-> {}]
    /\ gsPtr = NoDrag /\ gsTch = NoDrag /\ gsDown = {} /\ gsFingers = {}
    /\ gsPad = [swiping |-> 0, cumulative |-> FALSE, scroll |-> FALSE, vertical |-> FALSE]
    /\ gsFresh = TRUE

\* on_pointer_button, pressed, with what is under the pointer: the first button
\* begins a grab, a later one is for the grab.
Begin(kind, st, x, w, by) == [kind |-> kind, st |-> st, win |-> x, ws |-> w, out |-> Home[w], by |-> by]
StartOverviewView(w, by) ==
    /\ by.key = "right" /\ is_overview_open(gsLay)
    /\ SetPtr(Goes(view_offset_gesture_begin(gsLay, w, "ptr"), Begin("spatial", "view", GsNone, w, by)))
StartSpatial(w, by) ==
    /\ by.key = "middle" /\ (is_overview_open(gsLay) \/ gsLay.active[Home[w]] = w)
    /\ SetPtr(Goes(gsLay, Begin("spatial", "recognizing", GsNone, w, by)))
StartMove(x, by) ==
    /\ by.key = "left" /\ gsLay.at[x] \in ShownWs(gsLay)
    /\ SetPtr(Goes(gsLay, Begin("move", "recognizing", x, gsLay.at[x], by)))
StartResize(x, by) ==
    /\ by.key = "right" /\ ~is_overview_open(gsLay) /\ gsLay.at[x] \in ShownWs(gsLay) /\ CanResize(gsLay, x)
    /\ SetPtr(Goes(interactive_resize_begin(gsLay, x), Begin("resize", "resize", x, gsLay.at[x], by)))
\* The grab of a plain click, whose client may ask to move or resize.
Click(by) == SetPtr(Goes(gsLay, [NoDrag EXCEPT !.kind = "click", !.by = [by EXCEPT !.client = TRUE]]))
\* The grab sees another button: MoveGrab toggles floating with it.
ButtonInGrab(b) ==
    SetPtr(IF gsPtr.kind # "move" THEN Goes(gsLay, gsPtr)
           ELSE IF gsPtr.by.key \notin gsDown' THEN Stops(gsLay, gsPtr)
           ELSE IF {b, gsPtr.by.key} = {"left", "right"} THEN on_toggle_floating(gsLay, gsPtr)
           ELSE Goes(gsLay, gsPtr))
GsPressButton(b) ==
    /\ Allowed("ptr") /\ b \notin gsDown /\ gsLay.outs # {}
    /\ gsDown' = gsDown \cup {b}
    /\ LET by == [key |-> b, drag |-> FALSE, client |-> FALSE]
       IN  \/ /\ gsDown = {}
              /\ \/ \E w \in ShownWs(gsLay) : StartOverviewView(w, by) \/ StartSpatial(w, by)
                 \/ \E x \in DOMAIN gsLay.at : StartMove(x, by) \/ StartResize(x, by)
                 \/ Click(by)
           \/ gsDown # {} /\ ButtonInGrab(b)
    /\ UNCHANGED <<gsTch, gsFingers, gsPad>>
\* MoveGrab ends with its button, the others with the last one.
GsReleaseButton(b) ==
    /\ b \in gsDown /\ gsDown' = gsDown \ {b}
    /\ SetPtr([lay |-> gsLay, d |-> gsPtr,
               on |-> IF gsPtr.kind = "move" THEN gsPtr.by.key \in gsDown' ELSE gsDown # {b}])
    /\ UNCHANGED <<gsTch, gsFingers, gsPad>>
PointerMotion(m) ==
    /\ gsPtr.kind \notin {"none", "click"} /\ gsLay.outs # {}
    /\ SetPtr(GrabMotion(gsLay, gsPtr, m, FALSE))
    /\ UNCHANGED <<gsTch, gsDown, gsFingers, gsPad>>
\* move_request and resize_request with the serial of the pointer's grab; the
\* new grab takes the start data of the old one, which is unset.
Requested(x) == Allowed("client") /\ gsPtr.kind # "none" /\ gsPtr.by.client /\ gsLay.at[x] \in ShownWs(gsLay)
GsReplaced(lay, kind, st, x) ==
    /\ SetPtr(Goes(on_ungrab(lay, gsPtr), Begin(kind, st, x, gsLay.at[x], [gsPtr.by EXCEPT !.drag = TRUE])))
    /\ UNCHANGED <<gsTch, gsDown, gsFingers, gsPad>>
move_request(x) == Requested(x) /\ GsReplaced(gsLay, "move", "recognizing", x)
resize_request(x) ==
    Requested(x) /\ CanResize(gsLay, x) /\ GsReplaced(interactive_resize_begin(gsLay, x), "resize", "resize", x)

\* on_touch_down: the first finger begins a grab, another one toggles floating.
GsTouchDown(f) ==
    /\ Allowed("touch") /\ f \notin gsFingers /\ gsLay.outs # {}
    /\ gsFingers' = gsFingers \cup {f}
    /\ LET by == [key |-> f, drag |-> TRUE, client |-> FALSE]
       IN  \/ /\ gsFingers = {} /\ is_overview_open(gsLay)
              /\ \E w \in ShownWs(gsLay) : \E x \in {y \in DOMAIN gsLay.at : gsLay.at[y] = w} \cup {GsNone} :
                    SetTch(Goes(gsLay, Begin("overview", "recognizing", x, w, by)))
           \/ /\ gsFingers = {}
              /\ \E x \in DOMAIN gsLay.at :
                    /\ gsLay.at[x] \in ShownWs(gsLay)
                    /\ SetTch(Goes(gsLay, Begin("move", "recognizing", x, gsLay.at[x], by)))
           \/ /\ gsFingers # {}
              /\ SetTch(CASE gsTch.kind = "move" -> on_toggle_floating(gsLay, gsTch)
                          [] gsTch.kind = "overview" /\ gsTch.st = "move" ->
                                 Goes(toggle_window_floating(gsLay, gsTch.win), gsTch)
                          [] OTHER -> Goes(gsLay, gsTch))
    /\ UNCHANGED <<gsPtr, gsDown, gsPad>>
TouchUp(f) ==
    /\ f \in gsFingers /\ gsFingers' = gsFingers \ {f}
    /\ SetTch([lay |-> gsLay, d |-> gsTch, on |-> gsTch.kind = "none" \/ gsTch.by.key # f])
    /\ UNCHANGED <<gsPtr, gsDown, gsPad>>
TouchMotion(m, held) ==
    /\ gsTch.kind # "none" /\ gsLay.outs # {}
    /\ SetTch(GrabMotion(gsLay, gsTch, m, held))
    /\ UNCHANGED <<gsPtr, gsDown, gsFingers, gsPad>>
\* on_touch_cancel: the grab ends with all touches.
GsTouchCancel ==
    /\ gsFingers # {} /\ gsFingers' = {}
    /\ SetTch([lay |-> gsLay, d |-> gsTch, on |-> gsTch.kind = "none"])
    /\ UNCHANGED <<gsPtr, gsDown, gsPad>>

-----------------------------------------------------------------------------
SetPad(lay, pad) ==
    /\ gsLay' = lay /\ gsPad' = pad /\ gsFresh' = FALSE
    /\ UNCHANGED <<gsPtr, gsTch, gsDown, gsFingers>>
on_gesture_swipe_begin(n) ==
    /\ Allowed("pad") /\ gsPad.swiping = 0
    /\ SetPad(IF n = 4 THEN overview_gesture_begin(gsLay) ELSE gsLay,
              [gsPad EXCEPT !.swiping = n, !.cumulative = n = 3])
\* Far enough, three fingers decide between the view and the workspaces.
on_gesture_swipe_update(m) ==
    /\ gsPad.swiping # 0 /\ gsPad.cumulative /\ m # "near"
    /\ \E w \in ShownWs(gsLay) :
          /\ is_overview_open(gsLay) \/ gsLay.active[Home[w]] = w
          /\ SetPad(IF m = "wide" THEN view_offset_gesture_begin(gsLay, w, "pad")
                    ELSE workspace_switch_gesture_begin(gsLay, Home[w], "pad"),
                    [gsPad EXCEPT !.cumulative = FALSE])
EndPad(lay) == view_offset_gesture_end(workspace_switch_gesture_end(lay, "pad"), "pad")
on_gesture_swipe_end(open) ==
    /\ gsPad.swiping # 0
    /\ SetPad(overview_gesture_end(EndPad(gsLay), open), [gsPad EXCEPT !.swiping = 0, !.cumulative = FALSE])

\* on_pointer_axis with two fingers: a swipe in the overview, unless the pointer
\* is over a layer surface or a modifier is down.  No amount ends the scroll.
\* Mutant: leaving the overview forgets the swipe.
Leave_Forgets(lay, pad) == lay
Leave(lay, pad) ==
    IF ~pad.scroll THEN lay
    ELSE IF pad.vertical THEN workspace_switch_gesture_end(lay, "pad") ELSE view_offset_gesture_end(lay, "pad")
Finger(m, here) ==
    /\ Allowed("pad") /\ (gsPad.scroll \/ is_overview_open(gsLay))
    /\ IF is_overview_open(gsLay) /\ here
       THEN \E w \in ShownWs(gsLay) :
              LET begins == ~gsPad.scroll
                  tall   == IF begins THEN m = "tall" ELSE gsPad.vertical
              IN  IF m = "stop"
                  THEN SetPad(IF gsPad.vertical THEN workspace_switch_gesture_end(gsLay, "pad")
                              ELSE view_offset_gesture_end(gsLay, "pad"), [gsPad EXCEPT !.scroll = FALSE])
                  ELSE SetPad(IF ~begins THEN gsLay
                              ELSE IF tall THEN workspace_switch_gesture_begin(gsLay, Home[w], "pad")
                              ELSE view_offset_gesture_begin(gsLay, w, "pad"),
                              [gsPad EXCEPT !.scroll = TRUE, !.vertical = tall])
       ELSE SetPad(Leave(gsLay, gsPad), [gsPad EXCEPT !.scroll = FALSE])

-----------------------------------------------------------------------------
Only(lay) == /\ gsLay' = lay /\ gsFresh' = FALSE /\ UNCHANGED <<gsPtr, gsTch, gsDown, gsFingers, gsPad>>
ToggleOverview == Allowed("key") /\ Only(toggle_overview(gsLay))
SwitchWorkspace(w) ==
    /\ Allowed("key") /\ w \in ShownWs(gsLay) /\ gsLay.active[Home[w]] # w
    /\ Only([gsLay EXCEPT !.active[Home[w]] = w, !.switch[Home[w]] = IF @ = "dnd" THEN @ ELSE "no"])
\* Layout::remove_window: the move and the resize of the window are over.
GsCloseWindow(x) ==
    /\ Allowed("close") /\ (gsLay.at[x] # GsNone \/ Moving(gsLay, x))
    /\ Only([(IF Moving(gsLay, x) THEN DndEnd([gsLay EXCEPT !.move = GsNone]) ELSE gsLay)
                EXCEPT !.at[x] = GsNone, !.resize = @ \ {x}])
\* The last output goes, with its workspace switch, and comes back in a later
\* turn of the event loop.
gs_remove_output(o) ==
    /\ Allowed("unplug") /\ gsLay.outs = {o}
    /\ Only([gsLay EXCEPT !.outs = {}, !.switch[o] = "no"])
gs_add_output(o) ==
    /\ Allowed("unplug") /\ o \in DOMAIN gsLay.switch \ gsLay.outs /\ gsFresh
    /\ Only([gsLay EXCEPT !.outs = @ \cup {o}])

\* Layout::refresh begins and ends the scroll that follows a drag, and ends the
\* gestures of workspaces that are not shown.
Drags(lay) == lay.move # GsNone /\ lay.move.win \notin lay.float
Settle(lay) ==
    [lay EXCEPT
        !.switch = [o \in DOMAIN @ |->
            IF o \notin lay.outs THEN @[o]
            ELSE IF lay.move # GsNone /\ is_overview_open(lay) THEN "dnd"
            ELSE IF ~is_overview_open(lay) /\ @[o] = "dnd" THEN "no" ELSE @[o]],
        !.view = [w \in DOMAIN @ |->
            IF Home[w] \notin lay.outs THEN "no"
            ELSE IF lay.move # GsNone THEN (IF Drags(lay) THEN "dnd" ELSE "no")
            ELSE IF ~is_overview_open(lay) /\ lay.active[Home[w]] # w THEN "no" ELSE @[w]],
        !.resize = IF Drags(lay) THEN {x \in @ : x \in lay.float \/ lay.at[x] \notin ShownWs(lay)} ELSE @]
GsRefresh ==
    /\ ~gsFresh /\ gsFresh' = TRUE
    /\ gsLay' = Settle(gsLay)
    /\ UNCHANGED <<gsPtr, gsTch, gsDown, gsFingers, gsPad>>

Motions == {"near", "wide", "tall"}
GsStep ==
    \/ \E b \in {"left", "right", "middle"} : GsPressButton(b) \/ GsReleaseButton(b)
    \/ \E m \in Motions : PointerMotion(m) \/ on_gesture_swipe_update(m) \/ \E held \in BOOLEAN : TouchMotion(m, held)
    \/ \E f \in {"f1", "f2"} : GsTouchDown(f) \/ TouchUp(f)
    \/ GsTouchCancel
    \/ \E n \in {3, 4} : on_gesture_swipe_begin(n)
    \/ \E open \in BOOLEAN : on_gesture_swipe_end(open)
    \/ \E m \in {"wide", "tall", "stop"}, here \in BOOLEAN : Finger(m, here)
    \/ \E x \in DOMAIN gsLay.at : move_request(x) \/ resize_request(x) \/ GsCloseWindow(x)
    \/ \E w \in DOMAIN Home : SwitchWorkspace(w)
    \/ \E o \in DOMAIN gsLay.switch : gs_remove_output(o) \/ gs_add_output(o)
    \/ ToggleOverview
    \/ GsRefresh
GsNext == GsStep /\ UNCHANGED gsProfile
GsSpec == GsInit /\ [][GsNext]_gsVars

-----------------------------------------------------------------------------
Drivers(st) == {d \in {gsPtr, gsTch} : d.st = st}
\* The assertion of verify_invariants: without a drag, only one workspace can
\* have an ongoing view offset gesture, however pointer, touch and touchpad mix.
OneViewGesture ==
    gsLay.move = GsNone => Cardinality({w \in DOMAIN Home : gsLay.view[w] # "no"}) <= 1

\* Once refresh ran, every gesture of the layout has its driver: a grab in that
\* state, a swipe or scroll of the touchpad, or a dragged window.  Whatever was
\* unplugged, closed, cancelled or switched meanwhile, no view, workspace switch,
\* overview, move or resize is left half-way with nobody to end it.
NoOrphanGesture ==
    /\ OneViewGesture
    /\ gsFresh =>
        /\ \A w \in DOMAIN Home :
              /\ gsLay.view[w] = "ptr" => Drivers("view") # {}
              /\ gsLay.view[w] = "pad" => gsPad.swiping # 0 \/ gsPad.scroll
              /\ gsLay.view[w] = "dnd" => gsLay.move # GsNone
        /\ \A o \in gsLay.outs :
              /\ gsLay.switch[o] = "ptr" => Drivers("switch") # {}
              /\ gsLay.switch[o] = "pad" => gsPad.swiping # 0 \/ gsPad.scroll
              /\ gsLay.switch[o] = "dnd" => gsLay.move # GsNone
        /\ gsLay.overview = "gesture" => gsPad.swiping # 0
        /\ gsLay.move # GsNone => \E d \in Drivers("move") : d.win = gsLay.move.win
        /\ \A x \in gsLay.resize : \E d \in Drivers("resize") : d.win = x

=============================================================================
