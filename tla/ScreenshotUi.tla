---------------------------- MODULE ScreenshotUi ----------------------------
(***************************************************************************)
(* The interactive screenshot UI (ui/screenshot_ui.rs) with the code that  *)
(* opens, closes and confirms it (niri.rs) and the mouse, tablet, touch    *)
(* and key handlers that drive its selection (input/mod.rs).               *)
(*                                                                         *)
(* Points are pairs of pixel coordinates on an output of a few pixels; the *)
(* directional step and the margin of the default rectangle shrink with    *)
(* it.  Textures are left out.                                             *)
(***************************************************************************)
EXTENDS Integers, FiniteSets, Sequences

CONSTANTS
    SsProfiles, \* the set-ups: sizes (output -> the sizes <<w, h>> it may
                \* have), scale (of each output), pointers, and whether
                \* the touch device cancels touches
    SsNone

VARIABLES
    ssUi,       \* ScreenshotUi: open, selection (out, a, b), data (output ->
                \* size when it was captured), button; last when closed
    ssSize,     \* the current size of each connected output
    ssCursor,   \* the cursor image: "default" or "crosshair"
    ssDown,     \* pointers that are down: "mouse" (or the tablet), touch slots
    ssProfile   \* the outputs and pointers of this behaviour

ssVars == <<ssUi, ssSize, ssCursor, ssDown, ssProfile>>

Step == 1       \* DIRECTIONAL_MOVE_PX
Margin == 1     \* half of the default rectangle around a click
Touches == {"t1", "t2"}
SsSizes == ssProfile.sizes
SsScale == ssProfile.scale
SsUp == [slot |-> SsNone, capture |-> FALSE, out |-> SsNone, pos |-> SsNone, move |-> SsNone]

\* Points, sizes of outputs, selections, buttons and pictures.
SsPoints == Int \X Int
SsOutputs == UNION {DOMAIN p.sizes : p \in SsProfiles}
SsAreas == UNION {UNION {{p.sizes[o][i] : i \in DOMAIN p.sizes[o]} : o \in DOMAIN p.sizes} : p \in SsProfiles}
SsPointers == UNION {p.pointers : p \in SsProfiles}
SsRects == [loc : SsPoints, size : SsPoints]
SsSels == [out : SsOutputs, a : SsPoints, b : SsPoints]
SsMoves == [offset : SsPoints, slot : SsPointers \cup {SsNone}]
SsButtons == [slot : SsPointers, capture : BOOLEAN, out : SsOutputs, pos : SsPoints, move : SsMoves \cup {SsNone}]
SsDatas == UNION {[S -> SsAreas] : S \in SUBSET SsOutputs}
SsOpen == [open : {TRUE}, data : SsDatas, button : SsButtons \cup {SsUp}, sel : SsSels]
SsClosed == [open : {FALSE}, last : [out : SsOutputs, rect : SsRects] \cup {SsNone}]

ASSUME SsAssumption ==
    /\ SsNone \notin SsPointers \cup SsMoves \cup SsPoints \cup [out : SsOutputs, rect : SsRects]
    /\ \A p \in SsProfiles :
          /\ DOMAIN p.scale = DOMAIN p.sizes /\ \A o \in DOMAIN p.scale : p.scale[o] \in Nat \ {0}
          /\ \A o \in DOMAIN p.sizes : 1 \in DOMAIN p.sizes[o]
    /\ \A s \in SsAreas : s \in Nat \X Nat /\ s[1] >= 2 /\ s[2] >= 2

Lesser(m, n) == IF m < n THEN m ELSE n
Greater(m, n) == IF m > n THEN m ELSE n
Clamp(v, lo, hi) == Lesser(Greater(v, lo), hi)
Plus(p, q) == <<p[1] + q[1], p[2] + q[2]>>
Minus(p, q) == <<p[1] - q[1], p[2] - q[2]>>
Pixels(size) == (0..size[1] - 1) \X (0..size[2] - 1)

-----------------------------------------------------------------------------
\* A rectangle is its location and size; the corners are both inside it.
rect_from_corner_points(a, b) ==
    [loc |-> <<Lesser(a[1], b[1]), Lesser(a[2], b[2])>>,
     size |-> <<Greater(a[1], b[1]) - Lesser(a[1], b[1]) + 1, Greater(a[2], b[2]) - Lesser(a[2], b[2]) + 1>>]
Within(rect, size) == \A i \in {1, 2} : rect.loc[i] >= 0 /\ rect.loc[i] + rect.size[i] <= size[i]
DefaultRect(size) == [loc |-> <<size[1] \div 4, size[2] \div 4>>, size |-> <<size[1] \div 2, size[2] \div 2>>]
Select(out, rect) == [out |-> out, a |-> rect.loc, b |-> Minus(Plus(rect.loc, rect.size), <<1, 1>>)]
RectOf(sel) == rect_from_corner_points(sel.a, sel.b)

\* update_buffers resets a selection that is not on the output.
update_buffers(ui) ==
    LET size == ui.data[ui.sel.out]
    IN  IF Within(RectOf(ui.sel), size) THEN ui
        ELSE [ui EXCEPT !.sel = Select(ui.sel.out, DefaultRect(size))]

-----------------------------------------------------------------------------
SsInit ==
    /\ ssProfile \in SsProfiles
    /\ ssSize = [o \in DOMAIN SsSizes |-> SsSizes[o][1]]
    /\ ssUi = [open |-> FALSE, last |-> SsNone]
    /\ ssCursor = "default" /\ ssDown = {}

\* ScreenshotUi::open, from State::open_screenshot_ui with the default output:
\* the last selection is reused if its output is still there.
open(default) ==
    /\ ~ssUi.open /\ default \in DOMAIN ssSize
    /\ ssUi' = update_buffers(
           [open |-> TRUE, data |-> ssSize, button |-> SsUp,
            sel |-> IF ssUi.last # SsNone /\ ssUi.last.out \in DOMAIN ssSize
                    THEN Select(ssUi.last.out, ssUi.last.rect)
                    ELSE Select(default, DefaultRect(ssSize[default]))])
    /\ ssCursor' = "crosshair"
    /\ UNCHANGED <<ssSize, ssDown>>

\* ScreenshotUi::close, remembering the selection.
Closed(ui) == [open |-> FALSE, last |-> [out |-> ui.sel.out, rect |-> RectOf(ui.sel)]]
\* Close the UI from wherever: every caller resets the cursor.
CloseIfOpen == /\ ssUi' = IF ssUi.open THEN Closed(ssUi) ELSE ssUi
               /\ ssCursor' = IF ssUi.open THEN "default" ELSE ssCursor
\* CancelScreenshot, or the session is being locked.
Cancel ==
    /\ ssUi.open /\ CloseIfOpen
    /\ UNCHANGED <<ssSize, ssDown>>

\* confirm_screenshot: the selected part of the output's texture is copied out
\* and saved, and the UI closes.
ConfirmScreenshot ==
    /\ ssUi.open /\ CloseIfOpen
    /\ UNCHANGED <<ssSize, ssDown>>

\* output_resized closes the UI of an output whose captured size is stale, and
\* remove_output closes it always.
\* Mutant: a resized output keeps the UI open.
output_resized_StaysOpen(o, size) ==
    /\ o \in DOMAIN ssSize /\ ssSize[o] # size
    /\ ssSize' = [ssSize EXCEPT ![o] = size]
    /\ UNCHANGED <<ssUi, ssCursor, ssDown>>
output_resized(o, size) ==
    /\ o \in DOMAIN ssSize /\ ssSize[o] # size
    /\ ssSize' = [ssSize EXCEPT ![o] = size]
    /\ IF ssUi.open /\ o \in DOMAIN ssUi.data THEN CloseIfOpen ELSE UNCHANGED <<ssUi, ssCursor>>
    /\ UNCHANGED ssDown
\* A selection of a removed output cannot be upgraded from its weak reference.
ss_remove_output(o) ==
    /\ o \in DOMAIN ssSize /\ DOMAIN ssSize # {o}
    /\ ssSize' = [p \in DOMAIN ssSize \ {o} |-> ssSize[p]]
    /\ LET closed == IF ssUi.open THEN Closed(ssUi) ELSE ssUi
       IN  ssUi' = IF closed.last # SsNone /\ closed.last.out = o
                   THEN [closed EXCEPT !.last = SsNone] ELSE closed
    /\ ssCursor' = IF ssUi.open THEN "default" ELSE ssCursor
    /\ UNCHANGED ssDown
ss_add_output(o) ==
    /\ o \in DOMAIN SsSizes \ DOMAIN ssSize
    /\ ssSize' = [p \in DOMAIN ssSize \cup {o} |-> IF p = o THEN SsSizes[o][1] ELSE ssSize[p]]
    /\ UNCHANGED <<ssUi, ssCursor, ssDown>>

-----------------------------------------------------------------------------
Ui(next) == /\ ssUi.open /\ ssUi' = next /\ UNCHANGED <<ssSize, ssCursor, ssDown>>

\* set_space_down while a button is down starts or ends moving the selection.
set_space_down(down) ==
    LET b == ssUi.button
    IN  /\ ssUi.open /\ b # SsUp
        /\ \/ /\ down /\ b.move = SsNone
              /\ Ui([ssUi EXCEPT !.button.move = [offset |-> Minus(b.pos, ssUi.sel.a), slot |-> SsNone]])
           \/ /\ ~down /\ b.move # SsNone /\ b.move.slot = SsNone
              /\ Ui([ssUi EXCEPT !.button.move = SsNone])

\* move_left, move_right, move_up and move_down, by the axis and the sign.
Shift(sel, size, axis, sign, step) ==
    LET delta == IF sign < 0 THEN -Lesser(step, Lesser(sel.a[axis], sel.b[axis]))
                 ELSE Lesser(step, size[axis] - Greater(sel.a[axis], sel.b[axis]) - 1)
    IN  [sel EXCEPT !.a[axis] = @ + delta, !.b[axis] = @ + delta]
move_left(ui)  == Shift(ui.sel, ui.data[ui.sel.out], 1, -1, Step * SsScale[ui.sel.out])
move_right(ui) == Shift(ui.sel, ui.data[ui.sel.out], 1, 1, Step * SsScale[ui.sel.out])
move_up(ui)    == Shift(ui.sel, ui.data[ui.sel.out], 2, -1, Step * SsScale[ui.sel.out])
move_down(ui)  == Shift(ui.sel, ui.data[ui.sel.out], 2, 1, Step * SsScale[ui.sel.out])
MoveSelection ==
    /\ ssUi.open
    /\ \E sel \in {move_left(ssUi), move_right(ssUi), move_up(ssUi), move_down(ssUi)} :
           Ui(update_buffers([ssUi EXCEPT !.sel = sel]))

\* move_to_output keeps the relative position and the logical size, clamped to
\* the target; positions round half up.
move_to_output(o) ==
    /\ ssUi.open /\ o \in DOMAIN ssUi.data /\ o # ssUi.sel.out
    /\ LET from == ssUi.data[ssUi.sel.out]
           to   == ssUi.data[o]
           rect == RectOf(ssUi.sel)
           size == [i \in {1, 2} |->
                       Clamp((2 * rect.size[i] * SsScale[o] + SsScale[ssUi.sel.out])
                                 \div (2 * SsScale[ssUi.sel.out]), 1, to[i])]
           loc  == [i \in {1, 2} |->
                       Clamp((2 * rect.loc[i] * to[i] + from[i]) \div (2 * from[i]), 0, to[i] - size[i])]
       IN  Ui(update_buffers([ssUi EXCEPT !.sel = Select(o, [loc |-> <<loc[1], loc[2]>>,
                                                             size |-> <<size[1], size[2]>>])]))

\* set_width and set_height to a size that was computed from the change.
Resized(sel, size, axis, n) ==
    LET low == Lesser(sel.a[axis], sel.b[axis])
    IN  [sel EXCEPT !.a[axis] = low, !.b[axis] = low + Clamp(n, 1, size[axis] - low) - 1]
set_width(n)  == Ui(update_buffers([ssUi EXCEPT !.sel = Resized(@, ssUi.data[ssUi.sel.out], 1, n)]))
set_height(n) == Ui(update_buffers([ssUi EXCEPT !.sel = Resized(@, ssUi.data[ssUi.sel.out], 2, n)]))

-----------------------------------------------------------------------------
\* The capture button of the help panel: the last pixel of the output.
is_within_capture_button(ui, o, point) == point = Minus(ui.data[o], <<1, 1>>)

\* pointer_motion, with the point clamped to the selected output.
pointer_motion(ui, point, slot) ==
    LET b     == ui.button
        moved == [ui EXCEPT !.button.pos = point]
        rect  == RectOf(ui.sel)
        room  == Minus(ui.data[ui.sel.out], rect.size)
        want  == Plus(rect.loc, Minus(point, Plus(ui.sel.a, b.move.offset)))
        loc   == <<Clamp(want[1], 0, room[1]), Clamp(want[2], 0, room[2])>>
        delta == Minus(loc, rect.loc)
    IN  IF b = SsUp \/ b.slot # slot THEN ui
        ELSE IF b.capture THEN moved
        ELSE IF b.move = SsNone THEN update_buffers([moved EXCEPT !.sel.b = point])
        ELSE update_buffers([moved EXCEPT !.sel.a = Plus(@, delta), !.sel.b = Plus(@, delta)])

\* pointer_down: a second finger during a drag starts moving the selection;
\* the first one starts a new selection or presses the capture button.
pointer_down(ui, o, point, slot) ==
    LET b == ui.button
        down == [slot |-> slot, capture |-> is_within_capture_button(ui, o, point), out |-> o, pos |-> point,
                 move |-> SsNone]
    IN  IF b # SsUp THEN
            IF slot \in Touches /\ ~b.capture /\ b.move = SsNone
            THEN [ui EXCEPT !.button.move = [offset |-> Minus(b.pos, ui.sel.a), slot |-> slot]]
            ELSE ui
        ELSE IF o \notin DOMAIN ui.data THEN ui
        ELSE IF down.capture THEN [ui EXCEPT !.button = down]
        ELSE update_buffers([ui EXCEPT !.button = down, !.sel = [out |-> o, a |-> point, b |-> point]])

\* pointer_up: whether to capture, and the UI after it.  A click selects a
\* small rectangle around it.
Captures(ui, slot) ==
    LET b == ui.button
    IN  /\ b # SsUp /\ b.slot = slot /\ b.capture /\ (b.move = SsNone \/ b.move.slot # slot)
        /\ is_within_capture_button(ui, b.out, b.pos)
Around(sel, size) ==
    LET lo == <<Greater(sel.a[1] - Margin, 0), Greater(sel.a[2] - Margin, 0)>>
        hi == <<Lesser(sel.a[1] + Margin, size[1]) - 1, Lesser(sel.a[2] + Margin, size[2]) - 1>>
    IN  [sel EXCEPT !.a = lo, !.b = hi]
pointer_up(ui, slot) ==
    LET b == ui.button
        up == [ui EXCEPT !.button = SsUp]
    IN  IF b = SsUp THEN ui
        ELSE IF b.move # SsNone /\ slot \in Touches /\ b.move.slot = slot THEN [ui EXCEPT !.button.move = SsNone]
        ELSE IF b.slot # slot THEN ui
        ELSE IF RectOf(up.sel).size # <<1, 1>> THEN update_buffers(up)
        ELSE update_buffers([up EXCEPT !.sel = Around(@, ui.data[ui.sel.out])])

\* on_pointer_button, on_tablet_tool_tip and on_touch_down: a press on an output.
Press(p, o, point) ==
    /\ p \notin ssDown /\ o \in DOMAIN ssSize /\ point \in Pixels(ssSize[o])
    /\ ssDown' = ssDown \cup {p}
    /\ ssUi' = IF ssUi.open THEN pointer_down(ssUi, o, point, p) ELSE ssUi
    /\ UNCHANGED <<ssSize, ssCursor>>
\* on_pointer_motion(_absolute), on_tablet_tool_axis and on_touch_motion: the
\* point is clamped to the output of the selection.
Motion(p, point) ==
    /\ p \in ssDown /\ ssUi.open /\ point \in Pixels(ssSize[ssUi.sel.out])
    /\ Ui(pointer_motion(ssUi, point, p))
\* The release of the button, of the tablet's tip, or of a finger.
Release(p) ==
    /\ p \in ssDown
    /\ ssDown' = ssDown \ {p}
    /\ IF ssUi.open /\ Captures(ssUi, p)
       THEN CloseIfOpen
       ELSE /\ ssUi' = IF ssUi.open THEN pointer_up(ssUi, p) ELSE ssUi
            /\ UNCHANGED ssCursor
    /\ UNCHANGED ssSize
\* on_touch_cancel: the touches are gone, and the UI is not told.
TouchCancel ==
    /\ ssProfile.cancel /\ ssDown \cap Touches # {}
    /\ ssDown' = ssDown \ Touches
    /\ UNCHANGED <<ssUi, ssSize, ssCursor>>

SsStep ==
    \/ \E o \in DOMAIN SsSizes : open(o) \/ ss_remove_output(o) \/ ss_add_output(o) \/ move_to_output(o)
    \/ \E o \in DOMAIN SsSizes : \E i \in DOMAIN SsSizes[o] : output_resized(o, SsSizes[o][i])
    \/ Cancel \/ ConfirmScreenshot \/ MoveSelection \/ TouchCancel
    \/ \E down \in BOOLEAN : set_space_down(down)
    \/ \E n \in {0, 2, 9} : set_width(n) \/ set_height(n)
    \/ \E p \in ssProfile.pointers :
          \/ \E o \in DOMAIN ssSize : \E point \in Pixels(ssSize[o]) : Press(p, o, point)
          \/ \E point \in UNION {Pixels(ssSize[o]) : o \in DOMAIN ssSize} : Motion(p, point)
          \/ Release(p)

SsNext == SsStep /\ UNCHANGED ssProfile

SsSpec == SsInit /\ [][SsNext]_ssVars

-----------------------------------------------------------------------------
\* While the UI is open, the selection lies on the captured picture of its
\* output, which is as large as the output still is: capturing never reads
\* outside the texture, after any mix of drags, keys, output moves and resizes.
SelectionOnOutput ==
    ssUi.open => /\ \A o \in DOMAIN ssUi.data : o \in DOMAIN ssSize /\ ssSize[o] = ssUi.data[o]
                 /\ Within(RectOf(ssUi.sel), ssUi.data[ssUi.sel.out])
                 /\ \A i \in {1, 2} : RectOf(ssUi.sel).size[i] >= 1

\* Moving the selection, with keys, Space or a second finger, never changes its
\* size: it stops at the edge of the output.
MovingKeepsSize ==
    [][ssUi.open /\ ssUi'.open
       => \/ ssUi'.sel = ssUi.sel
          \/ RectOf(ssUi'.sel).size = RectOf(ssUi.sel).size
          \/ /\ ~MoveSelection
             /\ ssUi'.button \in {ssUi.button, SsUp} \/ ssUi.button = SsUp \/ ssUi.button.move = SsNone]_ssVars

\* A drag ends with the finger or button that began it, whatever other fingers
\* and Space did meanwhile.  Where the touch device cancels its touches this
\* does not hold: on_touch_cancel does not tell the UI.
DragHasItsPointer ==
    ssUi.open /\ ssUi.button # SsUp /\ ~ssProfile.cancel => ssUi.button.slot \in ssDown
=============================================================================
