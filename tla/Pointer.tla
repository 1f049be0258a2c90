------------------------------- MODULE Pointer -------------------------------
(***************************************************************************)
(* The pointer of input/mod.rs and niri.rs: relative and absolute motion,  *)
(* buttons, wheel, tablet and touch; the cached contents under the pointer *)
(* (pointer_contents), hiding it, the hot corner, pointer constraints, and *)
(* the scroll tracker.                                                     *)
(*                                                                         *)
(* Positions are one-dimensional: an output covers an interval, and a      *)
(* scene says which surface is at which position.  Layout changes under    *)
(* the pointer replace the scene.  The focus of smithay's pointer is the   *)
(* surface of the last motion, or that of the click while a button is      *)
(* held; leaving a surface deactivates its constraint.                     *)
(***************************************************************************)
EXTENDS Integers, FiniteSets, Sequences

CONSTANTS
    PtNone,
    PtProfiles,  \* set-ups: outs (output -> <<first, last>>), scenes, corners
                 \* (positions), region (of the constraint of "w"), may
    PtTick,      \* the tick of the wheel tracker
    PtSumMax     \* bound: amount scrolled in one direction
VARIABLES
    ptPos,       \* pointer.current_location()
    ptOuts,      \* the outputs of the global space
    ptScene,     \* position -> surface
    ptBusy,      \* transitions are ongoing
    ptVis,       \* pointer_visibility
    ptTablet,    \* tablet_cursor_location
    ptUnder,     \* pointer_contents: out, surf, corner
    ptInside,    \* pointer_inside_hot_corner
    ptOverview,
    ptGrab,      \* PtNone, or the kind and focus of the pointer grab
    ptCons,      \* the constraint of "w": PtNone, or kind, active
    ptMru,       \* the output of the recent-windows switcher
    ptDown,      \* the buttons that are down
    ptStolen,    \* suppressed_buttons
    ptHeld,      \* the buttons a client, or a grab, saw pressed
    ptWheel,     \* the vertical wheel and finger trackers: last, acc; and what was
                 \* scrolled since they began: sum, ticks
    ptFresh,     \* refresh ran after the last event
    ptCrashed,   \* an unwrap() failed
    ptProfile

\* Outputs, as intervals that are not empty, and the wheel's tick.
ASSUME PtAssumption ==
    /\ PtTick \in Nat \ {0}
    /\ \A p \in PtProfiles :
          /\ DOMAIN p.outs # {}
          /\ \A o \in DOMAIN p.outs : p.outs[o] \in Nat \X Nat /\ p.outs[o][1] <= p.outs[o][2]

ptScreen == <<ptOuts, ptScene, ptBusy, ptMru>>
ptButtons == <<ptDown, ptStolen, ptHeld, ptGrab>>
ptCursor == <<ptPos, ptVis, ptTablet, ptUnder, ptInside, ptOverview, ptCons>>
ptVars == <<ptScreen, ptButtons, ptCursor, ptWheel, ptFresh, ptCrashed, ptProfile>>

May(f) == f \in ptProfile.may
Geometry == ptProfile.outs
Span(o) == Geometry[o][1] .. Geometry[o][2]
Positions == 0 .. 6
Deltas == {-5, -1, 0, 1, 5}
OutputUnder(p) == {o \in ptOuts : p \in Span(o)}
NoContents == [out |-> PtNone, surf |-> PtNone, corner |-> FALSE]

-----------------------------------------------------------------------------
\* The screenshot UI and the recent-windows switcher hide what is below them.
contents_under(p) ==
    IF OutputUnder(p) = {} THEN NoContents
    ELSE LET here == [NoContents EXCEPT !.out = CHOOSE o \in OutputUnder(p) : TRUE]
         IN  IF ptMru # PtNone THEN here
             ELSE IF p \in ptProfile.corners THEN [here EXCEPT !.corner = TRUE]
             ELSE [here EXCEPT !.surf = ptScene[p]]

\* The focus of the pointer after a motion to a surface.
FocusOf(grab, under) == IF grab = PtNone THEN under.surf ELSE grab.focus
\* Leaving the surface deactivates its constraint.
Left(cons, focus) == IF cons = PtNone THEN cons ELSE [cons EXCEPT !.active = @ /\ focus = "w"]
\* After a motion; the constraint becomes active when its surface is under the
\* pointer and focused, in its region.
maybe_activate_pointer_constraint(cons, grab, under, p) ==
    IF cons # PtNone /\ under.surf = "w" /\ FocusOf(grab, under) = "w" /\ p \in ptProfile.region
    THEN [cons EXCEPT !.active = TRUE] ELSE Left(cons, FocusOf(grab, under))

\* pointer.motion() to p over what is under it.
MovedTo(p, under) ==
    /\ ptPos' = p /\ ptUnder' = under
    /\ ptCons' = maybe_activate_pointer_constraint(ptCons, ptGrab, under, p)

\* Disable the hidden pointer if the contents underneath have changed.
HiddenContents(vis, under) ==
    LET seen == IF vis = "Disabled" THEN NoContents ELSE under
    IN  IF vis # "Visible" /\ seen # ptUnder THEN [vis |-> "Disabled", under |-> NoContents]
        ELSE [vis |-> vis, under |-> seen]
move_cursor(p) ==
    LET to == HiddenContents(ptVis, contents_under(p))
    IN  ptVis' = to.vis /\ MovedTo(p, to.under)
\* With the grab that sees the motion; nothing moves if the contents are the same.
UpdateContents(vis, grab) ==
    LET to == HiddenContents(vis, contents_under(ptPos))
    IN  /\ ptVis' = to.vis /\ ptUnder' = to.under /\ UNCHANGED ptPos
        /\ ptCons' = IF to.under = ptUnder THEN Left(ptCons, FocusOf(grab, ptUnder))
                     ELSE maybe_activate_pointer_constraint(ptCons, grab, to.under, ptPos)
update_pointer_contents(vis) == UpdateContents(vis, ptGrab)

-----------------------------------------------------------------------------
Locked == ptCons # PtNone /\ ptCons.active /\ ptUnder.surf = "w" /\ ptPos \in ptProfile.region /\ ptCons.kind = "lock"
Confined == ptCons # PtNone /\ ptCons.active /\ ptUnder.surf = "w" /\ ptPos \in ptProfile.region /\ ptCons.kind = "confine"

\* Outside all outputs, the movement is clipped against the output it began on,
\* or goes to the middle of the first output.
Middle(o) == (Geometry[o][1] + Geometry[o][2]) \div 2
Clamped(p, o) == IF p < Geometry[o][1] THEN Geometry[o][1] ELSE IF p > Geometry[o][2] THEN Geometry[o][2] ELSE p
Clip(pos, p) ==
    IF OutputUnder(p) # {} THEN p
    ELSE IF OutputUnder(pos) # {} THEN Clamped(p, CHOOSE o \in OutputUnder(pos) : TRUE)
    ELSE Middle(CHOOSE o \in ptOuts : TRUE)

\* The corner toggles the overview when the pointer enters it, unless a resize
\* or a view drag is going on.
EnterCorner(was, under) ==
    LET here == under.corner /\ FocusOf(ptGrab, under) = PtNone
    IN  /\ ptInside' = here
        /\ ptOverview' = IF here /\ ~was /\ (ptGrab = PtNone \/ ptGrab.kind = "click") THEN ~ptOverview ELSE ptOverview

Event == ~ptCrashed /\ ptFresh' = FALSE /\ UNCHANGED <<ptCrashed, ptProfile>>
Stays == ptInside' = FALSE /\ UNCHANGED <<ptPos, ptUnder, ptCons, ptOverview>>
on_pointer_motion(delta) ==
    /\ May("motion") /\ Event
    /\ UNCHANGED <<ptScreen, ptButtons, ptWheel>>
    /\ IF ptOuts = {} THEN Stays /\ UNCHANGED <<ptVis, ptTablet>>
       ELSE /\ ptVis' = "Visible" /\ ptTablet' = PtNone
            /\ LET p     == Clip(ptPos, ptPos + delta)
                   under == contents_under(p)
               IN  IF Locked \/ (Confined /\ (under.surf # "w" \/ p \notin ptProfile.region))
                   THEN Stays
                   ELSE MovedTo(p, under) /\ EnterCorner(ptInside, under)
\* A position within the output of the device, or within all outputs together.
global_bounding_rectangle == {p \in Positions : \E o, q \in ptOuts : Geometry[o][1] <= p /\ p <= Geometry[q][2]}
on_pointer_motion_absolute(p) ==
    /\ May("absolute") /\ Event
    /\ UNCHANGED <<ptScreen, ptButtons, ptWheel>>
    /\ IF ptOuts = {} THEN Stays /\ UNCHANGED <<ptVis, ptTablet>>
       ELSE /\ p \in global_bounding_rectangle
            /\ ptVis' = "Visible" /\ ptTablet' = PtNone
            /\ MovedTo(p, contents_under(p)) /\ EnterCorner(ptInside, contents_under(p))

-----------------------------------------------------------------------------
\* on_pointer_button.  A press is for the switcher, for a bind, or for the window
\* and the grab it begins; the release of a press that was not for a window is
\* swallowed.
Swallow(b) ==
    /\ ptStolen' = ptStolen \cup {b} /\ ptDown' = ptDown \cup {b}
    /\ UNCHANGED <<ptHeld, ptGrab, ptCursor>>
PressForBind(b) == Swallow(b) /\ UNCHANGED ptScreen /\ UNCHANGED ptCrashed
\* Left clicks the switcher, which closes.  The pointer must be on an output.
PressForMru(b) ==
    /\ ptMru # PtNone /\ b = "left"
    /\ IF OutputUnder(ptPos) = {}
       THEN ptCrashed' = TRUE /\ UNCHANGED <<ptButtons, ptCursor, ptScreen>>
       ELSE ptMru' = PtNone /\ Swallow(b) /\ UNCHANGED <<ptOuts, ptScene, ptBusy, ptCrashed>>
PressForWindow(b, kind) ==
    /\ ~(ptMru # PtNone /\ b = "left")
    /\ UNCHANGED ptCrashed
    /\ ptDown' = ptDown \cup {b} /\ ptHeld' = ptHeld \cup {b}
    /\ ptTablet' = PtNone
    /\ LET drag == [kind |-> "resize", focus |-> PtNone]
           seen == IF ptGrab = PtNone /\ kind = "resize" THEN drag ELSE ptGrab
       IN  /\ UpdateContents("Visible", seen)
           /\ ptGrab' = IF seen # PtNone THEN seen ELSE [kind |-> "click", focus |-> ptUnder'.surf]
    /\ UNCHANGED <<ptScreen, ptStolen, ptInside, ptOverview>>
PressButton(b) ==
    /\ May("button") /\ ~ptCrashed /\ b \notin ptDown
    /\ \/ PressForMru(b)
       \/ ~(ptMru # PtNone /\ b = "left") /\ PressForBind(b)
       \/ \E kind \in {"click", "resize"} : PressForWindow(b, kind)
    /\ ptFresh' = FALSE /\ UNCHANGED <<ptWheel, ptProfile>>
\* The last release ends the grab; the focus is then what the last motion said.
ReleaseButton(b) ==
    /\ b \in ptDown /\ Event
    /\ ptDown' = ptDown \ {b}
    /\ IF b \in ptStolen
       THEN ptStolen' = ptStolen \ {b} /\ UNCHANGED <<ptHeld, ptGrab, ptCursor>>
       ELSE /\ ptHeld' = ptHeld \ {b} /\ UNCHANGED ptStolen
            /\ ptGrab' = IF ptHeld' = {} THEN PtNone ELSE ptGrab
            /\ LET to == HiddenContents(ptVis, contents_under(ptPos))
               IN  /\ ptVis' = to.vis /\ ptUnder' = to.under
                   /\ ptCons' = Left(IF to.under = ptUnder THEN ptCons
                                     ELSE maybe_activate_pointer_constraint(ptCons, ptGrab, to.under, ptPos),
                                     FocusOf(ptGrab', to.under))
            /\ UNCHANGED <<ptPos, ptTablet, ptInside, ptOverview>>
    /\ UNCHANGED <<ptScreen, ptWheel>>

\* ScrollTracker::accumulate.
Abs(n) == IF n < 0 THEN -n ELSE n
Sign(n) == IF n < 0 THEN -1 ELSE IF n > 0 THEN 1 ELSE 0
accumulate(w, amount) ==
    LET turned == Sign(w.last) * Sign(amount) = -1
        acc    == (IF turned THEN 0 ELSE w.acc) + amount
        ticks  == Sign(acc) * (Abs(acc) \div PtTick)
    IN  [last |-> amount, acc |-> acc - ticks * PtTick,
         sum |-> (IF turned THEN 0 ELSE w.sum) + amount, ticks |-> (IF turned THEN 0 ELSE w.ticks) + ticks]
NoScroll == [last |-> 0, acc |-> 0, sum |-> 0, ticks |-> 0]
\* on_pointer_axis: binds for the modifiers take the ticks of the wheel, or of two
\* fingers; without them the trackers start over and the window gets the scroll.
BoundScroll(w, amount) == accumulate(w, amount)
ForwardScroll == update_pointer_contents("Visible")
Scroll(source, amount, bound) ==
    /\ May(source) /\ Event
    /\ UNCHANGED <<ptScreen, ptButtons, ptInside, ptOverview>>
    /\ ptTablet' = PtNone
    /\ IF bound \/ ptMru # PtNone
       THEN /\ ptWheel' = [ptWheel EXCEPT ![source] = BoundScroll(@, amount)] /\ Abs(ptWheel'[source].sum) <= PtSumMax
            /\ ptVis' = "Visible" /\ UNCHANGED <<ptPos, ptUnder, ptCons>>
       ELSE ptWheel' = [ptWheel EXCEPT ![source] = NoScroll] /\ ForwardScroll
\* Pinch and hold gestures go to the window, with the contents up to date.
ForwardGesture ==
    /\ May("hide") /\ Event /\ update_pointer_contents(ptVis)
    /\ UNCHANGED <<ptScreen, ptButtons, ptInside, ptOverview, ptTablet, ptWheel>>

-----------------------------------------------------------------------------
\* Tablet and touch.  A tablet leaves the pointer where the pen was.
TabletAt(p) ==
    /\ May("tablet") /\ Event /\ p \in global_bounding_rectangle
    /\ ptVis' = "Visible" /\ ptTablet' = p
    /\ UNCHANGED <<ptScreen, ptButtons, ptWheel, ptPos, ptUnder, ptCons, ptInside, ptOverview>>
TabletOut ==
    /\ May("tablet") /\ Event /\ ptOuts # {}
    /\ IF ptTablet = PtNone THEN UNCHANGED <<ptPos, ptUnder, ptCons>>
       ELSE MovedTo(ptTablet, HiddenContents(ptVis, contents_under(ptTablet)).under)
    /\ ptVis' = "Visible" /\ ptTablet' = PtNone
    /\ UNCHANGED <<ptScreen, ptButtons, ptWheel, ptInside, ptOverview>>
TouchDown ==
    /\ May("touch") /\ Event /\ ptOuts # {}
    /\ ptVis' = "Disabled"
    /\ UNCHANGED <<ptScreen, ptButtons, ptWheel, ptPos, ptTablet, ptUnder, ptCons, ptInside, ptOverview>>
hide_cursor_if_needed(typing) ==
    /\ May("hide") /\ Event
    /\ ptVis = "Visible" /\ (typing => ptTablet = PtNone)
    /\ ptVis' = "Hidden"
    /\ UNCHANGED <<ptScreen, ptButtons, ptWheel, ptPos, ptTablet, ptUnder, ptCons, ptInside, ptOverview>>
\* move_cursor_to_focused_tile, to a position of the window.
WarpCursor(p) ==
    /\ May("warp") /\ Event /\ ptTablet = PtNone /\ ptScene[p] = "w" /\ OutputUnder(p) # {}
    /\ move_cursor(p)
    /\ UNCHANGED <<ptScreen, ptButtons, ptWheel, ptTablet, ptInside, ptOverview>>

\* Clients and the layout.
new_constraint(kind) ==
    /\ May("constraint") /\ Event /\ ptCons = PtNone
    /\ LET to == IF ptBusy /\ OutputUnder(ptPos) # {} THEN [vis |-> ptVis, under |-> ptUnder]
                 ELSE HiddenContents(ptVis, contents_under(ptPos))
       IN  /\ ptVis' = to.vis /\ ptUnder' = to.under
           /\ ptCons' = maybe_activate_pointer_constraint([kind |-> kind, active |-> FALSE], ptGrab, to.under, ptPos)
    /\ UNCHANGED <<ptScreen, ptButtons, ptWheel, ptPos, ptTablet, ptInside, ptOverview>>
DestroyConstraint ==
    /\ ptCons # PtNone /\ Event /\ ptCons' = PtNone
    /\ UNCHANGED <<ptScreen, ptButtons, ptWheel, ptPos, ptVis, ptTablet, ptUnder, ptInside, ptOverview>>
\* The hint moves the pointer within the surface, kept on its output.
cursor_position_hint(p) ==
    /\ ptCons # PtNone /\ ptCons.active /\ ptUnder.surf = "w" /\ Event
    /\ \E o \in ptOuts : ptPos' = Clamped(p, o)
    /\ UNCHANGED <<ptScreen, ptButtons, ptWheel, ptVis, ptTablet, ptUnder, ptCons, ptInside, ptOverview>>
Rearrange(scene, busy) ==
    /\ May("layout") /\ Event /\ <<scene, busy>> # <<ptScene, ptBusy>>
    /\ ptScene' = scene /\ ptBusy' = busy
    /\ UNCHANGED <<ptOuts, ptMru, ptButtons, ptCursor, ptWheel>>
OpenMru(o) ==
    /\ May("mru") /\ Event /\ ptMru = PtNone /\ o \in ptOuts
    /\ ptMru' = o
    /\ UNCHANGED <<ptOuts, ptScene, ptBusy, ptButtons, ptCursor, ptWheel>>
pt_remove_output(o) ==
    /\ May("unplug") /\ Event /\ o \in ptOuts
    /\ ptOuts' = ptOuts \ {o} /\ ptMru' = IF ptMru = o THEN PtNone ELSE ptMru
    /\ UNCHANGED <<ptScene, ptBusy, ptButtons, ptCursor, ptWheel>>
pt_add_output(o) ==
    /\ May("unplug") /\ Event /\ o \in DOMAIN Geometry \ ptOuts
    /\ ptOuts' = ptOuts \cup {o}
    /\ UNCHANGED <<ptScene, ptBusy, ptMru, ptButtons, ptCursor, ptWheel>>

\* Mutant: a hidden pointer is not refreshed.
refresh_pointer_contents_Hidden ==
    /\ ~ptFresh /\ ptFresh' = TRUE /\ ~ptCrashed
    /\ IF ptVis = "Hidden" THEN UNCHANGED <<ptVis, ptPos, ptUnder, ptCons>> ELSE update_pointer_contents(ptVis)
    /\ UNCHANGED <<ptScreen, ptButtons, ptWheel, ptTablet, ptInside, ptOverview, ptCrashed, ptProfile>>
\* Don't refresh cursor focus during transitions.
refresh_pointer_contents ==
    /\ ~ptFresh /\ ptFresh' = TRUE /\ ~ptCrashed
    /\ IF ptBusy /\ OutputUnder(ptPos) # {} THEN UNCHANGED <<ptVis, ptPos, ptUnder, ptCons>>
       ELSE update_pointer_contents(ptVis)
    /\ UNCHANGED <<ptScreen, ptButtons, ptWheel, ptTablet, ptInside, ptOverview, ptCrashed, ptProfile>>

PtInit ==
    /\ ptProfile \in PtProfiles
    /\ ptOuts = DOMAIN Geometry /\ ptScene \in ptProfile.scenes /\ ptBusy = FALSE /\ ptMru = PtNone
    /\ ptPos = Geometry[CHOOSE o \in DOMAIN Geometry : TRUE][1] + 1
    /\ ptVis = "Visible" /\ ptTablet = PtNone /\ ptUnder = contents_under(ptPos)
    /\ ptInside = FALSE /\ ptOverview = FALSE /\ ptGrab = PtNone /\ ptCons = PtNone
    /\ ptDown = {} /\ ptStolen = {} /\ ptHeld = {} /\ ptWheel = [wheel |-> NoScroll, finger |-> NoScroll]
    /\ ptFresh = TRUE /\ ptCrashed = FALSE
PtNext ==
    \/ \E delta \in Deltas : on_pointer_motion(delta)
    \/ \E p \in Positions : on_pointer_motion_absolute(p) \/ TabletAt(p) \/ WarpCursor(p) \/ cursor_position_hint(p)
    \/ \E b \in {"left", "right"} : PressButton(b) \/ ReleaseButton(b)
    \/ \E source \in {"wheel", "finger"}, amount \in {-2, 1, 2, 5}, bound \in BOOLEAN : Scroll(source, amount, bound)
    \/ ForwardGesture \/ TabletOut \/ TouchDown \/ DestroyConstraint \/ refresh_pointer_contents
    \/ \E typing \in BOOLEAN : hide_cursor_if_needed(typing)
    \/ \E kind \in {"lock", "confine"} : new_constraint(kind)
    \/ \E scene \in ptProfile.scenes, busy \in BOOLEAN : Rearrange(scene, busy)
    \/ \E o \in DOMAIN Geometry : OpenMru(o) \/ pt_remove_output(o) \/ pt_add_output(o)
PtSpec == PtInit /\ [][PtNext]_ptVars

-----------------------------------------------------------------------------
\* A relative motion never leaves the pointer outside the outputs, whatever was
\* unplugged and however large the motion; only a constraint keeps it in place.
MotionEndsOnOutput ==
    [][(\E delta \in Deltas : on_pointer_motion(delta)) /\ ptPos' # ptPos => OutputUnder(ptPos') # {}]_ptVars

\* Once refresh ran, a disabled pointer (a touch, or contents that changed under
\* a hidden pointer) hovers nothing, so that no window under it stays focused.
DisabledHoversNothing ==
    ptFresh /\ ptVis = "Disabled" /\ (~ptBusy \/ OutputUnder(ptPos) = {}) => ptUnder = NoContents

\* Once refresh ran, with no animation to hold it back, a pointer that is not
\* disabled has the contents that are there: windows that moved or closed under
\* a still pointer are noticed.
ContentsSettle ==
    ptFresh /\ ptVis # "Disabled" /\ ~ptBusy => ptUnder = contents_under(ptPos)

\* An invisible pointer retains its focus or loses it, and never begins to hover
\* something else, however it is warped and whatever moves under it.
HiddenHoversNothingNew ==
    [][ptVis # "Visible" /\ ptVis' # "Visible" => ptUnder' \in {ptUnder, NoContents}]_ptVars

\* The overview toggles when the pointer enters the hot corner and not again
\* while it stays there, through buttons, grabs and outputs that go.
HotCornerOnce ==
    [][ptInside /\ ptPos' = ptPos => ptOverview' = ptOverview]_ptVars

\* An active constraint is that of the focused surface, through grabs, hidden and
\* disabled pointers and layout changes.
ConstraintHasFocus ==
    ptCons # PtNone /\ ptCons.active => FocusOf(ptGrab, ptUnder) = "w"

\* A button is held by a client exactly while it is down and its press was not
\* taken by a bind or the switcher; the release of a press that was taken never
\* reaches a client.
ReleaseFollowsButton == ptHeld = ptDown \ ptStolen /\ ptStolen \subseteq ptDown

\* Ticks account for everything scrolled in one direction: what was not turned
\* into ticks is still in the accumulator, and is less than a tick.
TicksAccount ==
    \A w \in {ptWheel.wheel, ptWheel.finger} : w.sum = w.ticks * PtTick + w.acc /\ Abs(w.acc) < PtTick

\* on_pointer_button takes the output under the pointer with unwrap() while the
\* recent-windows switcher is open.
ClickFindsOutput == ~ptCrashed
=============================================================================
