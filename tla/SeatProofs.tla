----------------------------- MODULE SeatProofs -----------------------------
(***************************************************************************)
(* The pointer, for any outputs, scenes, hot corners and constraints, and  *)
(* the keyboard focus, for any windows and layer surfaces.                 *)
(*                                                                         *)
(* The actions of key bindings and of IPC requests, for any number of      *)
(* columns: the cursor goes along to the output that becomes active, and   *)
(* keys leave the layout alone while the screenshot UI is open.            *)
(***************************************************************************)
EXTENDS Actions, Pointer, Focus, TLAPS

-----------------------------------------------------------------------------
(* The actions.                                                            *)

\* What a step of do_action may do to the active output and the cursor: either
\* the output stays active, or the cursor is on the new one.
Follows == acActive' # acActive => acCursor' = acActive'

\* Moving the cursor to output o after o became active, or nothing did, follows
\* the focus, whether or not warp-mouse-to-focus brings it to a tile.
LEMMA WarpFollows ==
  ASSUME NEW o, WarpOrMoveTo(o), acActive' = o \/ acActive' = acActive
  PROVE  Follows
  BY Zenon DEF WarpOrMoveTo, Follows

\* A window or column that moves to output o takes the active output along to o
\* or leaves it.
LEMMA MoveGoesThere ==
  ASSUME NEW o, NEW activate, NEW shown, MoveTo(o, activate, shown)
  PROVE  acActive' = o \/ acActive' = acActive
  BY Zenon DEF MoveTo

\* Every action that a key or an IPC client asks for, except moving a column away
\* without following it, leaves the active output or brings the cursor along.
LEMMA ActionsFollow ==
  ASSUME NEW k \in BOOLEAN, Act(k), acDid' # "column-away"
  PROVE  Follows
<1>1. ASSUME NEW d \in Dirs, NEW m \in BOOLEAN, MoveInLayout(d, m, k) PROVE Follows
  <2>1. CASE acShot # AcNone /\ SameLayout
    BY <2>1, Zenon DEF SameLayout, Follows
  <2>2. CASE UNCHANGED acActive
    BY <2>2, Zenon DEF Follows
  <2>3. CASE \E o \in OutputAt(acActive, d) : move_column_to_output(o, TRUE, TRUE) /\ WarpOrMoveTo(o)
    BY <2>3, WarpFollows, MoveGoesThere, Zenon DEF move_column_to_output
  <2> QED BY <1>1, <2>1, <2>2, <2>3, Zenon DEF MoveInLayout
<1>2. ASSUME NEW d \in Dirs, NEW m \in BOOLEAN, FocusOrMonitor(d, m, k) PROVE Follows
  <2>1. CASE UNCHANGED acActive
    BY <2>1, Zenon DEF Follows
  <2>2. CASE \E o \in OutputAt(acActive, d) : acActive' = o /\ WarpOrMoveTo(o)
    BY <2>2, WarpFollows, Zenon
  <2> QED BY <1>2, <2>1, <2>2, Zenon DEF FocusOrMonitor
<1>3. CASE FocusInWorkspace(k) \/ SwitchFocusFloating(k)
  BY <1>3, Zenon DEF FocusInWorkspace, SwitchFocusFloating, Follows
<1>4. ASSUME NEW o \in AcOutputs, focus_window(o, k) PROVE Follows
  BY <1>4, WarpFollows, Zenon DEF focus_window, Follows
<1>5. ASSUME NEW o \in AcOutputs, NEW m \in BOOLEAN, FocusWorkspace(o, m, k) PROVE Follows
  BY <1>5, WarpFollows, Zenon DEF FocusWorkspace, Follows
<1>6. ASSUME NEW o \in AcOutputs, NEW f \in BOOLEAN, NEW s \in BOOLEAN, MoveWindowToWorkspace(o, f, s, k)
      PROVE  Follows
  <2>1. CASE o = acActive /\ MoveAlong(f)
    BY <2>1, Zenon DEF MoveAlong, Follows
  <2>2. CASE MoveTo(o, f, s) /\ f /\ WarpOrMoveTo(o)
    BY <2>2, WarpFollows, MoveGoesThere, Zenon
  <2>3. CASE MoveTo(o, f, s) /\ ~f
    BY <2>3, Zenon DEF MoveTo, Follows
  <2> QED BY <1>6, <2>1, <2>2, <2>3, Zenon DEF MoveWindowToWorkspace
<1>7. ASSUME NEW o \in AcOutputs, NEW f \in BOOLEAN, NEW s \in BOOLEAN, MoveColumnToWorkspace(o, f, s, k)
      PROVE  Follows
  <2>1. f
    BY <1>7, Zenon DEF MoveColumnToWorkspace, Asked
  <2>2. CASE o = acActive /\ MoveAlong(f)
    BY <2>2, Zenon DEF MoveAlong, Follows
  <2>3. CASE move_column_to_output(o, f, s) /\ WarpOrMoveTo(o)
    BY <2>3, WarpFollows, MoveGoesThere, Zenon DEF move_column_to_output
  <2> QED BY <1>7, <2>1, <2>2, <2>3, Zenon DEF MoveColumnToWorkspace
<1>8. ASSUME NEW o \in AcOutputs, NEW f \in BOOLEAN, MoveWindowById(o, f, k) PROVE Follows
  <2>1. acActive' = o \/ acActive' = acActive
    BY <1>8, MoveGoesThere, Zenon DEF MoveWindowById
  <2>2. CASE o # acActive /\ acActive' = o
    BY <1>8, <2>2, WarpFollows, Zenon DEF MoveWindowById
  <2> QED BY <2>1, <2>2, Zenon DEF Follows
<1>9. ASSUME NEW o \in AcOutputs, FocusMonitor(o, k) PROVE Follows
  BY <1>9, WarpFollows, Zenon DEF FocusMonitor
<1>10. ASSUME NEW o \in AcOutputs, NEW c \in BOOLEAN, MoveToMonitor(o, c, k) PROVE Follows
  <2>1. CASE ScreenshotMove(o)
    BY <2>1, Zenon DEF ScreenshotMove, SameLayout, Follows
  <2>2. CASE acActive' = o /\ WarpOrMoveTo(o)
    BY <2>2, WarpFollows, Zenon
  <2> QED BY <1>10, <2>1, <2>2, Zenon DEF MoveToMonitor
<1>11. ASSUME NEW o \in AcOutputs, MoveWorkspaceToMonitor(o, k) PROVE Follows
  <2>1. CASE SameLayout
    BY <2>1, Zenon DEF SameLayout, Follows
  <2>2. CASE acActive' = o /\ WarpOrMoveTo(o)
    BY <2>2, WarpFollows, Zenon
  <2> QED BY <1>11, <2>1, <2>2, Zenon DEF MoveWorkspaceToMonitor
<1>12. CASE SetSize(k) \/ PresetSize(k) \/ ConsumeOrExpel(k) \/ ToggleFloating(k) \/ ToggleScreenshot(k)
  BY <1>12, Zenon DEF SetSize, PresetSize, ConsumeOrExpel, ToggleFloating, ToggleScreenshot, SameLayout, Follows
<1> QED
  BY <1>1, <1>2, <1>3, <1>4, <1>5, <1>6, <1>7, <1>8, <1>9, <1>10, <1>11, <1>12, ZenonT(60) DEF Act

\* An action that makes another output active brings the cursor there, for any
\* number of columns and with and without warp-mouse-to-focus: no arm of
\* do_action forgets it.
THEOREM CursorGoesAlong == AcSpec => CursorFollowsFocus
<1>1. ASSUME [AcNext]_acVars
      PROVE  acDid' \notin {AcNone, "column-away"} /\ acActive' # acActive => acCursor' = acActive'
  <2>1. ASSUME NEW k \in BOOLEAN, Act(k), acDid' # "column-away"
        PROVE  acActive' # acActive => acCursor' = acActive'
    BY <2>1, ActionsFollow, Zenon DEF Follows
  <2>2. CASE PointerMoves \/ LayerClicked \/ AcRefresh \/ UNCHANGED acVars
    BY <2>2, Zenon DEF PointerMoves, LayerClicked, AcRefresh, acVars
  <2> QED BY <1>1, <2>1, <2>2, Zenon DEF AcNext
<1> QED BY <1>1, PTL DEF AcSpec, CursorFollowsFocus

\* While the screenshot UI is open, no key binding changes the layout behind it:
\* of the actions that allowed_during_screenshot lets through, each arm of
\* do_action that reaches the layout hands over to the UI first.
THEOREM KeysStayInScreenshot == AcSpec => ScreenshotOwnsKeys
<1>1. ASSUME [AcNext]_acVars, acDid' = "key", acShot # AcNone
      PROVE  UNCHANGED <<acShown, acActive>>
  <2>1. ASSUME Act(TRUE) PROVE SameLayout
    <3>1. ASSUME NEW d \in Dirs, NEW m \in BOOLEAN, MoveInLayout(d, m, TRUE) PROVE SameLayout
      BY <1>1, <3>1, Zenon DEF MoveInLayout
    <3>2. ASSUME NEW o \in AcOutputs, NEW c \in BOOLEAN, MoveToMonitor(o, c, TRUE) PROVE SameLayout
      BY <1>1, <3>2, Zenon DEF MoveToMonitor, ScreenshotMove
    <3>3. CASE SetSize(TRUE) \/ ToggleScreenshot(TRUE)
      BY <3>3, Zenon DEF SetSize, ToggleScreenshot
    <3>4. /\ ~Asked("focus", TRUE) /\ ~Asked("focus-floating", TRUE) /\ ~Asked("focus-window", TRUE)
          /\ ~Asked("workspace", TRUE) /\ ~Asked("to-workspace", TRUE) /\ ~Asked("column-away", TRUE)
          /\ ~Asked("by-id", TRUE) /\ ~Asked("monitor", TRUE) /\ ~Asked("workspace-to-monitor", TRUE)
          /\ ~Asked("preset-size", TRUE) /\ ~Asked("consume", TRUE) /\ ~Asked("floating", TRUE)
      BY <1>1, Zenon DEF Asked, ac_allowed_during_screenshot
    <3>5. ~FocusInWorkspace(TRUE) /\ ~SwitchFocusFloating(TRUE) /\ ~PresetSize(TRUE)
          /\ ~ConsumeOrExpel(TRUE) /\ ~ToggleFloating(TRUE)
      BY <3>4, Zenon DEF FocusInWorkspace, SwitchFocusFloating, PresetSize, ConsumeOrExpel, ToggleFloating
    <3>6. ASSUME NEW o, NEW f \in BOOLEAN
          PROVE  /\ ~FocusOrMonitor(o, f, TRUE) /\ ~focus_window(o, TRUE) /\ ~FocusWorkspace(o, f, TRUE)
                 /\ ~FocusMonitor(o, TRUE) /\ ~MoveWindowById(o, f, TRUE) /\ ~MoveWorkspaceToMonitor(o, TRUE)
      BY <3>4, Zenon DEF FocusOrMonitor, focus_window, FocusWorkspace, FocusMonitor, MoveWindowById,
                  MoveWorkspaceToMonitor
    <3>7. ASSUME NEW o, NEW f \in BOOLEAN, NEW s \in BOOLEAN
          PROVE  ~MoveWindowToWorkspace(o, f, s, TRUE) /\ ~MoveColumnToWorkspace(o, f, s, TRUE)
      <4>1. CASE f
        BY <3>4, <4>1, Zenon DEF MoveWindowToWorkspace, MoveColumnToWorkspace
      <4>2. CASE ~f
        BY <3>4, <4>2, Zenon DEF MoveWindowToWorkspace, MoveColumnToWorkspace
      <4> QED BY <4>1, <4>2, Zenon
    <3> QED BY <2>1, <3>1, <3>2, <3>3, <3>5, <3>6, <3>7, Zenon DEF Act
  <2>2. ASSUME Act(FALSE) PROVE acDid' # "key"
    <3>1. ASSUME NEW a, Asked(a, FALSE) PROVE acDid' # "key"
      BY <3>1, Zenon DEF Asked
    <3> QED BY <2>2, <3>1, Zenon DEF Act, MoveInLayout, FocusOrMonitor, FocusInWorkspace, SwitchFocusFloating,
          focus_window, FocusWorkspace, MoveWindowToWorkspace, MoveColumnToWorkspace, MoveWindowById,
          FocusMonitor, MoveToMonitor, MoveWorkspaceToMonitor, SetSize, PresetSize, ConsumeOrExpel,
          ToggleFloating, ToggleScreenshot
  <2>3. CASE PointerMoves \/ LayerClicked \/ AcRefresh \/ UNCHANGED acVars
    BY <2>3, Zenon DEF PointerMoves, LayerClicked, AcRefresh, acVars
  <2> QED BY <1>1, <2>1, <2>2, <2>3, Zenon DEF AcNext, SameLayout
<1> QED BY <1>1, PTL DEF AcSpec, ScreenshotOwnsKeys

-----------------------------------------------------------------------------
\* The pointer.

PtConstraints == [kind : {"lock", "confine"}, active : BOOLEAN]
PtTrackers == [last : Int, acc : Int, sum : Int, ticks : Int]

\* The inductive invariant of the pointer.
PtInv ==
    /\ ptProfile \in PtProfiles /\ ptOuts \subseteq DOMAIN Geometry
    /\ ptPos \in Int /\ (ptTablet = PtNone \/ ptTablet \in Int)
    /\ ptCons = PtNone \/ ptCons \in PtConstraints
    /\ ptWheel \in [{"wheel", "finger"} -> PtTrackers]
    /\ ContentsSettle /\ DisabledHoversNothing /\ ConstraintHasFocus /\ ReleaseFollowsButton /\ TicksAccount

-----------------------------------------------------------------------------
\* Leaving a surface, and a motion over one, leave a constraint active only on the
\* surface that has the focus.
LEMMA LeftFocus ==
    ASSUME NEW cons, cons = PtNone \/ cons \in PtConstraints, NEW focus
    PROVE  LET c == Left(cons, focus) IN
           /\ c = PtNone \/ c \in PtConstraints
           /\ c # PtNone /\ c.active => focus = "w"
  BY Zenon DEF Left, PtConstraints

\* maybe_activate_pointer_constraint activates only for the surface with the pointer focus.
LEMMA ActivatedFocus ==
    ASSUME NEW cons, cons = PtNone \/ cons \in PtConstraints, NEW g, NEW under, NEW p
    PROVE  LET c == maybe_activate_pointer_constraint(cons, g, under, p) IN
           /\ c = PtNone \/ c \in PtConstraints
           /\ c # PtNone /\ c.active => FocusOf(g, under) = "w"
<1> DEFINE f == FocusOf(g, under)
<1>1. CASE cons # PtNone /\ under.surf = "w" /\ f = "w" /\ p \in ptProfile.region
  BY <1>1, Zenon DEF maybe_activate_pointer_constraint, PtConstraints
<1>2. CASE ~(cons # PtNone /\ under.surf = "w" /\ f = "w" /\ p \in ptProfile.region)
  <2>1. maybe_activate_pointer_constraint(cons, g, under, p) = Left(cons, f)
    BY <1>2, Zenon DEF maybe_activate_pointer_constraint
  <2> HIDE DEF f
  <2> QED
    BY <2>1, LeftFocus, Zenon DEF f
<1> QED
  BY <1>1, <1>2, Zenon

\* What update_pointer_contents leaves, for the grab that saw the motion.
LEMMA UpdatedFocus ==
    ASSUME ptCons = PtNone \/ ptCons \in PtConstraints, NEW vis, NEW g, UpdateContents(vis, g)
    PROVE  /\ ptPos' = ptPos /\ (ptCons' = PtNone \/ ptCons' \in PtConstraints)
           /\ ptCons' # PtNone /\ ptCons'.active => FocusOf(g, ptUnder') = "w"
<1> DEFINE to == HiddenContents(vis, contents_under(ptPos))
<1>1. /\ ptUnder' = to.under /\ ptPos' = ptPos
      /\ ptCons' = IF to.under = ptUnder THEN Left(ptCons, FocusOf(g, ptUnder))
                   ELSE maybe_activate_pointer_constraint(ptCons, g, to.under, ptPos)
  BY Zenon DEF UpdateContents
<1> HIDE DEF to
<1>2. CASE to.under = ptUnder
  BY <1>1, <1>2, LeftFocus, Zenon
<1>3. CASE to.under # ptUnder
  BY <1>1, <1>3, ActivatedFocus, Zenon
<1> QED
  BY <1>2, <1>3, Zenon

\* After pointer.motion.
LEMMA MovedFocus ==
    ASSUME ptCons = PtNone \/ ptCons \in PtConstraints, NEW p, NEW under, MovedTo(p, under)
    PROVE  /\ ptPos' = p /\ (ptCons' = PtNone \/ ptCons' \in PtConstraints)
           /\ ptCons' # PtNone /\ ptCons'.active => FocusOf(ptGrab, ptUnder') = "w"
  BY ActivatedFocus, Zenon DEF MovedTo

-----------------------------------------------------------------------------
\* ScrollTracker::accumulate: what is not yet a tick stays in the accumulator.
LEMMA Division ==
    ASSUME NEW n \in Nat, NEW d \in Nat \ {0}
    PROVE  /\ n \div d \in Nat /\ (n \div d) * d <= n /\ n - (n \div d) * d < d
  OBVIOUS

\* ScrollTracker::accumulate loses nothing: what it takes in is ticks and remainder.
LEMMA AccumulateAccounts ==
    ASSUME NEW w \in PtTrackers, NEW amount \in Int, w.sum = w.ticks * PtTick + w.acc
    PROVE  LET v == accumulate(w, amount) IN
           /\ v \in PtTrackers /\ v.sum = v.ticks * PtTick + v.acc /\ Abs(v.acc) < PtTick
<1> DEFINE turned == Sign(w.last) * Sign(amount) = -1
           acc    == (IF turned THEN 0 ELSE w.acc) + amount
           k      == Abs(acc) \div PtTick
           ticks  == Sign(acc) * k
           sum0   == IF turned THEN 0 ELSE w.sum
           ticks0 == IF turned THEN 0 ELSE w.ticks
           v      == accumulate(w, amount)
<1>1. v = [last |-> amount, acc |-> acc - ticks * PtTick, sum |-> sum0 + amount, ticks |-> ticks0 + ticks]
  BY Zenon DEF accumulate
<1>2. acc \in Int /\ sum0 \in Int /\ ticks0 \in Int /\ PtTick \in Nat \ {0}
  BY PtAssumption DEF PtTrackers
<1>3. sum0 + amount = ticks0 * PtTick + acc
  BY <1>2 DEF PtTrackers
<1> HIDE DEF acc, sum0, ticks0, v
<1>4. Abs(acc) \in Nat /\ (acc >= 0 => Abs(acc) = acc) /\ (acc < 0 => Abs(acc) = -acc)
  BY <1>2 DEF Abs
<1>5. k \in Nat /\ k * PtTick <= Abs(acc) /\ Abs(acc) - k * PtTick < PtTick
  BY <1>2, <1>4, Division, Zenon
<1> HIDE DEF k
<1>6. ticks \in Int /\ (acc > 0 => ticks = k) /\ (acc < 0 => ticks = -k) /\ (acc = 0 => ticks = 0)
  BY <1>2, <1>5 DEF Sign
<1> HIDE DEF ticks
<1> DEFINE kt == k * PtTick
           tt == ticks * PtTick
           t0 == ticks0 * PtTick
<1>7. kt \in Int /\ tt \in Int /\ t0 \in Int
  BY <1>2, <1>5, <1>6
<1>8. (acc > 0 => tt = kt) /\ (acc < 0 => tt = -kt) /\ (acc = 0 => tt = 0)
  BY <1>2, <1>5, <1>6
<1>9. (ticks0 + ticks) * PtTick = t0 + tt
  BY <1>2, <1>6
<1>10. sum0 + amount = t0 + acc /\ kt <= Abs(acc) /\ Abs(acc) - kt < PtTick
  BY <1>3, <1>5, Zenon
<1> HIDE DEF kt, t0
<1>11. Abs(acc - tt) < PtTick
  <2> HIDE DEF tt
  <2> QED
    BY <1>2, <1>4, <1>7, <1>8, <1>10 DEF Abs
<1>12. v.acc = acc - tt /\ v.sum = sum0 + amount /\ v.ticks = ticks0 + ticks /\ v.last = amount
  BY <1>1, Zenon
<1>13. v \in PtTrackers
  <2> HIDE DEF tt
  <2>1. acc - tt \in Int /\ sum0 + amount \in Int /\ ticks0 + ticks \in Int
    BY <1>2, <1>6, <1>7
  <2> QED
    BY <1>1, <2>1, Zenon DEF PtTrackers, tt
<1>14. v.sum = v.ticks * PtTick + v.acc
  <2>1. v.ticks * PtTick = t0 + tt
    BY <1>9, <1>12, Zenon
  <2> HIDE DEF tt
  <2> QED
    BY <1>2, <1>7, <1>10, <1>12, <2>1
<1> QED
  BY <1>11, <1>12, <1>13, <1>14, Zenon DEF v

-----------------------------------------------------------------------------
\* Once refresh_pointer_contents has run, the contents are those under the pointer,
\* or none if it is disabled.
LEMMA RefreshedContents ==
    ASSUME NEW vis, NEW g, UpdateContents(vis, g), UNCHANGED <<ptScreen, ptProfile>>
    PROVE  /\ ptVis' # "Disabled" => ptUnder' = contents_under(ptPos)'
           /\ ptVis' = "Disabled" => ptUnder' = NoContents
<1> DEFINE under == contents_under(ptPos)
           to == HiddenContents(vis, under)
<1>1. ptUnder' = to.under /\ ptVis' = to.vis /\ ptPos' = ptPos
  BY Zenon DEF UpdateContents
<1>2. contents_under(ptPos)' = under
  BY <1>1, Zenon DEF contents_under, OutputUnder, Span, Geometry, ptScreen
<1> HIDE DEF under
<1>3. (to.vis # "Disabled" => to.under = under) /\ (to.vis = "Disabled" => to.under = NoContents)
  BY Zenon DEF HiddenContents
<1> QED
  BY <1>1, <1>2, <1>3, Zenon

\* A clipped movement ends on an output.
LEMMA ClippedOnOutput ==
    ASSUME ptProfile \in PtProfiles, ptOuts \subseteq DOMAIN Geometry, ptOuts # {},
           NEW pos \in Int, NEW p \in Int
    PROVE  Clip(pos, p) \in Int /\ OutputUnder(Clip(pos, p)) # {}
<1>0. \A o \in ptOuts : Geometry[o][1] \in Int /\ Geometry[o][2] \in Int /\ Geometry[o][1] <= Geometry[o][2]
  BY PtAssumption DEF Geometry
<1>1. CASE OutputUnder(p) # {}
  BY <1>1, Zenon DEF Clip
<1>2. CASE OutputUnder(p) = {} /\ OutputUnder(pos) # {}
  <2> DEFINE o == CHOOSE o \in OutputUnder(pos) : TRUE
  <2>1. o \in OutputUnder(pos) /\ o \in ptOuts
    BY <1>2, Zenon DEF OutputUnder
  <2>2. Clip(pos, p) = Clamped(p, o)
    BY <1>2, Zenon DEF Clip
  <2> HIDE DEF o
  <2>3. Clamped(p, o) \in Int /\ Clamped(p, o) \in Span(o)
    BY <1>0, <2>1 DEF Clamped, Span
  <2> QED
    BY <2>1, <2>2, <2>3, Zenon DEF OutputUnder
<1>3. CASE OutputUnder(p) = {} /\ OutputUnder(pos) = {}
  <2> DEFINE o == CHOOSE o \in ptOuts : TRUE
  <2>1. o \in ptOuts
    BY Zenon
  <2>2. Clip(pos, p) = Middle(o)
    BY <1>3, Zenon DEF Clip
  <2> HIDE DEF o
  <2>3. Middle(o) \in Int /\ Middle(o) \in Span(o)
    BY <1>0, <2>1 DEF Middle, Span
  <2> QED
    BY <2>1, <2>2, <2>3, Zenon DEF OutputUnder
<1> QED
  BY <1>1, <1>2, <1>3, Zenon

-----------------------------------------------------------------------------
\* The conjuncts that every event disturbs are those about the focus; what an event
\* leaves is looked at by the next refresh.
LEMMA EventKeeps ==
    ASSUME PtInv, ptFresh' = FALSE, UNCHANGED ptProfile,
           ptOuts' \subseteq DOMAIN Geometry,
           ptPos' \in Int, ptTablet' = PtNone \/ ptTablet' \in Int,
           ptCons' = PtNone \/ ptCons' \in PtConstraints, ConstraintHasFocus',
           ReleaseFollowsButton', ptWheel' \in [{"wheel", "finger"} -> PtTrackers], TicksAccount'
    PROVE  PtInv'
  BY Zenon DEF PtInv, ContentsSettle, DisabledHoversNothing, Geometry

\* A step that leaves the buttons alone.
LEMMA ButtonsKept ==
    ASSUME PtInv, UNCHANGED ptButtons
    PROVE  ReleaseFollowsButton'
  BY Zenon DEF PtInv, ReleaseFollowsButton, ptButtons
\* A step that leaves the scroll trackers alone.
LEMMA WheelKept ==
    ASSUME PtInv, UNCHANGED ptWheel
    PROVE  ptWheel' \in [{"wheel", "finger"} -> PtTrackers] /\ TicksAccount'
  BY Zenon DEF PtInv, TicksAccount
\* A step that leaves the pointer focus, the grab and the constraint alone.
LEMMA FocusKept ==
    ASSUME PtInv, UNCHANGED <<ptGrab, ptCons>>, ptUnder' = ptUnder
    PROVE  (ptCons' = PtNone \/ ptCons' \in PtConstraints) /\ ConstraintHasFocus'
  BY Zenon DEF PtInv, ConstraintHasFocus, FocusOf

\* The pointer before any event.
LEMMA PtInitInv ==
    ASSUME PtInit
    PROVE  PtInv
<1>1. ptPos \in Int
  BY PtAssumption DEF PtInit, Geometry
<1>2. TicksAccount /\ ptWheel \in [{"wheel", "finger"} -> PtTrackers]
  BY PtAssumption DEF PtInit, TicksAccount, NoScroll, Abs, PtTrackers
<1> QED
  BY <1>1, <1>2, Zenon DEF PtInit, PtInv, ContentsSettle, DisabledHoversNothing, ConstraintHasFocus,
     ReleaseFollowsButton

\* The pointer moves.
LEMMA MotionStep ==
    ASSUME PtInv, NEW delta \in Int, on_pointer_motion(delta)
    PROVE  PtInv'
<1> DEFINE p == Clip(ptPos, ptPos + delta)
<1>0. UNCHANGED <<ptProfile, ptOuts, ptButtons, ptGrab, ptWheel>> /\ ptFresh' = FALSE
  BY Zenon DEF on_pointer_motion, Event, ptScreen, ptButtons
<1>1. CASE Stays
  <2>1. UNCHANGED <<ptPos, ptUnder, ptCons>>
    BY <1>1, Zenon DEF Stays
  <2>2. ptTablet' = PtNone \/ ptTablet' = ptTablet
    BY Zenon DEF on_pointer_motion
  <2> QED
    BY <1>0, <2>1, <2>2, EventKeeps, ButtonsKept, WheelKept, FocusKept, ZenonT(60) DEF PtInv
<1>2. CASE ~Stays
  <2>1. ptOuts # {} /\ ptTablet' = PtNone /\ MovedTo(p, contents_under(p))
    BY <1>2, Zenon DEF on_pointer_motion
  <2>2. p \in Int
    BY <2>1, ClippedOnOutput DEF PtInv
  <2> HIDE DEF p
  <2>3. /\ ptPos' = p /\ (ptCons' = PtNone \/ ptCons' \in PtConstraints)
        /\ ptCons' # PtNone /\ ptCons'.active => FocusOf(ptGrab, ptUnder') = "w"
    BY <2>1, MovedFocus, Zenon DEF PtInv
  <2>4. ConstraintHasFocus'
    BY <1>0, <2>3, Zenon DEF ConstraintHasFocus, FocusOf
  <2> QED
    BY <1>0, <2>1, <2>2, <2>3, <2>4, EventKeeps, ButtonsKept, WheelKept, Zenon DEF PtInv
<1> QED
  BY <1>1, <1>2, Zenon

\* An absolute motion: the pointer goes where it is told, and the contents with it.
LEMMA AbsoluteStep ==
    ASSUME PtInv, NEW p \in Int, on_pointer_motion_absolute(p)
    PROVE  PtInv'
<1>0. UNCHANGED <<ptProfile, ptOuts, ptButtons, ptGrab, ptWheel>> /\ ptFresh' = FALSE
  BY Zenon DEF on_pointer_motion_absolute, Event, ptScreen, ptButtons
<1>1. CASE ptOuts = {}
  <2>1. UNCHANGED <<ptPos, ptUnder, ptCons, ptTablet>>
    BY <1>1, Zenon DEF on_pointer_motion_absolute, Stays
  <2> QED
    BY <1>0, <2>1, EventKeeps, ButtonsKept, WheelKept, FocusKept, Zenon DEF PtInv
<1>2. CASE ptOuts # {}
  <2>1. ptTablet' = PtNone /\ MovedTo(p, contents_under(p))
    BY <1>2, Zenon DEF on_pointer_motion_absolute
  <2>3. /\ ptPos' = p /\ (ptCons' = PtNone \/ ptCons' \in PtConstraints)
        /\ ptCons' # PtNone /\ ptCons'.active => FocusOf(ptGrab, ptUnder') = "w"
    BY <2>1, MovedFocus, Zenon DEF PtInv
  <2>4. ConstraintHasFocus'
    BY <1>0, <2>3, Zenon DEF ConstraintHasFocus, FocusOf
  <2> QED
    BY <1>0, <2>1, <2>3, <2>4, EventKeeps, ButtonsKept, WheelKept, Zenon DEF PtInv
<1> QED
  BY <1>1, <1>2, Zenon

\* Buttons: the switcher, a bind, or the window.
LEMMA PressStep ==
    ASSUME PtInv, NEW b, PressButton(b)
    PROVE  PtInv'
<1>0. UNCHANGED <<ptProfile, ptWheel>> /\ ptFresh' = FALSE /\ b \notin ptDown
  BY Zenon DEF PressButton
<1>1. CASE Swallow(b) /\ ptOuts' = ptOuts
  <2>1. UNCHANGED <<ptPos, ptTablet, ptUnder, ptCons, ptGrab>>
    BY <1>1, Zenon DEF Swallow, ptCursor
  <2>2. ReleaseFollowsButton'
    BY <1>0, <1>1, Zenon DEF Swallow, PtInv, ReleaseFollowsButton
  <2> QED
    BY <1>0, <1>1, <2>1, <2>2, EventKeeps, WheelKept, FocusKept, Zenon DEF PtInv
<1>2. CASE UNCHANGED <<ptButtons, ptCursor, ptScreen>>
  <2>1. UNCHANGED <<ptPos, ptTablet, ptUnder, ptCons, ptGrab, ptOuts>>
    BY <1>2, Zenon DEF ptButtons, ptCursor, ptScreen
  <2> QED
    BY <1>0, <1>2, <2>1, EventKeeps, WheelKept, FocusKept, ButtonsKept, Zenon DEF PtInv
<1>3. ASSUME NEW kind, PressForWindow(b, kind)
      PROVE  PtInv'
  <2> DEFINE drag == [kind |-> "resize", focus |-> PtNone]
             seen == IF ptGrab = PtNone /\ kind = "resize" THEN drag ELSE ptGrab
  <2>1. /\ ptTablet' = PtNone /\ ptOuts' = ptOuts /\ UpdateContents("Visible", seen)
        /\ ptGrab' = IF seen # PtNone THEN seen ELSE [kind |-> "click", focus |-> ptUnder'.surf]
    BY <1>3, Zenon DEF PressForWindow, ptScreen
  <2>2. ReleaseFollowsButton'
    BY <1>0, <1>3, Zenon DEF PressForWindow, PtInv, ReleaseFollowsButton
  <2> HIDE DEF seen
  <2>3. /\ ptPos' = ptPos /\ (ptCons' = PtNone \/ ptCons' \in PtConstraints)
        /\ ptCons' # PtNone /\ ptCons'.active => FocusOf(seen, ptUnder') = "w"
    BY <2>1, UpdatedFocus, Zenon DEF PtInv
  <2>4. FocusOf(ptGrab', ptUnder') = FocusOf(seen, ptUnder')
    BY <2>1, Zenon DEF FocusOf
  <2>5. ConstraintHasFocus'
    BY <2>3, <2>4, Zenon DEF ConstraintHasFocus, FocusOf
  <2> QED
    BY <1>0, <2>1, <2>2, <2>3, <2>5, EventKeeps, WheelKept, Zenon DEF PtInv
<1> QED
  BY <1>1, <1>2, <1>3, Zenon DEF PressButton, PressForMru, PressForBind, ptScreen

\* A button release, forwarded or kept with its press.
LEMMA ReleaseStep ==
    ASSUME PtInv, NEW b, ReleaseButton(b)
    PROVE  PtInv'
<1>0. UNCHANGED <<ptProfile, ptWheel, ptOuts>> /\ ptFresh' = FALSE /\ b \in ptDown
  BY Zenon DEF ReleaseButton, Event, ptScreen
<1>1. ReleaseFollowsButton'
  BY DEF ReleaseButton, PtInv, ReleaseFollowsButton
<1>2. CASE b \in ptStolen
  <2>1. UNCHANGED <<ptPos, ptTablet, ptUnder, ptCons, ptGrab>>
    BY <1>2, Zenon DEF ReleaseButton, ptCursor
  <2> QED
    BY <1>0, <1>1, <2>1, EventKeeps, WheelKept, FocusKept, Zenon DEF PtInv
<1>3. CASE b \notin ptStolen
  <2> DEFINE to == HiddenContents(ptVis, contents_under(ptPos))
             c == IF to.under = ptUnder THEN ptCons
                  ELSE maybe_activate_pointer_constraint(ptCons, ptGrab, to.under, ptPos)
  <2>1. /\ UNCHANGED <<ptPos, ptTablet>> /\ ptUnder' = to.under
        /\ ptCons' = Left(c, FocusOf(ptGrab', to.under))
    BY <1>3, Zenon DEF ReleaseButton
  <2>2. c = PtNone \/ c \in PtConstraints
    BY ActivatedFocus, Zenon DEF PtInv
  <2> HIDE DEF to, c
  <2>3. /\ ptCons' = PtNone \/ ptCons' \in PtConstraints
        /\ ptCons' # PtNone /\ ptCons'.active => FocusOf(ptGrab', ptUnder') = "w"
    BY <2>1, <2>2, LeftFocus, Zenon
  <2>4. ConstraintHasFocus'
    BY <2>3, Zenon DEF ConstraintHasFocus, FocusOf
  <2> QED
    BY <1>0, <1>1, <2>1, <2>3, <2>4, EventKeeps, WheelKept, Zenon DEF PtInv
<1> QED
  BY <1>2, <1>3, Zenon

\* The wheel.
LEMMA ScrollStep ==
    ASSUME PtInv, NEW source \in {"wheel", "finger"}, NEW amount \in Int, NEW bound, Scroll(source, amount, bound)
    PROVE  PtInv'
<1>0. UNCHANGED <<ptProfile, ptOuts, ptButtons, ptGrab>> /\ ptFresh' = FALSE /\ ptTablet' = PtNone
  BY Zenon DEF Scroll, Event, ptScreen, ptButtons
<1>1. \A s \in {"wheel", "finger"} :
        ptWheel[s] \in PtTrackers /\ ptWheel[s].sum = ptWheel[s].ticks * PtTick + ptWheel[s].acc /\ Abs(ptWheel[s].acc) < PtTick
  BY Zenon DEF PtInv, TicksAccount
<1>2. ASSUME NEW v \in PtTrackers, v.sum = v.ticks * PtTick + v.acc, Abs(v.acc) < PtTick,
             ptWheel' = [ptWheel EXCEPT ![source] = v]
      PROVE  ptWheel' \in [{"wheel", "finger"} -> PtTrackers] /\ TicksAccount'
  <2>1. ptWheel' \in [{"wheel", "finger"} -> PtTrackers]
    BY <1>2, Zenon DEF PtInv
  <2>2. \A s \in {"wheel", "finger"} : ptWheel'[s] = v \/ ptWheel'[s] = ptWheel[s]
    BY <1>2, Zenon DEF PtInv
  <2> QED
    BY <1>1, <1>2, <2>1, <2>2, Zenon DEF TicksAccount
<1>3. CASE bound \/ ptMru # PtNone
  <2> DEFINE v == accumulate(ptWheel[source], amount)
  <2>1. ptWheel' = [ptWheel EXCEPT ![source] = v] /\ UNCHANGED <<ptPos, ptUnder, ptCons>>
    BY <1>3, Zenon DEF Scroll, BoundScroll
  <2>2. v \in PtTrackers /\ v.sum = v.ticks * PtTick + v.acc /\ Abs(v.acc) < PtTick
    BY <1>1, AccumulateAccounts, Zenon
  <2> HIDE DEF v
  <2>3. ptWheel' \in [{"wheel", "finger"} -> PtTrackers] /\ TicksAccount'
    BY <1>2, <2>1, <2>2, Zenon
  <2> QED
    BY <1>0, <2>1, <2>3, EventKeeps, ButtonsKept, FocusKept, Zenon DEF PtInv
<1>4. CASE ~(bound \/ ptMru # PtNone)
  <2>1. ptWheel' = [ptWheel EXCEPT ![source] = NoScroll] /\ UpdateContents("Visible", ptGrab)
    BY <1>4, Zenon DEF Scroll, ForwardScroll, update_pointer_contents
  <2>2. NoScroll \in PtTrackers /\ NoScroll.sum = NoScroll.ticks * PtTick + NoScroll.acc /\ Abs(NoScroll.acc) < PtTick
    BY PtAssumption DEF NoScroll, PtTrackers, Abs
  <2>3. ptWheel' \in [{"wheel", "finger"} -> PtTrackers] /\ TicksAccount'
    BY <1>2, <2>1, <2>2, Zenon
  <2>4. /\ ptPos' = ptPos /\ (ptCons' = PtNone \/ ptCons' \in PtConstraints)
        /\ ptCons' # PtNone /\ ptCons'.active => FocusOf(ptGrab, ptUnder') = "w"
    BY <2>1, UpdatedFocus, Zenon DEF PtInv
  <2>5. ConstraintHasFocus'
    BY <1>0, <2>4, Zenon DEF ConstraintHasFocus, FocusOf
  <2> QED
    BY <1>0, <2>3, <2>4, <2>5, EventKeeps, ButtonsKept, Zenon DEF PtInv
<1> QED
  BY <1>3, <1>4, Zenon

\* Gestures, tablets, warps and constraints.
LEMMA FocusStep ==
    ASSUME PtInv, \/ ForwardGesture \/ TabletOut
                  \/ \E p \in Int : WarpCursor(p)
                  \/ \E kind \in {"lock", "confine"} : new_constraint(kind)
    PROVE  PtInv'
<1>0. /\ UNCHANGED <<ptProfile, ptOuts, ptButtons, ptGrab, ptWheel>> /\ ptFresh' = FALSE
      /\ ptTablet' = PtNone \/ ptTablet' = ptTablet
  BY Zenon DEF ForwardGesture, TabletOut, WarpCursor, new_constraint, Event, ptScreen, ptButtons
<1>1. SUFFICES /\ ptPos' \in Int /\ (ptCons' = PtNone \/ ptCons' \in PtConstraints)
               /\ ptCons' # PtNone /\ ptCons'.active => FocusOf(ptGrab, ptUnder') = "w"
  <2>1. ConstraintHasFocus'
    BY <1>0, <1>1, Zenon DEF ConstraintHasFocus, FocusOf
  <2> QED
    BY <1>0, <1>1, <2>1, EventKeeps, ButtonsKept, WheelKept, Zenon DEF PtInv
<1>2. CASE ForwardGesture
  BY <1>2, UpdatedFocus, Zenon DEF ForwardGesture, update_pointer_contents, PtInv
<1>3. CASE TabletOut
  <2>1. CASE ptTablet = PtNone
    BY <1>3, <2>1, Zenon DEF TabletOut, PtInv, ConstraintHasFocus, FocusOf
  <2>2. CASE ptTablet # PtNone
    <3> DEFINE under == HiddenContents(ptVis, contents_under(ptTablet)).under
    <3>1. MovedTo(ptTablet, under)
      BY <1>3, <2>2, ZenonT(60) DEF TabletOut
    <3> HIDE DEF under
    <3> QED
      BY <2>2, <3>1, MovedFocus, Zenon DEF PtInv
  <2> QED
    BY <2>1, <2>2, Zenon
<1>4. ASSUME NEW p \in Int, WarpCursor(p)
      PROVE  /\ ptPos' \in Int /\ (ptCons' = PtNone \/ ptCons' \in PtConstraints)
             /\ ptCons' # PtNone /\ ptCons'.active => FocusOf(ptGrab, ptUnder') = "w"
  <2> DEFINE under == HiddenContents(ptVis, contents_under(p)).under
  <2>1. MovedTo(p, under)
    BY <1>4, Zenon DEF WarpCursor, move_cursor
  <2> HIDE DEF under
  <2> QED
    BY <2>1, MovedFocus DEF PtInv
<1>5. ASSUME NEW kind \in {"lock", "confine"}, new_constraint(kind)
      PROVE  /\ ptPos' \in Int /\ (ptCons' = PtNone \/ ptCons' \in PtConstraints)
             /\ ptCons' # PtNone /\ ptCons'.active => FocusOf(ptGrab, ptUnder') = "w"
  <2> DEFINE c == [kind |-> kind, active |-> FALSE]
  <2>1. c \in PtConstraints
    BY Zenon DEF PtConstraints
  <2> HIDE DEF c
  <2>2. PICK to : ptUnder' = to.under /\ ptCons' = maybe_activate_pointer_constraint(c, ptGrab, to.under, ptPos) /\ ptPos' = ptPos
    BY <1>5, Zenon DEF new_constraint, c
  <2> QED
    BY <2>1, <2>2, ActivatedFocus, Zenon DEF PtInv
<1> QED
  BY <1>2, <1>3, <1>4, <1>5, Zenon

\* What leaves the focus alone, or ends a constraint.
LEMMA QuietStep ==
    ASSUME PtInv, \/ \E p \in Int : TabletAt(p) \/ cursor_position_hint(p)
                  \/ TouchDown \/ DestroyConstraint
                  \/ \E typing \in BOOLEAN : hide_cursor_if_needed(typing)
                  \/ \E scene, busy : Rearrange(scene, busy)
                  \/ \E o \in DOMAIN Geometry : OpenMru(o) \/ pt_remove_output(o) \/ pt_add_output(o)
    PROVE  PtInv'
<1>1. UNCHANGED <<ptProfile, ptButtons, ptGrab, ptUnder, ptWheel>> /\ ptFresh' = FALSE
  BY Zenon DEF TabletAt, cursor_position_hint, TouchDown, DestroyConstraint, hide_cursor_if_needed, Rearrange, OpenMru,
     pt_remove_output, pt_add_output, Event, ptScreen, ptButtons, ptCursor
<1>2. ptOuts' \subseteq DOMAIN Geometry
  BY Zenon DEF TabletAt, cursor_position_hint, TouchDown, DestroyConstraint, hide_cursor_if_needed, Rearrange, OpenMru,
     pt_remove_output, pt_add_output, ptScreen, PtInv
<1>3. ptTablet' = ptTablet \/ ptTablet' \in Int
  BY Zenon DEF TabletAt, cursor_position_hint, TouchDown, DestroyConstraint, hide_cursor_if_needed, Rearrange, OpenMru,
     pt_remove_output, pt_add_output, ptCursor
<1>4. ptPos' \in Int
  <2>1. \A p \in Int, o \in ptOuts : Clamped(p, o) \in Int
    <3> SUFFICES ASSUME NEW p \in Int, NEW o \in ptOuts
                 PROVE  Clamped(p, o) \in Int
      BY Zenon
    <3>1. Geometry[o] \in Nat \X Nat
      BY PtAssumption, Zenon DEF PtInv, Geometry
    <3>2. Geometry[o][1] \in Int /\ Geometry[o][2] \in Int
      BY <3>1, SMTT(30)
    <3> QED
      BY <3>2, Zenon DEF Clamped
  <2> QED
    BY <2>1, Zenon DEF TabletAt, cursor_position_hint, TouchDown, DestroyConstraint, hide_cursor_if_needed, Rearrange,
       OpenMru, pt_remove_output, pt_add_output, ptCursor, PtInv
<1>5. ptCons' = ptCons \/ ptCons' = PtNone
  BY Zenon DEF TabletAt, cursor_position_hint, TouchDown, DestroyConstraint, hide_cursor_if_needed, Rearrange, OpenMru,
     pt_remove_output, pt_add_output, ptCursor
<1>6. ConstraintHasFocus' /\ (ptCons' = PtNone \/ ptCons' \in PtConstraints)
  BY <1>1, <1>5, Zenon DEF ConstraintHasFocus, FocusOf, PtInv
<1> QED
  BY <1>1, <1>2, <1>3, <1>4, <1>6, EventKeeps, ButtonsKept, WheelKept, Zenon DEF PtInv

\* refresh_pointer_contents: the focus follows what moved under the pointer.
LEMMA RefreshStep ==
    ASSUME PtInv, refresh_pointer_contents
    PROVE  PtInv'
<1>0. UNCHANGED <<ptProfile, ptScreen, ptOuts, ptBusy, ptButtons, ptGrab, ptWheel, ptTablet>>
  BY Zenon DEF refresh_pointer_contents, ptScreen, ptButtons
<1>1. CASE ptBusy /\ OutputUnder(ptPos) # {}
  <2>1. UNCHANGED <<ptVis, ptPos, ptUnder, ptCons>>
    BY <1>1, Zenon DEF refresh_pointer_contents
  <2>2. OutputUnder(ptPos)' = OutputUnder(ptPos) /\ ptBusy'
    BY <1>0, <1>1, <2>1, Zenon DEF OutputUnder, Span, Geometry
  <2>3. ContentsSettle' /\ DisabledHoversNothing'
    BY <1>1, <2>2, Zenon DEF ContentsSettle, DisabledHoversNothing
  <2> QED
    BY <1>0, <2>1, <2>3, ButtonsKept, WheelKept, FocusKept, Zenon DEF PtInv, Geometry
<1>2. CASE ~(ptBusy /\ OutputUnder(ptPos) # {})
  <2>1. UpdateContents(ptVis, ptGrab)
    BY <1>2, Zenon DEF refresh_pointer_contents, update_pointer_contents
  <2>2. /\ ptPos' = ptPos /\ (ptCons' = PtNone \/ ptCons' \in PtConstraints)
        /\ ptCons' # PtNone /\ ptCons'.active => FocusOf(ptGrab, ptUnder') = "w"
    BY <2>1, UpdatedFocus, Zenon DEF PtInv
  <2>3. ConstraintHasFocus'
    BY <1>0, <2>2, Zenon DEF ConstraintHasFocus, FocusOf
  <2>4. ContentsSettle' /\ DisabledHoversNothing'
    BY <1>0, <2>1, RefreshedContents, Zenon DEF ContentsSettle, DisabledHoversNothing, NoContents
  <2> QED
    BY <1>0, <2>2, <2>3, <2>4, ButtonsKept, WheelKept, Zenon DEF PtInv, Geometry
<1> QED
  BY <1>1, <1>2, Zenon

\* Every step of the pointer keeps the invariant.
LEMMA PtStepInv == PtInv /\ [PtNext]_ptVars => PtInv'
<1> SUFFICES ASSUME PtInv, [PtNext]_ptVars
             PROVE  PtInv'
  BY Zenon
<1>0. Positions \subseteq Int /\ Deltas \subseteq Int
  BY DEF Positions, Deltas
<1>1. ASSUME NEW delta \in Deltas, on_pointer_motion(delta)
      PROVE  PtInv'
  BY <1>0, <1>1, MotionStep, Zenon
<1>2. ASSUME NEW p \in Positions, on_pointer_motion_absolute(p) \/ TabletAt(p) \/ WarpCursor(p) \/ cursor_position_hint(p)
      PROVE  PtInv'
  <2>1. p \in Int
    BY <1>0, Zenon
  <2> QED
    BY <1>2, <2>1, AbsoluteStep, QuietStep, FocusStep, Zenon
<1>3. ASSUME NEW b, PressButton(b) \/ ReleaseButton(b)
      PROVE  PtInv'
  BY <1>3, PressStep, ReleaseStep, Zenon
<1>4. ASSUME NEW source \in {"wheel", "finger"}, NEW amount \in {-2, 1, 2, 5}, NEW bound \in BOOLEAN, Scroll(source, amount, bound)
      PROVE  PtInv'
  <2>1. amount \in Int
    OBVIOUS
  <2> QED
    BY <1>4, <2>1, ScrollStep, Zenon
<1>5. CASE ForwardGesture \/ TabletOut \/ \E kind \in {"lock", "confine"} : new_constraint(kind)
  BY <1>5, FocusStep, Zenon
<1>6. CASE \/ TouchDown \/ DestroyConstraint
           \/ \E typing \in BOOLEAN : hide_cursor_if_needed(typing)
           \/ \E scene \in ptProfile.scenes, busy \in BOOLEAN : Rearrange(scene, busy)
           \/ \E o \in DOMAIN Geometry : OpenMru(o) \/ pt_remove_output(o) \/ pt_add_output(o)
  BY <1>6, QuietStep, Zenon
<1>7. CASE refresh_pointer_contents
  BY <1>7, RefreshStep, Zenon
<1>8. CASE UNCHANGED ptVars
  BY <1>8, ZenonT(60) DEF ptVars, ptScreen, ptButtons, ptCursor, PtInv, ContentsSettle, DisabledHoversNothing, ConstraintHasFocus,
     ReleaseFollowsButton, TicksAccount, Geometry, contents_under, OutputUnder, Span, FocusOf
<1> QED
  BY <1>1, <1>2, <1>3, <1>4, <1>5, <1>6, <1>7, <1>8, ZenonT(60) DEF PtNext

\* The invariant of the pointer holds in every reachable state.
THEOREM PtInductive == PtSpec => []PtInv
<1>1. PtInit => PtInv
  BY PtInitInv, Zenon
<1> QED
  BY <1>1, PtStepInv, PTL DEF PtSpec

\* After refresh_pointer_contents, with no transition holding it back, a pointer that is
\* not disabled has the contents that are there, for any outputs and any scene.
THEOREM ContentsAreSettled == PtSpec => []ContentsSettle
<1>1. PtInv => ContentsSettle
  BY Zenon DEF PtInv
<1> QED
  BY <1>1, PtInductive, PTL

\* After refresh_pointer_contents a disabled pointer hovers nothing.
THEOREM DisabledPointersHoverNothing == PtSpec => []DisabledHoversNothing
<1>1. PtInv => DisabledHoversNothing
  BY Zenon DEF PtInv
<1> QED
  BY <1>1, PtInductive, PTL

\* An active constraint is that of the surface with the pointer focus.
THEOREM ConstraintsHaveFocus == PtSpec => []ConstraintHasFocus
<1>1. PtInv => ConstraintHasFocus
  BY Zenon DEF PtInv
<1> QED
  BY <1>1, PtInductive, PTL

\* on_pointer_button never sends a release to a client that did not see the press.
THEOREM ButtonReleasesFollowPresses == PtSpec => []ReleaseFollowsButton
<1>1. PtInv => ReleaseFollowsButton
  BY Zenon DEF PtInv
<1> QED
  BY <1>1, PtInductive, PTL

\* ScrollTracker loses nothing of what is scrolled in one direction, for any tick.
THEOREM TicksAreAccounted == PtSpec => []TicksAccount
<1>1. PtInv => TicksAccount
  BY Zenon DEF PtInv
<1> QED
  BY <1>1, PtInductive, PTL

-----------------------------------------------------------------------------
\* on_pointer_motion ends on an output, whatever was unplugged before it.
THEOREM MotionsEndOnOutputs == PtSpec => MotionEndsOnOutput
<1> DEFINE A == (\E delta \in Deltas : on_pointer_motion(delta)) /\ ptPos' # ptPos => OutputUnder(ptPos') # {}
<1>1. PtInv => [A]_ptVars
  <2> SUFFICES ASSUME PtInv, NEW delta \in Deltas, on_pointer_motion(delta), ptPos' # ptPos
               PROVE  OutputUnder(ptPos') # {}
    BY Zenon
  <2> DEFINE p == Clip(ptPos, ptPos + delta)
  <2>1. delta \in Int
    BY DEF Deltas
  <2>2. ~Stays
    BY Zenon DEF Stays
  <2>3. ptOuts # {} /\ ptPos' = p
    BY <2>2, Zenon DEF on_pointer_motion, MovedTo
  <2>4. OutputUnder(p) # {}
    BY <2>1, <2>3, ClippedOnOutput DEF PtInv
  <2> QED
    BY <2>3, <2>4, Zenon
<1> QED
  BY <1>1, PtInductive, PTL DEF MotionEndsOnOutput

\* A hidden or disabled pointer keeps what it hovers, or hovers nothing.
THEOREM HiddenPointersHoverNothingNew == PtSpec => HiddenHoversNothingNew
<1> DEFINE A == ptVis # "Visible" /\ ptVis' # "Visible" => ptUnder' \in {ptUnder, NoContents}
<1>0. ASSUME NEW vis, NEW p, NEW to, to = HiddenContents(vis, contents_under(p)), vis # "Visible"
      PROVE  to.under \in {ptUnder, NoContents}
  BY <1>0, Zenon DEF HiddenContents
<1>1. [PtNext]_ptVars => [A]_ptVars
  <2> SUFFICES ASSUME PtNext, ptVis # "Visible", ptVis' # "Visible"
               PROVE  ptUnder' \in {ptUnder, NoContents}
    BY Zenon
  <2>1. ASSUME NEW b \in {"left", "right"}, PressButton(b) \/ ReleaseButton(b)
        PROVE  ptUnder' \in {ptUnder, NoContents}
    <3>1. CASE PressButton(b)
      <4>1. CASE \E kind \in {"click", "resize"} : PressForWindow(b, kind)
        <5>1. PICK g : UpdateContents("Visible", g)
          BY <4>1, Zenon DEF PressForWindow
        <5> QED
          BY <5>1, Zenon DEF UpdateContents, HiddenContents
      <4> QED
        BY <3>1, <4>1, Zenon DEF PressButton, PressForMru, PressForBind, Swallow, ptCursor
    <3>2. CASE ReleaseButton(b)
      BY <3>2, <1>0, Zenon DEF ReleaseButton, ptCursor
    <3> QED
      BY <2>1, <3>1, <3>2, Zenon
  <2>2. CASE \/ \E source \in {"wheel", "finger"}, amount \in {-2, 1, 2, 5}, bound \in BOOLEAN : Scroll(source, amount, bound)
             \/ ForwardGesture \/ refresh_pointer_contents
    BY <2>2, <1>0, Zenon DEF Scroll, ForwardScroll, ForwardGesture, refresh_pointer_contents, update_pointer_contents, UpdateContents, HiddenContents
  <2>3. CASE \/ \E p \in Positions : WarpCursor(p)
             \/ \E kind \in {"lock", "confine"} : new_constraint(kind)
    BY <2>3, <1>0, Zenon DEF WarpCursor, move_cursor, MovedTo, new_constraint
  <2>4. CASE \E delta \in Deltas : on_pointer_motion(delta)
    BY <2>4, Zenon DEF on_pointer_motion, Stays
  <2>5. CASE \/ \E p \in Positions : on_pointer_motion_absolute(p) \/ TabletAt(p) \/ cursor_position_hint(p)
             \/ TabletOut \/ TouchDown \/ DestroyConstraint
             \/ \E typing \in BOOLEAN : hide_cursor_if_needed(typing)
             \/ \E scene \in ptProfile.scenes, busy \in BOOLEAN : Rearrange(scene, busy)
             \/ \E o \in DOMAIN Geometry : OpenMru(o) \/ pt_remove_output(o) \/ pt_add_output(o)
    BY <2>5, Zenon DEF on_pointer_motion_absolute, Stays, TabletAt, cursor_position_hint, TabletOut, TouchDown, DestroyConstraint,
       hide_cursor_if_needed, Rearrange, OpenMru, pt_remove_output, pt_add_output, ptCursor
  <2> QED
    BY <2>1, <2>2, <2>3, <2>4, <2>5, Zenon DEF PtNext
<1> QED
  BY <1>1, PTL DEF PtSpec, HiddenHoversNothingNew

\* The hot corner toggles the overview on entering it only.
THEOREM HotCornersToggleOnce == PtSpec => HotCornerOnce
<1> DEFINE A == ptInside /\ ptPos' = ptPos => ptOverview' = ptOverview
<1>1. [PtNext]_ptVars => [A]_ptVars
  <2> SUFFICES ASSUME PtNext, ptInside
               PROVE  ptOverview' = ptOverview
    BY Zenon
  <2>1. CASE \/ \E delta \in Deltas : on_pointer_motion(delta)
             \/ \E p \in Positions : on_pointer_motion_absolute(p)
    BY <2>1, Zenon DEF on_pointer_motion, on_pointer_motion_absolute, Stays, EnterCorner
  <2>2. CASE \/ \E p \in Positions : TabletAt(p) \/ WarpCursor(p) \/ cursor_position_hint(p)
             \/ \E source \in {"wheel", "finger"}, amount \in {-2, 1, 2, 5}, bound \in BOOLEAN : Scroll(source, amount, bound)
             \/ ForwardGesture \/ TabletOut \/ TouchDown \/ DestroyConstraint \/ refresh_pointer_contents
             \/ \E typing \in BOOLEAN : hide_cursor_if_needed(typing)
             \/ \E kind \in {"lock", "confine"} : new_constraint(kind)
             \/ \E scene \in ptProfile.scenes, busy \in BOOLEAN : Rearrange(scene, busy)
             \/ \E o \in DOMAIN Geometry : OpenMru(o) \/ pt_remove_output(o) \/ pt_add_output(o)
    BY <2>2, Zenon DEF TabletAt, WarpCursor, cursor_position_hint, Scroll, ForwardGesture, TabletOut, TouchDown, DestroyConstraint,
       refresh_pointer_contents, hide_cursor_if_needed, new_constraint, Rearrange, OpenMru, pt_remove_output, pt_add_output, ptCursor
  <2>3. CASE \E b \in {"left", "right"} : PressButton(b) \/ ReleaseButton(b)
    BY <2>3, Zenon DEF PressButton, PressForMru, PressForBind, PressForWindow, Swallow, ReleaseButton, ptCursor
  <2> QED
    BY <2>1, <2>2, <2>3, Zenon DEF PtNext
<1> QED
  BY <1>1, PTL DEF PtSpec, HotCornerOnce

-----------------------------------------------------------------------------
\* The keyboard focus.

FcKbds == [kind : {"layout", "layer", "lock", "overview", "dialog", "screenshot", "mru"}, surface : FcSurfaces \cup {FcNone}]
FcRanked == {f \in FcKbds : f.kind \in {"layout", "layer", "overview"}}
FcLayerStates == [up : BOOLEAN, inter : {"none", "exclusive", "ondemand"}, backdrop : BOOLEAN]
FcGrabs == [root : FcSurfaces \cup {FcNone}, kbd : BOOLEAN, ended : BOOLEAN]

FcTypes ==
    /\ fcProfile \in FcProfiles
    /\ fcLayer \in [FcLayers -> FcLayerStates]
    /\ fcWin \in FcWin \cup {FcNone} /\ fcOnDemand \in FcLayers \cup {FcNone}
    /\ fcKbd \in FcKbds /\ fcGrab \in FcGrabs
    /\ fcXkb \in {0, 1} /\ fcSaved \in [FcSurfaces -> {0, 1}] /\ fcUsed \in [FcSurfaces -> {0, 1}]

\* What a refresh leaves is what the next one would compute.
Settled ==
    /\ refresh_popup_grab = fcGrab
    /\ fcOnDemand # FcNone => OnDemandGood
    /\ fcKbd = ComputedFocus(fcOnDemand, fcGrab)

\* Surfaces that are not focused have the layout they were used with stored.
LayoutsStored == \A s \in FcSurfaces : s # fcKbd.surface => fcSaved[s] = fcUsed[s]

\* While the lock screen has the focus, a popup with the keyboard is its own.
LockKeepsKeyboard == "locked" \in fcUi /\ fcKbd.kind = "lock" /\ fcGrab.kbd => fcGrab.root = "lock"

\* The inductive invariant of the keyboard focus.
FcInv == FcTypes /\ (fcFresh => Settled) /\ fcFresh \in BOOLEAN /\ LayoutsStored /\ LayoutComesBack /\ LockKeepsKeyboard

-----------------------------------------------------------------------------
INSTANCE WellFoundedInduction

\* A set of naturals that is not empty has a least element.
LEMMA LeastElement ==
    ASSUME NEW T \in SUBSET Nat, T # {}
    PROVE  \E m \in T : \A k \in T : m <= k
<1>1. PICK m \in T : \A k \in T : ~(<<k, m>> \in OpToRel(<, Nat))
  BY NatLessThanWellFounded, WFMin, Zenon
<1>2. \A k \in T : ~(k < m)
  BY <1>1, Zenon DEF OpToRel
<1> QED
  BY <1>2

\* FirstOf takes the focus of the first rank that offers one.
LEMMA FirstOffered ==
    ASSUME NEW S, NEW ranks \in Seq(SUBSET S), NEW k \in 1 .. Len(ranks), ranks[k] # {}
    PROVE  \E i \in 1 .. k : ranks[i] # {} /\ FirstOf(ranks) \in ranks[i] /\ FirstOf(ranks) \in S
<1> DEFINE offered == {i \in 1 .. Len(ranks) : ranks[i] # {}}
           m == CHOOSE i \in offered : \A j \in offered : i <= j
<1>1. k \in offered /\ offered \in SUBSET Nat
  OBVIOUS
<1>2. \E i \in offered : \A j \in offered : i <= j
  <2> HIDE DEF offered
  <2> QED
    BY <1>1, LeastElement, Zenon
<1>3. m \in offered /\ m <= k
  <2>1. m \in offered /\ \A j \in offered : m <= j
    BY <1>2, Zenon
  <2> HIDE DEF m
  <2> QED
    BY <1>1, <2>1, Zenon
<1>4. FirstOf(ranks) = CHOOSE f \in ranks[m] : TRUE
  BY <1>1, Zenon DEF FirstOf
<1> HIDE DEF m
<1>5. m \in 1 .. k /\ ranks[m] # {} /\ ranks[m] \in SUBSET S
  BY <1>3
<1> QED
  BY <1>4, <1>5, Zenon

\* Where nothing asks for the keyboard, the layout has it.
LEMMA NoneOffered ==
    ASSUME NEW ranks, \A i \in 1 .. Len(ranks) : ranks[i] = {}
    PROVE  FirstOf(ranks) = Kbd("layout", FcNone)
  BY Zenon DEF FirstOf

\* The first that asks is one of those that ask, or the layout.
LEMMA FirstOfType ==
    ASSUME NEW S, NEW ranks \in Seq(SUBSET S), Kbd("layout", FcNone) \in S
    PROVE  FirstOf(ranks) \in S
<1>1. CASE \A i \in 1 .. Len(ranks) : ranks[i] = {}
  BY <1>1, NoneOffered, Zenon
<1>2. CASE \E k \in 1 .. Len(ranks) : ranks[k] # {}
  BY <1>2, FirstOffered, Zenon
<1> QED
  BY <1>1, <1>2, Zenon

-----------------------------------------------------------------------------
\* Every rank offers surfaces that exist.
LEMMA RankTypes ==
    ASSUME FcTypes, NEW od, NEW popup
    PROVE  /\ \A layer : GrabOn(popup, layer) \in SUBSET FcRanked /\ FocusOn(layer, od) \in SUBSET FcRanked
           /\ GrabRanks(popup) \in Seq(SUBSET FcRanked)
           /\ LayerRanks(od) \in Seq(SUBSET FcRanked)
<1>1. ASSUME NEW layer
      PROVE  /\ GrabOn(popup, layer) \in SUBSET FcRanked /\ FocusOn(layer, od) \in SUBSET FcRanked
             /\ OnDemandOn(layer, od) \in SUBSET FcRanked /\ ExclusiveOn(layer) \in SUBSET FcRanked
  <2>1. ASSUME NEW l \in FcLayers
        PROVE  Kbd("layer", l) \in FcRanked
    BY Zenon DEF FcRanked, FcKbds, Kbd, FcSurfaces
  <2>2. /\ GrabOn(popup, layer) \in SUBSET FcRanked /\ OnDemandOn(layer, od) \in SUBSET FcRanked
        /\ ExclusiveOn(layer) \in SUBSET FcRanked
    BY <2>1, Zenon DEF GrabOn, OnDemandOn, ExclusiveOn
  <2> QED
    BY <2>2, Zenon DEF FocusOn
<1>2. layout_focus \in SUBSET FcRanked /\ overview_focus \in SUBSET FcRanked
  BY DEF layout_focus, overview_focus, FcTypes, FcRanked, FcKbds, Kbd, FcSurfaces
<1>3. GrabRanks(popup) \in Seq(SUBSET FcRanked)
  BY <1>1 DEF GrabRanks, GrabBelow
<1>4. LayerRanks(od) \in Seq(SUBSET FcRanked)
  <2>1. CASE "above" \in fcUi
    <3>1. LayerRanks(od) = <<layout_focus, FocusOn("top", od), FocusOn("bottom", od), FocusOn("background", od)>>
      BY <2>1, Zenon DEF LayerRanks
    <3> QED
      BY <1>1, <1>2, <3>1, SMTT(30)
  <2>2. CASE "above" \notin fcUi
    <3>1. LayerRanks(od) = <<FocusOn("top", od), overview_focus, OnDemandOn("bottom", od), OnDemandOn("background", od),
                             layout_focus, ExclusiveOn("bottom"), ExclusiveOn("background")>>
      BY <2>2, Zenon DEF LayerRanks
    <3> QED
      BY <1>1, <1>2, <3>1
  <2> QED
    BY <2>1, <2>2, Zenon
<1> QED
  BY <1>1, <1>3, <1>4, Zenon

\* Where no dialog, lock or switcher decides.
NoUi == fcUi \cap {"dialog", "locked", "screenshot", "mru"} = {}
Ranks(od, popup) == GrabRanks(popup) \o <<FocusOn("overlay", od)>> \o LayerRanks(od)

\* update_keyboard_focus: without an overlay of the compositor the first in rank has the keyboard.
LEMMA Ranked ==
    ASSUME FcTypes, NEW od, NEW popup
    PROVE  /\ NoUi => ComputedFocus(od, popup) = FirstOf(Ranks(od, popup)) /\ ComputedFocus(od, popup) \in FcRanked
           /\ ComputedFocus(od, popup) \in FcKbds
           /\ ComputedFocus(od, popup).kind = "lock" => "locked" \in fcUi /\ ComputedFocus(od, popup).surface = "lock"
           /\ Ranks(od, popup) \in Seq(SUBSET FcRanked)
<1>1. Ranks(od, popup) \in Seq(SUBSET FcRanked)
  BY RankTypes DEF Ranks
<1>2. Kbd("layout", FcNone) \in FcRanked
  BY Zenon DEF Kbd, FcRanked, FcKbds
<1>3. FirstOf(Ranks(od, popup)) \in FcRanked
  BY <1>1, <1>2, FirstOfType, ZenonT(60)
<1>4. NoUi => ComputedFocus(od, popup) = FirstOf(Ranks(od, popup))
  BY Zenon DEF NoUi, ComputedFocus, Ranks
<1>5. FcRanked \subseteq FcKbds /\ \A f \in FcRanked : f.kind # "lock"
  BY Zenon DEF FcRanked
<1>6. ~NoUi => /\ ComputedFocus(od, popup) \in {Kbd("dialog", FcNone), Kbd("lock", "lock"), Kbd("screenshot", FcNone), Kbd("mru", FcNone)}
               /\ ComputedFocus(od, popup) = Kbd("lock", "lock") => "locked" \in fcUi
  BY Zenon DEF NoUi, ComputedFocus, Kbd
<1>7. \A f \in {Kbd("dialog", FcNone), Kbd("lock", "lock"), Kbd("screenshot", FcNone), Kbd("mru", FcNone)} :
        f \in FcKbds /\ (f.kind = "lock" => f = Kbd("lock", "lock") /\ f.surface = "lock")
  BY DEF Kbd, FcKbds, FcSurfaces
<1> HIDE DEF NoUi
<1> QED
  BY <1>1, <1>3, <1>4, <1>5, <1>6, <1>7, ZenonT(60)

\* The offers of a popup are of its root, and there are none without a popup.
LEMMA GrabOffers ==
    ASSUME FcTypes, NEW popup
    PROVE  /\ \A i \in 1 .. Len(GrabRanks(popup)) : \A f \in GrabRanks(popup)[i] : f.surface = popup.root
           /\ (\A i \in 1 .. Len(GrabRanks(popup)) : GrabRanks(popup)[i] = {}) => GrabRanks(popup) = GrabRanks(NoGrab)
<1>1. \A layer : \A f \in GrabOn(popup, layer) : f.surface = popup.root
  <2>1. \A l : Kbd("layer", l).surface = l
    BY Zenon DEF Kbd
  <2> QED
    BY <2>1, Zenon DEF GrabOn
<1>2. \A layer : GrabOn(NoGrab, layer) = {}
  BY FcAssumption, ZenonT(60) DEF GrabOn, NoGrab, FcTypes, FcLayers
<1>3. \A layer : /\ \A f \in GrabBelow(popup, layer) : f.surface = popup.root
                 /\ GrabBelow(NoGrab, layer) = {}
  BY <1>1, <1>2, Zenon DEF GrabBelow
<1> DEFINE a == GrabOn(popup, "overlay")
           b == GrabOn(popup, "top")
           c == GrabBelow(popup, "bottom")
           d == GrabBelow(popup, "background")
<1>4. GrabRanks(popup) = <<a, b, c, d>> /\ GrabRanks(NoGrab) = <<{}, {}, {}, {}>>
  BY <1>2, <1>3, Zenon DEF GrabRanks
<1>5. \A s \in {a, b, c, d} : \A f \in s : f.surface = popup.root
  BY <1>1, <1>3
<1> HIDE DEF a, b, c, d
<1> QED
  BY <1>4, <1>5

\* The choice depends on the layers, windows and dialogs only.
LEMMA SameFocus ==
    ASSUME NEW x, NEW y, UNCHANGED <<fcLayer, fcProfile, fcUi, fcWin>>
    PROVE  ComputedFocus(x, y)' = ComputedFocus(x, y)
<1>1. \A l : Layer(l)' = Layer(l) /\ place_within_backdrop(l)' = place_within_backdrop(l)
  BY Zenon DEF Layer, place_within_backdrop
<1>2. ASSUME NEW k
      PROVE  /\ GrabOn(y, k)' = GrabOn(y, k) /\ ExclusiveOn(k)' = ExclusiveOn(k)
             /\ OnDemandOn(k, x)' = OnDemandOn(k, x)
  BY <1>1, ZenonT(60) DEF GrabOn, ExclusiveOn, OnDemandOn, FcLayers
<1>3. ASSUME NEW k
      PROVE  FocusOn(k, x)' = FocusOn(k, x) /\ GrabBelow(y, k)' = GrabBelow(y, k)
  BY <1>2, ZenonT(60) DEF FocusOn, GrabBelow
<1>4. layout_focus' = layout_focus /\ overview_focus' = overview_focus
  BY Zenon DEF layout_focus, overview_focus
<1>5. GrabRanks(y)' = GrabRanks(y)
  BY <1>2, <1>3, SMTT(30) DEF GrabRanks
<1>6. LayerRanks(x)' = LayerRanks(x)
  BY <1>2, <1>3, <1>4, SMTT(30) DEF LayerRanks
<1> QED
  BY <1>3, <1>5, <1>6, ZenonT(60) DEF ComputedFocus

\* A popup grab that the computed focus does not belong to had no part in computing it:
\* dropping the grab, as update_keyboard_focus does, leaves the choice as it is.
LEMMA DroppedGrab ==
    ASSUME FcTypes, NEW od, NEW popup, ComputedFocus(od, popup).surface # popup.root
    PROVE  ComputedFocus(od, NoGrab) = ComputedFocus(od, popup)
<1>1. CASE ~NoUi
  BY <1>1, ZenonT(60) DEF NoUi, ComputedFocus
<1>2. CASE NoUi
  <2> DEFINE g == GrabRanks(popup)
             r == Ranks(od, popup)
  <2>1. ASSUME NEW k \in 1 .. Len(g), g[k] # {}
        PROVE  FALSE
    <3>1. /\ g \in Seq(SUBSET FcRanked) /\ LayerRanks(od) \in Seq(SUBSET FcRanked)
          /\ FocusOn("overlay", od) \in SUBSET FcRanked /\ r \in Seq(SUBSET FcRanked)
      BY RankTypes, Ranked, Zenon
    <3>2. Len(g) <= Len(r) /\ \A i \in 1 .. Len(g) : r[i] = g[i]
      <4> HIDE DEF g
      <4> QED
        BY <3>1, SMTT(60) DEF r, Ranks, g
    <3>3. k \in 1 .. Len(r) /\ r[k] # {} /\ Len(g) \in Nat
      <4>1. r[k] # {}
        BY <2>1, <3>2, ZenonT(60)
      <4> HIDE DEF r, g
      <4>2. Len(r) \in Nat /\ Len(g) \in Nat
        BY <3>1, SMTT(30)
      <4>3. k \in 1 .. Len(r)
        BY <2>1, <3>2, <4>2, SMTT(30)
      <4> QED
        BY <4>1, <4>2, <4>3, ZenonT(60)
    <3>4. PICK i \in 1 .. k : FirstOf(r) \in r[i]
      <4> HIDE DEF r, g
      <4> QED
        BY <3>1, <3>3, FirstOffered, ZenonT(60)
    <3>5. FirstOf(r) \in g[i] /\ i \in 1 .. Len(g)
      BY <3>2, <3>3, <3>4, SMTT(30)
    <3>6. FirstOf(r).surface = popup.root
      BY <3>5, GrabOffers, ZenonT(60)
    <3> QED
      BY <1>2, <3>6, Ranked, ZenonT(60)
  <2>2. GrabRanks(popup) = GrabRanks(NoGrab)
    BY <2>1, GrabOffers, ZenonT(60)
  <2>3. Ranks(od, NoGrab) = Ranks(od, popup)
    BY <2>2, Zenon DEF Ranks
  <2> QED
    BY <1>2, <2>3, Ranked, ZenonT(60)
<1> QED
  BY <1>1, <1>2, ZenonT(60)

-----------------------------------------------------------------------------
\* The keyboard focus before any client.
LEMMA FcInitInv ==
    ASSUME FcInit
    PROVE  FcInv
<1>1. FcTypes
  BY Zenon DEF FcInit, FcTypes, FcLayerStates, FcKbds, FcGrabs, Kbd, NoGrab
<1>2. FcNone \notin FcLayers
  BY FcAssumption, Zenon DEF FcInit, FcLayers
<1>3. \A layer : GrabOn(fcGrab, layer) = {} /\ FocusOn(layer, FcNone) = {} /\ OnDemandOn(layer, FcNone) = {} /\ ExclusiveOn(layer) = {}
  BY <1>2, Zenon DEF FcInit, GrabOn, FocusOn, OnDemandOn, ExclusiveOn, NoGrab
<1>4. layout_focus = {}
  BY Zenon DEF FcInit, layout_focus
<1>5. GrabRanks(fcGrab) = <<{}, {}, {}, {}>>
  BY <1>3, Zenon DEF GrabRanks, GrabBelow, FcInit
<1>6. LayerRanks(FcNone) = <<{}, {}, {}, {}, {}, {}, {}>>
  BY <1>3, <1>4, Zenon DEF LayerRanks, overview_focus, FcInit
<1>7. \A i \in 1 .. Len(Ranks(FcNone, fcGrab)) : Ranks(FcNone, fcGrab)[i] = {}
  BY <1>3, <1>5, <1>6, SMTT(30) DEF Ranks
<1>8. FirstOf(Ranks(FcNone, fcGrab)) = Kbd("layout", FcNone)
  BY <1>7, NoneOffered, Zenon
<1>9. NoUi
  BY Zenon DEF FcInit, NoUi
<1>10. fcKbd = ComputedFocus(FcNone, fcGrab)
  BY <1>1, <1>8, <1>9, Ranked, ZenonT(60) DEF FcInit
<1>11. Settled
  BY <1>10, Zenon DEF Settled, FcInit, refresh_popup_grab, NoGrab
<1>12. LayoutsStored /\ LayoutComesBack /\ LockKeepsKeyboard
  BY Zenon DEF FcInit, LayoutsStored, LayoutComesBack, LockKeepsKeyboard, Kbd
<1> QED
  BY <1>1, <1>11, <1>12, ZenonT(60) DEF FcInv, FcInit

\* State::refresh.
LEMMA RefreshFocus ==
    ASSUME FcInv, Refresh
    PROVE  FcInv'
<1> DEFINE od == IF OnDemandGood THEN fcOnDemand ELSE FcNone
           popup == refresh_popup_grab
           focus == ComputedFocus(od, popup)
<1>0. FcTypes
  BY Zenon DEF FcInv
<1>1. /\ fcGrab' = GrabAfter(popup, focus)
      /\ fcSaved' = IF fcKbd = focus THEN fcSaved ELSE SavedAfter(focus)
      /\ fcXkb' = IF fcKbd = focus \/ focus.surface = FcNone THEN fcXkb ELSE fcSaved'[focus.surface]
      /\ fcKbd' = focus /\ fcOnDemand' = od
      /\ UNCHANGED <<fcLayer, fcWin, fcUi, fcUsed, fcProfile>>
  BY Zenon DEF Refresh, update_keyboard_focus
<1>2. od \in FcLayers \cup {FcNone} /\ popup \in FcGrabs /\ NoGrab \in FcGrabs /\ fcGrab' \in {popup, NoGrab}
  BY <1>0, <1>1, ZenonT(60) DEF FcTypes, refresh_popup_grab, NoGrab, FcGrabs, GrabAfter
<1>3. focus \in FcKbds /\ (focus.kind = "lock" => "locked" \in fcUi /\ focus.surface = "lock")
  BY <1>0, Ranked, Zenon
<1>4. ComputedFocus(od, fcGrab') = focus
  <2>1. CASE fcGrab' = popup
    BY <2>1, Zenon
  <2>2. CASE fcGrab' # popup
    <3>1. fcGrab' = NoGrab /\ popup.root # focus.surface
      BY <1>1, <2>2, ZenonT(60) DEF GrabAfter
    <3> QED
      BY <1>0, <3>1, DroppedGrab, ZenonT(60)
  <2> QED
    BY <2>1, <2>2, Zenon
<1>5. Settled'
  <2>1. refresh_popup_grab' = fcGrab'
    BY <1>1, <1>2, ZenonT(60) DEF refresh_popup_grab, NoGrab
  <2>2. (fcOnDemand # FcNone => OnDemandGood)'
    BY <1>1, Zenon DEF OnDemandGood, place_within_backdrop, Layer
  <2>3. PICK x, y : x = fcOnDemand' /\ y = fcGrab'
    BY Zenon
  <2>4. ComputedFocus(fcOnDemand, fcGrab)' = ComputedFocus(x, y)'
    BY <2>3, Zenon
  <2>5. ComputedFocus(x, y)' = ComputedFocus(x, y)
    BY <1>1, SameFocus, Zenon
  <2>6. ComputedFocus(x, y) = focus
    BY <1>1, <1>4, <2>3, ZenonT(60)
  <2> QED
    BY <1>1, <2>1, <2>2, <2>4, <2>5, <2>6, ZenonT(60) DEF Settled
<1> HIDE DEF od, popup, focus
<1>6. fcSaved' \in [FcSurfaces -> {0, 1}] /\ fcXkb' \in {0, 1}
  <2>1. fcSaved' \in [FcSurfaces -> {0, 1}]
    BY <1>0, <1>1, <1>3, ZenonT(60) DEF SavedAfter, FcTypes, FcKbds
  <2>2. focus.surface \in FcSurfaces \cup {FcNone}
    BY <1>3, Zenon DEF FcKbds
  <2> QED
    BY <1>0, <1>1, <2>1, <2>2, ZenonT(60) DEF FcTypes
<1>7. FcTypes'
  BY <1>0, <1>1, <1>2, <1>3, <1>6, ZenonT(60) DEF FcTypes, FcLayers, FcWin, FcSurfaces, FcKbds, FcGrabs
<1>8. LayoutsStored' /\ LayoutComesBack'
  <2>1. CASE fcKbd = focus
    BY <1>1, <2>1, ZenonT(60) DEF FcInv, LayoutsStored, LayoutComesBack, FcSurfaces, FcWin, FcLayers
  <2>2. CASE fcKbd # focus
    <3>1. \A s \in FcSurfaces : fcSaved'[s] = fcUsed[s]
      <4>1. fcKbd.surface \in FcSurfaces \cup {FcNone} /\ fcSaved \in [FcSurfaces -> {0, 1}]
        BY <1>0, Zenon DEF FcTypes, FcKbds
      <4>2. fcSaved' = SavedAfter(focus)
        BY <1>1, <2>2, Zenon
      <4> QED
        BY <4>1, <4>2, FcAssumption DEF SavedAfter, FcInv, FcTypes, LayoutsStored, LayoutComesBack, FcSurfaces, FcWin, FcLayers
    <3>2. focus.surface \in FcSurfaces \cup {FcNone}
      BY <1>3, Zenon DEF FcKbds
    <3> QED
      BY <1>1, <2>2, <3>1, <3>2, ZenonT(60) DEF LayoutsStored, LayoutComesBack, FcSurfaces, FcWin, FcLayers
  <2> QED
    BY <2>1, <2>2, Zenon
<1>9. LockKeepsKeyboard'
  <2> SUFFICES ASSUME "locked" \in fcUi, focus.kind = "lock", fcGrab'.kbd
               PROVE  fcGrab'.root = "lock"
    BY <1>1, Zenon DEF LockKeepsKeyboard
  <2>1. fcGrab' = popup /\ popup = fcGrab
    BY <1>1, Zenon DEF GrabAfter, NoGrab, popup, refresh_popup_grab
  <2>2. CASE fcKbd = focus
    BY <2>1, <2>2, Zenon DEF FcInv, LockKeepsKeyboard
  <2>3. CASE fcKbd # focus
    BY <1>1, <1>3, <2>1, <2>3, SMTT(30) DEF GrabAfter, NoGrab
  <2> QED
    BY <2>2, <2>3, Zenon
<1> QED
  BY <1>5, <1>7, <1>8, <1>9, ZenonT(60) DEF FcInv, Refresh

\* Layer surfaces, clicks, windows: what only the next refresh looks at.
LEMMA EventFocus ==
    ASSUME FcInv, UNCHANGED <<fcKbd, fcXkb, fcSaved, fcUsed, fcProfile>>, fcFresh' = FALSE,
           fcLayer' \in [FcLayers -> FcLayerStates], fcWin' \in FcWin \cup {FcNone},
           fcOnDemand' \in FcLayers \cup {FcNone}, fcGrab' \in FcGrabs, LockKeepsKeyboard'
    PROVE  FcInv'
  BY ZenonT(60) DEF FcInv, FcTypes, LayoutsStored, LayoutComesBack, FcSurfaces, FcWin, FcLayers, FcKbds, FcGrabs

\* Every step of the keyboard focus keeps the invariant.
LEMMA FcStepInv == FcInv /\ [FcNext]_fcVars => FcInv'
<1> SUFFICES ASSUME FcInv, [FcNext]_fcVars
             PROVE  FcInv'
  BY Zenon
<1>0. FcTypes /\ LockKeepsKeyboard
  BY Zenon DEF FcInv
<1>1. CASE Refresh
  BY <1>1, RefreshFocus, Zenon
<1>2. ASSUME NEW l \in FcLayers, NEW i \in {"none", "exclusive", "ondemand"}, LayerCommit(l, i)
      PROVE  FcInv'
  <2>1. fcLayer' \in [FcLayers -> FcLayerStates] /\ fcOnDemand' \in FcLayers \cup {FcNone}
    <3>1. fcLayer' = [fcLayer EXCEPT ![l].up = TRUE, ![l].inter = i] /\ fcLayer \in [FcLayers -> FcLayerStates]
      BY <1>0, <1>2, Zenon DEF LayerCommit, FcTypes
    <3>2. fcLayer' \in [FcLayers -> FcLayerStates]
      BY <3>1, ZenonT(60) DEF FcLayerStates
    <3>3. fcOnDemand' \in FcLayers \cup {FcNone}
      BY <1>0, <1>2, Zenon DEF LayerCommit, FcTypes
    <3> QED
      BY <3>2, <3>3, Zenon
  <2> QED
    BY <1>0, <1>2, <2>1, EventFocus, Zenon DEF LayerCommit, Stale, FcTypes, LockKeepsKeyboard
<1>3. ASSUME NEW l \in FcLayers, LayerUnmap(l)
      PROVE  FcInv'
  <2>1. fcGrab' \in FcGrabs /\ fcGrab'.kbd = fcGrab.kbd /\ fcGrab'.root = fcGrab.root
    BY <1>0, <1>3, ZenonT(60) DEF LayerUnmap, FcTypes, FcGrabs
  <2>2. fcLayer' \in [FcLayers -> FcLayerStates]
    BY <1>0, <1>3, ZenonT(60) DEF LayerUnmap, FcTypes, FcLayerStates
  <2> QED
    BY <1>0, <1>3, <2>1, <2>2, EventFocus, Zenon DEF LayerUnmap, Stale, FcTypes, LockKeepsKeyboard
<1>4. ASSUME NEW l \in FcLayers, recompute_layer_rules(l)
      PROVE  FcInv'
  BY <1>0, <1>4, EventFocus, ZenonT(60) DEF recompute_layer_rules, Stale, FcTypes, FcLayerStates, LockKeepsKeyboard
<1>5. ASSUME NEW l \in FcLayers \cup {FcNone}, focus_layer_surface_if_on_demand(l)
      PROVE  FcInv'
  BY <1>0, <1>5, EventFocus, ZenonT(60) DEF focus_layer_surface_if_on_demand, Stale, FcTypes, LockKeepsKeyboard
<1>6. ASSUME NEW l \in FcLayers, handle_focus_follows_mouse(l)
      PROVE  FcInv'
  BY <1>0, <1>6, EventFocus, ZenonT(60) DEF handle_focus_follows_mouse, Stale, FcTypes, LockKeepsKeyboard
<1>7. ASSUME NEW w \in FcWin \cup {FcNone}, NEW a \in BOOLEAN, FocusWindow(w, a)
      PROVE  FcInv'
  BY <1>0, <1>7, EventFocus, ZenonT(60) DEF FocusWindow, Stale, FcTypes, LockKeepsKeyboard
<1>8. ASSUME NEW r \in FcSurfaces, grab(r)
      PROVE  FcInv'
  <2>1. fcGrab' \in FcGrabs /\ fcGrab'.root = r
    BY <1>0, <1>8, ZenonT(60) DEF grab, FcTypes, FcGrabs
  <2>2. "locked" \in fcUi => r = "lock"
    BY <1>8, Zenon DEF grab, GrabAllowed
  <2> QED
    BY <1>0, <1>8, <2>1, <2>2, EventFocus, ZenonT(60) DEF grab, Stale, FcTypes, LockKeepsKeyboard
<1>9. CASE PopupGone
  <2>1. fcGrab' \in FcGrabs /\ fcGrab'.kbd = fcGrab.kbd /\ fcGrab'.root = fcGrab.root
    BY <1>0, <1>9, ZenonT(60) DEF PopupGone, FcTypes, FcGrabs
  <2> QED
    BY <1>0, <1>9, <2>1, EventFocus, ZenonT(60) DEF PopupGone, Stale, FcTypes, LockKeepsKeyboard
<1>10. ASSUME NEW u, ToggleUi(u)
       PROVE  FcInv'
  <2>1. "locked" \in fcUi' /\ fcKbd.kind = "lock" => "locked" \in fcUi
    BY <1>10, Zenon DEF ToggleUi
  <2> QED
    BY <1>0, <1>10, <2>1, EventFocus, ZenonT(60) DEF ToggleUi, Stale, FcTypes, LockKeepsKeyboard
<1>11. CASE SwitchLayout
  <2>0. UNCHANGED <<fcLayer, fcWin, fcOnDemand, fcUi, fcKbd, fcGrab, fcSaved, fcProfile>> /\ fcFresh' = FALSE
    BY <1>11, ZenonT(60) DEF SwitchLayout, Stale
  <2>1. fcXkb' \in {0, 1} /\ fcUsed' \in [FcSurfaces -> {0, 1}]
    BY <1>0, <1>11 DEF SwitchLayout, FcTypes, FcKbds
  <2>2. LayoutsStored' /\ LayoutComesBack'
    BY <1>0, <1>11, Zenon DEF SwitchLayout, FcInv, FcTypes, FcKbds, LayoutsStored, LayoutComesBack, FcSurfaces, FcWin, FcLayers
  <2>3. FcTypes'
    BY <1>0, <2>0, <2>1, ZenonT(60) DEF FcTypes, FcSurfaces, FcWin, FcLayers, FcKbds, FcGrabs
  <2>4. LockKeepsKeyboard'
    BY <1>0, <2>0, Zenon DEF LockKeepsKeyboard
  <2> QED
    BY <2>0, <2>2, <2>3, <2>4, ZenonT(60) DEF FcInv
<1>12. CASE UNCHANGED fcVars
  <2>1. FcTypes' /\ LayoutsStored' /\ LayoutComesBack' /\ LockKeepsKeyboard' /\ fcFresh' = fcFresh
    <3>1. /\ fcProfile' = fcProfile /\ fcLayer' = fcLayer /\ fcWin' = fcWin /\ fcOnDemand' = fcOnDemand /\ fcKbd' = fcKbd
          /\ fcGrab' = fcGrab /\ fcXkb' = fcXkb /\ fcSaved' = fcSaved /\ fcUsed' = fcUsed /\ fcUi' = fcUi /\ fcFresh' = fcFresh
      BY <1>12, ZenonT(60) DEF fcVars
    <3>2. FcSurfaces' = FcSurfaces /\ FcWin' = FcWin /\ FcLayers' = FcLayers
      BY <3>1, ZenonT(60) DEF FcSurfaces, FcWin, FcLayers
    <3>3. FcKbds' = FcKbds /\ FcGrabs' = FcGrabs
      BY <3>2, Zenon DEF FcKbds, FcGrabs
    <3>4. FcTypes'
      BY <3>1, <3>2, <3>3, ZenonT(60) DEF FcInv, FcTypes, FcLayerStates
    <3>5. LayoutsStored' /\ LayoutComesBack' /\ LockKeepsKeyboard'
      BY <3>1, <3>2, ZenonT(60) DEF FcInv, LayoutsStored, LayoutComesBack, LockKeepsKeyboard
    <3> QED
      BY <3>1, <3>4, <3>5, Zenon
  <2>2. ASSUME Settled
        PROVE  Settled'
    <3>1. PICK x, y : x = fcOnDemand /\ y = fcGrab
      BY Zenon
    <3>2. ComputedFocus(fcOnDemand, fcGrab)' = ComputedFocus(x, y)'
      BY <1>12, <3>1, ZenonT(60) DEF fcVars
    <3>3. ComputedFocus(x, y)' = ComputedFocus(x, y)
      BY <1>12, SameFocus, Zenon DEF fcVars
    <3>4. refresh_popup_grab' = fcGrab' /\ (fcOnDemand # FcNone => OnDemandGood)'
      BY <1>12, <2>2, ZenonT(60) DEF fcVars, Settled, refresh_popup_grab, OnDemandGood, place_within_backdrop, Layer
    <3> QED
      BY <1>12, <2>2, <3>1, <3>2, <3>3, <3>4, ZenonT(60) DEF fcVars, Settled
  <2> QED
    BY <2>1, <2>2, Zenon DEF FcInv
<1> QED
  BY <1>1, <1>2, <1>3, <1>4, <1>5, <1>6, <1>7, <1>8, <1>9, <1>10, <1>11, <1>12, Zenon DEF FcNext

\* The invariant of the keyboard focus holds in every reachable state.
THEOREM FcInductive == FcSpec => []FcInv
<1>1. FcInit => FcInv
  BY FcInitInv, Zenon
<1> QED
  BY <1>1, FcStepInv, PTL DEF FcSpec

\* One refresh settles the focus: a second one changes nothing, for any windows and layers.
THEOREM RefreshIsIdempotent == FcSpec => RefreshSettles
<1> DEFINE A == (fcFresh /\ fcFresh') => UNCHANGED fcVars
<1>1. FcInv /\ [FcNext]_fcVars => [A]_fcVars
  <2> SUFFICES ASSUME FcInv, FcNext, fcFresh, fcFresh'
               PROVE  UNCHANGED fcVars
    BY Zenon
  <2>1. Refresh
    BY ZenonT(60) DEF FcNext, LayerCommit, LayerUnmap, recompute_layer_rules, focus_layer_surface_if_on_demand, handle_focus_follows_mouse,
       FocusWindow, grab, PopupGone, ToggleUi, SwitchLayout, Stale
  <2>2. Settled
    BY Zenon DEF FcInv
  <2>3. (IF OnDemandGood THEN fcOnDemand ELSE FcNone) = fcOnDemand
    BY <2>2, ZenonT(60) DEF Settled
  <2>4. update_keyboard_focus(fcOnDemand, fcGrab)
    BY <2>1, <2>2, <2>3, ZenonT(60) DEF Refresh, Settled
  <2>5. UNCHANGED <<fcGrab, fcSaved, fcXkb, fcKbd, fcOnDemand>>
    BY <2>2, <2>4, ZenonT(60) DEF update_keyboard_focus, GrabAfter, Settled
  <2>6. UNCHANGED <<fcLayer, fcWin, fcUi, fcUsed, fcProfile>> /\ fcFresh' = TRUE
    BY <2>1, Zenon DEF Refresh
  <2>7. fcFresh' = fcFresh
    BY <2>6, ZenonT(60) DEF FcInv
  <2> QED
    BY <2>5, <2>6, <2>7, ZenonT(60) DEF fcVars
<1> QED
  BY <1>1, FcInductive, PTL DEF FcSpec, RefreshSettles

\* A surface that gets the focus back has the layout it was last used with.
THEOREM LayoutsComeBack == FcSpec => []LayoutComesBack
<1>1. FcInv => LayoutComesBack
  BY ZenonT(60) DEF FcInv
<1> QED
  BY <1>1, FcInductive, PTL

\* Once the lock screen has the focus no popup of an application holds the keyboard.
THEOREM LockedPopupsReleased == FcSpec => []LockedPopupsLoseKeyboard
<1>1. FcInv => LockedPopupsLoseKeyboard
  BY Ranked DEF FcInv, Settled, LockKeepsKeyboard, LockedPopupsLoseKeyboard
<1> QED
  BY <1>1, FcInductive, PTL

=============================================================================
