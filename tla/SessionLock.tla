---------------------------- MODULE SessionLock ----------------------------
(***************************************************************************)
(* The session-lock protocol of Niri (src/src/niri.rs): the LockState      *)
(* machine, the per-output lock_render_state, redraw_state and             *)
(* lock_surface, the lock-surface deadline timer, output hotplug, and the  *)
(* two overlays (screenshot UI, recent-windows UI) that locking closes.    *)
(*                                                                         *)
(* The compositor is one thread.  An iteration of its loop dispatches      *)
(* events (one action each while phase = "dispatch") and then redraws      *)
(* every queued output, nothing else running in between (phase =           *)
(* "redraw").                                                              *)
(*                                                                         *)
(* A locker is one client together with its ext_session_lock object; the   *)
(* object's life (obj) is kept by smithay and modelled from how the        *)
(* handlers use it.  shown is what an output's framebuffer holds: it is    *)
(* not a variable of the program but what its bookkeeping is about.        *)
(***************************************************************************)
EXTENDS Naturals, FiniteSets

CONSTANTS
    Outputs,        \* the outputs that can be connected
    Lockers,        \* the clients that can ask for a lock
    None,           \* no locker, no lock surface, no output
    RenderResults   \* the results Backend::render can give

VARIABLES
    outputs,        \* keys of Niri::output_state
    monitorsActive, \* Niri::monitors_active
    lockState,      \* Niri::lock_state, its tag
    holder,         \* the locker whose lock object lock_state carries
    deadline,       \* is the lock-surface deadline timer registered
    redrawState,    \* OutputState::redraw_state
    lockRender,     \* OutputState::lock_render_state
    lockSurface,    \* OutputState::lock_surface
    screenshotOpen, \* ScreenshotUi::is_open
    mruOutput,      \* WindowMruUi::output, None when it is not open
    obj,            \* what each locker's lock object was told
    shown,          \* what each output shows
    phase           \* where the event loop is

lockVars == <<lockState, holder, deadline>>
outVars  == <<outputs, redrawState, lockRender, lockSurface, shown>>
uiVars   == <<screenshotOpen, mruOutput>>
vars     == <<lockVars, outVars, uiVars, monitorsActive, obj, phase>>

LockStates == {"Unlocked", "WaitingForSurfaces", "Locking", "Locked"}
Frames     == {"nothing", "session", "lock"}
Surfaces   == [owner : Lockers, state : {"unmapped", "mapped", "dead"}]
LiveSurfaces(l) == [owner : {l}, state : {"unmapped", "mapped"}]

ASSUME NoneAssumption == None \notin Lockers /\ None \notin Outputs /\ None \notin Surfaces
ASSUME RenderResultsAssumption == RenderResults \subseteq {"Submitted", "NoDamage", "Skipped"}

\* The type of the state.  A redraw state is only ever Idle or Queued: no
\* compiled backend would end a wait for a vertical blank.
TypeOK ==
    /\ outputs \subseteq Outputs
    /\ monitorsActive \in BOOLEAN
    /\ lockState \in LockStates
    /\ holder \in Lockers \cup {None}
    /\ deadline \in BOOLEAN
    /\ redrawState \in [Outputs -> {"Idle", "Queued"}]
    /\ lockRender \in [Outputs -> {"Unlocked", "Locked"}]
    /\ lockSurface \in [Outputs -> Surfaces \cup {None}]
    /\ screenshotOpen \in BOOLEAN
    /\ mruOutput \in Outputs \cup {None}
    /\ obj \in [Lockers -> {"free", "pending", "locked", "finished"}]
    /\ shown \in [Outputs -> Frames]
    /\ phase \in {"dispatch", "redraw"}

Init ==
    /\ outputs = {}
    /\ monitorsActive = TRUE
    /\ lockState = "Unlocked"
    /\ holder = None
    /\ deadline = FALSE
    /\ redrawState = [o \in Outputs |-> "Idle"]
    /\ lockRender = [o \in Outputs |-> "Unlocked"]
    /\ lockSurface = [o \in Outputs |-> None]
    /\ screenshotOpen = FALSE
    /\ mruOutput = None
    /\ obj = [l \in Lockers |-> "free"]
    /\ shown = [o \in Outputs |-> "nothing"]
    /\ phase = "dispatch"

-----------------------------------------------------------------------------
IsLocked == lockState \in {"Locking", "Locked"}

\* RedrawState::queue_redraw for the two states the compiled backends (winit,
\* headless) produce, applied to the outputs in S.
QueueRedraw(S) == [o \in Outputs |-> IF o \in S THEN "Queued" ELSE redrawState[o]]

\* Niri::redraw ends with the output idle, whatever the render's result.
RedrawDone_StaysQueued(o) == redrawState
RedrawDone(o) == [redrawState EXCEPT ![o] = "Idle"]

\* The lock_render_state of an output nothing was rendered on yet.
NewLockRender_Unlocked == "Unlocked"
NewLockRender == IF IsLocked THEN "Locked" ELSE "Unlocked"

\* A lock state that was taken out and is put back as it was.
KeepLockState_Lost == lockState' = "Unlocked" /\ holder' = None
KeepLockState == UNCHANGED <<lockState, holder>>

\* lock() refuses: another client is locking, or holds the lock and is alive.
RefusesLock ==
    \/ lockState \in {"WaitingForSurfaces", "Locking"}
    \/ lockState = "Locked" /\ obj[holder] # "free"

\* lock() registers the deadline timer.
ArmDeadline_Forgotten == deadline' = FALSE
ArmDeadline == deadline' = TRUE

\* Are the lock surfaces of every output in S mapped?
SurfacesReady(S, surf) == \A o \in S : surf[o] # None /\ surf[o].state = "mapped"

\* confirmation.lock(): smithay sends `locked`, if the object still exists.
Confirm(l) == obj' = [obj EXCEPT ![l] = IF @ = "pending" THEN "locked" ELSE @]

\* The confirmation is dropped: smithay sends `finished`.
Refuse(l) == obj' = [obj EXCEPT ![l] = IF @ = "pending" THEN "finished" ELSE @]

\* continue_to_locking() with S the outputs that are connected.
ContinueToLocking(S) ==
    /\ deadline' = FALSE
    /\ screenshotOpen' = FALSE
    /\ mruOutput' = None
    /\ holder' = holder
    /\ redrawState' = QueueRedraw(S)
    /\ IF S = {}
       THEN lockState' = "Locked" /\ Confirm(holder)
       ELSE lockState' = "Locking" /\ UNCHANGED obj

-----------------------------------------------------------------------------
\* A client asks for the lock.
Lock(l) ==
    /\ phase = "dispatch"
    /\ obj[l] = "free" /\ l # holder
    /\ \/ /\ RefusesLock
          /\ obj' = [obj EXCEPT ![l] = "finished"]
          /\ UNCHANGED <<lockVars, screenshotOpen>>
       \/ /\ lockState = "Locked" /\ ~RefusesLock
          /\ obj' = [obj EXCEPT ![l] = "locked"]
          /\ holder' = l
          /\ UNCHANGED <<lockState, deadline, screenshotOpen>>
       \/ /\ lockState = "Unlocked" /\ outputs = {}
          /\ obj' = [obj EXCEPT ![l] = "locked"]
          /\ holder' = l
          /\ lockState' = "Locked"
          /\ screenshotOpen' = FALSE
          /\ UNCHANGED deadline
       \/ /\ lockState = "Unlocked" /\ outputs # {}
          /\ obj' = [obj EXCEPT ![l] = "pending"]
          /\ holder' = l
          /\ lockState' = "WaitingForSurfaces"
          /\ ArmDeadline
          /\ UNCHANGED screenshotOpen
    /\ UNCHANGED <<outVars, mruOutput, monitorsActive, phase>>

\* The holder's client creates its lock surface for an output.
NewLockSurface(l, o) ==
    /\ phase = "dispatch"
    /\ obj[l] # "free"
    /\ lockState # "Unlocked"
    /\ holder = l
    /\ o \in outputs
    /\ lockSurface[o] \notin LiveSurfaces(l)
    /\ lockSurface' = [lockSurface EXCEPT ![o] = [owner |-> l, state |-> "unmapped"]]
    /\ UNCHANGED <<outputs, redrawState, lockRender, shown, lockVars, uiVars,
                   monitorsActive, obj, phase>>

\* A client commits a buffer to the lock surface of an output.
CommitLockSurface(o) ==
    /\ phase = "dispatch"
    /\ o \in outputs
    /\ lockSurface[o] # None /\ lockSurface[o].state # "dead"
    /\ lockSurface' = [lockSurface EXCEPT ![o].state = "mapped"]
    /\ \/ /\ lockState = "WaitingForSurfaces"
          /\ SurfacesReady(outputs, lockSurface')
          /\ ContinueToLocking(outputs)
       \/ /\ lockState = "WaitingForSurfaces"
          /\ ~SurfacesReady(outputs, lockSurface')
          /\ UNCHANGED <<lockVars, uiVars, redrawState, obj>>
       \/ /\ lockState # "WaitingForSurfaces"
          /\ redrawState' = QueueRedraw({o})
          /\ UNCHANGED <<lockVars, uiVars, obj>>
    /\ UNCHANGED <<outputs, lockRender, shown, monitorsActive, phase>>

\* The lock-surface deadline timer fires.
DeadlineExpires ==
    /\ phase = "dispatch"
    /\ deadline
    /\ IF lockState = "WaitingForSurfaces"
       THEN ContinueToLocking(outputs)
       ELSE /\ deadline' = FALSE    \* the "wrong lock state" error path
            /\ UNCHANGED <<lockState, holder, uiVars, redrawState, obj>>
    /\ UNCHANGED <<outputs, lockRender, lockSurface, shown, monitorsActive, phase>>

\* The locked client unlocks the session: SessionLockHandler::unlock, with
\* Niri::unlock and activate_monitors.
Unlock(l) ==
    /\ phase = "dispatch"
    /\ obj[l] = "locked"
    /\ obj' = [obj EXCEPT ![l] = "free"]
    /\ lockState' = "Unlocked"
    /\ holder' = None
    /\ deadline' = (deadline /\ lockState # "WaitingForSurfaces")
    /\ lockSurface' = [o \in Outputs |-> None]
    /\ redrawState' = QueueRedraw(outputs)
    /\ monitorsActive' = TRUE
    /\ UNCHANGED <<outputs, lockRender, shown, uiVars, phase>>

\* A client destroys a lock object that never became locked.
DestroyLock(l) ==
    /\ phase = "dispatch"
    /\ obj[l] \in {"pending", "finished"}
    /\ obj' = [obj EXCEPT ![l] = "free"]
    /\ UNCHANGED <<lockVars, outVars, uiVars, monitorsActive, phase>>

\* A client dies: its lock object and its surfaces go with it.
ClientDies(l) ==
    /\ phase = "dispatch"
    /\ \/ obj[l] # "free"
       \/ \E o \in outputs : lockSurface[o] \in LiveSurfaces(l)
    /\ obj' = [obj EXCEPT ![l] = "free"]
    /\ lockSurface' = [o \in Outputs |->
            IF lockSurface[o] # None /\ lockSurface[o].owner = l
            THEN [owner |-> l, state |-> "dead"] ELSE lockSurface[o]]
    /\ UNCHANGED <<outputs, redrawState, lockRender, shown, lockVars, uiVars,
                   monitorsActive, phase>>

-----------------------------------------------------------------------------
\* Niri::add_output.  A new output has shown nothing, so while the session is
\* locked it is as good as locked.  reposition_outputs queues a redraw of the
\* new output and of every output it moves.
AddOutput(o, moved) ==
    /\ phase = "dispatch"
    /\ o \notin outputs /\ moved \subseteq outputs
    /\ outputs' = outputs \cup {o}
    /\ lockRender' = [lockRender EXCEPT ![o] = NewLockRender]
    /\ lockSurface' = [lockSurface EXCEPT ![o] = None]
    /\ shown' = [shown EXCEPT ![o] = "nothing"]
    /\ redrawState' = QueueRedraw(moved \cup {o})
    /\ UNCHANGED <<lockVars, uiVars, monitorsActive, obj, phase>>

\* Niri::remove_output: the output's state is dropped, then the lock state is
\* looked at again, then the overlays are closed.
RemoveOutput(o, moved) ==
    /\ phase = "dispatch"
    /\ o \in outputs /\ moved \subseteq outputs \ {o}
    /\ LET rest == outputs \ {o}
           again == IF screenshotOpen \/ mruOutput = o THEN rest ELSE moved IN
       /\ outputs' = rest
       /\ lockRender' = [lockRender EXCEPT ![o] = "Unlocked"]
       /\ lockSurface' = [lockSurface EXCEPT ![o] = None]
       /\ shown' = [shown EXCEPT ![o] = "nothing"]
       /\ \/ /\ lockState = "Locking"
             /\ IF \A p \in rest : lockRender[p] = "Locked"
                THEN lockState' = "Locked" /\ Confirm(holder)
                ELSE UNCHANGED <<lockState, obj>>
             /\ redrawState' = [QueueRedraw(again) EXCEPT ![o] = "Idle"]
             /\ UNCHANGED <<holder, deadline>>
          \/ /\ lockState = "WaitingForSurfaces" /\ SurfacesReady(rest, lockSurface)
             /\ deadline' = FALSE
             /\ IF rest = {}
                THEN lockState' = "Locked" /\ Confirm(holder)
                ELSE lockState' = "Locking" /\ UNCHANGED obj
             /\ redrawState' = [QueueRedraw(rest) EXCEPT ![o] = "Idle"]
             /\ UNCHANGED holder
          \/ /\ \/ lockState \in {"Unlocked", "Locked"}
                \/ lockState = "WaitingForSurfaces" /\ ~SurfacesReady(rest, lockSurface)
             /\ redrawState' = [QueueRedraw(again) EXCEPT ![o] = "Idle"]
             /\ KeepLockState
             /\ UNCHANGED <<deadline, obj>>
    /\ screenshotOpen' = FALSE
    /\ mruOutput' = IF mruOutput = o \/ (lockState = "WaitingForSurfaces" /\ lockState' # lockState)
                    THEN None ELSE mruOutput
    /\ UNCHANGED <<monitorsActive, phase>>

\* Something to draw on an output: a surface commit, an animation, the
\* windowing system's own redraw request.
DamageOutput(o) ==
    /\ phase = "dispatch"
    /\ o \in outputs
    /\ redrawState' = QueueRedraw({o})
    /\ UNCHANGED <<outputs, lockRender, lockSurface, shown, lockVars, uiVars,
                   monitorsActive, obj, phase>>

DeactivateMonitors ==
    /\ phase = "dispatch"
    /\ monitorsActive
    /\ monitorsActive' = FALSE
    /\ UNCHANGED <<lockVars, outVars, uiVars, obj, phase>>

ActivateMonitors ==
    /\ phase = "dispatch"
    /\ ~monitorsActive
    /\ monitorsActive' = TRUE
    /\ redrawState' = QueueRedraw(outputs)
    /\ UNCHANGED <<outputs, lockRender, lockSurface, shown, lockVars, uiVars, obj, phase>>

OpenScreenshotUi ==
    /\ phase = "dispatch"
    /\ ~IsLocked /\ ~screenshotOpen
    /\ outputs # {}
    /\ screenshotOpen' = TRUE
    /\ redrawState' = QueueRedraw(outputs)
    /\ UNCHANGED <<outputs, lockRender, lockSurface, shown, lockVars, mruOutput,
                   monitorsActive, obj, phase>>

CloseScreenshotUi ==
    /\ phase = "dispatch"
    /\ screenshotOpen
    /\ screenshotOpen' = FALSE
    /\ redrawState' = QueueRedraw(outputs)
    /\ UNCHANGED <<outputs, lockRender, lockSurface, shown, lockVars, mruOutput,
                   monitorsActive, obj, phase>>

\* Action::MruAdvance on output o, the layout's active one, behind do_action's
\* check that the session is not locked.
OpenMru(o) ==
    /\ phase = "dispatch"
    /\ ~IsLocked /\ mruOutput = None
    /\ o \in outputs
    /\ mruOutput' = o
    /\ redrawState' = QueueRedraw(outputs)
    /\ UNCHANGED <<outputs, lockRender, lockSurface, shown, lockVars, screenshotOpen,
                   monitorsActive, obj, phase>>

\* confirm_mru() or cancel_mru().
CloseMru ==
    /\ phase = "dispatch"
    /\ mruOutput # None
    /\ mruOutput' = None
    /\ redrawState' = QueueRedraw(outputs)
    /\ UNCHANGED <<outputs, lockRender, lockSurface, shown, lockVars, screenshotOpen,
                   monitorsActive, obj, phase>>

-----------------------------------------------------------------------------
\* What Niri::render draws.
Frame == IF IsLocked THEN "lock" ELSE "session"

\* Backend::render: its result r and the frame f the output shows afterwards.
\* Winit::render answers Submitted also when rendering failed, and then
\* nothing was drawn.
Render(o, r, f) ==
    \/ r = "Submitted" /\ f \in {Frame, shown[o]}
    \/ r = "NoDamage" /\ f = Frame /\ shown[o] = Frame
    \/ r = "Skipped" /\ f = shown[o]

\* Niri::redraw of one queued output.
Redraw(o, r, f) ==
    /\ phase = "redraw"
    /\ o \in outputs /\ redrawState[o] = "Queued"
    /\ IF monitorsActive THEN r \in RenderResults /\ Render(o, r, f)
                         ELSE r = "Skipped" /\ f = shown[o]
    /\ shown' = [shown EXCEPT ![o] = f]
    /\ lockRender' = [lockRender EXCEPT ![o] =
            IF r = "Skipped" /\ monitorsActive THEN @
            ELSE IF IsLocked THEN "Locked" ELSE "Unlocked"]
    /\ \/ /\ lockState # "Locking"
          /\ redrawState' = RedrawDone(o)
          /\ KeepLockState
          /\ UNCHANGED <<lockSurface, obj>>
       \/ /\ lockState = "Locking" /\ lockRender'[o] = "Unlocked"
          /\ lockState' = "Unlocked" /\ holder' = None
          /\ Refuse(holder)
          /\ lockSurface' = [p \in Outputs |-> None]
          /\ redrawState' = QueueRedraw(outputs)
       \/ /\ lockState = "Locking" /\ lockRender'[o] = "Locked"
          /\ IF \A p \in outputs : lockRender'[p] = "Locked"
             THEN lockState' = "Locked" /\ Confirm(holder)
             ELSE UNCHANGED <<lockState, obj>>
          /\ redrawState' = RedrawDone(o)
          /\ UNCHANGED <<holder, lockSurface>>
    /\ UNCHANGED <<outputs, deadline, uiVars, monitorsActive, phase>>

BeginRedraw ==
    /\ phase = "dispatch"
    /\ phase' = "redraw"
    /\ UNCHANGED <<lockVars, outVars, uiVars, monitorsActive, obj>>

\* redraw_queued_outputs() returns once no output is queued.
EndRedraw ==
    /\ phase = "redraw"
    /\ \A o \in outputs : redrawState[o] # "Queued"
    /\ phase' = "dispatch"
    /\ UNCHANGED <<lockVars, outVars, uiVars, monitorsActive, obj>>

-----------------------------------------------------------------------------
RedrawSome == \E o \in Outputs, r \in {"Submitted", "NoDamage", "Skipped"}, f \in Frames :
                 Redraw(o, r, f)

Next ==
    \/ \E l \in Lockers : Lock(l)
    \/ \E l \in Lockers, o \in Outputs : NewLockSurface(l, o)
    \/ \E o \in Outputs : CommitLockSurface(o)
    \/ DeadlineExpires
    \/ \E l \in Lockers : Unlock(l)
    \/ \E l \in Lockers : DestroyLock(l)
    \/ \E l \in Lockers : ClientDies(l)
    \/ \E o \in Outputs, moved \in SUBSET Outputs : AddOutput(o, moved)
    \/ \E o \in Outputs, moved \in SUBSET Outputs : RemoveOutput(o, moved)
    \/ \E o \in Outputs : DamageOutput(o)
    \/ DeactivateMonitors
    \/ ActivateMonitors
    \/ OpenScreenshotUi
    \/ CloseScreenshotUi
    \/ \E o \in Outputs : OpenMru(o)
    \/ CloseMru
    \/ BeginRedraw
    \/ RedrawSome
    \/ EndRedraw

Spec == Init /\ [][Next]_vars

\* The event loop keeps running, a redraw pass draws what is queued, and every
\* dispatch runs the timers that are due: a timer that stays registered fires.
Fairness ==
    /\ WF_vars(BeginRedraw)
    /\ WF_vars(RedrawSome)
    /\ WF_vars(EndRedraw)
    /\ SF_vars(DeadlineExpires)

FairSpec == Spec /\ Fairness

-----------------------------------------------------------------------------
\* Once a client was told that the session is locked, every connected output
\* counts as having rendered a locked frame: the check of all_locked in
\* redraw() and remove_output(), and what lock() relies on when it replaces
\* the lock of a dead client ("we know that the outputs are blanked").
LockedOnlyWhenBlanked ==
    lockState = "Locked" => \A o \in outputs : lockRender[o] = "Locked"

\* Locking never gets stuck: every output that still has to render a locked
\* frame is queued for redraw, and some output is queued, so that redraw()
\* gets to its check of the lock state again.
LockingHasWorkQueued ==
    lockState = "Locking" =>
        /\ \E o \in outputs : redrawState[o] = "Queued"
        /\ \A o \in outputs : lockRender[o] = "Unlocked" => redrawState[o] = "Queued"

\* A client that was told `locked` and did not unlock is the one client whose
\* lock the session holds: lock() never gives the lock to a second client
\* while the first is alive, and nothing releases it behind the client's back.
LockedClientHoldsSession ==
    \A l \in Lockers : obj[l] = "locked" => lockState = "Locked" /\ holder = l

\* The deadline timer is registered exactly while lock surfaces are awaited:
\* the "called with wrong lock state" branch of continue_to_locking() is dead.
DeadlineOnlyWhileWaiting == deadline <=> lockState = "WaitingForSurfaces"

\* Neither the screenshot UI nor the recent-windows UI is open over a locked
\* session, although lock() without outputs closes only the first of them.
OverlaysClosedWhenLocked == IsLocked => ~screenshotOpen /\ mruOutput = None

\* A locked session is unlocked only by the live client holding the lock; not
\* by its death, not by a redraw, not by outputs coming and going.
OnlyHolderUnlocks ==
    [][lockState = "Locked" /\ lockState' # "Locked"
        => obj[holder] = "locked" /\ obj'[holder] = "free"]_vars

\* A lock request is answered: with `locked` or `finished`, unless the client
\* takes it back.  A client that never draws its lock surfaces, a failing
\* render and outputs coming and going do not delay it for ever.
LockRequestAnswered == \A l \in Lockers : obj[l] = "pending" ~> obj[l] # "pending"

\* The loop of redraw_queued_outputs() ends, although redraw() itself queues
\* redraws when it gives up locking.
RedrawPassEnds == phase = "redraw" ~> phase = "dispatch"

\* The comment in redraw(): "Update the lock render state on successful
\* render, or if monitors are inactive."  An output that goes on showing the
\* session's last frame has not been rendered.
LockRenderOnSuccessfulRender ==
    [][\A o \in outputs : lockRender[o] = "Unlocked" /\ lockRender'[o] = "Locked"
        => shown'[o] # "session" \/ ~monitorsActive]_vars

=============================================================================
