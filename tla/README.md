# macniri: a verification project

macniri is a port to macOS of niri, a scrollable-tiling Wayland compositor
written in Rust.  This directory holds TLA+ models of the parts of it whose
correctness depends on the order in which things happen: the TLC runs that
check them on small instances, and the TLAPS proofs that hold for any number of
outputs, windows, clients and so on.

All paths below are relative to the directory that holds `src/`; the crate's
own code is in `src/src/`.

## 1. The system and its parts

The compositor is one thread with an event loop.  An iteration dispatches
events (clients' requests, input, timers, channels), then refreshes
(`State::refresh`: focus, layout, configures, protocol state), then redraws the
outputs that are queued and flushes clients.  Nearly everything below runs in
that thread, so an interleaving is one of *callbacks*, not of memory accesses;
clients, the user, the hardware and timers decide their order.  The exceptions
are the D-Bus threads of a screencast session and the tasks of IPC clients,
which are modelled with their own steps.

| Part | Where | Module |
|---|---|---|
| Main loop on macOS | `utils/macos_runloop.rs`, `main.rs` | `RunLoop` |
| Session lock, redraw pass | `niri.rs`, `handlers/mod.rs` | `SessionLock` |
| Monitors and workspaces | `layout/mod.rs`, `layout/monitor.rs` | `Monitor`, `Layout` |
| One workspace: tiling and floating | `layout/scrolling.rs`, `layout/floating.rs`, `layout/workspace.rs` | `Scrolling`, `Floating`, `Workspace` |
| Resize transactions | `utils/transaction.rs`, `window/mapped.rs`, `handlers/xdg_shell.rs` | `Transaction` |
| Life of a window | `handlers/xdg_shell.rs`, `handlers/compositor.rs`, `window/` | `Toplevel` |
| Keyboard focus, layer surfaces | `niri.rs`, `handlers/layer_shell.rs` | `Focus` |
| Keys and key bindings | `input/mod.rs`, `backend/winit.rs` | `Keyboard` |
| Actions | `input/mod.rs` | `Actions` |
| Pointer, wheel, touch, tablet | `input/mod.rs`, `niri.rs` | `Pointer` |
| Grabs and gestures | `input/*_grab.rs`, `input/mod.rs`, `layout/` | `Gestures` |
| Recent windows | `ui/mru.rs`, `niri.rs` | `Mru` |
| Screenshot UI | `ui/screenshot_ui.rs`, `niri.rs` | `ScreenshotUi` |
| IPC event stream | `ipc/server.rs`, `niri-ipc/src/state.rs` | `EventStream`, `EventMirror` |
| IPC requests | `ipc/server.rs`, `input/pick_*_grab.rs` | `IpcRequests` |
| Frame cycle, frame callbacks | `niri.rs`, `backend/`, `frame_clock.rs` | `FrameCycle` |
| TTY backend, gamma | `backend/tty.rs`, `protocols/gamma_control.rs` | `Tty` |
| Screencasts | `pw_utils.rs`, `dbus/mutter_screen_cast.rs`, `niri.rs` | `Cast`, `CastSessions` |
| Screencopy | `protocols/screencopy.rs` | `Screencopy` |
| Output management | `protocols/output_management.rs` | `OutputManagement` |
| Workspaces for bars | `protocols/ext_workspace.rs` | `ExtWorkspace` |

`PROJECT.json` lists every part with what is left out of it and why, every
definition with the lines it models, and the hazards: what is hard to test in
this code, with the line where it bites and the property about it.

How the parts interact: outputs come from a backend (`Tty`, winit, headless)
and go to the layout and to the lock state.  A window lives in `Toplevel` until
it opens, is then on a workspace of `Layout`, at a place that `Workspace` knows,
and is resized together with its neighbours by `Transaction`.  Input goes
through `Keyboard`, `Pointer` and `Gestures` to `Actions` and the layout; after
every turn `Focus` decides who has the keyboard.  The redraw pass asks the
backend to draw (`FrameCycle`), drives the lock state, and feeds `Cast` and
`Screencopy`.  What other programs see of all this is refreshed once per turn
(`EventStream`, `ExtWorkspace`, `OutputManagement`).  The main loop drives it.

Only the winit and headless backends are compiled in this fork:
`backend/tty.rs` and the D-Bus and screencast code are kept in the tree, and
are modelled because the tree is where they would be taken up again.

## 2. Modules and the code

Every module has one action per operation, handler or callback, and the whole of
it: what the handler calls before it returns is part of the action.  Names are
the source's where that is possible; where modules meet in one run, their
variables and actions have a prefix (`tx`, `rq`, `ss`, ...).

*Profiles.*  Several machines carry a constant set of profiles, of which a
behaviour has one from the start: which outputs, windows and kinds of events
there are.  A profile restricts what the environment does, never what an
operation does.

**Vec** has the operations of Rust's `Vec` that the layout, screencopy and the
recent-windows list use, with places counted from 1 and without recursion, so
that the proofs can use them.

**SessionLock** has `Lock`, `Unlock`, `NewLockSurface`, `CommitLockSurface`,
`DeadlineExpires`, `DestroyLock`, `ClientDies`, `AddOutput`, `RemoveOutput`,
monitor power, the two overlays, and the redraw pass.  `phase` separates the
dispatching of events from the redraw pass, during which no event is handled.
`Redraw` is the whole of `Niri::redraw`, with the update of `lock_render_state`
and, from it, the move to `Locked` or back to `Unlocked`.  The lock object of a
client is smithay's, modelled from how the handlers use it.  `shown` is what an
output's framebuffer holds: the program has no such variable, its bookkeeping
is about it.

**Monitor** has the operations of `layout/monitor.rs` as functions on a monitor
record: adding at the top and bottom (`Surround`), inserting, removing,
appending, cleaning up, moving, naming, changing `empty-workspace-above-first`.
**Layout** is the state machine of `layout/mod.rs` above them: connecting and
disconnecting outputs (with the state without outputs), adding, moving and
removing windows, moving and naming workspaces (on a monitor and, by reference,
without one), gestures, drag and drop, interactive moves, config changes.  A
workspace is an id, a name, a set of windows and its original output.

**Scrolling** and **Floating** have no variables: a space is a record and every
method an operator on it, so that methods compose as in the code.
**Workspace** holds the two spaces and which of them has the focus.  Geometry is
left out except for `far`, whether an operation aims at another view offset.

**Transaction** follows the windows of one column.  `Resize` and `CloseWindow`
hand out a new transaction; `Refresh` tells clients whose blockers cleared, then
throttles and sends configures; `AckConfigure` and `Commit` are the client and
the pre-commit hook; `BufferReady` and `Deadline` are the callbacks of a dmabuf
and of the timer.  A transaction completes when its last instance is dropped:
`Settle`, the end of every step.  A size is abstracted to whether it differs
from the configured and from the committed one.  `excused` and `shown` are
history variables of `ResizedTogether`.  The column is not tabbed.

**Toplevel** follows a window from its first commit: the initial configure that
an idle callback sends, the commit that maps it with what was decided then,
requests in every phase, parents, activation tokens, unmapping, destruction.

**Focus**, **Keyboard**, **Actions**, **Pointer**, **Gestures**, **Mru** and
**ScreenshotUi** model what the person at the desktop drives.  In `Pointer`
positions are one-dimensional; in `ScreenshotUi` they are pixels of small
outputs; in `Gestures` a motion is too small to tell, wide or tall.

**EventStream** has the comparison of the layout with the published state, the
events, their application at both ends and the bounded channel that cuts slow
readers off.  **EventMirror** is its abstract specification: a subscriber holds
a mirror that goes through published states in order, never misses the last one,
and is cut off rather than left behind.  `ImplementsMirror` is the refinement.

**IpcRequests** has a task per client, the idle callbacks and the pointer grabs
of the two picks.  **FrameCycle** has `RedrawState`, what each backend does when
it renders, the frame clock, and frame callbacks with their throttle.  **Tty**
has devices, connectors, outputs, VT switches, the lid, power and gamma.
**Cast** has negotiation, buffers, fences and timing of one stream,
**CastSessions** the sessions over two threads; PipeWire is external.
**Screencopy**, **OutputManagement** and **ExtWorkspace** have the requests of a
client and what it is told.

## 3. What the runs check

| Run | States | What it shows |
|---|---|---|
| `surfaces` | 247,270 | Session lock: `locked` is reported only over blanked outputs, and only the client that holds the session unlocks it.  Transactions: what waits has a deadline and waits for somebody who is there; a column's windows resize in one frame |
| `progress` | 36,082 | every lock request is answered, every redraw pass ends, the macOS loop flushes every change, every IPC request is answered and not before its action, every client gets its frame callback |
| `layout_hotplug` | 13,325 | monitors stay well formed, workspaces are where their output is, a reconnect restores, focus never jumps |
| `layout_drag` | 25,292 | the same of gestures, drags and config changes; a dragged window is never lost; no scroll outlives its drag |
| `workspace` | 25,994 | focus of a workspace is on a window that is there and moves only when it must, columns are well formed, dialogs stay above their parents |
| `desktop` | 269,532 | the switcher's selection is shown; a release goes where its press went; a screenshot's selection is on the picture; no gesture is without an owner; pointer contents settle; windows open as asked; focus settles in one refresh; the cursor follows the active output |
| `services` | 458,940 | outputs that should be lit are, or are queued; the TTY backend's tables agree; events apply and the stream refines a perfect mirror; casts have targets and their frames are in order; heads and workspaces mirror the outputs and the layout; a bar activates what it asked for; one frame callback per refresh cycle |
| `session_lock_winit` | violation | a failed render counts as a locked frame |
| `layout_reorder` | violation | reordering an unfocused workspace moves the focus |
| `layout_rename` | violation | naming the last workspace of another monitor |
| `screencopy_picture` | violation | a frame is told ready although its buffer was not drawn |
| `run_loop_quit` | violation | the stop signal is never looked at |

*One machine at a time.*  `MCSurfaces`, `MCProgress`, `MCDesktop` and
`MCServices` each hold several machines without common state.  A behaviour is
one of one of them, chosen in the initial state, so that state spaces add up
instead of multiplying; the other machines stay in one initial state.
`MCLayout` in the same way has four setups of one machine.

`ReconnectRestores` looks at an output that is unplugged and plugged in again at
once, and, in every state without it, at an output that is plugged in after
whatever has happened since: the remembered workspace may be gone by then, have
another name or belong to another output.  `BlockedHasDeadline` says of whatever
waits for a transaction that its timer runs and that one of its instances is
with a window that is open or with a buffer that is being drawn: the instances
of a closed window do not leak.

Deadlock checking is off in `progress`, `desktop`, `services` and
`screencopy_picture` only: bounded machines (a finite number of serials, of
frames, of toplevels) come to an end there.

### Views and symmetry

Outputs, windows, names, lockers and transactions are only compared with each
other, so permuting them is a symmetry.  Ids of workspaces that nothing refers
to are used again; `CanonView` of `MCLayout` replaces each id by the place of
its workspace, and a remembered id by the place it refers to.  No action looks
at an id other than by equality.  The view also leaves out the previous
workspace of a monitor: no property reads it, and the only action that does,
`SwitchWorkspacePrevious`, takes a step that `SwitchWorkspace` can take too.
`DeskView` of `MCDesktop` leaves out the machines that are not at work.

### Bounds

Two of a kind where their interaction is the question: an output that stays and
one that goes, a lock client that dies and its successor, a window that waits
for another, two subscribers, two screencopy managers.  `MaxWorkspaces`, and a
setup's `max`, bound the workspaces of a monitor; a step that would exceed it is
not taken.  A monitor needs one or two empty workspaces (below, above), so 3 or
4 leave room for a used one and its neighbours, and 5 for an insertion in the
middle with the empty ones on both sides.  `MaxPending` = 2 lets one window skip
a configure and two windows share a transaction; `MaxQueue` = 1 means a client's
next commit comes after its blocked one was applied.  Transactions that nothing
refers to are used again, so two identities do not limit how many a behaviour
goes through.  `MaxWins` is 2 or 3 per profile of `Workspace`: three where
columns change places, two where sizing modes multiply the states.  `EsCap` = 7
is a channel that holds the five events a subscriber begins with and two more,
so that a slow reader is cut off.  The `...Max` constants of `Cast`,
`CastSessions`, `OutputManagement`, `FrameCycle` and `Pointer` are two or three
rounds of what they count.  The `progress` run has one lock client and leaves
the recent-windows UI closed: locking closes it and nothing waits for it.
`FrameTicks` = 3 tells "just drawn", "not yet due" and "due" apart.

### Fairness

All of it is in `PgFairness` of `MCProgress`.  The redraw pass is weakly fair
(the loop runs it after every dispatch and it draws what is queued) and the
lock's deadline strongly: a timer that stays registered fires in one of the
dispatches, and dispatches alternate with redraw passes, during which it cannot.
The macOS loop and time go on, and a dispatch that pumps the window does not
fail for ever.  Idle callbacks and the tasks of IPC clients run, because the
loop's executor polls what is ready.  The fallback timer of frame callbacks and
the time since a callback go on.  Nothing is assumed of clients, of the person
at the desktop or of render results.

## 4. What is proved

Every theorem is of the form `Spec => []Property` (or `[][Action]`) for any
value of the constants.  Each follows from an inductive invariant, which has the
properties and what they need besides:

| Module | Machines | Invariant | What it adds to the properties |
|---|---|---|---|
| `SessionProofs` | `SessionLock`, `Mru` | `IInv`, `MrInv` | `HolderTold`: the session has a lock object exactly while it is not unlocked, and an unanswered object is that one.  `MruOnConnectedOutput`: locking without outputs does not close the recent-windows UI, which is closed then only because it has no output to be on.  The switcher lists open windows, each once |
| `WaitingProofs` | `Transaction`, `IpcRequests` | `TxInv`, `Held`, `RqInv` | a blocked commit of a live transaction has its timer *and* its notification; a live transaction has an instance and a closed window holds none but in its close animation; a client that waits has exactly one of callback, grab and answer |
| `SeatProofs` | `Focus`, `Pointer`, `Actions` | `FcInv`, `PtInv` | layouts of surfaces without the keyboard are stored; a popup that has the keyboard over the lock surface is its own |
| `InputProofs` | `Keyboard`, `ScreenshotUi` | `KbInv`, `SsInv` | the UI's picture has the size of an output that is there; a second finger is not the first |
| `ToplevelProofs` | `Toplevel` | `TlInv` | what was asked before the initial configure is remembered; what is on an output is on one there is |
| `ServicesProofs` | `FrameCycle`, `CastSessions`, `OutputManagement`, `ExtWorkspace` | `FrInv`, `CnInv`, `OmInv`, `EwInv` | at most one caller is between the swap of `stopped` and the end of `stop`; a configuration of the last serial names only heads there are; what a handle heard adds up to the data of the last refresh |
| `CaptureProofs` | `Cast`, `Screencopy` | `CaInv`, `SyInv` | frames still rendering are numbered in order after the last one queued, the first with a source; a copy is in one place of one queue or has a fence |

`PROJECT.json` lists the theorems.  `Actions` needs no invariant: its two
theorems are about one step.  The proofs have one lemma or step per action.

*Assumptions*, all named and in the component modules: the "nothing" values are
none of the values they are next to, bounds are positive numbers, profiles are
of their type (an output is an interval that is not empty, a scale is positive),
sets of windows and outputs are finite where one is picked by order, render
results are among the three of the code.

*Only model-checked.*  Liveness (fairness is out of the prover's reach).
`Layout` and `Workspace`, whose invariants are about whole sequences of records
changed in the middle, and `Gestures`, whose one invariant relates every grab,
finger and gesture to each other; `Tty`, `EventStream` and its refinement, which
use recursive operators; `ResizedTogether`, which compares a frame with the
history before it.

`LockedIsBlanked` is about the bookkeeping: it says what is shown only for
backends whose `Submitted` is true (see the first finding).

## 5. Findings

- `session_lock_winit`: `Winit::render` answers `Submitted` when
  `render_output()` failed (`src/src/backend/winit.rs:602`), so an output that
  goes on showing the session's last frame counts as blanked.
- `layout_reorder`: `move_workspace_to_idx` compares an index that was shifted
  by an insertion at the top with one that was not
  (`src/src/layout/monitor.rs:1330`).
- `layout_rename`: `set_workspace_name` looks a workspace up on any monitor and
  grows the active one (`src/src/layout/mod.rs:4488`).
- `run_loop_quit`: `run_with_cfrunloop` never looks at the stop signal
  (`src/src/utils/macos_runloop.rs:31`).
- `screencopy_picture`: a manager's queue is drawn from its front (`first`) and
  answered from its back (`pop`, `src/src/protocols/screencopy.rs:64`), so with
  two copies queued one is told ready whose buffer was not drawn.

Further definitions state what a comment, a doc or an `unwrap()` of the code
relies on, and TLC refutes them in the configuration of the run named here; they
are kept in the modules without a run of their own.

| Definition | Module, run | What the code does |
|---|---|---|
| `RestoreOnlyWhileCovered` | `Workspace`, `workspace` | `add_column` in front of the active column makes another one active at the same index and leaves the offset to restore |
| `CommitsFocused` | `Mru`, `desktop` | the timer of a window that lost the focus fires unless a window with a timestamp took it |
| `SuppressedOnPress` | `Keyboard`, `desktop` | after a release that the host kept, the key's next press is forwarded and its release withheld |
| `FocusRemains` | `Actions`, `desktop` | a floating window goes through another function, which ignores `focus=false` |
| `ClickFindsOutput` | `Pointer`, `desktop` | the pointer can be where an output was, or in a gap, while the switcher is open |
| `RuleOpensFullscreen` | `Toplevel`, `desktop` | with `open-on-workspace` naming a workspace that does not exist no state is configured at all |
| `GrabFollowsFocus` | `Focus`, `desktop` | a popup keeps the keyboard of a surface that gave it up before the refresh |
| `TooSoonIsScheduled` | `Cast`, `services` | the token of a timer that fired is kept, so no new one is scheduled |
| `SessionStopsItsCasts`, `OneCastPerStream` | `CastSessions`, `services` | a `StartCast` sent after `StopCast` leaves a cast; a second `Start` casts each stream again |
| `HeadsEnabledAsOutputs` | `OutputManagement`, `services` | an output that comes on with a custom mode has one mode more, and its head is not told enabled |
| `AssignFindsOutput` | `ExtWorkspace`, `services` | an output unplugged in the same turn is still upgraded from the group's weak reference |
| `VisibleGetsCallback`, `TimerFindsItsState` | `FrameCycle`, `services` | winit gives visible surfaces no primary output; `redraw` overwrites the state of an estimated vblank's timer |

## 6. Not modelled

Floating-point geometry, animation curves and rendering are out of TLC's reach
or hold no state that a property is about: an animation may end at any time and
a gesture anywhere.  Serialisation, parsing, most D-Bus services, accessibility
and the visual tests are pure data, glue or test code.  Foreign toplevels, the
virtual pointer, the config watcher and the Xwayland satellite are small and
left out.  In the modelled parts: per-output overrides of
`empty-workspace-above-first`, the options that switch transactions or
throttling off, tabbed columns and windows that become floating during a
transaction, DRM leases beyond their being offered, and buffer formats.
