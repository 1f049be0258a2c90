------------------------------- MODULE Layout -------------------------------
(***************************************************************************)
(* The layout of all monitors (src/src/layout/mod.rs): which workspaces    *)
(* are on which monitor, which windows are on which workspace, and how     *)
(* windows, workspaces, configuration changes, gestures and outputs that   *)
(* come and go change that.  The operations on one monitor are in module   *)
(* Monitor.                                                                *)
(***************************************************************************)
EXTENDS Monitor

CONSTANTS
    Outputs,        \* the outputs that can be connected
    Windows,        \* the windows clients can map
    Names,          \* names for workspaces
    AboveValues,    \* values empty-workspace-above-first takes in the config
    NamingRefs,     \* how set-workspace-name finds a workspace of a monitor
    MaxWorkspaces   \* bound on the workspaces of a monitor

VARIABLES
    monitors,       \* MonitorSet::Normal's monitors, <<>> for NoOutputs
    primary,        \* primary_idx
    activeMon,      \* active_monitor_idx
    orphans,        \* MonitorSet::NoOutputs's workspaces
    lastActive,     \* last_active_workspace_id
    above,          \* options.layout.empty_workspace_above_first
    overview,       \* overview_open
    move,           \* interactive_move
    dnd,            \* is a drag-and-drop in progress
    mapped          \* the windows clients have mapped

vars == <<monitors, primary, activeMon, orphans, lastActive, above, overview, move, dnd, mapped>>

ASSUME AboveAssumption == AboveValues \subseteq BOOLEAN /\ AboveValues # {}
ASSUME RefsAssumption == NamingRefs \subseteq {"active", "any"}
ASSUME NamesAssumption == None \notin Names
ASSUME OutputsAssumption == IsFiniteSet(Outputs)

NoMove == [st |-> "none", win |-> None, out |-> None]

Connected == {monitors[i].output : i \in DOMAIN monitors}
MonitorOf(o) == CHOOSE i \in DOMAIN monitors : monitors[i].output = o

\* Every workspace id in the layout, and every one it remembers.
UsedIds ==
    UNION {WorkspaceIds(monitors[i].ws) \cup {monitors[i].prev} : i \in DOMAIN monitors}
        \cup WorkspaceIds(orphans) \cup {lastActive[o] : o \in Outputs}

\* Indices of monitors and of their workspaces, which the at and to of an action
\* range over.
Places == UNION {{i} \X DOMAIN monitors[i].ws : i \in DOMAIN monitors}

WorkspacesOf(ms) == UNION {{ms[i].ws[k] : k \in DOMAIN ms[i].ws} : i \in DOMAIN ms}
AllWorkspaces == WorkspacesOf(monitors) \cup {orphans[k] : k \in DOMAIN orphans}

Init ==
    /\ monitors = <<>> /\ primary = 1 /\ activeMon = 1
    /\ orphans = <<>>
    /\ lastActive = [o \in Outputs |-> None]
    /\ above \in AboveValues
    /\ overview = FALSE
    /\ move = NoMove
    /\ dnd = FALSE
    /\ mapped = {}

\* The monitors become ms, within the bound on their workspaces.
SetMonitors(ms) ==
    /\ monitors' = ms
    /\ \A i \in DOMAIN ms : Len(ms[i].ws) <= MaxWorkspaces

SetMonitor(i, m) == SetMonitors([monitors EXCEPT ![i] = m])

-----------------------------------------------------------------------------
(* Outputs.                                                                *)

\* The part of the layout that outputs coming and going change.
Current == [mons |-> monitors, prim |-> primary, act |-> activeMon, orph |-> orphans,
            last |-> lastActive]

Become(L) ==
    /\ SetMonitors(L.mons)
    /\ primary' = L.prim /\ activeMon' = L.act /\ orphans' = L.orph /\ lastActive' = L.last

\* Layout::add_output.
Plug(L, o) ==
    LET p == L.mons[L.prim]
        back == IF L.mons = <<>> THEN L.orph
                ELSE retain(p.ws, {i \in InUse(p.ws) : p.ws[i].own = o})
        used == UsedIds \cup {w.id : w \in WorkspacesOf(L.mons)} \cup WorkspaceIds(L.orph)
        new == NewMonitor(o, above, back, L.last[o], used)
    IN IF L.mons = <<>>
       THEN [mons |-> <<new>>, prim |-> 1, act |-> 1, orph |-> <<>>,
             last |-> [L.last EXCEPT ![o] = None]]
       ELSE [L EXCEPT !.mons = Append([@ EXCEPT ![L.prim] = GiveBack(p, o)], new),
                      !.last[o] = None]

\* Layout::remove_output of the monitor at index i.
Unplug(L, i) ==
    LET m == L.mons[i]
        rest == remove(L.mons, i)
        left == IntoWorkspaces(m)
        p == IF L.prim >= i THEN Pred(L.prim) ELSE L.prim
        last == [L.last EXCEPT ![m.output] = ActiveWs(m).id]
    IN IF rest = <<>>
       THEN [mons |-> <<>>, prim |-> 1, act |-> 1, orph |-> left, last |-> last]
       ELSE [L EXCEPT !.mons = [rest EXCEPT ![p] = AppendWorkspaces(@, left, UsedIds)],
                      !.prim = p, !.act = IF @ >= i THEN Pred(@) ELSE @, !.last = last]

AddOutput(o) ==
    /\ o \notin Connected
    /\ Become(Plug(Current, o))
    /\ UNCHANGED <<above, overview, move, dnd, mapped>>

\* Mutant: the move of a window above the output is forgotten.
RemoveOutput_ForgetsMove(o) ==
    /\ o \in Connected
    /\ Become(Unplug(Current, MonitorOf(o)))
    /\ move' = IF move.out = o THEN NoMove ELSE move
    /\ UNCHANGED <<above, overview, dnd, mapped>>

RemoveOutput(o) ==
    /\ o \in Connected
    /\ Become(Unplug(Current, MonitorOf(o)))
    /\ UNCHANGED <<above, overview, move, dnd, mapped>>

FocusOutput(o) ==
    /\ o \in Connected /\ activeMon # MonitorOf(o)
    /\ activeMon' = MonitorOf(o)
    /\ UNCHANGED <<monitors, primary, orphans, lastActive, above, overview, move, dnd, mapped>>

\* Layout::update_config.
UpdateConfig(b) ==
    /\ b # above
    /\ above' = b
    /\ SetMonitors([i \in DOMAIN monitors |->
            UpdateAbove(monitors[i], b, UsedIds \cup FreshIds(UsedIds, i - 1))])
    /\ UNCHANGED <<primary, activeMon, orphans, lastActive, overview, move, dnd, mapped>>

-----------------------------------------------------------------------------
(* Windows.  A window's place is an index of a monitor and one of a        *)
(* workspace.                                                              *)

\* Layout::add_window.  Its targets (the active workspace, an output, a
\* workspace, next to a window) come down to any workspace of any monitor.
AddWindow(w, at, activate) ==
    /\ w \notin mapped
    /\ mapped' = mapped \cup {w}
    /\ SetMonitor(at[1], AddWindows(monitors[at[1]], {w}, at[2], UsedIds, activate))
    /\ activeMon' = IF activate THEN at[1] ELSE activeMon
    /\ UNCHANGED <<primary, orphans, lastActive, above, overview, move, dnd>>

\* orphans with w on the workspace at k, or on a new one if there is none.
WithOrphan(w, k) ==
    IF orphans = <<>> THEN <<[NewWorkspace(FreshId(UsedIds), None) EXCEPT !.wins = {w}]>>
    ELSE [orphans EXCEPT ![k].wins = @ \cup {w}]

AddWindowNoOutputs(w, k) ==
    /\ w \notin mapped /\ monitors = <<>>
    /\ IF orphans = <<>> THEN k = 1 ELSE k \in DOMAIN orphans
    /\ mapped' = mapped \cup {w}
    /\ orphans' = WithOrphan(w, k)
    /\ UNCHANGED <<monitors, primary, activeMon, lastActive, above, overview, move, dnd>>

\* Where the ends of drag-and-drop scrolls can land.
Landings == {f \in [DOMAIN monitors -> 1..MaxWorkspaces] :
                \A i \in DOMAIN monitors :
                    f[i] \in DOMAIN monitors[i].ws /\ (monitors[i].sw # "dnd" => f[i] = 1)}
EndDndScrolls(f) == [i \in DOMAIN monitors |-> DndScrollEnd(monitors[i], f[i])]

\* ms and orphans without the window w, the workspace cleaned up after it.
WithoutWindow(ms, w) ==
    [i \in DOMAIN ms |->
        LET k == position({j \in DOMAIN ms[i].ws : w \in ms[i].ws[j].wins}) IN
        IF k = 0 THEN ms[i] ELSE RemoveWindowAt(ms[i], w, k)]
OrphansWithout(w) ==
    LET left == [k \in DOMAIN orphans |-> [orphans[k] EXCEPT !.wins = @ \ {w}]] IN
    retain(left, InUse(left))

\* Mutant: the drag of a window that closes is dropped without its scrolls.
RemoveWindow_KeepsScrolling(w, f) ==
    /\ w \in mapped
    /\ mapped' = mapped \ {w}
    /\ SetMonitors(WithoutWindow(monitors, w))
    /\ orphans' = OrphansWithout(w)
    /\ move' = IF move.win = w THEN NoMove ELSE move
    /\ UNCHANGED <<primary, activeMon, lastActive, above, overview, dnd>>

\* Layout::remove_window; a window being moved is not on any workspace.
RemoveWindow(w, f) ==
    /\ w \in mapped
    /\ mapped' = mapped \ {w}
    /\ LET ms == IF move.win = w THEN EndDndScrolls(f) ELSE monitors IN
       SetMonitors(WithoutWindow(ms, w))
    /\ orphans' = OrphansWithout(w)
    /\ move' = IF move.win = w THEN NoMove ELSE move
    /\ UNCHANGED <<primary, activeMon, lastActive, above, overview, dnd>>

\* Layout::activate_window; in the middle of a gesture between its workspace
\* and another one the workspace is not switched.
ActivateWindow(at, switch) ==
    /\ LET m == monitors[at[1]] IN
       /\ m.ws[at[2]].wins # {}
       /\ ~switch => m.sw \in {"gesture", "dnd"}
       /\ SetMonitor(at[1], IF switch THEN ActivateWorkspace(m, at[2]) ELSE m)
    /\ activeMon' = at[1]
    /\ UNCHANGED <<primary, orphans, lastActive, above, overview, move, dnd, mapped>>

-----------------------------------------------------------------------------
(* Windows and columns that change workspace.                              *)

\* Layout::move_to_workspace.
MoveToWorkspace(w, at, k, activate) ==
    /\ LET m == monitors[at[1]] IN
       /\ w \in m.ws[at[2]].wins
       /\ k \in DOMAIN m.ws \ {at[2]}
       /\ SetMonitor(at[1], CleanUpIfIdle(
              AddWindows(TakeWindows(m, {w}, at[2]), {w}, k, UsedIds, activate)))
    /\ UNCHANGED <<primary, activeMon, orphans, lastActive, above, overview, move, dnd, mapped>>

\* move_to_workspace_up and _down, move_column_to_workspace, _up and _down:
\* the windows of a column of the active workspace; nothing is cleaned up.
MoveColumnToWorkspace(wins, k, activate) ==
    /\ monitors # <<>>
    /\ LET m == monitors[activeMon] IN
       /\ wins # {} /\ wins \subseteq ActiveWs(m).wins
       /\ k \in DOMAIN m.ws \ {m.active}
       /\ SetMonitor(activeMon,
              AddWindows(TakeWindows(m, wins, m.active), wins, k, UsedIds, activate))
    /\ UNCHANGED <<primary, activeMon, orphans, lastActive, above, overview, move, dnd, mapped>>

\* Layout::move_to_output.
MoveToOutput(w, at, to, activate) ==
    /\ at # to
    /\ w \in monitors[at[1]].ws[at[2]].wins
    /\ LET ms == [monitors EXCEPT ![at[1]] = TakeWindows(@, {w}, at[2])]
           added == [ms EXCEPT ![to[1]] = AddWindows(@, {w}, to[2], UsedIds, activate)]
       IN SetMonitors([added EXCEPT ![at[1]] = CleanUpIfIdle(@)])
    /\ activeMon' = IF activate THEN to[1] ELSE activeMon
    /\ UNCHANGED <<primary, orphans, lastActive, above, overview, move, dnd, mapped>>

\* Layout::move_column_to_output.
MoveColumnToOutput(wins, to, activate) ==
    /\ LET m == monitors[activeMon]
           ms == [monitors EXCEPT ![activeMon] = TakeWindows(@, wins, m.active)]
       IN /\ wins # {} /\ wins \subseteq ActiveWs(m).wins
          /\ SetMonitors([ms EXCEPT ![to[1]] = AddWindows(@, wins, to[2], UsedIds, activate)])
    /\ activeMon' = IF activate THEN to[1] ELSE activeMon
    /\ UNCHANGED <<primary, orphans, lastActive, above, overview, move, dnd, mapped>>

-----------------------------------------------------------------------------
(* Workspaces.                                                             *)

\* switch_workspace and its variants, of the active monitor.  In a
\* drag-and-drop scroll up and down start from the workspace in view, which
\* can be any.
SwitchWorkspace(k) ==
    /\ monitors # <<>>
    /\ LET m == monitors[activeMon] IN
       /\ k \in DOMAIN m.ws
       /\ SetMonitor(activeMon, ActivateWorkspace(m, k))
    /\ UNCHANGED <<primary, activeMon, orphans, lastActive, above, overview, move, dnd, mapped>>

\* switch_workspace_previous, and switch_workspace_auto_back_and_forth to the
\* active workspace.
SwitchWorkspacePrevious ==
    /\ monitors # <<>>
    /\ LET m == monitors[activeMon]
           k == Position(m.ws, m.prev)
       IN k # 0 /\ SetMonitor(activeMon, ActivateWorkspace(m, k))
    /\ UNCHANGED <<primary, activeMon, orphans, lastActive, above, overview, move, dnd, mapped>>

\* Mutant: a workspace moved to another output keeps its original one.
MoveWorkspaceToOutput_KeepsOriginal(at, i) ==
    /\ i \in DOMAIN monitors \ {at[1]}
    /\ LET left == RemoveWorkspaceByIdx(monitors[at[1]], at[2], UsedIds)
           used == UsedIds \cup WorkspaceIds(left.ws)
           to == monitors[i]
       IN SetMonitors([monitors EXCEPT
              ![at[1]] = left,
              ![i] = InsertWorkspace(to, monitors[at[1]].ws[at[2]], to.active + 1, used, FALSE)])
    /\ UNCHANGED <<primary, activeMon, orphans, lastActive, above, overview, move, dnd, mapped>>

\* Layout::move_workspace_to_output_by_id; the workspace is at `at`.
MoveWorkspaceToOutput(at, i) ==
    /\ i \in DOMAIN monitors
    /\ LET from == monitors[at[1]]
           to == monitors[i]
           w == [from.ws[at[2]] EXCEPT !.own = to.output]
           activate == at[1] = activeMon /\ at[2] = from.active
       IN \/ /\ at[1] = i
             /\ SetMonitor(i, [to EXCEPT !.ws[at[2]].own = to.output])
             /\ UNCHANGED activeMon
          \/ /\ at[1] # i
             /\ LET left == RemoveWorkspaceByIdx(from, at[2], UsedIds)
                    used == UsedIds \cup WorkspaceIds(left.ws)
                IN SetMonitors([monitors EXCEPT
                        ![at[1]] = left,
                        ![i] = InsertWorkspace(to, w, to.active + 1, used, activate)])
             /\ activeMon' = IF activate THEN i ELSE activeMon
    /\ UNCHANGED <<primary, orphans, lastActive, above, overview, move, dnd, mapped>>

MoveWorkspaceUpOrDown(down) ==
    /\ monitors # <<>>
    /\ LET m == monitors[activeMon] IN
       SetMonitor(activeMon, IF down THEN MoveWorkspaceDown(m, UsedIds)
                                     ELSE MoveWorkspaceUp(m, UsedIds))
    /\ UNCHANGED <<primary, activeMon, orphans, lastActive, above, overview, move, dnd, mapped>>

\* Layout::move_workspace_to_idx.
MoveWorkspaceTo(at, k) ==
    /\ k \in DOMAIN monitors[at[1]].ws \ {at[2]}
    /\ SetMonitor(at[1], MoveWorkspaceToIdx(monitors[at[1]], at[2], k, UsedIds))
    /\ UNCHANGED <<primary, activeMon, orphans, lastActive, above, overview, move, dnd, mapped>>

NamesInUse == {w.name : w \in AllWorkspaces}

\* Layout::set_workspace_name, of the active workspace or, by reference, of
\* any workspace.
SetWorkspaceName(at, name) ==
    /\ name \notin NamesInUse
    /\ "any" \in NamingRefs \/ at[1] = activeMon
    /\ SetMonitor(at[1], NameWorkspace(monitors[at[1]], at[2], name, UsedIds, at[1] = activeMon))
    /\ UNCHANGED <<primary, activeMon, orphans, lastActive, above, overview, move, dnd, mapped>>

\* set_workspace_name, by reference, of a workspace without an output.
SetOrphanName(k, name) ==
    /\ name \notin NamesInUse
    /\ k \in DOMAIN orphans
    /\ orphans' = [orphans EXCEPT ![k].name = name]
    /\ UNCHANGED <<monitors, primary, activeMon, lastActive, above, overview, move, dnd, mapped>>

\* Layout::unname_workspace_by_id.
UnsetWorkspaceName(name) ==
    /\ name \in NamesInUse
    /\ SetMonitors([i \in DOMAIN monitors |->
            LET k == position({j \in DOMAIN monitors[i].ws : monitors[i].ws[j].name = name}) IN
            IF k = 0 THEN monitors[i] ELSE UnnameWorkspace(monitors[i], k)])
    /\ LET left == [k \in DOMAIN orphans |->
                        [orphans[k] EXCEPT !.name = IF @ = name THEN None ELSE @]]
       IN orphans' = retain(left, InUse(left))
    /\ UNCHANGED <<primary, activeMon, lastActive, above, overview, move, dnd, mapped>>

\* Layout::ensure_named_workspace for a workspace of the config that opens on
\* output o, or on no particular one.
EnsureNamedWorkspace(name, o) ==
    /\ name \notin NamesInUse
    /\ LET i == IF o = None THEN activeMon ELSE IF o \in Connected THEN MonitorOf(o) ELSE primary
           New(out) == [NewWorkspace(FreshId(UsedIds), IF o = None THEN out ELSE o)
                            EXCEPT !.name = name]
       IN \/ /\ monitors = <<>>
             /\ orphans' = <<New(None)>> \o orphans
             /\ UNCHANGED monitors
          \/ /\ monitors # <<>>
             /\ SetMonitor(i, InsertWorkspace(monitors[i], New(monitors[i].output), 1, UsedIds, FALSE))
             /\ UNCHANGED orphans
    /\ UNCHANGED <<primary, activeMon, lastActive, above, overview, move, dnd, mapped>>

-----------------------------------------------------------------------------
(* Animations and gestures.                                                *)

\* The switch animations that are done in a frame.
Advanced(ms, done) == [i \in DOMAIN ms |-> IF i \in done THEN SwitchDone(ms[i]) ELSE ms[i]]
Animating(ms) == {i \in DOMAIN ms : ms[i].sw = "animation"}

\* Layout::advance_animations.
AdvanceAnimations(done) ==
    /\ done \subseteq Animating(monitors) /\ done # {}
    /\ SetMonitors(Advanced(monitors, done))
    /\ UNCHANGED <<primary, activeMon, orphans, lastActive, above, overview, move, dnd, mapped>>

\* Layout::workspace_switch_gesture_begin ends the gestures of the other
\* monitors, each landing where f says.
SwitchGestureBegin(i, f) ==
    /\ i \in DOMAIN monitors
    /\ SetMonitors([j \in DOMAIN monitors |->
            IF j = i THEN [monitors[j] EXCEPT !.sw = "gesture"]
            ELSE IF monitors[j].sw \in {"gesture", "dnd"} THEN GestureEnd(monitors[j], f[j])
            ELSE monitors[j]])
    /\ UNCHANGED <<primary, activeMon, orphans, lastActive, above, overview, move, dnd, mapped>>

\* Layout::workspace_switch_gesture_end of the first monitor in a gesture.
SwitchGestureEnd(i, k) ==
    /\ i \in DOMAIN monitors
    /\ monitors[i].sw \in {"gesture", "dnd"}
    /\ \A j \in 1..(i - 1) : monitors[j].sw \notin {"gesture", "dnd"}
    /\ k \in DOMAIN monitors[i].ws
    /\ SetMonitor(i, GestureEnd(monitors[i], k))
    /\ UNCHANGED <<primary, activeMon, orphans, lastActive, above, overview, move, dnd, mapped>>

ToggleOverview ==
    /\ overview' = ~overview
    /\ UNCHANGED <<monitors, primary, activeMon, orphans, lastActive, above, move, dnd, mapped>>

\* Layout::toggle_overview_to_workspace.
ToggleOverviewToWorkspace(k) ==
    /\ overview' = ~overview
    /\ monitors # <<>>
    /\ k \in DOMAIN monitors[activeMon].ws
    /\ SetMonitor(activeMon, ActivateWorkspace(monitors[activeMon], k))
    /\ UNCHANGED <<primary, activeMon, orphans, lastActive, above, move, dnd, mapped>>

\* dnd_update when no drag-and-drop was in progress.
DndBegin ==
    /\ ~dnd
    /\ dnd' = TRUE
    /\ SetMonitors([i \in DOMAIN monitors |-> DndScrollBegin(monitors[i], overview)])
    /\ UNCHANGED <<primary, activeMon, orphans, lastActive, above, overview, move, mapped>>

\* advance_animations when the pointer was held long enough over a workspace,
\* or a window of it, during a drag-and-drop.
DndHold(at, f, done) ==
    /\ dnd
    /\ LET ms == [monitors EXCEPT ![at[1]] =
                     ActivateWorkspace(DndScrollEnd(@, f[at[1]]), at[2])]
       IN done \subseteq Animating(ms) /\ SetMonitors(Advanced(ms, done))
    /\ activeMon' = at[1]
    /\ overview' = FALSE
    /\ UNCHANGED <<primary, orphans, lastActive, above, move, dnd, mapped>>

DndEnd(f) ==
    /\ dnd
    /\ dnd' = FALSE
    /\ SetMonitors(EndDndScrolls(f))
    /\ UNCHANGED <<primary, activeMon, orphans, lastActive, above, overview, move, mapped>>

-----------------------------------------------------------------------------
(* The interactive move of a window.                                       *)

InteractiveMoveBegin(at, w) ==
    /\ move = NoMove
    /\ w \in monitors[at[1]].ws[at[2]].wins
    /\ move' = [st |-> "starting", win |-> w, out |-> None]
    /\ SetMonitors([i \in DOMAIN monitors |-> DndScrollBegin(monitors[i], overview)])
    /\ UNCHANGED <<primary, activeMon, orphans, lastActive, above, overview, dnd, mapped>>

\* interactive_move_update past the threshold takes the window off its
\* workspace; the pointer is on output o.
InteractiveMoveStart(o) ==
    /\ move.st = "starting" /\ o \in Connected
    /\ move' = [st |-> "moving", win |-> move.win, out |-> o]
    /\ SetMonitors(WithoutWindow(monitors, move.win))
    /\ orphans' = OrphansWithout(move.win)
    /\ UNCHANGED <<primary, activeMon, lastActive, above, overview, dnd, mapped>>

\* interactive_move_update with the pointer on another output.
InteractiveMoveUpdate(o) ==
    /\ move.st = "moving" /\ o \in Connected /\ o # move.out
    /\ move' = [move EXCEPT !.out = o]
    /\ activeMon' = MonitorOf(o)
    /\ UNCHANGED <<monitors, primary, orphans, lastActive, above, overview, dnd, mapped>>

\* interactive_move_end before the threshold.
InteractiveMoveCancel(f) ==
    /\ move.st = "starting"
    /\ move' = NoMove
    /\ SetMonitors(EndDndScrolls(f))
    /\ UNCHANGED <<primary, activeMon, orphans, lastActive, above, overview, dnd, mapped>>

\* Monitor::insert_position: on the workspace at index k, or between two.
DropOn(m, k, between) ==
    IF ~between \/ k = Len(m.ws) \/ (m.above /\ k = 1) THEN m
    ELSE AddWorkspaceAt(m, k, UsedIds)

InteractiveMoveEnd(f, k, between) ==
    /\ move.st = "moving"
    /\ move' = NoMove
    /\ \/ /\ monitors # <<>>
          /\ LET ms == EndDndScrolls(f)
                 there == move.out \in Connected
                 i == IF there THEN MonitorOf(move.out) ELSE activeMon
             IN /\ IF there THEN k \in DOMAIN ms[i].ws ELSE k = 1 /\ ~between
                /\ SetMonitors([ms EXCEPT ![i] =
                       AddWindows(DropOn(@, k, between), {move.win}, k, UsedIds, ~overview)])
          /\ UNCHANGED orphans
       \/ /\ monitors = <<>> /\ k = 1 /\ ~between
          /\ orphans' = WithOrphan(move.win, 1)
          /\ UNCHANGED monitors
    /\ UNCHANGED <<primary, activeMon, lastActive, above, overview, dnd, mapped>>

-----------------------------------------------------------------------------
Indices == 1..MaxWorkspaces

\* Outputs and windows come and go, and animations end.
HotplugNext ==
    \/ \E o \in Outputs : AddOutput(o)
    \/ \E o \in Outputs : RemoveOutput(o)
    \/ \E w \in Windows, at \in Places, act \in BOOLEAN : AddWindow(w, at, act)
    \/ \E w \in Windows, k \in Indices : AddWindowNoOutputs(w, k)
    \/ \E w \in Windows, f \in Landings : RemoveWindow(w, f)
    \/ \E done \in SUBSET DOMAIN monitors : AdvanceAnimations(done)

\* The user and clients rearrange windows and workspaces.
ManageNext ==
    \/ \E o \in Outputs : FocusOutput(o)
    \/ \E at \in Places, s \in BOOLEAN : ActivateWindow(at, s)
    \/ \E w \in Windows, at \in Places, k \in Indices, act \in BOOLEAN :
            MoveToWorkspace(w, at, k, act)
    \/ \E wins \in SUBSET Windows, k \in Indices, act \in BOOLEAN :
            MoveColumnToWorkspace(wins, k, act)
    \/ \E w \in Windows, at, to \in Places, act \in BOOLEAN : MoveToOutput(w, at, to, act)
    \/ \E wins \in SUBSET Windows, to \in Places, act \in BOOLEAN :
            MoveColumnToOutput(wins, to, act)
    \/ \E k \in Indices : SwitchWorkspace(k)
    \/ SwitchWorkspacePrevious
    \/ \E at \in Places, i \in DOMAIN monitors : MoveWorkspaceToOutput(at, i)
    \/ \E down \in BOOLEAN : MoveWorkspaceUpOrDown(down)
    \/ \E at \in Places, k \in Indices : MoveWorkspaceTo(at, k)
    \/ \E at \in Places, n \in Names : SetWorkspaceName(at, n)
    \/ \E k \in DOMAIN orphans, n \in Names : SetOrphanName(k, n)
    \/ \E n \in Names : UnsetWorkspaceName(n)
    \/ \E n \in Names, o \in Outputs \cup {None} : EnsureNamedWorkspace(n, o)

\* The configuration is reloaded.
ConfigNext == \E b \in AboveValues : UpdateConfig(b)

\* Gestures, drag-and-drop and the interactive move, with the overview.
DragNext ==
    \/ \E i \in DOMAIN monitors, f \in [DOMAIN monitors -> Indices] :
            (\A j \in DOMAIN monitors : f[j] \in DOMAIN monitors[j].ws) /\ SwitchGestureBegin(i, f)
    \/ \E i \in DOMAIN monitors, k \in Indices : SwitchGestureEnd(i, k)
    \/ ToggleOverview
    \/ \E k \in Indices : ToggleOverviewToWorkspace(k)
    \/ DndBegin
    \/ \E at \in Places, f \in Landings, done \in SUBSET DOMAIN monitors : DndHold(at, f, done)
    \/ \E f \in Landings : DndEnd(f)
    \/ \E at \in Places, w \in Windows : InteractiveMoveBegin(at, w)
    \/ \E o \in Outputs : InteractiveMoveStart(o)
    \/ \E o \in Outputs : InteractiveMoveUpdate(o)
    \/ \E f \in Landings : InteractiveMoveCancel(f)
    \/ \E f \in Landings, k \in Indices, b \in BOOLEAN : InteractiveMoveEnd(f, k, b)

Next == HotplugNext \/ ManageNext \/ ConfigNext \/ DragNext

Spec == Init /\ [][Next]_vars

-----------------------------------------------------------------------------
\* The type of the state; the indices of the monitors are in range and a
\* workspace without an output has a window or a name.
TypeOK ==
    /\ \A i \in DOMAIN monitors :
         /\ monitors[i].output \in Outputs /\ monitors[i].above = above
         /\ monitors[i].sw \in {"none", "animation", "gesture", "dnd"}
         /\ monitors[i].active \in DOMAIN monitors[i].ws
    /\ monitors # <<>> => /\ primary \in DOMAIN monitors /\ activeMon \in DOMAIN monitors
                          /\ orphans = <<>>
    /\ \A k \in DOMAIN orphans : HasWindowsOrName(orphans[k])
    /\ mapped \subseteq Windows

\* verify_invariants of every monitor: an empty unnamed workspace at the
\* bottom (and, if so configured, at the top), no other empty workspace except
\* the active one unless a switch is in progress, and no assert! has failed.
MonitorWellFormed == \A i \in DOMAIN monitors : WellFormed(monitors[i])

\* "workspace id must be unique", "workspace name must be unique": a workspace
\* is in one place only.
WorkspacesUnique ==
    LET on(i) == IF i = 0 THEN orphans ELSE monitors[i].ws IN
    \A i, j \in 0 .. Len(monitors) : \A k \in DOMAIN on(i), l \in DOMAIN on(j) :
        <<i, k>> # <<j, l>> =>
            /\ on(i)[k].id # on(j)[l].id
            /\ on(i)[k].name = None \/ on(i)[k].name # on(j)[l].name

\* No window is lost or duplicated: a mapped window is on exactly one
\* workspace or in the hand of the interactive move, an unmapped one nowhere.
WindowsConserved ==
    \A w \in Windows :
        LET on == Cardinality({x \in AllWorkspaces : w \in x.wins})
            held == move.st = "moving" /\ move.win = w
        IN /\ w \in mapped <=> (on = 1 /\ ~held) \/ (on = 0 /\ held)
           /\ w \notin mapped => on = 0 /\ move.win # w

\* "primary monitor cannot have workspaces for which their own monitor exists"
\* and "secondary monitor must not have any non-own workspaces", and
\* every workspace is in one place only.
WorkspacesAtHome ==
    /\ WorkspacesUnique
    /\ \A i \in DOMAIN monitors, k \in Indices :
        k \in DOMAIN monitors[i].ws =>
            LET own == monitors[i].ws[k].own IN
            own = monitors[i].output \/ (i = primary /\ own \notin Connected)

\* A drag-and-drop scroll ends with the drag that started it; while it lasts
\* empty workspaces are not cleaned up.
DndScrollOnlyWhileDragging ==
    \A i \in DOMAIN monitors : monitors[i].sw = "dnd" => dnd \/ move # NoMove

\* The workspaces in use that originated on the monitor, in order.
Originals(m) == SelectSeq(IntoWorkspaces(m), LAMBDA w : w.own = m.output)

\* An output that is connected now, whatever happened since it was
\* disconnected, gets all workspaces in use that originated on it; the one that
\* was active when it was disconnected is active if it is among those it gets,
\* and the first one is if it is gone.
ComesBack(o) ==
    LET mons == Plug(Current, o).mons
        new == mons[Len(mons)]
        ws == IntoWorkspaces(new)
    IN /\ \A w \in AllWorkspaces : w.own = o /\ HasWindowsOrName(w) => w \in Range(ws)
       /\ IF lastActive[o] \in WorkspaceIds(ws) THEN ActiveWs(new).id = lastActive[o]
          ELSE ws # <<>> => ActiveWs(new) = Head(ws)

\* "Disconnecting and reconnecting the same output must not change the
\* layout", for secondary outputs and the primary one: the workspaces that
\* originated on any output are on it again, in order, and the active one is
\* active again.  So it is when other things happen in between.
ReconnectRestores ==
    /\ \A i \in DOMAIN monitors :
           LET L == Plug(Unplug(Current, i), monitors[i].output) IN
           \A j \in DOMAIN monitors :
               LET old == monitors[j]
                   new == L.mons[CHOOSE k \in DOMAIN L.mons : L.mons[k].output = old.output]
               IN /\ Originals(new) = Originals(old)
                  /\ ActiveWs(old) \in Range(Originals(old)) => ActiveWs(new) = ActiveWs(old)
    /\ \A o \in Outputs \ Connected : ComesBack(o)

\* The workspace that is active on a monitor stays active as long as it is
\* there.
FocusKept ==
    \A i \in DOMAIN monitors, j \in DOMAIN monitors' :
        LET id == ActiveWs(monitors[i]).id IN
        monitors[i].output = monitors'[j].output /\ id \in WorkspaceIds(monitors'[j].ws)
            => ActiveWs(monitors'[j]).id = id

\* What may be a request to focus something: not an output that comes or goes,
\* a closed window, a name given or dropped, a config change or the end of an
\* animation.  (A window that closes while it is dragged ends the drag's
\* scrolling, which lands on the nearest workspace.)
MayMoveFocus ==
    /\ Connected' = Connected /\ above' = above /\ NamesInUse' = NamesInUse
    /\ mapped' # mapped /\ mapped' \subseteq mapped => \E i \in DOMAIN monitors : monitors[i].sw = "dnd"
    /\ ~\E done \in SUBSET DOMAIN monitors : AdvanceAnimations(done)

\* Nothing but a request to focus something changes which workspace is
\* active, whatever workspaces the other steps insert and remove around it.
FocusStable == [][FocusKept \/ MayMoveFocus]_vars

\* The ids of the workspaces of a monitor that are in use, in order.
Order(m) == LET used == SelectSeq(m.ws, HasWindowsOrName) IN [k \in DOMAIN used |-> used[k].id]

\* "Only refocus the workspace if it was already focused": reordering the
\* workspaces of a monitor does not change which one is active.
ReorderKeepsFocus ==
    [][ \A i \in DOMAIN monitors \cap DOMAIN monitors' :
            \/ ActiveWs(monitors'[i]).id = ActiveWs(monitors[i]).id
            \/ LET old == Order(monitors[i])
                   new == Order(monitors'[i])
               IN old = new \/ Range(old) # Range(new) ]_vars

\* Monitor::verify_invariants: "monitor must have an unnamed workspace in the
\* end", the empty one that the next window goes to.
LastUnnamed == \A i \in DOMAIN monitors : monitors[i].ws[Len(monitors[i].ws)].name = None

=============================================================================
