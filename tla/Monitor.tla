------------------------------ MODULE Monitor ------------------------------
(***************************************************************************)
(* The dynamic workspaces of one monitor (src/src/layout/monitor.rs), as   *)
(* functions on a monitor's value: every operation of Monitor that inserts,*)
(* removes, reorders or activates workspaces.                              *)
(*                                                                         *)
(*   output   the output's identity                                        *)
(*   above    options.layout.empty_workspace_above_first                   *)
(*   ws       the workspaces, top to bottom                                *)
(*   active   active_workspace_idx, counted from 1                         *)
(*   prev     previous_workspace_id                                        *)
(*   sw       workspace_switch: none, an animation, a touch gesture or a   *)
(*            drag-and-drop scroll                                         *)
(*   ok       no assert! of the code has failed                            *)
(*                                                                         *)
(* A workspace is its id, its name, the set of its windows and the output  *)
(* it came from (original_output).  Where its windows are inside it is the *)
(* business of the scrolling and the floating layout, not of the monitor.  *)
(* New ids come from a global counter; here a new id is one that nothing   *)
(* in the layout uses or remembers, so that finitely many are enough.      *)
(***************************************************************************)
EXTENDS Vec

CONSTANTS None     \* no name, no workspace id, no output

HasWindowsOrName(w) == w.wins # {} \/ w.name # None

\* Where ws has workspaces with windows or a name.
InUse(ws) == {i \in DOMAIN ws : HasWindowsOrName(ws[i])}

WorkspaceIds(ws) == {ws[i].id : i \in DOMAIN ws}

\* Some id outside the set used.
FreshId(used) == CHOOSE n \in 1..(Cardinality(used) + 1) :
                    n \notin used /\ \A k \in 1..(n - 1) : k \in used

\* The first n ids outside the set used.
FreshIds(used, n) == {k \in 1..(Cardinality(used) + n) :
                         k \notin used /\ Cardinality((1..k) \ used) <= n}

NewWorkspace(id, output) == [id |-> id, name |-> None, wins |-> {}, own |-> output]

Position(ws, id) == position({i \in DOMAIN ws : ws[i].id = id})

ActiveWs(m) == m.ws[m.active]

Pred(i) == IF i > 1 THEN i - 1 ELSE i      \* saturating_sub(1)

Least(i, j) == IF i < j THEN i ELSE j

-----------------------------------------------------------------------------
\* Monitor::add_workspace_at; used holds the ids that are taken.
AddWorkspaceAt(m, i, used) ==
    LET id == FreshId(used \cup WorkspaceIds(m.ws)) IN
    [m EXCEPT !.ws = insert(@, i, NewWorkspace(id, m.output)),
              !.active = IF i <= @ THEN @ + 1 ELSE @]

AddWorkspaceTop(m, used) == AddWorkspaceAt(m, 1, used)
AddWorkspaceBottom(m, used) == AddWorkspaceAt(m, Len(m.ws) + 1, used)

\* Monitor::activate_workspace.
ActivateWorkspace(m, i) ==
    [m EXCEPT !.prev = IF i # m.active THEN ActiveWs(m).id ELSE @,
              !.active = i,
              !.sw = IF @ = "dnd" \/ i = m.active THEN @ ELSE "animation"]

\* Monitor::clean_up_workspaces.
CleanUp(m) ==
    LET keep == {i \in DOMAIN m.ws : \/ HasWindowsOrName(m.ws[i])
                                     \/ i \in {m.active, Len(m.ws)}
                                     \/ m.above /\ i = 1}
        ws == retain(m.ws, keep)
    IN IF m.above /\ Len(ws) = 2
       THEN [m EXCEPT !.ws = <<ws[1]>>, !.active = 1,
                      !.ok = @ /\ m.sw = "none" /\ ~HasWindowsOrName(ws[1])
                               /\ ~HasWindowsOrName(ws[2])]
       ELSE [m EXCEPT !.ws = ws, !.active = Rank(keep, @) + 1,
                      !.ok = @ /\ m.sw = "none"]

CleanUpIfIdle(m) == IF m.sw = "none" THEN CleanUp(m) ELSE m

\* An empty workspace at the bottom, and one at the top, where they are needed.
Surround(m, bottom, top, used) ==
    LET b == IF bottom THEN AddWorkspaceBottom(m, used) ELSE m IN
    IF top THEN AddWorkspaceTop(b, used) ELSE b

\* Mutant: the first workspace is used up and no empty one is put above it.
GrowAround_NoTop(m, i, used) == Surround(m, i = Len(m.ws), FALSE, used)

\* What follows once the workspace at index i got a window, a name or another
\* place: it is neither the bottom nor, with an empty one above, the top.
GrowAround(m, i, used) == Surround(m, i = Len(m.ws), m.above /\ i = 1, used)

Shifted(m, i) == IF m.above /\ i = 1 THEN i + 1 ELSE i

\* Monitor::add_tile, add_column and add_tile_to_column: the windows wins go
\* to the workspace at index i, which is then activated or not.
AddWindows(m, wins, i, used, activate) ==
    LET put == [m EXCEPT !.ws[i].wins = @ \cup wins,
                         !.ws[i].own = IF m.ws[i].name = None THEN m.output ELSE @]
        grown == GrowAround(put, i, used)
    IN IF activate THEN ActivateWorkspace(grown, Shifted(m, i)) ELSE grown

\* Workspace::remove_tile and remove_active_column on the workspace at i.
TakeWindows(m, wins, i) == [m EXCEPT !.ws[i].wins = @ \ wins]

\* The part of Layout::remove_window that runs on the window's monitor.
RemoveWindowAt(m, w, i) ==
    LET t == TakeWindows(m, {w}, i)
        gone == /\ ~HasWindowsOrName(t.ws[i])
                /\ i # t.active /\ i # Len(t.ws) /\ t.sw = "none"
        r == IF gone
             THEN [t EXCEPT !.ws = remove(@, i), !.active = IF i < @ THEN @ - 1 ELSE @]
             ELSE t
    IN IF r.above /\ Len(r.ws) = 2 /\ r.sw = "none"
       THEN [r EXCEPT !.ws = <<r.ws[1]>>, !.active = 1,
                      !.ok = @ /\ ~HasWindowsOrName(r.ws[1]) /\ ~HasWindowsOrName(r.ws[2])]
       ELSE r

\* Monitor::unname_workspace of the workspace at index i.
UnnameWorkspace(m, i) == CleanUpIfIdle([m EXCEPT !.ws[i].name = None])

\* The monitor's part of Layout::set_workspace_name; only the active monitor
\* gets the workspaces around the named one.
NameWorkspace(m, i, name, used, isActive) ==
    LET n == [m EXCEPT !.ws[i].name = name] IN
    IF isActive THEN GrowAround(n, i, used) ELSE n

-----------------------------------------------------------------------------
\* Monitor::remove_workspace_by_idx: the monitor afterwards.  The workspace
\* itself is m.ws[i].
RemoveWorkspaceByIdx(m, i, used) ==
    LET g == GrowAround(m, i, used)
        j == Shifted(m, i)
    IN CleanUp([g EXCEPT !.ws = remove(@, j),
                         !.active = IF j <= @ THEN Pred(@) ELSE @,
                         !.sw = "none"])

\* Monitor::insert_workspace.
InsertWorkspace(m, w, i, used, activate) ==
    LET i1 == IF i = Len(m.ws) + 1 THEN i - 1 ELSE i
        g  == IF m.above /\ i1 = 1 THEN AddWorkspaceTop(m, used \cup {w.id}) ELSE m
        j  == Shifted(m, i1)
        n  == [g EXCEPT !.ws = insert(@, j, w), !.active = IF j <= @ THEN @ + 1 ELSE @]
        a  == IF activate THEN ActivateWorkspace([n EXCEPT !.sw = "none"], j) ELSE n
    IN CleanUp([a EXCEPT !.sw = "none"])

\* Monitor::append_workspaces.
AppendWorkspaces(m, ws, used) ==
    IF ws = <<>> THEN m
    ELSE LET p == [m EXCEPT !.ws = remove(@, Len(@)) \o ws \o <<@[Len(@)]>>]
             t == IF p.above /\ HasWindowsOrName(p.ws[1]) THEN AddWorkspaceTop(p, used) ELSE p
         IN CleanUp([t EXCEPT !.active = IF m.active = Len(m.ws) THEN Len(t.ws) ELSE @,
                              !.sw = "none"])

\* Mutant: the index to activate is not shifted by the empty workspace on top.
NewMonitor_UnshiftedActive(output, above, ws, toActivate, used) ==
    LET i == Position(ws, toActivate)
        top == above /\ ws # <<>>
        first == IF top THEN <<NewWorkspace(FreshId(used), output)>> ELSE <<>>
        last == NewWorkspace(FreshId(used \cup WorkspaceIds(first)), output)
    IN [output |-> output, above |-> above, ws |-> first \o ws \o <<last>>,
        active |-> IF i = 0 THEN 1 ELSE i, prev |-> None, sw |-> "none", ok |-> TRUE]

\* Monitor::new.
NewMonitor(output, above, ws, toActivate, used) ==
    LET i == Position(ws, toActivate)
        top == above /\ ws # <<>>
        id1 == FreshId(used)
        id2 == FreshId(used \cup {id1})
        first == IF top THEN <<NewWorkspace(id1, output)>> ELSE <<>>
    IN [output |-> output, above |-> above,
        ws |-> first \o ws \o <<NewWorkspace(IF top THEN id2 ELSE id1, output)>>,
        active |-> (IF i = 0 THEN 1 ELSE i) + Len(first),
        prev |-> None, sw |-> "none",
        ok |-> \A k \in DOMAIN ws : HasWindowsOrName(ws[k])]

\* Monitor::into_workspaces.
IntoWorkspaces(m) == retain(m.ws, InUse(m.ws))

\* Mutant: the active index counts one workspace too many.
GiveBack_OffByOne(m, o) ==
    LET ws == retain(m.ws, {i \in DOMAIN m.ws : m.ws[i].own # o})
    IN CleanUp([m EXCEPT !.ws = ws, !.active = Least(@, Len(ws)), !.sw = "none"])

\* Layout::add_output takes the workspaces that came from output o back from
\* the primary monitor m.  Each one up to the active one lowers the active
\* index, but not below the first workspace in use.
GiveBack(m, o) ==
    LET taken == {i \in DOMAIN m.ws : m.ws[i].own = o}
        before == Cardinality({i \in taken : i <= m.active})
        low == IF m.above THEN Least(m.active, 2) ELSE 1
        r == [m EXCEPT !.ws = retain(@, DOMAIN @ \ taken),
                       !.active = IF @ > low + before THEN @ - before ELSE low,
                       !.sw = IF taken = {} THEN @ ELSE "none"]
    IN IF r.sw # m.sw \/ (r.above /\ Len(r.ws) = 2) THEN CleanUp(r) ELSE r

-----------------------------------------------------------------------------
\* Monitor::move_workspace_down and move_workspace_up: i is the new index.
MoveActiveWorkspace(m, i, used) ==
    IF i = m.active THEN m
    ELSE LET s == [m EXCEPT !.ws = [@ EXCEPT ![i] = m.ws[m.active], ![m.active] = m.ws[i]]]
             low == IF i > m.active THEN i ELSE m.active
             high == IF i > m.active THEN m.active ELSE i
             top == m.above /\ high = 1
             t == Surround(s, low = Len(s.ws), top, used)
             a == ActivateWorkspace(t, IF top THEN i + 1 ELSE i)
         IN CleanUp([a EXCEPT !.sw = "none", !.prev = m.prev])

MoveWorkspaceDown(m, used) == MoveActiveWorkspace(m, Least(m.active + 1, Len(m.ws)), used)
MoveWorkspaceUp(m, used) == MoveActiveWorkspace(m, Pred(m.active), used)

\* How move_workspace_to_idx adjusts the active index, its comparisons being
\* made with the index add_workspace_top may have shifted.
RefocusMoved(active, old, new) ==
    IF active = old THEN new
    ELSE IF new <= active /\ old > active THEN active + 1
    ELSE IF new >= active /\ old < active THEN Pred(active)
    ELSE active

\* Monitor::move_workspace_to_idx.
MoveWorkspaceToIdx(m, old, to, used) ==
    LET new == Least(to, Len(m.ws)) IN
    IF old > Len(m.ws) \/ old = new THEN m
    ELSE LET s == [m EXCEPT !.ws = insert(remove(@, old), new, m.ws[old])]
             low == IF new > old THEN new ELSE old
             high == IF new > old THEN old ELSE new
             top == m.above /\ high = 1
             t == Surround(s, low = Len(s.ws), top, used)
         IN CleanUp([t EXCEPT !.active = RefocusMoved(@, old, IF top THEN new + 1 ELSE new),
                              !.sw = "none"])

\* Mutant: the active index does not follow the workspace at the top.
UpdateAbove_KeepsIndex(m, above, used) ==
    LET n == [m EXCEPT !.above = above] IN
    IF above = m.above \/ Len(m.ws) = 1 THEN n
    ELSE IF above THEN [n EXCEPT !.ws = AddWorkspaceTop(n, used).ws]
    ELSE IF m.sw = "none" /\ m.active # 1 THEN [n EXCEPT !.ws = Tail(@), !.active = Pred(@)]
    ELSE n

\* Monitor::update_config when empty_workspace_above_first becomes above.
UpdateAbove(m, above, used) ==
    LET n == [m EXCEPT !.above = above] IN
    IF above = m.above \/ Len(m.ws) = 1 THEN n
    ELSE IF above THEN AddWorkspaceTop(n, used)
    ELSE IF m.sw = "none" /\ m.active # 1
    THEN [n EXCEPT !.ws = Tail(@), !.active = Pred(@)]
    ELSE n

-----------------------------------------------------------------------------
\* workspace_switch_gesture_end that lands on index i.
GestureEnd(m, i) ==
    [m EXCEPT !.prev = IF i # m.active THEN ActiveWs(m).id ELSE @,
              !.active = i, !.sw = "animation"]

\* dnd_scroll_gesture_begin.
DndScrollBegin(m, overview) == IF overview THEN [m EXCEPT !.sw = "dnd"] ELSE m

\* dnd_scroll_gesture_end that lands on index i.
DndScrollEnd(m, i) == IF m.sw = "dnd" THEN GestureEnd(m, i) ELSE m

\* Mutant: empty workspaces are not cleaned up after a switch.
SwitchDone_NoCleanUp(m) == [m EXCEPT !.sw = "none"]

\* advance_animations when the switch animation is done.
SwitchDone(m) == CleanUp([m EXCEPT !.sw = "none"])

-----------------------------------------------------------------------------
\* The assertions of Monitor::verify_invariants about the workspaces.
WellFormed(m) ==
    /\ m.ok
    /\ m.active \in DOMAIN m.ws
    /\ ~HasWindowsOrName(m.ws[Len(m.ws)])
    /\ m.above => ~HasWindowsOrName(Head(m.ws)) /\ Len(m.ws) # 2
    /\ m.sw = "none" =>
         \A i \in DOMAIN m.ws :
            i \in {m.active, Len(m.ws)} \/ (m.above /\ i = 1) \/ HasWindowsOrName(m.ws[i])

=============================================================================
