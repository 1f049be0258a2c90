---------------------------- MODULE ExtWorkspace ----------------------------
(***************************************************************************)
(* The ext-workspace protocol (protocols/ext_workspace.rs): workspaces and *)
(* outputs are mirrored to a client as handles and groups, refreshed once  *)
(* per turn of the event loop from whatever the layout has become; the     *)
(* client queues requests to assign and to activate, and commits them.     *)
(* What the layout does to its workspaces is the subject of Layout; here   *)
(* it is any small change of who is where and who is active.               *)
(***************************************************************************)
EXTENDS Integers, FiniteSets, Sequences

CONSTANTS
    EwNone,
    EwOutputs, EwWs,
    EwProfiles   \* set-ups: what happens, the names (0 is no name; a number can name
                 \* an index), and the bounds on changes between refreshes and requests queued
VARIABLES
    ewLay,       \* ord: output -> its workspaces in order (EwNone: those without one);
                 \* act: output -> index of the active one; dead: a commit failed
    ewName,      \* workspace -> name
    ewTurn,      \* changes since the last refresh
    ewGroups,    \* workspace_groups
    ewNew,       \* outputs plugged in anew since the last refresh
    ewData,      \* workspaces: what was sent last, or EwNone
    ewMgr,       \* "bound" or "no"
    ewView,      \* workspace -> what the handle of the client says, or EwNone
    ewMem,       \* output -> workspaces of the group of the client, or EwNone
    ewQueue,     \* actions queued; output: "live", "held" by its group only, or "lost"
    ewProfile

ewSrv == <<ewGroups, ewData>>
ewCli == <<ewMgr, ewView, ewMem>>
ewVars == <<ewLay, ewName, ewTurn, ewNew, ewSrv, ewCli, ewQueue, ewProfile>>

EwPlaces == EwOutputs \cup {EwNone}
OnPlaces(l) == {w \in EwWs : \E p \in EwPlaces : \E i \in DOMAIN l.ord[p] : l.ord[p][i] = w}
Existing == OnPlaces(ewLay)
Connected == {o \in EwOutputs : ewLay.ord[o] # <<>>}
Place(l, w) == CHOOSE p \in EwPlaces : \E i \in DOMAIN l.ord[p] : l.ord[p][i] = w
PlaceOf(w) == Place(ewLay, w)
Index(l, w) == LET s == l.ord[Place(l, w)] IN CHOOSE i \in DOMAIN s : s[i] = w
IndexOf(w) == Index(ewLay, w)
InsertedAt(s, i, w) == SubSeq(s, 1, i - 1) \o <<w>> \o SubSeq(s, i, Len(s))
ActiveOn(o, w) == o # EwNone /\ IndexOf(w) = ewLay.act[o]

-----------------------------------------------------------------------------
\* The layouts once w is on o: the monitor it leaves is never without workspaces, and
\* activates any that it has; the one it comes to activates w or stays where it was.
MovesTo(l, w, o) ==
    LET p == Place(l, w)
        others == SelectSeq(l.ord[p], LAMBDA v : v # w)
        rests == IF others # <<>> \/ p = o THEN {others} ELSE {<<v>> : v \in EwWs \ OnPlaces(l)}
        Put(rest, i) == [[l.ord EXCEPT ![p] = rest] EXCEPT ![o] = InsertedAt(@, i, w)]
        Laid(rest, i) == {[l EXCEPT !.ord = Put(rest, i), !.act = [@ EXCEPT ![p] = j, ![o] = k]] :
                            j \in DOMAIN Put(rest, i)[p], k \in {k \in DOMAIN Put(rest, i)[o] : Put(rest, i)[o][k] \in {w, l.ord[o][l.act[o]]}}}
    IN  UNION {Laid(rest, i) : rest \in rests, i \in 1 .. Len(l.ord[o])}
Changes(what) == what \in ewProfile.may /\ ewTurn < ewProfile.turn /\ ewTurn' = ewTurn + 1
LayMove(w, o) ==
    /\ Changes("move") /\ w \in Existing /\ PlaceOf(w) # EwNone /\ o \in Connected
    /\ ewLay' \in MovesTo(ewLay, w, o)
    /\ UNCHANGED <<ewName, ewNew, ewSrv, ewCli, ewQueue>>
LayCreate(w, o) ==
    /\ Changes("create") /\ w \notin Existing /\ o \in Connected
    /\ ewLay' = [ewLay EXCEPT !.ord[o] = Append(@, w)]
    /\ UNCHANGED <<ewName, ewNew, ewSrv, ewCli, ewQueue>>
LayDrop(o) ==
    /\ Changes("create") /\ Len(ewLay.ord[o]) > 1 /\ ewName[ewLay.ord[o][1]] = 0
    /\ ewLay' = [ewLay EXCEPT !.ord[o] = Tail(@), !.act[o] = IF @ > 1 THEN @ - 1 ELSE 1]
    /\ UNCHANGED <<ewName, ewNew, ewSrv, ewCli, ewQueue>>
LayRename(w, name) ==
    /\ Changes("name") /\ w \in Existing /\ (name = 0 \/ \A v \in Existing : ewName[v] # name)
    /\ ewName' = [ewName EXCEPT ![w] = name]
    /\ UNCHANGED <<ewLay, ewNew, ewSrv, ewCli, ewQueue>>
LayUnplug(o) ==
    /\ Changes("plug") /\ o \in Connected
    /\ LET to == IF Connected = {o} THEN EwNone ELSE CHOOSE p \in Connected : p # o
       IN  ewLay' = [ewLay EXCEPT !.ord = [[@ EXCEPT ![to] = @ \o ewLay.ord[o]] EXCEPT ![o] = <<>>]]
    /\ ewNew' = ewNew \ {o}
    /\ ewQueue' = [i \in DOMAIN ewQueue |-> IF ewQueue[i].o = o /\ ewQueue[i].out = "live"
                                           THEN [ewQueue[i] EXCEPT !.out = "held"] ELSE ewQueue[i]]
    /\ UNCHANGED <<ewName, ewSrv, ewCli>>
LayPlug(o) ==
    /\ Changes("plug") /\ o \in EwOutputs \ Connected
    /\ IF Connected = {} THEN ewLay' = [ewLay EXCEPT !.ord = [@ EXCEPT ![o] = ewLay.ord[EwNone], ![EwNone] = <<>>], !.act[o] = 1]
       ELSE \E w \in EwWs \ Existing : ewLay' = [ewLay EXCEPT !.ord[o] = <<w>>, !.act[o] = 1]
    /\ ewNew' = ewNew \cup {o}
    /\ UNCHANGED <<ewName, ewSrv, ewCli, ewQueue>>

-----------------------------------------------------------------------------
\* build_name: the name, or the index as people count.
build_name(w) == IF ewName[w] # 0 THEN ewName[w] ELSE IndexOf(w)
NewData(w) ==
    LET p == PlaceOf(w)
    IN  [id |-> ewName[w], name |-> build_name(w), idx |-> IndexOf(w), active |-> ActiveOn(p, w), out |-> p]
\* refresh_workspace: a name that changes or goes recreates the handle.
recreate(w) == ewData[w].id # 0 /\ ewData[w].id # ewName[w]
IdSet(w) == ewData[w].id # ewName[w]
\* Mutant: the name of an unnamed workspace is not checked when its index changes.
NameCheck_Id(w) == recreate(w) \/ IdSet(w)
NameCheck(w) == recreate(w) \/ (IF ewName[w] # 0 THEN IdSet(w) ELSE ewData[w].idx # IndexOf(w))
DataAfter(w) ==
    IF w \notin Existing THEN EwNone
    ELSE IF ewData[w] = EwNone THEN NewData(w)
    ELSE [NewData(w) EXCEPT !.name = IF NameCheck(w) THEN build_name(w) ELSE ewData[w].name]
\* add_instance tells everything; else each handle hears what changed.
add_instance(data) ==
    [id |-> data.id, ids |-> IF data.id = 0 THEN 0 ELSE 1, name |-> data.name, idx |-> data.idx, active |-> data.active]
Told(view, old, data) ==
    [id |-> IF old.id # data.id THEN data.id ELSE view.id,
     ids |-> IF old.id # data.id THEN view.ids + 1 ELSE view.ids,
     name |-> IF old.name # data.name THEN data.name ELSE view.name,
     idx |-> IF old.idx # data.idx THEN data.idx ELSE view.idx,
     active |-> IF old.active # data.active THEN data.active ELSE view.active]
ViewAfter(w) ==
    IF w \notin Existing \/ ewMgr = "no" THEN EwNone
    ELSE IF ewData[w] = EwNone \/ recreate(w) THEN add_instance(DataAfter(w))
    ELSE IF ewView[w] = EwNone THEN EwNone
    ELSE Told(ewView[w], ewData[w], DataAfter(w))
\* Groups: lost outputs go first, new ones come last, with the workspaces they have.
MemAfter(o) ==
    IF o \notin Connected \/ ewMgr = "no" THEN EwNone
    ELSE IF o \notin ewGroups \/ o \in ewNew THEN {w \in Existing : PlaceOf(w) = o /\ ViewAfter(w) # EwNone}
    ELSE IF ewMem[o] = EwNone THEN EwNone
    ELSE {w \in Existing : /\ PlaceOf(w) = o /\ ViewAfter(w) # EwNone
                           /\ w \in ewMem[o] \/ ewData[w] = EwNone \/ recreate(w) \/ ewData[w].out # o}
refresh ==
    /\ ewTurn > 0 /\ ewTurn' = 0 /\ ewNew' = {}
    /\ ewData' = [w \in EwWs |-> DataAfter(w)]
    /\ ewView' = [w \in EwWs |-> ViewAfter(w)]
    /\ ewMem' = [o \in EwOutputs |-> MemAfter(o)]
    /\ ewGroups' = Connected
    /\ ewQueue' = [i \in DOMAIN ewQueue |-> IF ewQueue[i].out = "held" THEN [ewQueue[i] EXCEPT !.out = "lost"] ELSE ewQueue[i]]
    /\ UNCHANGED <<ewLay, ewName, ewMgr>>

ew_bind ==
    /\ ewMgr = "no" /\ ewMgr' = "bound"
    /\ ewView' = [w \in EwWs |-> IF ewData[w] = EwNone THEN EwNone ELSE add_instance(ewData[w])]
    /\ ewMem' = [o \in EwOutputs |-> IF o \notin ewGroups THEN EwNone
                                    ELSE {w \in EwWs : ewView'[w] # EwNone /\ ewData[w].out = o}]
    /\ UNCHANGED <<ewLay, ewName, ewTurn, ewNew, ewSrv, ewQueue>>
\* Stop, or the client goes.
EwStop ==
    /\ ewMgr = "bound" /\ ewMgr' = "no" /\ ewQueue' = <<>>
    /\ ewView' = [w \in EwWs |-> EwNone] /\ ewMem' = [o \in EwOutputs |-> EwNone]
    /\ UNCHANGED <<ewLay, ewName, ewTurn, ewNew, ewSrv>>
\* The client destroys a handle, or a group.
ReleaseWorkspace(w) ==
    /\ "release" \in ewProfile.may /\ ewView[w] # EwNone
    /\ ewView' = [ewView EXCEPT ![w] = EwNone]
    /\ ewMem' = [p \in EwOutputs |-> IF ewMem[p] = EwNone THEN EwNone ELSE ewMem[p] \ {w}]
    /\ UNCHANGED <<ewLay, ewName, ewTurn, ewNew, ewSrv, ewMgr, ewQueue>>
ReleaseGroup(o) ==
    /\ "release" \in ewProfile.may /\ ewMem[o] # EwNone
    /\ ewMem' = [ewMem EXCEPT ![o] = EwNone]
    /\ UNCHANGED <<ewLay, ewName, ewTurn, ewNew, ewSrv, ewMgr, ewView, ewQueue>>

\* Activate (o is EwNone), Assign: to the output of the group as long as there is one.
Request(w, o) ==
    /\ "commit" \in ewProfile.may /\ ewView[w] # EwNone /\ Len(ewQueue) < ewProfile.acts
    /\ (o # EwNone) => (ewMem[o] # EwNone)
    /\ ewQueue' = Append(ewQueue, [w |-> w, o |-> o, out |-> IF o = EwNone \/ (o \in Connected /\ o \notin ewNew)
                                                             THEN "live" ELSE "held"])
    /\ UNCHANGED <<ewLay, ewName, ewTurn, ewNew, ewSrv, ewCli>>
\* Mutant: in the order they came.
InOrder_AsSent(queue) == queue
\* Assignments first, then activations (a stable sort).
InOrder(queue) ==
    SelectSeq(queue, LAMBDA a : a.o # EwNone) \o SelectSeq(queue, LAMBDA a : a.o = EwNone)
\* activate_workspace; assign_workspace looks the output up, and fails on one that the
\* layout has lost but a group still holds.
EwPerform(l, a) ==
    IF a.w \notin OnPlaces(l) \/ Place(l, a.w) = EwNone \/ a.out = "lost" THEN {l}
    ELSE IF a.o = EwNone THEN {[l EXCEPT !.act[Place(l, a.w)] = Index(l, a.w)]}
    ELSE IF a.out = "held" THEN {[l EXCEPT !.dead = TRUE]}
    ELSE IF Place(l, a.w) = a.o THEN {l}
    ELSE MovesTo(l, a.w, a.o)
PerformAll(lay, queue) ==
    LET after[n \in 0 .. Len(queue)] ==
            IF n = 0 THEN {lay} ELSE UNION {EwPerform(l, queue[n]) : l \in after[n - 1]}
    IN  after[Len(queue)]
EwCommit ==
    /\ ewQueue # <<>> /\ ewTurn <= ewProfile.turn
    /\ ewLay' \in PerformAll(ewLay, InOrder(ewQueue))
    /\ ewQueue' = <<>> /\ ewTurn' = ewTurn + 1
    /\ UNCHANGED <<ewName, ewNew, ewSrv, ewCli>>

EwInit ==
    /\ ewProfile \in EwProfiles
    /\ ewLay = [ord |-> [p \in EwPlaces |-> IF p \in DOMAIN ewProfile.start THEN ewProfile.start[p] ELSE <<>>],
                act |-> [p \in EwPlaces |-> 1], dead |-> FALSE]
    /\ ewName = [w \in EwWs |-> 0] /\ ewNew = {}
    /\ ewTurn = 1 /\ ewGroups = {} /\ ewData = [w \in EwWs |-> EwNone]
    /\ ewMgr = "no" /\ ewView = [w \in EwWs |-> EwNone] /\ ewMem = [o \in EwOutputs |-> EwNone]
    /\ ewQueue = <<>>
EwStep ==
    \/ refresh \/ ew_bind \/ EwStop \/ EwCommit
    \/ \E w \in EwWs, o \in EwOutputs : LayMove(w, o) \/ LayCreate(w, o)
    \/ \E o \in EwOutputs : LayUnplug(o) \/ LayPlug(o) \/ LayDrop(o) \/ ReleaseGroup(o)
    \/ \E w \in EwWs, name \in ewProfile.names : LayRename(w, name)
    \/ \E w \in EwWs : ReleaseWorkspace(w) \/ \E o \in EwPlaces : Request(w, o)
EwNext == ~ewLay.dead /\ EwStep /\ UNCHANGED ewProfile
EwSpec == EwInit /\ [][EwNext]_ewVars

-----------------------------------------------------------------------------
\* After a refresh every handle of the client says what the layout has, and every
\* group has the workspaces of its output: the changes sent add up, although a
\* handle hears of an id once ("id cannot change once set").
ViewMirrorsLayout ==
    /\ \A w \in EwWs : ewView[w] # EwNone => ewView[w].ids <= 1
    /\ ewTurn = 0 =>
        /\ \A w \in EwWs : ewView[w] # EwNone =>
              /\ w \in Existing /\ ewView[w].id = ewName[w] /\ ewView[w].name = build_name(w)
              /\ ewView[w].idx = IndexOf(w) /\ ewView[w].active = ActiveOn(PlaceOf(w), w)
        /\ \A o \in EwOutputs : ewMem[o] # EwNone =>
              ewMem[o] = {w \in Existing : PlaceOf(w) = o /\ ewView[w] # EwNone}

\* The workspace of the last activation asked for.
AskedLast(w) ==
    LET asked == SelectSeq(ewQueue, LAMBDA a : a.o = EwNone)
    IN  asked # <<>> /\ asked[Len(asked)].w = w
ShownWhereItIs(w) == (w \in Existing /\ PlaceOf(w) # EwNone) => ActiveOn(PlaceOf(w), w)
\* A commit ends with the workspace that it activates last active on its output,
\* wherever the same commit has moved it: the sort of Action::order.
ActivatedIsActive ==
    [][\A w \in EwWs : (AskedLast(w) /\ ewQueue' = <<>> /\ ewMgr' = "bound" /\ ~ewLay'.dead) => ShownWhereItIs(w)']_ewVars

\* An assignment finds its output: move_workspace_to_output_by_id unwraps the search.
AssignFindsOutput == ~ewLay.dead
=============================================================================
