---------------------------- MODULE EventStream ----------------------------
(***************************************************************************)
(* The IPC event stream (src/ipc/server.rs and niri-ipc/src/state.rs).     *)
(* After every iteration the compositor compares its layout with the       *)
(* EventStreamState it published, sends the differences as events and      *)
(* applies the same events to its own copy.  A client that subscribes      *)
(* first gets a burst that rebuilds the copy from nothing, then the        *)
(* events, through a bounded channel that cuts slow readers off.           *)
(*                                                                         *)
(* A state is a record [ws, wins, kb, overview, failed].  A workspace is   *)
(* [spot, out, act, urg, active, focused], where spot stands for index and *)
(* name; a window is [data, lay, focused, urg, ts], where data stands for  *)
(* title, app id, workspace and floating.                                  *)
(***************************************************************************)
EXTENDS Naturals, Sequences, FiniteSets, SequencesExt

CONSTANTS EsClients,     \* IPC clients
          EsCap,         \* EVENT_STREAM_BUFFER_SIZE
          EsStates,      \* profile -> the layout states it goes through
          EsProfiles,
          EsSteps,       \* profile -> how often the state changes
          EsStreams      \* profile -> how many streams there are at a time

VARIABLES esReal,     \* what the compositor's state is now
          esPub,      \* event_stream_state
          esConn,     \* client -> "none", "live", "gone" or "cut"
          esView,     \* client -> the EventStreamState it has built
          esQueue,    \* client -> events in its channel
          esSteps, esProfile

esVars == <<esReal, esPub, esConn, esView, esQueue, esSteps, esProfile>>

Nothing == [x \in {} |-> x]

Default == [ws |-> Nothing, wins |-> Nothing, kb |-> <<>>, overview |-> FALSE, failed |-> FALSE]

Without(f, x) == [y \in DOMAIN f \ {x} |-> f[y]]
With(f, x, v) == [y \in DOMAIN f \union {x} |-> IF y = x THEN v ELSE f[y]]
Mapped(f, Op(_, _)) == [x \in DOMAIN f |-> Op(x, f[x])]

(***************************************************************************)
(* EventStreamState::apply, the same code in the compositor and a client.  *)
(***************************************************************************)
\* The `expect's of apply: the event names something the copy has.
CanApply(s, e) ==
  CASE e.kind \in {"WorkspaceActivated", "WorkspaceActiveWindowChanged"} -> e.id \in DOMAIN s.ws
    [] e.kind = "WindowClosed" -> e.id \in DOMAIN s.wins
    [] e.kind = "WindowLayoutsChanged" -> DOMAIN e.lays \subseteq DOMAIN s.wins
    [] e.kind = "KeyboardLayoutSwitched" -> s.kb # <<>>
    [] OTHER -> TRUE

apply_workspaces(s, e) ==
  CASE e.kind = "WorkspacesChanged" -> [s EXCEPT !.ws = e.ws]
    [] e.kind = "WorkspaceUrgencyChanged" ->
         [s EXCEPT !.ws = Mapped(s.ws, LAMBDA id, w : IF id = e.id THEN [w EXCEPT !.urg = e.urg] ELSE w)]
    [] e.kind = "WorkspaceActiveWindowChanged" -> [s EXCEPT !.ws[e.id].act = e.act]
    [] e.kind = "WorkspaceActivated" ->
         [s EXCEPT !.ws = Mapped(s.ws, LAMBDA id, w :
            [w EXCEPT !.active = IF w.out = s.ws[e.id].out THEN id = e.id ELSE @,
                      !.focused = IF e.focused THEN id = e.id ELSE @])]
    [] OTHER -> s

apply_windows(s, e) ==
  CASE e.kind = "WindowsChanged" -> [s EXCEPT !.wins = e.wins]
    [] e.kind = "WindowOpenedOrChanged" ->
         [s EXCEPT !.wins = Mapped(With(s.wins, e.id, e.win), LAMBDA id, w :
            IF e.win.focused /\ id # e.id THEN [w EXCEPT !.focused = FALSE] ELSE w)]
    [] e.kind = "WindowClosed" -> [s EXCEPT !.wins = Without(s.wins, e.id)]
    [] e.kind = "WindowFocusChanged" ->
         [s EXCEPT !.wins = Mapped(s.wins, LAMBDA id, w : [w EXCEPT !.focused = id \in e.ids])]
    [] e.kind = "WindowFocusTimestampChanged" ->
         [s EXCEPT !.wins = Mapped(s.wins, LAMBDA id, w : IF id = e.id THEN [w EXCEPT !.ts = e.ts] ELSE w)]
    [] e.kind = "WindowUrgencyChanged" ->
         [s EXCEPT !.wins = Mapped(s.wins, LAMBDA id, w : IF id = e.id THEN [w EXCEPT !.urg = e.urg] ELSE w)]
    [] e.kind = "WindowLayoutsChanged" ->
         [s EXCEPT !.wins = Mapped(s.wins, LAMBDA id, w :
            IF id \in DOMAIN e.lays THEN [w EXCEPT !.lay = e.lays[id]] ELSE w)]
    [] OTHER -> s

apply_rest(s, e) ==
  CASE e.kind = "KeyboardLayoutsChanged" -> [s EXCEPT !.kb = e.kb]
    [] e.kind = "KeyboardLayoutSwitched" -> [s EXCEPT !.kb[2] = e.idx]
    [] e.kind = "OverviewOpenedOrClosed" -> [s EXCEPT !.overview = e.open]
    [] e.kind = "ConfigLoaded" -> [s EXCEPT !.failed = e.failed]
    [] OTHER -> s

Apply(s, e) == apply_rest(apply_windows(apply_workspaces(s, e), e), e)

\* The states a copy goes through as it applies a sequence of events.
RECURSIVE States(_, _)
States(s, events) ==
  IF events = <<>> THEN <<>>
  ELSE LET next == Apply(s, Head(events)) IN <<next>> \o States(next, Tail(events))

replicate(s) ==
  <<[kind |-> "WorkspacesChanged", ws |-> s.ws], [kind |-> "WindowsChanged", wins |-> s.wins]>>
  \o (IF s.kb = <<>> THEN <<>> ELSE <<[kind |-> "KeyboardLayoutsChanged", kb |-> s.kb]>>)
  \o <<[kind |-> "OverviewOpenedOrClosed", open |-> s.overview],
       [kind |-> "ConfigLoaded", failed |-> s.failed]>>

(***************************************************************************)
(* The differences between the layout r and the published copy p, walking  *)
(* the layout in the order `ids'.                                          *)
(***************************************************************************)
need_workspaces_changed(r, p) ==
  \/ \E id \in DOMAIN r.ws : \/ id \notin DOMAIN p.ws
                             \/ p.ws[id].spot # r.ws[id].spot \/ p.ws[id].out # r.ws[id].out
  \/ DOMAIN p.ws \ DOMAIN r.ws # {}

WorkspaceEvents(id, new, old) ==
  (IF old.act # new.act
   THEN <<[kind |-> "WorkspaceActiveWindowChanged", id |-> id, act |-> new.act]>> ELSE <<>>)
  \o (IF old.urg # new.urg
      THEN <<[kind |-> "WorkspaceUrgencyChanged", id |-> id, urg |-> new.urg]>> ELSE <<>>)
  \o (IF new.focused /\ ~old.focused
      THEN <<[kind |-> "WorkspaceActivated", id |-> id, focused |-> TRUE]>>
      ELSE IF new.active /\ ~old.active
      THEN <<[kind |-> "WorkspaceActivated", id |-> id, focused |-> FALSE]>> ELSE <<>>)

ipc_refresh_workspaces(r, p, ids) ==
  IF need_workspaces_changed(r, p) THEN <<[kind |-> "WorkspacesChanged", ws |-> r.ws]>>
  ELSE FlattenSeq([i \in DOMAIN ids |-> WorkspaceEvents(ids[i], r.ws[ids[i]], p.ws[ids[i]])])

WindowEvents(id, new, p) ==
  IF id \notin DOMAIN p.wins \/ p.wins[id].data # new.data
  THEN <<[kind |-> "WindowOpenedOrChanged", id |-> id, win |-> new]>>
  ELSE (IF new.focused /\ ~p.wins[id].focused
        THEN <<[kind |-> "WindowFocusChanged", ids |-> {id}]>> ELSE <<>>)
       \o (IF new.ts # p.wins[id].ts
           THEN <<[kind |-> "WindowFocusTimestampChanged", id |-> id, ts |-> new.ts]>> ELSE <<>>)
       \o (IF new.urg # p.wins[id].urg
           THEN <<[kind |-> "WindowUrgencyChanged", id |-> id, urg |-> new.urg]>> ELSE <<>>)

\* Windows reported whole carry their layout; the others are batched.
ChangedLayouts(r, p) ==
  {id \in DOMAIN r.wins \intersect DOMAIN p.wins :
     p.wins[id].data = r.wins[id].data /\ p.wins[id].lay # r.wins[id].lay}

\* Mutant: losing the focus altogether is not reported.
ipc_refresh_windows_KeepsFocus(r, p, ids) ==
  FlattenSeq([i \in DOMAIN ids |-> WindowEvents(ids[i], r.wins[ids[i]], p)])
  \o (IF ChangedLayouts(r, p) = {} THEN <<>>
      ELSE <<[kind |-> "WindowLayoutsChanged",
              lays |-> [id \in ChangedLayouts(r, p) |-> r.wins[id].lay]]>>)
  \o [i \in 1..Cardinality(DOMAIN p.wins \ DOMAIN r.wins) |->
        [kind |-> "WindowClosed", id |-> SetToSeq(DOMAIN p.wins \ DOMAIN r.wins)[i]]]

\* Closed windows come in the order of a hash map; the events commute.
ipc_refresh_windows(r, p, ids) ==
  FlattenSeq([i \in DOMAIN ids |-> WindowEvents(ids[i], r.wins[ids[i]], p)])
  \o (IF ChangedLayouts(r, p) = {} THEN <<>>
      ELSE <<[kind |-> "WindowLayoutsChanged",
              lays |-> [id \in ChangedLayouts(r, p) |-> r.wins[id].lay]]>>)
  \o [i \in 1..Cardinality(DOMAIN p.wins \ DOMAIN r.wins) |->
        [kind |-> "WindowClosed", id |-> SetToSeq(DOMAIN p.wins \ DOMAIN r.wins)[i]]]
  \o (IF (\A id \in DOMAIN r.wins : ~r.wins[id].focused) /\ \E id \in DOMAIN p.wins : p.wins[id].focused
      THEN <<[kind |-> "WindowFocusChanged", ids |-> {}]>> ELSE <<>>)

ipc_refresh_overview(r, p) ==
  IF r.overview = p.overview THEN <<>>
  ELSE <<[kind |-> "OverviewOpenedOrClosed", open |-> r.overview]>>

ipc_refresh_keyboard_layout_index(r, p) ==
  IF r.kb[2] = p.kb[2] THEN <<>> ELSE <<[kind |-> "KeyboardLayoutSwitched", idx |-> r.kb[2]]>>

(***************************************************************************)
(* Sending.                                                                *)
(***************************************************************************)
\* Mutant: a full channel loses the event and keeps the client.
send_event_Drops(cs, e) ==
  [c \in EsClients |->
     IF cs[c].conn = "live" /\ Len(cs[c].queue) < EsCap
     THEN [cs[c] EXCEPT !.queue = Append(@, e)] ELSE cs[c]]

\* A full channel cuts the client off; a closed one is forgotten.
send_event(cs, e) ==
  [c \in EsClients |->
     CASE cs[c].conn = "live" -> IF Len(cs[c].queue) < EsCap THEN [cs[c] EXCEPT !.queue = Append(@, e)]
                                 ELSE [conn |-> "cut", queue |-> <<>>]
       [] cs[c].conn = "gone" -> [cs[c] EXCEPT !.conn = "none"]
       [] OTHER -> cs[c]]

RECURSIVE SendAll(_, _)
SendAll(cs, events) ==
  IF events = <<>> THEN cs ELSE SendAll(send_event(cs, Head(events)), Tail(events))

\* Every event is applied to the published copy and then sent.
Send(events) ==
  LET cs == SendAll([c \in EsClients |-> [conn |-> esConn[c], queue |-> esQueue[c]]], events)
  IN /\ esPub' = Last(<<esPub>> \o States(esPub, events))
     /\ esConn' = [c \in EsClients |-> cs[c].conn]
     /\ esQueue' = [c \in EsClients |-> cs[c].queue]
     /\ UNCHANGED esView

EsInit ==
  /\ esProfile \in EsProfiles
  /\ esReal \in EsStates[esProfile]
  /\ esPub = esReal
  /\ esConn = [c \in EsClients |-> "none"]
  /\ esView = [c \in EsClients |-> Default]
  /\ esQueue = [c \in EsClients |-> <<>>]
  /\ esSteps = EsSteps[esProfile]

Order(s, rev) == IF rev THEN Reverse(SetToSortSeq(s, <)) ELSE SetToSortSeq(s, <)

\* Anything may have happened to the layout since the last refresh().
EsRefresh ==
  /\ esSteps > 0
  /\ \E r \in EsStates[esProfile], rev \in BOOLEAN :
       /\ r.kb[1] = esReal.kb[1] /\ esReal' = [r EXCEPT !.failed = esReal.failed]
       /\ esReal' # esReal
       /\ Send(ipc_refresh_workspaces(r, esPub, Order(DOMAIN r.ws, rev))
               \o ipc_refresh_windows(r, esPub, Order(DOMAIN r.wins, rev))
               \o ipc_refresh_overview(r, esPub)
               \o ipc_refresh_keyboard_layout_index(r, esPub))
  /\ esSteps' = esSteps - 1
  /\ UNCHANGED esProfile

ipc_keyboard_layouts_changed ==
  /\ esSteps > 0
  /\ \E kb \in {r.kb : r \in EsStates[esProfile]} :
       /\ esReal' = [esReal EXCEPT !.kb = kb]
       /\ Send(<<[kind |-> "KeyboardLayoutsChanged", kb |-> kb]>>)
  /\ esSteps' = esSteps - 1
  /\ UNCHANGED esProfile

ipc_config_loaded ==
  /\ esSteps > 0
  /\ \E failed \in BOOLEAN :
       /\ esReal' = [esReal EXCEPT !.failed = failed]
       /\ Send(<<[kind |-> "ConfigLoaded", failed |-> failed]>>)
  /\ esSteps' = esSteps - 1
  /\ UNCHANGED esProfile

\* No await between the burst and joining event_streams.
EsSubscribe(c) ==
  /\ esConn[c] = "none"
  /\ Cardinality({d \in EsClients : esConn[d] # "none"}) < EsStreams[esProfile]
  /\ esConn' = [esConn EXCEPT ![c] = "live"]
  /\ esQueue' = [esQueue EXCEPT ![c] = replicate(esPub)]
  /\ esView' = [esView EXCEPT ![c] = Default]
  /\ UNCHANGED <<esReal, esPub, esSteps, esProfile>>

\* handle_event_stream_client writes an event and the client applies it.
Deliver(c) ==
  /\ esConn[c] = "live" /\ esQueue[c] # <<>>
  /\ esView' = [esView EXCEPT ![c] = Apply(@, Head(esQueue[c]))]
  /\ esQueue' = [esQueue EXCEPT ![c] = Tail(@)]
  /\ UNCHANGED <<esReal, esPub, esConn, esSteps, esProfile>>

\* The write fails, which ends the task and closes the channel.
Hangup(c) ==
  /\ esConn[c] = "live"
  /\ esConn' = [esConn EXCEPT ![c] = "gone"]
  /\ esQueue' = [esQueue EXCEPT ![c] = <<>>]
  /\ UNCHANGED <<esReal, esPub, esView, esSteps, esProfile>>

EsNext ==
  \/ EsRefresh \/ ipc_keyboard_layouts_changed \/ ipc_config_loaded
  \/ \E c \in EsClients : EsSubscribe(c) \/ Deliver(c) \/ Hangup(c)

(***************************************************************************)
(* Properties.                                                             *)
(***************************************************************************)
\* The differences found by ipc_refresh_layout, applied one by one, turn the
\* published copy into exactly the compositor's state, and no event names a
\* workspace or window the client's copy lacks, in any state it can be in when the
\* event arrives: the `expect's of apply never fail.
EventsApply ==
  /\ esPub = esReal
  /\ \A c \in EsClients : esConn[c] = "live" /\ esQueue[c] # <<>> => CanApply(esView[c], Head(esQueue[c]))

\* The states a client's copy will go through as it reads its channel.
Ahead == [c \in EsClients |-> States(esView[c], esQueue[c])]

Mirror == INSTANCE EventMirror WITH
  Clients <- EsClients, published <- esPub, link <- esConn, mirror <- esView, ahead <- Ahead

\* Subscribing, sending differences through bounded channels and applying them
\* implements mirrors of the published state.
ImplementsMirror == Mirror!MirrorInit /\ [][Mirror!MirrorNext]_(Mirror!mirrorVars)
=============================================================================
