---------------------------- MODULE IpcRequests ----------------------------
(***************************************************************************)
(* IPC requests (src/ipc/server.rs) and the pointer grabs two of them wait *)
(* for (src/input/pick_window_grab.rs, src/input/pick_color_grab.rs).      *)
(* handle_client is a task per client: it reads a request, answers it at   *)
(* once or inserts an idle callback and awaits a channel of one message,   *)
(* and writes the reply.  Idle callbacks run in order, after the tasks.    *)
(***************************************************************************)
EXTENDS Naturals, Sequences, FiniteSets

CONSTANTS RqClients, NoClient
ASSUME RqAssumption == NoClient \notin RqClients

VARIABLES rqTask,       \* client -> "read", "await" or "closed"
          rqAsked,      \* client -> the request it awaits
          rqIdle,       \* idle callbacks: clients and what they asked for
          rqChan,       \* client -> messages in its channel
          rqGrab,       \* the pointer's grab: "none", "window", "color", "other"
          rqPick,       \* niri.pick_window and niri.pick_color: who waits
          rqRan         \* clients whose action has been done

rqVars == <<rqTask, rqAsked, rqIdle, rqChan, rqGrab, rqPick, rqRan>>

Picks == {"window", "color"}
\* Requests answered from the event loop, and the ones process answers itself.
Awaited == {"layers", "output", "action", "window", "color"}

RqInit ==
  /\ rqTask = [c \in RqClients |-> "read"]
  /\ rqAsked = [c \in RqClients |-> "nothing"]
  /\ rqIdle = <<>>
  /\ rqChan = [c \in RqClients |-> <<>>]
  /\ rqGrab = "none"
  /\ rqPick = [p \in Picks |-> NoClient]
  /\ rqRan = {}

\* handle_client reads a request that process() answers from the event loop.
Ask(c, what) ==
  /\ rqTask[c] = "read"
  /\ rqTask' = [rqTask EXCEPT ![c] = "await"]
  /\ rqAsked' = [rqAsked EXCEPT ![c] = what]
  /\ rqIdle' = Append(rqIdle, [client |-> c, what |-> what])
  /\ rqRan' = rqRan \ {c}
  /\ UNCHANGED <<rqChan, rqGrab, rqPick>>

\* Request::Output is answered before its callback runs: OutputWasMissing or
\* Applied comes from a look at the outputs, not from the change.
AskOutput(c) ==
  /\ rqTask[c] = "read" /\ Len(rqIdle) < Cardinality(RqClients)
  /\ rqIdle' = Append(rqIdle, [client |-> c, what |-> "config"])
  /\ UNCHANGED <<rqTask, rqAsked, rqChan, rqGrab, rqPick, rqRan>>

\* The task takes the message and writes the reply, which may fail.
Answer(c) ==
  /\ rqTask[c] = "await" /\ rqChan[c] # <<>>
  /\ \E t \in {"read", "closed"} : rqTask' = [rqTask EXCEPT ![c] = t]
  /\ rqAsked' = [rqAsked EXCEPT ![c] = "nothing"]
  /\ rqChan' = [rqChan EXCEPT ![c] = <<>>]
  /\ UNCHANGED <<rqIdle, rqGrab, rqPick, rqRan>>

Leave(c) ==
  /\ rqTask[c] = "read" /\ rqTask' = [rqTask EXCEPT ![c] = "closed"]
  /\ UNCHANGED <<rqAsked, rqIdle, rqChan, rqGrab, rqPick, rqRan>>

Connect(c) ==
  /\ rqTask[c] = "closed" /\ \A i \in DOMAIN rqIdle : rqIdle[i].client # c
  /\ rqTask' = [rqTask EXCEPT ![c] = "read"]
  /\ UNCHANGED <<rqAsked, rqIdle, rqChan, rqGrab, rqPick, rqRan>>

\* PickWindowGrab::on_ungrab and PickColorGrab::on_ungrab.
OnUngrab(pick, chan) ==
  LET c == IF rqGrab \in Picks THEN pick[rqGrab] ELSE NoClient
  IN IF c = NoClient THEN [pick |-> pick, chan |-> chan]
     ELSE [pick |-> [pick EXCEPT ![rqGrab] = NoClient], chan |-> [chan EXCEPT ![c] = Append(@, "none")]]

\* set_grab() ends the previous grab, which cancels the pick it was for.
StartPick(c, what) ==
  LET u == OnUngrab(rqPick, rqChan)
  IN rqPick' = [u.pick EXCEPT ![what] = c] /\ rqChan' = u.chan /\ rqGrab' = what

\* Mutant: the newest callback runs first.
RunIdle_Newest ==
  /\ rqIdle # <<>> /\ rqIdle' = SubSeq(rqIdle, 1, Len(rqIdle) - 1)
  /\ LET c == rqIdle[Len(rqIdle)].client  what == rqIdle[Len(rqIdle)].what
     IN CASE what \in Picks -> StartPick(c, what) /\ UNCHANGED rqRan
          [] what = "config" -> UNCHANGED <<rqChan, rqGrab, rqPick, rqRan>>
          [] OTHER -> /\ rqChan' = [rqChan EXCEPT ![c] = Append(@, "done")]
                      /\ rqRan' = rqRan \union {c}
                      /\ UNCHANGED <<rqGrab, rqPick>>
  /\ UNCHANGED <<rqTask, rqAsked>>

\* Mutant: the callback of an action reports back before the action is done.
RunIdle_RepliesFirst ==
  /\ rqIdle # <<>> /\ rqIdle' = Tail(rqIdle)
  /\ LET c == Head(rqIdle).client  what == Head(rqIdle).what
     IN CASE what \in Picks -> StartPick(c, what) /\ UNCHANGED rqRan
          [] what = "config" -> UNCHANGED <<rqChan, rqGrab, rqPick, rqRan>>
          [] OTHER -> /\ rqChan' = [rqChan EXCEPT ![c] = Append(@, "done")]
                      /\ UNCHANGED rqRan
                      /\ UNCHANGED <<rqGrab, rqPick>>
  /\ UNCHANGED <<rqTask, rqAsked>>

\* The callbacks that process() inserts.
RunIdle ==
  /\ rqIdle # <<>> /\ rqIdle' = Tail(rqIdle)
  /\ LET c == Head(rqIdle).client  what == Head(rqIdle).what
     IN CASE what \in Picks -> StartPick(c, what) /\ UNCHANGED rqRan
          [] what \in {"layers", "output"} ->
               /\ rqChan' = [rqChan EXCEPT ![c] = Append(@, "info")]
               /\ UNCHANGED <<rqGrab, rqPick, rqRan>>
          [] what = "action" ->
               /\ rqChan' = [rqChan EXCEPT ![c] = Append(@, "done")]
               /\ rqRan' = rqRan \union {c}
               /\ UNCHANGED <<rqGrab, rqPick>>
          [] OTHER -> UNCHANGED <<rqChan, rqGrab, rqPick, rqRan>>
  /\ UNCHANGED <<rqTask, rqAsked>>

\* A button press while picking: the answer, then the grab ends.
PickUnderPointer ==
  /\ rqGrab \in Picks
  /\ LET c == rqPick[rqGrab]
     IN IF c = NoClient THEN UNCHANGED <<rqChan, rqPick>>
        ELSE /\ rqChan' = [rqChan EXCEPT ![c] = Append(@, "picked")]
             /\ rqPick' = [rqPick EXCEPT ![rqGrab] = NoClient]
  /\ rqGrab' = "none"
  /\ UNCHANGED <<rqTask, rqAsked, rqIdle, rqRan>>

\* unset_grab(): Escape while picking, the screenshot UI, a popup's grab that
\* goes away, the end of another grab.
EndGrab ==
  /\ rqGrab # "none"
  /\ LET u == OnUngrab(rqPick, rqChan)
     IN rqPick' = u.pick /\ rqChan' = u.chan /\ rqGrab' = "none"
  /\ UNCHANGED <<rqTask, rqAsked, rqIdle, rqRan>>

\* Any other grab replaces the one there is: a client's drag, a popup.
OtherGrab ==
  /\ rqGrab # "other"
  /\ LET u == OnUngrab(rqPick, rqChan)
     IN rqPick' = u.pick /\ rqChan' = u.chan /\ rqGrab' = "other"
  /\ UNCHANGED <<rqTask, rqAsked, rqIdle, rqRan>>

RqNext ==
  \/ \E c \in RqClients : \/ \E what \in Awaited : Ask(c, what)
                          \/ AskOutput(c) \/ Answer(c) \/ Leave(c) \/ Connect(c)
  \/ RunIdle \/ PickUnderPointer \/ EndGrab \/ OtherGrab

RqSpec == RqInit /\ [][RqNext]_rqVars

\* Tasks and idle callbacks run whenever they can; the user may never click.
RqFairness == WF_rqVars(RunIdle) /\ \A c \in RqClients : WF_rqVars(Answer(c))

(***************************************************************************)
(* Properties.                                                             *)
(***************************************************************************)
\* "We window picking state so the pick window grab must be active": who waits
\* for a pick has the grab that will answer, so that a click or Escape ends it.
PickHasItsGrab == \A p \in Picks : rqPick[p] # NoClient => rqGrab = p

\* A client that awaits an answer has exactly one way to get it: its callback,
\* the pick in progress or the message in its channel.  It neither waits for
\* ever nor gets the answer of another request.
AnsweredOnce ==
  \A c \in RqClients :
    Cardinality({i \in DOMAIN rqIdle : rqIdle[i].client = c /\ rqIdle[i].what # "config"})
      + Cardinality({p \in Picks : rqPick[p] = c}) + Len(rqChan[c])
    = (IF rqTask[c] = "await" THEN 1 ELSE 0)

\* "Wait until the action has been processed before returning."
ActionBeforeReply ==
  [][\A c \in RqClients :
       rqTask[c] = "await" /\ rqAsked[c] = "action" /\ rqTask'[c] # "await" => c \in rqRan]_rqVars

\* A request that does not wait for the user is answered.
RequestAnswered == \A c \in RqClients : rqAsked[c] \in Awaited \ Picks ~> rqTask[c] # "await"
=============================================================================
