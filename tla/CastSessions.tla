---------------------------- MODULE CastSessions ----------------------------
(***************************************************************************)
(* The life of screencast sessions (dbus/mutter_screen_cast.rs): methods   *)
(* of a session run on D-Bus threads and send StartCast and StopCast over  *)
(* a channel to the compositor, which starts and stops casts, and which    *)
(* stops the session itself when a target, a stream or PipeWire dies.      *)
(* Session::stop runs in steps: the swap of `stopped`, the Closed signal   *)
(* with StopCast, and the removal of the objects.                          *)
(***************************************************************************)
EXTENDS Integers, FiniteSets, Sequences

CONSTANTS
    CnNothing,   \* CastTarget::Nothing
    CnOutputs, CnWindows,
    CnDynamic,   \* the window id that stands for the dynamic target
    CnStreamMax, CnStartMax, CnDynMax  \* bounds: streams, calls of Start, dynamic targets set
VARIABLES
    cnObject,    \* the session object is on the bus
    cnStreams,   \* Session::streams
    cnStopped,   \* Session::stopped
    cnStop,      \* caller -> how far its Session::stop is
    cnClosed,    \* Closed signals sent
    cnStarts,    \* calls of Start
    cnChan,      \* messages to the compositor
    cnPw,        \* PipeWire: alive, generation, and its messages
    cnCasts,     \* Niri::casts
    cnThere,     \* outputs and windows that exist
    cnDyn        \* idles that clear the dynamic target, and targets set

cnBus == <<cnObject, cnStreams, cnStopped, cnStop, cnClosed, cnStarts>>
cnVars == <<cnBus, cnChan, cnPw, cnCasts, cnThere, cnDyn>>

Callers == {"niri", "client"}
Targets == CnOutputs \cup CnWindows
MainFree == cnStop["niri"] = "no"
Unlocked == \A c \in Callers : cnStop[c] = "no"

-----------------------------------------------------------------------------
\* record_monitor and record_window, which lock the session.
Record(target) ==
    /\ cnObject /\ Unlocked /\ Len(cnStreams) < CnStreamMax
    /\ target \in CnOutputs => target \in cnThere
    /\ cnStreams' = Append(cnStreams, [id |-> Len(cnStreams) + 1, target |-> target])
    /\ UNCHANGED <<cnObject, cnStopped, cnStop, cnClosed, cnStarts, cnChan, cnPw, cnCasts, cnThere, cnDyn>>
\* Session::start and Stream::start: was_started is never set.
StartCasts == [i \in DOMAIN cnStreams |-> [k |-> "StartCast", stream |-> cnStreams[i]]]
Start ==
    /\ cnObject /\ cnStarts < CnStartMax
    /\ cnStarts' = cnStarts + 1
    /\ cnChan' = cnChan \o StartCasts
    /\ UNCHANGED <<cnObject, cnStreams, cnStopped, cnStop, cnClosed, cnPw, cnCasts, cnThere, cnDyn>>

\* Session::stop; the caller gets to the swap only while the object is there.
AskStop(stop, c) == IF cnObject THEN [stop EXCEPT ![c] = "asked"] ELSE stop
StopCall ==
    /\ cnObject /\ cnStop["client"] = "no"
    /\ cnStop' = AskStop(cnStop, "client")
    /\ UNCHANGED <<cnObject, cnStreams, cnStopped, cnClosed, cnStarts, cnChan, cnPw, cnCasts, cnThere, cnDyn>>
StopSwap(c) ==
    /\ cnStop[c] = "asked"
    /\ cnStop' = [cnStop EXCEPT ![c] = IF cnStopped THEN "no" ELSE "first"]
    /\ cnStopped' = TRUE
    /\ UNCHANGED <<cnObject, cnStreams, cnClosed, cnStarts, cnChan, cnPw, cnCasts, cnThere, cnDyn>>
StopSend(c) ==
    /\ cnStop[c] = "first"
    /\ cnStop' = [cnStop EXCEPT ![c] = "sent"]
    /\ cnClosed' = cnClosed + 1
    /\ cnChan' = Append(cnChan, [k |-> "StopCast"])
    /\ UNCHANGED <<cnObject, cnStreams, cnStopped, cnStarts, cnPw, cnCasts, cnThere, cnDyn>>
StopRemove(c) ==
    /\ cnStop[c] = "sent"
    /\ cnStop' = [cnStop EXCEPT ![c] = "no"]
    /\ cnStreams' = <<>> /\ cnObject' = FALSE
    /\ UNCHANGED <<cnStopped, cnClosed, cnStarts, cnChan, cnPw, cnCasts, cnThere, cnDyn>>

-----------------------------------------------------------------------------
\* Niri::stop_cast: the casts of the session, then Session::stop, waited for.
stop_cast == cnCasts' = <<>> /\ cnStop' = AskStop(cnStop, "niri")
\* Mutant: the target is not looked for.
Present_Any(target) == TRUE
CnPresent(target) == target = CnDynamic \/ target \in cnThere
\* on_screen_cast_msg: StartCast, which may fail on the way to a stream.
StartCast(stream, ok) ==
    IF ok /\ CnPresent(stream.target)
    THEN LET pw == IF cnPw.alive THEN cnPw ELSE [cnPw EXCEPT !.alive = TRUE, !.gen = @ + 1]
             cast == [stream |-> stream.id, gen |-> pw.gen, dynamic |-> stream.target = CnDynamic,
                      target |-> IF stream.target = CnDynamic THEN CnNothing ELSE stream.target]
         IN  cnCasts' = Append(cnCasts, cast) /\ cnPw' = pw /\ UNCHANGED cnStop
    ELSE stop_cast /\ UNCHANGED cnPw
on_screen_cast_msg(ok) ==
    /\ MainFree /\ cnChan # <<>>
    /\ IF Head(cnChan).k = "StartCast" THEN StartCast(Head(cnChan).stream, ok)
       ELSE stop_cast /\ UNCHANGED cnPw
    /\ cnChan' = Tail(cnChan)
    /\ UNCHANGED <<cnObject, cnStreams, cnStopped, cnClosed, cnStarts, cnThere, cnDyn>>
\* A stream fails, or the connection does: PipeWire tells the compositor.
PwFails(msg) ==
    /\ cnPw.alive /\ cnCasts # <<>> /\ cnPw.msg = "no"
    /\ cnPw' = [cnPw EXCEPT !.msg = msg]
    /\ UNCHANGED <<cnBus, cnChan, cnCasts, cnThere, cnDyn>>
on_pw_msg ==
    /\ MainFree /\ cnPw.msg # "no"
    /\ cnPw' = [cnPw EXCEPT !.msg = "no", !.alive = @ /\ cnPw.msg # "FatalError"]
    /\ IF cnPw.msg = "StopCast" \/ cnCasts # <<>> THEN stop_cast ELSE UNCHANGED <<cnCasts, cnStop>>
    /\ UNCHANGED <<cnObject, cnStreams, cnStopped, cnClosed, cnStarts, cnChan, cnThere, cnDyn>>

\* set_dynamic_cast_target, for what it does to the targets.
WithDynamic(target) ==
    [i \in DOMAIN cnCasts |-> IF cnCasts[i].dynamic THEN [cnCasts[i] EXCEPT !.target = target] ELSE cnCasts[i]]
SetDynamic(target) ==
    /\ MainFree /\ cnDyn.set < CnDynMax /\ target \in cnThere \cup {CnNothing}
    /\ cnCasts' = WithDynamic(target)
    /\ cnDyn' = [cnDyn EXCEPT !.set = @ + 1]
    /\ UNCHANGED <<cnBus, cnChan, cnPw, cnThere>>
ClearDynamic ==
    /\ MainFree /\ cnDyn.idles > 0
    /\ cnCasts' = WithDynamic(CnNothing)
    /\ cnDyn' = [cnDyn EXCEPT !.idles = @ - 1]
    /\ UNCHANGED <<cnBus, cnChan, cnPw, cnThere>>
\* stop_casts_for_target, when an output or a window goes.
stop_casts_for_target(target) ==
    LET hit == {i \in DOMAIN cnCasts : cnCasts[i].target = target}
    IN  /\ IF \E i \in hit : ~cnCasts[i].dynamic THEN stop_cast ELSE UNCHANGED <<cnCasts, cnStop>>
        /\ cnDyn' = IF \E i \in hit : cnCasts[i].dynamic THEN [cnDyn EXCEPT !.idles = @ + 1] ELSE cnDyn
Gone(target) ==
    /\ MainFree /\ target \in cnThere
    /\ cnThere' = cnThere \ {target}
    /\ stop_casts_for_target(target)
    /\ UNCHANGED <<cnObject, cnStreams, cnStopped, cnClosed, cnStarts, cnChan, cnPw>>

CnInit ==
    /\ cnObject = TRUE /\ cnStreams = <<>> /\ cnStopped = FALSE /\ cnClosed = 0 /\ cnStarts = 0
    /\ cnStop = [c \in Callers |-> "no"]
    /\ cnChan = <<>> /\ cnCasts = <<>> /\ cnThere = Targets
    /\ cnPw = [alive |-> FALSE, gen |-> 0, msg |-> "no"]
    /\ cnDyn = [idles |-> 0, set |-> 0]
CnNext ==
    \/ Start \/ StopCall \/ on_pw_msg \/ ClearDynamic
    \/ \E c \in Callers : StopSwap(c) \/ StopSend(c) \/ StopRemove(c)
    \/ \E target \in Targets \cup {CnDynamic} : Record(target)
    \/ \E target \in Targets \cup {CnNothing} : SetDynamic(target) \/ Gone(target)
    \/ \E ok \in BOOLEAN : on_screen_cast_msg(ok)
    \/ \E msg \in {"StopCast", "FatalError"} : PwFails(msg)
CnSpec == CnInit /\ [][CnNext]_cnVars

-----------------------------------------------------------------------------
\* The client of a session hears Closed at most once, whoever stops it: the client,
\* the compositor, or both at the same time.
ClosedOnce == cnClosed <= 1

\* No cast shows what is gone: a cast of a lost output or window is stopped, and
\* one with a dynamic target is about to be cleared.
CastTargetsExist ==
    \A i \in DOMAIN cnCasts :
        \/ cnCasts[i].target \in cnThere \cup {CnNothing}
        \/ cnCasts[i].dynamic /\ cnDyn.idles > 0

\* Every cast belongs to the running PipeWire: none outlives a fatal error.
CastsOfLivePipeWire ==
    \A i \in DOMAIN cnCasts : cnPw.alive /\ cnCasts[i].gen = cnPw.gen

\* A stopped session has no cast left once its messages are handled.
SessionStopsItsCasts == ~cnObject /\ cnChan = <<>> => cnCasts = <<>>

\* A stream is cast once, however often its session is started.
OneCastPerStream ==
    \A i, j \in DOMAIN cnCasts : cnCasts[i].stream = cnCasts[j].stream => i = j
=============================================================================
