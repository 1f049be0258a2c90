------------------------------ MODULE RunLoop ------------------------------
(***************************************************************************)
(* The main loop of the compositor on macOS, run_with_cfrunloop of         *)
(* src/src/utils/macos_runloop.rs: which steps an iteration takes and what *)
(* they do with the events that wait, with the changes that have to be     *)
(* drawn and sent to clients, and with the stop signal.  (Elsewhere        *)
(* main.rs calls calloop's EventLoop::run.)                                *)
(***************************************************************************)
EXTENDS Naturals

CONSTANTS
    FrameTicks     \* target_frame_time

VARIABLES
    pc,       \* the next step of the iteration
    age,      \* the time since last_frame_time, up to FrameTicks
    input,    \* do events of the window wait to be pumped
    pinged,   \* has the window's event source been pinged
    request,  \* do requests of clients wait to be dispatched
    dirty,    \* are there changes not yet refreshed and flushed to clients
    stop      \* the stop signal of the event loop

rlVars == <<pc, age, input, pinged, request, dirty, stop>>

ASSUME FrameAssumption == FrameTicks \in Nat \ {0}

RlInit ==
    /\ pc = "pump"
    /\ age = 0
    /\ input = FALSE /\ pinged = FALSE /\ request = FALSE /\ dirty = FALSE
    /\ stop = FALSE

-----------------------------------------------------------------------------
(* The world outside: time, the user and the clients.                      *)

Tick ==
    /\ age < FrameTicks
    /\ age' = age + 1
    /\ UNCHANGED <<pc, input, pinged, request, dirty, stop>>

UserInput ==
    /\ ~input
    /\ input' = TRUE
    /\ UNCHANGED <<pc, age, pinged, request, dirty, stop>>

ClientRequest ==
    /\ ~request
    /\ request' = TRUE
    /\ UNCHANGED <<pc, age, input, pinged, dirty, stop>>

-----------------------------------------------------------------------------
\* Winit::pump pings the source that pumps the window's events.
Pump ==
    /\ pc = "pump" /\ pc' = "dispatch"
    /\ pinged' = TRUE
    /\ UNCHANGED <<age, input, request, dirty, stop>>

\* What the callbacks of a dispatch may do: events change what is shown, and
\* some of them (the quit action, the confirmed exit dialog, a close request
\* for the window) give the stop signal.
Handle(window, quit) ==
    /\ input' = (input /\ ~window)
    /\ request' = FALSE
    /\ dirty' = (dirty \/ request \/ (input /\ window))
    /\ stop' = (stop \/ quit)
    /\ quit => request \/ (input /\ window)

\* EventLoop::dispatch with a zero timeout; an error is logged.
Dispatch(quit) ==
    /\ pc = "dispatch" /\ pc' = "render"
    /\ \/ Handle(pinged, quit) /\ pinged' = FALSE
       \/ ~quit /\ UNCHANGED <<input, pinged, request, dirty, stop>>
    /\ UNCHANGED age

\* Mutant: the clock of the throttle restarts with every iteration.
RlRender_RestartsClock ==
    /\ pc = "render" /\ pc' = "sleep"
    /\ dirty' = IF age >= FrameTicks THEN FALSE ELSE dirty
    /\ age' = 0
    /\ UNCHANGED <<input, pinged, request, stop>>

\* State::refresh_and_flush_clients, at most once in a frame.
RlRender ==
    /\ pc = "render" /\ pc' = "sleep"
    /\ IF age >= FrameTicks
       THEN dirty' = FALSE /\ age' = 0
       ELSE UNCHANGED <<dirty, age>>
    /\ UNCHANGED <<input, pinged, request, stop>>

\* CFRunLoopRunInMode until the next frame is due.  It returns earlier when
\* the run loop is stopped or has nothing to wait for.
Sleep ==
    /\ pc = "sleep" /\ pc' = "pump"
    /\ UNCHANGED <<age, input, pinged, request, dirty, stop>>

-----------------------------------------------------------------------------
Loop == \/ Pump
        \/ \E quit \in BOOLEAN : Dispatch(quit)
        \/ RlRender
        \/ Sleep

RlNext == Tick \/ UserInput \/ ClientRequest \/ Loop

\* The loop never waits for ever, and time passes.  A dispatch may fail any
\* number of times but not always.
RlFairness ==
    /\ WF_rlVars(Loop) /\ WF_rlVars(Tick)
    /\ SF_rlVars(\E quit \in BOOLEAN : Dispatch(quit) /\ pinged' = FALSE)

RlSpec == RlInit /\ [][RlNext]_rlVars /\ RlFairness

-----------------------------------------------------------------------------
\* Events of the window and requests of clients that wait are handled, though the
\* loop polls for the former and never blocks on the latter, and what changed is
\* refreshed and flushed to clients in the end: throttling to one refresh per frame
\* delays it and does not drop it, even if the sleep between two iterations keeps
\* returning early.
ChangesFlushed == (input ~> ~input) /\ (request ~> ~request) /\ (dirty ~> ~dirty)

\* "Exit niri.": once the quit action has given the stop signal the compositor
\* leaves its loop.
QuitExits == stop ~> (pc = "exited")

=============================================================================
