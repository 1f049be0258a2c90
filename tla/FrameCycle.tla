----------------------------- MODULE FrameCycle -----------------------------
(***************************************************************************)
(* The life of a frame on one output: the RedrawState of niri.rs, what the *)
(* backends do with it when they render, the events that bring the next    *)
(* frame (a redraw request of the window, a vblank, the timer of an        *)
(* estimated one), and the frame callbacks that let clients draw again.    *)
(* The build has the winit and the headless backends; the code of the TTY  *)
(* backend is kept in the repository and modelled next to them.            *)
(***************************************************************************)
EXTENDS Integers, FiniteSets

CONSTANTS
    FrSurfaces,
    FrSeqMax,     \* bound: refresh cycles
    FrProfiles    \* set-ups: backend, what happens, readings of the clock
ASSUME FrAssumption ==
    /\ FrSeqMax \in Nat
    /\ FrProfiles \subseteq [backend : {"winit", "headless", "tty", "clock"}, may : SUBSET {"show", "monitors", "rogue"},
                              times : SUBSET Nat]
VARIABLES
    frOut,        \* output: st (redraw_state), timers and flight (estimated vblanks and frames
                  \* pending), thr (a vblank held back), seq, anim, mon; req: the window was
                  \* asked for a redraw; failed: a render failed; dead: unreachable code reached
    frSurf,       \* surface: pending callback, visible, primary scanout output set, sent (the
                  \* seq of the last callback), due (throttle time passed), got (callbacks of a cycle)
    frClock,      \* a reading of the clock: now, last presentation, interval, vrr
    frProfile
frVars == <<frOut, frSurf, frClock, frProfile>>

FrHappens(what) == what \in frProfile.may
FrBackend == frProfile.backend
\* RedrawState::queue_redraw
queue_redraw(o) ==
    [o EXCEPT !.st = CASE @ = "Idle" -> "Queued" [] @ = "Est" -> "EstQueued" [] @ = "VBlank" -> "VBlankRedraw" [] OTHER -> @]
IsQueued(o) == o.st \in {"Queued", "EstQueued"}
NextCycle(o) == [o EXCEPT !.seq = @ + 1]

-----------------------------------------------------------------------------
\* FrameClock: now is moved past an early vblank.
SinceLast(now, last, int) ==
    (IF now > last THEN now ELSE IF now + int < last THEN last + int ELSE now + int) - last
ToNext(since, int) == ((since \div int) + 1) * int
\* next_presentation_time with a known interval, after a presentation.
next_presentation_time(now, last, int, vrr) ==
    LET since == SinceLast(now, last, int)
    IN  IF vrr /\ ToNext(since, int) > int THEN last + since ELSE last + ToNext(since, int)

-----------------------------------------------------------------------------
\* Winit::render asks the window for the next redraw, unless rendering fails.
RenderWinit(o) ==
    {[o |-> [o EXCEPT !.req = TRUE], res |-> "Submitted", shown |-> FALSE],
     [o |-> [o EXCEPT !.failed = TRUE], res |-> "Submitted", shown |-> FALSE]}
RenderHeadless(o) ==
    {[o |-> IF o.st = "Queued" THEN NextCycle([o EXCEPT !.st = "Idle"]) ELSE [o EXCEPT !.dead = TRUE],
      res |-> "Submitted", shown |-> FALSE]}
queue_estimated_vblank_timer(o) ==
    IF o.st = "Queued" THEN [o EXCEPT !.st = "Est", !.timers = @ + 1]
    ELSE IF o.st \in {"Est", "EstQueued"} THEN [o EXCEPT !.st = "Est"]
    ELSE [o EXCEPT !.dead = TRUE]
SubmitTty(o) ==
    IF IsQueued(o)
    THEN NextCycle([o EXCEPT !.st = "VBlank", !.flight = @ + 1, !.timers = IF o.st = "EstQueued" THEN @ - 1 ELSE @])
    ELSE [o EXCEPT !.dead = TRUE]
\* Tty::render: no device or another VT; an error; no damage; a frame goes out.
RenderTty(o) ==
    {[o |-> o, res |-> "Skipped", shown |-> FALSE]}
    \cup {[o |-> queue_estimated_vblank_timer(o), res |-> "Skipped", shown |-> shown] : shown \in BOOLEAN}
    \cup {[o |-> queue_estimated_vblank_timer(o), res |-> "NoDamage", shown |-> TRUE]}
    \cup {[o |-> SubmitTty(o), res |-> "Submitted", shown |-> TRUE]}
Renders(o) ==
    CASE FrBackend = "winit" -> RenderWinit(o) [] FrBackend = "headless" -> RenderHeadless(o) [] OTHER -> RenderTty(o)

\* Niri::redraw after the backend: a failed render keeps the timer it waits for.
RedrawState(o, res) ==
    [o EXCEPT !.st = IF res = "Skipped" /\ @ \in {"Est", "EstQueued"} THEN "Est" ELSE "Idle"]
update_primary_scanout_output(r) == [r EXCEPT !.prim = r.vis]
\* Mutant: a callback with every redraw.
should_send_Always(r, seq) == r.prim
\* should_send: visible here, and not yet in this cycle.
should_send(r, seq) == r.prim /\ r.sent # seq
\* send_frame of the library: to whom it should, and to those who wait for too long.
send_frame(r, seq, should) ==
    [pending |-> r.pending /\ ~should /\ ~r.due,
     vis |-> r.vis, prim |-> r.prim,
     sent |-> IF should THEN seq ELSE r.sent,
     due |-> FALSE,
     got |-> (IF r.sent = seq \/ ~should THEN r.got ELSE 0) + (IF should /\ r.pending /\ ~r.due THEN 1 ELSE 0)]
send_frame_callbacks(surf, seq) == [s \in FrSurfaces |-> send_frame(surf[s], seq, should_send(surf[s], seq))]

\* Niri::redraw of a queued output, at the end of a turn of the loop.
FrRedraw ==
    /\ IsQueued(frOut) /\ frOut.seq < FrSeqMax
    /\ \E r \in IF frOut.mon THEN Renders(frOut) ELSE {[o |-> frOut, res |-> "Skipped", shown |-> FALSE]},
          anim \in IF frOut.mon THEN BOOLEAN ELSE {frOut.anim} :
          /\ r.o.timers <= 2 /\ r.o.flight <= 2
          /\ frOut' = IF r.o.dead THEN r.o ELSE [RedrawState(r.o, r.res) EXCEPT !.anim = anim]
          /\ frSurf' = IF r.o.dead THEN frSurf
                       ELSE send_frame_callbacks([s \in FrSurfaces |-> IF r.shown THEN update_primary_scanout_output(frSurf[s])
                                                                      ELSE frSurf[s]], r.o.seq)

-----------------------------------------------------------------------------
\* The window has a redraw for us (winit); the system can send one of its own.
RedrawRequested ==
    /\ FrBackend = "winit" /\ frOut.req
    /\ frOut' = queue_redraw([frOut EXCEPT !.req = FALSE]) /\ UNCHANGED frSurf
\* Tty::on_vblank, unless it comes too early and a timer is to bring it again
\* (VBlankThrottle::throttle); not every vblank is one that was waited for.
Vblanked(o) ==
    LET more == o.st # "VBlank" \/ o.anim
        o1 == [o EXCEPT !.st = "Idle", !.thr = FALSE, !.flight = IF @ > 0 THEN @ - 1 ELSE 0]
    IN  /\ frOut' = IF more THEN queue_redraw(o1) ELSE o1
        /\ frSurf' = IF more THEN frSurf ELSE send_frame_callbacks(frSurf, o.seq)
on_vblank ==
    /\ FrBackend = "tty" /\ (frOut.flight > 0 \/ FrHappens("rogue"))
    /\ Vblanked(frOut) \/ (frOut' = [frOut EXCEPT !.thr = TRUE] /\ UNCHANGED frSurf)
ThrottleFires == FrBackend = "tty" /\ frOut.thr /\ Vblanked(frOut)
on_estimated_vblank_timer ==
    /\ frOut.timers > 0 /\ frOut.seq < FrSeqMax
    /\ LET o == NextCycle([frOut EXCEPT !.timers = @ - 1]) IN
       CASE o.st = "EstQueued" -> frOut' = [o EXCEPT !.st = "Queued"] /\ UNCHANGED frSurf
         [] o.st = "Est" /\ o.anim -> frOut' = [o EXCEPT !.st = "Queued"] /\ UNCHANGED frSurf
         [] o.st = "Est" /\ ~o.anim ->
                frOut' = [o EXCEPT !.st = "Idle"] /\ frSurf' = send_frame_callbacks(frSurf, o.seq)
         [] OTHER -> frOut' = [o EXCEPT !.dead = TRUE] /\ UNCHANGED frSurf

\* A commit with a callback; the window comes into view or goes.
FrCommit(s) ==
    /\ frSurf' = [frSurf EXCEPT ![s].pending = TRUE] /\ frOut' = queue_redraw(frOut)
FrShow(s) ==
    /\ FrHappens("show") /\ frSurf' = [frSurf EXCEPT ![s].vis = ~@] /\ frOut' = queue_redraw(frOut)
deactivate_monitors ==
    /\ FrHappens("monitors") /\ frOut.mon /\ frOut' = [frOut EXCEPT !.mon = FALSE] /\ UNCHANGED frSurf
activate_monitors ==
    /\ ~frOut.mon /\ frOut' = queue_redraw([frOut EXCEPT !.mon = TRUE]) /\ UNCHANGED frSurf
\* FRAME_CALLBACK_THROTTLE has passed since the last callback of s.
Elapse(s) == ~frSurf[s].due /\ frSurf' = [frSurf EXCEPT ![s].due = TRUE] /\ UNCHANGED frOut
\* Mutant: the timer looks at who is on screen.
fallback_ShownOnly(r) == IF r.prim THEN send_frame(r, 0, FALSE) ELSE r
\* The timer of each second: who waits for too long, whether or not it is seen.
fallback(r) == send_frame(r, 0, FALSE)
FallbackTimer ==
    /\ frSurf' = [s \in FrSurfaces |-> IF frSurf[s].due /\ frSurf[s].pending THEN fallback(frSurf[s]) ELSE frSurf[s]]
    /\ UNCHANGED frOut

FrInit ==
    /\ frProfile \in FrProfiles
    /\ frClock \in [now : frProfile.times, last : frProfile.times, int : frProfile.times \ {0}, vrr : IF 0 \in frProfile.times THEN BOOLEAN ELSE {FALSE}]
    /\ frOut = [st |-> "Queued", timers |-> 0, flight |-> 0, thr |-> FALSE, seq |-> 0, anim |-> FALSE,
                req |-> FALSE, mon |-> TRUE, failed |-> FALSE, dead |-> FALSE]
    /\ frSurf = [s \in FrSurfaces |-> [pending |-> FALSE, vis |-> TRUE, prim |-> FALSE, sent |-> -1, due |-> TRUE, got |-> 0]]
FrStep ==
    \/ FrRedraw \/ RedrawRequested \/ on_vblank \/ ThrottleFires \/ on_estimated_vblank_timer
    \/ deactivate_monitors \/ activate_monitors \/ FallbackTimer
    \/ \E s \in FrSurfaces : FrCommit(s) \/ FrShow(s) \/ Elapse(s)
FrNext == ~frOut.dead /\ FrBackend # "clock" /\ FrStep /\ UNCHANGED <<frClock, frProfile>>
\* Timers run: the second passes and the fallback timer fires.
FrFairness == WF_frVars(FrNext /\ FallbackTimer) /\ \A s \in FrSurfaces : WF_frVars(FrNext /\ Elapse(s))
FrSpec == FrInit /\ [][FrNext]_frVars /\ FrFairness

-----------------------------------------------------------------------------
\* "Crucial: Request the next frame to keep the event loop spinning": while the monitors
\* are on and no render has failed, a frame is queued or the window was asked for one.
FramesKeepComing ==
    (FrBackend = "winit" /\ frOut.mon /\ ~frOut.failed) => (IsQueued(frOut) \/ frOut.req)

\* The time a frame is drawn for is ahead, and without VRR a whole number of intervals
\* after the last presentation: early vblanks, equal times and long pauses included.
NextIsAhead ==
    LET c == frClock
        next == next_presentation_time(c.now, c.last, c.int, c.vrr)
    IN  /\ next > c.now \/ (c.vrr /\ next = c.now)
        /\ next > c.last /\ (c.vrr \/ (next - c.last) % c.int = 0)

\* "at most once per monitor refresh cycle": however many redraws fail or find nothing to
\* do, and whatever the client commits, a cycle has one callback for a surface.
OncePerCycle == \A s \in FrSurfaces : frSurf[s].got <= 1

\* A client that waits for a callback gets one: on screen or not, monitors on or off.
CallbackEventually ==
    \A s \in FrSurfaces : frSurf[s].pending ~> (~frSurf[s].pending \/ frOut.dead)

\* "the surfaces that are visible for the very last frame ... will receive frame callbacks":
\* a frame that is submitted takes the callbacks of the surfaces it shows along.
VisibleGetsCallback ==
    [][(IsQueued(frOut) /\ ~IsQueued(frOut') /\ frOut.mon /\ ~frOut'.failed) =>
          \A s \in FrSurfaces : frSurf[s].vis => ~frSurf'[s].pending]_frVars

\* The token of a timer is in the state it will find: on_estimated_vblank_timer calls
\* every other state unreachable.
TimerFindsItsState == frOut.timers > 0 => frOut.st \in {"Est", "EstQueued"}

=============================================================================
