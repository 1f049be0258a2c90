--------------------------- MODULE ServicesProofs ----------------------------
(***************************************************************************)
(* The frame cycle, for any surfaces, any readings of the clock and any    *)
(* number of refresh cycles: the time a frame is drawn for is ahead, the   *)
(* winit backend keeps asking for frames, and a surface gets one callback  *)
(* in a refresh cycle. Screencast sessions, for any outputs, windows,      *)
(* streams, starts and dynamic targets: Closed is sent once whoever stops  *)
(* the session, no cast shows what is gone, none outlives its PipeWire.    *)
(* Output management, for any outputs and configurations: the heads are    *)
(* the outputs, a configuration is of the last change and is answered      *)
(* once.                                                                   *)
(*                                                                         *)
(* The workspaces of ext-workspace, for any workspaces, outputs and        *)
(* layouts: what a client was told adds up to what the layout has.         *)
(***************************************************************************)
EXTENDS FrameCycle, CastSessions, OutputManagement, ExtWorkspace, TLAPS

-----------------------------------------------------------------------------
\* The frame cycle.

\* What Duration's division and remainder give: a multiple of the interval, at most
\* since, and less than an interval below it.
LEMMA WholeIntervals ==
    ASSUME NEW since \in Nat, NEW int \in Nat \ {0}
    PROVE  /\ since \div int \in Nat
           /\ (since \div int) * int <= since
           /\ since < (since \div int) * int + int
<1> DEFINE q == since \div int
           r == since % int
<1>1. q \in Int /\ r \in 0 .. int - 1 /\ since = int * q + r
  OBVIOUS
<1>2. q \in Nat
  <2>1. SUFFICES ASSUME q <= -1 PROVE FALSE
    BY <1>1
  <2>2. int * q <= int * (-1)
    BY <1>1, <2>1
  <2> QED
    BY <1>1, <2>2
<1>3. int * q = q * int
  BY <1>1
<1> HIDE DEF q, r
<1> QED
  BY <1>1, <1>2, <1>3 DEF q

\* FrameClock::next_presentation_time, for every reading of the clock: the time is past
\* the last presentation and not behind now, and without VRR a whole number of
\* intervals after the last presentation.
LEMMA NextPresentation ==
    ASSUME NEW now \in Nat, NEW last \in Nat, NEW int \in Nat \ {0}, NEW vrr \in BOOLEAN
    PROVE  LET next == next_presentation_time(now, last, int, vrr)
           IN  /\ next > now \/ (vrr /\ next = now)
               /\ next > last /\ (vrr \/ (next - last) % int = 0)
<1> DEFINE since == SinceLast(now, last, int)
           q == since \div int
           to == ToNext(since, int)
<1>1. since \in Nat /\ (since >= now - last) /\ (since = 0 => now < last)
  BY DEF SinceLast
<1>2. q \in Nat /\ q * int <= since /\ since < q * int + int
  <2> HIDE DEF since
  <2> QED BY <1>1, WholeIntervals, Zenon
<1>3. to = (q + 1) * int
  BY Zenon DEF ToNext
<1>4. (q + 1) * int = q * int + int /\ q * int \in Nat
  <2> HIDE DEF q
  <2> QED BY <1>2
<1>5. ((q + 1) * int) % int = 0
  <2> HIDE DEF q
  <2> QED BY <1>2
<1>6. to > since /\ to \in Nat /\ to >= int
  <2> HIDE DEF since, q, to
  <2> QED BY <1>1, <1>2, <1>3, <1>4, SMTT(30)
<1>7. to > int => since > 0
  <2>1. SUFFICES ASSUME since = 0 PROVE to <= int
    <3> HIDE DEF since, to
    <3> QED BY <1>1, <1>6
  <2>2. q * int <= 0
    BY <2>1, <1>2, Zenon
  <2> HIDE DEF since, q, to
  <2> QED BY <2>2, <1>2, <1>3, <1>4
<1>8. to % int = 0
  BY <1>3, <1>5, Zenon
<1>9. next_presentation_time(now, last, int, vrr) = IF vrr /\ to > int THEN last + since ELSE last + to
  BY Zenon DEF next_presentation_time
<1>10. now < last => last + to > now
  <2> HIDE DEF since, q, to
  <2> QED BY <1>6
<1> HIDE DEF since, q, to
<1>11. CASE vrr /\ to > int
  BY <1>1, <1>7, <1>9, <1>11
<1>12. CASE ~(vrr /\ to > int)
  <2>1. (last + to) - last = to
    BY <1>6
  <2> QED
    BY <1>1, <1>6, <1>8, <1>9, <1>12, <2>1, SMTT(30)
<1> QED
  BY <1>11, <1>12, Zenon

-----------------------------------------------------------------------------
Outs == [st : {"Idle", "Queued", "VBlank", "VBlankRedraw", "Est", "EstQueued"}, timers : Int, flight : Int, thr : BOOLEAN,
         seq : Int, anim : BOOLEAN, req : BOOLEAN, mon : BOOLEAN, failed : BOOLEAN, dead : BOOLEAN]
\* OncePerCycle is in the range of got.
Surfs == [pending : BOOLEAN, vis : BOOLEAN, prim : BOOLEAN, sent : Int, due : BOOLEAN, got : 0 .. 1]
Clocks == [now : Nat, last : Nat, int : Nat \ {0}, vrr : BOOLEAN]

\* On winit no vblank is waited for, real or estimated.
WinitHasNoVblanks(o) == FrBackend = "winit" => o.st \in {"Idle", "Queued"} /\ o.timers = 0
\* The inductive invariant.
FrInv ==
    /\ frProfile \in FrProfiles /\ frClock \in Clocks /\ frOut \in Outs
    /\ frSurf \in [FrSurfaces -> Surfs]
    /\ WinitHasNoVblanks(frOut)
    /\ FramesKeepComing

\* A callback is counted in the cycle it is sent in, once.
LEMMA SendFrameFacts ==
    ASSUME NEW r \in Surfs, NEW seq \in Int, NEW should \in BOOLEAN, should => r.sent # seq
    PROVE  send_frame(r, seq, should) \in Surfs
BY DEF send_frame, Surfs

\* send_frame_callbacks visits every surface, and each stays of its type.
LEMMA CallbacksFacts ==
    ASSUME NEW surf \in [FrSurfaces -> Surfs], NEW seq \in Int
    PROVE  send_frame_callbacks(surf, seq) \in [FrSurfaces -> Surfs]
<1>1. ASSUME NEW s \in FrSurfaces PROVE send_frame(surf[s], seq, should_send(surf[s], seq)) \in Surfs
  <2>1. surf[s] \in Surfs
    BY Zenon
  <2>2. should_send(surf[s], seq) \in BOOLEAN /\ (should_send(surf[s], seq) => surf[s].sent # seq)
    BY <2>1, Zenon DEF should_send, Surfs
  <2> HIDE DEF should_send
  <2> QED
    BY <2>1, <2>2, SendFrameFacts, Zenon
<1> QED
  BY <1>1, Zenon DEF send_frame_callbacks

\* RedrawState::queue_redraw changes the state only, and on winit leaves a frame queued.
LEMMA QueueRedrawFacts ==
    ASSUME NEW o \in Outs
    PROVE  /\ queue_redraw(o) \in Outs
           /\ queue_redraw(o).timers = o.timers /\ queue_redraw(o).req = o.req
           /\ queue_redraw(o).mon = o.mon /\ queue_redraw(o).failed = o.failed
           /\ queue_redraw(o).st \in {"Idle", "Queued"} <=> o.st \in {"Idle", "Queued"}
           /\ o.st \in {"Idle", "Queued"} => IsQueued(queue_redraw(o))
BY Zenon DEF queue_redraw, IsQueued, Outs

\* FrInit: the compositor starts in the invariant.
LEMMA FrInitInv == FrInit => FrInv
<1> SUFFICES ASSUME FrInit PROVE FrInv
  BY Zenon
<1> USE DEF FrInit
<1>1. frProfile \in FrProfiles /\ frProfile.times \subseteq Nat
  BY FrAssumption, Zenon
<1>2. frClock \in Clocks
  BY <1>1, Zenon DEF Clocks
<1>3. frOut \in Outs
  BY DEF Outs
<1>4. frSurf \in [FrSurfaces -> Surfs]
  BY DEF Surfs
<1>5. WinitHasNoVblanks(frOut) /\ FramesKeepComing
  BY Zenon DEF WinitHasNoVblanks, FramesKeepComing, IsQueued
<1> QED
  BY <1>1, <1>2, <1>3, <1>4, <1>5, Zenon DEF FrInv

\* What a render can do to the output, by backend: only the TTY backend waits for
\* vblanks, and winit asks for the next frame or fails.
LEMMA RendersFacts ==
    ASSUME NEW o \in Outs, NEW r \in Renders(o)
    PROVE  /\ r.o \in Outs /\ r.o.mon = o.mon
           /\ FrBackend = "winit" => r.o.timers = o.timers /\ r.o.st = o.st /\ (r.o.req \/ r.o.failed)
<1>1. CASE FrBackend = "winit"
  <2> DEFINE a == [o EXCEPT !.req = TRUE]
             b == [o EXCEPT !.failed = TRUE]
  <2>1. /\ a \in Outs /\ a.mon = o.mon /\ a.timers = o.timers /\ a.st = o.st /\ a.req
        /\ b \in Outs /\ b.mon = o.mon /\ b.timers = o.timers /\ b.st = o.st /\ b.failed
    BY Zenon DEF Outs
  <2>2. r \in {[o |-> a, res |-> "Submitted", shown |-> FALSE], [o |-> b, res |-> "Submitted", shown |-> FALSE]}
    BY <1>1, Zenon DEF Renders, RenderWinit
  <2> HIDE DEF a, b
  <2>3. r.o \in {a, b}
    BY <2>2
  <2> QED
    BY <2>1, <2>3, Zenon
<1>2. CASE FrBackend = "headless"
  <2> DEFINE a == [o EXCEPT !.st = "Idle"]
             b == NextCycle(a)
             d == [o EXCEPT !.dead = TRUE]
  <2>1. a \in Outs /\ a.mon = o.mon /\ d \in Outs /\ d.mon = o.mon
    BY Zenon DEF Outs
  <2>2. r \in {[o |-> IF o.st = "Queued" THEN b ELSE d, res |-> "Submitted", shown |-> FALSE]}
    BY <1>2, Zenon DEF Renders, RenderHeadless
  <2> HIDE DEF a, d
  <2>3. b \in Outs /\ b.mon = o.mon
    BY <2>1, SMTT(30) DEF NextCycle, Outs
  <2> HIDE DEF b
  <2>4. r.o \in {b, d}
    BY <2>2
  <2> QED
    BY <1>2, <2>1, <2>3, <2>4, Zenon
<1>3. CASE FrBackend \notin {"winit", "headless"}
  <2> DEFINE q == queue_estimated_vblank_timer(o)
             b == SubmitTty(o)
  <2>1. q \in Outs /\ q.mon = o.mon
    <3> DEFINE a == [o EXCEPT !.st = "Est"]
               t == [a EXCEPT !.timers = @ + 1]
               d == [o EXCEPT !.dead = TRUE]
    <3>1. a \in Outs /\ a.mon = o.mon /\ d \in Outs /\ d.mon = o.mon
      BY Zenon DEF Outs
    <3>2. q \in {a, t, d}
      BY Zenon DEF queue_estimated_vblank_timer
    <3> HIDE DEF a, d
    <3>3. t \in Outs /\ t.mon = o.mon
      BY <3>1 DEF Outs
    <3> HIDE DEF q, t
    <3> QED BY <3>1, <3>2, <3>3, Zenon
  <2>2. b \in Outs /\ b.mon = o.mon
    <3> DEFINE a == [o EXCEPT !.st = "VBlank"]
               f == [a EXCEPT !.flight = @ + 1]
               t == [f EXCEPT !.timers = IF o.st = "EstQueued" THEN @ - 1 ELSE @]
               d == [o EXCEPT !.dead = TRUE]
    <3>1. a \in Outs /\ a.mon = o.mon /\ d \in Outs /\ d.mon = o.mon
      BY Zenon DEF Outs
    <3>2. b \in {NextCycle(t), d}
      BY Zenon DEF SubmitTty
    <3> HIDE DEF a, d
    <3>3. f \in Outs /\ f.mon = o.mon
      BY <3>1 DEF Outs
    <3> HIDE DEF f
    <3>4. t \in Outs /\ t.mon = o.mon
      BY <3>3 DEF Outs
    <3> HIDE DEF t
    <3>5. NextCycle(t) \in Outs /\ NextCycle(t).mon = o.mon
      BY <3>4 DEF NextCycle, Outs
    <3> HIDE DEF b
    <3> QED BY <3>1, <3>2, <3>5, Zenon
  <2>3. \/ r = [o |-> o, res |-> "Skipped", shown |-> FALSE]
        \/ \E shown \in BOOLEAN : r = [o |-> q, res |-> "Skipped", shown |-> shown]
        \/ r = [o |-> q, res |-> "NoDamage", shown |-> TRUE]
        \/ r = [o |-> b, res |-> "Submitted", shown |-> TRUE]
    BY <1>3, Zenon DEF Renders, RenderTty
  <2> HIDE DEF q, b
  <2>4. r.o \in {o, q, b}
    BY <2>3
  <2> QED
    BY <1>3, <2>1, <2>2, <2>4, Zenon
<1> QED
  BY <1>1, <1>2, <1>3, Zenon

\* Niri::redraw keeps the invariant: on winit the frame that leaves the queue asks for
\* the next one, unless it failed or the monitors are off.
LEMMA FrRedrawStep == ASSUME FrInv, FrRedraw, UNCHANGED <<frClock, frProfile>> PROVE FrInv'
<1> USE DEF FrInv
<1>1. PICK r \in IF frOut.mon THEN Renders(frOut) ELSE {[o |-> frOut, res |-> "Skipped", shown |-> FALSE]},
           anim \in IF frOut.mon THEN BOOLEAN ELSE {frOut.anim} :
             /\ frOut' = IF r.o.dead THEN r.o ELSE [RedrawState(r.o, r.res) EXCEPT !.anim = anim]
             /\ frSurf' = IF r.o.dead THEN frSurf
                          ELSE send_frame_callbacks([s \in FrSurfaces |-> IF r.shown THEN update_primary_scanout_output(frSurf[s])
                                                                      ELSE frSurf[s]], r.o.seq)
  BY Zenon DEF FrRedraw
<1>2. anim \in BOOLEAN
  BY Zenon DEF Outs
<1>3. /\ r.o \in Outs /\ r.o.mon = frOut.mon
      /\ FrBackend = "winit" => r.o.timers = frOut.timers /\ r.o.st = frOut.st /\ (frOut.mon => r.o.req \/ r.o.failed)
  <2>1. CASE frOut.mon
    BY <2>1, RendersFacts, Zenon
  <2>2. CASE ~frOut.mon
    BY <2>2
  <2> QED
    BY <2>1, <2>2, Zenon
<1> DEFINE d == RedrawState(r.o, r.res)
           e == [d EXCEPT !.anim = anim]
           surf == [s \in FrSurfaces |-> IF r.shown THEN update_primary_scanout_output(frSurf[s]) ELSE frSurf[s]]
<1>4. /\ d \in Outs /\ d.mon = r.o.mon /\ d.timers = r.o.timers /\ d.req = r.o.req /\ d.failed = r.o.failed
      /\ r.o.st \in {"Idle", "Queued"} => d.st = "Idle"
  BY <1>3, Zenon DEF RedrawState, Outs
<1> HIDE DEF d
<1>5. /\ e \in Outs /\ e.mon = d.mon /\ e.timers = d.timers /\ e.req = d.req /\ e.failed = d.failed /\ e.st = d.st
  BY <1>2, <1>4, ZenonT(60) DEF Outs
<1> HIDE DEF e
<1>6. frOut' \in {r.o, e}
  BY <1>1, Zenon DEF e, d
<1>7. frSurf' \in [FrSurfaces -> Surfs]
  <2>1. \A s \in FrSurfaces : update_primary_scanout_output(frSurf[s]) \in Surfs
    BY ZenonT(60) DEF update_primary_scanout_output, Surfs
  <2>2. surf \in [FrSurfaces -> Surfs]
    BY <2>1, Zenon
  <2> HIDE DEF surf
  <2>3. r.o.seq \in Int
    BY <1>3, Zenon DEF Outs
  <2>4. frSurf' \in {frSurf, send_frame_callbacks(surf, r.o.seq)}
    BY <1>1, Zenon DEF surf
  <2> QED
    BY <2>2, <2>3, <2>4, CallbacksFacts, Zenon
<1>8. frOut' \in Outs /\ WinitHasNoVblanks(frOut)'
  BY <1>3, <1>4, <1>5, <1>6, ZenonT(60) DEF WinitHasNoVblanks, FrBackend
<1>9. FramesKeepComing'
  BY <1>3, <1>4, <1>5, <1>6, Zenon DEF FramesKeepComing, FrBackend
<1> QED
  BY <1>7, <1>8, <1>9, Zenon

\* The window's redraw request queues the frame it was asked for.
LEMMA RedrawRequestedStep == ASSUME FrInv, RedrawRequested, UNCHANGED <<frClock, frProfile>> PROVE FrInv'
<1> USE DEF FrInv
<1> DEFINE o == [frOut EXCEPT !.req = FALSE]
<1>1. o \in Outs /\ o.mon = frOut.mon /\ o.timers = frOut.timers /\ o.st = frOut.st
  BY Zenon DEF Outs
<1>2. FrBackend = "winit" /\ frOut' = queue_redraw(o) /\ frSurf' = frSurf
  BY Zenon DEF RedrawRequested
<1> HIDE DEF o
<1>3. frOut' \in Outs /\ frOut'.timers = o.timers /\ frOut'.st \in {"Idle", "Queued"} /\ IsQueued(frOut')
  BY <1>1, <1>2, QueueRedrawFacts, Zenon DEF WinitHasNoVblanks
<1>4. WinitHasNoVblanks(frOut)' /\ FramesKeepComing'
  BY <1>1, <1>3, Zenon DEF WinitHasNoVblanks, FramesKeepComing, FrBackend
<1> QED
  BY <1>2, <1>3, <1>4, Zenon

\* Vblanks are those of the TTY backend, held back or not.
LEMMA VblankStep == ASSUME FrInv, on_vblank \/ ThrottleFires, UNCHANGED <<frClock, frProfile>> PROVE FrInv'
<1> USE DEF FrInv
<1>1. FrBackend = "tty" /\ (Vblanked(frOut) \/ (frOut' = [frOut EXCEPT !.thr = TRUE] /\ frSurf' = frSurf))
  BY Zenon DEF on_vblank, ThrottleFires
<1>2. frOut' \in Outs /\ frSurf' \in [FrSurfaces -> Surfs]
  <2>1. CASE frOut' = [frOut EXCEPT !.thr = TRUE] /\ frSurf' = frSurf
    BY <2>1, Zenon DEF Outs
  <2>2. CASE Vblanked(frOut)
    <3> DEFINE a == [frOut EXCEPT !.st = "Idle"]
               b == [a EXCEPT !.thr = FALSE]
               c == [b EXCEPT !.flight = IF @ > 0 THEN @ - 1 ELSE 0]
    <3>1. a \in Outs
      BY Zenon DEF Outs
    <3>2. frOut' \in {queue_redraw(c), c}
      BY <2>2, Zenon DEF Vblanked
    <3>3. frSurf' \in {frSurf, send_frame_callbacks(frSurf, frOut.seq)}
      BY <2>2, Zenon DEF Vblanked
    <3> HIDE DEF a
    <3>4. b \in Outs
      BY <3>1, Zenon DEF Outs
    <3> HIDE DEF b
    <3>5. c \in Outs
      BY <3>4 DEF Outs
    <3> HIDE DEF c
    <3>6. frOut.seq \in Int
      BY Zenon DEF Outs
    <3> QED
      BY <3>2, <3>3, <3>5, <3>6, QueueRedrawFacts, CallbacksFacts, Zenon
  <2> QED
    BY <1>1, <2>1, <2>2, Zenon
<1>3. WinitHasNoVblanks(frOut)' /\ FramesKeepComing'
  BY <1>1, Zenon DEF WinitHasNoVblanks, FramesKeepComing, FrBackend
<1> QED
  BY <1>2, <1>3, Zenon

\* The timer of an estimated vblank, which winit never has.
LEMMA EstimatedVblankStep == ASSUME FrInv, on_estimated_vblank_timer, UNCHANGED <<frClock, frProfile>> PROVE FrInv'
<1> USE DEF FrInv
<1> DEFINE a == [frOut EXCEPT !.timers = @ - 1]
           o == NextCycle(a)
<1>1. frOut.timers > 0
  BY Zenon DEF on_estimated_vblank_timer
<1>2. frOut' \in {[o EXCEPT !.st = "Queued"], [o EXCEPT !.st = "Idle"], [o EXCEPT !.dead = TRUE]}
  BY Zenon DEF on_estimated_vblank_timer
<1>3. frSurf' \in {frSurf, send_frame_callbacks(frSurf, o.seq)}
  BY Zenon DEF on_estimated_vblank_timer
<1>4. a \in Outs
  BY DEF Outs
<1> HIDE DEF a
<1>5. o \in Outs /\ o.seq \in Int
  BY <1>4 DEF NextCycle, Outs
<1> HIDE DEF o
<1>6. [o EXCEPT !.st = "Queued"] \in Outs /\ [o EXCEPT !.st = "Idle"] \in Outs /\ [o EXCEPT !.dead = TRUE] \in Outs
  BY <1>5, Zenon DEF Outs
<1>7. frOut' \in Outs
  BY <1>2, <1>6, Zenon
<1>8. frSurf' \in [FrSurfaces -> Surfs]
  BY <1>3, <1>5, CallbacksFacts, Zenon
<1>9. WinitHasNoVblanks(frOut)' /\ FramesKeepComing'
  BY <1>1 DEF WinitHasNoVblanks, FramesKeepComing, FrBackend
<1> QED
  BY <1>7, <1>8, <1>9, Zenon

\* Monitors on and off; turning them on queues a frame.
LEMMA MonitorsStep ==
    ASSUME FrInv, deactivate_monitors \/ activate_monitors, UNCHANGED <<frClock, frProfile>> PROVE FrInv'
<1> USE DEF FrInv
<1> DEFINE on == [frOut EXCEPT !.mon = TRUE]
           off == [frOut EXCEPT !.mon = FALSE]
<1>1. /\ on \in Outs /\ on.timers = frOut.timers /\ on.st = frOut.st
      /\ off \in Outs /\ off.timers = frOut.timers /\ off.st = frOut.st /\ ~off.mon
  BY Zenon DEF Outs
<1>2. frOut' \in {off, queue_redraw(on)} /\ frSurf' = frSurf
  BY Zenon DEF deactivate_monitors, activate_monitors
<1> HIDE DEF on, off
<1>3. /\ queue_redraw(on) \in Outs /\ queue_redraw(on).timers = frOut.timers
      /\ FrBackend = "winit" => queue_redraw(on).st \in {"Idle", "Queued"} /\ IsQueued(queue_redraw(on))
  BY <1>1, QueueRedrawFacts, Zenon DEF WinitHasNoVblanks
<1>4. frOut' \in Outs /\ WinitHasNoVblanks(frOut)' /\ FramesKeepComing'
  BY <1>1, <1>2, <1>3, Zenon DEF WinitHasNoVblanks, FramesKeepComing, FrBackend
<1> QED
  BY <1>2, <1>4, Zenon

\* A commit or a change of what is seen, which both queue a redraw.
LEMMA SurfaceStep ==
    ASSUME FrInv, NEW s \in FrSurfaces, FrCommit(s) \/ FrShow(s), UNCHANGED <<frClock, frProfile>> PROVE FrInv'
<1> USE DEF FrInv
<1>1. frSurf' \in [FrSurfaces -> Surfs]
  <2>1. [frSurf[s] EXCEPT !.pending = TRUE] \in Surfs /\ [frSurf[s] EXCEPT !.vis = ~@] \in Surfs
    BY Zenon DEF Surfs
  <2>2. \/ frSurf' = [frSurf EXCEPT ![s] = [frSurf[s] EXCEPT !.pending = TRUE]]
        \/ frSurf' = [frSurf EXCEPT ![s] = [frSurf[s] EXCEPT !.vis = ~@]]
    BY Zenon DEF FrCommit, FrShow
  <2> QED
    BY <2>1, <2>2, Zenon
<1>2. frOut' = queue_redraw(frOut)
  BY Zenon DEF FrCommit, FrShow
<1>3. /\ frOut' \in Outs /\ frOut'.timers = frOut.timers
      /\ FrBackend = "winit" => frOut'.st \in {"Idle", "Queued"} /\ IsQueued(frOut')
  BY <1>2, QueueRedrawFacts, Zenon DEF WinitHasNoVblanks
<1>4. WinitHasNoVblanks(frOut)' /\ FramesKeepComing'
  BY <1>3, Zenon DEF WinitHasNoVblanks, FramesKeepComing, FrBackend
<1> QED
  BY <1>1, <1>3, <1>4, Zenon

\* Time passes for a surface; the timer of each second sends what is overdue.
LEMMA OverdueStep ==
    ASSUME FrInv, FallbackTimer \/ \E s \in FrSurfaces : Elapse(s), UNCHANGED <<frClock, frProfile>> PROVE FrInv'
<1> USE DEF FrInv
<1>1. frSurf' \in [FrSurfaces -> Surfs]
  <2>1. CASE FallbackTimer
    <3>1. ASSUME NEW s \in FrSurfaces PROVE fallback(frSurf[s]) \in Surfs
      <4>1. frSurf[s] \in Surfs
        BY Zenon
      <4> QED
        BY <4>1 DEF fallback, send_frame, Surfs
    <3> QED
      BY <2>1, <3>1, Zenon DEF FallbackTimer
  <2>2. ASSUME NEW s \in FrSurfaces, Elapse(s) PROVE frSurf' \in [FrSurfaces -> Surfs]
    <3>1. [frSurf[s] EXCEPT !.due = TRUE] \in Surfs
      BY Zenon DEF Surfs
    <3>2. frSurf' = [frSurf EXCEPT ![s] = [frSurf[s] EXCEPT !.due = TRUE]]
      BY <2>2, Zenon DEF Elapse
    <3> QED
      BY <3>1, <3>2, Zenon
  <2> QED
    BY <2>1, <2>2, Zenon
<1>2. frOut' = frOut
  BY Zenon DEF FallbackTimer, Elapse
<1> QED
  BY <1>1, <1>2, Zenon DEF WinitHasNoVblanks, FramesKeepComing, FrBackend

\* Every step keeps the invariant.
LEMMA FrNextInv == FrInv /\ [FrNext]_frVars => FrInv'
<1> SUFFICES ASSUME FrInv, [FrNext]_frVars PROVE FrInv'
  BY Zenon
<1>1. CASE UNCHANGED frVars
  BY <1>1, Zenon DEF frVars, FrInv, WinitHasNoVblanks, FramesKeepComing, FrBackend
<1>2. CASE FrNext
  <2>1. FrStep /\ UNCHANGED <<frClock, frProfile>>
    BY <1>2, Zenon DEF FrNext
  <2> QED
    BY <2>1, FrRedrawStep, RedrawRequestedStep, VblankStep, EstimatedVblankStep, MonitorsStep, SurfaceStep, OverdueStep, Zenon
       DEF FrStep
<1> QED
  BY <1>1, <1>2, Zenon

\* The invariant holds in every reachable state.
THEOREM FrInductive == FrSpec => []FrInv
BY FrInitInv, FrNextInv, PTL DEF FrSpec

-----------------------------------------------------------------------------
\* FrameClock::next_presentation_time is ahead of now and of the last presentation, and
\* on the grid of the refresh interval, for every reading of the clock.
THEOREM PresentationAhead == FrSpec => []NextIsAhead
<1>1. FrInv => NextIsAhead
  <2> SUFFICES ASSUME FrInv PROVE NextIsAhead
    BY Zenon
  <2>1. frClock.now \in Nat /\ frClock.last \in Nat /\ frClock.int \in Nat \ {0} /\ frClock.vrr \in BOOLEAN
    BY Zenon DEF FrInv, Clocks
  <2> QED
    BY <2>1, NextPresentation DEF NextIsAhead
<1> QED
  BY <1>1, FrInductive, PTL

\* The winit backend keeps the event loop spinning: Winit::render asks for the next
\* frame, and every other step that takes a frame off the queue does not happen there.
THEOREM WinitKeepsDrawing == FrSpec => []FramesKeepComing
<1>1. FrInv => FramesKeepComing
  BY Zenon DEF FrInv
<1> QED
  BY <1>1, FrInductive, PTL

\* should_send lets one frame callback through in a refresh cycle, on every backend and
\* for any number of surfaces and cycles.
THEOREM OneCallbackPerCycle == FrSpec => []OncePerCycle
<1>1. FrInv => OncePerCycle
  BY DEF FrInv, OncePerCycle, Surfs
<1> QED
  BY <1>1, FrInductive, PTL

-----------------------------------------------------------------------------
\* Screencast sessions.

Stops == {"no", "asked", "first", "sent"}
StreamRecords == [id : Nat, target : Targets \cup {CnDynamic}]
Messages == [k : {"StartCast"}, stream : StreamRecords] \cup [k : {"StopCast"}]
Casts == [stream : Nat, gen : Nat, dynamic : BOOLEAN, target : Targets \cup {CnNothing}]

CnTypeOK ==
    /\ cnObject \in BOOLEAN /\ cnStopped \in BOOLEAN /\ cnClosed \in Nat /\ cnStarts \in Nat
    /\ cnStreams \in Seq(StreamRecords) /\ cnChan \in Seq(Messages) /\ cnCasts \in Seq(Casts)
    /\ cnStop \in [Callers -> Stops]
    /\ cnPw \in [alive : BOOLEAN, gen : Nat, msg : {"no", "StopCast", "FatalError"}]
    /\ cnThere \subseteq Targets
    /\ cnDyn \in [idles : Nat, set : Nat]

\* `stopped` is swapped by one caller; that one alone is in the rest of Session::stop,
\* and has not sent Closed until it is past that step.
Stopping(c) == cnStop[c] \in {"first", "sent"}
OneStops ==
    /\ ~cnStopped => cnClosed = 0 /\ \A c \in Callers : ~Stopping(c)
    /\ \A c, d \in Callers : Stopping(c) /\ Stopping(d) => c = d
    /\ \A c \in Callers : cnStop[c] = "first" => cnClosed = 0
    /\ cnClosed <= 1

CnInv == CnTypeOK /\ OneStops /\ CastTargetsExist /\ CastsOfLivePipeWire

\* Append puts its element at the end.
LEMMA Appended ==
    ASSUME NEW S, NEW s \in Seq(S), NEW e \in S
    PROVE  /\ Append(s, e) \in Seq(S) /\ Len(Append(s, e)) = Len(s) + 1
           /\ Append(s, e)[Len(s) + 1] = e /\ \A i \in 1 .. Len(s) : Append(s, e)[i] = s[i]
  OBVIOUS

\* An empty sequence is one of any kind.
LEMMA EmptySequence ==
    ASSUME NEW S
    PROVE  <<>> \in Seq(S) /\ \A s \in Seq(S) : s = <<>> <=> Len(s) = 0
  OBVIOUS

\* The session starts in the invariant.
LEMMA CnInitInv == CnInit => CnInv
<1> SUFFICES ASSUME CnInit PROVE CnInv
  BY Zenon
<1> USE DEF CnInit
<1>1. CnTypeOK
  BY EmptySequence, Zenon DEF CnTypeOK, Stops
<1>2. OneStops
  BY SMTT(30) DEF OneStops, Stopping
<1>3. CastTargetsExist /\ CastsOfLivePipeWire
  BY DEF CastTargetsExist, CastsOfLivePipeWire
<1> QED
  BY <1>1, <1>2, <1>3, Zenon DEF CnInv

-----------------------------------------------------------------------------
\* Niri::stop_cast asks for a stop only when the compositor is in none.
LEMMA AskStopFacts ==
    ASSUME CnTypeOK, OneStops, NEW c \in Callers, cnStop[c] = "no", cnStop' = AskStop(cnStop, c),
           UNCHANGED <<cnStopped, cnClosed>>
    PROVE  cnStop' \in [Callers -> Stops] /\ OneStops'
<1>1. cnStop' = cnStop \/ cnStop' = [cnStop EXCEPT ![c] = "asked"]
  BY Zenon DEF AskStop
<1>2. CASE cnStop' = cnStop
  BY <1>2, Zenon DEF CnTypeOK, OneStops, Stopping
<1>3. CASE cnStop' = [cnStop EXCEPT ![c] = "asked"]
  BY <1>3 DEF CnTypeOK, OneStops, Stopping, Stops
<1> QED
  BY <1>1, <1>2, <1>3, Zenon

\* The steps of Session::stop, on the D-Bus thread of the client or of the compositor.
LEMMA StopStep ==
    ASSUME CnInv, NEW c \in Callers, StopSwap(c) \/ StopSend(c) \/ StopRemove(c)
    PROVE  CnInv'
<1> USE DEF CnInv
<1>1. cnStop \in [Callers -> Stops] /\ cnStopped \in BOOLEAN /\ cnClosed \in Nat
  BY Zenon DEF CnTypeOK
<1>2. CASE StopSwap(c)
  <2> USE <1>2 DEF StopSwap
  <2>1. CnTypeOK'
    BY Zenon DEF CnTypeOK, Stops
  <2>2. OneStops'
    BY <1>1, Zenon DEF OneStops, Stopping, Stops
  <2> QED
    BY <2>1, <2>2, Zenon DEF CastTargetsExist, CastsOfLivePipeWire
<1>3. CASE StopSend(c)
  <2> USE <1>3 DEF StopSend
  <2>1. CnTypeOK'
    <3>1. [k |-> "StopCast"] \in Messages
      BY Zenon DEF Messages
    <3>2. cnChan' \in Seq(Messages)
      BY <3>1, SMTT(30) DEF CnTypeOK
    <3> QED
      BY <3>2 DEF CnTypeOK, Stops
  <2>2. OneStops'
    BY <1>1, SMTT(30) DEF OneStops, Stopping, Stops
  <2> QED
    BY <2>1, <2>2, Zenon DEF CastTargetsExist, CastsOfLivePipeWire
<1>4. CASE StopRemove(c)
  <2> USE <1>4 DEF StopRemove
  <2>1. CnTypeOK'
    <3>1. cnStreams' \in Seq(StreamRecords)
      BY EmptySequence, Zenon
    <3>2. cnStop' \in [Callers -> Stops]
      BY <1>1, Zenon DEF Stops
    <3> QED
      BY <3>1, <3>2, Zenon DEF CnTypeOK
  <2>2. OneStops'
    BY <1>1, Zenon DEF OneStops, Stopping, Stops
  <2> QED
    BY <2>1, <2>2, Zenon DEF CastTargetsExist, CastsOfLivePipeWire
<1> QED
  BY <1>2, <1>3, <1>4, Zenon

\* record_monitor, record_window, Start and Stop of the client.
LEMMA ClientStep ==
    ASSUME CnInv, Start \/ StopCall \/ \E target \in Targets \cup {CnDynamic} : Record(target)
    PROVE  CnInv'
<1> USE DEF CnInv
<1>1. CASE Start
  <2>1. StartCasts \in Seq(Messages)
    <3>1. cnStreams \in Seq(StreamRecords) /\ DOMAIN cnStreams = 1 .. Len(cnStreams) /\ Len(cnStreams) \in Nat
      BY DEF CnTypeOK
    <3>2. ASSUME NEW i \in DOMAIN cnStreams PROVE [k |-> "StartCast", stream |-> cnStreams[i]] \in Messages
      <4>1. cnStreams[i] \in StreamRecords
        BY <3>1
      <4> QED
        BY <4>1, Zenon DEF Messages
    <3>3. StartCasts \in [1 .. Len(cnStreams) -> Messages]
      BY <3>1, <3>2, Zenon DEF StartCasts
    <3> QED
      BY <3>1, <3>3
  <2>2. cnChan' \in Seq(Messages) /\ cnStarts' \in Nat
    BY <1>1, <2>1 DEF Start, CnTypeOK
  <2>3. CnTypeOK'
    BY <1>1, <2>2, Zenon DEF Start, CnTypeOK
  <2> QED
    BY <1>1, <2>3, Zenon DEF Start, OneStops, Stopping, CastTargetsExist, CastsOfLivePipeWire
<1>2. CASE StopCall
  <2>1. cnStop' \in [Callers -> Stops] /\ OneStops'
    BY <1>2, AskStopFacts, Zenon DEF StopCall, Callers
  <2> QED
    BY <1>2, <2>1, Zenon DEF StopCall, CnTypeOK, CastTargetsExist, CastsOfLivePipeWire
<1>3. ASSUME NEW target \in Targets \cup {CnDynamic}, Record(target) PROVE CnInv'
  <2>1. [id |-> Len(cnStreams) + 1, target |-> target] \in StreamRecords
    BY SMTT(30) DEF StreamRecords, CnTypeOK
  <2>2. cnStreams' \in Seq(StreamRecords)
    BY <1>3, <2>1 DEF Record, CnTypeOK
  <2>3. CnTypeOK'
    BY <1>3, <2>2, Zenon DEF Record, CnTypeOK
  <2> QED
    BY <1>3, <2>3, Zenon DEF Record, OneStops, Stopping, CastTargetsExist, CastsOfLivePipeWire
<1> QED
  BY <1>1, <1>2, <1>3, Zenon

\* After Niri::stop_cast there is no cast, so none is of a target that is gone or of
\* a PipeWire that is not there.
LEMMA StopCastFacts ==
    ASSUME CnInv, MainFree, stop_cast, UNCHANGED <<cnStopped, cnClosed>>
    PROVE  /\ cnCasts' \in Seq(Casts) /\ cnStop' \in [Callers -> Stops]
           /\ OneStops' /\ CastTargetsExist' /\ CastsOfLivePipeWire'
<1>1. cnCasts' = <<>> /\ cnStop' = AskStop(cnStop, "niri") /\ cnStop["niri"] = "no"
  BY Zenon DEF stop_cast, MainFree
<1>2. cnStop' \in [Callers -> Stops] /\ OneStops'
  BY <1>1, AskStopFacts, Zenon DEF CnInv, Callers
<1>3. CastTargetsExist' /\ CastsOfLivePipeWire'
  BY <1>1 DEF CastTargetsExist, CastsOfLivePipeWire
<1> QED
  BY <1>1, <1>2, <1>3, EmptySequence, Zenon

\* A message from D-Bus: a cast of a target that is there, on a PipeWire that is there
\* (a new one has no older casts), or the end of the session's casts.
LEMMA ScreenCastMsgStep == ASSUME CnInv, NEW ok \in BOOLEAN, on_screen_cast_msg(ok) PROVE CnInv'
<1> USE DEF CnInv
<1>1. /\ MainFree /\ cnChan # <<>> /\ cnChan' = Tail(cnChan)
      /\ UNCHANGED <<cnObject, cnStreams, cnStopped, cnClosed, cnStarts, cnThere, cnDyn>>
  BY Zenon DEF on_screen_cast_msg
<1>2. cnChan' \in Seq(Messages) /\ Head(cnChan) \in Messages
  BY <1>1 DEF CnTypeOK
<1>3. CASE stop_cast /\ UNCHANGED cnPw
  BY <1>1, <1>2, <1>3, StopCastFacts, Zenon DEF CnTypeOK
<1>4. CASE ~(stop_cast /\ UNCHANGED cnPw)
  <2> DEFINE stream == Head(cnChan).stream
             pw == IF cnPw.alive THEN cnPw ELSE [cnPw EXCEPT !.alive = TRUE, !.gen = @ + 1]
             cast == [stream |-> stream.id, gen |-> pw.gen, dynamic |-> stream.target = CnDynamic,
                      target |-> IF stream.target = CnDynamic THEN CnNothing ELSE stream.target]
  <2>1. /\ Head(cnChan).k = "StartCast" /\ CnPresent(stream.target)
        /\ cnCasts' = Append(cnCasts, cast) /\ cnPw' = pw /\ cnStop' = cnStop
    BY <1>4, Zenon DEF on_screen_cast_msg, StartCast
  <2>2. stream \in StreamRecords
    BY <1>2, <2>1, Zenon DEF Messages
  <2>3. stream.id \in Nat /\ stream.target \in Targets \cup {CnDynamic}
    BY <2>2, Zenon DEF StreamRecords
  <2> HIDE DEF stream
  <2>4. /\ pw \in [alive : BOOLEAN, gen : Nat, msg : {"no", "StopCast", "FatalError"}] /\ pw.alive
        /\ cnPw.alive => pw = cnPw
    <3>1. CASE cnPw.alive
      BY <3>1, Zenon DEF CnTypeOK
    <3>2. CASE ~cnPw.alive
      <4> DEFINE a == [cnPw EXCEPT !.alive = TRUE]
                 b == [a EXCEPT !.gen = @ + 1]
      <4>1. a \in [alive : BOOLEAN, gen : Nat, msg : {"no", "StopCast", "FatalError"}] /\ a.alive
        BY Zenon DEF CnTypeOK
      <4>2. pw = b
        BY <3>2, Zenon
      <4> HIDE DEF a, pw
      <4> QED
        BY <3>2, <4>1, <4>2
    <3> QED
      BY <3>1, <3>2, Zenon
  <2> HIDE DEF pw
  <2>5. cast \in Casts /\ cast.gen = pw.gen /\ cast.target \in cnThere \cup {CnNothing}
    BY <2>1, <2>3, <2>4, Zenon DEF Casts, CnPresent, CnTypeOK
  <2> HIDE DEF cast
  <2>6. /\ cnCasts' \in Seq(Casts) /\ Len(cnCasts') = Len(cnCasts) + 1 /\ cnCasts'[Len(cnCasts) + 1] = cast
        /\ \A i \in 1 .. Len(cnCasts) : cnCasts'[i] = cnCasts[i]
        /\ cnCasts \in Seq(Casts)
    BY <2>1, <2>5, Appended, SMTT(30) DEF CnTypeOK
  <2>7. CnTypeOK'
    BY <1>1, <1>2, <2>1, <2>4, <2>6, Zenon DEF CnTypeOK
  <2>8. ASSUME NEW i \in DOMAIN cnCasts'
        PROVE  /\ cnCasts'[i].target \in cnThere \cup {CnNothing} \/ (cnCasts'[i].dynamic /\ cnDyn.idles > 0)
               /\ cnCasts'[i].gen = pw.gen
    <3>1. CASE i = Len(cnCasts) + 1
      BY <2>5, <2>6, <3>1, Zenon
    <3>2. CASE i \in 1 .. Len(cnCasts)
      BY <2>4, <2>6, <3>2 DEF CastTargetsExist, CastsOfLivePipeWire
    <3> QED
      BY <2>6, <3>1, <3>2, SMTT(30)
  <2>9. CastTargetsExist' /\ CastsOfLivePipeWire'
    BY <1>1, <2>1, <2>4, <2>8, Zenon DEF CastTargetsExist, CastsOfLivePipeWire
  <2>10. OneStops'
    BY <1>1, <2>1, Zenon DEF OneStops, Stopping
  <2> QED
    BY <2>7, <2>9, <2>10, Zenon
<1> QED
  BY <1>3, <1>4, Zenon

\* PipeWire fails and says so: a fatal error takes PipeWire away after every cast.
LEMMA PipeWireStep ==
    ASSUME CnInv, on_pw_msg \/ \E msg \in {"StopCast", "FatalError"} : PwFails(msg)
    PROVE  CnInv'
<1> USE DEF CnInv
<1>1. ASSUME NEW msg \in {"StopCast", "FatalError"}, PwFails(msg) PROVE CnInv'
  <2>1. cnPw' \in [alive : BOOLEAN, gen : Nat, msg : {"no", "StopCast", "FatalError"}]
    BY <1>1, Zenon DEF PwFails, CnTypeOK
  <2>2. cnPw'.alive = cnPw.alive /\ cnPw'.gen = cnPw.gen
    BY <1>1, Zenon DEF PwFails, CnTypeOK
  <2>3. UNCHANGED <<cnBus, cnChan, cnCasts, cnThere, cnDyn>>
    BY <1>1, Zenon DEF PwFails
  <2>4. CnTypeOK' /\ OneStops' /\ CastTargetsExist'
    BY <2>1, <2>3, Zenon DEF CnTypeOK, OneStops, Stopping, CastTargetsExist, cnBus
  <2>5. CastsOfLivePipeWire'
    BY <2>2, <2>3, Zenon DEF CastsOfLivePipeWire
  <2> QED
    BY <2>4, <2>5, Zenon
<1>2. CASE on_pw_msg
  <2>1. /\ MainFree
        /\ UNCHANGED <<cnObject, cnStreams, cnStopped, cnClosed, cnStarts, cnChan, cnThere, cnDyn>>
        /\ stop_cast \/ (cnCasts = <<>> /\ UNCHANGED <<cnCasts, cnStop>>)
    BY <1>2, Zenon DEF on_pw_msg
  <2>2. cnPw' \in [alive : BOOLEAN, gen : Nat, msg : {"no", "StopCast", "FatalError"}]
    <3> DEFINE a == [cnPw EXCEPT !.msg = "no"]
    <3>1. a \in [alive : BOOLEAN, gen : Nat, msg : {"no", "StopCast", "FatalError"}]
      BY Zenon DEF CnTypeOK
    <3>2. cnPw' = [a EXCEPT !.alive = a.alive /\ cnPw.msg # "FatalError"]
      BY <1>2, Zenon DEF on_pw_msg
    <3> HIDE DEF a
    <3> QED
      BY <3>1, <3>2, Zenon
  <2>3. CASE stop_cast
    BY <2>1, <2>2, <2>3, StopCastFacts, Zenon DEF CnTypeOK
  <2>4. CASE cnCasts = <<>> /\ UNCHANGED <<cnCasts, cnStop>>
    <3>1. CnTypeOK' /\ OneStops'
      BY <2>1, <2>2, <2>4, Zenon DEF CnTypeOK, OneStops, Stopping
    <3>2. CastTargetsExist' /\ CastsOfLivePipeWire'
      BY <2>4 DEF CastTargetsExist, CastsOfLivePipeWire
    <3> QED
      BY <3>1, <3>2, Zenon
  <2> QED
    BY <2>1, <2>3, <2>4, Zenon
<1> QED
  BY <1>1, <1>2, Zenon

\* set_dynamic_cast_target changes the targets of the dynamic casts, and nothing else.
LEMMA WithDynamicFacts ==
    ASSUME CnTypeOK, NEW target \in Targets \cup {CnNothing}
    PROVE  /\ WithDynamic(target) \in Seq(Casts)
           /\ DOMAIN WithDynamic(target) = DOMAIN cnCasts
           /\ \A i \in DOMAIN cnCasts :
                /\ WithDynamic(target)[i].gen = cnCasts[i].gen
                /\ IF cnCasts[i].dynamic THEN WithDynamic(target)[i].target = target
                   ELSE WithDynamic(target)[i] = cnCasts[i]
<1>1. cnCasts \in Seq(Casts) /\ DOMAIN cnCasts = 1 .. Len(cnCasts) /\ Len(cnCasts) \in Nat
  BY DEF CnTypeOK
<1>2. ASSUME NEW i \in DOMAIN cnCasts
      PROVE  /\ cnCasts[i] \in Casts /\ [cnCasts[i] EXCEPT !.target = target] \in Casts
             /\ [cnCasts[i] EXCEPT !.target = target].target = target
             /\ [cnCasts[i] EXCEPT !.target = target].gen = cnCasts[i].gen
  <2>1. cnCasts[i] \in Casts
    BY <1>1
  <2> QED
    BY <2>1, Zenon DEF Casts
<1>3. WithDynamic(target) \in [1 .. Len(cnCasts) -> Casts]
  BY <1>1, <1>2, Zenon DEF WithDynamic
<1>4. WithDynamic(target) \in Seq(Casts)
  BY <1>1, <1>3
<1>5. ASSUME NEW i \in DOMAIN cnCasts
      PROVE  WithDynamic(target)[i] = IF cnCasts[i].dynamic THEN [cnCasts[i] EXCEPT !.target = target] ELSE cnCasts[i]
  BY <1>5, Zenon DEF WithDynamic
<1> QED
  BY <1>1, <1>2, <1>3, <1>4, <1>5, Zenon

\* The dynamic target is set to something that is there, or cleared.
LEMMA DynamicStep ==
    ASSUME CnInv, ClearDynamic \/ \E target \in Targets \cup {CnNothing} : SetDynamic(target)
    PROVE  CnInv'
<1> USE DEF CnInv
<1>1. PICK target \in Targets \cup {CnNothing} :
        /\ cnCasts' = WithDynamic(target) /\ target \in cnThere \cup {CnNothing}
        /\ UNCHANGED <<cnBus, cnChan, cnPw, cnThere>>
  BY Zenon DEF ClearDynamic, SetDynamic
<1>2. cnDyn' \in [idles : Nat, set : Nat]
  <2>1. cnDyn \in [idles : Nat, set : Nat]
    BY Zenon DEF CnTypeOK
  <2>2. CASE ClearDynamic
    BY <2>1, <2>2, SMTT(30) DEF ClearDynamic
  <2>3. CASE cnDyn' = [cnDyn EXCEPT !.set = @ + 1]
    BY <2>1, <2>3, SMTT(30)
  <2> QED
    BY <2>2, <2>3, Zenon DEF SetDynamic
<1>3. CnTypeOK' /\ OneStops'
  BY <1>1, <1>2, WithDynamicFacts, Zenon DEF CnTypeOK, OneStops, Stopping, cnBus
<1>4. ASSUME NEW i \in DOMAIN cnCasts
      PROVE  cnCasts'[i].target \in cnThere \cup {CnNothing} /\ cnCasts'[i].gen = cnPw.gen /\ cnPw.alive
  BY <1>1, WithDynamicFacts, ZenonT(60) DEF CastTargetsExist, CastsOfLivePipeWire
<1>5. DOMAIN cnCasts' = DOMAIN cnCasts
  BY <1>1, WithDynamicFacts, Zenon
<1>6. CastTargetsExist' /\ CastsOfLivePipeWire'
  BY <1>1, <1>4, <1>5, Zenon DEF CastTargetsExist, CastsOfLivePipeWire
<1> QED
  BY <1>3, <1>6, Zenon

\* An output or a window goes: stop_casts_for_target stops its casts, or arranges for
\* their dynamic target to be cleared.
LEMMA GoneStep == ASSUME CnInv, NEW target \in Targets \cup {CnNothing}, Gone(target) PROVE CnInv'
<1> USE DEF CnInv
<1> DEFINE hit == {i \in DOMAIN cnCasts : cnCasts[i].target = target}
<1>1. /\ MainFree /\ cnThere' = cnThere \ {target}
      /\ UNCHANGED <<cnObject, cnStreams, cnStopped, cnClosed, cnStarts, cnChan, cnPw>>
      /\ IF \E i \in hit : ~cnCasts[i].dynamic THEN stop_cast ELSE UNCHANGED <<cnCasts, cnStop>>
      /\ cnDyn' = IF \E i \in hit : cnCasts[i].dynamic THEN [cnDyn EXCEPT !.idles = @ + 1] ELSE cnDyn
  BY Zenon DEF Gone, stop_casts_for_target
<1>2. /\ cnDyn' \in [idles : Nat, set : Nat] /\ cnDyn'.idles >= cnDyn.idles /\ cnDyn.idles \in Nat
      /\ (\E i \in hit : cnCasts[i].dynamic) => cnDyn'.idles > 0
  <2>1. cnDyn.idles + 1 \in Nat /\ [cnDyn EXCEPT !.idles = @ + 1] \in [idles : Nat, set : Nat]
         /\ [cnDyn EXCEPT !.idles = @ + 1].idles = cnDyn.idles + 1 /\ cnDyn.idles \in Nat
    BY SMTT(30) DEF CnTypeOK
  <2> HIDE DEF hit
  <2> QED
    BY <1>1, <2>1, SMTT(30) DEF CnTypeOK
<1>3. CASE \E i \in hit : ~cnCasts[i].dynamic
  BY <1>1, <1>2, <1>3, StopCastFacts, Zenon DEF CnTypeOK
<1>4. CASE ~\E i \in hit : ~cnCasts[i].dynamic
  <2>1. UNCHANGED <<cnCasts, cnStop>>
    BY <1>1, <1>4, Zenon
  <2>2. CnTypeOK' /\ OneStops'
    BY <1>1, <1>2, <2>1, Zenon DEF CnTypeOK, OneStops, Stopping
  <2>3. ASSUME NEW i \in DOMAIN cnCasts
        PROVE  cnCasts[i].target \in cnThere' \cup {CnNothing} \/ (cnCasts[i].dynamic /\ cnDyn'.idles > 0)
    <3>1. CASE i \in hit
      BY <1>2, <1>4, <3>1, Zenon
    <3>2. CASE i \notin hit
      BY <1>1, <1>2, <3>2, Zenon DEF CastTargetsExist
    <3> QED
      BY <3>1, <3>2, Zenon
  <2>4. CastTargetsExist' /\ CastsOfLivePipeWire'
    BY <1>1, <2>1, <2>3, Zenon DEF CastTargetsExist, CastsOfLivePipeWire
  <2> QED
    BY <2>2, <2>4, Zenon
<1> QED
  BY <1>3, <1>4, Zenon

\* Every step keeps the invariant.
LEMMA CnNextInv == CnInv /\ [CnNext]_cnVars => CnInv'
<1> SUFFICES ASSUME CnInv, [CnNext]_cnVars PROVE CnInv'
  BY Zenon
<1>1. CASE UNCHANGED cnVars
  BY <1>1, ZenonT(60) DEF cnVars, cnBus, CnInv, CnTypeOK, OneStops, Stopping, CastTargetsExist, CastsOfLivePipeWire
<1>2. CASE CnNext
  BY <1>2, StopStep, ClientStep, ScreenCastMsgStep, PipeWireStep, DynamicStep, GoneStep, Zenon DEF CnNext
<1> QED
  BY <1>1, <1>2, Zenon

\* The invariant holds in every reachable state.
THEOREM CnInductive == CnSpec => []CnInv
BY CnInitInv, CnNextInv, PTL DEF CnSpec

-----------------------------------------------------------------------------
\* Session::stop emits Closed once, however the calls of the client and of the compositor
\* interleave: the swap of `stopped` lets one caller through.
THEOREM ClosedSentOnce == CnSpec => []ClosedOnce
<1>1. CnInv => ClosedOnce
  BY Zenon DEF CnInv, OneStops, ClosedOnce
<1> QED
  BY <1>1, CnInductive, PTL

\* No cast is left showing an output or a window that is gone.
THEOREM NoCastOfGone == CnSpec => []CastTargetsExist
<1>1. CnInv => CastTargetsExist
  BY Zenon DEF CnInv
<1> QED
  BY <1>1, CnInductive, PTL

\* No cast outlives the PipeWire it was started on.
THEOREM NoCastOutlivesPipeWire == CnSpec => []CastsOfLivePipeWire
<1>1. CnInv => CastsOfLivePipeWire
  BY Zenon DEF CnInv
<1> QED
  BY <1>1, CnInductive, PTL

-----------------------------------------------------------------------------
\* Output management.

HeadLike(h) == h = [modes |-> h.modes, cur |-> h.cur, enabled |-> h.enabled, pos |-> h.pos]
ConfLike(c) ==
    /\ c = [k |-> c.k, serial |-> c.serial, sets |-> c.sets, results |-> c.results]
    /\ c.serial \in Int /\ c.results \in Nat /\ DOMAIN c.sets = OmOutputs

\* A configuration against the current serial is about outputs of the last change.
ConfsCurrent ==
    \A c \in OmConfs :
        /\ omConfs[c].serial <= omSerial
        /\ omConfs[c].serial = omSerial => Present(omConfs[c].sets) \subseteq Present(omSeen)

\* The inductive invariant of output management.
OmInv ==
    /\ omSerial \in Nat /\ DOMAIN omHeads = OmOutputs /\ DOMAIN omConfs = OmConfs
    /\ \A o \in OmOutputs : omHeads[o] # OmNone => HeadLike(omHeads[o])
    /\ \A c \in OmConfs : ConfLike(omConfs[c]) /\ (omConfs[c].k # "finished" => omConfs[c].results = 0)
    /\ ~omBound => \A o \in OmOutputs : omHeads[o] = OmNone
    /\ HeadsMirrorOutputs /\ AppliedHeadsExist /\ ConfigurationUsedOnce /\ ConfsCurrent

Mirrors(head, conf) == conf # OmNone /\ head.modes = conf.modes /\ (conf.pos # 0 => head.pos = conf.pos)

\* The differences of notify_changes take a head that mirrors the old state to one that
\* mirrors the new one.
LEMMA HeadAfterMirrors ==
    ASSUME NEW head, NEW old, NEW conf,
           head # OmNone => HeadLike(head) /\ Mirrors(head, old)
    PROVE  LET h == HeadAfter(head, old, conf) IN h # OmNone => HeadLike(h) /\ Mirrors(h, conf)
<1>1. CASE conf = OmNone
  BY <1>1, Zenon DEF HeadAfter
<1>2. CASE conf # OmNone /\ old = OmNone
  BY <1>2, Zenon DEF HeadAfter, send_new_head, HeadLike, Mirrors
<1>3. CASE conf # OmNone /\ old # OmNone /\ head = OmNone
  BY <1>3, Zenon DEF HeadAfter
<1>4. CASE conf # OmNone /\ old # OmNone /\ head # OmNone
  <2> DEFINE a == ModeDiff(head, old, conf)
             b == CurrentDiff(a, old, conf)
             c == PlaceDiff(b, old, conf)
  <2>1. HeadAfter(head, old, conf) = c
    BY <1>4, Zenon DEF HeadAfter
  <2>2. HeadLike(a) /\ a.modes = conf.modes /\ a.pos = head.pos
    BY <1>4, Zenon DEF ModeDiff, HeadLike, Mirrors
  <2> HIDE DEF a
  <2>3. HeadLike(b) /\ b.modes = a.modes /\ b.pos = a.pos
    BY <2>2, Zenon DEF CurrentDiff, HeadLike
  <2> HIDE DEF b
  <2>4. HeadLike(c) /\ c.modes = b.modes /\ (conf.pos # 0 => c.pos = conf.pos)
    BY <1>4, <2>2, <2>3, Zenon DEF PlaceDiff, HeadLike, Mirrors
  <2> QED
    BY <1>4, <2>1, <2>2, <2>3, <2>4, ZenonT(60) DEF Mirrors
<1> QED
  BY <1>1, <1>2, <1>3, <1>4, Zenon

\* No head is shown, no configuration is open, and the serial is the first.
LEMMA OmInitInv ==
    ASSUME OmInit
    PROVE  OmInv
  BY SMTT(30) DEF OmInit, OmInv, Nobody, NoConf, ConfLike, HeadsMirrorOutputs, AppliedHeadsExist, ConfigurationUsedOnce, ConfsCurrent, Present

\* The record of a configuration that is not open.
LEMMA NoConfGood ==
    ASSUME omSerial \in Nat
    PROVE  ConfLike(NoConf) /\ NoConf.results = 0 /\ NoConf.serial <= omSerial /\ Present(NoConf.sets) = {}
  BY DEF NoConf, ConfLike, Present, Nobody

-----------------------------------------------------------------------------
\* What the outputs do is seen at the next notify_changes only.
LEMMA OmKept ==
    ASSUME OmInv, UNCHANGED <<omSeen, omSerial, omHeads, omBound, omConfs, omApplied>>
    PROVE  OmInv'
  BY ZenonT(60) DEF OmInv, HeadsMirrorOutputs, AppliedHeadsExist, ConfigurationUsedOnce, ConfsCurrent, Present, HeadLike, ConfLike

\* Stop, or a protocol error, leaves no head and no configuration.
LEMMA Disconnected ==
    ASSUME OmInv, Disconnect, UNCHANGED <<omSeen, omSerial>>
    PROVE  OmInv'
<1>1. DOMAIN omHeads' = OmOutputs /\ \A o \in OmOutputs : omHeads'[o] = OmNone
  BY Zenon DEF Disconnect, Nobody
<1>2. DOMAIN omConfs' = OmConfs /\ \A c \in OmConfs : omConfs'[c] = NoConf
  BY Zenon DEF Disconnect
<1>3. ConfLike(NoConf) /\ NoConf.results = 0 /\ NoConf.serial <= omSerial /\ Present(NoConf.sets) = {}
  BY NoConfGood, Zenon DEF OmInv
<1>4. omApplied' = {} /\ omSerial' \in Nat
  BY Zenon DEF OmInv, Disconnect, AppliedHeadsExist
<1> QED
  BY <1>1, <1>2, <1>3, <1>4, SMTT(30) DEF OmInv, HeadsMirrorOutputs, AppliedHeadsExist, ConfigurationUsedOnce, ConfsCurrent, Present, ConfLike

\* A step that changes one configuration.
LEMMA OneConf ==
    ASSUME OmInv, UNCHANGED <<omSeen, omSerial, omHeads, omBound>>, omApplied' = {},
           NEW c \in OmConfs, DOMAIN omConfs' = OmConfs, \A d \in OmConfs \ {c} : omConfs'[d] = omConfs[d],
           NEW v, omConfs'[c] = v, ConfLike(v), v.k # "finished" => v.results = 0, v.results <= 1,
           v.serial <= omSerial, v.serial = omSerial => Present(v.sets) \subseteq Present(omSeen)
    PROVE  OmInv'
<1>1. \A d \in OmConfs : omConfs'[d] = v \/ omConfs'[d] = omConfs[d]
  BY Zenon
<1>2. ConfsCurrent'
  <2>1. Present(omSeen)' = Present(omSeen)
    BY Zenon DEF Present
  <2>2. ASSUME NEW d \in OmConfs
        PROVE  /\ omConfs'[d].serial <= omSerial'
               /\ omConfs'[d].serial = omSerial' => Present(omConfs'[d].sets) \subseteq Present(omSeen)
    BY <1>1, Zenon DEF OmInv, ConfsCurrent
  <2>3. ASSUME NEW d \in OmConfs
        PROVE  Present(omConfs[d].sets)' = Present(omConfs'[d].sets)
    BY Zenon DEF Present
  <2> QED
    BY <2>1, <2>2, <2>3, Zenon DEF ConfsCurrent
<1>3. \A d \in OmConfs : ConfLike(omConfs'[d]) /\ (omConfs'[d].k # "finished" => omConfs'[d].results = 0) /\ omConfs'[d].results <= 1
  BY <1>1, Zenon DEF OmInv, ConfigurationUsedOnce
<1> QED
  BY <1>2, <1>3, Zenon DEF OmInv, HeadsMirrorOutputs, AppliedHeadsExist, ConfigurationUsedOnce, HeadLike, ConfLike

\* notify_changes: the heads follow the outputs and the serial moves when one changed.
LEMMA NotifyStep ==
    ASSUME OmInv, notify_changes
    PROVE  OmInv'
<1>0. UNCHANGED <<omConfs, omApplied, omReal, omBound>> /\ omSeen' = omReal /\ omSerial \in Nat
  BY Zenon DEF notify_changes, OmInv
<1>1. omSerial' \in Nat /\ omSerial <= omSerial' /\ (omSeen' # omSeen => omSerial' = omSerial + 1)
  BY <1>0 DEF notify_changes
<1>2. ConfsCurrent'
  <2> SUFFICES ASSUME NEW c \in OmConfs
               PROVE  /\ omConfs[c].serial <= omSerial'
                      /\ omConfs[c].serial = omSerial' => Present(omConfs[c].sets) \subseteq Present(omSeen)'
    BY <1>0, Zenon DEF ConfsCurrent, Present
  <2>1. omConfs[c].serial \in Int /\ omConfs[c].serial <= omSerial
    BY Zenon DEF OmInv, ConfLike, ConfsCurrent
  <2>2. CASE omSeen' # omSeen
    BY <1>0, <1>1, <2>1, <2>2
  <2>3. CASE omSeen' = omSeen
    <3>1. Present(omSeen)' = Present(omSeen)
      BY <2>3, Zenon DEF Present
    <3>2. omConfs[c].serial = omSerial => Present(omConfs[c].sets) \subseteq Present(omSeen)
      BY Zenon DEF OmInv, ConfsCurrent
    <3>3. omConfs[c].serial <= omSerial' /\ (omConfs[c].serial = omSerial' => omConfs[c].serial = omSerial)
      BY <1>0, <1>1, <2>1, SMTT(30)
    <3> QED
      BY <3>1, <3>2, <3>3, Zenon
  <2> QED
    BY <2>2, <2>3, Zenon
<1>3. DOMAIN omHeads' = OmOutputs /\ \A o \in OmOutputs : omHeads'[o] # OmNone => HeadLike(omHeads'[o]) /\ Mirrors(omHeads'[o], omSeen'[o])
  <2>1. CASE omBound
    <3>1. omHeads' = [o \in OmOutputs |-> HeadAfter(omHeads[o], omSeen[o], omReal[o])]
      BY <2>1, Zenon DEF notify_changes
    <3>2. \A o \in OmOutputs : omHeads[o] # OmNone => HeadLike(omHeads[o]) /\ Mirrors(omHeads[o], omSeen[o])
      BY Zenon DEF OmInv, HeadsMirrorOutputs, Mirrors
    <3> QED
      BY <1>0, <3>1, <3>2, HeadAfterMirrors, Zenon
  <2>2. CASE ~omBound
    BY <1>0, <2>2, Zenon DEF notify_changes, OmInv
  <2> QED
    BY <2>1, <2>2, Zenon
<1>4. ~omBound' => \A o \in OmOutputs : omHeads'[o] = OmNone
  <2>1. ASSUME ~omBound
        PROVE  UNCHANGED omHeads /\ \A o \in OmOutputs : omHeads[o] = OmNone
    BY <2>1, Zenon DEF notify_changes, OmInv
  <2> QED
    BY <1>0, <2>1, Zenon
<1> QED
  BY <1>0, <1>1, <1>2, <1>3, <1>4, Zenon DEF OmInv, HeadsMirrorOutputs, AppliedHeadsExist, ConfigurationUsedOnce, ConfLike, Mirrors, HeadLike

\* bind sends a head for every output there is.
LEMMA BindStep ==
    ASSUME OmInv, om_bind
    PROVE  OmInv'
<1>0. UNCHANGED <<omSeen, omSerial, omConfs, omApplied>> /\ omBound'
  BY Zenon DEF om_bind, omSrv
<1>1. DOMAIN omHeads' = OmOutputs /\ \A o \in OmOutputs : omHeads'[o] # OmNone => HeadLike(omHeads'[o]) /\ Mirrors(omHeads'[o], omSeen[o])
  BY Zenon DEF om_bind, send_new_head, HeadLike, Mirrors
<1> QED
  BY <1>0, <1>1, ZenonT(60) DEF OmInv, HeadsMirrorOutputs, AppliedHeadsExist, ConfigurationUsedOnce, ConfsCurrent, Present, ConfLike, Mirrors, HeadLike

\* A client lets go of a head.
LEMMA ReleaseHeadStep ==
    ASSUME OmInv, NEW o \in OmOutputs, ReleaseHead(o)
    PROVE  OmInv'
<1>0. UNCHANGED <<omSeen, omSerial, omConfs, omApplied, omBound>>
  BY Zenon DEF ReleaseHead, omSrv
<1>1. DOMAIN omHeads' = OmOutputs /\ \A q \in OmOutputs : omHeads'[q] = omHeads[q] \/ omHeads'[q] = OmNone
  BY Zenon DEF ReleaseHead, OmInv
<1> QED
  BY <1>0, <1>1, ZenonT(60) DEF OmInv, HeadsMirrorOutputs, AppliedHeadsExist, ConfigurationUsedOnce, ConfsCurrent, Present, ConfLike, HeadLike

\* Configurations.
LEMMA CreateStep ==
    ASSUME OmInv, NEW c \in OmConfs, NEW s \in {omSerial, omSerial - 1}, CreateConfiguration(c, s)
    PROVE  OmInv'
<1> DEFINE v == [k |-> "ongoing", serial |-> s, sets |-> Nobody, results |-> 0]
<1>0. /\ UNCHANGED <<omSeen, omSerial, omHeads, omBound>> /\ omApplied' = {} /\ omSerial \in Nat
      /\ omConfs' = [omConfs EXCEPT ![c] = v] /\ DOMAIN omConfs = OmConfs
  BY Zenon DEF CreateConfiguration, omSrv, OmInv, AppliedHeadsExist
<1>1. ConfLike(v) /\ v.k # "finished" /\ v.results = 0 /\ v.serial = s /\ s \in Int /\ s <= omSerial /\ Present(v.sets) = {}
  <2>1. s \in Int /\ s <= omSerial
    <3>1. omSerial \in Nat /\ (s = omSerial \/ s = omSerial - 1)
      BY <1>0, Zenon
    <3> QED
      BY ONLY <3>1
  <2>2. v = [k |-> "ongoing", serial |-> s, sets |-> Nobody, results |-> 0]
    BY Zenon
  <2>3. DOMAIN Nobody = OmOutputs /\ Present(Nobody) = {}
    BY Zenon DEF Nobody, Present
  <2> HIDE DEF v
  <2> QED
    BY <2>1, <2>2, <2>3, Zenon DEF ConfLike
<1> HIDE DEF v
<1>2. omConfs'[c] = v /\ DOMAIN omConfs' = OmConfs /\ \A d \in OmConfs \ {c} : omConfs'[d] = omConfs[d]
  BY <1>0, Zenon
<1> QED
  BY <1>0, <1>1, <1>2, OneConf, SMTT(30)

\* A client destroys a configuration.
LEMMA DestroyStep ==
    ASSUME OmInv, NEW c \in OmConfs, Destroy(c)
    PROVE  OmInv'
<1>0. /\ UNCHANGED <<omSeen, omSerial, omHeads, omBound>> /\ omApplied' = {} /\ omSerial \in Nat
      /\ omConfs' = [omConfs EXCEPT ![c] = NoConf] /\ DOMAIN omConfs = OmConfs
  BY Zenon DEF Destroy, omSrv, OmInv, AppliedHeadsExist
<1>1. omConfs'[c] = NoConf /\ DOMAIN omConfs' = OmConfs /\ \A d \in OmConfs \ {c} : omConfs'[d] = omConfs[d]
  BY <1>0, Zenon
<1> QED
  BY <1>0, <1>1, NoConfGood, OneConf, SMTT(30)

\* EnableHead and DisableHead on an ongoing configuration, or a protocol error.
LEMMA ConfigureStep ==
    ASSUME OmInv, NEW c \in OmConfs, NEW o \in OmOutputs, NEW off \in BOOLEAN, ConfigureHead(c, o, off)
    PROVE  OmInv'
<1>0. UNCHANGED <<omSeen, omSerial>>
  BY Zenon DEF ConfigureHead, omSrv
<1>1. CASE UNCHANGED omCli
  BY <1>0, <1>1, OmKept, Zenon DEF omCli
<1>2. CASE Disconnect
  BY <1>0, <1>2, Disconnected, Zenon
<1>3. CASE ~UNCHANGED omCli /\ ~Disconnect
  <2> DEFINE set == [ConfigOf(omSeenCfg, o) EXCEPT !.off = off]
             v == [omConfs[c] EXCEPT !.sets = [omConfs[c].sets EXCEPT ![o] = set]]
  <2>1. /\ omConfs' = [omConfs EXCEPT ![c].sets[o] = set] /\ omSeen[o] # OmNone
        /\ omConfs[c].k = "ongoing" /\ omConfs[c].serial = omSerial
        /\ UNCHANGED <<omHeads, omBound, omApplied>>
    BY <1>3, Zenon DEF ConfigureHead, OmOutdated
  <2> HIDE DEF set
  <2>2. DOMAIN omConfs = OmConfs /\ ConfLike(omConfs[c]) /\ omConfs[c].results = 0 /\ omSerial \in Nat
    BY <2>1, Zenon DEF OmInv
  <2>3. omConfs'[c] = v /\ DOMAIN omConfs' = OmConfs /\ \A d \in OmConfs \ {c} : omConfs'[d] = omConfs[d]
    BY <2>1, <2>2, Zenon
  <2>4. /\ v.k = "ongoing" /\ v.serial = omSerial /\ v.results = 0 /\ ConfLike(v)
        /\ DOMAIN v.sets = OmOutputs /\ \A q \in OmOutputs \ {o} : v.sets[q] = omConfs[c].sets[q]
    BY <2>1, <2>2 DEF ConfLike
  <2> HIDE DEF v
  <2>5. Present(v.sets) \subseteq Present(omSeen)
    BY <2>1, <2>4, Zenon DEF OmInv, ConfsCurrent, Present
  <2>6. omApplied' = {} /\ UNCHANGED <<omSeen, omSerial, omHeads, omBound>>
    BY <1>0, <2>1, Zenon DEF OmInv, AppliedHeadsExist
  <2>7. v.results <= 1 /\ v.serial <= omSerial
    BY <2>2, <2>4
  <2> QED
    BY <2>3, <2>4, <2>5, <2>6, <2>7, OneConf, Zenon
<1> QED
  BY <1>1, <1>2, <1>3, Zenon

\* A mode or a position is set on an enabled head of a configuration.
LEMMA SetHeadStep ==
    ASSUME OmInv, NEW c \in OmConfs, NEW o \in OmOutputs, NEW field, NEW value, SetHead(c, o, field, value)
    PROVE  OmInv'
<1>0. UNCHANGED <<omSeen, omSerial>>
  BY Zenon DEF SetHead, omSrv
<1>1. CASE UNCHANGED omCli
  BY <1>0, <1>1, OmKept, Zenon DEF omCli
<1>2. CASE Disconnect
  BY <1>0, <1>2, Disconnected, Zenon
<1>3. CASE ~UNCHANGED omCli /\ ~Disconnect
  <2> DEFINE set == [omConfs[c].sets[o] EXCEPT ![field] = value]
             v == [omConfs[c] EXCEPT !.sets = [omConfs[c].sets EXCEPT ![o] = set]]
  <2>1. /\ omConfs' = [omConfs EXCEPT ![c].sets[o][field] = value] /\ omConfs[c].sets[o] # OmNone
        /\ omConfs[c].k = "ongoing" /\ omConfs[c].serial = omSerial
        /\ UNCHANGED <<omHeads, omBound, omApplied>>
    BY <1>3, Zenon DEF SetHead, OmOutdated
  <2>2. DOMAIN omConfs = OmConfs /\ ConfLike(omConfs[c]) /\ omConfs[c].results = 0 /\ omSerial \in Nat
    BY <2>1, Zenon DEF OmInv
  <2>3. omConfs'[c] = v /\ DOMAIN omConfs' = OmConfs /\ \A d \in OmConfs \ {c} : omConfs'[d] = omConfs[d]
    BY <2>1, <2>2, Zenon
  <2> HIDE DEF set
  <2>4. /\ v.k = "ongoing" /\ v.serial = omSerial /\ v.results = 0 /\ ConfLike(v)
        /\ DOMAIN v.sets = OmOutputs /\ \A q \in OmOutputs \ {o} : v.sets[q] = omConfs[c].sets[q]
    BY <2>1, <2>2 DEF ConfLike
  <2> HIDE DEF v
  <2>5. Present(v.sets) \subseteq Present(omSeen)
    BY <2>1, <2>4, ZenonT(60) DEF OmInv, ConfsCurrent, Present
  <2>6. omApplied' = {} /\ UNCHANGED <<omSeen, omSerial, omHeads, omBound>>
    BY <1>0, <2>1, Zenon DEF OmInv, AppliedHeadsExist
  <2>7. v.results <= 1 /\ v.serial <= omSerial
    BY <2>2, <2>4
  <2> QED
    BY <2>3, <2>4, <2>5, <2>6, <2>7, OneConf, Zenon
<1> QED
  BY <1>1, <1>2, <1>3, Zenon

\* Apply and Test.
LEMMA TryStep ==
    ASSUME OmInv, NEW c \in OmConfs, NEW apply \in BOOLEAN, TryConfiguration(c, apply)
    PROVE  OmInv'
<1>0. UNCHANGED <<omSeen, omSerial>>
  BY Zenon DEF TryConfiguration, omSrv
<1>1. CASE UNCHANGED omCli
  BY <1>0, <1>1, OmKept, Zenon DEF omCli
<1>2. CASE Disconnect
  BY <1>0, <1>2, Disconnected, Zenon
<1>3. CASE ~UNCHANGED omCli /\ ~Disconnect
  <2> DEFINE v == omConfs'[c]
  <2>1. /\ omConfs' = Finish(c) /\ UNCHANGED <<omHeads, omBound>>
        /\ omConfs[c].k = "ongoing" /\ omConfs[c].serial = omSerial
        /\ omApplied' = omApplied \/ omApplied' = Present(omConfs[c].sets) \ Present(omSeen)
    BY <1>3, Zenon DEF TryConfiguration, OmOutdated
  <2>2. DOMAIN omConfs = OmConfs /\ ConfLike(omConfs[c]) /\ omConfs[c].results = 0 /\ omSerial \in Nat
    BY <2>1, Zenon DEF OmInv
  <2>3. DOMAIN omConfs' = OmConfs /\ \A d \in OmConfs \ {c} : omConfs'[d] = omConfs[d]
    BY <2>1, <2>2, Zenon DEF Finish
  <2>4. v.k = "finished" /\ v.serial = omSerial /\ v.results = 1 /\ ConfLike(v) /\ v.sets = omConfs[c].sets
    <3>1. omConfs[c] = [k |-> "ongoing", serial |-> omSerial, sets |-> omConfs[c].sets, results |-> 0]
      BY <2>1, <2>2, Zenon DEF ConfLike
    <3>2. v = [k |-> "finished", serial |-> omSerial, sets |-> omConfs[c].sets, results |-> 1]
      BY <2>1, <2>2, <3>1 DEF Finish
    <3> HIDE DEF v
    <3> QED
      BY <2>2, <3>2, SMTT(30) DEF ConfLike
  <2>5. omConfs'[c] = v
    BY Zenon
  <2> HIDE DEF v
  <2>6. Present(omConfs[c].sets) \subseteq Present(omSeen)
    BY <2>1, Zenon DEF OmInv, ConfsCurrent
  <2>7. omApplied' = {}
    BY <2>1, <2>6, Zenon DEF OmInv, AppliedHeadsExist
  <2>8. v.k # "finished" => v.results = 0
    BY <2>4, Zenon
  <2>9. v.results <= 1 /\ v.serial <= omSerial
    <3>1. \A n \in Nat : n <= n
      OBVIOUS
    <3>2. 1 \in Nat
      BY Zenon
    <3> QED
      BY <2>2, <2>4, <3>1, <3>2, Zenon
  <2> QED
    BY <1>0, <2>1, <2>3, <2>4, <2>5, <2>6, <2>7, <2>8, <2>9, OneConf, Zenon
<1> QED
  BY <1>1, <1>2, <1>3, Zenon

\* Every step of output management keeps the invariant.
LEMMA OmStepInv == OmInv /\ [OmNext]_omVars => OmInv'
<1> SUFFICES ASSUME OmInv, [OmNext]_omVars
             PROVE  OmInv'
  BY Zenon
<1>1. CASE notify_changes \/ om_bind
  BY <1>1, NotifyStep, BindStep, Zenon
<1>2. CASE Stop
  BY <1>2, Disconnected, Zenon DEF Stop, omSrv
<1>3. ASSUME NEW o \in OmOutputs, Plug(o) \/ ModesChange(o) \/ ReleaseHead(o)
      PROVE  OmInv'
  BY <1>3, OmKept, ReleaseHeadStep, Zenon DEF Plug, ModesChange, omSrv, omCli
<1>4. ASSUME NEW o \in OmOutputs, NEW v \in BOOLEAN, NEW f \in {"off", "custom"}, apply_transient_output_config(o, f, v)
      PROVE  OmInv'
  BY <1>4, OmKept, Zenon DEF apply_transient_output_config, omCli
<1>5. CASE UNCHANGED omVars
  BY <1>5, OmKept, Zenon DEF omVars, omSrv, omCli
<1> QED
  BY <1>1, <1>2, <1>3, <1>4, <1>5, CreateStep, DestroyStep, ConfigureStep, SetHeadStep, TryStep, ZenonT(60) DEF OmNext, OmStep

\* The invariant of output management holds in every reachable state.
THEOREM OmInductive == OmSpec => []OmInv
<1>1. OmInit => OmInv
  BY OmInitInv, Zenon
<1> QED
  BY <1>1, OmStepInv, PTL DEF OmSpec

\* The differences notify_changes sends add up to the outputs there are, for any outputs.
THEOREM HeadsAreOutputs == OmSpec => []HeadsMirrorOutputs
<1>1. OmInv => HeadsMirrorOutputs
  BY Zenon DEF OmInv
<1> QED
  BY <1>1, OmInductive, PTL

\* A configuration is applied to outputs of the last change only.
THEOREM ConfigurationsAreCurrent == OmSpec => []AppliedHeadsExist
<1>1. OmInv => AppliedHeadsExist
  BY Zenon DEF OmInv
<1> QED
  BY <1>1, OmInductive, PTL

\* A configuration is answered at most once.
THEOREM ConfigurationsAnsweredOnce == OmSpec => []ConfigurationUsedOnce
<1>1. OmInv => ConfigurationUsedOnce
  BY Zenon DEF OmInv
<1> QED
  BY <1>1, OmInductive, PTL

-----------------------------------------------------------------------------
\* What a refresh keeps about the data of a workspace: its name is the one that
\* build_name gave it.
NamedAsBuilt(data) == data.name = IF data.id # 0 THEN data.id ELSE data.idx
\* The groups of the client have the handles of the workspaces on their output.
Members(o) == {w \in EwWs : ewView[w] # EwNone /\ ewData[w].out = o}
DataCurrent(w) == ewData[w] = IF w \in Existing THEN NewData(w) ELSE EwNone

\* The inductive invariant: what a handle has heard adds up to what the data says,
\* whatever came between, and after a refresh the data is that of the layout.
EwInv ==
    /\ ewTurn \in Nat
    /\ DOMAIN ewView = EwWs /\ DOMAIN ewMem = EwOutputs
    /\ ewMgr = "no" => /\ \A w \in EwWs : ewView[w] = EwNone
                       /\ \A o \in EwOutputs : ewMem[o] = EwNone
    /\ \A w \in EwWs : ewData[w] # EwNone => NamedAsBuilt(ewData[w])
    /\ \A w \in EwWs : ewView[w] # EwNone => ewView[w] = add_instance(ewData[w])
    /\ \A o \in EwOutputs : ewMem[o] # EwNone => ewMem[o] = Members(o)
    /\ ewTurn = 0 => \A w \in EwWs : DataCurrent(w) /\ (ewView[w] # EwNone => w \in Existing)

\* Before the first refresh there is no data, no handle and no group.
LEMMA EwInitInv == EwInit => EwInv
BY SMTT(30) DEF EwInit, EwInv

\* The data of a workspace has the output it is on.
LEMMA NewDataOut == \A w : NewData(w).out = PlaceOf(w)
BY Zenon DEF NewData

\* The name that refresh_workspace leaves is the one build_name gives: it is only
\* kept when neither it nor what it was made of has changed.
LEMMA NameKept ==
    ASSUME NEW w \in EwWs, w \in Existing, ewData[w] # EwNone => NamedAsBuilt(ewData[w])
    PROVE  DataAfter(w) = NewData(w) /\ NamedAsBuilt(NewData(w))
<1>1. NamedAsBuilt(NewData(w))
  BY Zenon DEF NamedAsBuilt, NewData, build_name
<1>2. CASE ewData[w] = EwNone
  BY <1>1, <1>2, Zenon DEF DataAfter
<1>3. CASE ewData[w] # EwNone
  <2>1. CASE NameCheck(w)
    BY <1>1, <1>3, <2>1, Zenon DEF DataAfter, NewData
  <2>2. CASE ~NameCheck(w)
    <3>1. ewData[w].name = build_name(w)
      BY <1>3, <2>2, Zenon DEF NameCheck, recreate, IdSet, build_name, NamedAsBuilt
    <3>2. QED BY <1>1, <1>3, <2>2, <3>1, Zenon DEF DataAfter, NewData
  <2>3. QED BY <2>1, <2>2, Zenon
<1>4. QED BY <1>2, <1>3, Zenon

\* A handle that was right about the old data, told the changes, is right about the new.
LEMMA ToldIsSent ==
    ASSUME NEW w \in EwWs, w \in Existing, ewMgr # "no", ewView[w] # EwNone => ewView[w] = add_instance(ewData[w]),
           ViewAfter(w) # EwNone
    PROVE  ViewAfter(w) = add_instance(DataAfter(w))
<1>1. CASE ewData[w] = EwNone \/ recreate(w)
  BY <1>1, Zenon DEF ViewAfter
<1>2. CASE ewData[w] # EwNone /\ ~recreate(w)
  <2>1. ewView[w] # EwNone /\ ViewAfter(w) = Told(ewView[w], ewData[w], DataAfter(w))
    BY <1>2, Zenon DEF ViewAfter
  <2> DEFINE old == ewData[w]
             new == DataAfter(w)
  <2>2. new.id = ewName[w]
    BY <1>2, Zenon DEF DataAfter, NewData
  <2>3. old.id # new.id => old.id = 0
    BY <1>2, <2>2, ZenonT(60) DEF recreate
  <2>4. ewView[w] = add_instance(old)
    BY <2>1, Zenon
  <2> HIDE DEF old, new
  <2>5. Told(add_instance(old), old, new) = add_instance(new)
    BY <2>3, SMTT(30) DEF Told, add_instance
  <2>6. QED BY <2>1, <2>4, <2>5, Zenon DEF old, new
<1>3. QED BY <1>1, <1>2, Zenon

\* What a refresh does: the data is that of the layout, the handles and the groups follow.
LEMMA RefreshInv == EwInv /\ refresh => EwInv'
<1> SUFFICES ASSUME EwInv, refresh PROVE EwInv'
  BY Zenon
<1>1. /\ ewTurn' = 0 /\ ewLay' = ewLay /\ ewName' = ewName /\ ewMgr' = ewMgr
      /\ ewData' = [w \in EwWs |-> DataAfter(w)]
      /\ ewView' = [w \in EwWs |-> ViewAfter(w)]
      /\ ewMem' = [o \in EwOutputs |-> MemAfter(o)]
  BY Zenon DEF refresh
<1>2. Existing' = Existing /\ \A w \in EwWs : NewData(w)' = NewData(w)
  BY <1>1, Zenon DEF Existing, NewData, build_name, IndexOf, PlaceOf, ActiveOn
<1>3. ASSUME NEW w \in EwWs, w \in Existing
      PROVE  ewData'[w] = NewData(w) /\ NamedAsBuilt(NewData(w))
  BY <1>1, <1>3, NameKept, Zenon DEF EwInv
<1>4. ASSUME NEW w \in EwWs, w \notin Existing
      PROVE  ewData'[w] = EwNone /\ ewView'[w] = EwNone
  BY <1>1, <1>4, Zenon DEF DataAfter, ViewAfter
<1>5. ASSUME NEW w \in EwWs PROVE DataCurrent(w)' /\ (ewView'[w] # EwNone => w \in Existing')
  BY <1>2, <1>3, <1>4, Zenon DEF DataCurrent
<1>6. ASSUME NEW w \in EwWs, ewView'[w] # EwNone PROVE ewView'[w] = add_instance(ewData'[w])
  <2>1. w \in Existing /\ ewMgr # "no" /\ ViewAfter(w) # EwNone
    BY <1>1, <1>6, Zenon DEF ViewAfter
  <2>2. ViewAfter(w) = add_instance(DataAfter(w))
    BY <2>1, ToldIsSent, Zenon DEF EwInv
  <2>3. QED BY <1>1, <2>2, Zenon
<1>7. ASSUME NEW o \in EwOutputs, ewMem'[o] # EwNone
      PROVE  ewMem'[o] = {w \in EwWs : ewView'[w] # EwNone /\ ewData'[w].out = o}
  <2> DEFINE there == {w \in Existing : PlaceOf(w) = o /\ ViewAfter(w) # EwNone}
             now == {w \in EwWs : ewView'[w] # EwNone /\ ewData'[w].out = o}
  <2>1. ASSUME NEW w \in EwWs PROVE w \in there <=> w \in now
    <3>1. CASE w \in Existing
      <4>1. ewData'[w].out = PlaceOf(w)
        BY <1>3, <3>1, NewDataOut, Zenon
      <4>2. ewView'[w] = ViewAfter(w)
        BY <1>1, Zenon
      <4>3. QED BY <3>1, <4>1, <4>2, Zenon
    <3>2. CASE w \notin Existing
      BY <1>4, <3>2, Zenon
    <3>3. QED BY <3>1, <3>2, Zenon
  <2>2. Existing \subseteq EwWs
    BY Zenon DEF Existing, OnPlaces
  <2>3. there = now
    BY <2>1, <2>2, Zenon
  <2>4. MemAfter(o) = ewMem'[o] /\ o \in Connected /\ ewMgr # "no"
    BY <1>1, <1>7, Zenon DEF MemAfter
  <2>5. CASE o \notin ewGroups \/ o \in ewNew
    BY <2>3, <2>4, <2>5, Zenon DEF MemAfter
  <2>6. CASE ~(o \notin ewGroups \/ o \in ewNew)
    <3> DEFINE kept == {w \in Existing : /\ PlaceOf(w) = o /\ ViewAfter(w) # EwNone
                                         /\ w \in ewMem[o] \/ ewData[w] = EwNone \/ recreate(w) \/ ewData[w].out # o}
    <3>1. MemAfter(o) = kept /\ ewMem[o] # EwNone
      BY <1>7, <2>4, <2>6, Zenon DEF MemAfter
    <3>2. ewMem[o] = Members(o)
      BY <3>1, Zenon DEF EwInv
    <3>3. ASSUME NEW w \in there PROVE w \in kept
      <4>1. w \in EwWs
        BY <2>2, Zenon
      <4>2. CASE ewData[w] = EwNone \/ recreate(w) \/ ewData[w].out # o
        BY <4>2, Zenon
      <4>3. CASE ~(ewData[w] = EwNone \/ recreate(w) \/ ewData[w].out # o)
        <5>1. ewView[w] # EwNone
          BY <4>3, Zenon DEF ViewAfter
        <5>2. w \in ewMem[o]
          BY <3>2, <4>1, <4>3, <5>1, Zenon DEF Members
        <5>3. QED BY <5>2, Zenon
      <4>4. QED BY <4>2, <4>3, Zenon
    <3>4. kept = there
      BY <3>3, Zenon
    <3>5. QED BY <2>3, <2>4, <3>1, <3>4, Zenon
  <2>7. QED BY <2>5, <2>6, Zenon
<1>8. ASSUME ewMgr' = "no"
      PROVE  (\A w \in EwWs : ewView'[w] = EwNone) /\ (\A o \in EwOutputs : ewMem'[o] = EwNone)
  BY <1>1, <1>8, Zenon DEF ViewAfter, MemAfter
<1>9. ASSUME NEW w \in EwWs, ewData'[w] # EwNone PROVE NamedAsBuilt(ewData'[w])
  BY <1>3, <1>4, <1>9, Zenon
<1>10. DOMAIN ewView' = EwWs /\ DOMAIN ewMem' = EwOutputs /\ ewTurn' \in Nat
  BY <1>1, Zenon
<1>11. QED BY <1>5, <1>6, <1>7, <1>8, <1>9, <1>10, ZenonT(60) DEF EwInv, Members

\* A client that binds gets a handle for all the data there is.
LEMMA BindInv == EwInv /\ ew_bind => EwInv'
<1> SUFFICES ASSUME EwInv, ew_bind PROVE EwInv'
  BY Zenon
<1>1. /\ ewTurn' = ewTurn /\ ewLay' = ewLay /\ ewName' = ewName /\ ewMgr' = "bound" /\ ewData' = ewData
      /\ ewView' = [w \in EwWs |-> IF ewData[w] = EwNone THEN EwNone ELSE add_instance(ewData[w])]
      /\ ewMem' = [o \in EwOutputs |-> IF o \notin ewGroups THEN EwNone
                                    ELSE {w \in EwWs : ewView'[w] # EwNone /\ ewData[w].out = o}]
  BY Zenon DEF ew_bind, ewSrv
<1>2. Existing' = Existing /\ \A w \in EwWs : DataCurrent(w)' = DataCurrent(w)
  BY <1>1, ZenonT(60) DEF Existing, DataCurrent, NewData, build_name, IndexOf, PlaceOf, ActiveOn
<1>3. ASSUME NEW w \in EwWs, ewView'[w] # EwNone
      PROVE  ewView'[w] = add_instance(ewData'[w]) /\ ewData[w] # EwNone
  BY <1>1, <1>3, Zenon
<1>4. ASSUME NEW o \in EwOutputs, ewMem'[o] # EwNone
      PROVE  ewMem'[o] = {w \in EwWs : ewView'[w] # EwNone /\ ewData'[w].out = o}
  BY <1>1, <1>4, Zenon
<1>5. ASSUME ewTurn' = 0, NEW w \in EwWs
      PROVE  DataCurrent(w)' /\ (ewView'[w] # EwNone => w \in Existing')
  BY <1>1, <1>2, <1>3, <1>5, Zenon DEF EwInv, DataCurrent
<1>6. DOMAIN ewView' = EwWs /\ DOMAIN ewMem' = EwOutputs
  BY <1>1, Zenon
<1>7. QED BY <1>1, <1>3, <1>4, <1>5, <1>6, ZenonT(60) DEF EwInv, Members

\* The client lets go of handles and groups: what it keeps stays as it was.
LEMMA ClientInv ==
    ASSUME EwInv, EwStop \/ (\E o \in EwOutputs : ReleaseGroup(o)) \/ (\E w \in EwWs : ReleaseWorkspace(w))
    PROVE  EwInv'
<1>1. /\ ewTurn' = ewTurn /\ ewLay' = ewLay /\ ewName' = ewName /\ ewData' = ewData
      /\ ewMgr' \in {ewMgr, "no"}
      /\ DOMAIN ewView' = EwWs /\ DOMAIN ewMem' = EwOutputs
  BY Zenon DEF EwStop, ReleaseGroup, ReleaseWorkspace, ewSrv, EwInv
<1>2. Existing' = Existing /\ \A w \in EwWs : DataCurrent(w)' = DataCurrent(w)
  BY <1>1, Zenon DEF Existing, DataCurrent, NewData, build_name, IndexOf, PlaceOf, ActiveOn
<1>3. \A w \in EwWs : ewView'[w] \in {ewView[w], EwNone}
  BY Zenon DEF EwStop, ReleaseGroup, ReleaseWorkspace, EwInv
<1>4. ASSUME NEW o \in EwOutputs, ewMem'[o] # EwNone
      PROVE  ewMem'[o] = {w \in EwWs : ewView'[w] # EwNone /\ ewData'[w].out = o}
  <2>1. CASE EwStop
    BY <1>4, <2>1, Zenon DEF EwStop
  <2>2. CASE \E p \in EwOutputs : ReleaseGroup(p)
    BY <1>1, <1>4, <2>2, SMTT(30) DEF ReleaseGroup, EwInv, Members
  <2>3. ASSUME NEW v \in EwWs, ReleaseWorkspace(v)
        PROVE  ewMem'[o] = {w \in EwWs : ewView'[w] # EwNone /\ ewData'[w].out = o}
    <3>1. ewMem[o] # EwNone /\ ewMem'[o] = ewMem[o] \ {v} /\ ewMem[o] = Members(o)
      BY <1>4, <2>3, Zenon DEF ReleaseWorkspace, EwInv
    <3>2. ewView'[v] = EwNone /\ \A w \in EwWs \ {v} : ewView'[w] = ewView[w]
      BY <2>3, Zenon DEF ReleaseWorkspace, EwInv
    <3>3. QED BY <1>1, <3>1, <3>2, Zenon DEF Members
  <2>4. QED BY <2>1, <2>2, <2>3, Zenon
<1>5. ewMgr' = "no" => (\A w \in EwWs : ewView'[w] = EwNone) /\ (\A o \in EwOutputs : ewMem'[o] = EwNone)
  BY Zenon DEF EwStop, ReleaseGroup, ReleaseWorkspace, EwInv
<1>6. QED BY <1>1, <1>2, <1>3, <1>4, <1>5, Zenon DEF EwInv, Members

\* A change of the layout leaves what was sent alone, and is owed a refresh.
LEMMA LayoutInv ==
    ASSUME EwInv, ewTurn' = ewTurn + 1, UNCHANGED <<ewSrv, ewCli>>
    PROVE  EwInv'
<1>1. ewData' = ewData /\ ewMgr' = ewMgr /\ ewView' = ewView /\ ewMem' = ewMem
  BY Zenon DEF ewSrv, ewCli
<1>2. ewTurn' \in Nat /\ ewTurn' # 0
  BY SMTT(30) DEF EwInv
<1>3. QED BY <1>1, <1>2, Zenon DEF EwInv, Members

\* A step that changes neither the layout nor what was sent.
LEMMA QueueInv ==
    ASSUME EwInv, UNCHANGED <<ewLay, ewName, ewTurn, ewSrv, ewCli>>
    PROVE  EwInv'
<1>1. ewData' = ewData /\ ewMgr' = ewMgr /\ ewView' = ewView /\ ewMem' = ewMem
  BY Zenon DEF ewSrv, ewCli
<1>2. Existing' = Existing /\ \A w \in EwWs : DataCurrent(w)' = DataCurrent(w)
  BY <1>1, Zenon DEF Existing, DataCurrent, NewData, build_name, IndexOf, PlaceOf, ActiveOn
<1>3. QED BY <1>1, <1>2, Zenon DEF EwInv, Members

\* Every step of the layout, the clients and the refreshes keeps the invariant.
LEMMA EwNextInv == EwInv /\ [EwNext]_ewVars => EwInv'
<1> SUFFICES ASSUME EwInv, [EwNext]_ewVars PROVE EwInv'
  BY Zenon
<1>1. CASE refresh
  BY <1>1, RefreshInv, Zenon
<1>2. CASE ew_bind
  BY <1>2, BindInv, Zenon
<1>3. CASE EwStop \/ (\E o \in EwOutputs : ReleaseGroup(o)) \/ (\E w \in EwWs : ReleaseWorkspace(w))
  BY <1>3, ClientInv, Zenon
<1>4. CASE EwCommit
  BY <1>4, LayoutInv, Zenon DEF EwCommit
<1>5. ASSUME NEW w \in EwWs, NEW o \in EwOutputs, LayMove(w, o) \/ LayCreate(w, o)
      PROVE  EwInv'
  BY <1>5, LayoutInv, Zenon DEF LayMove, LayCreate, Changes
<1>6. ASSUME NEW o \in EwOutputs, LayUnplug(o) \/ LayPlug(o) \/ LayDrop(o)
      PROVE  EwInv'
  BY <1>6, LayoutInv, Zenon DEF LayUnplug, LayPlug, LayDrop, Changes
<1>7. ASSUME NEW w \in EwWs, NEW name, LayRename(w, name)
      PROVE  EwInv'
  BY <1>7, LayoutInv, Zenon DEF LayRename, Changes
<1>8. ASSUME NEW w \in EwWs, NEW o, Request(w, o)
      PROVE  EwInv'
  BY <1>8, QueueInv, Zenon DEF Request
<1>9. CASE UNCHANGED ewVars
  BY <1>9, QueueInv, Zenon DEF ewVars
<1>10. QED
  BY <1>1, <1>2, <1>3, <1>4, <1>5, <1>6, <1>7, <1>8, <1>9, Zenon DEF EwNext, EwStep

\* What the invariant gives a client after a refresh.
LEMMA EwInvMirrors == EwInv => ViewMirrorsLayout
<1> SUFFICES ASSUME EwInv PROVE ViewMirrorsLayout
  BY Zenon
<1>1. ASSUME NEW w \in EwWs, ewView[w] # EwNone PROVE ewView[w].ids <= 1
  BY <1>1, SMTT(30) DEF EwInv, add_instance
<1>2. ASSUME ewTurn = 0, NEW w \in EwWs, ewView[w] # EwNone
      PROVE  /\ w \in Existing /\ ewView[w].id = ewName[w] /\ ewView[w].name = build_name(w)
             /\ ewView[w].idx = IndexOf(w) /\ ewView[w].active = ActiveOn(PlaceOf(w), w)
  <2>1. w \in Existing /\ ewData[w] = NewData(w) /\ ewView[w] = add_instance(ewData[w])
    BY <1>2, Zenon DEF EwInv, DataCurrent
  <2>2. QED BY <2>1, SMTT(30) DEF add_instance, NewData
<1>3. ASSUME ewTurn = 0, NEW o \in EwOutputs, ewMem[o] # EwNone
      PROVE  ewMem[o] = {w \in Existing : PlaceOf(w) = o /\ ewView[w] # EwNone}
  <2>1. ewMem[o] = Members(o) /\ Existing \subseteq EwWs
    BY <1>3, Zenon DEF EwInv, Existing, OnPlaces
  <2>2. \A w \in EwWs : ewView[w] # EwNone => w \in Existing
    BY <1>3, Zenon DEF EwInv
  <2>3. \A w \in Existing : ewData[w].out = PlaceOf(w)
    <3>1. ASSUME NEW w \in Existing PROVE ewData[w] = NewData(w)
      BY <1>3, <2>1, Zenon DEF EwInv, DataCurrent
    <3>2. QED BY <3>1, NewDataOut, Zenon
  <2>4. QED BY <2>1, <2>2, <2>3, Zenon DEF Members
<1>4. QED BY <1>1, <1>2, <1>3, ZenonT(60) DEF ViewMirrorsLayout

\* ViewMirrorsLayout, for any outputs, workspaces and requests: refresh_workspace and
\* refresh_workspace_group send only what changed, and what a handle has heard in all
\* its life is what the layout has; an id is sent once.
THEOREM HandlesMirrorTheLayout == EwSpec => []ViewMirrorsLayout
<1>1. EwSpec => []EwInv
  BY EwInitInv, EwNextInv, PTL DEF EwSpec
<1>2. QED BY <1>1, EwInvMirrors, PTL

=============================================================================
