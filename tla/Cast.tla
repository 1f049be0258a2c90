-------------------------------- MODULE Cast --------------------------------
(***************************************************************************)
(* One screencast stream (pw_utils.rs, and the cast functions of niri.rs): *)
(* the negotiation of its size with PipeWire, the buffers PipeWire lends,  *)
(* the fences of frames still rendering, and the timer that spaces frames. *)
(*                                                                         *)
(* PipeWire is external: it answers offered formats in order, takes back   *)
(* all buffers before it announces a format, and lends new ones later.     *)
(* Time counts in ticks since the last frame, up to CaMin, the least time  *)
(* between frames.                                                         *)
(***************************************************************************)
EXTENDS Integers, FiniteSets, Sequences

CONSTANTS
    CaNone,
    CaSizes,     \* sizes of the target
    CaBufs,      \* the buffers of PipeWire
    CaMin,       \* min_time_between_frames, in ticks
    CaSeqMax,    \* bound: frames
    CaOfferMax,  \* bound: formats offered and not answered
    CaAskMax,    \* bound: Redraw messages not handled
    CaProfiles   \* set-ups: the target of the cast, and what may happen
VARIABLES
    caState,     \* CastState: k, size
    caOffers,    \* offers PipeWire has not answered: size, fixed
    caStream,    \* the state of the stream: active (is_active), redraws (Redraw messages), format (negotiated)
    caBufs,      \* buffer -> CaNone (not lent), 0 (no dmabuf) or the size of its dmabuf
    caFree,      \* buffers the stream can dequeue
    caRender,    \* rendering_buffers: buf, seq, done
    caSrc,       \* frames whose fence has a source in the event loop
    caSeq,       \* sequence_counter
    caSent,      \* the sequence number of the last frame queued
    caLook,      \* the target: kind, size, damage, queued (its output will redraw)
    caAge,       \* ticks since last_frame_time
    caTimer,     \* ticks until the timer fires
    caToken,     \* scheduled_redraw is set
    caEnd,       \* "no", "stop" (StopCast sent) or "crash" (no dmabuf for a buffer)
    caProfile

ASSUME CaAssumption ==
    /\ CaSizes \subseteq Nat /\ CaSizes # {} /\ CaNone \notin Nat
    /\ \A p \in CaProfiles : p.fences \subseteq BOOLEAN /\ p.target \in {"nothing", "output", "window"}

caPipe == <<caState, caOffers, caStream>>
caFrames == <<caBufs, caFree, caRender, caSrc, caSeq, caSent>>
caClock == <<caAge, caTimer, caToken>>
caVars == <<caPipe, caFrames, caLook, caClock, caEnd, caProfile>>

Seqs == 1 .. CaSeqMax
Asks(stream) == [stream EXCEPT !.redraws = @ + 1]
Offered(offers, size, fixed) == Append(offers, [size |-> size, fixed |-> fixed])

-----------------------------------------------------------------------------
\* Cast::ensure_size, after the offers made so far; TRUE of IsReady: draw now.
IsReady(size) == caState = [k |-> "Ready", size |-> size]
ensure_size(size, offers) ==
    IF IsReady(size) \/ (caState.k # "Ready" /\ caState.size = size)
    THEN caOffers' = offers /\ UNCHANGED caState
    ELSE /\ Len(offers) < CaOfferMax
         /\ caState' = [k |-> "ResizePending", size |-> size]
         /\ caOffers' = Offered(offers, size, FALSE)
\* Cast::set_refresh offers the size it expects, and waits for nothing.
set_refresh(changed) == IF changed THEN Offered(caOffers, caState.size, FALSE) ELSE caOffers

\* PipeWire answers an offer: it takes its buffers back (remove_buffer), then
\* param_changed sees the format.
Confirm(offer) ==
    IF offer.size # caState.size
    THEN /\ caEnd' = IF caState.k = "ResizePending" THEN caEnd ELSE "stop"
         /\ caOffers' = Tail(caOffers) /\ UNCHANGED caState
    ELSE /\ caState' = [caState EXCEPT !.k = IF offer.fixed THEN "Ready" ELSE "ConfirmationPending"]
         /\ caOffers' = IF offer.fixed THEN Tail(caOffers) ELSE Offered(Tail(caOffers), offer.size, TRUE)
         /\ UNCHANGED caEnd
param_changed ==
    /\ caEnd = "no" /\ caOffers # <<>>
    /\ Confirm(Head(caOffers))
    /\ caBufs' = [b \in CaBufs |-> CaNone] /\ caFree' = {} /\ caRender' = <<>>
    /\ caLook' = [caLook EXCEPT !.damage = @ \/ (caState'.k = "Ready" /\ caState.k # "Ready")]
    /\ caStream' = [caStream EXCEPT !.format = Head(caOffers).fixed]
    /\ UNCHANGED <<caSrc, caSeq, caSent, caClock, caProfile>>
\* A buffer has a dmabuf only if the stream is ready; the first one of a running
\* stream asks for a redraw.
add_buffer(b) ==
    /\ caEnd = "no" /\ caStream.format /\ caBufs[b] = CaNone /\ caStream.redraws < CaAskMax
    /\ caBufs' = [caBufs EXCEPT ![b] = IF caState.k = "Ready" THEN caState.size ELSE 0]
    /\ caFree' = caFree \cup {b}
    /\ caStream' = IF caState.k = "Ready" /\ caStream.active /\ \A c \in CaBufs : caBufs[c] \in {CaNone, 0}
                   THEN Asks(caStream) ELSE caStream
    /\ UNCHANGED <<caState, caOffers, caRender, caSrc, caSeq, caSent, caLook, caClock, caEnd, caProfile>>
\* state_changed: Streaming, Paused or Error.
state_changed(new) ==
    /\ caEnd = "no" /\ (new = "Streaming" \/ "pause" \in caProfile.may)
    /\ \/ new = "Streaming" /\ ~caStream.active /\ caStream.redraws < CaAskMax /\ caStream' = Asks([caStream EXCEPT !.active = TRUE]) /\ UNCHANGED caEnd
       \/ new = "Paused" /\ caStream.active /\ caStream' = [caStream EXCEPT !.active = FALSE] /\ UNCHANGED caEnd
       \/ /\ new = "Error" /\ caStream.active
          /\ caStream' = [caStream EXCEPT !.active = FALSE] /\ caEnd' = "stop"
    /\ UNCHANGED <<caState, caOffers, caFrames, caLook, caClock, caProfile>>
\* The consumer gives a buffer back.
Recycle(b) ==
    /\ caEnd = "no" /\ caBufs[b] # CaNone /\ b \notin caFree
    /\ \A i \in DOMAIN caRender : caRender[i].buf # b
    /\ caFree' = caFree \cup {b}
    /\ UNCHANGED <<caPipe, caBufs, caRender, caSrc, caSeq, caSent, caLook, caClock, caEnd, caProfile>>

-----------------------------------------------------------------------------
\* Everything up to the first frame still rendering can be queued.
FirstInProgress(frames) ==
    LET busy == {i \in DOMAIN frames : ~frames[i].done}
    IN  IF busy = {} THEN Len(frames) ELSE (CHOOSE i \in busy : \A j \in busy : i <= j) - 1
\* Mutant: whatever is finished is queued.
queue_completed_buffers_Any(frames) ==
    LET done == SelectSeq(frames, LAMBDA f : f.done)
    IN  /\ caRender' = SelectSeq(frames, LAMBDA f : ~f.done)
        /\ caSent' = IF done = <<>> THEN caSent ELSE done[Len(done)].seq
queue_completed_buffers(frames) ==
    LET n == FirstInProgress(frames)
    IN  /\ caRender' = SubSeq(frames, n + 1, Len(frames))
        /\ caSent' = IF n = 0 THEN caSent ELSE frames[n].seq

\* queue_after_sync: a fence that cannot be exported counts as reached.
queue_after_sync(b, fence) ==
    LET frame == [buf |-> b, seq |-> caSeq + 1, done |-> ~fence]
    IN  /\ caSeq' = caSeq + 1
        /\ IF fence
           THEN caRender' = Append(caRender, frame) /\ caSrc' = caSrc \cup {caSeq + 1} /\ UNCHANGED caSent
           ELSE UNCHANGED caSrc /\ queue_completed_buffers(Append(caRender, frame))
\* A frame finishes, and later its source runs.
FenceReached(i) ==
    /\ i \in DOMAIN caRender /\ ~caRender[i].done
    /\ caRender' = [caRender EXCEPT ![i].done = TRUE]
    /\ UNCHANGED <<caPipe, caBufs, caFree, caSrc, caSeq, caSent, caLook, caClock, caEnd, caProfile>>
FenceSource(n) ==
    /\ n \in caSrc /\ \A i \in DOMAIN caRender : caRender[i].seq = n => caRender[i].done
    /\ caSrc' = caSrc \ {n}
    /\ IF caEnd = "no" THEN queue_completed_buffers(caRender) ELSE UNCHANGED <<caRender, caSent>>
    /\ UNCHANGED <<caPipe, caBufs, caFree, caSeq, caLook, caClock, caEnd, caProfile>>

\* dequeue_buffer_and_render(look) when Ready: the damage is spent before a
\* buffer is there. A frame that cannot be rendered is returned as corrupted.
Idle(look) == caLook' = look /\ UNCHANGED <<caFrames, caAge, caEnd>>
Draw(look) ==
    /\ caLook' = look
    /\ \E b \in caFree :
          /\ caFree' = caFree \ {b} /\ UNCHANGED caBufs
          /\ IF caBufs[b] = 0
             THEN caEnd' = "crash" /\ UNCHANGED <<caRender, caSrc, caSeq, caSent, caAge>>
             ELSE /\ UNCHANGED caEnd
                  /\ \/ /\ caSeq < CaSeqMax /\ caAge' = 0
                        /\ \E fence \in caProfile.fences : queue_after_sync(b, fence)
                     \/ "fail" \in caProfile.may /\ UNCHANGED <<caRender, caSrc, caSeq, caSent, caAge>>
dequeue_buffer_and_render(look) ==
    LET spent == [look EXCEPT !.damage = FALSE]
    IN  IF caFree = {} \/ ~look.damage THEN Idle(spent) ELSE Draw(spent)
\* dequeue_buffer_and_clear does not look at the state.
dequeue_buffer_and_clear(look) ==
    LET fresh == [look EXCEPT !.damage = TRUE]
    IN  IF caFree = {} THEN Idle(fresh) ELSE Draw(fresh)

\* check_time_and_schedule: too soon, it leaves a timer; else it removes one.
TooSoon == caAge < CaMin
schedule_redraw ==
    IF caToken THEN UNCHANGED <<caToken, caTimer>>
    ELSE caToken' = TRUE /\ caTimer' = CaMin - caAge
remove_scheduled_redraw == caToken' = FALSE /\ caTimer' = CaNone

-----------------------------------------------------------------------------
\* render_for_screen_cast and render_windows_for_screen_cast, in a redraw of
\* the output.
RedrawOutput ==
    LET look == [caLook EXCEPT !.queued = FALSE]
    IN  /\ caEnd = "no" /\ caLook.queued
        /\ UNCHANGED <<caStream, caProfile>>
        /\ IF ~caStream.active \/ look.kind = "nothing"
           THEN Idle(look) /\ UNCHANGED <<caState, caOffers, caTimer, caToken>>
           ELSE /\ ensure_size(look.size, caOffers)
                /\ IF ~IsReady(look.size) THEN Idle(look) /\ UNCHANGED <<caTimer, caToken>>
                   ELSE IF TooSoon THEN schedule_redraw /\ Idle(look)
                   ELSE remove_scheduled_redraw /\ dequeue_buffer_and_render(look)
\* redraw_cast: it looks neither at the time nor at whether the stream is active.
redraw_cast(look, offers) ==
    /\ UNCHANGED <<caTimer, caToken, caProfile>>
    /\ CASE look.kind = "nothing" ->
               dequeue_buffer_and_clear(look) /\ caOffers' = offers /\ UNCHANGED caState
         [] look.kind = "output" ->
               Idle([look EXCEPT !.queued = TRUE]) /\ caOffers' = offers /\ UNCHANGED caState
         [] look.kind = "window" ->
               /\ ensure_size(look.size, offers)
               /\ IF IsReady(look.size) THEN dequeue_buffer_and_render(look) ELSE Idle(look)
\* on_pw_msg: Redraw.
PwRedraw ==
    /\ caEnd = "no" /\ caStream.redraws > 0 /\ caStream' = [caStream EXCEPT !.redraws = @ - 1]
    /\ redraw_cast(caLook, caOffers)
set_dynamic_cast_target(kind, refresh) ==
    /\ "dynamic" \in caProfile.may /\ caEnd = "no" /\ (kind = "nothing" => ~refresh)
    /\ (refresh => Len(caOffers) < CaOfferMax)
    /\ UNCHANGED caStream
    /\ redraw_cast([caLook EXCEPT !.kind = kind, !.damage = @ \/ kind # caLook.kind], set_refresh(refresh))
\* refresh_mapped_cast_outputs, when the window goes to another output.
refresh_mapped_cast_outputs ==
    /\ "output" \in caProfile.may /\ caEnd = "no" /\ Len(caOffers) < CaOfferMax
    /\ caOffers' = set_refresh(TRUE)
    /\ UNCHANGED <<caState, caStream, caFrames, caLook, caClock, caEnd, caProfile>>
CaCommit(size) ==
    /\ caEnd = "no" /\ caLook.kind # "nothing" /\ (size = caLook.size \/ "resize" \in caProfile.may)
    /\ caLook' = [caLook EXCEPT !.size = size, !.damage = TRUE, !.queued = TRUE]
    /\ UNCHANGED <<caPipe, caFrames, caClock, caEnd, caProfile>>
Tick ==
    /\ caEnd = "no" /\ caTimer # 0 /\ (caAge < CaMin \/ caTimer # CaNone)
    /\ caAge' = IF caAge < CaMin THEN caAge + 1 ELSE caAge
    /\ caTimer' = IF caTimer = CaNone THEN CaNone ELSE caTimer - 1
    /\ UNCHANGED <<caPipe, caFrames, caLook, caToken, caEnd, caProfile>>
\* The timer queues a redraw; scheduled_redraw stays set.
TimerFires ==
    /\ caTimer = 0 /\ caTimer' = CaNone
    /\ caLook' = [caLook EXCEPT !.queued = TRUE]
    /\ UNCHANGED <<caPipe, caFrames, caAge, caToken, caEnd, caProfile>>

CaInit ==
    /\ caProfile \in CaProfiles
    /\ LET size == CHOOSE s \in CaSizes : \A t \in CaSizes : s <= t
       IN  /\ caState = [k |-> "ResizePending", size |-> size]
           /\ caOffers = <<[size |-> size, fixed |-> FALSE]>>
           /\ caLook = [kind |-> caProfile.target, size |-> size, damage |-> TRUE, queued |-> FALSE]
    /\ caStream = [active |-> FALSE, redraws |-> 0, format |-> FALSE]
    /\ caBufs = [b \in CaBufs |-> CaNone] /\ caFree = {} /\ caRender = <<>> /\ caSrc = {}
    /\ caSeq = 0 /\ caSent = 0 /\ caAge = CaMin /\ caTimer = CaNone /\ caToken = FALSE
    /\ caEnd = "no"
CaNext ==
    \/ refresh_mapped_cast_outputs \/ param_changed \/ RedrawOutput \/ PwRedraw \/ Tick \/ TimerFires
    \/ \E b \in CaBufs : add_buffer(b) \/ Recycle(b)
    \/ \E new \in {"Streaming", "Paused", "Error"} : state_changed(new)
    \/ \E i \in Seqs : FenceReached(i) \/ FenceSource(i)
    \/ \E kind \in {"nothing", "window"}, refresh \in BOOLEAN : set_dynamic_cast_target(kind, refresh)
    \/ \E size \in CaSizes : CaCommit(size)
CaSpec == CaInit /\ [][CaNext]_caVars

-----------------------------------------------------------------------------
\* Frames reach PipeWire in the order they were rendered, whichever fence is
\* reached first.
FramesInOrder == [][caSent' >= caSent]_caVars

\* A finished frame at the head of the queue has a source that will queue it: no
\* order of fences leaves frames waiting for ever.
NoStuckFrame ==
    caEnd = "no" /\ caRender # <<>> /\ Head(caRender).done => Head(caRender).seq \in caSrc

\* A frame is drawn into a buffer with a dmabuf of the size of the target: no
\* buffer of an earlier size, or without memory, is rendered to.
BufferFitsFrame ==
    [][caSeq' # caSeq /\ caLook'.kind # "nothing" => \A b \in caFree \ caFree' : caBufs[b] = caLook'.size]_caVars

\* check_time_and_schedule: "If the frame should be skipped, schedules a redraw".
TooSoonIsScheduled ==
    [][/\ caLook.queued /\ ~caLook'.queued
       /\ caStream.active /\ caLook.kind # "nothing" /\ IsReady(caLook.size) /\ TooSoon
       => caTimer' # CaNone]_caVars
=============================================================================
