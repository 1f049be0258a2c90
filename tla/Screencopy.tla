----------------------------- MODULE Screencopy -----------------------------
(***************************************************************************)
(* wlr-screencopy (protocols/screencopy.rs): a client captures an output   *)
(* as a frame, asks for a copy into a buffer, at once or with the next     *)
(* damage, and is told ready or failed.  Copies with damage wait in a      *)
(* queue per manager for a redraw of their output.                         *)
(***************************************************************************)
EXTENDS Integers, Vec

CONSTANTS SyNone, SyOutputs, SyManagers, SyFrames
\* No manager's queue is the lack of one.
ASSUME SyAssumption == SyNone \notin Seq(SyFrames)
VARIABLES
    syOutputs,   \* outputs there are
    syAlive,     \* managers of clients
    syQueues,    \* queues: manager -> copies in order, or SyNone
    syFrame,     \* frame: st, manager, output, drawn (its buffer has the picture),
                 \* told (answers sent), submitted
    syFence      \* frames drawn whose fence is not signalled
syVars == <<syOutputs, syAlive, syQueues, syFrame, syFence>>

Update(frames, f, r) == [frames EXCEPT ![f] = r]
\* Drop for Screencopy
Drop(r) == IF r.submitted THEN r ELSE [r EXCEPT !.told = @ + 1]
\* submit: ready, and then self goes.
submit(r) == Drop([r EXCEPT !.told = @ + 1, !.submitted = TRUE, !.st = "done"])
DropFailed(r) == Drop([r EXCEPT !.st = "done"])

-----------------------------------------------------------------------------
\* ScreencopyManagerState::bind cleans up after managers that are gone.
sy_bind(m) ==
    /\ m \notin syAlive /\ syQueues[m] = SyNone
    /\ syAlive' = syAlive \cup {m}
    /\ syQueues' = [k \in SyManagers |-> IF k = m THEN <<>>
                                       ELSE IF k \notin syAlive /\ syQueues[k] = <<>> THEN SyNone ELSE syQueues[k]]
    /\ UNCHANGED <<syOutputs, syFrame, syFence>>
\* The client destroys the manager; frames and copies remain.
DestroyManager(m) ==
    /\ m \in syAlive /\ syAlive' = syAlive \ {m}
    /\ UNCHANGED <<syOutputs, syQueues, syFrame, syFence>>

\* CaptureOutput, CaptureOutputRegion: a frame, or failed (no such output; a region
\* that is empty or outside).
Capture(m, f, o, fits) ==
    /\ m \in syAlive /\ syFrame[f].st = "free"
    /\ syFrame' = Update(syFrame, f, [syFrame[f] EXCEPT !.m = m, !.o = o, !.st = IF o \in syOutputs /\ fits THEN "pending" ELSE "done",
                                                        !.told = IF o \in syOutputs /\ fits THEN 0 ELSE 1])
    /\ UNCHANGED <<syOutputs, syAlive, syQueues, syFence>>

\* Copy and CopyWithDamage are good once, with a buffer of the size of the frame (else
\* a protocol error ends the client).
Copyable(f) == syFrame[f].st = "pending"
\* render_for_screencopy_internal: damage was found and the buffer is drawn, or an error.
CopyResults == {"drawn", "error"}
\* Copy: drawn at once, if the output and the manager's queue are still there.
\* A dmabuf has a fence to wait for. Rendering can fail.
CopyNow(f, result, fence) ==
    /\ Copyable(f)
    /\ LET r == syFrame[f]
           drawn == r.o \in syOutputs /\ syQueues[r.m] # SyNone /\ result = "drawn"
       IN  /\ syFrame' = Update(syFrame, f, IF ~drawn THEN DropFailed(r)
                                            ELSE IF fence THEN [r EXCEPT !.st = "copied", !.drawn = TRUE]
                                            ELSE submit([r EXCEPT !.drawn = TRUE]))
           /\ syFence' = IF drawn /\ fence THEN syFence \cup {f} ELSE syFence
    /\ UNCHANGED <<syOutputs, syAlive, syQueues>>
\* CopyWithDamage: queued.
CopyWithDamage(f) ==
    /\ Copyable(f)
    /\ LET r == syFrame[f] IN
       IF syQueues[r.m] = SyNone
       THEN syFrame' = Update(syFrame, f, DropFailed(r)) /\ UNCHANGED syQueues
       ELSE syFrame' = Update(syFrame, f, [r EXCEPT !.st = "copied"]) /\ syQueues' = [syQueues EXCEPT ![r.m] = Append(@, f)]
    /\ UNCHANGED <<syOutputs, syAlive, syFence>>
\* The fence of a drawn copy is signalled.
SyncPoint(f) ==
    /\ f \in syFence /\ syFence' = syFence \ {f}
    /\ syFrame' = Update(syFrame, f, submit(syFrame[f]))
    /\ UNCHANGED <<syOutputs, syAlive, syQueues>>

\* split and pop of a queue: the first is looked at, the last is taken.
split(q) == Head(q)
pop(q) == q[Len(q)]
AfterPop(q) == SubSeq(q, 1, Len(q) - 1)
Looks(m, o) == syQueues[m] \notin {SyNone, <<>>} /\ syFrame[split(syQueues[m])].o = o
\* Niri::render_for_screencopy_with_damage serves each queue whose first copy is of the
\* output: drawn, or an error (a queue that sees no damage is left for the next redraw).
ServeQueue(m, o, result, fence) ==
    /\ o \in syOutputs /\ Looks(m, o)
    /\ LET q == syQueues[m]
           drawn == IF result = "drawn" THEN Update(syFrame, split(q), [syFrame[split(q)] EXCEPT !.drawn = TRUE]) ELSE syFrame
           taken == pop(q)
       IN  \/ result = "drawn" /\ fence /\ syFence' = syFence \cup {taken} /\ syFrame' = drawn
           \/ result = "drawn" /\ ~fence /\ UNCHANGED syFence /\ syFrame' = Update(drawn, taken, submit(drawn[taken]))
           \/ result = "error" /\ UNCHANGED syFence /\ syFrame' = Update(syFrame, taken, DropFailed(syFrame[taken]))
    /\ syQueues' = [syQueues EXCEPT ![m] = AfterPop(@)]
    /\ UNCHANGED <<syOutputs, syAlive>>

Queued(m, f) == syQueues[m] # SyNone /\ \E i \in DOMAIN syQueues[m] : syQueues[m][i] = f
\* ScreencopyQueue::remove_output: what waits for the output fails.
sy_remove_output(o) ==
    /\ o \in syOutputs /\ syOutputs' = syOutputs \ {o}
    /\ syQueues' = [m \in SyManagers |-> IF syQueues[m] = SyNone THEN SyNone
                       ELSE retain(syQueues[m], {i \in DOMAIN syQueues[m] : syFrame[syQueues[m][i]].o # o})]
    /\ syFrame' = [f \in SyFrames |-> IF syFrame[f].o = o /\ \E m \in SyManagers : Queued(m, f)
                                      THEN DropFailed(syFrame[f]) ELSE syFrame[f]]
    /\ UNCHANGED <<syAlive, syFence>>

SyInit ==
    /\ syOutputs = SyOutputs /\ syAlive = {} /\ syQueues = [m \in SyManagers |-> SyNone] /\ syFence = {}
    /\ syFrame = [f \in SyFrames |-> [st |-> "free", m |-> SyNone, o |-> SyNone, drawn |-> FALSE, told |-> 0, submitted |-> FALSE]]
SyNext ==
    \/ \E m \in SyManagers : sy_bind(m) \/ DestroyManager(m)
    \/ \E m \in SyManagers, f \in SyFrames, o \in SyOutputs, fits \in BOOLEAN : Capture(m, f, o, fits)
    \/ \E f \in SyFrames : CopyWithDamage(f) \/ SyncPoint(f) \/ \E result \in CopyResults, fence \in BOOLEAN : CopyNow(f, result, fence)
    \/ \E m \in SyManagers, o \in SyOutputs, result \in CopyResults, fence \in BOOLEAN : ServeQueue(m, o, result, fence)
    \/ \E o \in SyOutputs : sy_remove_output(o)
SySpec == SyInit /\ [][SyNext]_syVars

-----------------------------------------------------------------------------
\* A frame is told ready or failed once, whichever of the immediate copy, the queue, the
\* fence and the removal of its output comes to it.
AnsweredAtMostOnce == \A f \in SyFrames : syFrame[f].told <= 1

\* A manager that a client holds has its queue, whatever other clients bind and destroy:
\* else its copies fail as those of a manager "destroyed already".
LiveManagerHasQueue == \A m \in syAlive : syQueues[m] # SyNone

\* A copy that was asked for and not answered waits, in one place of one queue or for
\* its fence.
CopiesAccounted ==
    \A f \in SyFrames :
        /\ syFrame[f].st = "copied" <=> f \in syFence \/ \E m \in SyManagers : Queued(m, f)
        /\ \A m, n \in SyManagers : Queued(m, f) /\ Queued(n, f) => m = n /\ f \notin syFence
        /\ \A m \in SyManagers : Queued(m, f) =>
              \A i, j \in DOMAIN syQueues[m] : syQueues[m][i] = f /\ syQueues[m][j] = f => i = j

\* "Submit the copied content.": a frame reported ready has its picture in its buffer.
ReadyHasItsPicture == \A f \in SyFrames : syFrame[f].submitted => syFrame[f].drawn
=============================================================================
