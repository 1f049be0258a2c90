---------------------------- MODULE CaptureProofs ---------------------------
(***************************************************************************)
(* A cast, for any sizes, buffers and bounds: frames reach PipeWire in the *)
(* order they were rendered, none is stuck behind a fence, and each is     *)
(* drawn into a buffer of its size.                                        *)
(*                                                                         *)
(* Screencopy, for any managers, outputs and frames: every copy that was   *)
(* asked for is accounted for, and every frame is answered at most once,   *)
(* whoever comes to it.                                                    *)
(***************************************************************************)
EXTENDS Cast, Screencopy, TLAPS

-----------------------------------------------------------------------------
(* Screencopy.                                                             *)

SyRecords == [st : {"free", "pending", "copied", "done"}, m : SyManagers \cup {SyNone}, o : SyOutputs \cup {SyNone},
              drawn : BOOLEAN, told : Nat, submitted : BOOLEAN]
\* A frame is answered at most once, and when it is done.
AnswerState(r) == r \in SyRecords /\ r.told <= 1 /\ (r.st # "done" => r.told = 0 /\ ~r.submitted)

\* The copies of a queue are those of frames of its manager that wait for nothing else.
QueueGood(m) ==
    syQueues[m] # SyNone =>
        /\ syQueues[m] \in Seq(SyFrames)
        /\ \A i \in DOMAIN syQueues[m] :
              LET f == syQueues[m][i] IN
              syFrame[f].st = "copied" /\ syFrame[f].m = m /\ f \notin syFence
        /\ \A i, j \in DOMAIN syQueues[m] : syQueues[m][i] = syQueues[m][j] => i = j

\* The inductive invariant of screencopy.
SyInv ==
    /\ syAlive \subseteq SyManagers /\ DOMAIN syQueues = SyManagers /\ syFence \subseteq SyFrames
    /\ DOMAIN syFrame = SyFrames /\ \A f \in SyFrames : AnswerState(syFrame[f])
    /\ \A f \in syFence : syFrame[f].st = "copied"
    /\ \A f \in SyFrames : syFrame[f].st = "copied" => f \in syFence \/ \E m \in SyManagers : Queued(m, f)
    /\ \A f \in SyFrames : syFrame[f].st \in {"pending", "copied"} => syFrame[f].m \in SyManagers
    /\ \A m \in SyManagers : QueueGood(m)
    /\ LiveManagerHasQueue

\* submit and Drop answer a frame that was not answered.
LEMMA Answers ==
    ASSUME NEW r, AnswerState(r), r.st # "done"
    PROVE  /\ AnswerState(submit(r)) /\ submit(r).st = "done" /\ submit(r).m = r.m
           /\ AnswerState(DropFailed(r)) /\ DropFailed(r).st = "done" /\ DropFailed(r).m = r.m
<1> DEFINE n == r.told + 1
           a1 == [r EXCEPT !.told = n]
           a2 == [a1 EXCEPT !.submitted = TRUE]
           a == [a2 EXCEPT !.st = "done"]
           b == [r EXCEPT !.st = "done"]
           c == [b EXCEPT !.told = b.told + 1]
<1>0. r \in SyRecords /\ r.told = 0 /\ ~r.submitted /\ n \in Nat /\ n = 1
  BY DEF AnswerState
<1>1. a \in SyRecords /\ a.told = 1 /\ a.submitted = TRUE /\ a.st = "done" /\ a.m = r.m
  <2> HIDE DEF n
  <2>1. a1 \in SyRecords /\ a1.told = n /\ a1.m = r.m
    BY <1>0, ZenonT(60) DEF SyRecords
  <2> HIDE DEF a1
  <2>2. a2 \in SyRecords /\ a2.told = n /\ a2.m = r.m /\ a2.submitted = TRUE
    BY <2>1, ZenonT(60) DEF SyRecords
  <2> HIDE DEF a2
  <2>3. a \in SyRecords /\ a.told = n /\ a.m = r.m /\ a.submitted = a2.submitted /\ a.st = "done"
    BY <2>2, ZenonT(60) DEF SyRecords
  <2> QED
    BY <1>0, <2>2, <2>3, ZenonT(60)
<1>2. b \in SyRecords /\ b.told = 0 /\ ~b.submitted /\ b.st = "done" /\ b.m = r.m
  <2>1. b \in SyRecords /\ b.st = "done" /\ b.m = r.m /\ b.told = r.told
    BY <1>0, ZenonT(60) DEF SyRecords
  <2>2. b.submitted = r.submitted
    BY <1>0, ZenonT(60) DEF SyRecords
  <2> QED
    BY <1>0, <2>1, <2>2, ZenonT(60)
<1> HIDE DEF b
<1>3. c \in SyRecords /\ c.told = 1 /\ c.st = "done" /\ c.m = r.m
  BY <1>2 DEF SyRecords
<1>4. submit(r) = a /\ DropFailed(r) = c
  BY <1>1, <1>2, Zenon DEF submit, DropFailed, Drop, b
<1> HIDE DEF a, c
<1> QED
  BY <1>1, <1>3, <1>4 DEF AnswerState

\* No manager is bound and no frame is captured.
LEMMA SyInitInv ==
    ASSUME SyInit
    PROVE  SyInv
<1> DEFINE r == [st |-> "free", m |-> SyNone, o |-> SyNone, drawn |-> FALSE, told |-> 0, submitted |-> FALSE]
<1>1. AnswerState(r) /\ r.st = "free"
  BY DEF AnswerState, SyRecords
<1>2. DOMAIN syFrame = SyFrames /\ \A f \in SyFrames : syFrame[f] = r
  BY Zenon DEF SyInit
<1> HIDE DEF r
<1> QED
  BY <1>1, <1>2, Zenon DEF SyInit, SyInv, QueueGood, LiveManagerHasQueue

\* A frame that waits in no queue changes.
LEMMA OneFrame ==
    ASSUME SyInv, NEW f \in SyFrames, NEW r, syFrame' = Update(syFrame, f, r), UNCHANGED <<syAlive, syQueues>>,
           \A m \in SyManagers : ~Queued(m, f),
           AnswerState(r), r.st = "pending" => r.m \in SyManagers,
           \/ r.st # "copied" /\ syFence' = syFence \ {f}
           \/ r.st = "copied" /\ r.m \in SyManagers /\ syFence' = syFence \cup {f}
    PROVE  SyInv'
<1>1. /\ DOMAIN syFrame' = SyFrames /\ syFrame'[f] = r
      /\ \A g \in SyFrames \ {f} : syFrame'[g] = syFrame[g]
  BY Zenon DEF Update, SyInv
<1>2. \A m, g : Queued(m, g)' <=> Queued(m, g)
  BY Zenon DEF Queued
<1>3. ASSUME NEW m \in SyManagers
      PROVE  QueueGood(m)'
  <2> SUFFICES ASSUME syQueues[m] # SyNone
               PROVE  QueueGood(m)'
    BY Zenon DEF QueueGood
  <2>1. syQueues[m] \in Seq(SyFrames) /\ QueueGood(m)
    BY Zenon DEF QueueGood, SyInv
  <2>2. \A i \in DOMAIN syQueues[m] : syQueues[m][i] # f /\ syQueues[m][i] \in SyFrames
    BY <2>1, SMTT(30) DEF Queued
  <2> QED
    BY <1>1, <2>1, <2>2, SMTT(30) DEF QueueGood
<1>4. \A g \in SyFrames : syFrame'[g].st = "copied" => g \in syFence' \/ \E m \in SyManagers : Queued(m, g)'
  <2> SUFFICES ASSUME NEW g \in SyFrames, syFrame'[g].st = "copied"
               PROVE  g \in syFence' \/ \E m \in SyManagers : Queued(m, g)'
    BY ZenonT(60)
  <2>1. CASE g = f
    BY <1>1, <2>1, ZenonT(60)
  <2>2. CASE g # f
    <3>1. syFrame'[g] = syFrame[g] /\ (g \in syFence \/ \E m \in SyManagers : Queued(m, g))
      BY <1>1, <2>2, ZenonT(60) DEF SyInv
    <3> QED
      BY <2>2, <3>1, <1>2, ZenonT(60)
  <2> QED
    BY <2>1, <2>2, ZenonT(60)
<1>5. \A g \in syFence' : g \in SyFrames /\ syFrame'[g].st = "copied"
  BY <1>1, ZenonT(60) DEF SyInv
<1>6. \A g \in SyFrames : AnswerState(syFrame'[g]) /\ (syFrame'[g].st \in {"pending", "copied"} => syFrame'[g].m \in SyManagers)
  BY <1>1, ZenonT(60) DEF SyInv
<1> QED
  BY <1>1, <1>3, <1>4, <1>5, <1>6, Zenon DEF SyInv, AnswerState, LiveManagerHasQueue

\* Binding and destroying managers.
LEMMA ManagerStep ==
    ASSUME SyInv, NEW m \in SyManagers, sy_bind(m) \/ DestroyManager(m)
    PROVE  SyInv'
<1>0. UNCHANGED <<syFrame, syFence>> /\ syAlive' \subseteq SyManagers /\ DOMAIN syQueues' = SyManagers
  BY ZenonT(60) DEF sy_bind, DestroyManager, SyInv
<1>1. \A k \in SyManagers : \/ syQueues'[k] = syQueues[k]
                            \/ syQueues'[k] = <<>> /\ syQueues[k] = SyNone
                            \/ syQueues'[k] = SyNone /\ syQueues[k] = <<>>
  BY Zenon DEF sy_bind, DestroyManager
<1>2. ASSUME NEW k \in SyManagers
      PROVE  QueueGood(k)' /\ \A f : Queued(k, f) => Queued(k, f)'
  <2>1. CASE syQueues'[k] = syQueues[k]
    BY <1>0, <2>1, SMTT(30) DEF SyInv, QueueGood, Queued
  <2>2. CASE syQueues'[k] = <<>> /\ syQueues[k] = SyNone
    BY <2>2 DEF QueueGood, Queued
  <2>3. CASE syQueues'[k] = SyNone /\ syQueues[k] = <<>>
    BY <2>3 DEF QueueGood, Queued
  <2> QED
    BY <1>1, <2>1, <2>2, <2>3, ZenonT(60)
<1>3. LiveManagerHasQueue'
  <2>1. <<>> # SyNone
    <3>1. <<>> \in Seq(SyFrames)
      BY SMTT(30)
    <3> QED
      BY <3>1, SyAssumption, Zenon
  <2> QED
    BY <2>1, Zenon DEF sy_bind, DestroyManager, LiveManagerHasQueue, SyInv
<1>4. \A f \in SyFrames : syFrame'[f].st = "copied" => f \in syFence' \/ \E k \in SyManagers : Queued(k, f)'
  BY <1>0, <1>2, ZenonT(60) DEF SyInv
<1> QED
  BY <1>0, <1>2, <1>3, <1>4, ZenonT(60) DEF SyInv, AnswerState

\* A queue knows the manager of its copies, so a frame waits in the queue of its manager
\* or in none.
LEMMA QueuedFrames ==
    ASSUME SyInv, NEW m \in SyManagers, NEW f, Queued(m, f)
    PROVE  f \in SyFrames /\ syFrame[f].st = "copied" /\ syFrame[f].m = m /\ f \notin syFence
<1>1. QueueGood(m) /\ syQueues[m] \in Seq(SyFrames)
  BY ZenonT(60) DEF SyInv, QueueGood, Queued
<1>2. PICK i \in DOMAIN syQueues[m] : syQueues[m][i] = f
  BY ZenonT(60) DEF Queued
<1>3. f \in SyFrames
  BY <1>1, <1>2
<1> QED
  BY <1>1, <1>2, <1>3, ZenonT(60) DEF QueueGood, Queued

\* Capture: the frame is pending, or failed at once.
LEMMA CaptureStep ==
    ASSUME SyInv, NEW m \in SyManagers, NEW f \in SyFrames, NEW o \in SyOutputs, NEW fits \in BOOLEAN, Capture(m, f, o, fits)
    PROVE  SyInv'
<1> DEFINE ok == o \in syOutputs /\ fits
           s == syFrame[f]
           r == [s EXCEPT !.m = m, !.o = o, !.st = IF ok THEN "pending" ELSE "done", !.told = IF ok THEN 0 ELSE 1]
<1>1. s \in SyRecords /\ s.st = "free" /\ s.told = 0 /\ ~s.submitted
  BY ZenonT(60) DEF Capture, SyInv, AnswerState
<1>2. r \in SyRecords /\ r.m = m /\ r.st = (IF ok THEN "pending" ELSE "done") /\ r.told = (IF ok THEN 0 ELSE 1)
      /\ r.submitted = s.submitted
  BY <1>1, ZenonT(60) DEF SyRecords
<1>3. syFrame' = Update(syFrame, f, r) /\ UNCHANGED <<syAlive, syQueues, syFence>>
  BY ZenonT(60) DEF Capture
<1>4. \A k \in SyManagers : ~Queued(k, f)
  BY <1>1, QueuedFrames, ZenonT(60)
<1>5. f \notin syFence
  BY <1>1, ZenonT(60) DEF SyInv
<1> HIDE DEF r, s, ok
<1>6. AnswerState(r) /\ r.st # "copied" /\ r.m \in SyManagers
  BY <1>1, <1>2 DEF AnswerState
<1>7. syFence' = syFence \ {f}
  BY <1>3, <1>5, ZenonT(60)
<1> QED
  BY <1>3, <1>4, <1>6, <1>7, OneFrame, ZenonT(60)

\* Copy: the frame is answered, or waits for its fence.
LEMMA CopyNowStep ==
    ASSUME SyInv, NEW f \in SyFrames, NEW result \in CopyResults, NEW fence \in BOOLEAN, CopyNow(f, result, fence)
    PROVE  SyInv'
<1> DEFINE s == syFrame[f]
           d == [s EXCEPT !.drawn = TRUE]
           w == [s EXCEPT !.st = "copied", !.drawn = TRUE]
           drawn == s.o \in syOutputs /\ syQueues[s.m] # SyNone /\ result = "drawn"
<1>1. s \in SyRecords /\ s.st = "pending" /\ s.told = 0 /\ ~s.submitted /\ s.m \in SyManagers /\ AnswerState(s)
  BY Zenon DEF CopyNow, Copyable, SyInv, AnswerState
<1>2. d \in SyRecords /\ d.st = s.st /\ d.told = s.told /\ d.submitted = s.submitted
  BY <1>1, Zenon DEF SyRecords
<1>3. w \in SyRecords /\ w.st = "copied" /\ w.m = s.m /\ w.told = s.told /\ w.submitted = s.submitted
  BY <1>1, ZenonT(60) DEF SyRecords
<1>4. /\ syFrame' = Update(syFrame, f, IF ~drawn THEN DropFailed(s) ELSE IF fence THEN w ELSE submit(d))
      /\ syFence' = IF drawn /\ fence THEN syFence \cup {f} ELSE syFence
      /\ UNCHANGED <<syAlive, syQueues>>
  BY Zenon DEF CopyNow
<1>5. \A k \in SyManagers : ~Queued(k, f)
  BY <1>1, QueuedFrames, ZenonT(60)
<1>6. f \notin syFence
  BY <1>1, ZenonT(60) DEF SyInv
<1> HIDE DEF s, d, w, drawn
<1>7. CASE ~drawn
  <2>1. AnswerState(DropFailed(s)) /\ DropFailed(s).st = "done"
    BY <1>1, Answers, ZenonT(60)
  <2>2. syFrame' = Update(syFrame, f, DropFailed(s)) /\ syFence' = syFence \ {f}
    BY <1>4, <1>6, <1>7, ZenonT(60)
  <2> QED
    BY <1>4, <1>5, <2>1, <2>2, OneFrame, ZenonT(60)
<1>8. CASE drawn /\ fence
  <2>1. AnswerState(w)
    BY <1>1, <1>3, ZenonT(60) DEF AnswerState
  <2>2. syFrame' = Update(syFrame, f, w) /\ syFence' = syFence \cup {f}
    BY <1>4, <1>8, ZenonT(60)
  <2> QED
    BY <1>1, <1>3, <1>4, <1>5, <2>1, <2>2, OneFrame, ZenonT(60)
<1>9. CASE drawn /\ ~fence
  <2>1. AnswerState(d) /\ d.st # "done"
    BY <1>1, <1>2, ZenonT(60) DEF AnswerState
  <2>2. AnswerState(submit(d)) /\ submit(d).st = "done"
    BY <2>1, Answers, ZenonT(60)
  <2>3. syFrame' = Update(syFrame, f, submit(d)) /\ syFence' = syFence \ {f}
    BY <1>4, <1>6, <1>9, ZenonT(60)
  <2> QED
    BY <1>4, <1>5, <2>2, <2>3, OneFrame, ZenonT(60)
<1> QED
  BY <1>7, <1>8, <1>9, ZenonT(60)

\* The fence: a frame that waits for it is in no queue, and is told ready.
LEMMA SyncPointStep ==
    ASSUME SyInv, NEW f \in SyFrames, SyncPoint(f)
    PROVE  SyInv'
<1>1. f \in syFence /\ syFrame[f].st = "copied" /\ AnswerState(syFrame[f])
  BY ZenonT(60) DEF SyncPoint, SyInv
<1>2. AnswerState(submit(syFrame[f])) /\ submit(syFrame[f]).st = "done"
  BY <1>1, Answers, ZenonT(60)
<1>3. \A k \in SyManagers : ~Queued(k, f)
  BY <1>1, QueuedFrames, ZenonT(60)
<1>4. syFrame' = Update(syFrame, f, submit(syFrame[f])) /\ syFence' = syFence \ {f} /\ UNCHANGED <<syAlive, syQueues>>
  BY ZenonT(60) DEF SyncPoint
<1> QED
  BY <1>2, <1>3, <1>4, OneFrame, ZenonT(60)

\* CopyWithDamage: the frame joins the end of its manager's queue, or fails.
LEMMA CopyWithDamageStep ==
    ASSUME SyInv, NEW f \in SyFrames, CopyWithDamage(f)
    PROVE  SyInv'
<1> DEFINE s == syFrame[f]
           w == [s EXCEPT !.st = "copied"]
<1>1. s \in SyRecords /\ s.st = "pending" /\ s.told = 0 /\ ~s.submitted /\ s.m \in SyManagers /\ AnswerState(s)
  BY Zenon DEF CopyWithDamage, Copyable, SyInv, AnswerState
<1>2. w \in SyRecords /\ w.st = "copied" /\ w.m = s.m /\ w.told = s.told /\ w.submitted = s.submitted
  BY <1>1, ZenonT(60) DEF SyRecords
<1>3. UNCHANGED <<syAlive, syFence>>
  BY ZenonT(60) DEF CopyWithDamage
<1>4. \A k \in SyManagers : ~Queued(k, f)
  BY <1>1, QueuedFrames, ZenonT(60)
<1>5. f \notin syFence
  BY <1>1, ZenonT(60) DEF SyInv
<1>6. CASE syQueues[s.m] = SyNone
  <2>1. AnswerState(DropFailed(s)) /\ DropFailed(s).st = "done"
    BY <1>1, Answers, ZenonT(60)
  <2>2. syFrame' = Update(syFrame, f, DropFailed(s)) /\ UNCHANGED syQueues /\ syFence' = syFence \ {f}
    BY <1>3, <1>5, <1>6, ZenonT(60) DEF CopyWithDamage
  <2> QED
    BY <1>3, <1>4, <2>1, <2>2, OneFrame, ZenonT(60)
<1>7. CASE syQueues[s.m] # SyNone
  <2>0. PICK n : n = s.m
    BY Zenon
  <2> DEFINE q == syQueues[n]
  <2>1. syFrame' = Update(syFrame, f, w) /\ syQueues' = [syQueues EXCEPT ![n] = Append(q, f)]
    BY <1>7, <2>0, ZenonT(60) DEF CopyWithDamage
  <2>2. n \in SyManagers /\ q \in Seq(SyFrames) /\ QueueGood(n) /\ DOMAIN syQueues = SyManagers /\ DOMAIN syFrame = SyFrames
        /\ q # SyNone /\ w.m = n
    BY <1>1, <1>2, <1>7, <2>0, SMTT(30) DEF SyInv, QueueGood
  <2> HIDE DEF s, w
  <2>3. /\ DOMAIN syFrame' = SyFrames /\ syFrame'[f] = w /\ \A g \in SyFrames \ {f} : syFrame'[g] = syFrame[g]
        /\ DOMAIN syQueues' = SyManagers /\ syQueues'[n] = Append(q, f)
        /\ \A k \in SyManagers \ {n} : syQueues'[k] = syQueues[k]
    BY <2>1, <2>2, Zenon DEF Update
  <2>4. Append(q, f) \in Seq(SyFrames) /\ Append(q, f) # SyNone
    BY <2>2, SyAssumption
  <2>5. /\ DOMAIN q = 1 .. Len(q) /\ Len(q) \in Nat /\ DOMAIN Append(q, f) = 1 .. Len(q) + 1
        /\ \A i \in DOMAIN q : Append(q, f)[i] = q[i] /\ q[i] \in SyFrames /\ q[i] # f
        /\ Append(q, f)[Len(q) + 1] = f
    <3>1. \A i \in DOMAIN q : q[i] # f
      BY <1>4, <2>2, ZenonT(60) DEF Queued
    <3> HIDE DEF q
    <3> QED
      BY <2>2, <3>1
  <2>6. AnswerState(w)
    BY <1>1, <1>2, ZenonT(60) DEF AnswerState
  <2>7. ASSUME NEW k \in SyManagers
        PROVE  QueueGood(k)' /\ \A g \in SyFrames : Queued(k, g) => Queued(k, g)'
    <3>1. CASE k = n
      <4> DEFINE a == Append(q, f)
      <4>1. \A i \in DOMAIN a : i \in DOMAIN q \/ i = Len(q) + 1
        BY <2>5
      <4>2. \A i \in DOMAIN q : i \in DOMAIN a
        BY <2>5
      <4>3. syFrame'[f].st = "copied" /\ syFrame'[f].m = n /\ f \notin syFence'
        BY <1>2, <1>3, <1>5, <2>2, <2>3, ZenonT(60)
      <4>4. \A i \in DOMAIN q : syFrame'[q[i]].st = "copied" /\ syFrame'[q[i]].m = n /\ q[i] \notin syFence'
        BY <1>3, <2>2, <2>3, <2>5 DEF QueueGood
      <4>5. \A i, j \in DOMAIN q : q[i] = q[j] => i = j
        BY <2>2, Zenon DEF QueueGood
      <4>6. syQueues'[k] = a
        BY <2>3, <3>1, Zenon
      <4> HIDE DEF a
      <4>7. \A i \in DOMAIN a : syFrame'[a[i]].st = "copied" /\ syFrame'[a[i]].m = k /\ a[i] \notin syFence'
        BY <2>5, <3>1, <4>1, <4>3, <4>4, SMTT(30) DEF a
      <4>8. \A i, j \in DOMAIN a : a[i] = a[j] => i = j
        BY <2>5, <4>1, <4>5, Zenon DEF a
      <4>9. QueueGood(k)'
        BY <2>4, <4>6, <4>7, <4>8, ZenonT(60) DEF QueueGood, a
      <4>10. \A g \in SyFrames : Queued(k, g) => Queued(k, g)'
        BY <2>4, <2>5, <3>1, <4>2, <4>6, ZenonT(60) DEF Queued, a
      <4> QED
        BY <4>9, <4>10, ZenonT(60)
    <3>2. CASE k # n
      <4>1. syQueues'[k] = syQueues[k]
        BY <2>3, <3>2, ZenonT(60)
      <4>2. CASE syQueues[k] = SyNone
        BY <4>1, <4>2, ZenonT(60) DEF QueueGood, Queued
      <4>3. CASE syQueues[k] # SyNone
        <5>1. QueueGood(k) /\ syQueues[k] \in Seq(SyFrames)
          BY <4>3, Zenon DEF SyInv, QueueGood
        <5>2. \A i \in DOMAIN syQueues[k] : syQueues[k][i] # f /\ syQueues[k][i] \in SyFrames
          BY <1>4, <4>3, <5>1, SMTT(30) DEF Queued
        <5> QED
          BY <1>3, <2>3, <4>1, <4>3, <5>1, <5>2, SMTT(30) DEF QueueGood, Queued
      <4> QED
        BY <4>2, <4>3, ZenonT(60)
    <3> QED
      BY <3>1, <3>2, ZenonT(60)
  <2>8. Queued(n, f)'
    BY <2>3, <2>4, <2>5 DEF Queued
  <2>9. \A g \in SyFrames : syFrame'[g].st = "copied" => g \in syFence' \/ \E k \in SyManagers : Queued(k, g)'
    <3> SUFFICES ASSUME NEW g \in SyFrames, syFrame'[g].st = "copied"
                 PROVE  g \in syFence' \/ \E k \in SyManagers : Queued(k, g)'
      BY Zenon
    <3>1. CASE g = f
      BY <2>2, <2>8, <3>1, Zenon
    <3>2. CASE g # f
      <4>1. g \in syFence \/ \E k \in SyManagers : Queued(k, g)
        BY <2>3, <3>2, ZenonT(60) DEF SyInv
      <4> QED
        BY <1>3, <2>7, <4>1, ZenonT(60)
    <3> QED
      BY <3>1, <3>2, Zenon
  <2>10. \A g \in syFence' : g \in SyFrames /\ syFrame'[g].st = "copied"
    BY <1>3, <1>5, <2>3, ZenonT(60) DEF SyInv
  <2>11. \A g \in SyFrames : AnswerState(syFrame'[g]) /\ (syFrame'[g].st \in {"pending", "copied"} => syFrame'[g].m \in SyManagers)
    BY <1>1, <1>2, <2>3, <2>6, ZenonT(60) DEF SyInv
  <2>12. LiveManagerHasQueue' /\ syAlive' \subseteq SyManagers
    BY <1>3, <2>3, <2>4, ZenonT(60) DEF SyInv, LiveManagerHasQueue
  <2> QED
    BY <2>3, <2>7, <2>9, <2>10, <2>11, <2>12, ZenonT(60) DEF SyInv, AnswerState
<1> QED
  BY <1>6, <1>7, ZenonT(60)

\* A redraw serves a queue: its last copy leaves it, answered or for its fence.
LEMMA ServeQueueStep ==
    ASSUME SyInv, NEW m \in SyManagers, NEW o \in SyOutputs, NEW result \in CopyResults, NEW fence \in BOOLEAN,
           ServeQueue(m, o, result, fence)
    PROVE  SyInv'
<1>0. PICK q : q = syQueues[m]
  BY Zenon
<1>1. /\ q # SyNone /\ q # <<>> /\ q \in Seq(SyFrames) /\ DOMAIN syQueues = SyManagers /\ DOMAIN syFrame = SyFrames
      /\ UNCHANGED syAlive
  BY <1>0, ZenonT(60) DEF ServeQueue, Looks, SyInv, QueueGood
<1>2. PICK t : t = pop(q)
  BY Zenon
<1>3. PICK h : h = split(q)
  BY Zenon
<1>4. /\ DOMAIN q = 1 .. Len(q) /\ Len(q) \in Nat /\ Len(q) \in DOMAIN q /\ 1 \in DOMAIN q
      /\ t = q[Len(q)] /\ h = q[1] /\ t \in SyFrames /\ h \in SyFrames
  BY <1>1, <1>2, <1>3 DEF pop, split
<1>5. Queued(m, t) /\ Queued(m, h)
  BY <1>0, <1>1, <1>4, ZenonT(60) DEF Queued
<1>6. PICK p : p = AfterPop(q)
  BY Zenon
<1>7. /\ p \in Seq(SyFrames) /\ p # SyNone /\ DOMAIN p = 1 .. Len(q) - 1
      /\ \A i \in DOMAIN p : i \in DOMAIN q /\ p[i] = q[i] /\ i # Len(q)
  <2>1. p \in Seq(SyFrames) /\ DOMAIN p = 1 .. Len(q) - 1 /\ \A i \in 1 .. Len(q) - 1 : p[i] = q[i]
    BY <1>1, <1>4, <1>6 DEF AfterPop
  <2> QED
    BY <1>4, <2>1, SyAssumption
<1>8. /\ DOMAIN syQueues' = SyManagers /\ syQueues'[m] = p
      /\ \A k \in SyManagers \ {m} : syQueues'[k] = syQueues[k]
  <2>1. syQueues' = [syQueues EXCEPT ![m] = AfterPop(syQueues[m])]
    BY Zenon DEF ServeQueue
  <2> QED
    BY <1>0, <1>1, <1>6, <2>1, Zenon
<1>9. \A i \in DOMAIN q : i # Len(q) => q[i] # t
  BY <1>0, <1>1, <1>4, ZenonT(60) DEF SyInv, QueueGood
\* The picture goes to the first copy of the queue.
<1>10. PICK d : d = IF result = "drawn" THEN Update(syFrame, h, [syFrame[h] EXCEPT !.drawn = TRUE]) ELSE syFrame
  BY Zenon
<1>11. DOMAIN d = SyFrames /\ \A g \in SyFrames : AnswerState(d[g]) /\ d[g].st = syFrame[g].st /\ d[g].m = syFrame[g].m
  <2>1. \A g \in SyFrames : AnswerState(syFrame[g])
    BY ZenonT(60) DEF SyInv
  <2>2. CASE result = "drawn"
    <3> DEFINE s == syFrame[h]
               w == [s EXCEPT !.drawn = TRUE]
    <3>1. s \in SyRecords /\ AnswerState(s)
      BY <1>4, <2>1, ZenonT(60) DEF AnswerState
    <3>2. w \in SyRecords /\ w.st = s.st /\ w.m = s.m /\ w.told = s.told /\ w.submitted = s.submitted
      BY <3>1, ZenonT(60) DEF SyRecords
    <3>3. d = Update(syFrame, h, w)
      BY <1>10, <2>2, ZenonT(60)
    <3> HIDE DEF w
    <3>4. AnswerState(w)
      BY <3>1, <3>2, ZenonT(60) DEF AnswerState
    <3>5. DOMAIN d = SyFrames /\ d[h] = w /\ \A g \in SyFrames \ {h} : d[g] = syFrame[g]
      BY <1>1, <1>4, <3>3, ZenonT(60) DEF Update
    <3> QED
      BY <2>1, <3>2, <3>4, <3>5, ZenonT(60)
  <2>3. CASE result # "drawn"
    BY <1>1, <1>10, <2>1, <2>3, ZenonT(60)
  <2> QED
    BY <2>2, <2>3, ZenonT(60)
<1>12. syFrame[t].st = "copied" /\ syFrame[t].m = m /\ t \notin syFence
  BY <1>5, QueuedFrames, ZenonT(60)
\* What becomes of the copy that was taken.
<1>13. \E r : /\ AnswerState(r) /\ r.m = m
              /\ DOMAIN syFrame' = SyFrames /\ syFrame'[t] = r /\ \A g \in SyFrames \ {t} : syFrame'[g] = d[g]
              /\ \/ r.st = "copied" /\ syFence' = syFence \cup {t}
                 \/ r.st = "done" /\ syFence' = syFence
  <2>0. \/ result = "drawn" /\ fence /\ syFence' = syFence \cup {t} /\ syFrame' = d
        \/ result = "drawn" /\ ~fence /\ UNCHANGED syFence /\ syFrame' = Update(d, t, submit(d[t]))
        \/ result = "error" /\ UNCHANGED syFence /\ syFrame' = Update(d, t, DropFailed(d[t]))
    BY <1>0, <1>2, <1>3, <1>10, ZenonT(60) DEF ServeQueue
  <2>1. AnswerState(d[t]) /\ d[t].st = "copied" /\ d[t].m = m
    BY <1>4, <1>11, <1>12, ZenonT(60)
  <2>2. /\ AnswerState(submit(d[t])) /\ submit(d[t]).st = "done" /\ submit(d[t]).m = m
        /\ AnswerState(DropFailed(d[t])) /\ DropFailed(d[t]).st = "done" /\ DropFailed(d[t]).m = m
    BY <2>1, Answers, ZenonT(60)
  <2>3. ASSUME NEW r
        PROVE  DOMAIN Update(d, t, r) = SyFrames /\ Update(d, t, r)[t] = r /\ \A g \in SyFrames \ {t} : Update(d, t, r)[g] = d[g]
    BY <1>4, <1>11, ZenonT(60) DEF Update
  <2>4. CASE result = "drawn" /\ fence /\ syFence' = syFence \cup {t} /\ syFrame' = d
    <3>1. WITNESS d[t]
    <3> QED
      BY <1>11, <2>1, <2>4, ZenonT(60)
  <2>5. CASE UNCHANGED syFence /\ syFrame' = Update(d, t, submit(d[t]))
    <3>1. WITNESS submit(d[t])
    <3> QED
      BY <2>2, <2>3, <2>5, ZenonT(60)
  <2>6. CASE UNCHANGED syFence /\ syFrame' = Update(d, t, DropFailed(d[t]))
    <3>1. WITNESS DropFailed(d[t])
    <3> QED
      BY <2>2, <2>3, <2>6, ZenonT(60)
  <2> QED
    BY <2>0, <2>4, <2>5, <2>6, ZenonT(60)
<1>14. PICK r : /\ AnswerState(r) /\ r.m = m
                /\ DOMAIN syFrame' = SyFrames /\ syFrame'[t] = r /\ \A g \in SyFrames \ {t} : syFrame'[g] = d[g]
                /\ \/ r.st = "copied" /\ syFence' = syFence \cup {t}
                   \/ r.st = "done" /\ syFence' = syFence
  BY <1>13, ZenonT(60)
<1>15. \A g \in SyFrames \ {t} : AnswerState(syFrame'[g]) /\ syFrame'[g].st = syFrame[g].st /\ syFrame'[g].m = syFrame[g].m
  BY <1>11, <1>14, ZenonT(60)
<1>16. ASSUME NEW k \in SyManagers
       PROVE  QueueGood(k)' /\ \A g \in SyFrames \ {t} : Queued(k, g) => Queued(k, g)'
  <2>1. CASE k = m
    <3>1. \A i \in DOMAIN p : p[i] \in SyFrames \ {t} /\ Queued(m, p[i])
      BY <1>0, <1>1, <1>7, <1>9, SMTT(30) DEF Queued
    <3>2. \A i \in DOMAIN p : syFrame'[p[i]].st = "copied" /\ syFrame'[p[i]].m = m /\ p[i] \notin syFence'
      <4> SUFFICES ASSUME NEW i \in DOMAIN p
                   PROVE  syFrame'[p[i]].st = "copied" /\ syFrame'[p[i]].m = m /\ p[i] \notin syFence'
        BY Zenon
      <4>1. syFrame[p[i]].st = "copied" /\ syFrame[p[i]].m = m /\ p[i] \notin syFence
        BY <3>1, QueuedFrames, Zenon
      <4> QED
        BY <1>14, <1>15, <3>1, <4>1, Zenon
    <3>3. \A i, j \in DOMAIN p : p[i] = p[j] => i = j
      BY <1>0, <1>1, <1>7, SMTT(30) DEF SyInv, QueueGood
    <3>4. QueueGood(k)'
      BY <1>7, <1>8, <2>1, <3>2, <3>3, Zenon DEF QueueGood
    <3>5. ASSUME NEW g \in SyFrames \ {t}, Queued(k, g)
          PROVE  Queued(k, g)'
      <4>1. PICK i \in DOMAIN q : q[i] = g
        BY <1>0, <2>1, <3>5, ZenonT(60) DEF Queued
      <4>2. i # Len(q) /\ i \in DOMAIN p
        BY <1>4, <1>7, <4>1, SMTT(30)
      <4> QED
        BY <1>7, <1>8, <2>1, <4>1, <4>2, Zenon DEF Queued
    <3> QED
      BY <3>4, <3>5, ZenonT(60)
  <2>2. CASE k # m
    <3>1. syQueues'[k] = syQueues[k]
      BY <1>8, <2>2, Zenon
    <3>2. CASE syQueues[k] = SyNone
      BY <3>1, <3>2, Zenon DEF QueueGood, Queued
    <3>3. CASE syQueues[k] # SyNone
      <4>1. QueueGood(k) /\ syQueues[k] \in Seq(SyFrames)
        BY <3>3, ZenonT(60) DEF SyInv, QueueGood
      <4>2. \A i \in DOMAIN syQueues[k] : syQueues[k][i] \in SyFrames /\ Queued(k, syQueues[k][i])
        BY <3>3, <4>1, SMTT(30) DEF Queued
      <4>3. \A i \in DOMAIN syQueues[k] : syQueues[k][i] # t
        BY <1>12, <2>2, <4>2, QueuedFrames, ZenonT(60)
      <4>4. ASSUME NEW i \in DOMAIN syQueues[k], NEW f, f = syQueues[k][i]
            PROVE  syFrame'[f].st = "copied" /\ syFrame'[f].m = k /\ f \notin syFence'
        <5>1. syFrame[f].st = "copied" /\ syFrame[f].m = k /\ f \notin syFence
          BY <3>3, <4>1, <4>4, ZenonT(60) DEF QueueGood
        <5>2. f \in SyFrames \ {t}
          BY <4>2, <4>3, <4>4, ZenonT(60)
        <5> QED
          BY <1>14, <1>15, <5>1, <5>2, ZenonT(60)
      <4>5. \A i, j \in DOMAIN syQueues[k] : syQueues[k][i] = syQueues[k][j] => i = j
        BY <3>3, <4>1, ZenonT(60) DEF QueueGood
      <4>6. QueueGood(k)'
        BY <3>1, <4>1, <4>4, <4>5, ZenonT(60) DEF QueueGood
      <4>7. \A g : Queued(k, g) => Queued(k, g)'
        BY <3>1, ZenonT(60) DEF Queued
      <4> QED
        BY <4>6, <4>7, ZenonT(60)
    <3> QED
      BY <3>2, <3>3, Zenon
  <2> QED
    BY <2>1, <2>2, ZenonT(60)
<1>17. \A g \in SyFrames : syFrame'[g].st = "copied" => g \in syFence' \/ \E k \in SyManagers : Queued(k, g)'
  <2> SUFFICES ASSUME NEW g \in SyFrames, syFrame'[g].st = "copied"
               PROVE  g \in syFence' \/ \E k \in SyManagers : Queued(k, g)'
    BY ZenonT(60)
  <2>1. CASE g = t
    BY <1>14, <2>1, ZenonT(60)
  <2>2. CASE g # t
    <3>1. g \in syFence \/ \E k \in SyManagers : Queued(k, g)
      BY <1>15, <2>2, ZenonT(60) DEF SyInv
    <3> QED
      BY <1>14, <1>16, <2>2, <3>1, ZenonT(60)
  <2> QED
    BY <2>1, <2>2, ZenonT(60)
<1>18. \A g \in syFence' : g \in SyFrames /\ syFrame'[g].st = "copied"
  BY <1>4, <1>12, <1>14, <1>15, ZenonT(60) DEF SyInv
<1>19. \A g \in SyFrames : AnswerState(syFrame'[g]) /\ (syFrame'[g].st \in {"pending", "copied"} => syFrame'[g].m \in SyManagers)
  BY <1>14, <1>15, Zenon DEF SyInv
<1>20. LiveManagerHasQueue' /\ syAlive' \subseteq SyManagers
  BY <1>1, <1>7, <1>8, ZenonT(60) DEF SyInv, LiveManagerHasQueue
<1> QED
  BY <1>8, <1>14, <1>16, <1>17, <1>18, <1>19, <1>20, ZenonT(60) DEF SyInv, AnswerState

-----------------------------------------------------------------------------
(* A screencast stream.                                                    *)

INSTANCE WellFoundedInduction

\* A set of naturals that is not empty has a least element.
LEMMA LeastElement ==
    ASSUME NEW T \in SUBSET Nat, T # {}
    PROVE  \E m \in T : \A k \in T : m <= k
<1>1. PICK m \in T : \A k \in T : ~(<<k, m>> \in OpToRel(<, Nat))
  BY NatLessThanWellFounded, WFMin, Zenon
<1>2. \A k \in T : ~(k < m)
  BY <1>1, Zenon DEF OpToRel
<1> QED
  BY <1>2


Frame == [buf : CaBufs, seq : Nat, done : BOOLEAN]

\* Frames numbered upwards, after `sent` and up to `top`.
Numbered(frames, sent, top) ==
    /\ \A i \in DOMAIN frames : sent < frames[i].seq /\ frames[i].seq <= top
    /\ \A i, j \in DOMAIN frames : i < j => frames[i].seq < frames[j].seq

\* The frames still rendering: numbered in order after the last one queued, each
\* with a source for its fence until it is done, and the first always with one.
FramesInv ==
    /\ caRender \in Seq(Frame) /\ caSeq \in Nat /\ caSent \in Nat /\ caSent <= caSeq
    /\ Numbered(caRender, caSent, caSeq)
    /\ \A i \in DOMAIN caRender : ~caRender[i].done => caRender[i].seq \in caSrc
    /\ caEnd = "no" /\ caRender # <<>> => caRender[1].seq \in caSrc

\* The size negotiated, and the target of the cast.
CastState == [k : {"ResizePending", "ConfirmationPending", "Ready"}, size : CaSizes]
Look == [kind : {"nothing", "output", "window"}, size : CaSizes, damage : BOOLEAN, queued : BOOLEAN]

\* The buffers lent: once the size is negotiated, those with a dmabuf have it.
BuffersInv ==
    /\ caState \in CastState
    /\ caLook \in Look
    /\ caBufs = [b \in CaBufs |-> caBufs[b]]
    /\ caFree \subseteq CaBufs /\ \A b \in caFree : caBufs[b] # CaNone
    /\ caState.k = "Ready" => \A b \in CaBufs : caBufs[b] \in {CaNone, 0, caState.size}

CaInv == FramesInv /\ BuffersInv /\ caProfile \in CaProfiles

\* What a step may do: it queues no frame behind one already queued, and draws
\* only into buffers of the size of the target.
Fits == caSeq' # caSeq /\ caLook'.kind # "nothing" => \A b \in caFree \ caFree' : caBufs[b] = caLook'.size
Good == CaInv' /\ caSent' >= caSent /\ Fits

\* queue_completed_buffers queues the longest prefix of finished frames.
LEMMA FirstInProgressFinds ==
    ASSUME NEW frames \in Seq(Frame)
    PROVE  LET n == FirstInProgress(frames)
           IN  /\ n \in 0 .. Len(frames)
               /\ n < Len(frames) => ~frames[n + 1].done
<1> DEFINE busy == {i \in DOMAIN frames : ~frames[i].done}
<1>1. CASE busy = {}
  BY <1>1 DEF FirstInProgress
<1>2. CASE busy # {}
  <2>1. busy \in SUBSET Nat
    OBVIOUS
  <2>2. PICK m \in busy : \A k \in busy : m <= k
    BY <2>1, <1>2, LeastElement, Zenon
  <2>3. \A m2 \in busy : (\A k \in busy : m2 <= k) => m2 = m
    BY <2>1, <2>2
  <2>4. (CHOOSE i \in busy : \A j \in busy : i <= j) = m
    BY <2>2, <2>3, Zenon
  <2>5. FirstInProgress(frames) = m - 1
    BY <2>4, <1>2, Zenon DEF FirstInProgress
  <2> QED BY <2>2, <2>5
<1> QED BY <1>1, <1>2, Zenon

\* A frame of a sequence of frames has its number.
LEMMA FramesAreFrames ==
    ASSUME NEW frames \in Seq(Frame)
    PROVE  \A i \in DOMAIN frames : frames[i] \in Frame /\ frames[i].seq \in Nat /\ frames[i].done \in BOOLEAN
<1>1. \A i \in DOMAIN frames : frames[i] \in Frame
  OBVIOUS
<1> QED BY <1>1, Zenon DEF Frame

\* What is left after queueing is numbered in order after the last one queued.
LEMMA QueueKeepsOrder ==
    ASSUME NEW frames \in Seq(Frame), caSent \in Nat, NEW top \in Nat, caSent <= top,
           Numbered(frames, caSent, top), queue_completed_buffers(frames)
    PROVE  /\ caRender' \in Seq(Frame) /\ caSent' \in Nat /\ caSent <= caSent' /\ caSent' <= top
           /\ Numbered(caRender', caSent', top)
           /\ \A i \in DOMAIN caRender' : \E j \in DOMAIN frames : caRender'[i] = frames[j]
           /\ caRender' # <<>> => ~caRender'[1].done
<1> DEFINE n == FirstInProgress(frames)
<1>1. n \in 0 .. Len(frames) /\ (n < Len(frames) => ~frames[n + 1].done)
  BY FirstInProgressFinds, Zenon
<1>2. caRender' = SubSeq(frames, n + 1, Len(frames)) /\ caSent' = IF n = 0 THEN caSent ELSE frames[n].seq
  BY Zenon DEF queue_completed_buffers
<1> HIDE DEF n
<1>3. /\ caRender' \in Seq(Frame) /\ Len(caRender') = Len(frames) - n
      /\ \A i \in 1 .. Len(caRender') : caRender'[i] = frames[n + i]
  BY <1>1, <1>2, SMTT(30)
<1>4. \A i \in DOMAIN frames : frames[i].seq \in Nat
  BY FramesAreFrames, Zenon
<1>5. caSent' \in Nat /\ caSent <= caSent' /\ caSent' <= top
  BY <1>1, <1>2, <1>4, SMTT(30) DEF Numbered
<1>6. \A i \in DOMAIN caRender' : n + i \in DOMAIN frames /\ caRender'[i] = frames[n + i]
  BY <1>1, <1>3, SMTT(30)
<1>7. Numbered(caRender', caSent', top)
  <2>1. ASSUME NEW i \in DOMAIN caRender' PROVE caSent' < caRender'[i].seq /\ caRender'[i].seq <= top
    <3>1. caRender'[i] = frames[n + i] /\ n + i \in DOMAIN frames /\ i \in Nat \ {0}
      BY <1>3, <1>6
    <3>2. CASE n = 0
      BY <1>2, <3>1, <3>2, Zenon DEF Numbered
    <3>3. CASE n # 0
      <4>1. n \in DOMAIN frames /\ n < n + i /\ caSent' = frames[n].seq
        BY <1>1, <1>2, <3>1, <3>3
      <4>2. frames[n].seq < frames[n + i].seq /\ frames[n + i].seq <= top
        BY <3>1, <4>1, Zenon DEF Numbered
      <4> QED BY <3>1, <4>1, <4>2, ZenonT(60)
    <3> QED BY <3>2, <3>3, ZenonT(60)
  <2>2. ASSUME NEW i \in DOMAIN caRender', NEW j \in DOMAIN caRender', i < j
        PROVE  caRender'[i].seq < caRender'[j].seq
    <3>1. /\ caRender'[i] = frames[n + i] /\ n + i \in DOMAIN frames
          /\ caRender'[j] = frames[n + j] /\ n + j \in DOMAIN frames
      BY <1>6, Zenon
    <3>2. n + i < n + j
      BY <1>1, <1>3, <2>2
    <3>3. frames[n + i].seq < frames[n + j].seq
      BY <3>1, <3>2, Zenon DEF Numbered
    <3> QED BY <3>1, <3>3, ZenonT(60)
  <2> QED BY <2>1, <2>2, ZenonT(60) DEF Numbered
<1>8. caRender' # <<>> => ~caRender'[1].done
  BY <1>1, <1>3
<1> QED BY <1>3, <1>5, <1>6, <1>7, <1>8, Zenon

\* What leaves the frames alone keeps their invariant.
LEMMA FramesKept ==
    ASSUME FramesInv, UNCHANGED <<caRender, caSrc, caSeq, caSent>>, caEnd' = "no" => caEnd = "no"
    PROVE  FramesInv' /\ caSent' >= caSent
  BY DEF FramesInv, Numbered

\* queue_after_sync appends the next frame, with a source for its fence or done.
LEMMA SyncKeepsFrames ==
    ASSUME FramesInv, caEnd = "no", NEW b \in CaBufs, NEW fence \in BOOLEAN, queue_after_sync(b, fence)
    PROVE  FramesInv' /\ caSent' >= caSent
<1> DEFINE frame  == [buf |-> b, seq |-> caSeq + 1, done |-> ~fence]
           frames == Append(caRender, frame)
<1>1. frame \in Frame /\ frame.seq = caSeq + 1 /\ frame.done = ~fence
  <2>1. caSeq \in Nat
    BY Zenon DEF FramesInv
  <2> QED BY <2>1 DEF Frame
<1>2. caSeq' = caSeq + 1 /\ caSeq \in Nat /\ caSeq' \in Nat /\ caRender \in Seq(Frame) /\ caSent \in Nat /\ caSent <= caSeq
  BY DEF queue_after_sync, FramesInv
<1>3. fence => caRender' = frames /\ caSrc' = caSrc \cup {caSeq + 1} /\ caSent' = caSent
  BY Zenon DEF queue_after_sync
<1>4. ~fence => caSrc' = caSrc /\ queue_completed_buffers(frames)
  BY Zenon DEF queue_after_sync
<1> HIDE DEF frame
<1>5. /\ frames \in Seq(Frame) /\ Len(frames) = Len(caRender) + 1 /\ frames[Len(frames)] = frame
      /\ \A i \in DOMAIN caRender : i \in DOMAIN frames /\ i < Len(frames) /\ frames[i] = caRender[i]
      /\ \A i \in DOMAIN frames : i = Len(frames) \/ i \in DOMAIN caRender
  BY <1>1, <1>2
<1> HIDE DEF frames
<1>6. \A i \in DOMAIN caRender : caRender[i].seq \in Nat /\ caSent < caRender[i].seq /\ caRender[i].seq <= caSeq
  BY <1>2, FramesAreFrames, Zenon DEF FramesInv, Numbered
<1>7. Numbered(frames, caSent, caSeq + 1)
  <2>1. ASSUME NEW i \in DOMAIN frames PROVE caSent < frames[i].seq /\ frames[i].seq <= caSeq + 1
    BY <1>1, <1>2, <1>5, <1>6, SMTT(30)
  <2>2. ASSUME NEW i \in DOMAIN frames, NEW j \in DOMAIN frames, i < j PROVE frames[i].seq < frames[j].seq
    <3>1. i \in DOMAIN caRender
      BY <1>5, <2>2
    <3>2. CASE j = Len(frames)
      BY <1>1, <1>2, <1>5, <1>6, <3>1, <3>2, SMTT(30)
    <3>3. CASE j \in DOMAIN caRender
      BY <1>5, <2>2, <3>1, <3>3, Zenon DEF FramesInv, Numbered
    <3> QED BY <1>5, <3>2, <3>3, Zenon
  <2> QED BY <2>1, <2>2, Zenon DEF Numbered
<1>8. ASSUME NEW i \in DOMAIN frames, ~frames[i].done
      PROVE  frames[i].seq \in caSrc \/ (fence /\ frames[i].seq = caSeq + 1)
  <2>1. CASE i = Len(frames)
    BY <1>1, <1>5, <1>8, <2>1, Zenon
  <2>2. CASE i \in DOMAIN caRender
    <3>1. frames[i] = caRender[i] /\ ~caRender[i].done
      BY <1>5, <1>8, <2>2, Zenon
    <3>2. \A j \in DOMAIN caRender : ~caRender[j].done => caRender[j].seq \in caSrc
      BY Zenon DEF FramesInv
    <3>3. caRender[i].seq \in caSrc
      BY <2>2, <3>1, <3>2, Zenon
    <3> QED BY <3>1, <3>3, Zenon
  <2> QED BY <1>5, <2>1, <2>2, Zenon
<1>9. CASE fence
  <2>1. frames # <<>> => frames[1].seq \in caSrc'
    <3>1. CASE caRender = <<>>
      BY <1>1, <1>3, <1>5, <1>9, <3>1, SMTT(30)
    <3>2. CASE caRender # <<>>
      BY <1>2, <1>3, <1>5, <1>9, <3>2, SMTT(30) DEF FramesInv
    <3> QED BY <3>1, <3>2, Zenon
  <2> QED BY <1>2, <1>3, <1>5, <1>7, <1>8, <1>9, <2>1, SMTT(30) DEF FramesInv
<1>10. CASE ~fence
  <2>1. /\ caRender' \in Seq(Frame) /\ caSent' \in Nat /\ caSent <= caSent' /\ caSent' <= caSeq + 1
        /\ Numbered(caRender', caSent', caSeq + 1)
        /\ \A i \in DOMAIN caRender' : \E j \in DOMAIN frames : caRender'[i] = frames[j]
        /\ caRender' # <<>> => ~caRender'[1].done
    <3>1. caSeq + 1 \in Nat /\ caSent <= caSeq + 1 /\ queue_completed_buffers(frames)
      BY <1>2, <1>4, <1>10
    <3> QED BY <1>2, <1>5, <1>7, <3>1, QueueKeepsOrder, ZenonT(60)
  <2>2. \A i \in DOMAIN caRender' : ~caRender'[i].done => caRender'[i].seq \in caSrc'
    BY <1>4, <1>8, <1>10, <2>1, ZenonT(60)
  <2>3. caRender' # <<>> => 1 \in DOMAIN caRender'
    BY <2>1
  <2> QED BY <1>2, <2>1, <2>2, <2>3, Zenon DEF FramesInv
<1> QED BY <1>9, <1>10, Zenon

\* Draw takes a free buffer; it draws a frame into it, gives it back as corrupted
\* or finds no dmabuf.
LEMMA DrawKeeps ==
    ASSUME CaInv, caEnd = "no", NEW look, Draw(look)
    PROVE  /\ FramesInv' /\ caSent' >= caSent /\ caLook' = look
           /\ caBufs' = caBufs /\ caFree' \subseteq caFree
           /\ caState.k = "Ready" /\ caSeq' # caSeq => \A b \in caFree \ caFree' : caBufs[b] = caState.size
<1>1. PICK b \in caFree : /\ caFree' = caFree \ {b} /\ UNCHANGED caBufs
          /\ IF caBufs[b] = 0
             THEN caEnd' = "crash" /\ UNCHANGED <<caRender, caSrc, caSeq, caSent, caAge>>
             ELSE /\ UNCHANGED caEnd
                  /\ \/ /\ caSeq < CaSeqMax /\ caAge' = 0
                        /\ \E fence \in caProfile.fences : queue_after_sync(b, fence)
                     \/ "fail" \in caProfile.may /\ UNCHANGED <<caRender, caSrc, caSeq, caSent, caAge>>
  BY Zenon DEF Draw
<1>2. caLook' = look
  BY Zenon DEF Draw
<1>3. b \in CaBufs /\ caBufs[b] # CaNone
  BY Zenon DEF CaInv, BuffersInv
<1>4. CASE UNCHANGED <<caRender, caSrc, caSeq, caSent>>
  BY <1>1, <1>2, <1>4, FramesKept, ZenonT(60) DEF CaInv
<1>5. CASE caBufs[b] # 0 /\ \E fence \in caProfile.fences : queue_after_sync(b, fence)
  <2>1. PICK fence \in caProfile.fences : queue_after_sync(b, fence)
    BY <1>5, Zenon
  <2>2. FramesInv' /\ caSent' >= caSent
    <3>1. fence \in BOOLEAN
      BY CaAssumption, Zenon DEF CaInv
    <3> QED BY <1>3, <2>1, <3>1, SyncKeepsFrames, ZenonT(60) DEF CaInv
  <2>3. caState.k = "Ready" => caBufs[b] = caState.size
    BY <1>3, <1>5, Zenon DEF CaInv, BuffersInv
  <2> QED BY <1>1, <1>2, <2>2, <2>3, ZenonT(60)
<1> QED BY <1>1, <1>4, <1>5, Zenon

\* What touches neither the frames nor the buffers, and leaves the size alone or
\* waits for another one, is good.
LEMMA SizeKept ==
    ASSUME CaInv, UNCHANGED <<caFrames, caProfile>>, caEnd' = "no" => caEnd = "no",
           caState' = caState \/ \E size \in CaSizes : caState' = [k |-> "ResizePending", size |-> size],
           caLook' \in Look
    PROVE  Good
<1>1. UNCHANGED <<caRender, caSrc, caSeq, caSent>> /\ UNCHANGED <<caBufs, caFree>>
  BY Zenon DEF caFrames
<1>2. FramesInv' /\ caSent' >= caSent
  BY <1>1, FramesKept, Zenon DEF CaInv
<1>3. BuffersInv'
  <2>1. CASE caState' = caState
    BY <1>1, <2>1, Zenon DEF CaInv, BuffersInv
  <2>2. CASE \E size \in CaSizes : caState' = [k |-> "ResizePending", size |-> size]
    BY <1>1, <2>2 DEF CaInv, BuffersInv, CastState
  <2> QED BY <2>1, <2>2, Zenon
<1> QED BY <1>1, <1>2, <1>3, Zenon DEF CaInv, Good, Fits

\* ensure_size leaves the size alone or waits for another one.
LEMMA EnsureSize ==
    ASSUME NEW size \in CaSizes, NEW offers, ensure_size(size, offers)
    PROVE  /\ caState' = caState \/ \E s \in CaSizes : caState' = [k |-> "ResizePending", size |-> s]
           /\ IsReady(size) => caState' = caState
  BY Zenon DEF ensure_size

\* A frame drawn while the size is the target's is good.
LEMMA RenderGood ==
    ASSUME CaInv, caEnd = "no", UNCHANGED <<caState, caProfile>>, IsReady(caLook.size),
           NEW look \in Look, look.size = caLook.size,
           dequeue_buffer_and_render(look)
    PROVE  Good
<1> DEFINE spent == [look EXCEPT !.damage = FALSE]
<1>1. spent \in Look /\ spent.size = look.size
  BY Zenon DEF Look
<1>2. caState.k = "Ready" /\ caState.size = caLook.size
  BY Zenon DEF IsReady
<1>3. Idle(spent) \/ Draw(spent)
  BY Zenon DEF dequeue_buffer_and_render
<1> HIDE DEF spent
<1>4. CASE Idle(spent)
  BY <1>1, <1>4, SizeKept, Zenon DEF Idle
<1>5. CASE Draw(spent)
  <2>1. /\ FramesInv' /\ caSent' >= caSent /\ caLook' = spent
        /\ caBufs' = caBufs /\ caFree' \subseteq caFree
        /\ caSeq' # caSeq => \A b \in caFree \ caFree' : caBufs[b] = caState.size
    BY <1>2, <1>5, DrawKeeps, Zenon
  <2>2. BuffersInv'
    BY <1>1, <2>1, Zenon DEF CaInv, BuffersInv
  <2> QED BY <1>1, <1>2, <2>1, <2>2, Zenon DEF Good, Fits, CaInv
<1> QED BY <1>3, <1>4, <1>5, Zenon

\* Clearing a buffer when there is nothing to cast is good: it draws no target.
LEMMA ClearGood ==
    ASSUME CaInv, caEnd = "no", UNCHANGED <<caState, caProfile>>,
           NEW look \in Look, look.kind = "nothing",
           dequeue_buffer_and_clear(look)
    PROVE  Good
<1> DEFINE fresh == [look EXCEPT !.damage = TRUE]
<1>1. fresh \in Look /\ fresh.kind = "nothing"
  BY Zenon DEF Look
<1>2. Idle(fresh) \/ Draw(fresh)
  BY Zenon DEF dequeue_buffer_and_clear
<1> HIDE DEF fresh
<1>3. CASE Idle(fresh)
  BY <1>1, <1>3, SizeKept, Zenon DEF Idle
<1>4. CASE Draw(fresh)
  <2>1. /\ FramesInv' /\ caSent' >= caSent /\ caLook' = fresh /\ caBufs' = caBufs /\ caFree' \subseteq caFree
    BY <1>4, DrawKeeps, Zenon
  <2>2. BuffersInv'
    BY <1>1, <2>1, Zenon DEF CaInv, BuffersInv
  <2> QED BY <1>1, <2>1, <2>2, Zenon DEF Good, Fits, CaInv
<1> QED BY <1>2, <1>3, <1>4, Zenon

\* param_changed comes when PipeWire has taken all buffers back.
LEMMA ParamChangedGood == ASSUME CaInv, param_changed PROVE Good
<1>1. caRender' = <<>> /\ UNCHANGED <<caSrc, caSeq, caSent, caProfile>>
  BY Zenon DEF param_changed
<1>2. FramesInv' /\ caSent' >= caSent
  BY <1>1 DEF CaInv, FramesInv, Numbered
<1>3. caState' \in CastState
  BY Zenon DEF CaInv, BuffersInv, CastState, param_changed, Confirm
<1>4. caLook' \in Look
  BY Zenon DEF CaInv, BuffersInv, Look, param_changed
<1>5. BuffersInv'
  BY <1>3, <1>4, Zenon DEF BuffersInv, param_changed
<1> QED BY <1>1, <1>2, <1>5, Zenon DEF CaInv, Good, Fits

\* A buffer is lent with memory of the negotiated size, or with none.
LEMMA AddBufferGood == ASSUME CaInv, NEW b \in CaBufs, add_buffer(b) PROVE Good
<1>1. /\ UNCHANGED <<caState, caRender, caSrc, caSeq, caSent, caLook, caEnd, caProfile>>
      /\ caBufs' = [caBufs EXCEPT ![b] = IF caState.k = "Ready" THEN caState.size ELSE 0]
      /\ caFree' = caFree \cup {b}
  BY Zenon DEF add_buffer
<1>2. FramesInv' /\ caSent' >= caSent
  BY <1>1, FramesKept, Zenon DEF CaInv
<1>3. caState.size \in Nat /\ caState.size # CaNone /\ CaNone # 0
  BY CaAssumption DEF CaInv, BuffersInv, CastState
<1>4. BuffersInv'
  BY <1>1, <1>3, Zenon DEF CaInv, BuffersInv
<1> QED BY <1>1, <1>2, <1>4, Zenon DEF CaInv, Good, Fits

\* A buffer that comes back is one that was lent.
LEMMA RecycleGood == ASSUME CaInv, NEW b \in CaBufs, Recycle(b) PROVE Good
<1>1. /\ UNCHANGED <<caState, caBufs, caRender, caSrc, caSeq, caSent, caLook, caEnd, caProfile>>
      /\ caFree' = caFree \cup {b} /\ caBufs[b] # CaNone
  BY Zenon DEF Recycle, caPipe
<1>2. FramesInv' /\ caSent' >= caSent
  BY <1>1, FramesKept, Zenon DEF CaInv
<1>3. BuffersInv'
  BY <1>1, Zenon DEF CaInv, BuffersInv
<1> QED BY <1>1, <1>2, <1>3, Zenon DEF CaInv, Good, Fits

\* A fence that is reached marks its frame; its source is still to run.
LEMMA FenceReachedGood == ASSUME CaInv, NEW i \in Seqs, FenceReached(i) PROVE Good
<1>1. /\ UNCHANGED <<caState, caBufs, caFree, caSrc, caSeq, caSent, caLook, caEnd, caProfile>>
      /\ caRender' = [caRender EXCEPT ![i].done = TRUE] /\ i \in DOMAIN caRender
  BY Zenon DEF FenceReached, caPipe
<1>2. caRender \in Seq(Frame) /\ caSent \in Nat
  BY Zenon DEF CaInv, FramesInv
<1>3. /\ caRender' \in Seq(Frame) /\ DOMAIN caRender' = DOMAIN caRender /\ Len(caRender') = Len(caRender)
      /\ \A j \in DOMAIN caRender : caRender'[j].seq = caRender[j].seq
      /\ \A j \in DOMAIN caRender : ~caRender'[j].done => ~caRender[j].done
  <2>1. \A j \in DOMAIN caRender : caRender[j] \in Frame
    BY <1>2
  <2>2. [caRender[i] EXCEPT !.done = TRUE] \in Frame /\ [caRender[i] EXCEPT !.done = TRUE].seq = caRender[i].seq
        /\ [caRender[i] EXCEPT !.done = TRUE].done
    BY <1>1, <2>1, Zenon DEF Frame
  <2> DEFINE f == [caRender[i] EXCEPT !.done = TRUE]
  <2>3. caRender' = [caRender EXCEPT ![i] = f]
    BY <1>1, Zenon
  <2> HIDE DEF f
  <2>4. f \in Frame /\ f.seq = caRender[i].seq /\ f.done
    BY <2>2, Zenon DEF f
  <2>5. caRender' \in Seq(Frame) /\ DOMAIN caRender' = DOMAIN caRender /\ Len(caRender') = Len(caRender)
    <3>1. Len(caRender) \in Nat /\ caRender \in [1 .. Len(caRender) -> Frame] /\ i \in 1 .. Len(caRender)
      BY <1>1, <1>2
    <3>2. caRender' \in [1 .. Len(caRender) -> Frame]
      BY <2>3, <2>4, <3>1, ZenonT(60)
    <3> QED BY <3>1, <3>2, SMTT(30)
  <2>6. \A j \in DOMAIN caRender : caRender'[j] = IF j = i THEN f ELSE caRender[j]
    BY <1>1, <1>2, <2>3, Zenon
  <2> QED BY <2>4, <2>5, <2>6, Zenon
<1>4. FramesInv'
  <2>1. Numbered(caRender', caSent', caSeq')
    BY <1>1, <1>3, ZenonT(60) DEF CaInv, FramesInv, Numbered
  <2>2. \A j \in DOMAIN caRender' : ~caRender'[j].done => caRender'[j].seq \in caSrc'
    BY <1>1, <1>3 DEF CaInv, FramesInv
  <2>3. 1 \in DOMAIN caRender /\ caRender # <<>>
    BY <1>1, <1>2, SMTT(30)
  <2>4. caEnd' = "no" => caRender'[1].seq \in caSrc'
    BY <1>1, <1>3, <2>3 DEF CaInv, FramesInv
  <2> QED BY <1>1, <1>3, <2>1, <2>2, <2>4, ZenonT(60) DEF CaInv, FramesInv
<1>5. BuffersInv'
  BY <1>1, Zenon DEF CaInv, BuffersInv
<1> QED BY <1>1, <1>2, <1>4, <1>5, SMTT(30) DEF CaInv, Good, Fits

\* The source of a fence queues what is finished, unless the cast is over; what is
\* left begins with a frame that has a source of its own.
LEMMA FenceSourceGood == ASSUME CaInv, NEW n \in Seqs, FenceSource(n) PROVE Good
<1>1. /\ UNCHANGED <<caState, caBufs, caFree, caSeq, caLook, caEnd, caProfile>>
      /\ caSrc' = caSrc \ {n} /\ \A i \in DOMAIN caRender : caRender[i].seq = n => caRender[i].done
  BY Zenon DEF FenceSource, caPipe
<1>2. caRender \in Seq(Frame) /\ caSent \in Nat /\ caSeq \in Nat /\ caSent <= caSeq /\ Numbered(caRender, caSent, caSeq)
  BY Zenon DEF CaInv, FramesInv
<1>3. \A i \in DOMAIN caRender : ~caRender[i].done => caRender[i].seq \in caSrc'
  BY <1>1, Zenon DEF CaInv, FramesInv
<1>4. FramesInv' /\ caSent' >= caSent
  <2>1. CASE caEnd = "no"
    <3>1. queue_completed_buffers(caRender)
      BY <2>1, Zenon DEF FenceSource
    <3>2. /\ caRender' \in Seq(Frame) /\ caSent' \in Nat /\ caSent <= caSent' /\ caSent' <= caSeq
          /\ Numbered(caRender', caSent', caSeq)
          /\ \A i \in DOMAIN caRender' : \E j \in DOMAIN caRender : caRender'[i] = caRender[j]
          /\ caRender' # <<>> => ~caRender'[1].done
      BY <1>2, <3>1, QueueKeepsOrder, ZenonT(60)
    <3>3. \A i \in DOMAIN caRender' : ~caRender'[i].done => caRender'[i].seq \in caSrc'
      BY <1>3, <3>2, ZenonT(60)
    <3>4. caRender' # <<>> => 1 \in DOMAIN caRender'
      BY <3>2, SMTT(30)
    <3> QED BY <1>1, <1>2, <3>2, <3>3, <3>4, Zenon DEF FramesInv
  <2>2. CASE caEnd # "no"
    BY <1>1, <1>2, <1>3, <2>2, SMTT(30) DEF FenceSource, FramesInv
  <2> QED BY <2>1, <2>2, Zenon
<1>5. BuffersInv'
  BY <1>1, Zenon DEF CaInv, BuffersInv
<1> QED BY <1>1, <1>4, <1>5, Zenon DEF CaInv, Good, Fits

\* A redraw of the output draws only when the size is negotiated and enough time
\* has passed.
LEMMA RedrawOutputGood == ASSUME CaInv, RedrawOutput PROVE Good
<1> DEFINE look == [caLook EXCEPT !.queued = FALSE]
<1>1. look \in Look /\ look.size = caLook.size /\ caLook.size \in CaSizes
  BY Zenon DEF CaInv, BuffersInv, Look
<1>2. caEnd = "no" /\ UNCHANGED caProfile
  BY Zenon DEF RedrawOutput
<1>3. \/ Idle(look) /\ UNCHANGED caState
      \/ ensure_size(caLook.size, caOffers) /\ Idle(look)
      \/ ensure_size(caLook.size, caOffers) /\ IsReady(caLook.size) /\ dequeue_buffer_and_render(look)
  BY <1>1, Zenon DEF RedrawOutput
<1> HIDE DEF look
<1>4. CASE Idle(look) /\ UNCHANGED caState
  BY <1>1, <1>2, <1>4, SizeKept, ZenonT(60) DEF Idle
<1>5. CASE ensure_size(caLook.size, caOffers) /\ Idle(look)
  BY <1>1, <1>2, <1>5, SizeKept, EnsureSize, ZenonT(60) DEF Idle
<1>6. CASE ensure_size(caLook.size, caOffers) /\ IsReady(caLook.size) /\ dequeue_buffer_and_render(look)
  BY <1>1, <1>2, <1>6, RenderGood, EnsureSize, ZenonT(60)
<1> QED BY <1>3, <1>4, <1>5, <1>6, ZenonT(60)

\* redraw_cast, for a look at the target of the same size.
LEMMA RedrawCastGood ==
    ASSUME CaInv, caEnd = "no", NEW look \in Look, look.size = caLook.size, NEW offers, redraw_cast(look, offers)
    PROVE  Good
<1>1. UNCHANGED caProfile /\ caLook.size \in CaSizes /\ look.kind \in {"nothing", "output", "window"}
  BY Zenon DEF redraw_cast, CaInv, BuffersInv, Look
<1>2. CASE look.kind = "nothing"
  <2>1. dequeue_buffer_and_clear(look) /\ UNCHANGED caState
    BY <1>2, Zenon DEF redraw_cast
  <2> QED BY <1>1, <1>2, <2>1, ClearGood, ZenonT(60)
<1>3. CASE look.kind = "output"
  <2>1. Idle([look EXCEPT !.queued = TRUE]) /\ UNCHANGED caState
    BY <1>3, Zenon DEF redraw_cast
  <2>2. [look EXCEPT !.queued = TRUE] \in Look
    BY Zenon DEF Look
  <2> QED BY <1>1, <2>1, <2>2, SizeKept, ZenonT(60) DEF Idle
<1>4. CASE look.kind = "window"
  <2>1. /\ ensure_size(look.size, offers)
        /\ IF IsReady(look.size) THEN dequeue_buffer_and_render(look) ELSE Idle(look)
    BY <1>4, Zenon DEF redraw_cast
  <2>2. CASE IsReady(look.size)
    BY <1>1, <2>1, <2>2, RenderGood, EnsureSize, ZenonT(60)
  <2>3. CASE ~IsReady(look.size)
    BY <1>1, <2>1, <2>3, SizeKept, EnsureSize, ZenonT(60) DEF Idle
  <2> QED BY <2>2, <2>3, Zenon
<1> QED BY <1>1, <1>2, <1>3, <1>4, ZenonT(60)

\* Every step of a cast is good.
LEMMA StepGood == ASSUME CaInv, [CaNext]_caVars PROVE Good
<1>1. CASE refresh_mapped_cast_outputs
  BY <1>1, SizeKept, ZenonT(60) DEF refresh_mapped_cast_outputs, CaInv, BuffersInv
<1>2. CASE PwRedraw
  BY <1>2, RedrawCastGood, Zenon DEF PwRedraw, CaInv, BuffersInv
<1>3. CASE Tick
  BY <1>3, SizeKept, ZenonT(60) DEF Tick, caPipe, CaInv, BuffersInv
<1>4. CASE TimerFires
  <2>1. caLook' \in Look
    BY <1>4, Zenon DEF TimerFires, CaInv, BuffersInv, Look
  <2> QED BY <1>4, <2>1, SizeKept, Zenon DEF TimerFires, caPipe
<1>5. ASSUME NEW new \in {"Streaming", "Paused", "Error"}, state_changed(new) PROVE Good
  BY <1>5, SizeKept, Zenon DEF state_changed, CaInv, BuffersInv
<1>6. ASSUME NEW kind \in {"nothing", "window"}, NEW refresh \in BOOLEAN, set_dynamic_cast_target(kind, refresh)
      PROVE  Good
  <2> DEFINE look == [caLook EXCEPT !.kind = kind, !.damage = @ \/ kind # caLook.kind]
  <2>1. look \in Look /\ look.size = caLook.size
    BY Zenon DEF CaInv, BuffersInv, Look
  <2>2. caEnd = "no" /\ redraw_cast(look, set_refresh(refresh))
    BY <1>6, Zenon DEF set_dynamic_cast_target
  <2> HIDE DEF look
  <2> QED BY <2>1, <2>2, RedrawCastGood, Zenon
<1>7. ASSUME NEW size \in CaSizes, CaCommit(size) PROVE Good
  <2>1. caLook' \in Look
    BY <1>7, Zenon DEF CaCommit, CaInv, BuffersInv, Look
  <2> QED BY <1>7, <2>1, SizeKept, ZenonT(60) DEF CaCommit, caPipe
<1>8. CASE UNCHANGED caVars
  BY <1>8, SizeKept, Zenon DEF caVars, caPipe, CaInv, BuffersInv
<1> QED
  BY <1>1, <1>2, <1>3, <1>4, <1>5, <1>6, <1>7, <1>8, ParamChangedGood, AddBufferGood, RecycleGood,
     FenceReachedGood, FenceSourceGood, RedrawOutputGood, ZenonT(60) DEF CaNext

\* A cast begins with nothing lent and nothing rendering.
LEMMA CastBegins == CaInit => CaInv
<1> SUFFICES ASSUME CaInit PROVE CaInv
  BY Zenon
<1> DEFINE least == CHOOSE s \in CaSizes : \A t \in CaSizes : s <= t
<1>1. least \in CaSizes
  BY CaAssumption, LeastElement, Zenon
<1>2. /\ caState = [k |-> "ResizePending", size |-> least] /\ caProfile \in CaProfiles
      /\ caLook = [kind |-> caProfile.target, size |-> least, damage |-> TRUE, queued |-> FALSE]
      /\ caBufs = [b \in CaBufs |-> CaNone] /\ caFree = {} /\ caRender = <<>> /\ caSeq = 0 /\ caSent = 0
  BY ZenonT(60) DEF CaInit
<1> HIDE DEF least
<1>3. FramesInv
  <2>1. Len(caRender) = 0 /\ DOMAIN caRender = {}
    BY <1>2
  <2> QED
    BY <1>2, <2>1, SMTT(30) DEF FramesInv, Numbered
<1>4. caState \in CastState /\ caLook \in Look
  BY <1>1, <1>2, CaAssumption, ZenonT(60) DEF CastState, Look
<1>5. BuffersInv
  BY <1>2, <1>4, Zenon DEF BuffersInv
<1> QED BY <1>2, <1>3, <1>5, ZenonT(60) DEF CaInv

\* The invariant of frames and buffers holds throughout a cast.
THEOREM CastInvariant == CaSpec => []CaInv
<1>1. CaInv /\ [CaNext]_caVars => CaInv'
  BY StepGood, Zenon DEF Good
<1> QED BY <1>1, CastBegins, PTL DEF CaSpec

\* Frames reach PipeWire in the order they were rendered, whichever fence is
\* reached first, for any number of frames, buffers and sizes: caSent only grows.
THEOREM CastFramesInOrder == CaSpec => FramesInOrder
<1>1. CaInv /\ [CaNext]_caVars => caSent' >= caSent
  BY StepGood, Zenon DEF Good
<1> QED BY <1>1, CastInvariant, PTL DEF CaSpec, FramesInOrder

\* A finished frame at the head of rendering_buffers has a source that will queue
\* it: no order of fences leaves frames waiting for ever.
THEOREM NoFrameIsStuck == CaSpec => []NoStuckFrame
<1>1. CaInv => NoStuckFrame
  BY DEF CaInv, FramesInv, NoStuckFrame
<1> QED BY <1>1, CastInvariant, PTL

\* A frame is drawn into a buffer whose dmabuf has the size of the target,
\* whatever PipeWire negotiates and takes back meanwhile.
THEOREM FramesFitBuffers == CaSpec => BufferFitsFrame
<1>1. CaInv /\ [CaNext]_caVars =>
        (caSeq' # caSeq /\ caLook'.kind # "nothing" => \A b \in caFree \ caFree' : caBufs[b] = caLook'.size)
  BY StepGood, Zenon DEF Good, Fits
<1> QED BY <1>1, CastInvariant, PTL DEF CaSpec, BufferFitsFrame

-----------------------------------------------------------------------------
(* Vec::retain: what is left, and where.                                   *)

INSTANCE FiniteSetTheorems

\* Ranks tell the members of a finite set of numbers apart.
LEMMA RanksDiffer ==
    ASSUME NEW keep \in SUBSET Nat, IsFiniteSet(keep), NEW i \in keep, NEW j \in keep, i < j
    PROVE  Rank(keep, i) \in Nat /\ Rank(keep, j) \in Nat /\ Rank(keep, i) < Rank(keep, j)
<1> DEFINE A == {k \in keep : k < i}
           B == {k \in keep : k < j}
<1>1. A \subseteq keep /\ B \subseteq keep /\ A \subseteq B /\ i \in B /\ i \notin A
  <2>1. i \in Nat /\ j \in Nat /\ \A k \in keep : k \in Nat
    BY Zenon
  <2>2. \A k \in keep : k < i => k < j
    BY <2>1, SMTT(30)
  <2>3. ~(i < i)
    BY <2>1, SMTT(30)
  <2> QED
    BY <2>2, <2>3, ZenonT(60)
<1>2. IsFiniteSet(A) /\ IsFiniteSet(B)
  BY <1>1, FS_Subset, ZenonT(60)
<1>3. Cardinality(A) \in Nat /\ Cardinality(B) \in Nat
  BY <1>2, FS_CardinalityType, ZenonT(60)
<1>4. Cardinality(A) < Cardinality(B)
  <2>1. Cardinality(A) <= Cardinality(B) /\ (Cardinality(A) = Cardinality(B) => A = B)
    BY <1>1, <1>2, FS_Subset, ZenonT(60)
  <2> QED
    BY <1>1, <1>3, <2>1, SMTT(30)
<1> QED
  BY <1>3, <1>4, ZenonT(60) DEF Rank

\* Every place of the retained copies is the rank of one of them.
LEMMA RankOnto ==
    ASSUME NEW keep \in SUBSET Nat, IsFiniteSet(keep), NEW n \in 0 .. Cardinality(keep) - 1
    PROVE  \E i \in keep : Rank(keep, i) = n
<1> DEFINE N == Cardinality(keep)
           Bad == {b \in 0 .. N - 1 : \A i \in keep : Rank(keep, i) # b}
<1>0. N \in Nat
  BY FS_CardinalityType, ZenonT(60)
<1> SUFFICES ASSUME Bad # {}
             PROVE  FALSE
  BY ZenonT(60)
<1>1. PICK b \in Bad : \A c \in Bad : b <= c
  <2>1. Bad \in SUBSET Nat
    BY <1>0, SMTT(30)
  <2> HIDE DEF Bad
  <2> QED
    BY <2>1, LeastElement, ZenonT(60)
<1>2. b \in Nat /\ b < N /\ b \in Bad
  BY <1>0, SMTT(30)
<1>3. CASE b = 0
  <2>1. keep # {}
    BY <1>2, FS_EmptySet, SMTT(30)
  <2>2. PICK i \in keep : \A k \in keep : i <= k
    BY <2>1, LeastElement, Zenon
  <2>3. {k \in keep : k < i} = {}
    <3>1. \A k \in keep : k \in Nat /\ i \in Nat
      BY Zenon
    <3>2. \A k \in keep : ~(k < i)
      BY <2>2, <3>1, SMTT(30)
    <3> QED
      BY <3>2, Zenon
  <2>4. Rank(keep, i) = 0
    BY <2>3, FS_EmptySet, Zenon DEF Rank
  <2> QED
    BY <1>1, <1>3, <2>4, Zenon
<1>4. CASE b # 0
  <2>1. b - 1 \in 0 .. N - 1 /\ b - 1 \notin Bad
    BY <1>0, <1>1, <1>2, <1>4, SMTT(30)
  <2>2. PICK i \in keep : Rank(keep, i) = b - 1
    BY <2>1, ZenonT(60)
  <2> DEFINE A == {k \in keep : k < i}
             Upto == A \cup {i}
  <2>3. IsFiniteSet(A) /\ i \notin A /\ Cardinality(A) = b - 1
    <3>1. A \in SUBSET keep /\ i \in Nat
      BY Zenon
    <3>2. IsFiniteSet(A)
      BY <3>1, FS_Subset, ZenonT(60)
    <3>3. i \notin A
      BY <3>1, SMTT(30)
    <3> QED
      BY <2>2, <3>2, <3>3, ZenonT(60) DEF Rank
  <2>4. IsFiniteSet(Upto) /\ Cardinality(Upto) = b
    <3>1. IsFiniteSet(A \cup {i}) /\ Cardinality(A \cup {i}) = Cardinality(A) + 1
      BY <2>3, FS_AddElement, ZenonT(60)
    <3> HIDE DEF A
    <3> QED
      BY <1>2, <2>3, <3>1, SMTT(30)
  <2>5. keep \ Upto # {}
    <3>1. Upto # keep
      BY <1>2, <2>4, SMTT(30)
    <3>2. Upto \subseteq keep
      BY Zenon
    <3> HIDE DEF Upto
    <3> QED
      BY <3>1, <3>2, ZenonT(60)
  <2>6. PICK j \in keep \ Upto : \A k \in keep \ Upto : j <= k
    BY <2>5, LeastElement, ZenonT(60)
  <2>7. {k \in keep : k < j} = Upto
    <3>1. i \in Nat /\ j \in Nat /\ \A k \in keep : k \in Nat
      BY ZenonT(60)
    <3>2. j # i /\ ~(j < i)
      BY <2>6, ZenonT(60)
    <3>3. ASSUME NEW k \in keep
          PROVE  k < j <=> k < i \/ k = i
      <4>1. k \notin Upto => j <= k
        BY <2>6, ZenonT(60)
      <4>2. k \in Upto <=> k < i \/ k = i
        BY Zenon
      <4> HIDE DEF Upto
      <4> QED
        BY <3>1, <3>2, <4>1, <4>2, SMTT(30)
    <3> QED
      BY <3>3, ZenonT(60)
  <2>8. Rank(keep, j) = b
    BY <2>4, <2>7, ZenonT(60) DEF Rank
  <2> QED
    BY <1>1, <2>6, <2>8, ZenonT(60)
<1> QED
  BY <1>3, <1>4, ZenonT(60)

\* Vec::retain keeps exactly what is at the positions to keep, each once and at its rank.
LEMMA RetainFacts ==
    ASSUME NEW S, NEW q \in Seq(S), NEW keep \in SUBSET DOMAIN q
    PROVE  LET r == retain(q, keep) IN
           /\ r \in Seq(S) /\ Len(r) = Cardinality(keep)
           /\ \A j \in DOMAIN r : \E i \in keep : r[j] = q[i] /\ j = Rank(keep, i) + 1
           /\ \A i \in keep : Rank(keep, i) + 1 \in DOMAIN r /\ r[Rank(keep, i) + 1] = q[i]
           /\ \A i \in keep : \E j \in DOMAIN r : r[j] = q[i]
<1> DEFINE N == Cardinality(keep)
           at(j) == CHOOSE i \in keep : Rank(keep, i) = j - 1
           r == retain(q, keep)
<1>1. keep \in SUBSET Nat /\ IsFiniteSet(keep) /\ N \in Nat
  <2>1. DOMAIN q = 1 .. Len(q) /\ Len(q) \in Nat
    BY SMTT(30)
  <2>2. IsFiniteSet(1 .. Len(q))
    BY <2>1, FS_Interval, SMTT(30)
  <2> QED
    BY <2>1, <2>2, FS_Subset, FS_CardinalityType, SMTT(30)
<1>2. ASSUME NEW j \in 1 .. N
      PROVE  at(j) \in keep /\ Rank(keep, at(j)) = j - 1
  <2>1. j - 1 \in 0 .. N - 1
    BY <1>1, SMTT(30)
  <2>2. \E i \in keep : Rank(keep, i) = j - 1
    BY <1>1, <2>1, RankOnto, ZenonT(60)
  <2> QED
    BY <2>2, Zenon
<1>3. r = [j \in 1 .. N |-> q[at(j)]]
  BY ZenonT(60) DEF retain
<1>4. ASSUME NEW i \in keep
      PROVE  Rank(keep, i) + 1 \in 1 .. N /\ at(Rank(keep, i) + 1) = i
  <2> DEFINE A == {k \in keep : k < i}
             n == Rank(keep, i)
  <2>1. IsFiniteSet(A) /\ A \subseteq keep /\ A # keep
    BY <1>1, FS_Subset, SMTT(30)
  <2>2. Cardinality(A) \in Nat /\ Cardinality(A) < N
    BY <1>1, <2>1, FS_Subset, FS_CardinalityType, SMTT(30)
  <2>3. n \in Nat /\ n + 1 \in 1 .. N
    BY <1>1, <2>2, SMTT(30) DEF Rank
  <2>4. at(n + 1) \in keep /\ Rank(keep, at(n + 1)) = n
    BY <1>2, <2>3, SMTT(30)
  <2> HIDE DEF at
  <2>5. at(n + 1) \in Nat /\ i \in Nat
    BY <1>1, <2>4, ZenonT(60)
  <2>6. ~(at(n + 1) < i) /\ ~(i < at(n + 1))
    BY <1>1, <2>4, RanksDiffer, SMTT(30)
  <2> QED
    BY <2>3, <2>5, <2>6, SMTT(30)
<1> HIDE DEF at
<1>5. \A j \in 1 .. N : at(j) \in keep /\ q[at(j)] \in S /\ j = Rank(keep, at(j)) + 1
  BY <1>1, <1>2, SMTT(30)
<1>6. r \in Seq(S) /\ DOMAIN r = 1 .. N /\ Len(r) = N
  <2>1. r \in [1 .. N -> S]
    BY <1>3, <1>5, ZenonT(60)
  <2> HIDE DEF r, N
  <2> QED
    BY <1>1, <2>1, SMTT(30)
<1>7. \A j \in DOMAIN r : \E i \in keep : r[j] = q[i] /\ j = Rank(keep, i) + 1
  BY <1>3, <1>5, <1>6, ZenonT(60)
<1>8. \A i \in keep : Rank(keep, i) + 1 \in DOMAIN r /\ r[Rank(keep, i) + 1] = q[i]
  BY <1>3, <1>4, <1>6, ZenonT(60)
<1> QED
  BY <1>6, <1>7, <1>8, ZenonT(60)

-----------------------------------------------------------------------------
(* Screencopy: an output that goes away, and the theorems.                *)

\* The removal of an output: what waits for it fails, what else waits goes on waiting.
LEMMA RemoveOutputStep ==
    ASSUME SyInv, NEW o \in SyOutputs, sy_remove_output(o)
    PROVE  SyInv'
<1> DEFINE Fails(f) == syFrame[f].o = o /\ \E m \in SyManagers : Queued(m, f)
           Keep(m) == {i \in DOMAIN syQueues[m] : syFrame[syQueues[m][i]].o # o}
<1>0. /\ UNCHANGED <<syAlive, syFence>> /\ DOMAIN syQueues' = SyManagers /\ DOMAIN syFrame' = SyFrames
      /\ \A m \in SyManagers : syQueues'[m] = IF syQueues[m] = SyNone THEN SyNone ELSE retain(syQueues[m], Keep(m))
      /\ \A f \in SyFrames : syFrame'[f] = IF Fails(f) THEN DropFailed(syFrame[f]) ELSE syFrame[f]
  BY ZenonT(60) DEF sy_remove_output
<1>1. \A f \in SyFrames : Fails(f) => syFrame[f].st = "copied" /\ f \notin syFence
  BY QueuedFrames, ZenonT(60)
<1>2. \A f \in SyFrames : Fails(f) => AnswerState(syFrame'[f]) /\ syFrame'[f].st = "done"
  <2> SUFFICES ASSUME NEW f \in SyFrames, Fails(f)
               PROVE  AnswerState(syFrame'[f]) /\ syFrame'[f].st = "done"
    BY Zenon
  <2>1. AnswerState(syFrame[f]) /\ syFrame[f].st = "copied"
    BY <1>1, ZenonT(60) DEF SyInv
  <2>2. AnswerState(DropFailed(syFrame[f])) /\ DropFailed(syFrame[f]).st = "done"
    BY <2>1, Answers, ZenonT(60)
  <2> QED
    BY <1>0, <2>2, ZenonT(60)
<1>3. ASSUME NEW m \in SyManagers, syQueues[m] # SyNone
      PROVE  /\ syQueues'[m] # SyNone /\ QueueGood(m)'
             /\ \A f \in SyFrames : Queued(m, f) /\ syFrame[f].o # o => Queued(m, f)'
  <2>0. PICK q : q = syQueues[m]
    BY Zenon
  <2>1. q \in Seq(SyFrames) /\ QueueGood(m) /\ q # SyNone
    BY <1>3, <2>0, ZenonT(60) DEF SyInv, QueueGood
  <2>2. PICK keep : keep = Keep(m)
    BY ZenonT(60)
  <2>3. keep \subseteq DOMAIN q /\ \A i \in DOMAIN q : i \in keep <=> syFrame[q[i]].o # o
    BY <2>0, <2>2, ZenonT(60)
  <2>4. PICK r : r = retain(q, keep)
    BY Zenon
  <2>5. /\ r \in Seq(SyFrames)
        /\ \A j \in DOMAIN r : \E i \in keep : r[j] = q[i] /\ j = Rank(keep, i) + 1
        /\ \A i \in keep : \E j \in DOMAIN r : r[j] = q[i]
    BY <2>1, <2>3, <2>4, RetainFacts, SMTT(30)
  <2>6. syQueues'[m] = r /\ r # SyNone
    BY <1>0, <1>3, <2>0, <2>2, <2>4, <2>5, SyAssumption, Zenon
  <2>7. \A i \in keep : /\ q[i] \in SyFrames /\ Queued(m, q[i]) /\ syFrame'[q[i]] = syFrame[q[i]]
                        /\ syFrame[q[i]].st = "copied" /\ syFrame[q[i]].m = m /\ q[i] \notin syFence
    <3> SUFFICES ASSUME NEW i \in keep
                 PROVE  /\ q[i] \in SyFrames /\ Queued(m, q[i]) /\ syFrame'[q[i]] = syFrame[q[i]]
                        /\ syFrame[q[i]].st = "copied" /\ syFrame[q[i]].m = m /\ q[i] \notin syFence
      BY Zenon
    <3>1. i \in DOMAIN q /\ q[i] \in SyFrames /\ syFrame[q[i]].o # o
      BY <2>1, <2>3, SMTT(30)
    <3>2. Queued(m, q[i])
      BY <2>0, <2>1, <3>1, ZenonT(60) DEF Queued
    <3>3. syFrame'[q[i]] = syFrame[q[i]]
      BY <1>0, <3>1, ZenonT(60)
    <3> QED
      BY <3>1, <3>2, <3>3, QueuedFrames, Zenon
  <2>8. \A j \in DOMAIN r : syFrame'[r[j]].st = "copied" /\ syFrame'[r[j]].m = m /\ r[j] \notin syFence'
    BY <1>0, <2>5, <2>7, SMTT(30)
  <2>9. ASSUME NEW j \in DOMAIN r, NEW k \in DOMAIN r, r[j] = r[k]
        PROVE  j = k
    <3>1. PICK a \in keep : r[j] = q[a] /\ j = Rank(keep, a) + 1
      BY <2>5, Zenon
    <3>2. PICK b \in keep : r[k] = q[b] /\ k = Rank(keep, b) + 1
      BY <2>5, Zenon
    <3>3. a = b
      BY <2>0, <2>1, <2>3, <2>9, <3>1, <3>2, Zenon DEF QueueGood
    <3> QED
      BY <3>1, <3>2, <3>3, Zenon
  <2>10. QueueGood(m)'
    BY <2>5, <2>6, <2>8, <2>9, ZenonT(60) DEF QueueGood
  <2>11. ASSUME NEW f \in SyFrames, Queued(m, f), syFrame[f].o # o
         PROVE  Queued(m, f)'
    <3>1. PICK i \in DOMAIN q : q[i] = f
      BY <2>0, <2>11, ZenonT(60) DEF Queued
    <3>2. i \in keep
      BY <2>3, <2>11, <3>1, ZenonT(60)
    <3>3. \E j \in DOMAIN r : r[j] = f
      BY <2>5, <3>1, <3>2, ZenonT(60)
    <3> QED
      BY <2>6, <3>3, ZenonT(60) DEF Queued
  <2> QED
    BY <2>6, <2>10, <2>11, ZenonT(60)
<1>4. \A m \in SyManagers : QueueGood(m)'
  <2> SUFFICES ASSUME NEW m \in SyManagers, syQueues[m] = SyNone
               PROVE  QueueGood(m)'
    BY <1>3, ZenonT(60)
  <2> QED
    BY <1>0, ZenonT(60) DEF QueueGood
<1>5. LiveManagerHasQueue' /\ syAlive' \subseteq SyManagers
  BY <1>0, <1>3, ZenonT(60) DEF SyInv, LiveManagerHasQueue
<1>6. \A g \in SyFrames : syFrame'[g].st = "copied" => g \in syFence' \/ \E k \in SyManagers : Queued(k, g)'
  <2> SUFFICES ASSUME NEW g \in SyFrames, syFrame'[g].st = "copied"
               PROVE  g \in syFence' \/ \E k \in SyManagers : Queued(k, g)'
    BY ZenonT(60)
  <2>1. ~Fails(g)
    BY <1>2, ZenonT(60)
  <2>2. g \in syFence \/ \E k \in SyManagers : Queued(k, g)
    BY <1>0, <2>1, ZenonT(60) DEF SyInv
  <2>3. ASSUME NEW k \in SyManagers, Queued(k, g)
        PROVE  Queued(k, g)'
    BY <1>3, <2>1, <2>3, ZenonT(60) DEF Queued
  <2> QED
    BY <1>0, <2>2, <2>3, ZenonT(60)
<1>7. \A g \in syFence' : g \in SyFrames /\ syFrame'[g].st = "copied"
  BY <1>0, <1>1, ZenonT(60) DEF SyInv
<1>8. \A g \in SyFrames : AnswerState(syFrame'[g]) /\ (syFrame'[g].st \in {"pending", "copied"} => syFrame'[g].m \in SyManagers)
  <2> HIDE DEF Fails
  <2> QED
    BY <1>0, <1>2, ZenonT(60) DEF SyInv
<1> QED
  BY <1>0, <1>4, <1>5, <1>6, <1>7, <1>8, ZenonT(60) DEF SyInv, AnswerState

\* Every step of screencopy keeps the invariant.
LEMMA SyStepInv ==
    ASSUME SyInv, [SyNext]_syVars
    PROVE  SyInv'
<1>1. CASE UNCHANGED syVars
  <2>1. \A m : (QueueGood(m)' <=> QueueGood(m)) /\ \A f : Queued(m, f)' <=> Queued(m, f)
    BY <1>1, ZenonT(60) DEF syVars, QueueGood, Queued
  <2> QED
    BY <1>1, <2>1, ZenonT(60) DEF syVars, SyInv, AnswerState, LiveManagerHasQueue
<1> QED
  BY <1>1, ManagerStep, CaptureStep, CopyNowStep, CopyWithDamageStep, SyncPointStep, ServeQueueStep, RemoveOutputStep, ZenonT(60) DEF SyNext

\* The inductive invariant of screencopy holds throughout, for any outputs, managers and
\* frames.
THEOREM SyInductive == SySpec => []SyInv
<1> QED
  BY SyInitInv, SyStepInv, PTL DEF SySpec

\* Every frame is told ready or failed at most once, whichever of the immediate copy, the
\* queue, the fence and the removal of its output comes to it (Drop for Screencopy).
THEOREM FramesAnsweredOnce == SySpec => []AnsweredAtMostOnce
<1>1. SyInv => AnsweredAtMostOnce
  BY ZenonT(60) DEF SyInv, AnsweredAtMostOnce, AnswerState
<1> QED
  BY <1>1, SyInductive, PTL

\* A manager that a client holds keeps its queue: the clean-up in bind takes no other.
THEOREM ManagersKeepQueues == SySpec => []LiveManagerHasQueue
<1>1. SyInv => LiveManagerHasQueue
  BY ZenonT(60) DEF SyInv
<1> QED
  BY <1>1, SyInductive, PTL

\* A copy that was asked for and not answered waits in one place of one queue or for its
\* fence, and nothing else does: no copy is lost and none is served twice.
THEOREM CopiesAreAccounted == SySpec => []CopiesAccounted
<1>1. ASSUME SyInv
      PROVE  CopiesAccounted
  <2> SUFFICES ASSUME NEW f \in SyFrames
               PROVE  /\ syFrame[f].st = "copied" <=> f \in syFence \/ \E m \in SyManagers : Queued(m, f)
                      /\ \A m, n \in SyManagers : Queued(m, f) /\ Queued(n, f) => m = n /\ f \notin syFence
                      /\ \A m \in SyManagers : Queued(m, f) =>
                            \A i, j \in DOMAIN syQueues[m] : syQueues[m][i] = f /\ syQueues[m][j] = f => i = j
    BY Zenon DEF CopiesAccounted
  <2>1. syFrame[f].st = "copied" <=> f \in syFence \/ \E m \in SyManagers : Queued(m, f)
    BY <1>1, QueuedFrames, ZenonT(60) DEF SyInv
  <2>2. \A m, n \in SyManagers : Queued(m, f) /\ Queued(n, f) => m = n /\ f \notin syFence
    BY <1>1, QueuedFrames, ZenonT(60)
  <2>3. \A m \in SyManagers : Queued(m, f) =>
            \A i, j \in DOMAIN syQueues[m] : syQueues[m][i] = f /\ syQueues[m][j] = f => i = j
    BY <1>1 DEF SyInv, QueueGood, Queued
  <2> QED
    BY <2>1, <2>2, <2>3, ZenonT(60)
<1> QED
  BY <1>1, SyInductive, PTL

=============================================================================
