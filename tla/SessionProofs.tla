---------------------------- MODULE SessionProofs ---------------------------
(***************************************************************************)
(* The safety of the session lock, for any outputs, any lockers and any    *)
(* backend: the invariants of SessionLock hold in every reachable state,   *)
(* and only the holder unlocks.                                            *)
(*                                                                         *)
(* The window switcher, for any windows, apps and places: what is selected *)
(* is among the windows shown.                                             *)
(***************************************************************************)
EXTENDS SessionLock, Mru, TLAPS

\* lock_state carries a lock object exactly while the session is not unlocked,
\* and an object that was not answered yet is that one.
HolderTold ==
    /\ holder = None <=> lockState = "Unlocked"
    /\ \A l \in Lockers :
         /\ obj[l] = "pending" => l = holder /\ lockState \in {"WaitingForSurfaces", "Locking"}
         /\ obj[l] = "finished" => l # holder

\* The recent-windows UI is open only on a connected output.
MruOnConnectedOutput == mruOutput # None => mruOutput \in outputs

\* The inductive invariant.
IInv ==
    /\ TypeOK
    /\ HolderTold
    /\ MruOnConnectedOutput
    /\ LockedOnlyWhenBlanked
    /\ LockingHasWorkQueued
    /\ LockedClientHoldsSession
    /\ DeadlineOnlyWhileWaiting
    /\ OverlaysClosedWhenLocked

USE NoneAssumption, RenderResultsAssumption

\* Queueing a redraw of some outputs keeps the redraw states well typed and
\* queues exactly those outputs more.
LEMMA QueueRedrawFacts ==
    ASSUME TypeOK, NEW S
    PROVE  /\ QueueRedraw(S) \in [Outputs -> {"Idle", "Queued"}]
           /\ \A o \in Outputs : QueueRedraw(S)[o] =
                                    IF o \in S THEN "Queued" ELSE redrawState[o]
BY ZenonT(60) DEF QueueRedraw, TypeOK

\* Niri::new starts in a state that satisfies the inductive invariant.
LEMMA InitIInv == Init => IInv
<1> SUFFICES ASSUME Init PROVE IInv
  BY Zenon
<1> USE DEF Init
<1>1. TypeOK
  BY Zenon DEF TypeOK, LockStates, Frames
<1>2. HolderTold
  BY Zenon DEF HolderTold
<1>3. MruOnConnectedOutput
  BY Zenon DEF MruOnConnectedOutput
<1>4. LockedOnlyWhenBlanked
  BY Zenon DEF LockedOnlyWhenBlanked
<1>5. LockingHasWorkQueued
  BY Zenon DEF LockingHasWorkQueued
<1>6. LockedClientHoldsSession
  BY Zenon DEF LockedClientHoldsSession
<1>7. DeadlineOnlyWhileWaiting
  BY Zenon DEF DeadlineOnlyWhileWaiting
<1>8. OverlaysClosedWhenLocked
  BY Zenon DEF OverlaysClosedWhenLocked, IsLocked
<1> QED
  BY <1>1, <1>2, <1>3, <1>4, <1>5, <1>6, <1>7, <1>8, Zenon DEF IInv

\* A client asking for the lock, accepted or refused, preserves the invariant.
LEMMA LockStep == ASSUME IInv, NEW l \in Lockers, Lock(l) PROVE IInv'
<1> USE DEF IInv, Lock, RefusesLock, ArmDeadline, outVars, lockVars
<1>1. TypeOK'
  BY ZenonT(60) DEF TypeOK, LockStates, Frames, Surfaces
<1>2. HolderTold'
  BY DEF HolderTold, TypeOK
<1>3. MruOnConnectedOutput'
  BY Zenon DEF MruOnConnectedOutput
<1>4. LockedOnlyWhenBlanked'
  BY Zenon DEF LockedOnlyWhenBlanked, TypeOK
<1>5. LockingHasWorkQueued'
  BY Zenon DEF LockingHasWorkQueued, TypeOK
<1>6. LockedClientHoldsSession'
  BY DEF LockedClientHoldsSession, HolderTold, TypeOK
<1>7. DeadlineOnlyWhileWaiting'
  BY DEF DeadlineOnlyWhileWaiting
<1>8. OverlaysClosedWhenLocked'
  BY Zenon DEF OverlaysClosedWhenLocked, IsLocked, MruOnConnectedOutput
<1> QED
  BY <1>1, <1>2, <1>3, <1>4, <1>5, <1>6, <1>7, <1>8, Zenon DEF IInv

\* Creating a lock surface preserves the invariant.
LEMMA NewLockSurfaceStep == ASSUME IInv, NEW l \in Lockers, NEW o \in Outputs, NewLockSurface(l, o) PROVE IInv'
<1> USE DEF IInv, NewLockSurface, lockVars, uiVars
<1>1. TypeOK'
  BY ZenonT(60) DEF TypeOK, LockStates, Frames, Surfaces
<1>2. HolderTold'
  BY Zenon DEF HolderTold, TypeOK
<1>3. MruOnConnectedOutput'
  BY Zenon DEF MruOnConnectedOutput
<1>4. LockedOnlyWhenBlanked'
  BY Zenon DEF LockedOnlyWhenBlanked, TypeOK
<1>5. LockingHasWorkQueued'
  BY Zenon DEF LockingHasWorkQueued, TypeOK
<1>6. LockedClientHoldsSession'
  BY Zenon DEF LockedClientHoldsSession, HolderTold, TypeOK
<1>7. DeadlineOnlyWhileWaiting'
  BY Zenon DEF DeadlineOnlyWhileWaiting
<1>8. OverlaysClosedWhenLocked'
  BY Zenon DEF OverlaysClosedWhenLocked, IsLocked, MruOnConnectedOutput
<1> QED
  BY <1>1, <1>2, <1>3, <1>4, <1>5, <1>6, <1>7, <1>8, Zenon DEF IInv

\* A commit to a lock surface, which may start the locking, preserves the
\* invariant.
LEMMA CommitLockSurfaceStep == ASSUME IInv, NEW o \in Outputs, CommitLockSurface(o) PROVE IInv'
<1> USE DEF IInv, CommitLockSurface, ContinueToLocking, Confirm, uiVars, lockVars
<1> USE QueueRedrawFacts
<1>1. TypeOK'
  <2>1. redrawState' \in [Outputs -> {"Idle", "Queued"}]
    BY SMTT(30) DEF TypeOK
  <2>2. obj' \in [Lockers -> {"free", "pending", "locked", "finished"}]
    BY SMTT(30) DEF TypeOK
  <2>3. lockSurface' \in [Outputs -> Surfaces \cup {None}]
    BY SMTT(30) DEF TypeOK, Surfaces
  <2>4. lockState' \in LockStates /\ holder' \in Lockers \cup {None}
    BY SMTT(30) DEF TypeOK, LockStates
  <2>5. mruOutput' \in Outputs \cup {None}
    BY DEF TypeOK
  <2>6. deadline' \in BOOLEAN
    BY Zenon DEF TypeOK
  <2>7. screenshotOpen' \in BOOLEAN
    BY Zenon DEF TypeOK
  <2> QED
    BY <2>1, <2>2, <2>3, <2>4, <2>5, <2>6, <2>7, ZenonT(60) DEF TypeOK
<1>2. HolderTold'
  BY DEF HolderTold, TypeOK
<1>3. MruOnConnectedOutput'
  BY ZenonT(60) DEF MruOnConnectedOutput
<1>4. LockedOnlyWhenBlanked'
  BY Zenon DEF LockedOnlyWhenBlanked, TypeOK
<1>5. LockingHasWorkQueued'
  BY DEF LockingHasWorkQueued, TypeOK
<1>6. LockedClientHoldsSession'
  BY ZenonT(60) DEF LockedClientHoldsSession, HolderTold, TypeOK
<1>7. DeadlineOnlyWhileWaiting'
  BY DEF DeadlineOnlyWhileWaiting
<1>8. OverlaysClosedWhenLocked'
  BY Zenon DEF OverlaysClosedWhenLocked, IsLocked, MruOnConnectedOutput
<1> QED
  BY <1>1, <1>2, <1>3, <1>4, <1>5, <1>6, <1>7, <1>8, Zenon DEF IInv

\* The expiry of the deadline preserves the invariant.
LEMMA DeadlineExpiresStep == ASSUME IInv, DeadlineExpires PROVE IInv'
<1> USE DEF IInv, DeadlineExpires, ContinueToLocking, Confirm, uiVars, lockVars
<1> USE QueueRedrawFacts
<1>1. TypeOK'
  <2>1. redrawState' \in [Outputs -> {"Idle", "Queued"}]
    BY DEF TypeOK
  <2>2. obj' \in [Lockers -> {"free", "pending", "locked", "finished"}]
    BY DEF TypeOK
  <2>3. lockSurface' \in [Outputs -> Surfaces \cup {None}]
    BY Zenon DEF TypeOK, Surfaces
  <2>4. lockState' \in LockStates /\ holder' \in Lockers \cup {None}
    BY DEF TypeOK, LockStates
  <2>5. mruOutput' \in Outputs \cup {None}
    BY DEF TypeOK
  <2>6. deadline' \in BOOLEAN
    BY Zenon DEF TypeOK
  <2>7. screenshotOpen' \in BOOLEAN
    BY Zenon DEF TypeOK
  <2> QED
    BY <2>1, <2>2, <2>3, <2>4, <2>5, <2>6, <2>7, ZenonT(60) DEF TypeOK
<1>2. HolderTold'
  BY DEF HolderTold, TypeOK
<1>3. MruOnConnectedOutput'
  BY ZenonT(60) DEF MruOnConnectedOutput
<1>4. LockedOnlyWhenBlanked'
  BY Zenon DEF LockedOnlyWhenBlanked, TypeOK
<1>5. LockingHasWorkQueued'
  BY DEF LockingHasWorkQueued, TypeOK
<1>6. LockedClientHoldsSession'
  BY DEF LockedClientHoldsSession, HolderTold, TypeOK
<1>7. DeadlineOnlyWhileWaiting'
  BY Zenon DEF DeadlineOnlyWhileWaiting
<1>8. OverlaysClosedWhenLocked'
  BY Zenon DEF OverlaysClosedWhenLocked, IsLocked, MruOnConnectedOutput
<1> QED
  BY <1>1, <1>2, <1>3, <1>4, <1>5, <1>6, <1>7, <1>8, Zenon DEF IInv

\* Unlocking preserves the invariant.
LEMMA UnlockStep == ASSUME IInv, NEW l \in Lockers, Unlock(l) PROVE IInv'
<1> USE DEF IInv, Unlock, uiVars, lockVars
<1> USE QueueRedrawFacts
<1>1. TypeOK'
  BY Zenon DEF TypeOK, LockStates, Frames, Surfaces
<1>2. HolderTold'
  BY DEF HolderTold, TypeOK, LockedClientHoldsSession
<1>3. MruOnConnectedOutput'
  BY Zenon DEF MruOnConnectedOutput
<1>4. LockedOnlyWhenBlanked'
  BY Zenon DEF LockedOnlyWhenBlanked, TypeOK
<1>5. LockingHasWorkQueued'
  BY Zenon DEF LockingHasWorkQueued, TypeOK
<1>6. LockedClientHoldsSession'
  BY DEF LockedClientHoldsSession, HolderTold, TypeOK
<1>7. DeadlineOnlyWhileWaiting'
  BY Zenon DEF DeadlineOnlyWhileWaiting
<1>8. OverlaysClosedWhenLocked'
  BY Zenon DEF OverlaysClosedWhenLocked, IsLocked, MruOnConnectedOutput
<1> QED
  BY <1>1, <1>2, <1>3, <1>4, <1>5, <1>6, <1>7, <1>8, Zenon DEF IInv

\* Destroying a lock object preserves the invariant.
LEMMA DestroyLockStep == ASSUME IInv, NEW l \in Lockers, DestroyLock(l) PROVE IInv'
<1> USE DEF IInv, DestroyLock, outVars, uiVars, lockVars
<1>1. TypeOK'
  BY ZenonT(60) DEF TypeOK, LockStates, Frames, Surfaces
<1>2. HolderTold'
  BY Zenon DEF HolderTold, TypeOK
<1>3. MruOnConnectedOutput'
  BY Zenon DEF MruOnConnectedOutput
<1>4. LockedOnlyWhenBlanked'
  BY Zenon DEF LockedOnlyWhenBlanked, TypeOK
<1>5. LockingHasWorkQueued'
  BY Zenon DEF LockingHasWorkQueued, TypeOK
<1>6. LockedClientHoldsSession'
  BY ZenonT(60) DEF LockedClientHoldsSession, HolderTold, TypeOK
<1>7. DeadlineOnlyWhileWaiting'
  BY Zenon DEF DeadlineOnlyWhileWaiting
<1>8. OverlaysClosedWhenLocked'
  BY Zenon DEF OverlaysClosedWhenLocked, IsLocked, MruOnConnectedOutput
<1> QED
  BY <1>1, <1>2, <1>3, <1>4, <1>5, <1>6, <1>7, <1>8, Zenon DEF IInv

\* The death of a client preserves the invariant.
LEMMA ClientDiesStep == ASSUME IInv, NEW l \in Lockers, ClientDies(l) PROVE IInv'
<1> USE DEF IInv, ClientDies, uiVars, lockVars
<1>1. TypeOK'
  BY ZenonT(60) DEF TypeOK, LockStates, Frames, Surfaces
<1>2. HolderTold'
  BY Zenon DEF HolderTold, TypeOK
<1>3. MruOnConnectedOutput'
  BY Zenon DEF MruOnConnectedOutput
<1>4. LockedOnlyWhenBlanked'
  BY Zenon DEF LockedOnlyWhenBlanked, TypeOK
<1>5. LockingHasWorkQueued'
  BY Zenon DEF LockingHasWorkQueued, TypeOK
<1>6. LockedClientHoldsSession'
  BY ZenonT(60) DEF LockedClientHoldsSession, HolderTold, TypeOK
<1>7. DeadlineOnlyWhileWaiting'
  BY Zenon DEF DeadlineOnlyWhileWaiting
<1>8. OverlaysClosedWhenLocked'
  BY Zenon DEF OverlaysClosedWhenLocked, IsLocked, MruOnConnectedOutput
<1> QED
  BY <1>1, <1>2, <1>3, <1>4, <1>5, <1>6, <1>7, <1>8, Zenon DEF IInv

\* Connecting an output preserves the invariant.
LEMMA AddOutputStep == ASSUME IInv, NEW o \in Outputs, NEW moved \in SUBSET Outputs, AddOutput(o, moved) PROVE IInv'
<1> USE DEF IInv, AddOutput, NewLockRender, uiVars, lockVars
<1> USE QueueRedrawFacts
<1>1. TypeOK'
  BY DEF TypeOK, LockStates, Frames, Surfaces
<1>2. HolderTold'
  BY Zenon DEF HolderTold, TypeOK
<1>3. MruOnConnectedOutput'
  BY Zenon DEF MruOnConnectedOutput
<1>4. LockedOnlyWhenBlanked'
  BY DEF LockedOnlyWhenBlanked, IsLocked, TypeOK
<1>5. LockingHasWorkQueued'
  BY DEF LockingHasWorkQueued, TypeOK
<1>6. LockedClientHoldsSession'
  BY Zenon DEF LockedClientHoldsSession, HolderTold, TypeOK
<1>7. DeadlineOnlyWhileWaiting'
  BY Zenon DEF DeadlineOnlyWhileWaiting
<1>8. OverlaysClosedWhenLocked'
  BY Zenon DEF OverlaysClosedWhenLocked, IsLocked, MruOnConnectedOutput
<1> QED
  BY <1>1, <1>2, <1>3, <1>4, <1>5, <1>6, <1>7, <1>8, Zenon DEF IInv

\* Disconnecting an output, which may complete the locking, preserves the
\* invariant.
LEMMA RemoveOutputStep == ASSUME IInv, NEW o \in Outputs, NEW moved \in SUBSET Outputs, RemoveOutput(o, moved) PROVE IInv'
<1> USE DEF IInv, RemoveOutput, KeepLockState, Confirm, lockVars
<1> USE QueueRedrawFacts
<1>1. TypeOK'
  <2>1. redrawState' \in [Outputs -> {"Idle", "Queued"}]
    BY SMTT(30) DEF TypeOK
  <2>2. obj' \in [Lockers -> {"free", "pending", "locked", "finished"}]
    BY DEF TypeOK
  <2>3. lockSurface' \in [Outputs -> Surfaces \cup {None}]
    BY Zenon DEF TypeOK, Surfaces
  <2>4. lockState' \in LockStates /\ holder' \in Lockers \cup {None}
    BY DEF TypeOK, LockStates
  <2>5. mruOutput' \in Outputs \cup {None}
    BY Zenon DEF TypeOK
  <2>6. deadline' \in BOOLEAN
    BY Zenon DEF TypeOK
  <2>7. screenshotOpen' \in BOOLEAN
    BY Zenon DEF TypeOK
  <2>8. outputs' \subseteq Outputs /\ monitorsActive' \in BOOLEAN /\ phase' = phase
    BY Zenon DEF TypeOK
  <2>9. /\ lockRender' \in [Outputs -> {"Unlocked", "Locked"}]
        /\ shown' \in [Outputs -> Frames]
    BY Zenon DEF TypeOK, Frames
  <2> QED
    BY <2>1, <2>2, <2>3, <2>4, <2>5, <2>6, <2>7, <2>8, <2>9, Zenon DEF TypeOK
<1>2. HolderTold'
  BY DEF HolderTold, TypeOK
<1>3. MruOnConnectedOutput'
  BY Zenon DEF MruOnConnectedOutput
<1>4. LockedOnlyWhenBlanked'
  BY Zenon DEF LockedOnlyWhenBlanked, TypeOK
<1>5. LockingHasWorkQueued'
  BY SMTT(30) DEF LockingHasWorkQueued, TypeOK
<1>6. LockedClientHoldsSession'
  BY DEF LockedClientHoldsSession, HolderTold, TypeOK
<1>7. DeadlineOnlyWhileWaiting'
  BY DEF DeadlineOnlyWhileWaiting
<1>8. OverlaysClosedWhenLocked'
  BY Zenon DEF OverlaysClosedWhenLocked, IsLocked, MruOnConnectedOutput
<1> QED
  BY <1>1, <1>2, <1>3, <1>4, <1>5, <1>6, <1>7, <1>8, Zenon DEF IInv

\* Queueing a redraw preserves the invariant.
LEMMA DamageOutputStep == ASSUME IInv, NEW o \in Outputs, DamageOutput(o) PROVE IInv'
<1> USE DEF IInv, DamageOutput, uiVars, lockVars
<1> USE QueueRedrawFacts
<1>1. TypeOK'
  BY ZenonT(60) DEF TypeOK, LockStates, Frames, Surfaces
<1>2. HolderTold'
  BY Zenon DEF HolderTold, TypeOK
<1>3. MruOnConnectedOutput'
  BY Zenon DEF MruOnConnectedOutput
<1>4. LockedOnlyWhenBlanked'
  BY Zenon DEF LockedOnlyWhenBlanked, TypeOK
<1>5. LockingHasWorkQueued'
  BY DEF LockingHasWorkQueued, TypeOK
<1>6. LockedClientHoldsSession'
  BY Zenon DEF LockedClientHoldsSession, HolderTold, TypeOK
<1>7. DeadlineOnlyWhileWaiting'
  BY Zenon DEF DeadlineOnlyWhileWaiting
<1>8. OverlaysClosedWhenLocked'
  BY Zenon DEF OverlaysClosedWhenLocked, IsLocked, MruOnConnectedOutput
<1> QED
  BY <1>1, <1>2, <1>3, <1>4, <1>5, <1>6, <1>7, <1>8, Zenon DEF IInv

\* Powering the monitors off preserves the invariant.
LEMMA DeactivateMonitorsStep == ASSUME IInv, DeactivateMonitors PROVE IInv'
<1> USE DEF IInv, DeactivateMonitors, outVars, uiVars, lockVars
<1>1. TypeOK'
  BY Zenon DEF TypeOK, LockStates, Frames, Surfaces
<1>2. HolderTold'
  BY Zenon DEF HolderTold, TypeOK
<1>3. MruOnConnectedOutput'
  BY Zenon DEF MruOnConnectedOutput
<1>4. LockedOnlyWhenBlanked'
  BY Zenon DEF LockedOnlyWhenBlanked, TypeOK
<1>5. LockingHasWorkQueued'
  BY Zenon DEF LockingHasWorkQueued, TypeOK
<1>6. LockedClientHoldsSession'
  BY Zenon DEF LockedClientHoldsSession, HolderTold, TypeOK
<1>7. DeadlineOnlyWhileWaiting'
  BY Zenon DEF DeadlineOnlyWhileWaiting
<1>8. OverlaysClosedWhenLocked'
  BY Zenon DEF OverlaysClosedWhenLocked, IsLocked, MruOnConnectedOutput
<1> QED
  BY <1>1, <1>2, <1>3, <1>4, <1>5, <1>6, <1>7, <1>8, Zenon DEF IInv

\* Powering the monitors on preserves the invariant.
LEMMA ActivateMonitorsStep == ASSUME IInv, ActivateMonitors PROVE IInv'
<1> USE DEF IInv, ActivateMonitors, uiVars, lockVars
<1> USE QueueRedrawFacts
<1>1. TypeOK'
  BY ZenonT(60) DEF TypeOK, LockStates, Frames, Surfaces
<1>2. HolderTold'
  BY Zenon DEF HolderTold, TypeOK
<1>3. MruOnConnectedOutput'
  BY Zenon DEF MruOnConnectedOutput
<1>4. LockedOnlyWhenBlanked'
  BY Zenon DEF LockedOnlyWhenBlanked, TypeOK
<1>5. LockingHasWorkQueued'
  BY ZenonT(60) DEF LockingHasWorkQueued, TypeOK
<1>6. LockedClientHoldsSession'
  BY Zenon DEF LockedClientHoldsSession, HolderTold, TypeOK
<1>7. DeadlineOnlyWhileWaiting'
  BY Zenon DEF DeadlineOnlyWhileWaiting
<1>8. OverlaysClosedWhenLocked'
  BY Zenon DEF OverlaysClosedWhenLocked, IsLocked, MruOnConnectedOutput
<1> QED
  BY <1>1, <1>2, <1>3, <1>4, <1>5, <1>6, <1>7, <1>8, Zenon DEF IInv

\* Opening the screenshot UI preserves the invariant.
LEMMA OpenScreenshotUiStep == ASSUME IInv, OpenScreenshotUi PROVE IInv'
<1> USE DEF IInv, OpenScreenshotUi, lockVars
<1> USE QueueRedrawFacts
<1>1. TypeOK'
  BY ZenonT(60) DEF TypeOK, LockStates, Frames, Surfaces
<1>2. HolderTold'
  BY Zenon DEF HolderTold, TypeOK
<1>3. MruOnConnectedOutput'
  BY Zenon DEF MruOnConnectedOutput
<1>4. LockedOnlyWhenBlanked'
  BY Zenon DEF LockedOnlyWhenBlanked, TypeOK
<1>5. LockingHasWorkQueued'
  BY Zenon DEF LockingHasWorkQueued, TypeOK
<1>6. LockedClientHoldsSession'
  BY Zenon DEF LockedClientHoldsSession, HolderTold, TypeOK
<1>7. DeadlineOnlyWhileWaiting'
  BY Zenon DEF DeadlineOnlyWhileWaiting
<1>8. OverlaysClosedWhenLocked'
  BY Zenon DEF OverlaysClosedWhenLocked, IsLocked, MruOnConnectedOutput
<1> QED
  BY <1>1, <1>2, <1>3, <1>4, <1>5, <1>6, <1>7, <1>8, ZenonT(60) DEF IInv

\* Closing the screenshot UI preserves the invariant.
LEMMA CloseScreenshotUiStep == ASSUME IInv, CloseScreenshotUi PROVE IInv'
<1> USE DEF IInv, CloseScreenshotUi, lockVars
<1> USE QueueRedrawFacts
<1>1. TypeOK'
  BY ZenonT(60) DEF TypeOK, LockStates, Frames, Surfaces
<1>2. HolderTold'
  BY Zenon DEF HolderTold, TypeOK
<1>3. MruOnConnectedOutput'
  BY Zenon DEF MruOnConnectedOutput
<1>4. LockedOnlyWhenBlanked'
  BY Zenon DEF LockedOnlyWhenBlanked, TypeOK
<1>5. LockingHasWorkQueued'
  BY Zenon DEF LockingHasWorkQueued, TypeOK
<1>6. LockedClientHoldsSession'
  BY Zenon DEF LockedClientHoldsSession, HolderTold, TypeOK
<1>7. DeadlineOnlyWhileWaiting'
  BY Zenon DEF DeadlineOnlyWhileWaiting
<1>8. OverlaysClosedWhenLocked'
  BY Zenon DEF OverlaysClosedWhenLocked, IsLocked, MruOnConnectedOutput
<1> QED
  BY <1>1, <1>2, <1>3, <1>4, <1>5, <1>6, <1>7, <1>8, ZenonT(60) DEF IInv

\* Opening the recent-windows UI preserves the invariant.
LEMMA OpenMruStep == ASSUME IInv, NEW o \in Outputs, OpenMru(o) PROVE IInv'
<1> USE DEF IInv, OpenMru, lockVars
<1> USE QueueRedrawFacts
<1>1. TypeOK'
  BY ZenonT(60) DEF TypeOK, LockStates, Frames, Surfaces
<1>2. HolderTold'
  BY Zenon DEF HolderTold, TypeOK
<1>3. MruOnConnectedOutput'
  BY Zenon DEF MruOnConnectedOutput
<1>4. LockedOnlyWhenBlanked'
  BY Zenon DEF LockedOnlyWhenBlanked, TypeOK
<1>5. LockingHasWorkQueued'
  BY Zenon DEF LockingHasWorkQueued, TypeOK
<1>6. LockedClientHoldsSession'
  BY Zenon DEF LockedClientHoldsSession, HolderTold, TypeOK
<1>7. DeadlineOnlyWhileWaiting'
  BY Zenon DEF DeadlineOnlyWhileWaiting
<1>8. OverlaysClosedWhenLocked'
  BY Zenon DEF OverlaysClosedWhenLocked, IsLocked, MruOnConnectedOutput
<1> QED
  BY <1>1, <1>2, <1>3, <1>4, <1>5, <1>6, <1>7, <1>8, Zenon DEF IInv

\* Closing the recent-windows UI preserves the invariant.
LEMMA CloseMruStep == ASSUME IInv, CloseMru PROVE IInv'
<1> USE DEF IInv, CloseMru, lockVars
<1> USE QueueRedrawFacts
<1>1. TypeOK'
  BY ZenonT(60) DEF TypeOK, LockStates, Frames, Surfaces
<1>2. HolderTold'
  BY Zenon DEF HolderTold, TypeOK
<1>3. MruOnConnectedOutput'
  BY Zenon DEF MruOnConnectedOutput
<1>4. LockedOnlyWhenBlanked'
  BY Zenon DEF LockedOnlyWhenBlanked, TypeOK
<1>5. LockingHasWorkQueued'
  BY Zenon DEF LockingHasWorkQueued, TypeOK
<1>6. LockedClientHoldsSession'
  BY Zenon DEF LockedClientHoldsSession, HolderTold, TypeOK
<1>7. DeadlineOnlyWhileWaiting'
  BY Zenon DEF DeadlineOnlyWhileWaiting
<1>8. OverlaysClosedWhenLocked'
  BY Zenon DEF OverlaysClosedWhenLocked, IsLocked, MruOnConnectedOutput
<1> QED
  BY <1>1, <1>2, <1>3, <1>4, <1>5, <1>6, <1>7, <1>8, Zenon DEF IInv

\* Starting a redraw pass preserves the invariant.
LEMMA BeginRedrawStep == ASSUME IInv, BeginRedraw PROVE IInv'
<1> USE DEF IInv, BeginRedraw, outVars, uiVars, lockVars
<1>1. TypeOK'
  BY ZenonT(60) DEF TypeOK, LockStates, Frames, Surfaces
<1>2. HolderTold'
  BY Zenon DEF HolderTold, TypeOK
<1>3. MruOnConnectedOutput'
  BY Zenon DEF MruOnConnectedOutput
<1>4. LockedOnlyWhenBlanked'
  BY Zenon DEF LockedOnlyWhenBlanked, TypeOK
<1>5. LockingHasWorkQueued'
  BY Zenon DEF LockingHasWorkQueued, TypeOK
<1>6. LockedClientHoldsSession'
  BY Zenon DEF LockedClientHoldsSession, HolderTold, TypeOK
<1>7. DeadlineOnlyWhileWaiting'
  BY Zenon DEF DeadlineOnlyWhileWaiting
<1>8. OverlaysClosedWhenLocked'
  BY Zenon DEF OverlaysClosedWhenLocked, IsLocked, MruOnConnectedOutput
<1> QED
  BY <1>1, <1>2, <1>3, <1>4, <1>5, <1>6, <1>7, <1>8, Zenon DEF IInv

\* Ending a redraw pass preserves the invariant.
LEMMA EndRedrawStep == ASSUME IInv, EndRedraw PROVE IInv'
<1> USE DEF IInv, EndRedraw, outVars, uiVars, lockVars
<1>1. TypeOK'
  BY ZenonT(60) DEF TypeOK, LockStates, Frames, Surfaces
<1>2. HolderTold'
  BY Zenon DEF HolderTold, TypeOK
<1>3. MruOnConnectedOutput'
  BY Zenon DEF MruOnConnectedOutput
<1>4. LockedOnlyWhenBlanked'
  BY Zenon DEF LockedOnlyWhenBlanked, TypeOK
<1>5. LockingHasWorkQueued'
  BY Zenon DEF LockingHasWorkQueued, TypeOK
<1>6. LockedClientHoldsSession'
  BY Zenon DEF LockedClientHoldsSession, HolderTold, TypeOK
<1>7. DeadlineOnlyWhileWaiting'
  BY Zenon DEF DeadlineOnlyWhileWaiting
<1>8. OverlaysClosedWhenLocked'
  BY Zenon DEF OverlaysClosedWhenLocked, IsLocked, MruOnConnectedOutput
<1> QED
  BY <1>1, <1>2, <1>3, <1>4, <1>5, <1>6, <1>7, <1>8, Zenon DEF IInv

\* Redrawing an output, which may complete or give up the locking, preserves the
\* invariant.
LEMMA RedrawStep == ASSUME IInv, NEW o \in Outputs, NEW r, NEW f \in Frames, Redraw(o, r, f) PROVE IInv'
<1> USE DEF IInv, Redraw, KeepLockState, RedrawDone, Confirm, Refuse, uiVars, lockVars
<1> USE QueueRedrawFacts
<1>1. TypeOK'
  BY SMTT(30) DEF TypeOK, LockStates, Frames, Surfaces
<1>2. HolderTold'
  BY DEF HolderTold, TypeOK
<1>3. MruOnConnectedOutput'
  BY Zenon DEF MruOnConnectedOutput
<1>4. LockedOnlyWhenBlanked'
  <2>1. CASE lockState = "Locking"
    BY <2>1, Zenon DEF LockedOnlyWhenBlanked, TypeOK
  <2>2. CASE lockState # "Locking"
    BY <2>2, Zenon DEF LockedOnlyWhenBlanked, IsLocked, TypeOK
  <2> QED
    BY <2>1, <2>2, Zenon
<1>5. LockingHasWorkQueued'
  BY SMTT(30) DEF LockingHasWorkQueued, TypeOK
<1>6. LockedClientHoldsSession'
  BY DEF LockedClientHoldsSession, HolderTold, TypeOK
<1>7. DeadlineOnlyWhileWaiting'
  BY Zenon DEF DeadlineOnlyWhileWaiting
<1>8. OverlaysClosedWhenLocked'
  BY Zenon DEF OverlaysClosedWhenLocked, IsLocked, MruOnConnectedOutput
<1> QED
  BY <1>1, <1>2, <1>3, <1>4, <1>5, <1>6, <1>7, <1>8, Zenon DEF IInv

\* Every step of the specification preserves the inductive invariant.
LEMMA NextIInv == IInv /\ [Next]_vars => IInv'
<1> SUFFICES ASSUME IInv, [Next]_vars PROVE IInv'
  BY Zenon
<1>1. CASE UNCHANGED vars
  BY <1>1 DEF IInv, TypeOK, HolderTold, MruOnConnectedOutput, LockedOnlyWhenBlanked,
              LockingHasWorkQueued, LockedClientHoldsSession, DeadlineOnlyWhileWaiting,
              OverlaysClosedWhenLocked, IsLocked, vars, lockVars, outVars, uiVars
<1>2. CASE Next
  <2>1. CASE RedrawSome
    BY <2>1, RedrawStep, Zenon DEF RedrawSome
  <2> QED
    BY <1>2, <2>1, LockStep, NewLockSurfaceStep, CommitLockSurfaceStep,
       DeadlineExpiresStep, UnlockStep, DestroyLockStep, ClientDiesStep, AddOutputStep,
       RemoveOutputStep, DamageOutputStep, DeactivateMonitorsStep, ActivateMonitorsStep,
       OpenScreenshotUiStep, CloseScreenshotUiStep, OpenMruStep, CloseMruStep,
       BeginRedrawStep, EndRedrawStep, Zenon
       DEF Next
<1> QED
  BY <1>1, <1>2, Zenon

\* The inductive invariant holds in every reachable state.
THEOREM Inductive == Spec => []IInv
BY InitIInv, NextIInv, PTL DEF Spec

\* lock_state, the outputs' records and the overlays keep their types.
THEOREM TypeCorrect == Spec => []TypeOK
<1>1. IInv => TypeOK
  BY Zenon DEF IInv
<1> QED
  BY <1>1, Inductive, PTL

\* A client is told that the session is locked only once no connected output
\* still counts as unlocked, whatever outputs come and go and however renders
\* end: redraw(), remove_output(), add_output() and lock() together.
THEOREM LockedIsBlanked == Spec => []LockedOnlyWhenBlanked
<1>1. IInv => LockedOnlyWhenBlanked
  BY Zenon DEF IInv
<1> QED
  BY <1>1, Inductive, PTL

\* While locking, the redraw pass always has an output left that will bring
\* redraw() back to its check of the lock state.
THEOREM LockingNeverStuck == Spec => []LockingHasWorkQueued
<1>1. IInv => LockingHasWorkQueued
  BY Zenon DEF IInv
<1> QED
  BY <1>1, Inductive, PTL

\* At most one live client was told `locked`, and the session is locked for it.
THEOREM OneClientHoldsTheSession == Spec => []LockedClientHoldsSession
<1>1. IInv => LockedClientHoldsSession
  BY Zenon DEF IInv
<1> QED
  BY <1>1, Inductive, PTL

\* The deadline timer never fires in a lock state it was not registered for.
THEOREM DeadlineNeverStale == Spec => []DeadlineOnlyWhileWaiting
<1>1. IInv => DeadlineOnlyWhileWaiting
  BY Zenon DEF IInv
<1> QED
  BY <1>1, Inductive, PTL

\* No overlay is open over a locked session.
THEOREM NoOverlayWhenLocked == Spec => []OverlaysClosedWhenLocked
<1>1. IInv => OverlaysClosedWhenLocked
  BY Zenon DEF IInv
<1> QED
  BY <1>1, Inductive, PTL

\* What one step may do to a locked session.
UnlockedByHolder ==
    lockState = "Locked" /\ lockState' # "Locked" => obj[holder] = "locked" /\ obj'[holder] = "free"

\* A locked session is unlocked by the client that holds it and by nothing else.
THEOREM OnlyTheHolderUnlocks == Spec => OnlyHolderUnlocks
<1>1. ASSUME IInv, Next PROVE UnlockedByHolder
  <2>1. ASSUME NEW l \in Lockers, Unlock(l) PROVE UnlockedByHolder
    BY <1>1, <2>1, Zenon DEF IInv, TypeOK, LockedClientHoldsSession, Unlock, UnlockedByHolder
  <2>2. ASSUME NEW o \in Outputs, CommitLockSurface(o) PROVE UnlockedByHolder
    BY <2>2, Zenon DEF CommitLockSurface, ContinueToLocking, lockVars, UnlockedByHolder
  <2>3. ASSUME RedrawSome PROVE UnlockedByHolder
    BY <2>3, ZenonT(60) DEF RedrawSome, Redraw, KeepLockState, UnlockedByHolder
  <2>4. ASSUME NEW o \in Outputs, NEW moved \in SUBSET Outputs, RemoveOutput(o, moved)
        PROVE  UnlockedByHolder
    BY <2>4, Zenon DEF RemoveOutput, KeepLockState, UnlockedByHolder
  <2>5. ASSUME NEW l \in Lockers, Lock(l) PROVE UnlockedByHolder
    BY <2>5, Zenon DEF Lock, lockVars, UnlockedByHolder
  <2> QED
    BY <1>1, <2>1, <2>2, <2>3, <2>4, <2>5, ZenonT(60)
       DEF Next, NewLockSurface, DeadlineExpires, ContinueToLocking, DestroyLock, ClientDies,
           AddOutput, DamageOutput, DeactivateMonitors, ActivateMonitors, OpenScreenshotUi,
           CloseScreenshotUi, OpenMru, CloseMru, BeginRedraw, EndRedraw, lockVars,
           UnlockedByHolder
<1>2. IInv /\ [Next]_vars => [UnlockedByHolder]_vars
  BY <1>1, Zenon
<1> QED
  BY <1>2, Inductive, PTL DEF Spec, OnlyHolderUnlocks, UnlockedByHolder

-----------------------------------------------------------------------------
(* The window switcher.                                                    *)

MrThumbs == [id : MrWin, place : MrPlaces]
MrUis == [state : {"open", "closing", "closed"}, thumbs : Seq(MrThumbs), cur : MrWin \union {NoWin},
          scope : ScopeSet, filter : {"none"} \union {MrApp[w] : w \in MrWin}]

\* A window is listed once.
ListedOnce(u) == \A i, j \in DOMAIN u.thumbs : u.thumbs[i].id = u.thumbs[j].id => i = j
\* WindowMru::verify_invariants.
Selects(u) == IF u.cur = NoWin THEN thumbnails(u) = {} ELSE \E i \in thumbnails(u) : u.thumbs[i].id = u.cur
Well(u) == u \in MrUis /\ ListedOnce(u) /\ Selects(u)

MrInv ==
  /\ mrOpen \subseteq MrWin /\ mrUi \in MrUis /\ mrProfile \in MrProfiles
  /\ mrUi.state = "open" =>
       Well(mrUi) /\ mrUi.thumbs # <<>> /\ \A i \in DOMAIN mrUi.thumbs : mrUi.thumbs[i].id \in mrOpen

INSTANCE WellFoundedInduction

\* A set of naturals that is not empty has a least element.
LEMMA LeastElement ==
    ASSUME NEW T \in SUBSET Nat, T # {}
    PROVE  \E m \in T : \A k \in T : m <= k
<1>1. PICK m \in T : \A k \in T : ~(<<k, m>> \in OpToRel(<, Nat))
  BY NatLessThanWellFounded, WFMin, Zenon
<1>2. \A k \in T : ~(k < m)
  BY <1>1, Zenon DEF OpToRel
<1> QED
  BY <1>2

\* A set of positions that is not empty has a first and a last one.
LEMMA FirstAndLast ==
  ASSUME NEW n \in Nat, NEW S \in SUBSET (1 .. n), S # {}
  PROVE  Min(S) \in S /\ Max(S) \in S /\ \A i \in S : Min(S) <= i /\ i <= Max(S)
<1>1. \E m \in S : \A k \in S : m <= k
  BY LeastElement
<1>2. \E m \in S : \A k \in S : m >= k
  <2> DEFINE T == {n - i : i \in S}
  <2>0. \A i \in S : n - i \in Nat
    OBVIOUS
  <2>1. T \in SUBSET Nat /\ T # {}
    BY <2>0, Zenon
  <2> HIDE DEF T
  <2>2. PICK m \in T : \A k \in T : m <= k
    BY <2>1, LeastElement, ZenonT(60)
  <2>3. PICK i \in S : m = n - i
    BY <2>2, Zenon DEF T
  <2>4. ASSUME NEW k \in S PROVE i >= k
    <3>1. n - k \in T
      BY Zenon DEF T
    <3>2. n - i <= n - k
      BY <2>2, <2>3, <3>1, ZenonT(60)
    <3>3. QED BY <3>2
  <2>5. QED BY <2>4, Zenon
<1>3. Min(S) \in S /\ \A i \in S : Min(S) <= i
  BY <1>1, Zenon DEF Min
<1>4. Max(S) \in S /\ \A i \in S : Max(S) >= i
  BY <1>2, Zenon DEF Max
<1>5. QED BY <1>3, <1>4, Zenon

\* The windows seen do not depend on the selection.
LEMMA Reselected ==
  ASSUME NEW u \in MrUis, NEW c \in MrWin \union {NoWin}
  PROVE  LET v == [u EXCEPT !.cur = c]
         IN  /\ v \in MrUis /\ v.cur = c /\ v.thumbs = u.thumbs /\ v.state = u.state /\ thumbnails(v) = thumbnails(u)
             /\ (ListedOnce(u) => ListedOnce(v))
<1> DEFINE v == [u EXCEPT !.cur = c]
<1>1. v \in MrUis /\ v.cur = c /\ v.thumbs = u.thumbs /\ v.state = u.state /\ v.scope = u.scope /\ v.filter = u.filter
  BY Zenon DEF MrUis
<1> HIDE DEF v
<1>2. thumbnails(v) = thumbnails(u)
  BY <1>1, Zenon DEF thumbnails, Passes
<1>3. ListedOnce(u) => ListedOnce(v)
  BY <1>1, Zenon DEF ListedOnce
<1>4. QED BY <1>1, <1>2, <1>3, ZenonT(60) DEF v

\* Selecting a window that is seen.
LEMMA SelectShown ==
  ASSUME NEW u \in MrUis, ListedOnce(u), NEW i \in thumbnails(u)
  PROVE  LET v == [u EXCEPT !.cur = u.thumbs[i].id]
         IN  Well(v) /\ v.thumbs = u.thumbs /\ v.state = u.state /\ v.cur = u.thumbs[i].id /\ v.cur # NoWin
<1> DEFINE c == u.thumbs[i].id
           v == [u EXCEPT !.cur = c]
<1>1. c \in MrWin
  <2>1. u.thumbs \in Seq(MrThumbs) /\ i \in DOMAIN u.thumbs
    BY Zenon DEF MrUis, thumbnails
  <2>2. u.thumbs[i] \in MrThumbs
    BY <2>1
  <2>3. QED BY <2>2, Zenon DEF MrThumbs
<1>2. c # NoWin
  BY <1>1, MrAssumption, Zenon
<1> HIDE DEF c
<1>3. v \in MrUis /\ v.cur = c /\ v.thumbs = u.thumbs /\ v.state = u.state /\ thumbnails(v) = thumbnails(u) /\ ListedOnce(v)
  BY <1>1, Reselected, Zenon
<1> HIDE DEF v
<1>4. v.thumbs[i].id = c
  BY <1>3, Zenon DEF c
<1>5. Selects(v)
  BY <1>2, <1>3, <1>4, Zenon DEF Selects
<1>6. QED BY <1>2, <1>3, <1>5, ZenonT(60) DEF Well, v, c

\* The positions seen are positions of the list.
LEMMA ShownAt ==
  ASSUME NEW u \in MrUis
  PROVE  Len(u.thumbs) \in Nat /\ DOMAIN u.thumbs = 1 .. Len(u.thumbs) /\ thumbnails(u) \in SUBSET (1 .. Len(u.thumbs))
<1>1. u.thumbs \in Seq(MrThumbs)
  BY Zenon DEF MrUis
<1>2. Len(u.thumbs) \in Nat /\ DOMAIN u.thumbs = 1 .. Len(u.thumbs)
  BY <1>1
<1>3. QED BY <1>2, Zenon DEF thumbnails

\* first and last select a window that is seen, or none when there is none.
LEMMA EndsSelect ==
  ASSUME NEW u \in MrUis, ListedOnce(u), NEW c \in {first_id(u), last_id(u)}
  PROVE  LET v == [u EXCEPT !.cur = c] IN Well(v) /\ v.thumbs = u.thumbs /\ v.state = u.state /\ v.cur = c
<1>1. CASE thumbnails(u) = {}
  <2>1. c = NoWin
    BY <1>1, Zenon DEF first_id, last_id
  <2>2. QED BY <1>1, <2>1, Reselected DEF Well, Selects
<1>2. CASE thumbnails(u) # {}
  <2>1. PICK i \in thumbnails(u) : c = u.thumbs[i].id
    BY <1>2, ShownAt, FirstAndLast, Zenon DEF first_id, last_id
  <2>2. QED BY <2>1, SelectShown
<1>3. QED BY <1>1, <1>2, ZenonT(60)

\* forward and backward go from a window that is seen to one that is seen.
LEMMA StepsSelect ==
  ASSUME NEW u, Well(u), NEW v \in {forward(u), backward(u)}
  PROVE  Well(v) /\ v.thumbs = u.thumbs /\ v.state = u.state
<1>0. u \in MrUis /\ ListedOnce(u)
  BY Zenon DEF Well
<1>1. CASE u.cur = NoWin
  BY <1>1, Zenon DEF forward, backward
<1>2. CASE u.cur # NoWin
  <2> DEFINE next == {i \in thumbnails(u) : i > idx_of(u, u.cur)}
             prev == {i \in thumbnails(u) : i < idx_of(u, u.cur)}
  <2>1. CASE v = forward(u)
    <3>1. CASE next = {}
      <4>1. v = [u EXCEPT !.cur = first_id(u)]
        BY <1>2, <2>1, <3>1, ZenonT(60) DEF forward
      <4>2. QED BY <1>0, <4>1, EndsSelect, Zenon
    <3>2. CASE next # {}
      <4>1. v = [u EXCEPT !.cur = u.thumbs[Min(next)].id]
        BY <1>2, <2>1, <3>2, ZenonT(60) DEF forward
      <4>2. Min(next) \in next
        BY <1>0, <3>2, ShownAt, FirstAndLast, Zenon
      <4>3. Min(next) \in thumbnails(u)
        BY <4>2, Zenon
      <4> HIDE DEF next
      <4>4. QED BY <1>0, <4>1, <4>3, SelectShown, Zenon
    <3>3. QED BY <3>1, <3>2, Zenon
  <2>2. CASE v = backward(u)
    <3>1. CASE prev = {}
      <4>1. v = [u EXCEPT !.cur = last_id(u)]
        BY <1>2, <2>2, <3>1, ZenonT(60) DEF backward
      <4>2. QED BY <1>0, <4>1, EndsSelect, Zenon
    <3>2. CASE prev # {}
      <4>1. v = [u EXCEPT !.cur = u.thumbs[Max(prev)].id]
        BY <1>2, <2>2, <3>2, ZenonT(60) DEF backward
      <4>2. Max(prev) \in prev
        BY <1>0, <3>2, ShownAt, FirstAndLast, ZenonT(60)
      <4>3. Max(prev) \in thumbnails(u)
        BY <4>2, Zenon
      <4> HIDE DEF prev
      <4>4. QED BY <1>0, <4>1, <4>3, SelectShown, Zenon
    <3>3. QED BY <3>1, <3>2, Zenon
  <2>3. QED BY <2>1, <2>2, Zenon
<1>3. QED BY <1>1, <1>2, Zenon

\* Another scope or filter: what was selected is listed, and what is selected is seen.
LEMMA ReselectSelects ==
  ASSUME NEW u \in MrUis, ListedOnce(u)
  PROVE  LET v == Reselect(u) IN Well(v) /\ v.thumbs = u.thumbs /\ v.state = u.state
<1> DEFINE kept == {i \in thumbnails(u) : i <= idx_of(u, u.cur)}
<1>1. CASE u.cur = NoWin \/ kept = {}
  <2>1. Reselect(u) = [u EXCEPT !.cur = first_id(u)]
    BY <1>1, Zenon DEF Reselect
  <2>2. QED BY <2>1, EndsSelect, Zenon
<1>2. CASE ~(u.cur = NoWin \/ kept = {})
  <2>1. Reselect(u) = [u EXCEPT !.cur = u.thumbs[Max(kept)].id]
    BY <1>2, Zenon DEF Reselect
  <2>2. Max(kept) \in kept
    BY <1>2, ShownAt, FirstAndLast, Zenon
  <2>3. Max(kept) \in thumbnails(u)
    BY <2>2, Zenon
  <2> HIDE DEF kept
  <2>4. QED BY <2>1, <2>3, SelectShown
<1>3. QED BY <1>1, <1>2, Zenon

\* set_scope keeps the selected window, or moves on to one that is seen.
LEMMA ScopeSelects ==
  ASSUME NEW u, Well(u), NEW scope \in ScopeSet
  PROVE  LET v == set_scope(u, scope) IN Well(v) /\ v.thumbs = u.thumbs /\ v.state = u.state
<1>1. CASE u.scope = scope
  BY <1>1, Zenon DEF set_scope
<1>2. CASE u.scope # scope
  <2> DEFINE w == [u EXCEPT !.scope = scope]
  <2>1. w \in MrUis /\ w.thumbs = u.thumbs /\ w.state = u.state
    BY Zenon DEF Well, MrUis
  <2>2. set_scope(u, scope) = Reselect(w)
    BY <1>2, Zenon DEF set_scope
  <2> HIDE DEF w
  <2>3. ListedOnce(w)
    BY <2>1, Zenon DEF Well, ListedOnce
  <2>4. QED BY <2>1, <2>2, <2>3, ReselectSelects, Zenon
<1>3. QED BY <1>1, <1>2, Zenon

\* set_filter keeps the selected window, or moves on to one that is seen.
LEMMA FilterSelects ==
  ASSUME NEW u, Well(u), NEW filter
  PROVE  LET v == set_filter(u, filter) IN Well(v) /\ v.thumbs = u.thumbs /\ v.state = u.state
<1>1. ASSUME NEW f \in {"none"} \union {MrApp[w] : w \in MrWin}
      PROVE  LET v == Reselect([u EXCEPT !.filter = f]) IN Well(v) /\ v.thumbs = u.thumbs /\ v.state = u.state
  <2> DEFINE w == [u EXCEPT !.filter = f]
  <2>1. w \in MrUis /\ w.thumbs = u.thumbs /\ w.state = u.state
    BY Zenon DEF Well, MrUis
  <2> HIDE DEF w
  <2>2. ListedOnce(w)
    BY <2>1, Zenon DEF Well, ListedOnce
  <2>3. Well(Reselect(w)) /\ Reselect(w).thumbs = u.thumbs /\ Reselect(w).state = u.state
    BY <2>1, <2>2, ReselectSelects, Zenon
  <2>4. QED BY <2>3, Zenon DEF w
<1>2. set_filter(u, filter) = u \/ \E f \in {"none"} \union {MrApp[w] : w \in MrWin} : set_filter(u, filter) = Reselect([u EXCEPT !.filter = f])
  <2>1. u.cur \in MrWin \union {NoWin}
    BY Zenon DEF Well, MrUis
  <2> DEFINE apps == {"none"} \union {MrApp[w] : w \in MrWin}
  <2>2. CASE u.cur = NoWin
    BY <2>2, Zenon DEF set_filter
  <2>3. CASE u.cur \in MrWin
    <3>1. MrApp[u.cur] \in apps /\ "none" \in apps
      BY <2>3, Zenon
    <3> HIDE DEF apps
    <3>2. set_filter(u, filter) = u \/ \E f \in apps : set_filter(u, filter) = Reselect([u EXCEPT !.filter = f])
      BY <3>1, Zenon DEF set_filter
    <3>3. QED BY <3>2, Zenon DEF apps
  <2>4. QED BY <2>1, <2>2, <2>3, ZenonT(60)
<1>3. CASE set_filter(u, filter) = u
  BY <1>3, ZenonT(60)
<1>4. CASE \E f \in {"none"} \union {MrApp[w] : w \in MrWin} : set_filter(u, filter) = Reselect([u EXCEPT !.filter = f])
  <2>1. PICK f \in {"none"} \union {MrApp[w] : w \in MrWin} : set_filter(u, filter) = Reselect([u EXCEPT !.filter = f])
    BY <1>4, Zenon
  <2> DEFINE r == Reselect([u EXCEPT !.filter = f])
  <2>2. Well(r) /\ r.thumbs = u.thumbs /\ r.state = u.state
    BY <1>1, Zenon
  <2> HIDE DEF r
  <2>3. set_filter(u, filter) = r
    BY <2>1, Zenon DEF r
  <2>4. QED BY <2>2, <2>3, Zenon
<1>5. QED BY <1>2, <1>3, <1>4, ZenonT(60)

\* Where the elements of two sequences are in their concatenation.
LEMMA Concatenated ==
  ASSUME NEW S, NEW s \in Seq(S), NEW t \in Seq(S)
  PROVE  /\ s \o t \in Seq(S) /\ Len(s \o t) = Len(s) + Len(t)
         /\ \A i \in 1 .. Len(s) + Len(t) : (s \o t)[i] = IF i <= Len(s) THEN s[i] ELSE t[i - Len(s)]
  OBVIOUS

\* What remove leaves.
LEMMA RemovedAt ==
  ASSUME NEW S, NEW s \in Seq(S), NEW n \in 1 .. Len(s)
  PROVE  /\ remove(s, n) \in Seq(S) /\ Len(remove(s, n)) = Len(s) - 1
         /\ \A i \in 1 .. Len(s) - 1 : remove(s, n)[i] = s[IF i < n THEN i ELSE i + 1]
<1> DEFINE a == SubSeq(s, 1, n - 1)
           b == SubSeq(s, n + 1, Len(s))
<1>0. Len(s) \in Nat /\ n \in Nat /\ n >= 1 /\ n <= Len(s)
  BY SMTT(30)
<1>1. /\ a \in Seq(S) /\ Len(a) = n - 1
      /\ \A i \in 1 .. n - 1 : a[i] = s[i]
  <2>1. \A i \in 1 .. n - 1 : s[i] \in S
    BY <1>0
  <2>2. QED BY <1>0, <2>1, SMTT(30)
<1>2. /\ b \in Seq(S) /\ Len(b) = Len(s) - n
      /\ \A i \in 1 .. Len(s) - n : b[i] = s[n + i]
  <2>1. \A i \in n + 1 .. Len(s) : s[i] \in S
    BY <1>0
  <2>2. QED BY <1>0, <2>1
<1>3. remove(s, n) = a \o b
  BY Zenon DEF remove
<1> HIDE DEF a, b
<1>4. /\ a \o b \in Seq(S) /\ Len(a \o b) = Len(s) - 1
      /\ \A i \in 1 .. Len(s) - 1 : (a \o b)[i] = IF i <= n - 1 THEN a[i] ELSE b[i - (n - 1)]
  <2>1. a \in Seq(S) /\ b \in Seq(S)
    BY <1>1, <1>2, Zenon
  <2>2. /\ a \o b \in Seq(S) /\ Len(a \o b) = Len(a) + Len(b)
        /\ \A i \in 1 .. Len(a) + Len(b) : (a \o b)[i] = IF i <= Len(a) THEN a[i] ELSE b[i - Len(a)]
    BY ONLY <2>1, Concatenated, Zenon
  <2>3. Len(a) + Len(b) = Len(s) - 1
    BY <1>0, <1>1, <1>2, SMTT(30)
  <2>4. QED BY <1>1, <2>2, <2>3, Zenon
<1>5. ASSUME NEW i \in 1 .. Len(s) - 1 PROVE (a \o b)[i] = s[IF i < n THEN i ELSE i + 1]
  <2>1. (a \o b)[i] = IF i <= n - 1 THEN a[i] ELSE b[i - (n - 1)]
    BY <1>4, Zenon
  <2>2. CASE i < n
    BY <1>0, <1>1, <2>1, <2>2, SMTT(30)
  <2>3. CASE ~(i < n)
    BY <1>0, <1>2, <2>1, <2>3, SMTT(30)
  <2>4. QED BY <2>2, <2>3, Zenon
<1>6. QED BY <1>3, <1>4, <1>5, ZenonT(60)

\* Removing a position: the selection moves on first, and is lost only with the last
\* window that is seen.
LEMMA RemoveSelects ==
  ASSUME NEW u, Well(u), NEW n \in DOMAIN u.thumbs
  PROVE  LET v == remove_by_idx(u, n)
         IN  /\ Well(v) /\ v.state = u.state
             /\ \A i \in DOMAIN v.thumbs : \E j \in DOMAIN u.thumbs \ {n} : v.thumbs[i] = u.thumbs[j]
<1> DEFINE id == u.thumbs[n].id
           f == IF u.cur = id THEN forward(u) ELSE u
           cut == remove(u.thumbs, n)
           c == IF f.cur = id THEN NoWin ELSE f.cur
           v == remove_by_idx(u, n)
<1>1. Well(f) /\ f.thumbs = u.thumbs /\ f.state = u.state
  BY StepsSelect, Zenon
<1>2. v = [[f EXCEPT !.cur = c] EXCEPT !.thumbs = cut]
  BY <1>1, Zenon DEF remove_by_idx, Well, MrUis
<1>3. u \in MrUis /\ u.thumbs \in Seq(MrThumbs) /\ DOMAIN u.thumbs = 1 .. Len(u.thumbs) /\ Len(u.thumbs) \in Nat
  BY ShownAt, Zenon DEF Well, MrUis
<1>4. /\ cut \in Seq(MrThumbs) /\ Len(cut) = Len(u.thumbs) - 1
      /\ \A i \in 1 .. Len(u.thumbs) - 1 : cut[i] = u.thumbs[IF i < n THEN i ELSE i + 1]
  <2>1. n \in 1 .. Len(u.thumbs)
    BY <1>3, Zenon
  <2>2. QED BY <1>3, <2>1, RemovedAt, Zenon
<1>5. f \in MrUis /\ f.cur \in MrWin \union {NoWin}
  BY <1>1, Zenon DEF Well, MrUis
<1> HIDE DEF id, f, cut, v
<1>6. v \in MrUis /\ v.cur = c /\ v.thumbs = cut /\ v.state = u.state /\ v.scope = f.scope /\ v.filter = f.filter
  BY <1>1, <1>2, <1>4, <1>5, Zenon DEF MrUis
<1>7. /\ DOMAIN v.thumbs = 1 .. Len(u.thumbs) - 1
      /\ \A i \in 1 .. Len(u.thumbs) - 1 : v.thumbs[i] = u.thumbs[IF i < n THEN i ELSE i + 1]
  <2>1. DOMAIN cut = 1 .. Len(cut)
    BY <1>4
  <2>2. QED BY <1>4, <1>6, <2>1, Zenon
<1>8. ASSUME NEW i \in DOMAIN v.thumbs
      PROVE  \E j \in DOMAIN u.thumbs \ {n} : v.thumbs[i] = u.thumbs[j] /\ j = IF i < n THEN i ELSE i + 1
  BY <1>3, <1>7, SMTT(30)
<1>9. ASSUME NEW j \in DOMAIN u.thumbs \ {n}
      PROVE  \E i \in DOMAIN v.thumbs : v.thumbs[i] = u.thumbs[j]
  <2>1. CASE j < n
    BY <1>3, <1>7, <2>1, SMTT(30)
  <2>2. CASE j > n
    <3>1. j - 1 \in DOMAIN v.thumbs /\ ~(j - 1 < n)
      BY <1>3, <1>7, <2>2, SMTT(30)
    <3>2. v.thumbs[j - 1] = u.thumbs[(j - 1) + 1]
      BY <1>3, <1>7, <3>1, Zenon
    <3>3. QED BY <1>3, <3>1, <3>2, SMTT(30)
  <2>3. QED BY <1>3, <2>1, <2>2, SMTT(30)
<1>10. ListedOnce(v)
  <2> SUFFICES ASSUME NEW i \in DOMAIN v.thumbs, NEW k \in DOMAIN v.thumbs, v.thumbs[i].id = v.thumbs[k].id
               PROVE  i = k
    BY Zenon DEF ListedOnce
  <2> DEFINE a == IF i < n THEN i ELSE i + 1
             b == IF k < n THEN k ELSE k + 1
  <2>1. a \in DOMAIN u.thumbs /\ b \in DOMAIN u.thumbs /\ v.thumbs[i] = u.thumbs[a] /\ v.thumbs[k] = u.thumbs[b]
    BY <1>8, Zenon
  <2>2. a = b
    BY <2>1, Zenon DEF Well, ListedOnce
  <2>3. QED BY <1>3, <1>7, <2>2, SMTT(30)
<1>11. ASSUME NEW t PROVE Passes(v, t) <=> Passes(f, t)
  BY <1>6, Zenon DEF Passes
<1>12. Selects(v)
  <2>1. CASE c # NoWin
    <3>1. PICK j \in thumbnails(f) : f.thumbs[j].id = c
      BY <1>1, <2>1, Zenon DEF Well, Selects
    <3>2. j \in DOMAIN u.thumbs \ {n} /\ u.thumbs[j].id = c /\ Passes(f, u.thumbs[j])
      BY <1>1, <2>1, <3>1, Zenon DEF thumbnails, id
    <3>3. PICK i \in DOMAIN v.thumbs : v.thumbs[i] = u.thumbs[j]
      BY <1>9, <3>2, Zenon
    <3>4. i \in thumbnails(v) /\ v.thumbs[i].id = c
      BY <1>11, <3>2, <3>3, Zenon DEF thumbnails
    <3>5. QED BY <1>6, <2>1, <3>4, ZenonT(60) DEF Selects
  <2>2. CASE c = NoWin
    <3>1. \A j \in thumbnails(f) : j = n
      <4>1. CASE f.cur = NoWin
        BY <1>1, <4>1, Zenon DEF Well, Selects
      <4>2. CASE f.cur # NoWin
        <5>1. f.cur = id
          BY <2>2, <4>2, Zenon
        <5>2. u.cur = id /\ f = forward(u) /\ u.cur # NoWin
          BY <4>2, <5>1, Zenon DEF f
        <5>3. idx_of(u, u.cur) = n
          BY <5>2, Zenon DEF id, idx_of, Well, ListedOnce
        <5> DEFINE next == {i \in thumbnails(u) : i > n}
        <5>4. thumbnails(f) = thumbnails(u)
          <6>1. f.thumbs = u.thumbs /\ f.scope = u.scope /\ f.filter = u.filter
            BY <1>1, <1>3, <5>2, Zenon DEF forward, MrUis
          <6>2. QED BY <6>1, Zenon DEF thumbnails, Passes
        <5>5. thumbnails(u) \in SUBSET (1 .. Len(u.thumbs)) /\ thumbnails(u) # {}
          BY <1>3, <5>2, ShownAt, Zenon DEF Well, Selects
        <5>6. next = {}
          <6> SUFFICES ASSUME next # {} PROVE FALSE
            BY Zenon
          <6>1. Min(next) \in next
            BY <1>3, <5>5, FirstAndLast, ZenonT(60)
          <6>2. f.cur = u.thumbs[Min(next)].id
            BY <1>3, <5>2, <5>3, ZenonT(60) DEF forward, MrUis
          <6>3. Min(next) \in DOMAIN u.thumbs /\ Min(next) # n
            BY <1>3, <5>5, <6>1, SMTT(30)
          <6> HIDE DEF next
          <6>4. QED BY <5>1, <6>2, <6>3, Zenon DEF id, Well, ListedOnce
        <5>7. f.cur = u.thumbs[Min(thumbnails(u))].id
          BY <1>3, <5>2, <5>3, <5>5, <5>6, ZenonT(60) DEF forward, first_id, MrUis
        <5>8. Min(thumbnails(u)) \in thumbnails(u) /\ \A i \in thumbnails(u) : Min(thumbnails(u)) <= i
          BY <1>3, <5>5, FirstAndLast, Zenon
        <5>9. Min(thumbnails(u)) = n
          BY <1>3, <5>1, <5>5, <5>7, <5>8, ZenonT(60) DEF id, Well, ListedOnce
        <5>10. QED BY <1>3, <5>4, <5>5, <5>6, <5>8, <5>9, SMTT(30)
      <4>3. QED BY <4>1, <4>2, Zenon
    <3>2. ASSUME NEW i \in thumbnails(v) PROVE FALSE
      <4>1. i \in DOMAIN v.thumbs /\ Passes(f, v.thumbs[i])
        BY <1>11, <3>2, Zenon DEF thumbnails
      <4>2. PICK j \in DOMAIN u.thumbs \ {n} : v.thumbs[i] = u.thumbs[j]
        BY <1>8, <4>1, Zenon
      <4>3. j \in thumbnails(f)
        BY <1>1, <4>1, <4>2, ZenonT(60) DEF thumbnails
      <4>4. QED BY <3>1, <4>2, <4>3, Zenon
    <3>3. QED BY <1>6, <2>2, <3>2, Zenon DEF Selects
  <2>3. QED BY <2>1, <2>2, Zenon
<1>13. QED BY <1>6, <1>8, <1>10, <1>12, Zenon DEF Well, v

\* WindowMru::new lists every window once, shows all of them and selects the first.
LEMMA NewSelects ==
  ASSUME NEW open \in SUBSET MrWin, open # {}, NEW s \in UNION {Bijection(1 .. k, open) : k \in 0 .. Cardinality(MrWin)}, NEW place \in [MrWin -> MrPlaces]
  PROVE  LET u == new_WindowMru(s, place)
         IN  /\ Well(u) /\ u.state = "open" /\ u.thumbs # <<>>
             /\ \A i \in DOMAIN u.thumbs : u.thumbs[i].id \in open
<1> DEFINE t == [i \in DOMAIN s |-> [id |-> s[i], place |-> place[s[i]]]]
           u == new_WindowMru(s, place)
<1>0. PICK n \in Nat : s \in Bijection(1 .. n, open)
  OBVIOUS
<1>1. s \in [1 .. n -> open] /\ \A w \in open : \E i \in 1 .. n : s[i] = w
  BY <1>0, Zenon DEF Bijection, Surjection
<1>2. s \in [1 .. n -> open] /\ n # 0 /\ \A i, j \in 1 .. n : i # j => s[i] # s[j]
  BY <1>0, <1>1, SMTT(30) DEF Bijection, Injection, IsInjective
<1>3. DOMAIN s = 1 .. n /\ 1 \in 1 .. n
  BY <1>1, <1>2
<1>4. \A i \in 1 .. n : [id |-> s[i], place |-> place[s[i]]] \in MrThumbs
  BY <1>2, Zenon DEF MrThumbs
<1>5. t \in [1 .. n -> MrThumbs] /\ DOMAIN t = 1 .. n /\ \A i \in 1 .. n : t[i].id = s[i]
  BY <1>3, <1>4, Zenon
<1>6. t \in Seq(MrThumbs) /\ Len(t) = n
  BY <1>1, <1>5, SMTT(30)
<1>7. u = [state |-> "open", thumbs |-> t, cur |-> s[1], scope |-> "All", filter |-> "none"]
  BY Zenon DEF new_WindowMru
<1> HIDE DEF t, u
<1>8. s[1] \in MrWin /\ s[1] # NoWin
  BY <1>2, <1>3, MrAssumption, Zenon
<1>9. "All" \in ScopeSet
  BY SMTT(30) DEF ScopeSet, Scopes
<1>10. u \in MrUis /\ u.state = "open" /\ u.thumbs = t /\ u.cur = s[1] /\ u.scope = "All" /\ u.filter = "none"
  BY <1>6, <1>7, <1>8, <1>9, Zenon DEF MrUis
<1>11. ListedOnce(u)
  BY <1>2, <1>5, <1>10, SMTT(30) DEF ListedOnce
<1>12. 1 \in thumbnails(u) /\ u.thumbs[1].id = s[1]
  BY <1>3, <1>5, <1>10, Zenon DEF thumbnails, Passes
<1>13. Selects(u)
  BY <1>8, <1>10, <1>12, ZenonT(60) DEF Selects
<1>14. u.thumbs # <<>>
  BY <1>1, <1>6, <1>10, SMTT(30)
<1>15. \A i \in DOMAIN u.thumbs : u.thumbs[i].id \in open
  BY <1>2, <1>5, <1>10
<1>16. QED BY <1>10, <1>11, <1>13, <1>14, <1>15, ZenonT(60) DEF Well, u

\* A closed switcher is one.
LEMMA ClosedUi ==
  ASSUME NEW u \in MrUis, NEW seen \in BOOLEAN
  PROVE  /\ close(u, seen) \in MrUis /\ close(u, seen).state # "open"
         /\ MrClosed(u.scope) \in MrUis /\ MrClosed(u.scope).state # "open"
<1> DEFINE c == MrClosed(u.scope)
<1>1. c \in MrUis /\ c.state = "closed"
  BY DEF MrUis, MrClosed
<1> HIDE DEF c
<1>2. ASSUME NEW st \in {"closing", "closed"} PROVE [c EXCEPT !.state = st] \in MrUis /\ [c EXCEPT !.state = st].state = st
  BY <1>1, Zenon DEF MrUis
<1>3. QED BY <1>1, <1>2, Zenon DEF close, c

\* Advance: forward or backward, once the filter is set.
LEMMA AdvanceSelects ==
  ASSUME NEW u, Well(u), NEW dir, NEW filter
  PROVE  LET v == Advance(u, dir, filter) IN Well(v) /\ v.thumbs = u.thumbs /\ v.state = u.state
<1> DEFINE f == IF filter = "none" THEN u ELSE set_filter(u, filter)
<1>1. Well(f) /\ f.thumbs = u.thumbs /\ f.state = u.state
  BY FilterSelects, Zenon
<1>2. Advance(u, dir, filter) \in {forward(f), backward(f)}
  BY Zenon DEF Advance
<1> HIDE DEF f
<1>3. QED BY <1>1, <1>2, StepsSelect, Zenon

\* A step that only selects: the switcher stays open over the same windows.
LEMMA SelectionStep ==
  ASSUME MrInv, Change(mrUi'), Well(mrUi'), mrUi'.thumbs = mrUi.thumbs
  PROVE  MrInv'
BY Zenon DEF MrInv, Change, Well

\* Opening the switcher, and advancing it.
LEMMA MruAdvanceInv ==
  ASSUME MrInv, NEW dir, NEW scope \in ScopeSet \union {"none"}, NEW filter, MruAdvance(dir, scope, filter)
  PROVE  MrInv'
<1>1. mrOpen' = mrOpen /\ mrProfile' = mrProfile
  BY Zenon DEF MruAdvance
<1>2. CASE mrUi.state = "open"
  <2>1. mrUi' = Advance(mrUi, dir, filter)
    BY <1>2, Zenon DEF MruAdvance
  <2>2. Well(mrUi') /\ mrUi'.thumbs = mrUi.thumbs /\ mrUi'.state = mrUi.state
    BY <1>2, <2>1, AdvanceSelects, SMTT(30) DEF MrInv
  <2>3. QED BY <1>1, <1>2, <2>2, Zenon DEF MrInv, Well
<1>3. CASE mrUi.state # "open" /\ mrUi' = mrUi
  BY <1>1, <1>3, Zenon DEF MrInv, Well, Selects, ListedOnce, thumbnails, Passes
<1>4. CASE mrUi.state # "open" /\ mrOpen # {}
  <2>1. PICK s \in MruOrders(CommitOnOpen(mrStamp)), place \in mrProfile.places :
               LET n == set_scope(new_WindowMru(s, place), IF scope = "none" THEN mrUi.scope ELSE scope)
                   u == IF filter = "none" THEN n ELSE set_filter(n, filter)
               IN mrUi' = IF dir = "Forward" /\ mrActive = NoWin THEN u ELSE Advance(u, dir, "none")
    BY <1>4, Zenon DEF MruAdvance
  <2> DEFINE m == new_WindowMru(s, place)
             to == IF scope = "none" THEN mrUi.scope ELSE scope
             n == set_scope(m, to)
             u == IF filter = "none" THEN n ELSE set_filter(n, filter)
  <2>2. s \in UNION {Bijection(1 .. k, mrOpen) : k \in 0 .. Cardinality(MrWin)} /\ mrOpen \in SUBSET MrWin /\ place \in [MrWin -> MrPlaces]
    BY <2>1, MrAssumption, Zenon DEF MruOrders, MrInv
  <2>3. /\ Well(m) /\ m.state = "open" /\ m.thumbs # <<>>
        /\ \A i \in DOMAIN m.thumbs : m.thumbs[i].id \in mrOpen
    BY <1>4, <2>2, NewSelects, Zenon
  <2>4. to \in ScopeSet
    BY Zenon DEF MrInv, MrUis
  <2>5. mrUi' = IF dir = "Forward" /\ mrActive = NoWin THEN u ELSE Advance(u, dir, "none")
    BY <2>1, Zenon
  <2> HIDE DEF m, to
  <2>6. Well(n) /\ n.thumbs = m.thumbs /\ n.state = m.state
    BY <2>3, <2>4, ScopeSelects, ZenonT(60)
  <2> HIDE DEF n
  <2>7. Well(u) /\ u.thumbs = m.thumbs /\ u.state = m.state
    BY <2>6, FilterSelects, ZenonT(60)
  <2> HIDE DEF u
  <2>8. Well(mrUi') /\ mrUi'.thumbs = m.thumbs /\ mrUi'.state = m.state
    BY <2>5, <2>7, AdvanceSelects, SMTT(30)
  <2>9. QED BY <1>1, <2>3, <2>8, Zenon DEF MrInv, Well
<1>5. mrUi.state # "open" /\ mrOpen = {} => mrUi' = mrUi
  BY Zenon DEF MruAdvance
<1>6. QED BY <1>2, <1>3, <1>4, <1>5, Zenon

\* A window closes: it leaves the list, and an empty switcher closes.
LEMMA CloseWindowInv ==
  ASSUME MrInv, NEW w, CloseWindow(w)
  PROVE  MrInv'
<1>1. mrOpen' = mrOpen \ {w} /\ mrProfile' = mrProfile
  BY Zenon DEF CloseWindow
<1>2. PICK seen \in BOOLEAN : mrUi' = remove_window(mrUi, w, seen)
  BY Zenon DEF CloseWindow
<1>3. CASE mrUi.state # "open"
  <2>1. mrUi' = mrUi
    BY <1>2, <1>3, Zenon DEF remove_window
  <2>2. QED BY <1>1, <1>3, <2>1, Zenon DEF MrInv
<1>4. CASE mrUi.state = "open" /\ w \notin Listed(mrUi)
  <2>1. mrUi' = mrUi
    BY <1>2, <1>4, Zenon DEF remove_window
  <2>2. Well(mrUi)' = Well(mrUi)
    BY <2>1, ZenonT(60) DEF Well, Selects, ListedOnce, thumbnails, Passes
  <2>3. QED BY <1>1, <1>4, <2>1, <2>2, Zenon DEF MrInv, Listed
<1>5. CASE mrUi.state = "open" /\ w \in Listed(mrUi)
  <2> DEFINE n == idx_of(mrUi, w)
             r == remove_by_idx(mrUi, n)
  <2>1. n \in DOMAIN mrUi.thumbs /\ mrUi.thumbs[n].id = w
    BY <1>5, Zenon DEF Listed, idx_of
  <2>2. mrUi' = IF r.thumbs = <<>> THEN close(r, seen) ELSE r
    BY <1>2, <1>5, Zenon DEF remove_window
  <2>3. Well(mrUi) /\ \A i \in DOMAIN mrUi.thumbs : mrUi.thumbs[i].id \in mrOpen
    BY <1>5, Zenon DEF MrInv
  <2> HIDE DEF n
  <2>4. /\ Well(r) /\ r.state = "open"
        /\ \A i \in DOMAIN r.thumbs : \E j \in DOMAIN mrUi.thumbs \ {n} : r.thumbs[i] = mrUi.thumbs[j]
    BY <1>5, <2>1, <2>3, RemoveSelects, ZenonT(60)
  <2> HIDE DEF r
  <2>5. ASSUME NEW i \in DOMAIN r.thumbs PROVE r.thumbs[i].id \in mrOpen \ {w}
    <3>1. PICK j \in DOMAIN mrUi.thumbs \ {n} : r.thumbs[i] = mrUi.thumbs[j]
      BY <2>4, Zenon
    <3>2. mrUi.thumbs[j].id # w
      BY <2>1, <2>3, <3>1, Zenon DEF Well, ListedOnce
    <3>3. QED BY <2>3, <3>1, <3>2, Zenon
  <2>6. CASE r.thumbs = <<>>
    <3>1. mrUi' \in MrUis /\ mrUi'.state # "open"
      BY <2>2, <2>4, <2>6, ClosedUi, ZenonT(60) DEF Well
    <3>2. QED BY <1>1, <3>1, Zenon DEF MrInv
  <2>7. CASE r.thumbs # <<>>
    <3>1. mrUi' = r
      BY <2>2, <2>7, Zenon
    <3>2. QED BY <1>1, <2>4, <2>5, <2>7, <3>1, ZenonT(60) DEF MrInv, Well
  <2>8. QED BY <2>6, <2>7, Zenon
<1>6. QED BY <1>3, <1>4, <1>5, Zenon

\* The switcher begins closed.
LEMMA MrInitInv == MrInit => MrInv
<1> SUFFICES ASSUME MrInit PROVE MrInv
  BY Zenon
<1>1. "All" \in ScopeSet
  BY SMTT(30) DEF ScopeSet, Scopes
<1>2. MrClosed("All") \in MrUis /\ MrClosed("All").state = "closed"
  BY <1>1 DEF MrUis, MrClosed
<1>3. QED BY <1>2, Zenon DEF MrInit, MrInv

\* Every step of the switcher, the windows and the keys keeps the invariant.
LEMMA MrNextInv == MrInv /\ [MrNext]_mrVars => MrInv'
<1> SUFFICES ASSUME MrInv, [MrNext]_mrVars PROVE MrInv'
  BY Zenon
<1>0. mrUi.state = "open" => Well(mrUi) /\ mrUi \in MrUis /\ ListedOnce(mrUi)
  BY Zenon DEF MrInv, Well
<1>1. ASSUME mrUi' = mrUi, mrOpen \subseteq mrOpen', mrOpen' \subseteq MrWin, mrProfile' = mrProfile
      PROVE  MrInv'
  <2>1. Well(mrUi)' = Well(mrUi)
    BY <1>1, ZenonT(60) DEF Well, Selects, ListedOnce, thumbnails, Passes
  <2>2. QED BY <1>1, <2>1, ZenonT(60) DEF MrInv
<1>2. ASSUME mrUi' \in MrUis, mrUi'.state # "open", mrOpen' = mrOpen, mrProfile' = mrProfile
      PROVE  MrInv'
  BY <1>2, Zenon DEF MrInv
<1>3. ASSUME NEW other, mr_update_keyboard_focus(other) PROVE MrInv'
  BY <1>1, <1>3, Zenon DEF mr_update_keyboard_focus, MrInv
<1>4. CASE mru_apply_keyboard_commit \/ FocusWindowPrevious \/ \E w \in MrWin \union {NoWin} : Activate(w)
  BY <1>1, <1>4, Zenon DEF mru_apply_keyboard_commit, FocusWindowPrevious, Activate, MrInv
<1>5. ASSUME NEW w \in mrProfile.wins, NEW focus, OpenWindow(w, focus) PROVE MrInv'
  BY <1>1, <1>5, MrAssumption, Zenon DEF OpenWindow, MrInv
<1>6. ASSUME NEW w \in mrProfile.wins, CloseWindow(w) PROVE MrInv'
  BY <1>6, CloseWindowInv, Zenon
<1>7. ASSUME NEW w \in mrProfile.wins, mr_pointer_motion(w) PROVE MrInv'
  <2>1. mrUi.state = "open" /\ Change(mrUi')
    BY <1>7, Zenon DEF mr_pointer_motion, Change
  <2>2. CASE \E i \in thumbnails(mrUi) : mrUi.thumbs[i].id = w
    <3>1. PICK i \in thumbnails(mrUi) : mrUi.thumbs[i].id = w
      BY <2>2, Zenon
    <3>2. mrUi' = [mrUi EXCEPT !.cur = mrUi.thumbs[i].id]
      BY <1>7, <2>2, <3>1, Zenon DEF mr_pointer_motion, Change
    <3>3. QED BY <1>0, <2>1, <3>2, SelectShown, SelectionStep, ZenonT(60)
  <2>3. CASE ~\E i \in thumbnails(mrUi) : mrUi.thumbs[i].id = w
    <3>1. mrUi' = mrUi
      BY <1>7, <2>3, Zenon DEF mr_pointer_motion, Change
    <3>2. QED BY <1>0, <2>1, <3>1, SelectionStep, ZenonT(60)
  <2>4. QED BY <2>2, <2>3, Zenon
<1>8. ASSUME NEW dir, NEW scope \in ScopeSet \union {"none"}, NEW filter, MruAdvance(dir, scope, filter) PROVE MrInv'
  BY <1>8, MruAdvanceInv, Zenon
<1>9. CASE MruFirst \/ MruLast
  <2>1. mrUi.state = "open" /\ Change(mrUi')
    BY <1>9, Zenon DEF MruFirst, MruLast, Change
  <2>2. \E c \in {first_id(mrUi), last_id(mrUi)} : mrUi' = [mrUi EXCEPT !.cur = c]
    BY <1>9, Zenon DEF MruFirst, MruLast, Change
  <2>3. QED BY <1>0, <2>1, <2>2, EndsSelect, SelectionStep, ZenonT(60)
<1>10. ASSUME NEW scope \in ScopeSet, Change(set_scope(mrUi, scope)) PROVE MrInv'
  <2>1. mrUi.state = "open" /\ Change(mrUi') /\ mrUi' = set_scope(mrUi, scope)
    BY <1>10, Zenon DEF Change
  <2>2. QED BY <1>0, <2>1, ScopeSelects, SelectionStep, Zenon
<1>11. CASE MruCycleScope
  <2>1. PICK i \in 1 .. 3 : Change(set_scope(mrUi, Scopes[(i % 3) + 1]))
    BY <1>11, Zenon DEF MruCycleScope
  <2>2. (i % 3) + 1 \in 1 .. 3
    OBVIOUS
  <2>3. Scopes[(i % 3) + 1] \in ScopeSet
    BY <2>2, Zenon DEF ScopeSet
  <2>4. QED BY <1>10, <2>1, <2>3, Zenon
<1>12. ASSUME NEW seen \in BOOLEAN, MruCancel(seen) \/ MruConfirm(seen) PROVE MrInv'
  BY <1>2, <1>12, ClosedUi, Zenon DEF MruCancel, MruConfirm, Change, MrInv
<1>13. CASE ClosingDone
  BY <1>2, <1>13, ClosedUi, Zenon DEF ClosingDone, MrInv
<1>14. CASE UNCHANGED mrVars
  BY <1>1, <1>14, Zenon DEF mrVars, MrInv
<1>15. QED
  BY <1>3, <1>4, <1>5, <1>6, <1>7, <1>8, <1>9, <1>10, <1>11, <1>12, <1>13, <1>14, ZenonT(60) DEF MrNext, MruSetScope

\* SelectionShown for any windows, apps and places: whatever closes, and however scope
\* and filter change, forward and confirm find the selected window in the list seen.
THEOREM SelectionIsShown == MrSpec => []SelectionShown
<1>1. MrInv => SelectionShown
  BY Zenon DEF MrInv, SelectionShown, Well, Selects
<1>2. QED BY <1>1, MrInitInv, MrNextInv, PTL DEF MrSpec

=============================================================================
