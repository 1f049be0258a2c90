----------------------------- MODULE MCProgress -----------------------------
(***************************************************************************)
(* What has to happen in the end, for TLC: the session lock, the run loop, *)
(* the requests of IPC clients and the frame callbacks.  Like in MCDesktop *)
(* a behaviour is one of any one of these machines, and the fairness of    *)
(* that machine is assumed of it.                                          *)
(***************************************************************************)
EXTENDS SessionLock, RunLoop, IpcRequests, FrameCycle

VARIABLE machine  \* the machine at work

\* The backend of macOS, whose frames are the ones that clients wait for.
MCFr == {[backend |-> "winit", may |-> {"show", "monitors"}, times |-> {1}]}

PgInit ==
  /\ machine \in {"lock", "loop", "requests", "frames"}
  /\ Init /\ RlInit /\ RqInit /\ FrInit

\* Without the recent-windows UI: locking closes it and nothing waits for it.
PgNext ==
  \/ machine = "lock" /\ Next /\ mruOutput' = None /\ UNCHANGED <<machine, rlVars, rqVars, frVars>>
  \/ machine = "loop" /\ RlNext /\ UNCHANGED <<machine, vars, rqVars, frVars>>
  \/ machine = "requests" /\ RqNext /\ UNCHANGED <<machine, vars, rlVars, frVars>>
  \/ machine = "frames" /\ FrNext /\ UNCHANGED <<machine, vars, rlVars, rqVars>>

\* Fairness, RlFairness, RqFairness and FrFairness, each of the machine at work.
PgFairness ==
  /\ WF_vars(machine = "lock" /\ BeginRedraw)
  /\ WF_vars(machine = "lock" /\ RedrawSome)
  /\ WF_vars(machine = "lock" /\ EndRedraw)
  /\ SF_vars(machine = "lock" /\ DeadlineExpires)
  /\ WF_rlVars(machine = "loop" /\ Loop)
  /\ WF_rlVars(machine = "loop" /\ Tick)
  /\ SF_rlVars(machine = "loop" /\ \E quit \in BOOLEAN : Dispatch(quit) /\ pinged' = FALSE)
  /\ WF_rqVars(machine = "requests" /\ RunIdle)
  /\ \A c \in RqClients : WF_rqVars(machine = "requests" /\ Answer(c))
  /\ WF_frVars(machine = "frames" /\ FrNext /\ FallbackTimer)
  /\ \A s \in FrSurfaces : WF_frVars(machine = "frames" /\ FrNext /\ Elapse(s))

PgSpec == PgInit /\ [][PgNext]_<<machine, vars, rlVars, rqVars, frVars>> /\ PgFairness
=============================================================================
