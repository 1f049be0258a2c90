-------------------------- MODULE OutputManagement --------------------------
(***************************************************************************)
(* Output configuration as a client of wlr-output-management sees it       *)
(* (protocols/output_management.rs): heads and modes are sent as the       *)
(* difference of two states of the outputs, every change has a serial, and *)
(* a client builds a configuration against a serial and applies it.  The   *)
(* same settings change from IPC (apply_transient_output_config), and all  *)
(* go through reload_output_config to the backend.                         *)
(*                                                                         *)
(* Of an output this keeps its list of modes (a custom mode is listed      *)
(* while it is used), the current one, and its place; scale, transform and *)
(* adaptive sync are settings of the same form as the place.               *)
(***************************************************************************)
EXTENDS Integers, FiniteSets, Sequences

CONSTANTS
    OmNone,
    OmOutputs, OmConfs,   \* outputs, and configuration objects
    OmSerialMax,          \* bound: changes notified
    OmProfiles            \* set-ups: the outputs plugged in them, and what happens
VARIABLES
    omReal,      \* output -> its state in the backend, or OmNone
    omBase,      \* output -> the mode it offers
    omChanged,   \* ipc_outputs_changed
    omConfig,    \* Config::outputs: output -> settings, or OmNone
    omSeen,      \* current_state
    omSeenCfg,   \* current_config
    omSerial,
    omHeads,     \* what the client was told: output -> head or OmNone
    omBound,     \* the client has a manager
    omConfs,     \* configuration -> its serial, state, settings and results
    omApplied,   \* outputs of the last Apply that were not in current_state
    omProfile

omOut == <<omReal, omBase, omChanged, omConfig>>
omSrv == <<omSeen, omSeenCfg, omSerial>>
omCli == <<omHeads, omBound, omConfs, omApplied>>
omVars == <<omOut, omSrv, omCli, omProfile>>

Present(state) == {o \in OmOutputs : state[o] # OmNone}
Nobody == [o \in OmOutputs |-> OmNone]
Settings == [off |-> FALSE, custom |-> FALSE, pos |-> 1]
ConfigOf(config, o) == IF config[o] = OmNone THEN Settings ELSE config[o]
OmMay(what) == what \in omProfile.may
NoConf == [k |-> "none", serial |-> 0, sets |-> Nobody, results |-> 0]

-----------------------------------------------------------------------------
\* What the backend makes of the settings of an output; place 0 and mode 0 are none.
Realize(o, config, base) ==
    LET c == ConfigOf(config, o)
    IN  CASE c.off -> [modes |-> <<base[o]>>, cur |-> 0, pos |-> 0]
          [] ~c.off /\ c.custom -> [modes |-> <<"custom", base[o]>>, cur |-> 1, pos |-> c.pos]
          [] ~c.off /\ ~c.custom -> [modes |-> <<base[o]>>, cur |-> 1, pos |-> c.pos]
\* reload_output_config, with on_output_config_changed of the backend.
reload_output_config(config) ==
    /\ omConfig' = config /\ omSeenCfg' = config
    /\ omReal' = [o \in OmOutputs |-> IF omReal[o] = OmNone THEN OmNone ELSE Realize(o, config, omBase)]
    /\ omChanged' = TRUE
Plug(o) ==
    /\ o \in omProfile.outputs
    /\ omReal' = [omReal EXCEPT ![o] = IF @ = OmNone THEN Realize(o, omConfig, omBase) ELSE OmNone]
    /\ omChanged' = TRUE
    /\ UNCHANGED <<omBase, omConfig, omSrv, omCli>>
\* A nested or virtual output changes its only mode.
ModesChange(o) ==
    /\ OmMay("modes") /\ omReal[o] # OmNone
    /\ omBase' = [omBase EXCEPT ![o] = IF @ = "m" THEN "n" ELSE "m"]
    /\ omReal' = [omReal EXCEPT ![o] = Realize(o, omConfig, omBase')]
    /\ omChanged' = TRUE
    /\ UNCHANGED <<omConfig, omSrv, omCli>>
\* modify_output_config adds a section if there is none.
apply_transient_output_config(o, field, value) ==
    /\ OmMay("ipc") /\ o \in omProfile.outputs
    /\ reload_output_config([omConfig EXCEPT ![o] = [ConfigOf(omConfig, o) EXCEPT ![field] = value]])
    /\ UNCHANGED <<omBase, omSeen, omSerial, omCli>>

-----------------------------------------------------------------------------
\* send_new_head.
send_new_head(conf) ==
    [modes |-> conf.modes, cur |-> conf.cur, enabled |-> conf.cur # 0, pos |-> conf.pos]
\* notify_changes for one head: modes, then current mode, then place.
\* Mutant: modes past the shorter list are left as they are.
ModeDiff_Zip(head, old, conf) ==
    [head EXCEPT !.modes = [i \in DOMAIN @ |-> IF i \in DOMAIN conf.modes THEN conf.modes[i] ELSE @[i]]]
ModeDiff(head, old, conf) == IF old.modes # conf.modes THEN [head EXCEPT !.modes = conf.modes] ELSE head
CurrentDiff(head, old, conf) ==
    LET same == Len(old.modes) = Len(conf.modes)
    IN  CASE old.cur # 0 /\ conf.cur # 0 ->
               IF same /\ (old.modes # conf.modes \/ old.cur # conf.cur)
               THEN [head EXCEPT !.cur = conf.cur] ELSE head
          [] old.cur # 0 /\ conf.cur = 0 -> [head EXCEPT !.enabled = FALSE]
          [] old.cur = 0 /\ conf.cur # 0 ->
               IF same THEN [head EXCEPT !.enabled = TRUE, !.cur = conf.cur] ELSE head
          [] old.cur = 0 /\ conf.cur = 0 -> head
PlaceDiff(head, old, conf) ==
    IF conf.pos # 0 /\ old.pos # conf.pos THEN [head EXCEPT !.pos = conf.pos] ELSE head
HeadAfter(head, old, conf) ==
    IF conf = OmNone THEN OmNone
    ELSE IF old = OmNone THEN send_new_head(conf)
    ELSE IF head = OmNone THEN OmNone
    ELSE PlaceDiff(CurrentDiff(ModeDiff(head, old, conf), old, conf), old, conf)
\* refresh_ipc_outputs and notify_changes; each change cancels the configurations.
notify_changes ==
    /\ omChanged /\ omSerial < OmSerialMax
    /\ omChanged' = FALSE
    /\ omSeen' = omReal
    /\ omSerial' = IF omSeen # omReal THEN omSerial + 1 ELSE omSerial
    /\ omHeads' = IF omBound THEN [o \in OmOutputs |-> HeadAfter(omHeads[o], omSeen[o], omReal[o])] ELSE omHeads
    /\ UNCHANGED <<omReal, omBase, omConfig, omSeenCfg, omBound, omConfs, omApplied>>

\* bind; and Stop, destruction of the manager, or a protocol error.
om_bind ==
    /\ ~omBound /\ omBound' = TRUE
    /\ omHeads' = [o \in OmOutputs |-> IF omSeen[o] = OmNone THEN OmNone ELSE send_new_head(omSeen[o])]
    /\ UNCHANGED <<omOut, omSrv, omConfs, omApplied>>
Disconnect == omBound' = FALSE /\ omHeads' = Nobody /\ omConfs' = [c \in OmConfs |-> NoConf] /\ UNCHANGED omApplied
Stop == omBound /\ Disconnect /\ UNCHANGED <<omOut, omSrv>>
\* A client destroys the head of an output.
ReleaseHead(o) ==
    /\ omHeads[o] # OmNone /\ omHeads' = [omHeads EXCEPT ![o] = OmNone]
    /\ UNCHANGED <<omOut, omSrv, omBound, omConfs, omApplied>>

CreateConfiguration(c, serial) ==
    /\ OmMay("conf") /\ omBound /\ omConfs[c].k = "none"
    /\ omConfs' = [omConfs EXCEPT ![c] = [k |-> "ongoing", serial |-> serial, sets |-> Nobody, results |-> 0]]
    /\ UNCHANGED <<omOut, omSrv, omHeads, omBound, omApplied>>
OmOutdated(c) == omConfs[c].serial # omSerial
\* EnableHead and DisableHead copy the settings there are.
ConfigureHead(c, o, off) ==
    /\ omBound /\ omConfs[c].k # "none" /\ omHeads[o] # OmNone
    /\ UNCHANGED <<omOut, omSrv>>
    /\ \/ /\ OmOutdated(c) \/ (omConfs[c].k = "ongoing" /\ omSeen[o] = OmNone)
          /\ UNCHANGED omCli
       \/ /\ ~OmOutdated(c) /\ (omConfs[c].k = "finished" \/ (omSeen[o] # OmNone /\ omConfs[c].sets[o] # OmNone))
          /\ Disconnect
       \/ /\ ~OmOutdated(c) /\ omConfs[c].k = "ongoing" /\ omSeen[o] # OmNone /\ omConfs[c].sets[o] = OmNone
          /\ omConfs' = [omConfs EXCEPT ![c].sets[o] = [ConfigOf(omSeenCfg, o) EXCEPT !.off = off]]
          /\ UNCHANGED <<omHeads, omBound, omApplied>>
\* A request of a configuration head: SetMode, SetCustomMode, SetPosition.
SetHead(c, o, field, value) ==
    /\ OmMay("set") /\ omBound /\ omConfs[c].k # "none" /\ omConfs[c].sets[o] # OmNone /\ ~omConfs[c].sets[o].off
    /\ UNCHANGED <<omOut, omSrv>>
    /\ \/ OmOutdated(c) /\ UNCHANGED omCli
       \/ ~OmOutdated(c) /\ omConfs[c].k = "finished" /\ Disconnect
       \/ /\ ~OmOutdated(c) /\ omConfs[c].k = "ongoing"
          /\ omConfs' = [omConfs EXCEPT ![c].sets[o][field] = value]
          /\ UNCHANGED <<omHeads, omBound, omApplied>>
\* Apply replaces all settings of outputs by those of the configuration; Test only
\* uses it up. Neither turns everything off.
Finish(c) == [omConfs EXCEPT ![c].k = "finished", ![c].results = @ + 1]
TryConfiguration(c, apply) ==
    /\ omBound /\ omConfs[c].k # "none"
    /\ \/ OmOutdated(c) /\ UNCHANGED <<omOut, omSrv, omCli>>
       \/ ~OmOutdated(c) /\ omConfs[c].k = "finished" /\ Disconnect /\ UNCHANGED <<omOut, omSrv>>
       \/ /\ ~OmOutdated(c) /\ omConfs[c].k = "ongoing"
          /\ omConfs' = Finish(c) /\ UNCHANGED <<omBase, omSeen, omSerial, omHeads, omBound>>
          /\ LET sets == omConfs[c].sets
             IN  IF apply /\ \E o \in Present(sets) : ~sets[o].off
                 THEN reload_output_config(sets) /\ omApplied' = Present(sets) \ Present(omSeen)
                 ELSE UNCHANGED <<omReal, omChanged, omConfig, omSeenCfg, omApplied>>

\* A client destroys a configuration.
Destroy(c) ==
    /\ omConfs[c].k # "none" /\ omConfs' = [omConfs EXCEPT ![c] = NoConf]
    /\ UNCHANGED <<omOut, omSrv, omHeads, omBound, omApplied>>

OmInit ==
    /\ omBase = [o \in OmOutputs |-> "m"] /\ omConfig = Nobody /\ omSeenCfg = Nobody
    /\ omReal = Nobody /\ omSeen = Nobody /\ omChanged = FALSE /\ omSerial = 0
    /\ omHeads = Nobody /\ omBound = FALSE /\ omConfs = [c \in OmConfs |-> NoConf]
    /\ omApplied = {} /\ omProfile \in OmProfiles
OmStep ==
    \/ notify_changes \/ om_bind \/ Stop
    \/ \E o \in OmOutputs : Plug(o) \/ ModesChange(o) \/ ReleaseHead(o)
    \/ \E o \in OmOutputs, v \in BOOLEAN, f \in {"off", "custom"} : apply_transient_output_config(o, f, v)
    \/ \E c \in OmConfs, s \in {omSerial, omSerial - 1} : CreateConfiguration(c, s)
    \/ \E c \in OmConfs, o \in OmOutputs, off \in BOOLEAN : ConfigureHead(c, o, off)
    \/ \E c \in OmConfs, o \in OmOutputs, v \in BOOLEAN : SetHead(c, o, "custom", v)
    \/ \E c \in OmConfs, o \in OmOutputs : SetHead(c, o, "pos", 2)
    \/ \E c \in OmConfs : Destroy(c)
    \/ \E c \in OmConfs, apply \in BOOLEAN : TryConfiguration(c, apply)
OmNext == OmStep /\ UNCHANGED omProfile
OmSpec == OmInit /\ [][OmNext]_omVars

-----------------------------------------------------------------------------
\* The heads of the client are the outputs of the last change, with their modes and,
\* if enabled, their place: the differences sent add up to the state.
HeadsMirrorOutputs ==
    \A o \in OmOutputs : omHeads[o] # OmNone =>
        /\ omSeen[o] # OmNone /\ omHeads[o].modes = omSeen[o].modes
        /\ omSeen[o].pos # 0 => omHeads[o].pos = omSeen[o].pos

\* A configuration is applied only to outputs there were at the last change, whatever
\* was plugged while the client built it.
AppliedHeadsExist == omApplied = {}

\* A configuration succeeds or fails at most once.
ConfigurationUsedOnce == \A c \in OmConfs : omConfs[c].results <= 1

\* "head enable in the mode diff check": an enabled output has an enabled head, with
\* the current mode of the output.
HeadsEnabledAsOutputs ==
    \A o \in OmOutputs : omHeads[o] # OmNone /\ omSeen[o] # OmNone =>
        omHeads[o].enabled <=> omSeen[o].cur # 0
=============================================================================
