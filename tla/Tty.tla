-------------------------------- MODULE Tty --------------------------------
(***************************************************************************)
(* The TTY backend (backend/tty.rs) and the gamma-control protocol         *)
(* (protocols/gamma_control.rs): DRM devices and their connectors come and *)
(* go through udev, the session is paused and resumed by VT switches, and  *)
(* the configuration, the lid and the monitors' power change which outputs *)
(* niri shows.  The backend is kept in the tree although the macOS build   *)
(* does not compile it.                                                    *)
(*                                                                         *)
(* A connector stands for the CRTC that the DRM scanner pairs it with; a   *)
(* monitor is its make, model and serial.  Driver calls succeed, except on *)
(* the connectors whose modeset always fails.                              *)
(***************************************************************************)
EXTENDS FiniteSets, Naturals

CONSTANTS
    TyNone,
    TyProfiles  \* the machines to explore: records [conns: connector -> device,
                \* plugs: connector -> monitors it may get, panels, vr (non-
                \* desktop), broken (modeset fails), legacy (no GAMMA_LUT),
                \* render: device -> render node or TyNone, does: events]

VARIABLES
    tyTty,      \* the Tty structure, with the configuration, the lid and what
                \* niri keeps per output
    tyNodes,    \* the device list of the udev dispatcher
    tyPlug,     \* the monitor on each connector
    tyDirty,    \* devices with a Changed event on its way
    tyActive,   \* LibSeatSession::is_active
    tyPower,    \* Niri::monitors_active
    tyProfile

tyVars == <<tyTty, tyNodes, tyPlug, tyDirty, tyActive, tyPower, tyProfile>>

TyPrimary == "gpu"            \* primary_node
TyPrimaryRender == "render"   \* primary_render_node
Conns == DOMAIN tyProfile.conns
Device(c) == tyProfile.conns[c]
On(devs) == {c \in Conns : Device(c) \in devs}
Enabled(T) == {c \in Conns : T.surf[c] # TyNone}
TyMay(event) == event \in tyProfile.does

-----------------------------------------------------------------------------
\* OutputName::matches against the name of a connector that is already known.
Unique(T, c, monitor) == ~\E k \in Conns : T.known[k] = monitor

\* Whether the configuration or the lid keeps an output off.
should_disable_laptop_panels(T) == T.lid /\ \E c \in T.scan : c \notin tyProfile.panels
should_be_off(T, c) ==
    \/ {c, T.known[c]} \cap T.cfg.off # {}
    \/ should_disable_laptop_panels(T) /\ c \in tyProfile.panels

-----------------------------------------------------------------------------
\* What IPC clients are told: every connector with a CRTC, and which are shown.
refresh_ipc_outputs(T) ==
    [T EXCEPT !.ipc = [c \in Conns |-> IF c \notin T.scan THEN TyNone
                                       ELSE IF T.outs[c] # TyNone THEN "on" ELSE "off"]]

\* Disconnect the connectors in cs: their surface and niri's output go, with
\* the gamma control of the output; a non-desktop one is withdrawn from leasing.
connector_disconnected(T, cs) ==
    [T EXCEPT !.surf = [c \in Conns |-> IF c \in cs THEN TyNone ELSE @[c]],
              !.outs = [c \in Conns |-> IF c \in cs THEN TyNone ELSE @[c]],
              !.hold = [c \in Conns |-> IF c \in cs THEN TyNone ELSE @[c]],
              !.pend = [c \in Conns |-> IF c \in cs THEN TyNone ELSE @[c]],
              !.lease = @ \ cs, !.lit = @ \ cs, !.crtc = @ \ cs, !.queued = @ \ cs]

\* Connect the connectors in cs.  A non-desktop one is only offered for
\* leasing; otherwise gamma is reset, and, unless the modeset fails, niri gets
\* an output that it repositions and so redraws.
connector_connected(T, cs) ==
    LET desktop == cs \ tyProfile.vr
        works   == desktop \ tyProfile.broken
    IN  [T EXCEPT !.lease = @ \cup (cs \cap tyProfile.vr),
                  !.hw    = [c \in Conns |-> IF c \in desktop THEN "linear" ELSE @[c]],
                  !.blob  = [c \in Conns |-> IF c \in desktop THEN "linear" ELSE @[c]],
                  !.surf  = [c \in Conns |-> IF c \in works THEN T.cfg.mode ELSE @[c]],
                  !.outs  = [c \in Conns |-> IF c \in works THEN T.known[c] ELSE @[c]],
                  !.queued = @ \cup works]

\* on_output_config_changed while the session is active: outputs that became
\* off are disconnected, the others get the configured mode, and connected
\* connectors without a surface are connected.
apply_output_config(T) ==
    LET off     == {c \in Enabled(T) : should_be_off(T, c)}
        connect == {c \in T.scan \ (Enabled(T) \cup T.lease) : ~should_be_off(T, c)}
        resized == {c \in Enabled(T) \ off : T.surf[c] # T.cfg.mode}
        modeset == [T EXCEPT !.surf = [c \in Conns |-> IF c \in resized THEN T.cfg.mode ELSE @[c]],
                             !.queued = @ \cup resized, !.later = FALSE]
    IN  refresh_ipc_outputs(connector_connected(connector_disconnected(modeset, off), connect))

on_output_config_changed(T, active) ==
    IF active THEN apply_output_config(T) ELSE [T EXCEPT !.later = TRUE]

-----------------------------------------------------------------------------
\* Name the connectors in cs one by one, unnaming the monitors whose make,
\* model and serial are already known.
RECURSIVE Named(_, _)
Named(T, cs) ==
    IF cs = {} THEN T
    ELSE LET c == CHOOSE c \in cs : TRUE
             name == IF Unique(T, c, tyPlug[c]) THEN tyPlug[c] ELSE c
         IN  Named([T EXCEPT !.known[c] = name], cs \ {c})

\* The CRTCs of a device that stay on: those of connectors that are in use.
cleanup_mismatching_resources(T, d) ==
    [T EXCEPT !.crtc = @ \ {c \in On({d}) : c \notin T.scan \/ should_be_off(T, c)}]

\* Rescan the connectors of a known device; with cleanup (after adding or
\* resuming it) the surfaces read back their state and damage everything.
device_changed(T, d, cleanup) ==
    LET now     == {c \in On({d}) : tyPlug[c] # TyNone}
        removed == (T.scan \cap On({d})) \ now
        gone    == connector_disconnected(
                       [T EXCEPT !.scan = (@ \ On({d})) \cup now,
                                 !.lit = IF cleanup THEN @ \ On({d}) ELSE @,
                                 !.known = [c \in Conns |-> IF c \in removed THEN TyNone ELSE @[c]]],
                       removed)
        named   == Named(gone, now \ T.scan)
    IN  apply_output_config(IF cleanup THEN cleanup_mismatching_resources(named, d) ELSE named)

\* Add a device.  An ignored one is skipped.  A device without a renderer of
\* its own borrows the allocator of the primary device, and cannot be added
\* without it.  The first device on the primary render node creates the dmabuf
\* global.
device_added(T, d) ==
    LET render == tyProfile.render[d]
        ready  == [T EXCEPT !.devs = @ \cup {d}, !.dmabuf = @ \/ render = TyPrimaryRender]
    IN  IF d \in T.ign \/ (render = TyNone /\ TyPrimary \notin T.devs) THEN T
        ELSE device_changed(ready, d, TRUE)

\* A Changed event for a device that is not known yet tries to add it.
device_changed_or_added(T, d) ==
    IF d \in T.ign THEN T
    ELSE IF d \in T.devs THEN device_changed(T, d, FALSE) ELSE device_added(T, d)

\* Remove a device; the dmabuf global goes with the last device that uses the
\* primary render node.
device_removed(T, d) ==
    LET gone     == connector_disconnected(T, T.scan \cap On({d}))
        was_last == ~\E o \in T.devs \ {d} : tyProfile.render[o] = tyProfile.render[d]
    IN  IF d \notin T.devs THEN T
        ELSE refresh_ipc_outputs(
                 [gone EXCEPT !.devs = @ \ {d}, !.scan = @ \ On({d}),
                              !.known = [c \in Conns |-> IF Device(c) = d THEN TyNone ELSE @[c]],
                              !.dmabuf = @ /\ ~(was_last /\ tyProfile.render[d] = TyPrimaryRender)])

RECURSIVE AllRemoved(_, _), AllAdded(_, _, _), AllResumed(_, _)
AllRemoved(T, ds) == IF ds = {} THEN T
                     ELSE LET d == CHOOSE d \in ds : TRUE IN AllRemoved(device_removed(T, d), ds \ {d})
\* The devices are added in the order of a hash map: any may be the first.
AllAdded(T, ds, first) ==
    IF ds = {} THEN T
    ELSE LET d == IF first \in ds THEN first ELSE CHOOSE d \in ds : TRUE
         IN  AllAdded(device_added(T, d), ds \ {d}, first)

\* The gamma of a device that comes back: the change that was asked for in the
\* meantime, or what GAMMA_LUT was.
restore_gamma(T, d) ==
    LET on == On({d}) \cap Enabled(T)
        ramp(c) == IF T.pend[c] # TyNone THEN T.pend[c]
                   ELSE IF c \in tyProfile.legacy THEN T.hw[c] ELSE T.blob[c]
    IN  [T EXCEPT !.hw = [c \in Conns |-> IF c \in on THEN ramp(c) ELSE @[c]],
                  !.blob = [c \in Conns |-> IF c \in on THEN ramp(c) ELSE @[c]],
                  !.pend = [c \in Conns |-> IF c \in on THEN TyNone ELSE @[c]]]
\* Mutant: the connectors of a device that stayed are not scanned again.
AllResumed_NoScan(T, ds) ==
    IF ds = {} THEN T
    ELSE LET d == CHOOSE d \in ds : TRUE
         IN  AllResumed(restore_gamma(T, d), ds \ {d})
AllResumed(T, ds) ==
    IF ds = {} THEN T
    ELSE LET d == CHOOSE d \in ds : TRUE
         IN  AllResumed(restore_gamma(device_changed(T, d, TRUE), d), ds \ {d})

-----------------------------------------------------------------------------
\* The nodes the configuration ignores; the primary one cannot be ignored.
ignored_nodes(T) == T.cfg.ignored \ {TyPrimary}

\* init: the devices of the udev enumeration are added, the primary one first.
TyInit ==
    /\ tyProfile \in TyProfiles
    /\ tyPlug = [c \in Conns |-> TyNone]
    /\ tyNodes = {TyPrimary} /\ tyDirty = {} /\ tyActive = TRUE /\ tyPower = TRUE
    /\ LET none == [c \in Conns |-> TyNone]
           linear == [c \in Conns |-> "linear"]
       IN tyTty = AllAdded([devs |-> {}, scan |-> {}, known |-> none, surf |-> none, outs |-> none,
                            ipc |-> none, hold |-> none, pend |-> none, hw |-> linear, blob |-> linear,
                            lease |-> {}, lit |-> {}, crtc |-> Conns, queued |-> {}, later |-> FALSE, ign |-> {},
                            ignLater |-> FALSE, dmabuf |-> FALSE, lid |-> FALSE,
                            cfg |-> [off |-> {}, mode |-> "auto", ignored |-> {}]],
                           {TyPrimary}, TyPrimary)

\* External: a monitor is plugged into a connector or taken off it; the kernel
\* sends a Changed event for the device.
Replug(c, monitor) ==
    /\ TyMay("plug") /\ Device(c) \in tyNodes /\ tyPlug[c] # monitor /\ TyNone \in {tyPlug[c], monitor}
    /\ tyPlug' = [tyPlug EXCEPT ![c] = monitor]
    /\ tyDirty' = tyDirty \cup {Device(c)}
    /\ UNCHANGED <<tyTty, tyNodes, tyActive, tyPower, tyProfile>>

\* on_udev_event: while the session is inactive, events are skipped.
UdevChanged(d) ==
    /\ d \in tyDirty
    /\ tyDirty' = tyDirty \ {d}
    /\ tyTty' = IF tyActive THEN device_changed_or_added(tyTty, d) ELSE tyTty
    /\ UNCHANGED <<tyNodes, tyPlug, tyActive, tyPower, tyProfile>>
UdevAdded(d) ==
    /\ TyMay("gpu") /\ d \notin tyNodes
    /\ tyNodes' = tyNodes \cup {d}
    /\ tyTty' = IF tyActive THEN device_added(tyTty, d) ELSE tyTty
    /\ UNCHANGED <<tyPlug, tyDirty, tyActive, tyPower, tyProfile>>
UdevRemoved(d) ==
    /\ TyMay("gpu") /\ d \in tyNodes
    /\ tyNodes' = tyNodes \ {d}
    /\ tyDirty' = tyDirty \ {d}
    /\ tyPlug' = [c \in Conns |-> IF Device(c) = d THEN TyNone ELSE tyPlug[c]]
    /\ tyTty' = IF tyActive THEN device_removed(tyTty, d) ELSE tyTty
    /\ UNCHANGED <<tyActive, tyPower, tyProfile>>

\* on_session_event: from the pause on another session owns the hardware.
PauseSession ==
    /\ TyMay("vt") /\ tyActive
    /\ tyActive' = FALSE
    /\ tyTty' = [tyTty EXCEPT !.lit = {}, !.crtc = Conns, !.hw = [c \in Conns |-> "other"]]
    /\ UNCHANGED <<tyNodes, tyPlug, tyDirty, tyPower, tyProfile>>

\* The devices after a resume: gone and newly ignored ones are removed, the
\* others rescanned with their gamma restored, and new ones added.
resumed_devices(T, first) ==
    LET set     == [T EXCEPT !.ign = IF T.ignLater THEN ignored_nodes(T) ELSE @, !.ignLater = FALSE]
        removed == {d \in set.devs : d \notin tyNodes \/ d \in set.ign}
        added   == AllAdded(AllResumed(AllRemoved(set, removed), set.devs \ removed),
                            tyNodes \ set.devs, first)
    IN  IF added.later THEN apply_output_config(added) ELSE refresh_ipc_outputs(added)
\* Mutant: the outputs are not redrawn after the switch back.
ActivateSession_NoRedraw(first) ==
    /\ ~tyActive
    /\ tyActive' = TRUE /\ tyPower' = TRUE
    /\ tyTty' = resumed_devices(tyTty, first)
    /\ UNCHANGED <<tyNodes, tyPlug, tyDirty, tyProfile>>
ActivateSession(first) ==
    /\ ~tyActive
    /\ tyActive' = TRUE /\ tyPower' = TRUE
    /\ tyTty' = LET T == resumed_devices(tyTty, first) IN [T EXCEPT !.queued = @ \cup Enabled(T)]
    /\ UNCHANGED <<tyNodes, tyPlug, tyDirty, tyProfile>>

\* The configuration or the lid changes which outputs should be on.
ReloadOutputs(off, mode) ==
    /\ TyMay("config") /\ <<off, mode>> # <<tyTty.cfg.off, tyTty.cfg.mode>>
    /\ tyTty' = on_output_config_changed([tyTty EXCEPT !.cfg.off = off, !.cfg.mode = mode], tyActive)
    /\ UNCHANGED <<tyNodes, tyPlug, tyDirty, tyActive, tyPower, tyProfile>>
ToggleLid ==
    /\ TyMay("lid")
    /\ tyTty' = on_output_config_changed([tyTty EXCEPT !.lid = ~@], tyActive)
    /\ UNCHANGED <<tyNodes, tyPlug, tyDirty, tyActive, tyPower, tyProfile>>

\* update_ignored_nodes_config.
update_ignored_nodes_config(ignored, first) ==
    /\ TyMay("ignore") /\ ignored # tyTty.cfg.ignored
    /\ LET T   == [tyTty EXCEPT !.cfg.ignored = ignored]
           ign == ignored_nodes(T)
           removed == {d \in T.devs : d \in ign \/ d \notin tyNodes}
           set == AllRemoved([T EXCEPT !.ign = ign], removed)
       IN  tyTty' = IF ~tyActive THEN [T EXCEPT !.ignLater = TRUE]
                    ELSE IF ign = T.ign THEN T
                    ELSE AllAdded(set, (tyNodes \ removed) \ set.devs, first)
    /\ UNCHANGED <<tyNodes, tyPlug, tyDirty, tyActive, tyPower, tyProfile>>

\* The monitors are powered off and on; off clears the CRTCs of the surfaces.
set_monitors_active(active) ==
    /\ TyMay("power") /\ tyPower # active
    /\ tyPower' = active
    /\ tyTty' = IF active THEN [tyTty EXCEPT !.queued = @ \cup Enabled(tyTty)]
                ELSE [tyTty EXCEPT !.lit = {}, !.crtc = @ \ Enabled(tyTty)]
    /\ UNCHANGED <<tyNodes, tyPlug, tyDirty, tyActive, tyProfile>>

\* A queued redraw: it renders unless the monitors are off or the device paused.
render(c) ==
    /\ c \in tyTty.queued
    /\ tyTty' = [tyTty EXCEPT !.queued = @ \ {c},
                              !.lit = IF tyPower /\ tyActive THEN @ \cup {c} ELSE @,
                              !.crtc = IF tyPower /\ tyActive THEN @ \cup {c} ELSE @]
    /\ UNCHANGED <<tyNodes, tyPlug, tyDirty, tyActive, tyPower, tyProfile>>

-----------------------------------------------------------------------------
\* Tty::set_gamma, and GammaProps::set_gamma: the ramp is set, or waits for the
\* session to be resumed.
set_gamma(T, c, ramp) ==
    IF c \notin Enabled(T) THEN T
    ELSE IF ~tyActive THEN [T EXCEPT !.pend[c] = ramp]
    ELSE [T EXCEPT !.hw[c] = ramp, !.blob[c] = ramp]

\* GetGammaControl: one control per output; later ones fail.
GetGammaControl(c) ==
    /\ TyMay("gamma") /\ c \in Enabled(tyTty) /\ tyTty.hold[c] = TyNone
    /\ tyTty' = [tyTty EXCEPT !.hold[c] = "linear"]
    /\ UNCHANGED <<tyNodes, tyPlug, tyDirty, tyActive, tyPower, tyProfile>>
\* SetGamma with a ramp that the output accepts.
SetGamma(c, ramp) ==
    /\ c \in Enabled(tyTty) /\ tyTty.hold[c] \notin {TyNone, ramp}
    /\ tyTty' = set_gamma([tyTty EXCEPT !.hold[c] = ramp], c, ramp)
    /\ UNCHANGED <<tyNodes, tyPlug, tyDirty, tyActive, tyPower, tyProfile>>
\* The control is destroyed, or ends with failed() after unreadable ramp data.
EndGammaControl(c) ==
    /\ tyTty.hold[c] # TyNone
    /\ tyTty' = set_gamma([tyTty EXCEPT !.hold[c] = TyNone], c, "linear")
    /\ UNCHANGED <<tyNodes, tyPlug, tyDirty, tyActive, tyPower, tyProfile>>

Gpus == DOMAIN tyProfile.render
TyNext ==
    \/ \E c \in Conns : \E m \in tyProfile.plugs[c] \cup {TyNone} : Replug(c, m)
    \/ \E d \in Gpus : UdevChanged(d) \/ UdevAdded(d) \/ UdevRemoved(d) \/ ActivateSession(d)
    \/ PauseSession
    \/ \E off \in {{}, {"DP1"}, {"mon"}}, mode \in {"auto", "1080p"} : ReloadOutputs(off, mode)
    \/ ToggleLid
    \/ \E ignored \in SUBSET Gpus, d \in Gpus : update_ignored_nodes_config(ignored, d)
    \/ \E active \in BOOLEAN : set_monitors_active(active)
    \/ \E c \in Conns : render(c) \/ GetGammaControl(c) \/ SetGamma(c, "warm") \/ EndGammaControl(c)

TySpec == TyInit /\ [][TyNext]_tyVars

-----------------------------------------------------------------------------
Settled == tyActive /\ tyDirty = {}
\* The outputs that should be on.
Wanted == {c \in On(tyTty.devs) : /\ tyPlug[c] # TyNone /\ c \notin tyProfile.vr \cup tyProfile.broken
                                  /\ ~should_be_off(tyTty, c)}

\* Once hotplug events are handled, the outputs niri shows are those that are
\* plugged in and neither configured off nor hidden by the lid, in the
\* configured mode, and exactly the plugged headsets are offered for leasing:
\* whatever changed while the session was switched away.  Only a laptop panel
\* may be missing: removing a whole device does not bring it back.
OutputsFollowHardware ==
    Settled => /\ Enabled(tyTty) \subseteq Wanted
               /\ Wanted \ Enabled(tyTty) \subseteq tyProfile.panels
               /\ \A c \in Enabled(tyTty) : tyTty.surf[c] = tyTty.cfg.mode
               /\ \A c \in On(tyTty.devs) \cap tyProfile.vr :
                      /\ c \in tyTty.lease => tyPlug[c] # TyNone
                      /\ tyPlug[c] # TyNone /\ ~should_be_off(tyTty, c) => c \in tyTty.lease

\* niri's outputs are the enabled surfaces, and no two of them have the same
\* name, which the layout could not handle, although identical monitors may be
\* plugged in, in any order and on any device.
OutputNamesUnique ==
    /\ {c \in Conns : tyTty.outs[c] # TyNone} = Enabled(tyTty)
    /\ \A c, d \in Enabled(tyTty) : c # d => tyTty.outs[c] # tyTty.outs[d]

\* While the session is active and the monitors are on, every output shows a
\* frame or has a redraw queued: none stays black after a VT switch, power-on,
\* hotplug or mode change.  While they are off, none shows a frame.
LitOrQueued ==
    /\ tyActive /\ tyPower => Enabled(tyTty) \subseteq tyTty.lit \cup tyTty.queued
    /\ ~tyPower => tyTty.lit = {}

\* Once hotplug events are handled, the CRTCs that are lit belong to connectors
\* in use, although another session, or the firmware, may have lit any.
NoStrayCrtc ==
    Settled => tyTty.crtc \cap On(tyTty.devs) \subseteq
                   Enabled(tyTty) \cup (tyTty.scan \cap (tyProfile.vr \cup tyProfile.broken))

\* While the session is active, an output has the gamma ramp its control asked
\* for last, or none: across VT switches and the control's end.
GammaFollowsControl ==
    tyActive => \A c \in Enabled(tyTty) \ tyProfile.legacy :
        tyTty.hw[c] = IF tyTty.hold[c] = TyNone THEN "linear" ELSE tyTty.hold[c]

\* IPC clients are told of every connector, with the outputs that are shown, and
\* the dmabuf global exists while a device uses the primary render node.
PublishedMatchesDevices ==
    /\ \A c \in Conns : /\ tyTty.ipc[c] # TyNone <=> c \in tyTty.scan
                        /\ tyTty.ipc[c] = "on" <=> c \in Enabled(tyTty)
    /\ tyTty.dmabuf <=> \E d \in tyTty.devs : tyProfile.render[d] = TyPrimaryRender

\* The outputs, their names, CRTCs and gamma ramps and what clients are told of
\* them are those of the hardware and the configuration, across hotplug, VT
\* switches, the lid and configuration changes.
TtyConsistent ==
    /\ OutputsFollowHardware /\ OutputNamesUnique /\ NoStrayCrtc
    /\ GammaFollowsControl /\ PublishedMatchesDevices
=============================================================================
