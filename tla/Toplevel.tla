------------------------------ MODULE Toplevel ------------------------------
(***************************************************************************)
(* The life of an xdg_toplevel: src/src/handlers/xdg_shell.rs (requests,   *)
(* the initial configure, destruction), src/src/handlers/compositor.rs     *)
(* (commits that map and unmap it), src/src/window/unmapped.rs.            *)
(*                                                                         *)
(* A toplevel waits in Niri::unmapped_windows until its first commit with  *)
(* a buffer, then lives in the layout, and goes back when it commits a     *)
(* null buffer.  The initial configure is sent from an idle callback, so   *)
(* that outputs, workspaces and parents may come and go between the        *)
(* client's first commit, the configure computed from them, and the        *)
(* commit that maps the window with what the configure decided.            *)
(*                                                                         *)
(* Sizes, popups and decoration modes are data and left out.  The layout   *)
(* is reduced to where a window is and whether it is fullscreen or         *)
(* maximized; Workspace and Layout model it.  Smithay's part (the pending  *)
(* toplevel state it resets when a toplevel is unmapped, the protocol      *)
(* errors that end clients) is external.                                   *)
(***************************************************************************)
EXTENDS Naturals

CONSTANTS TlNone, TlOutputs, TlWindows, TlProfiles

VARIABLES tlCfg,       \* the window rule in force and what happens around it
          tlOuts,      \* connected outputs
          tlActive,    \* the active monitor's output
          tlNamed,     \* where the named workspace is: output, "nowhere", "gone"
          tlSurf,      \* each window's wl_surface: "none", "live", "dead"
          tlTop,       \* each window's xdg_toplevel: "none", "live", "dead"
          tlUnmapped,  \* Niri::unmapped_windows
          tlLayout,    \* the layout's windows
          tlHook,      \* surfaces with the default dmabuf pre-commit hook
          tlPend,      \* pending states of a toplevel that is not in the layout
          tlAck,       \* may the client attach a buffer: "no", "stale", "yes"
          tlParent,    \* the parent a client set
          tlIdles,     \* queued initial-configure callbacks
          tlAsk,       \* what the client and the rule asked for (history)
          tlOwed,      \* windows owed a configure (history)
          tlPanic      \* the layout was given a target that does not exist

\* Profiles: a parent window, if any, is on output "a"; the rule in force; the
\* windows and callbacks there can be; and what happens around them.
TlCfgs == [parent : TlWindows \cup {TlNone}, new : SUBSET TlWindows, idles : Nat, may : SUBSET STRING,
           rule : [ws : BOOLEAN, out : TlOutputs \cup {TlNone}, fs : {"yes", "no", "none"},
                   max : {"yes", "no", "none"}, focus : {"yes", "no", "none"}]]
\* Unmapped windows, windows in the layout, states of a toplevel, requests.
Unmappeds == [conf : BOOLEAN, wfs : TlOutputs \cup {"no", "any"}, wmax : BOOLEAN, tok : {"none", "fresh", "old"},
              out : TlOutputs \cup {TlNone}, ws : BOOLEAN, pmax : BOOLEAN]
Tiles == [at : TlOutputs \cup {"nowhere"}, fs : BOOLEAN, max : BOOLEAN, needs : BOOLEAN, raw : BOOLEAN,
          act : {"yes", "no", "smart"}]
Toplevels == [fs : BOOLEAN, max : BOOLEAN]
Asks == [fs : BOOLEAN, max : BOOLEAN, lost : BOOLEAN, follows : BOOLEAN]

ASSUME TlAssumption ==
  /\ "a" \in TlOutputs /\ TlOutputs \cap {TlNone, "nowhere", "gone", "any", "no"} = {}
  /\ TlNone \notin Unmappeds \cup Tiles \cup {"nowhere", "gone", "any", "no"}
  /\ TlProfiles \subseteq TlCfgs

tlVars == <<tlCfg, tlOuts, tlActive, tlNamed, tlSurf, tlTop, tlUnmapped, tlLayout, tlHook,
            tlPend, tlAck, tlParent, tlIdles, tlAsk, tlOwed, tlPanic>>
tlWorld == <<tlOuts, tlActive, tlNamed>>
tlClient == <<tlSurf, tlTop, tlParent, tlAck>>

TlMay(what) == what \in tlCfg.may

\* Unmapped::new.
UnmappedNew == [conf |-> FALSE, wfs |-> "no", wmax |-> FALSE, tok |-> "none",
                out |-> TlNone, ws |-> FALSE, pmax |-> FALSE]
NoStates == [fs |-> FALSE, max |-> FALSE]
NoAsk == [fs |-> FALSE, max |-> FALSE, lost |-> FALSE, follows |-> FALSE]

\* A profile's parent window, if it has one, is mapped on output "a" from the
\* start; the other window does not exist yet.
TlInit ==
  /\ tlCfg \in TlProfiles
  /\ tlOuts = TlOutputs /\ tlActive \in TlOutputs /\ tlNamed \in TlOutputs
  /\ tlSurf = [w \in TlWindows |-> IF w = tlCfg.parent THEN "live" ELSE "none"]
  /\ tlTop = tlSurf
  /\ tlUnmapped = [w \in TlWindows |-> TlNone]
  /\ tlLayout = [w \in TlWindows |->
       IF w = tlCfg.parent
         THEN [at |-> "a", fs |-> FALSE, max |-> FALSE, needs |-> FALSE,
               raw |-> FALSE, act |-> "yes"]
         ELSE TlNone]
  /\ tlHook = {} /\ tlPend = [w \in TlWindows |-> NoStates]
  /\ tlAck = [w \in TlWindows |-> IF w = tlCfg.parent THEN "yes" ELSE "no"]
  /\ tlParent = [w \in TlWindows |-> TlNone]
  /\ tlIdles = [w \in TlWindows |-> 0]
  /\ tlAsk = [w \in TlWindows |-> NoAsk] /\ tlOwed = {} /\ tlPanic = FALSE

\* The type of the state.
TlTypeOK ==
  /\ tlCfg \in TlCfgs /\ tlOuts \subseteq TlOutputs
  /\ tlActive \in TlOutputs \cup {TlNone} /\ tlNamed \in TlOutputs \cup {"nowhere", "gone"}
  /\ tlSurf \in [TlWindows -> {"none", "live", "dead"}] /\ tlTop \in [TlWindows -> {"none", "live", "dead"}]
  /\ tlUnmapped \in [TlWindows -> Unmappeds \cup {TlNone}] /\ tlLayout \in [TlWindows -> Tiles \cup {TlNone}]
  /\ tlHook \subseteq TlWindows /\ tlPend \in [TlWindows -> Toplevels]
  /\ tlAck \in [TlWindows -> {"no", "stale", "yes"}] /\ tlParent \in [TlWindows -> TlWindows \cup {TlNone}]
  /\ tlIdles \in [TlWindows -> Nat] /\ tlAsk \in [TlWindows -> Asks]
  /\ tlOwed \subseteq TlWindows /\ tlPanic \in BOOLEAN

IsIn(w) == tlLayout[w] # TlNone
IsUnmapped(w) == tlUnmapped[w] # TlNone

-----------------------------------------------------------------------------
(* Where a window is configured for. *)

\* Layout::monitor_for_output.
monitor_for_output(o) == IF o \in tlOuts THEN o ELSE TlNone

\* Layout::monitor_for_workspace of the named workspace.
monitor_for_workspace == IF tlNamed \in tlOuts THEN tlNamed ELSE TlNone

ParentMonitor(w) ==
  IF tlParent[w] # TlNone /\ IsIn(tlParent[w])
    THEN monitor_for_output(tlLayout[tlParent[w]].at) ELSE TlNone

\* The first monitor there is among an explicit one, the parent's and the
\* active one, and the output remembered for mapping: a window that follows its
\* parent remembers none.
PickMonitor(w, explicit) ==
  IF explicit # TlNone THEN [mon |-> explicit, out |-> explicit]
  ELSE IF ParentMonitor(w) # TlNone THEN [mon |-> ParentMonitor(w), out |-> TlNone]
  ELSE [mon |-> tlActive, out |-> tlActive]

\* Whether the lookup of the workspace to configure for finds one, when `named`
\* says that a workspace name is looked up on the monitor: a monitor without
\* that workspace gives none, rather than its active one.
FindsWorkspace(mon, named) == mon # TlNone /\ (named => tlNamed = mon)

\* The named workspace may or may not be the active one of its monitor.
WorkspaceNames(mon, named) ==
  IF ~FindsWorkspace(mon, named) THEN {FALSE}
  ELSE IF named THEN {TRUE}
  ELSE IF tlNamed = mon THEN BOOLEAN ELSE {FALSE}

-----------------------------------------------------------------------------
(* The initial configure. *)

\* What the window shall open as: the rule, when it says, else the request.
Opens(rule, asked) == rule = "yes" \/ (rule = "none" /\ asked)

\* Fullscreen and Maximized are never set together.
ToplevelStates(fs, max) == [fs |-> fs, max |-> max /\ ~fs]

\* State::send_initial_configure.
send_initial_configure(w) ==
  LET u == tlUnmapped[w]
      byWs == IF tlCfg.rule.ws THEN monitor_for_workspace ELSE TlNone
      byOut == monitor_for_output(tlCfg.rule.out)
      pick == PickMonitor(w, IF byWs # TlNone THEN byWs ELSE IF byOut # TlNone THEN byOut
                             ELSE monitor_for_output(u.wfs))
      found == FindsWorkspace(pick.mon, tlCfg.rule.ws)
      pmax == found /\ Opens(tlCfg.rule.max, u.wmax)
      fs == found /\ Opens(tlCfg.rule.fs, u.wfs # "no")
  IN /\ \E name \in WorkspaceNames(pick.mon, tlCfg.rule.ws) :
          tlUnmapped' = [tlUnmapped EXCEPT ![w] =
            [UnmappedNew EXCEPT !.conf = TRUE, !.tok = u.tok, !.out = pick.out, !.ws = name,
                                !.pmax = pmax]]
     /\ tlPend' = [tlPend EXCEPT ![w] = ToplevelStates(fs, pmax)]
     /\ tlAsk' = [tlAsk EXCEPT ![w] =
          [fs |-> Opens(tlCfg.rule.fs, @.fs), max |-> Opens(tlCfg.rule.max, @.max),
           lost |-> ~found,
           follows |-> ParentMonitor(w) # TlNone /\ byWs = TlNone /\ byOut = TlNone
                      /\ u.wfs \in {"no", "any"}]]
     /\ tlOwed' = tlOwed \ {w}
     /\ tlAck' = [tlAck EXCEPT ![w] = "yes"]

\* The idle callback of State::queue_initial_configure.
InitialConfigureIdle(w) ==
  /\ tlIdles[w] > 0
  /\ tlIdles' = [tlIdles EXCEPT ![w] = @ - 1]
  /\ IF tlTop[w] = "live" /\ IsUnmapped(w) /\ ~tlUnmapped[w].conf
       THEN send_initial_configure(w)
       ELSE UNCHANGED <<tlUnmapped, tlPend, tlAsk, tlOwed, tlAck>>
  /\ UNCHANGED <<tlCfg, tlWorld, tlSurf, tlTop, tlParent, tlLayout, tlHook, tlPanic>>

-----------------------------------------------------------------------------
(* What clients ask for.  A request to a window that is not configured is    *)
(* remembered; to a configured one it is answered at once; a mapped one is   *)
(* flagged and answered by the layout's next send_pending_configure.         *)

Client(w) == tlTop[w] = "live" /\ tlSurf[w] = "live"

\* Answers a request to a configured, unmapped window: the states change only
\* if there is a workspace to configure it for.
Reconfigure(w, ask, pick, found, pmax, fs) ==
  /\ tlUnmapped' = [tlUnmapped EXCEPT ![w].out = pick.out, ![w].pmax = IF found THEN pmax ELSE @]
  /\ tlPend' = [tlPend EXCEPT ![w] = IF found THEN ToplevelStates(fs, pmax) ELSE @]
  /\ tlAsk' = [tlAsk EXCEPT ![w] = [ask EXCEPT !.lost = ask.lost \/ ~found,
                                               !.follows = ask.follows /\ ParentMonitor(w) # TlNone]]
  /\ UNCHANGED <<tlLayout, tlOwed>>

\* Mapped::set_needs_configure, and the layout's new mode for the window.
SetMapped(w, ask, mode) ==
  /\ tlLayout' = [tlLayout EXCEPT ![w] = [mode EXCEPT !.needs = TRUE]]
  /\ tlOwed' = tlOwed \cup {w}
  /\ tlAsk' = [tlAsk EXCEPT ![w] = ask]
  /\ UNCHANGED <<tlUnmapped, tlPend>>

\* A request remembered for the initial configure.
Remember(w, ask, unmapped) ==
  /\ tlUnmapped' = [tlUnmapped EXCEPT ![w] = unmapped]
  /\ tlOwed' = tlOwed \cup {w}
  /\ tlAsk' = [tlAsk EXCEPT ![w] = ask]
  /\ UNCHANGED <<tlLayout, tlPend>>

\* XdgShellHandler::maximize_request.
maximize_request(w) ==
  LET ask == [tlAsk[w] EXCEPT !.max = TRUE] IN
  IF IsIn(w) THEN SetMapped(w, ask, [tlLayout[w] EXCEPT !.max = TRUE])
  ELSE IF ~tlUnmapped[w].conf THEN Remember(w, ask, [tlUnmapped[w] EXCEPT !.wmax = TRUE])
  ELSE LET pick == PickMonitor(w, monitor_for_output(tlUnmapped[w].out))
       IN Reconfigure(w, ask, pick, FindsWorkspace(pick.mon, FALSE), TRUE, tlPend[w].fs)

\* The monitor that the two requests which go back to a normal size start from.
NamedOrOwn(w) ==
  IF tlUnmapped[w].ws /\ monitor_for_workspace # TlNone THEN monitor_for_workspace
  ELSE monitor_for_output(tlUnmapped[w].out)

\* They make a window that has a workspace name stop following its parent.
Named(w, ask) == [ask EXCEPT !.follows = ask.follows /\ (IsUnmapped(w) => ~tlUnmapped[w].ws)]

\* XdgShellHandler::unmaximize_request.
unmaximize_request(w) ==
  LET ask == Named(w, [tlAsk[w] EXCEPT !.max = FALSE]) IN
  IF IsIn(w) THEN SetMapped(w, ask, [tlLayout[w] EXCEPT !.max = FALSE])
  ELSE IF ~tlUnmapped[w].conf THEN Remember(w, ask, [tlUnmapped[w] EXCEPT !.wmax = FALSE])
  ELSE LET pick == PickMonitor(w, NamedOrOwn(w))
       IN Reconfigure(w, ask, pick, FindsWorkspace(pick.mon, tlUnmapped[w].ws), FALSE, tlPend[w].fs)

\* XdgShellHandler::fullscreen_request, for an output or "any".
fullscreen_request(w, o) ==
  LET ask == [tlAsk[w] EXCEPT !.fs = TRUE, !.follows = tlAsk[w].follows /\ o = "any"] IN
  IF IsIn(w)
    THEN SetMapped(w, ask, [tlLayout[w] EXCEPT !.fs = TRUE,
                         !.at = IF {o, tlLayout[w].at} \subseteq tlOuts THEN o ELSE tlLayout[w].at])
  ELSE IF ~tlUnmapped[w].conf THEN Remember(w, ask, [tlUnmapped[w] EXCEPT !.wfs = o])
  ELSE LET u == tlUnmapped[w]
           pick == PickMonitor(w, monitor_for_output(IF o = "any" THEN u.out ELSE o))
       IN Reconfigure(w, ask, pick, FindsWorkspace(pick.mon, FALSE), u.pmax, TRUE)

\* Mutant: leaving fullscreen forgets that the window was to be maximized.
unfullscreen_request_Forgets(w) ==
  LET ask == Named(w, [tlAsk[w] EXCEPT !.fs = FALSE]) IN
  IF IsIn(w) THEN SetMapped(w, ask, [tlLayout[w] EXCEPT !.fs = FALSE])
  ELSE IF ~tlUnmapped[w].conf THEN Remember(w, ask, [tlUnmapped[w] EXCEPT !.wfs = "no"])
  ELSE LET pick == PickMonitor(w, NamedOrOwn(w))
       IN Reconfigure(w, ask, pick, FindsWorkspace(pick.mon, tlUnmapped[w].ws), FALSE, FALSE)

\* XdgShellHandler::unfullscreen_request.
unfullscreen_request(w) ==
  LET ask == Named(w, [tlAsk[w] EXCEPT !.fs = FALSE]) IN
  IF IsIn(w) THEN SetMapped(w, ask, [tlLayout[w] EXCEPT !.fs = FALSE])
  ELSE IF ~tlUnmapped[w].conf THEN Remember(w, ask, [tlUnmapped[w] EXCEPT !.wfs = "no"])
  ELSE LET u == tlUnmapped[w]
           pick == PickMonitor(w, NamedOrOwn(w))
       IN Reconfigure(w, ask, pick, FindsWorkspace(pick.mon, u.ws), u.pmax, FALSE)

Request(w) ==
  /\ Client(w) /\ (IsIn(w) \/ IsUnmapped(w))
  /\ \/ TlMay("max") /\ (maximize_request(w) \/ unmaximize_request(w))
     \/ unfullscreen_request(w) \/ \E o \in tlOuts \cup {"any"} : fullscreen_request(w, o)
  /\ UNCHANGED <<tlCfg, tlWorld, tlClient, tlHook, tlIdles, tlPanic>>

\* XdgDecorationHandler::request_mode and unset_mode: the configure goes out at
\* once to a window that has had its initial one and is not mapped; a window
\* that has not had it yet will learn the mode from it.
request_mode(w) ==
  /\ TlMay("deco") /\ Client(w) /\ (IsIn(w) => ~tlLayout[w].raw)
  /\ tlLayout' = IF IsIn(w) THEN [tlLayout EXCEPT ![w].needs = TRUE] ELSE tlLayout
  /\ tlOwed' = IF IsUnmapped(w) /\ tlUnmapped[w].conf THEN tlOwed ELSE tlOwed \cup {w}
  /\ UNCHANGED <<tlCfg, tlWorld, tlClient, tlUnmapped, tlHook, tlPend, tlIdles, tlAsk, tlPanic>>

\* External: Layout::refresh lets every window send its pending configure.
SendPendingConfigures ==
  /\ \E w \in TlWindows : IsIn(w) /\ (tlLayout[w].needs \/ tlLayout[w].raw)
  /\ tlLayout' = [w \in TlWindows |-> IF IsIn(w)
       THEN [tlLayout[w] EXCEPT !.needs = FALSE, !.raw = FALSE] ELSE TlNone]
  /\ tlOwed' = {w \in tlOwed : ~(IsIn(w) /\ tlLayout[w].needs)}
  /\ UNCHANGED <<tlCfg, tlWorld, tlClient, tlUnmapped, tlHook, tlPend, tlIdles, tlAsk, tlPanic>>

\* A client names its window's parent.
SetParent(w) ==
  /\ TlMay("parent") /\ Client(w) /\ w # tlCfg.parent
  /\ tlParent' = [tlParent EXCEPT ![w] = IF @ = TlNone THEN tlCfg.parent ELSE TlNone]
  /\ tlAsk' = [tlAsk EXCEPT ![w].follows = FALSE]
  /\ UNCHANGED <<tlCfg, tlWorld, tlSurf, tlTop, tlAck, tlUnmapped, tlLayout, tlHook, tlPend,
                 tlIdles, tlOwed, tlPanic>>

\* XdgActivationHandler::request_activation with a token that is in time.
request_activation(w) ==
  /\ TlMay("token") /\ Client(w) /\ IsUnmapped(w)
  /\ tlUnmapped' = [tlUnmapped EXCEPT ![w].tok = "fresh"]
  /\ UNCHANGED <<tlCfg, tlWorld, tlClient, tlLayout, tlHook, tlPend, tlIdles, tlAsk, tlOwed, tlPanic>>

\* XDG_ACTIVATION_TOKEN_TIMEOUT passes.
TokenExpires(w) ==
  /\ IsUnmapped(w) /\ tlUnmapped[w].tok = "fresh"
  /\ tlUnmapped' = [tlUnmapped EXCEPT ![w].tok = "old"]
  /\ UNCHANGED <<tlCfg, tlWorld, tlClient, tlLayout, tlHook, tlPend, tlIdles, tlAsk, tlOwed, tlPanic>>

-----------------------------------------------------------------------------
(* Commits. *)

\* CompositorHandler::commit checks that the configured output is still there.
StillThere(o) == monitor_for_output(o)

\* How the new window asks for focus, unless a rule says: a token too old no
\* longer counts.  ("smart" is also "no" under the strict focus policy.)
ActivateNew(tok) ==
  IF tlCfg.rule.focus # "none" THEN tlCfg.rule.focus
  ELSE IF tok = "fresh" THEN "yes" ELSE "smart"

\* The AddWindowTarget of a window with a configured output, a configured
\* workspace and a parent.  The parent counts if it is on that output.
Target(w, out, ws) ==
  LET p == tlParent[w]
      at == IF p # TlNone /\ IsIn(p) THEN tlLayout[p].at ELSE TlNone
  IN IF at # TlNone /\ (at = "nowhere" \/ out = TlNone \/ out = at) THEN at
     ELSE IF ws /\ tlNamed # "gone" THEN tlNamed
     ELSE IF out # TlNone THEN out
     ELSE IF tlActive # TlNone THEN tlActive ELSE "nowhere"

\* A root commit with a buffer of an unmapped toplevel: it is mapped.  Without
\* an initial configure (the client used one sent before it was unmapped) it
\* is mapped with defaults.
MapWindow(w) ==
  LET u == tlUnmapped[w]
      out == IF u.conf THEN StillThere(u.out) ELSE TlNone
      at == Target(w, out, u.ws)
  IN /\ Client(w) /\ IsUnmapped(w) /\ tlAck[w] # "no"
     /\ tlLayout' = [tlLayout EXCEPT ![w] =
          [at |-> at, fs |-> tlPend[w].fs, max |-> tlPend[w].max \/ (tlPend[w].fs /\ u.pmax),
           needs |-> FALSE, raw |-> ~u.conf, act |-> ActivateNew(u.tok)]]
     /\ tlPanic' = (tlPanic \/ (at # "nowhere" /\ at \notin tlOuts))
     /\ tlUnmapped' = [tlUnmapped EXCEPT ![w] = TlNone]
     /\ tlHook' = tlHook \ {w}
     /\ tlPend' = [tlPend EXCEPT ![w] = NoStates]
     /\ tlAsk' = [tlAsk EXCEPT ![w].lost = @ \/ ~u.conf, ![w].follows = FALSE]
     /\ tlOwed' = IF u.conf THEN tlOwed ELSE tlOwed \ {w}
     /\ UNCHANGED <<tlCfg, tlWorld, tlClient, tlIdles>>

\* A root commit without a buffer of a toplevel that stays unmapped.
CommitUnmapped(w) ==
  /\ Client(w) /\ IsUnmapped(w) /\ ~tlUnmapped[w].conf /\ tlIdles[w] < tlCfg.idles
  /\ tlIdles' = [tlIdles EXCEPT ![w] = @ + 1]
  /\ UNCHANGED <<tlCfg, tlWorld, tlClient, tlUnmapped, tlLayout, tlHook, tlPend, tlAsk, tlOwed, tlPanic>>

\* A root commit without a buffer of a mapped toplevel: it starts afresh.  A
\* configure may be on its way to the client, who can still use it.
UnmapWindow(w) ==
  /\ Client(w) /\ IsIn(w)
  /\ tlLayout' = [tlLayout EXCEPT ![w] = TlNone]
  /\ tlHook' = tlHook \cup {w}
  /\ tlUnmapped' = [tlUnmapped EXCEPT ![w] = UnmappedNew]
  /\ tlPend' = [tlPend EXCEPT ![w] = NoStates]
  /\ tlAck' \in {[tlAck EXCEPT ![w] = a] : a \in {"no", "stale"}}
  /\ tlAsk' = [tlAsk EXCEPT ![w] = NoAsk]
  /\ UNCHANGED <<tlCfg, tlWorld, tlSurf, tlTop, tlParent, tlIdles, tlOwed, tlPanic>>

-----------------------------------------------------------------------------
(* Birth and death. *)

\* CompositorHandler::new_surface.
new_surface(w) ==
  /\ tlSurf[w] = "none" /\ w \in tlCfg.new
  /\ tlSurf' = [tlSurf EXCEPT ![w] = "live"] /\ tlHook' = tlHook \cup {w}
  /\ UNCHANGED <<tlCfg, tlWorld, tlTop, tlParent, tlAck, tlUnmapped, tlLayout, tlPend, tlIdles,
                 tlAsk, tlOwed, tlPanic>>

\* XdgShellHandler::new_toplevel; a surface may get one again after the first
\* was destroyed.
new_toplevel(w) ==
  /\ tlSurf[w] = "live" /\ (tlTop[w] = "none" \/ (tlTop[w] = "dead" /\ TlMay("again")))
  /\ tlTop' = [tlTop EXCEPT ![w] = "live"]
  /\ tlUnmapped' = [tlUnmapped EXCEPT ![w] = UnmappedNew]
  /\ tlPend' = [tlPend EXCEPT ![w] = NoStates] /\ tlAsk' = [tlAsk EXCEPT ![w] = NoAsk]
  /\ tlAck' = [tlAck EXCEPT ![w] = "no"] /\ tlParent' = [tlParent EXCEPT ![w] = TlNone]
  /\ tlPanic' = (tlPanic \/ IsUnmapped(w))
  /\ UNCHANGED <<tlCfg, tlWorld, tlSurf, tlLayout, tlHook, tlIdles, tlOwed>>

\* XdgShellHandler::toplevel_destroyed.
toplevel_destroyed(w) ==
  /\ tlTop[w] = "live"
  /\ tlTop' = [tlTop EXCEPT ![w] = "dead"]
  /\ tlUnmapped' = [tlUnmapped EXCEPT ![w] = TlNone]
  /\ tlLayout' = [tlLayout EXCEPT ![w] = IF IsUnmapped(w) THEN @ ELSE TlNone]
  /\ tlHook' = IF ~IsUnmapped(w) /\ IsIn(w) THEN tlHook \cup {w} ELSE tlHook
  /\ tlOwed' = tlOwed \ {w} /\ tlAsk' = [tlAsk EXCEPT ![w] = NoAsk]
  /\ tlPend' = [tlPend EXCEPT ![w] = NoStates]
  /\ UNCHANGED <<tlCfg, tlWorld, tlSurf, tlParent, tlAck, tlIdles, tlPanic>>

\* CompositorHandler::destroyed: after the toplevel, unless the client died and
\* its objects are destroyed in any order.
destroyed(w) ==
  /\ tlSurf[w] = "live" /\ (tlTop[w] = "live" => TlMay("dies"))
  /\ tlSurf' = [tlSurf EXCEPT ![w] = "dead"] /\ tlHook' = tlHook \ {w}
  /\ UNCHANGED <<tlCfg, tlWorld, tlTop, tlParent, tlAck, tlUnmapped, tlLayout, tlPend, tlIdles,
                 tlAsk, tlOwed, tlPanic>>

-----------------------------------------------------------------------------
(* What happens around the windows; external to this module. *)

\* Windows and the named workspace of an unplugged output go to another one.
Elsewhere(outs, x, o) ==
  IF x # o THEN x ELSE IF outs = {} THEN "nowhere" ELSE CHOOSE q \in outs : TRUE

MoveAll(place) ==
  tlLayout' = [w \in TlWindows |-> IF IsIn(w) THEN [tlLayout[w] EXCEPT !.at = place[tlLayout[w].at]] ELSE TlNone]

Unplug(o) ==
  LET outs == tlOuts \ {o}
      place == [x \in TlOutputs \cup {"nowhere"} |-> Elsewhere(outs, x, o)]
  IN /\ TlMay("unplug") /\ o \in tlOuts
     /\ tlOuts' = outs /\ tlActive' = IF outs = {} THEN TlNone ELSE place[tlActive]
     /\ tlNamed' = IF tlNamed = "gone" THEN "gone" ELSE place[tlNamed]
     /\ MoveAll(place)

\* A new output takes the workspaces that had none, and some that it had before.
Plug(o) ==
  /\ o \notin tlOuts
  /\ tlOuts' = tlOuts \cup {o} /\ tlActive' = IF tlActive = TlNone THEN o ELSE tlActive
  /\ \E back \in BOOLEAN :
       LET place == [x \in TlOutputs \cup {"nowhere"} |-> IF x = "nowhere" \/ back THEN o ELSE x]
       IN /\ MoveAll(place)
          /\ tlNamed' = IF tlNamed = "gone" THEN "gone" ELSE place[tlNamed]

\* The user activates another monitor, moves the named workspace or a window to
\* another one, or the workspace loses its name.
UserActs ==
  /\ \E o \in tlOuts :
       \/ TlMay("focus") /\ tlActive # o /\ tlActive' = o /\ UNCHANGED <<tlNamed, tlLayout>>
       \/ /\ TlMay("name")
          /\ tlNamed' \in (IF tlNamed \in tlOuts THEN {o} ELSE {}) \cup {"gone"} /\ tlNamed' # tlNamed
          /\ UNCHANGED <<tlActive, tlLayout>>
       \/ \E w \in TlWindows :
            /\ TlMay("move") /\ IsIn(w) /\ tlLayout[w].at # o /\ tlLayout' = [tlLayout EXCEPT ![w].at = o]
            /\ UNCHANGED <<tlActive, tlNamed>>
  /\ UNCHANGED tlOuts

World ==
  /\ UserActs \/ \E o \in TlOutputs : Unplug(o) \/ Plug(o)
  /\ UNCHANGED <<tlCfg, tlClient, tlUnmapped, tlHook, tlPend, tlIdles, tlAsk, tlOwed, tlPanic>>

TlNext ==
  \/ World \/ SendPendingConfigures
  \/ \E w \in TlWindows :
       \/ new_surface(w) \/ new_toplevel(w) \/ toplevel_destroyed(w) \/ destroyed(w)
       \/ MapWindow(w) \/ CommitUnmapped(w) \/ UnmapWindow(w) \/ InitialConfigureIdle(w)
       \/ Request(w) \/ request_mode(w) \/ SetParent(w)
       \/ request_activation(w) \/ TokenExpires(w)

TlSpec == TlInit /\ [][TlNext]_tlVars

-----------------------------------------------------------------------------

\* A live toplevel is in unmapped_windows or in the layout, never in both or in
\* neither (the error of toplevel_destroyed says it was seen once), a dead one
\* in neither; and a live surface has the default dmabuf hook exactly while its
\* window is not in the layout, whose own hook replaces it.
OneHome ==
  \A w \in TlWindows :
    /\ tlTop[w] = "live" <=> (IsUnmapped(w) \/ IsIn(w))
    /\ ~(IsUnmapped(w) /\ IsIn(w))
    /\ tlSurf[w] = "live" => (w \in tlHook <=> ~IsIn(w))

\* add_window is never given an output or a workspace that is gone, which it
\* would panic on, although the target was chosen when the initial configure
\* was sent, nor is a toplevel added twice.
TargetExists == ~tlPanic

\* Fullscreen and maximized are what the client and the rule last asked for,
\* before and after mapping, in any order of requests, configures, commits and
\* output changes: a window asked to be both is fullscreen and remembers the
\* other.  Excepted are requests made while there is no workspace to configure
\* for, and a window mapped without its initial configure.
OpensAsAsked ==
  \A w \in TlWindows : LET ask == tlAsk[w] IN
    /\ (IsUnmapped(w) /\ tlUnmapped[w].conf /\ ~ask.lost) =>
         /\ tlPend[w] = [fs |-> ask.fs, max |-> ask.max /\ ~ask.fs]
         /\ tlUnmapped[w].pmax = ask.max
    /\ (IsIn(w) /\ ~ask.lost) => tlLayout[w].fs = ask.fs /\ tlLayout[w].max = ask.max

\* A client that is owed a configure for a request will get one: its window has
\* the initial configure still to come, or is flagged in the layout.
OwedIsPending ==
  \A w \in tlOwed :
    \/ IsUnmapped(w) /\ ~tlUnmapped[w].conf
    \/ IsIn(w) /\ tlLayout[w].needs

\* A dialog configured to follow its parent opens where its parent is when it is
\* mapped, wherever that has moved since the configure.
FollowsParent ==
  [][\A w \in TlWindows :
       (IsUnmapped(w) /\ IsIn(w)' /\ tlAsk[w].follows /\ ParentMonitor(w) # TlNone)
       => tlLayout'[w].at = tlLayout[tlParent[w]].at]_tlVars

\* An activation token does not take the focus for a window that is mapped when
\* the token has run out, although it was in time when it was presented.
OldTokenNoFocus ==
  [][\A w \in TlWindows :
       (/\ IsUnmapped(w) /\ IsIn(w)'
        /\ tlUnmapped[w].tok # "fresh" /\ tlCfg.rule.focus # "yes")
       => tlLayout'[w].act # "yes"]_tlVars

\* A window for which a rule says open-fullscreen true is configured fullscreen,
\* if there is an output, until its client says otherwise.
RuleOpensFullscreen ==
  [][\A w \in TlWindows :
       (/\ tlCfg.rule.fs = "yes" /\ tlOuts # {}
        /\ IsUnmapped(w) /\ ~tlUnmapped[w].conf /\ tlUnmapped'[w] # TlNone /\ tlUnmapped'[w].conf)
       => tlPend'[w].fs]_tlVars

=============================================================================
