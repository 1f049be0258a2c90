----------------------------- MODULE MCServices -----------------------------
(***************************************************************************)
(* What the compositor does for the hardware and for other programs, for   *)
(* TLC: the event stream of the IPC server, the TTY backend, a screen cast *)
(* and the sessions of casts, output management, the workspaces that bars  *)
(* see, the frame cycle and screencopy.  Like in MCDesktop a behaviour is  *)
(* one of any one of these machines, and each has its profiles.            *)
(***************************************************************************)
EXTENDS EventStream, Tty, Cast, CastSessions, OutputManagement, ExtWorkspace, FrameCycle, Screencopy

VARIABLE service  \* the machine at work

-----------------------------------------------------------------------------
(* The states of the desktop that the event stream publishes. *)

\* Up to three workspaces on two outputs, one active on every output and one
\* of these focused; two of them may swap their places.
WsStates ==
  LET Swapped(d) == {[i \in d |-> i]} \union (IF d = {1, 2} THEN {<<2, 1>>} ELSE {})
      ActiveSets(d, home) ==
        {act \in SUBSET d : \A i \in d : Cardinality({j \in act : home[j] = home[i]}) = 1}
  IN UNION {UNION {UNION {
       {[i \in d |-> [spot |-> spot[i], out |-> home[i], act |-> 0, urg |-> FALSE,
                      active |-> i \in act, focused |-> i = f]] : f \in act, spot \in Swapped(d)}
       : act \in ActiveSets(d, home)}
       : home \in [d -> {"A", "B"}]} : d \in {{1}, {1, 2}, {1, 2, 3}}}

\* Two workspaces of one output with every other attribute.
WsDetail ==
  {[i \in {1, 2} |-> [spot |-> i, out |-> "A", act |-> a[i], urg |-> u[i], active |-> i = f, focused |-> i = f]]
     : a \in [{1, 2} -> {0, 1}], u \in [{1, 2} -> BOOLEAN], f \in {1, 2}}

\* Windows that open, close, change, move and take the focus, and windows that
\* only become urgent or are used.
WinStates ==
  UNION {{[i \in d |-> [data |-> dat[i], lay |-> lay[i], focused |-> i = f, urg |-> FALSE, ts |-> 0]]
            : dat \in [d -> {0, 1}], lay \in [d -> {0, 1}], f \in {0} \union d}
         : d \in SUBSET {1, 2}}
  \union {[i \in {1, 2} |-> [data |-> 0, lay |-> 0, focused |-> i = f, urg |-> i = u, ts |-> ts[i]]]
            : f \in 0..2, u \in 0..2, ts \in [{1, 2} -> {0, 1}]}

Full(ws, wins, idx, ov) == [ws |-> ws, wins |-> wins, kb |-> <<"us", idx>>, overview |-> ov, failed |-> FALSE]

W(data, lay, focused) == [data |-> data, lay |-> lay, focused |-> focused, urg |-> FALSE, ts |-> 0]
Ws(i, act, active) == [spot |-> i, out |-> "A", act |-> act, urg |-> FALSE, active |-> active, focused |-> active]

\* An empty session; two windows of which one has the focus; the other one has
\* it, everything has moved and the overview is open; another keymap.
StreamStates ==
  LET r1 == Full([i \in {1} |-> Ws(1, 0, TRUE)], Nothing, 0, FALSE)
      r2 == Full([i \in {1, 2} |-> Ws(i, i, i = 2)], [i \in {1, 2} |-> W(0, i, i = 2)], 0, FALSE)
      r3 == Full([i \in {1, 2} |-> Ws(i, i, i = 1)], [i \in {1, 2} |-> W(0, 3 - i, i = 1)], 1, TRUE)
  IN {r1, r2, r3, [r1 EXCEPT !.kb = <<"de", 0>>]}

MCEsStates ==
  [workspaces |-> {Full(ws, Nothing, 0, FALSE) : ws \in WsStates \union WsDetail},
   windows |-> {Full(Nothing, wins, 0, FALSE) : wins \in WinStates},
   one |-> StreamStates,
   two |-> StreamStates]

MCEsSteps == [workspaces |-> 1, windows |-> 1, one |-> 2, two |-> 1]
MCEsStreams == [workspaces |-> 0, windows |-> 0, one |-> 1, two |-> 2]

-----------------------------------------------------------------------------
(* Profiles of the other machines. *)

\* A laptop with a lid; two GPUs; a dock without a render node; a headset to
\* lease; a monitor that cannot be lit and a driver without GAMMA_LUT.
MCTy ==
  LET machine(conns, plugs, nodes, does) ==
        [conns |-> conns, plugs |-> plugs, render |-> nodes, does |-> does,
         panels |-> DOMAIN conns \intersect {"eDP"}, vr |-> DOMAIN conns \intersect {"HMD"},
         broken |-> DOMAIN conns \intersect {"VGA"},
         legacy |-> IF "VGA" \in DOMAIN conns THEN {"DP1"} ELSE {}]
      one == [gpu |-> "render"]
  IN {machine([eDP |-> "gpu", DP1 |-> "gpu"], [eDP |-> {"panel"}, DP1 |-> {"mon"}],
              one, {"plug", "lid", "vt", "config", "power"}),
      machine([DP1 |-> "gpu", DP2 |-> "egpu"], [DP1 |-> {"mon"}, DP2 |-> {"mon"}],
              [gpu |-> "render", egpu |-> "render"], {"plug", "gpu", "vt", "ignore"}),
      machine([eDP |-> "gpu", DP2 |-> "dock"], [eDP |-> {"panel"}, DP2 |-> {"mon"}],
              [gpu |-> "render", dock |-> TyNone], {"plug", "gpu", "vt", "lid"}),
      machine([DP1 |-> "gpu", HMD |-> "gpu"], [DP1 |-> {"mon"}, HMD |-> {"hmd"}],
              one, {"plug", "vt", "gamma"}),
      machine([DP1 |-> "gpu", DP3 |-> "gpu", VGA |-> "gpu"], [DP1 |-> {"mon"}, DP3 |-> {"mon"}, VGA |-> {"crt"}],
              one, {"plug", "config"})}

\* Resizes; a target that moves to another output and fences that fail; a cast
\* that is paused; a dynamic target.
MCCa ==
  LET profile(target, may, fences) == [target |-> target, may |-> may, fences |-> fences]
  IN {profile("output", {"resize"}, {FALSE}), profile("window", {"output", "fail"}, {FALSE}),
      profile("window", {"pause"}, BOOLEAN), profile("nothing", {"dynamic", "resize"}, {FALSE})}

\* Outputs that other tools change; configurations of one and of two heads.
MCOm == {[outputs |-> {"a"}, may |-> {"modes", "ipc"}],
         [outputs |-> {"a"}, may |-> {"conf", "set"}],
         [outputs |-> {"a", "b"}, may |-> {"conf"}]}

\* Workspaces that move, appear, and take or lose a name; outputs that come and
\* go; requests that wait while the layout changes.
MCEw ==
  LET profile(start, names, turn, acts, may) ==
        [start |-> start, names |-> names, turn |-> turn, acts |-> acts, may |-> may]
      two == [a |-> <<1, 2>>]
      three == [a |-> <<1, 2>>, b |-> <<3>>]
      apart == [a |-> <<1>>, b |-> <<2>>]
  IN {profile(three, {}, 2, 2, {"move"}), profile(two, {0, 2, 9}, 2, 2, {"create", "name"}),
      profile(two, {0, 9}, 2, 2, {"plug", "release", "name"}), profile(apart, {0, 2}, 2, 2, {"move", "name"}),
      profile(three, {}, 0, 2, {"commit"}), profile(apart, {}, 1, 1, {"commit", "plug"})}

\* Every backend, and every reading of the clock.
MCFr == {[backend |-> "winit", may |-> {"show", "monitors"}, times |-> {1}],
         [backend |-> "headless", may |-> {"monitors"}, times |-> {1}],
         [backend |-> "tty", may |-> {"show", "monitors", "rogue"}, times |-> {1}],
         [backend |-> "clock", may |-> {}, times |-> 0 .. 7]}

-----------------------------------------------------------------------------

One(S) == CHOOSE x \in S : TRUE

\* A machine that is not at work is in one initial state.
SvInit ==
  /\ service \in {"events", "tty", "cast", "sessions", "outputs", "workspaces", "frames", "screencopy"}
  /\ (service # "events" => esProfile = "one" /\ esReal = One(EsStates["one"])) /\ EsInit
  /\ (service # "tty" => tyProfile = One(TyProfiles)) /\ TyInit
  /\ (service # "cast" => caProfile = One(CaProfiles)) /\ CaInit
  /\ (service # "outputs" => omProfile = One(OmProfiles)) /\ OmInit
  /\ (service # "workspaces" => ewProfile = One(EwProfiles)) /\ EwInit
  /\ CnInit /\ SyInit
  /\ (service # "frames" => frProfile = (CHOOSE p \in FrProfiles : p.backend = "winit")) /\ FrInit

SvNext ==
  \/ service = "events" /\ EsNext
     /\ UNCHANGED <<service, tyVars, caVars, cnVars, omVars, ewVars, frVars, syVars>>
  \/ service = "tty" /\ TyNext
     /\ UNCHANGED <<service, esVars, caVars, cnVars, omVars, ewVars, frVars, syVars>>
  \/ service = "cast" /\ CaNext
     /\ UNCHANGED <<service, esVars, tyVars, cnVars, omVars, ewVars, frVars, syVars>>
  \/ service = "sessions" /\ CnNext
     /\ UNCHANGED <<service, esVars, tyVars, caVars, omVars, ewVars, frVars, syVars>>
  \/ service = "outputs" /\ OmNext
     /\ UNCHANGED <<service, esVars, tyVars, caVars, cnVars, ewVars, frVars, syVars>>
  \/ service = "workspaces" /\ EwNext
     /\ UNCHANGED <<service, esVars, tyVars, caVars, cnVars, omVars, frVars, syVars>>
  \/ service = "frames" /\ FrNext
     /\ UNCHANGED <<service, esVars, tyVars, caVars, cnVars, omVars, ewVars, syVars>>
  \/ service = "screencopy" /\ SyNext
     /\ UNCHANGED <<service, esVars, tyVars, caVars, cnVars, omVars, ewVars, frVars>>

SvSpec == SvInit /\ [][SvNext]_<<service, esVars, tyVars, caVars, cnVars, omVars, ewVars, frVars, syVars>>
=============================================================================
