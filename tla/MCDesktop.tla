----------------------------- MODULE MCDesktop -----------------------------
(***************************************************************************)
(* What the person at the desktop drives, for TLC: the recent-windows      *)
(* switcher, the keyboard, the keyboard focus, the actions, the screenshot *)
(* UI, the gestures, the pointer and the windows that clients open.  These *)
(* machines have no state in common.  A behaviour is one of any one of     *)
(* them, chosen in the initial state, while the others stay as they are:   *)
(* the state spaces add up instead of multiplying.                         *)
(*                                                                         *)
(* Every machine comes with its profiles, the set-ups in which a few       *)
(* features at a time meet, small enough to be explored in full.           *)
(***************************************************************************)
EXTENDS Mru, Keyboard, Focus, Actions, ScreenshotUi, Gestures, Pointer, Toplevel

CONSTANTS w1, w2, w3

VARIABLE desk  \* the machine at work

-----------------------------------------------------------------------------
(* Profiles. *)

MCApp == [w \in MrWin |-> IF w = w1 THEN "a" ELSE IF w = w2 THEN "b" ELSE ""]

\* Two windows and many focus changes; three windows in different places.
MCMr ==
  LET here == [w \in MrWin |-> "workspace"]
      mixed == [w \in MrWin |-> IF w = w1 THEN "output" ELSE IF w = w2 THEN "workspace" ELSE "elsewhere"]
  IN {[wins |-> {w1, w2}, stamps |-> 4, places |-> {here}],
      [wins |-> {w1, w2, w3}, stamps |-> 0, places |-> {here, mixed}]}

\* A key the host may keep and the key that switches VTs; the keys of the UIs.
MCKb == {[keys |-> {"T", "Vt"}, stolen |-> {"T"}, ui |-> {}],
         [keys |-> {"Escape", "Return", "Tab"}, stolen |-> {}, ui |-> {"pick", "screenshot", "overview"}]}

\* A layer surface on every layer, next to the UIs it competes with.
MCFc ==
  LET scene(layers, ui, layouts) == [wins |-> {"w1"}, layers |-> layers, ui |-> ui, layouts |-> layouts]
  IN {scene([bar |-> "top", bg |-> "background"], {"overview"}, FALSE),
      scene([osd |-> "overlay"], {"above", "mru", "ime"}, FALSE),
      scene([bot |-> "bottom"], {"above", "locked", "screenshot"}, FALSE),
      scene([bar |-> "top"], {"dialog", "locked"}, FALSE),
      scene([bar |-> "top"], {"dialog"}, TRUE)}

\* Two outputs of different scale; one that is resized and touched; two fingers.
MCSs == {[sizes |-> [o1 |-> <<<<2, 2>>>>, o2 |-> <<<<2, 2>>>>], scale |-> [o1 |-> 1, o2 |-> 2],
          pointers |-> {"mouse"}, cancel |-> FALSE],
         [sizes |-> [o1 |-> <<<<3, 2>>, <<2, 2>>>>], scale |-> [o1 |-> 1], pointers |-> {"t1"}, cancel |-> TRUE],
         [sizes |-> [o1 |-> <<<<2, 2>>>>], scale |-> [o1 |-> 1], pointers |-> {"t1", "t2"}, cancel |-> FALSE]}

\* Each pair of input devices that may drive gestures at the same time.
MCGs == {[home |-> [a |-> "o1", b |-> "o1"], order |-> <<"a", "b">>, wins |-> [w1 |-> "a"],
          may |-> {"ptr", "key", "unplug"}],
         [home |-> [a |-> "o1", b |-> "o2"], order |-> <<"a", "b">>, wins |-> [w1 |-> "a"],
          may |-> {"pad", "ptr"}],
         [home |-> [a |-> "o1", b |-> "o1"], order |-> <<"a", "b">>, wins |-> [w1 |-> "a"],
          may |-> {"touch", "key", "close"}],
         [home |-> [a |-> "o1"], order |-> <<"a">>, wins |-> [w1 |-> "a"], may |-> {"ptr", "touch"}],
         [home |-> [a |-> "o1"], order |-> <<"a">>, wins |-> [w1 |-> "a", w2 |-> "a"],
          may |-> {"ptr", "client", "close"}]}

\* Outputs with a gap between them; one on which windows with a constraint move;
\* one for hiding; one for each kind of scrolling.
MCPt ==
  LET scene(ws, under) == [p \in 0..6 |-> IF p \in ws THEN "w" ELSE under]
      two == [o1 |-> <<0, 2>>, o2 |-> <<4, 5>>]
      profile(outs, scenes, corners, region, may) ==
        [outs |-> outs, scenes |-> scenes, corners |-> corners, region |-> region, may |-> may]
      one(last) == [o1 |-> <<0, last>>]
  IN {profile(two, {scene({1}, PtNone)}, {0, 4}, {}, {"motion", "unplug", "button"}),
      profile(two, {scene({1}, PtNone)}, {0}, {}, {"motion", "absolute", "mru", "button", "unplug"}),
      profile(one(4), {scene({1, 2}, "v"), scene({3}, "v")}, {}, {1, 3},
              {"motion", "constraint", "layout", "button"}),
      profile(one(3), {scene({1, 2}, PtNone), scene({3}, PtNone)}, {0}, {1, 2},
              {"motion", "hide", "touch", "tablet", "warp", "layout", "constraint"}),
      profile(one(2), {scene({1, 2}, PtNone)}, {}, {}, {"wheel", "hide", "mru"}),
      profile(one(2), {scene({1, 2}, PtNone)}, {}, {}, {"finger", "touch"})}

\* A window and unplugged outputs; one with a rule for a workspace that moves
\* and loses its name; one with rules for its size; a dialog; and the rest of a
\* toplevel's life.
MCTl ==
  LET plain == [ws |-> FALSE, out |-> TlNone, fs |-> "none", max |-> "none", focus |-> "none"]
      profile(parent, rule, idles, may) ==
        [parent |-> parent, new |-> {"d"}, rule |-> rule, idles |-> idles, may |-> may]
  IN {profile(TlNone, plain, 1, {"unplug", "max"}),
      profile(TlNone, [plain EXCEPT !.ws = TRUE, !.fs = "yes"], 1, {"name", "focus"}),
      profile(TlNone, [plain EXCEPT !.out = "b", !.fs = "no", !.max = "yes", !.focus = "no"], 2, {"max"}),
      profile("p", plain, 1, {"parent", "move"}),
      profile(TlNone, plain, 1, {"token", "deco", "dies", "again"})}

-----------------------------------------------------------------------------

One(S) == CHOOSE x \in S : TRUE

\* A machine that is not at work is in one initial state.
Init ==
  /\ desk \in {"switcher", "keyboard", "focus", "actions", "screenshot", "gestures", "pointer", "windows"}
  /\ (desk # "actions" => acShown = One([AcOutputs -> {w \in AcWorkspaces : ~w.fa}]) /\ acWarp = One(AcWarp)) /\ AcInit
  /\ (desk # "switcher" => mrProfile = One(MrProfiles)) /\ MrInit
  /\ (desk # "keyboard" => kbProfile = One(KbProfiles)) /\ KbInit
  /\ (desk # "focus" => fcProfile = One(FcProfiles)) /\ FcInit
  /\ (desk # "screenshot" => ssProfile = One(SsProfiles)) /\ SsInit
  /\ (desk # "gestures" => gsProfile = One(GsProfiles)) /\ GsInit
  /\ (desk # "pointer" => ptProfile = One(PtProfiles) /\ ptScene = One(ptProfile.scenes)) /\ PtInit
  /\ (desk # "windows" => tlCfg = One(TlProfiles) /\ tlActive = "a" /\ tlNamed = "a") /\ TlInit

Next ==
  \/ desk = "switcher" /\ MrNext
     /\ UNCHANGED <<desk, kbVars, fcVars, acVars, ssVars, gsVars, ptVars, tlVars>>
  \/ desk = "keyboard" /\ KbNext
     /\ UNCHANGED <<desk, mrVars, fcVars, acVars, ssVars, gsVars, ptVars, tlVars>>
  \/ desk = "focus" /\ FcNext
     /\ UNCHANGED <<desk, mrVars, kbVars, acVars, ssVars, gsVars, ptVars, tlVars>>
  \/ desk = "actions" /\ AcNext
     /\ UNCHANGED <<desk, mrVars, kbVars, fcVars, ssVars, gsVars, ptVars, tlVars>>
  \/ desk = "screenshot" /\ SsNext
     /\ UNCHANGED <<desk, mrVars, kbVars, fcVars, acVars, gsVars, ptVars, tlVars>>
  \/ desk = "gestures" /\ GsNext
     /\ UNCHANGED <<desk, mrVars, kbVars, fcVars, acVars, ssVars, ptVars, tlVars>>
  \/ desk = "pointer" /\ PtNext
     /\ UNCHANGED <<desk, mrVars, kbVars, fcVars, acVars, ssVars, gsVars, tlVars>>
  \/ desk = "windows" /\ TlNext
     /\ UNCHANGED <<desk, mrVars, kbVars, fcVars, acVars, ssVars, gsVars, ptVars>>

Spec == Init /\ [][Next]_<<desk, mrVars, kbVars, fcVars, acVars, ssVars, gsVars, ptVars, tlVars>>

\* The machines that are not at work stay in their one state.
DeskView ==
  <<desk, IF desk = "switcher" THEN mrVars ELSE IF desk = "keyboard" THEN kbVars
          ELSE IF desk = "focus" THEN fcVars ELSE IF desk = "actions" THEN acVars
          ELSE IF desk = "screenshot" THEN ssVars ELSE IF desk = "gestures" THEN gsVars
          ELSE IF desk = "pointer" THEN ptVars ELSE tlVars>>
=============================================================================
