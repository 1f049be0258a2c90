------------------------------ MODULE Keyboard ------------------------------
(***************************************************************************)
(* A key event on its way from the host window (backend/winit.rs) through   *)
(* the key bindings and the compositor's own dialogs (input/mod.rs) to the  *)
(* focused client: which keys are withheld from the client, which binding   *)
(* repeats, and what an action does to either.  The modifiers are one key,  *)
(* "Mod"; the other keys stand for the kinds the handlers tell apart.       *)
(***************************************************************************)
EXTENDS Naturals, FiniteSets

CONSTANTS KbProfiles, \* keyboards: [keys, stolen: the keys whose release the
                      \* host may keep to itself, ui: what opens unasked]
          KbUiMax,    \* how many dialogs the environment opens at a time
          KbHeldMax   \* how many keys besides Mod are held at a time

VARIABLES kbDown,    \* the keys held by the user
          kbRecent,  \* last_key_time: keys pressed less than 50 ms ago
          kbHeld,    \* external: keys the seat has told the client are down
          kbLost,    \* the keys of which a release was kept by the host
          kbTook,    \* the keys whose last press went to the client
          kbProfile, \* the keyboard of this behaviour
          kbSt       \* the fields of Niri the handlers work on

kbVars == <<kbDown, kbRecent, kbHeld, kbLost, kbTook, kbProfile, kbSt>>

KbKeys == kbProfile.keys

NoBind == [key |-> "none", action |-> "none", repeat |-> FALSE,
           cooldown |-> FALSE, locked |-> FALSE, inhibit |-> FALSE]

\* The keys, dialogs and actions there are; bindings, and the fields of Niri.
KeyNames == (UNION {p.keys : p \in KbProfiles}) \cup {"none", "Mod", "T", "Return", "Tab", "Escape", "Vt"}
UiNames == (UNION {p.ui : p \in KbProfiles}) \cup {"dialog", "mru", "screenshot", "pick", "overview"}
ActionNames == {"none", "stop", "Spawn", "Quit", "ChangeVt", "MruAdvance", "MruConfirm", "MruCancel",
                "CancelScreenshot", "ConfirmScreenshot", "ToggleOverview"}
KbBinds == [key : KeyNames, action : ActionNames, repeat : BOOLEAN, cooldown : BOOLEAN, locked : BOOLEAN,
            inhibit : BOOLEAN]
KbStates == [suppressed : SUBSET KeyNames, repeat : KbBinds, cooling : SUBSET KeyNames, ui : SUBSET UiNames,
             locked : BOOLEAN, inhibiting : BOOLEAN, ran : ActionNames]

KbInit == /\ kbDown = {} /\ kbRecent = {} /\ kbHeld = {} /\ kbLost = {} /\ kbTook = {}
          /\ kbProfile \in KbProfiles
          /\ kbSt = [suppressed |-> {}, repeat |-> NoBind, cooling |-> {},
                     ui |-> {}, locked |-> FALSE, inhibiting |-> FALSE,
                     ran |-> "none"]

-----------------------------------------------------------------------------
(* Bindings.                                                                *)

Hardcoded(k, action) ==
  [NoBind EXCEPT !.key = k, !.action = action, !.repeat = TRUE]

(* The configured bindings: Mod+T has a cooldown, Mod+Return asks to quit   *)
(* and Mod+Tab opens the recent windows.                                    *)
Configured ==
  {[NoBind EXCEPT !.key = "T", !.action = "Spawn", !.repeat = TRUE,
                  !.cooldown = TRUE, !.inhibit = TRUE],
   [NoBind EXCEPT !.key = "Return", !.action = "Quit", !.repeat = TRUE]}

MruBinds == {[NoBind EXCEPT !.key = "Tab", !.action = "MruAdvance",
                            !.repeat = TRUE, !.inhibit = TRUE]}

MruOpenBinds == {[NoBind EXCEPT !.key = "Escape", !.action = "MruCancel"]}

make_binds_iter(st) ==
  IF "mru" \in st.ui THEN MruBinds \cup MruOpenBinds ELSE Configured \cup MruBinds

find_configured_bind(st, k, mods) ==
  LET found == {b \in make_binds_iter(st) :
                  b.key = k /\ (mods \/ b \in MruOpenBinds)}
  IN  IF found = {} THEN NoBind ELSE CHOOSE b \in found : TRUE

(* The virtual-terminal and power keys come before what is configured.      *)
find_bind(st, k, mods) ==
  IF k = "Vt" THEN Hardcoded(k, "ChangeVt") ELSE find_configured_bind(st, k, mods)

allowed_when_locked(action) == action \in {"Quit", "ChangeVt"}

allowed_during_screenshot(action) == action \in {"Quit", "ChangeVt"}

screenshot_action(k) ==
  CASE k = "Escape" -> Hardcoded(k, "CancelScreenshot")
    [] k = "Return" -> Hardcoded(k, "ConfirmScreenshot")
    [] OTHER -> NoBind

hardcoded_overview_bind(k, mods) ==
  IF ~mods /\ k \in {"Escape", "Return"}
  THEN [Hardcoded(k, "ToggleOverview") EXCEPT !.repeat = FALSE]
  ELSE NoBind

-----------------------------------------------------------------------------
(* Actions and the bindings that run them.                                  *)

Toggled(S, x) == IF x \in S THEN S \ {x} ELSE S \cup {x}

(* The part of do_action that the keyboard state depends on.                *)
Perform(st, action) ==
  CASE action = "Quit" -> [st EXCEPT !.ui = @ \cup {"dialog"}]
    [] action = "ChangeVt" -> [st EXCEPT !.suppressed = {}]
    [] action = "MruAdvance" -> [st EXCEPT !.ui = @ \cup {"mru"}]
    [] action \in {"MruConfirm", "MruCancel"} -> [st EXCEPT !.ui = @ \ {"mru"}]
    [] action \in {"CancelScreenshot", "ConfirmScreenshot"} ->
         [st EXCEPT !.ui = @ \ {"screenshot"}]
    [] action = "ToggleOverview" -> [st EXCEPT !.ui = Toggled(@, "overview")]
    [] OTHER -> st

do_action(st, action, allow) ==
  IF st.locked /\ ~(allow \/ allowed_when_locked(action)) THEN st
  ELSE [Perform(st, action) EXCEPT !.ran = action]

handle_bind(st, b) ==
  CASE ~b.cooldown -> do_action(st, b.action, b.locked)
    [] b.cooldown /\ st.locked /\ ~(b.locked \/ allowed_when_locked(b.action)) -> st
    [] b.cooldown /\ b.key \in st.cooling -> st
    [] OTHER -> do_action([st EXCEPT !.cooling = @ \cup {b.key}], b.action, b.locked)

start_key_repeat(st, b) == IF b.repeat THEN [st EXCEPT !.repeat = b] ELSE st

-----------------------------------------------------------------------------
(* on_keyboard: the filter's verdict is the new state with either the       *)
(* binding to run or the word that the event goes on to the client.         *)

Forward(st) == [st |-> st, forward |-> TRUE, bind |-> NoBind]

Intercept(st, b) == [st |-> st, forward |-> FALSE, bind |-> b]

Suppress(st, k) == [st EXCEPT !.suppressed = @ \cup {k}]

Unsuppress(st, k) == [st EXCEPT !.suppressed = @ \ {k}]

InterceptedBind(st, k, mods) ==
  LET found == find_bind(st, k, mods)
  IN  IF "screenshot" \in st.ui /\ ~allowed_during_screenshot(found.action)
      THEN screenshot_action(k) ELSE found

should_intercept_key(st, k, pressed, mods) ==
  LET b == InterceptedBind(st, k, mods)
  IN  CASE ~pressed /\ k \notin st.suppressed -> Forward(st)
        [] ~pressed /\ k \in st.suppressed -> Intercept(Unsuppress(st, k), NoBind)
        [] pressed /\ (b = NoBind \/ (st.inhibiting /\ b.inhibit)) -> Forward(st)
        [] OTHER -> Intercept(Suppress(st, k), b)

FocusIsOverview(st) == st.ui = {"overview"} /\ ~st.locked

DialogKey(st, k) ==
  Intercept([Suppress(st, k) EXCEPT !.ran = IF k = "Return" THEN "stop" ELSE @], NoBind)

\* Mutant: confirming the recent windows forgets that the key was withheld.
MruRelease_Keeps(st, k) ==
  LET done == do_action(st, "MruConfirm", FALSE)
  IN  IF k \in done.suppressed THEN Intercept(done, NoBind) ELSE Forward(done)

(* Releasing the last modifier confirms the recent-windows selection.       *)
MruRelease(st, k) ==
  LET done == do_action(st, "MruConfirm", FALSE)
  IN  IF k \in done.suppressed THEN Intercept(Unsuppress(done, k), NoBind)
      ELSE Forward(done)

CancelPick(st, k) ==
  Intercept([Suppress(st, k) EXCEPT !.ui = @ \ {"pick"}], NoBind)

OverviewKey(st, k, mods) ==
  LET b == hardcoded_overview_bind(k, mods) IN Intercept(Suppress(st, k), b)

(* The filter closure handed to the keyboard, its checks in order.          *)
Filter(st, k, pressed, mods) ==
  LET verdict == should_intercept_key(st, k, pressed, mods)
  IN  IF "dialog" \in st.ui /\ pressed THEN DialogKey(st, k)
      ELSE IF "mru" \in st.ui /\ ~pressed /\ ~mods THEN MruRelease(st, k)
      ELSE IF "pick" \in st.ui /\ pressed /\ k = "Escape" THEN CancelPick(st, k)
      ELSE IF verdict.forward /\ pressed /\ FocusIsOverview(st)
              /\ hardcoded_overview_bind(k, mods) # NoBind THEN OverviewKey(st, k, mods)
      ELSE verdict

(* Any release stops the repeating binding.                                 *)
StopRepeat(st, k, pressed) == IF pressed THEN st ELSE [st EXCEPT !.repeat = NoBind]

(* process_input_event for a key: any press also hides a dialog that was    *)
(* open before it.                                                          *)
on_keyboard(k, pressed, mods) ==
  LET before == StopRepeat([kbSt EXCEPT !.ran = "none"], k, pressed)
      out    == Filter(before, k, pressed, mods)
      acted  == IF out.bind = NoBind THEN out.st
                ELSE start_key_repeat(handle_bind(out.st, out.bind), out.bind)
  IN  /\ kbSt' = [acted EXCEPT !.ui = IF "dialog" \in kbSt.ui /\ pressed
                                      THEN @ \ {"dialog"} ELSE @]
      /\ kbHeld' = CASE ~out.forward -> kbHeld
                     [] out.forward /\ pressed -> kbHeld \cup {k}
                     [] OTHER -> kbHeld \ {k}
      /\ kbTook' = CASE ~pressed -> kbTook \ {k}
                     [] pressed /\ out.forward -> kbTook \cup {k}
                     [] OTHER -> kbTook \ {k}

-----------------------------------------------------------------------------
(* The host window.  A modifier's own events are dropped and replaced by    *)
(* the changes of the modifier state; other presses are debounced, their    *)
(* releases are not.                                                        *)

ModifiersChanged ==
  /\ kbDown' = Toggled(kbDown, "Mod")
  /\ on_keyboard("Mod", "Mod" \notin kbDown, "Mod" \notin kbDown)
  /\ UNCHANGED <<kbRecent, kbLost>>

KeyPressed(k) ==
  /\ k \notin kbDown
  /\ Cardinality((kbDown \ {"Mod"}) \cup kbRecent \cup {k}) <= KbHeldMax
  /\ kbDown' = kbDown \cup {k}
  /\ kbRecent' = kbRecent \cup {k}
  /\ UNCHANGED kbLost
  /\ IF k \in kbRecent THEN UNCHANGED <<kbHeld, kbTook, kbSt>>
     ELSE on_keyboard(k, TRUE, "Mod" \in kbDown)

KeyReleased(k) ==
  /\ k \in kbDown
  /\ kbDown' = kbDown \ {k}
  /\ on_keyboard(k, FALSE, "Mod" \in kbDown)
  /\ UNCHANGED <<kbRecent, kbLost>>

Debounced(k) ==
  /\ k \in kbRecent
  /\ kbRecent' = kbRecent \ {k}
  /\ UNCHANGED <<kbDown, kbHeld, kbLost, kbTook, kbSt>>

(* External: the host's window loses the focus while k is held; the release *)
(* goes to another application.                                             *)
ReleaseElsewhere(k) ==
  /\ k \in kbDown \cap kbProfile.stolen
  /\ kbDown' = kbDown \ {k}
  /\ kbLost' = kbLost \cup {k}
  /\ UNCHANGED <<kbRecent, kbHeld, kbTook, kbSt>>

-----------------------------------------------------------------------------
(* Timers, and what other parts of the compositor do meanwhile.             *)

RepeatFires ==
  /\ kbSt.repeat # NoBind
  /\ kbSt' = handle_bind([kbSt EXCEPT !.ran = "none"], kbSt.repeat)
  /\ UNCHANGED <<kbDown, kbRecent, kbHeld, kbLost, kbTook>>

CooldownExpires(k) ==
  /\ k \in kbSt.cooling
  /\ kbSt' = [kbSt EXCEPT !.cooling = @ \ {k}, !.ran = "none"]
  /\ UNCHANGED <<kbDown, kbRecent, kbHeld, kbLost, kbTook>>

(* A request over IPC starts picking, opens the screenshot UI (which closes *)
(* the recent windows) or opens the overview.                               *)
OpenUi(u) ==
  /\ u \notin kbSt.ui
  /\ Cardinality(kbSt.ui) < KbUiMax
  /\ ~kbSt.locked
  /\ kbSt' = [kbSt EXCEPT !.ui = (IF u = "screenshot" THEN @ \ {"mru"} ELSE @) \cup {u},
                          !.ran = "none"]
  /\ UNCHANGED <<kbDown, kbRecent, kbHeld, kbLost, kbTook>>

LockSession ==
  /\ ~kbSt.locked
  /\ kbSt' = [kbSt EXCEPT !.locked = TRUE, !.ran = "none",
                          !.ui = @ \ {"screenshot", "mru"}]
  /\ UNCHANGED <<kbDown, kbRecent, kbHeld, kbLost, kbTook>>

UnlockSession ==
  /\ kbSt.locked
  /\ kbSt' = [kbSt EXCEPT !.locked = FALSE, !.ran = "none"]
  /\ UNCHANGED <<kbDown, kbRecent, kbHeld, kbLost, kbTook>>

(* The focused client takes or drops its shortcuts inhibitor.               *)
ToggleInhibitor ==
  /\ kbSt' = [kbSt EXCEPT !.inhibiting = ~@, !.ran = "none"]
  /\ UNCHANGED <<kbDown, kbRecent, kbHeld, kbLost, kbTook>>

KbNext ==
  /\ UNCHANGED kbProfile
  /\ \/ ModifiersChanged
     \/ \E k \in KbKeys : KeyPressed(k)
     \/ \E k \in KbKeys : KeyReleased(k)
     \/ \E k \in KbKeys : Debounced(k)
     \/ \E k \in KbKeys : ReleaseElsewhere(k)
     \/ RepeatFires
     \/ \E k \in KbKeys : CooldownExpires(k)
     \/ \E u \in kbProfile.ui : OpenUi(u)
     \/ LockSession \/ UnlockSession \/ ToggleInhibitor

KbSpec == KbInit /\ [][KbNext]_kbVars

-----------------------------------------------------------------------------
(* Whatever dialog opens or closes between the press of a key and its       *)
(* release, and as long as its releases arrive, a key the client believes   *)
(* is down is down, a key that is withheld is down, and no key is both:     *)
(* each release reaches whoever got the press (should_intercept_key and the *)
(* early returns of on_keyboard).                                           *)
ReleaseFollowsPress ==
  /\ kbHeld \subseteq kbDown \cup kbLost
  /\ kbSt.suppressed \subseteq kbDown \cup kbLost
  /\ kbHeld \cap kbSt.suppressed \subseteq kbLost

(* A binding repeats only while its key is held, even if the key's release  *)
(* is withheld, confirms a dialog or follows other keys (start_key_repeat). *)
RepeatsWhileHeld == kbSt.repeat # NoBind => kbSt.repeat.key \in kbDown \cup kbLost

(* Pressing a virtual-terminal key switches terminals whatever client       *)
(* inhibits shortcuts, whether or not the session is locked and whatever is *)
(* open except the exit dialog: "The user must always be able to change VTs *)
(* to recover from such a situation" (find_bind).                           *)
VtAlwaysSwitches ==
  [][("Vt" \in kbDown' \ kbDown /\ "Vt" \notin kbRecent /\ "dialog" \notin kbSt.ui)
       => kbSt'.ran = "ChangeVt"]_kbVars

(* A release is withheld only if the press it belongs to was: "By this      *)
(* point, we know that the key was suppressed on press"                     *)
(* (should_intercept_key).                                                  *)
SuppressedOnPress ==
  [][\A k \in KbKeys : (k \in kbDown \ kbDown' /\ k \in kbSt.suppressed \ kbSt'.suppressed)
                          => k \notin kbTook]_kbVars
=============================================================================
