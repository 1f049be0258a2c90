---------------------------- MODULE InputProofs ----------------------------
(***************************************************************************)
(* The keyboard, for any keys, dialogs and bounds: every release goes to   *)
(* whoever got the press, a binding repeats while its key is held, and the *)
(* virtual terminal can always be switched.                                *)
(*                                                                         *)
(* The screenshot UI, for any outputs, scales and pointers: the selection  *)
(* stays on the captured picture, moving it keeps its size, and a drag     *)
(* ends with the pointer that began it.                                    *)
(***************************************************************************)
EXTENDS Keyboard, ScreenshotUi, TLAPS

\* The inductive invariant of the keyboard.
KbInv ==
  /\ kbProfile \in KbProfiles /\ kbSt \in KbStates
  /\ ReleaseFollowsPress /\ RepeatsWhileHeld

-----------------------------------------------------------------------------
\* The names that the code itself has.
LEMMA Names ==
    /\ "none" \in KeyNames /\ "Mod" \in KeyNames /\ "T" \in KeyNames /\ "Return" \in KeyNames
    /\ "Tab" \in KeyNames /\ "Escape" \in KeyNames /\ "Vt" \in KeyNames
    /\ "dialog" \in UiNames /\ "mru" \in UiNames /\ "screenshot" \in UiNames /\ "pick" \in UiNames
    /\ "overview" \in UiNames
    /\ \A p \in KbProfiles : p.keys \subseteq KeyNames /\ p.ui \subseteq UiNames
<1>1. {"none", "Mod", "T", "Return", "Tab", "Escape", "Vt"} \subseteq KeyNames
  BY Zenon DEF KeyNames
<1>2. {"dialog", "mru", "screenshot", "pick", "overview"} \subseteq UiNames
  BY Zenon DEF UiNames
<1>3. \A p \in KbProfiles : p.keys \subseteq KeyNames /\ p.ui \subseteq UiNames
  BY Zenon DEF KeyNames, UiNames
<1> QED
  BY <1>1, <1>2, <1>3, Zenon

\* Bindings are bindings, and those made for a key have its name.
LEMMA BindTypes ==
    /\ NoBind \in KbBinds
    /\ \A k \in KeyNames, a \in ActionNames :
          /\ Hardcoded(k, a) \in KbBinds /\ Hardcoded(k, a).key = k /\ Hardcoded(k, a).action = a
          /\ Hardcoded(k, a).inhibit = FALSE /\ Hardcoded(k, a).cooldown = FALSE
          /\ Hardcoded(k, a) # NoBind
    /\ Configured \cup MruBinds \cup MruOpenBinds \subseteq KbBinds
<1>0. "none" \in ActionNames /\ "Spawn" \in ActionNames /\ "Quit" \in ActionNames
      /\ "MruAdvance" \in ActionNames /\ "MruCancel" \in ActionNames
  BY Zenon DEF ActionNames
<1>1. NoBind \in KbBinds
  BY <1>0, Names, Zenon DEF NoBind, KbBinds
<1>2. ASSUME NEW k \in KeyNames, NEW a \in ActionNames
      PROVE  /\ Hardcoded(k, a) \in KbBinds /\ Hardcoded(k, a).key = k /\ Hardcoded(k, a).action = a
             /\ Hardcoded(k, a).inhibit = FALSE /\ Hardcoded(k, a).cooldown = FALSE
             /\ Hardcoded(k, a) # NoBind
  <2>1. Hardcoded(k, a).repeat = TRUE /\ NoBind.repeat = FALSE
    BY Zenon DEF Hardcoded, NoBind
  <2> QED
    BY <1>0, <2>1, Names, Zenon DEF Hardcoded, NoBind, KbBinds
<1>3. Configured \subseteq KbBinds
  BY <1>0, <1>1, Names, ZenonT(60) DEF Configured, KbBinds
<1>4. MruBinds \subseteq KbBinds
  BY <1>0, <1>1, Names, ZenonT(60) DEF MruBinds, KbBinds
<1>5. MruOpenBinds \subseteq KbBinds
  BY <1>0, <1>1, Names, Zenon DEF MruOpenBinds, KbBinds
<1> QED
  BY <1>1, <1>2, <1>3, <1>4, <1>5, Zenon

\* find_bind gives no binding or one of the key.
LEMMA FoundBind ==
    ASSUME NEW st \in KbStates, NEW k \in KeyNames, NEW mods \in BOOLEAN
    PROVE  LET b == InterceptedBind(st, k, mods) IN b \in KbBinds /\ (b = NoBind \/ b.key = k)
<1> DEFINE found == {b \in make_binds_iter(st) : b.key = k /\ (mods \/ b \in MruOpenBinds)}
<1>1. found \subseteq KbBinds /\ \A b \in found : b.key = k
  BY BindTypes, Zenon DEF make_binds_iter
<1>2. find_configured_bind(st, k, mods) = IF found = {} THEN NoBind ELSE CHOOSE b \in found : TRUE
  BY Zenon DEF find_configured_bind
<1>3. found # {} => (CHOOSE b \in found : TRUE) \in found
  BY Zenon
<1> HIDE DEF found
<1>4. LET b == find_configured_bind(st, k, mods) IN b \in KbBinds /\ (b = NoBind \/ b.key = k)
  BY <1>1, <1>2, <1>3, BindTypes, ZenonT(60)
<1>5. LET b == find_bind(st, k, mods) IN b \in KbBinds /\ (b = NoBind \/ b.key = k)
  BY <1>4, BindTypes, Names, ZenonT(60) DEF find_bind, ActionNames
<1>6. LET b == screenshot_action(k) IN b \in KbBinds /\ (b = NoBind \/ b.key = k)
  BY BindTypes, Names, ZenonT(60) DEF screenshot_action, ActionNames
<1> QED
  BY <1>5, <1>6, Zenon DEF InterceptedBind

\* An action changes neither what repeats nor, but to forget it, what is withheld.
LEMMA ActionKeeps ==
    ASSUME NEW st \in KbStates, NEW action \in ActionNames, NEW allow \in BOOLEAN
    PROVE  LET t == do_action(st, action, allow) IN
           t \in KbStates /\ t.repeat = st.repeat /\ t.suppressed \subseteq st.suppressed
<1>1. LET t == Perform(st, action) IN
      t \in KbStates /\ t.repeat = st.repeat /\ t.suppressed \subseteq st.suppressed
  <2>1. ASSUME NEW u \in SUBSET UiNames
        PROVE  LET t == [st EXCEPT !.ui = u] IN
               t \in KbStates /\ t.repeat = st.repeat /\ t.suppressed = st.suppressed
    BY Zenon DEF KbStates
  <2>2. LET t == [st EXCEPT !.suppressed = {}] IN
        t \in KbStates /\ t.repeat = st.repeat /\ t.suppressed \subseteq st.suppressed
    BY Zenon DEF KbStates
  <2>3. st.ui \in SUBSET UiNames
    BY Zenon DEF KbStates
  <2>4. \/ Perform(st, action) = [st EXCEPT !.suppressed = {}]
        \/ Perform(st, action) = st
        \/ \E u \in SUBSET UiNames : Perform(st, action) = [st EXCEPT !.ui = u]
    BY <2>3, Names, Zenon DEF Perform, Toggled
  <2> QED
    BY <2>1, <2>2, <2>4, Zenon
<1> DEFINE p == Perform(st, action)
<1> HIDE DEF p
<1>2. p \in KbStates /\ p.repeat = st.repeat /\ p.suppressed \subseteq st.suppressed
  BY <1>1, Zenon DEF p
<1>3. LET t == [p EXCEPT !.ran = action] IN
      t \in KbStates /\ t.repeat = p.repeat /\ t.suppressed = p.suppressed
  BY <1>2, Zenon DEF KbStates
<1> QED
  BY <1>2, <1>3, Zenon DEF do_action, p

\* Running a binding does no more than its action.
LEMMA BindKeeps ==
    ASSUME NEW st \in KbStates, NEW b \in KbBinds
    PROVE  LET t == handle_bind(st, b) IN
           t \in KbStates /\ t.repeat = st.repeat /\ t.suppressed \subseteq st.suppressed
<1>1. b.action \in ActionNames /\ b.locked \in BOOLEAN /\ b.key \in KeyNames
  BY Zenon DEF KbBinds
<1> DEFINE c == [st EXCEPT !.cooling = @ \cup {b.key}]
<1>2. c \in KbStates /\ c.repeat = st.repeat /\ c.suppressed = st.suppressed
  BY <1>1, Zenon DEF KbStates
<1> HIDE DEF c
<1>3. LET t == do_action(st, b.action, b.locked) IN
      t \in KbStates /\ t.repeat = st.repeat /\ t.suppressed \subseteq st.suppressed
  BY <1>1, ActionKeeps, Zenon
<1>4. LET t == do_action(c, b.action, b.locked) IN
      t \in KbStates /\ t.repeat = st.repeat /\ t.suppressed \subseteq st.suppressed
  BY <1>1, <1>2, ActionKeeps, Zenon
<1>5. handle_bind(st, b) \in {st, do_action(st, b.action, b.locked), do_action(c, b.action, b.locked)}
  BY Zenon DEF handle_bind, c
<1> QED
  BY <1>3, <1>4, <1>5, Zenon

\* Withholding a key, or no longer, changes nothing else.
LEMMA SuppressKeeps ==
    ASSUME NEW st \in KbStates, NEW k \in KeyNames
    PROVE  /\ Suppress(st, k) \in KbStates /\ Suppress(st, k).repeat = st.repeat
           /\ Suppress(st, k).suppressed = st.suppressed \cup {k}
           /\ Unsuppress(st, k) \in KbStates /\ Unsuppress(st, k).repeat = st.repeat
           /\ Unsuppress(st, k).suppressed = st.suppressed \ {k}
  BY Zenon DEF Suppress, Unsuppress, KbStates

\* What the filter says of a key: a press that goes on to the client is not
\* withheld and one that does not is; a release goes where its press went.
Sound(st, k, pressed, out) ==
  /\ out.st \in KbStates /\ out.st.repeat = st.repeat
  /\ out.forward \in BOOLEAN /\ out.bind \in KbBinds
  /\ out.bind = NoBind \/ (pressed /\ ~out.forward /\ out.bind.key = k)
  /\ out.st.suppressed = IF out.forward THEN st.suppressed
                         ELSE IF pressed THEN st.suppressed \cup {k} ELSE st.suppressed \ {k}
  /\ ~pressed => (out.forward <=> k \notin st.suppressed)

\* The verdict of should_intercept_key is sound.
LEMMA VerdictSound ==
    ASSUME NEW st \in KbStates, NEW k \in KeyNames, NEW pressed \in BOOLEAN, NEW mods \in BOOLEAN
    PROVE  Sound(st, k, pressed, should_intercept_key(st, k, pressed, mods))
<1> DEFINE b == InterceptedBind(st, k, mods)
<1>1. b \in KbBinds /\ (b = NoBind \/ b.key = k)
  BY FoundBind, Zenon
<1>2. should_intercept_key(st, k, pressed, mods) =
        IF pressed THEN IF b = NoBind \/ (st.inhibiting /\ b.inhibit) THEN Forward(st) ELSE Intercept(Suppress(st, k), b)
        ELSE IF k \in st.suppressed THEN Intercept(Unsuppress(st, k), NoBind) ELSE Forward(st)
  BY Zenon DEF should_intercept_key
<1> HIDE DEF b
<1>3. CASE pressed /\ ~(b = NoBind \/ (st.inhibiting /\ b.inhibit))
  BY <1>1, <1>2, <1>3, SuppressKeeps DEF Sound, Intercept
<1>4. CASE ~pressed /\ k \in st.suppressed
  BY <1>2, <1>4, SuppressKeeps, BindTypes, SMTT(30) DEF Sound, Intercept
<1>5. CASE ~(pressed /\ ~(b = NoBind \/ (st.inhibiting /\ b.inhibit))) /\ ~(~pressed /\ k \in st.suppressed)
  <2>1. should_intercept_key(st, k, pressed, mods) = Forward(st)
    BY <1>2, <1>5, Zenon
  <2> QED
    BY <1>5, <2>1, BindTypes DEF Sound, Forward
<1> QED
  BY <1>3, <1>4, <1>5, Zenon

\* So is that of the whole filter, with the dialogs it looks at first.
LEMMA FilterSound ==
    ASSUME NEW st \in KbStates, NEW k \in KeyNames, NEW pressed \in BOOLEAN, NEW mods \in BOOLEAN
    PROVE  Sound(st, k, pressed, Filter(st, k, pressed, mods))
<1> DEFINE verdict == should_intercept_key(st, k, pressed, mods)
<1>1. Filter(st, k, pressed, mods) =
        IF "dialog" \in st.ui /\ pressed THEN DialogKey(st, k)
        ELSE IF "mru" \in st.ui /\ ~pressed /\ ~mods THEN MruRelease(st, k)
        ELSE IF "pick" \in st.ui /\ pressed /\ k = "Escape" THEN CancelPick(st, k)
        ELSE IF verdict.forward /\ pressed /\ FocusIsOverview(st)
                /\ hardcoded_overview_bind(k, mods) # NoBind THEN OverviewKey(st, k, mods)
        ELSE verdict
  BY Zenon DEF Filter
<1>2. Sound(st, k, pressed, verdict)
  BY VerdictSound, Zenon
<1>3. ASSUME pressed PROVE Sound(st, k, pressed, DialogKey(st, k))
  <2> DEFINE t == [Suppress(st, k) EXCEPT !.ran = IF k = "Return" THEN "stop" ELSE @]
  <2>1. t \in KbStates /\ t.repeat = st.repeat /\ t.suppressed = st.suppressed \cup {k}
    BY SuppressKeeps, ZenonT(60) DEF KbStates, ActionNames
  <2>2. DialogKey(st, k) = Intercept(t, NoBind)
    BY Zenon DEF DialogKey
  <2> HIDE DEF t
  <2> QED
    BY <1>3, <2>1, <2>2, BindTypes DEF Sound, Intercept
<1>4. ASSUME ~pressed PROVE Sound(st, k, pressed, MruRelease(st, k))
  <2> DEFINE done == do_action(st, "MruConfirm", FALSE)
  <2>1. done \in KbStates /\ done.repeat = st.repeat
    BY ActionKeeps, Zenon DEF ActionNames
  <2>2. done.suppressed = st.suppressed
    <3>1. Perform(st, "MruConfirm") = [st EXCEPT !.ui = @ \ {"mru"}]
      BY Zenon DEF Perform
    <3>2. done = st \/ done = [[st EXCEPT !.ui = @ \ {"mru"}] EXCEPT !.ran = "MruConfirm"]
      BY <3>1, Zenon DEF do_action
    <3> QED
      BY <3>2, Zenon DEF KbStates
  <2>3. MruRelease(st, k) = IF k \in done.suppressed THEN Intercept(Unsuppress(done, k), NoBind) ELSE Forward(done)
    BY Zenon DEF MruRelease
  <2> HIDE DEF done
  <2>4. CASE k \in st.suppressed
    <3>1. MruRelease(st, k) = Intercept(Unsuppress(done, k), NoBind)
      BY <2>2, <2>3, <2>4, Zenon
    <3> QED
      BY <1>4, <2>1, <2>2, <2>4, <3>1, SuppressKeeps, BindTypes DEF Sound, Intercept
  <2>5. CASE k \notin st.suppressed
    <3>1. MruRelease(st, k) = Forward(done)
      BY <2>2, <2>3, <2>5, Zenon
    <3> QED
      BY <1>4, <2>1, <2>2, <2>5, <3>1, BindTypes DEF Sound, Forward
  <2> QED
    BY <2>4, <2>5, Zenon
<1>5. ASSUME pressed PROVE Sound(st, k, pressed, CancelPick(st, k))
  <2> DEFINE t == [Suppress(st, k) EXCEPT !.ui = @ \ {"pick"}]
  <2>1. t \in KbStates /\ t.repeat = st.repeat /\ t.suppressed = st.suppressed \cup {k}
    BY SuppressKeeps, ZenonT(60) DEF KbStates
  <2>2. CancelPick(st, k) = Intercept(t, NoBind)
    BY Zenon DEF CancelPick
  <2> HIDE DEF t
  <2> QED
    BY <1>5, <2>1, <2>2, BindTypes DEF Sound, Intercept
<1>6. ASSUME pressed PROVE Sound(st, k, pressed, OverviewKey(st, k, mods))
  <2> DEFINE b == hardcoded_overview_bind(k, mods)
  <2>1. b \in KbBinds /\ (b = NoBind \/ b.key = k)
    <3>1. Hardcoded(k, "ToggleOverview") \in KbBinds /\ Hardcoded(k, "ToggleOverview").key = k
      BY BindTypes, ZenonT(60) DEF ActionNames
    <3>2. LET h == [Hardcoded(k, "ToggleOverview") EXCEPT !.repeat = FALSE] IN h \in KbBinds /\ h.key = k
      BY <3>1, Zenon DEF KbBinds
    <3> QED
      BY <3>2, BindTypes, Zenon DEF hardcoded_overview_bind
  <2>2. OverviewKey(st, k, mods) = Intercept(Suppress(st, k), b)
    BY Zenon DEF OverviewKey
  <2> HIDE DEF b
  <2> QED
    BY <1>6, <2>1, <2>2, SuppressKeeps DEF Sound, Intercept
<1> HIDE DEF verdict
<1> QED
  BY <1>1, <1>2, <1>3, <1>4, <1>5, <1>6, Zenon

-----------------------------------------------------------------------------
\* A key event keeps the invariant, when a press is of a key that was up.
LEMMA KeyEventKeeps ==
    ASSUME KbInv, NEW k \in KeyNames, NEW pressed \in BOOLEAN, NEW mods \in BOOLEAN,
           on_keyboard(k, pressed, mods), kbProfile' = kbProfile, kbLost' = kbLost,
           kbDown' = IF pressed THEN kbDown \cup {k} ELSE kbDown \ {k}, pressed => k \notin kbDown
    PROVE  KbInv'
<1> DEFINE ran    == [kbSt EXCEPT !.ran = "none"]
           before == StopRepeat(ran, k, pressed)
           out    == Filter(before, k, pressed, mods)
           acted  == IF out.bind = NoBind THEN out.st
                     ELSE start_key_repeat(handle_bind(out.st, out.bind), out.bind)
<1>1. /\ kbSt' = [acted EXCEPT !.ui = IF "dialog" \in kbSt.ui /\ pressed THEN @ \ {"dialog"} ELSE @]
      /\ kbHeld' = IF ~out.forward THEN kbHeld ELSE IF pressed THEN kbHeld \cup {k} ELSE kbHeld \ {k}
  BY Zenon DEF on_keyboard
<1>2. kbSt \in KbStates /\ ReleaseFollowsPress /\ RepeatsWhileHeld
  BY Zenon DEF KbInv
<1>3. ran \in KbStates /\ ran.suppressed = kbSt.suppressed /\ ran.repeat = kbSt.repeat
  BY <1>2, Zenon DEF KbStates, ActionNames
<1> HIDE DEF ran
<1>4. /\ before \in KbStates /\ before.suppressed = kbSt.suppressed
      /\ before.repeat = IF pressed THEN kbSt.repeat ELSE NoBind
  BY <1>3, BindTypes, Zenon DEF StopRepeat, KbStates
<1> HIDE DEF before
<1>5. Sound(before, k, pressed, out)
  BY <1>4, FilterSound, Zenon
<1> HIDE DEF out
<1>6. /\ acted \in KbStates /\ acted.suppressed \subseteq out.st.suppressed
      /\ acted.repeat = before.repeat \/ (pressed /\ acted.repeat.key = k)
  <2>1. CASE out.bind = NoBind
    BY <1>5, <2>1, Zenon DEF Sound
  <2>2. CASE out.bind # NoBind
    <3> DEFINE h == handle_bind(out.st, out.bind)
    <3>1. h \in KbStates /\ h.repeat = before.repeat /\ h.suppressed \subseteq out.st.suppressed
      BY <1>5, BindKeeps, Zenon DEF Sound
    <3>2. acted = IF out.bind.repeat THEN [h EXCEPT !.repeat = out.bind] ELSE h
      BY <2>2, Zenon DEF start_key_repeat
    <3>3. out.bind \in KbBinds /\ pressed /\ out.bind.key = k
      BY <1>5, <2>2, Zenon DEF Sound
    <3> HIDE DEF h
    <3> QED
      BY <3>1, <3>2, <3>3, ZenonT(60) DEF KbStates
  <2> QED
    BY <2>1, <2>2, Zenon
<1> HIDE DEF acted
<1>7. kbSt' \in KbStates /\ kbSt'.suppressed = acted.suppressed /\ kbSt'.repeat = acted.repeat
  BY <1>1, <1>6, Zenon DEF KbStates
<1>8. ReleaseFollowsPress'
  <2>1. /\ kbHeld \subseteq kbDown \cup kbLost /\ kbSt.suppressed \subseteq kbDown \cup kbLost
        /\ kbHeld \cap kbSt.suppressed \subseteq kbLost
    BY <1>2, Zenon DEF ReleaseFollowsPress
  <2>2. out.forward \in BOOLEAN /\ (~pressed => (out.forward <=> k \notin kbSt.suppressed))
    BY <1>4, <1>5, Zenon DEF Sound
  <2>3. kbSt'.suppressed \subseteq IF out.forward THEN kbSt.suppressed
                                   ELSE IF pressed THEN kbSt.suppressed \cup {k} ELSE kbSt.suppressed \ {k}
    BY <1>4, <1>5, <1>6, <1>7, Zenon DEF Sound
  <2> QED
    BY <1>1, <2>1, <2>2, <2>3, Zenon DEF ReleaseFollowsPress
<1>9. RepeatsWhileHeld'
  BY <1>2, <1>4, <1>6, <1>7, Zenon DEF RepeatsWhileHeld
<1> QED
  BY <1>7, <1>8, <1>9, Zenon DEF KbInv

\* The invariant holds at the start.
LEMMA KbInitInv == KbInit => KbInv
<1> SUFFICES ASSUME KbInit PROVE KbInv
  BY Zenon
<1>1. kbSt \in KbStates
  BY BindTypes, Zenon DEF KbInit, KbStates, ActionNames
<1>2. kbSt.suppressed = {} /\ kbSt.repeat = NoBind /\ kbHeld = {} /\ kbProfile \in KbProfiles
  BY Zenon DEF KbInit
<1> QED
  BY <1>1, <1>2, Zenon DEF KbInv, ReleaseFollowsPress, RepeatsWhileHeld

\* A step that leaves what is held, withheld and repeating as it is, or drops
\* some of it, keeps the invariant.
LEMMA QuietKeeps ==
    ASSUME KbInv, kbProfile' = kbProfile, kbHeld' = kbHeld, kbSt' \in KbStates,
           kbDown \cup kbLost \subseteq kbDown' \cup kbLost', kbLost \subseteq kbLost',
           kbSt'.suppressed \subseteq kbSt.suppressed, kbSt'.repeat = kbSt.repeat
    PROVE  KbInv'
  BY Zenon DEF KbInv, ReleaseFollowsPress, RepeatsWhileHeld

\* Every step keeps the invariant.
LEMMA KbStepInv == KbInv /\ [KbNext]_kbVars => KbInv'
<1> SUFFICES ASSUME KbInv, [KbNext]_kbVars PROVE KbInv'
  BY Zenon
<1>0. kbSt \in KbStates /\ kbProfile \in KbProfiles /\ "none" \in ActionNames
  BY Zenon DEF KbInv, ActionNames
<1>1. CASE UNCHANGED kbVars
  BY <1>0, <1>1, QuietKeeps, Zenon DEF kbVars
<1> SUFFICES ASSUME KbNext PROVE KbInv'
  BY <1>1, Zenon
<1>2. kbProfile' = kbProfile /\ KbKeys \subseteq KeyNames /\ kbProfile.ui \subseteq UiNames
  BY <1>0, Names, Zenon DEF KbNext, KbKeys
<1>3. CASE ModifiersChanged
  <2> DEFINE pressed == "Mod" \notin kbDown
  <2>1. /\ on_keyboard("Mod", pressed, pressed) /\ kbLost' = kbLost
        /\ kbDown' = IF pressed THEN kbDown \cup {"Mod"} ELSE kbDown \ {"Mod"}
    BY <1>3, Zenon DEF ModifiersChanged, Toggled
  <2>2. pressed \in BOOLEAN /\ (pressed => "Mod" \notin kbDown)
    BY Zenon
  <2> HIDE DEF pressed
  <2> QED
    BY <1>2, <2>1, <2>2, Names, KeyEventKeeps, Zenon
<1>4. ASSUME NEW k \in KbKeys, KeyPressed(k) PROVE KbInv'
  <2> DEFINE mods == "Mod" \in kbDown
  <2>1. /\ k \notin kbDown /\ kbDown' = kbDown \cup {k} /\ kbLost' = kbLost
        /\ k \in kbRecent => kbHeld' = kbHeld /\ kbSt' = kbSt
        /\ k \notin kbRecent => on_keyboard(k, TRUE, mods)
    BY <1>4, Zenon DEF KeyPressed
  <2>2. mods \in BOOLEAN /\ k \in KeyNames
    BY <1>2
  <2> HIDE DEF mods
  <2>3. CASE k \in kbRecent
    BY <1>0, <1>2, <2>1, <2>3, QuietKeeps, Zenon
  <2>4. CASE k \notin kbRecent
    BY <1>2, <2>1, <2>2, <2>4, KeyEventKeeps, Zenon
  <2> QED
    BY <2>3, <2>4, Zenon
<1>5. ASSUME NEW k \in KbKeys, KeyReleased(k) PROVE KbInv'
  <2> DEFINE mods == "Mod" \in kbDown
  <2>1. kbDown' = kbDown \ {k} /\ kbLost' = kbLost /\ on_keyboard(k, FALSE, mods)
    BY <1>5, Zenon DEF KeyReleased
  <2>2. mods \in BOOLEAN /\ k \in KeyNames
    BY <1>2
  <2> HIDE DEF mods
  <2> QED
    BY <1>2, <2>1, <2>2, KeyEventKeeps, Zenon
<1>6. ASSUME NEW k \in KbKeys, Debounced(k) \/ ReleaseElsewhere(k) PROVE KbInv'
  BY <1>0, <1>2, <1>6, QuietKeeps, Zenon DEF Debounced, ReleaseElsewhere
<1>7. CASE RepeatFires
  <2> DEFINE ran == [kbSt EXCEPT !.ran = "none"]
  <2>1. ran \in KbStates /\ ran.suppressed = kbSt.suppressed /\ ran.repeat = kbSt.repeat /\ kbSt.repeat \in KbBinds
    BY <1>0, Zenon DEF KbStates
  <2>2. kbSt' = handle_bind(ran, kbSt.repeat) /\ UNCHANGED <<kbDown, kbHeld, kbLost>>
    BY <1>7, Zenon DEF RepeatFires
  <2> HIDE DEF ran
  <2>3. kbSt' \in KbStates /\ kbSt'.repeat = kbSt.repeat /\ kbSt'.suppressed \subseteq kbSt.suppressed
    BY <2>1, <2>2, BindKeeps, Zenon
  <2> QED
    BY <1>2, <2>2, <2>3, QuietKeeps, Zenon
<1>8. ASSUME NEW k \in KbKeys, CooldownExpires(k) PROVE KbInv'
  <2>1. kbSt' = [kbSt EXCEPT !.cooling = @ \ {k}, !.ran = "none"] /\ UNCHANGED <<kbDown, kbHeld, kbLost>>
    BY <1>8, Zenon DEF CooldownExpires
  <2>2. kbSt' \in KbStates /\ kbSt'.repeat = kbSt.repeat /\ kbSt'.suppressed = kbSt.suppressed
    BY <1>0, <2>1, Zenon DEF KbStates
  <2> QED
    BY <1>2, <2>1, <2>2, QuietKeeps, Zenon
<1>9. ASSUME NEW u \in kbProfile.ui, OpenUi(u) PROVE KbInv'
  <2>1. /\ kbSt' = [kbSt EXCEPT !.ui = (IF u = "screenshot" THEN @ \ {"mru"} ELSE @) \cup {u}, !.ran = "none"]
        /\ UNCHANGED <<kbDown, kbHeld, kbLost>>
    BY <1>9, Zenon DEF OpenUi
  <2>2. kbSt' \in KbStates /\ kbSt'.repeat = kbSt.repeat /\ kbSt'.suppressed = kbSt.suppressed
    BY <1>0, <1>2, <2>1, Zenon DEF KbStates
  <2> QED
    BY <1>2, <2>1, <2>2, QuietKeeps, Zenon
<1>10. CASE LockSession \/ UnlockSession \/ ToggleInhibitor
  <2>1. UNCHANGED <<kbDown, kbHeld, kbLost>>
    BY <1>10, Zenon DEF LockSession, UnlockSession, ToggleInhibitor
  <2>2. kbSt' \in KbStates /\ kbSt'.repeat = kbSt.repeat /\ kbSt'.suppressed = kbSt.suppressed
    BY <1>0, <1>10, ZenonT(60) DEF KbStates, LockSession, UnlockSession, ToggleInhibitor
  <2> QED
    BY <1>2, <2>1, <2>2, QuietKeeps, Zenon
<1> QED
  BY <1>3, <1>4, <1>5, <1>6, <1>7, <1>8, <1>9, <1>10, Zenon DEF KbNext

\* The inductive invariant of the keyboard.
THEOREM KbInductive == KbSpec => []KbInv
BY KbInitInv, KbStepInv, PTL DEF KbSpec

\* Every release of a key goes where its press went, whatever opened meanwhile.
THEOREM ReleasesFollowPresses == KbSpec => []ReleaseFollowsPress
<1>1. KbInv => ReleaseFollowsPress
  BY Zenon DEF KbInv
<1> QED
  BY <1>1, KbInductive, PTL

\* No binding repeats after its key is up.
THEOREM RepeatsStop == KbSpec => []RepeatsWhileHeld
<1>1. KbInv => RepeatsWhileHeld
  BY Zenon DEF KbInv
<1> QED
  BY <1>1, KbInductive, PTL

\* Pressing the key of a virtual terminal runs ChangeVt, unless the exit dialog
\* is open.
LEMMA VtPressed ==
    ASSUME KbInv, NEW k, k = "Vt", NEW mods \in BOOLEAN, on_keyboard(k, TRUE, mods), "dialog" \notin kbSt.ui
    PROVE  kbSt'.ran = "ChangeVt"
<1> DEFINE before == [kbSt EXCEPT !.ran = "none"]
           b   == Hardcoded("Vt", "ChangeVt")
           st  == Suppress(before, "Vt")
           acted == start_key_repeat(handle_bind(st, b), b)
<1>1. kbSt \in KbStates /\ "ChangeVt" \in ActionNames /\ "none" \in ActionNames
  BY Zenon DEF KbInv, ActionNames
<1>2. before \in KbStates /\ before.ui = kbSt.ui
  BY <1>1, Zenon DEF KbStates
<1>3. b \in KbBinds /\ b.key = "Vt" /\ b.action = "ChangeVt" /\ ~b.inhibit /\ ~b.cooldown /\ b # NoBind
  BY <1>1, Names, BindTypes
<1>4. StopRepeat(before, "Vt", TRUE) = before
  BY Zenon DEF StopRepeat
<1> HIDE DEF before
<1>5. InterceptedBind(before, "Vt", mods) = b
  BY <1>3, Zenon DEF InterceptedBind, find_bind, allowed_during_screenshot
<1>6. st \in KbStates
  BY <1>2, Names, SuppressKeeps, Zenon
<1> HIDE DEF b
<1>7. should_intercept_key(before, "Vt", TRUE, mods) = Intercept(st, b)
  BY <1>3, <1>5, Zenon DEF should_intercept_key
<1> HIDE DEF st
<1>8. Filter(before, "Vt", TRUE, mods) = Intercept(st, b)
  <2>1. ~Intercept(st, b).forward /\ "dialog" \notin before.ui
    BY <1>2, Zenon DEF Intercept
  <2> QED
    BY <1>7, <2>1, Zenon DEF Filter
<1>9. handle_bind(st, b) = [Perform(st, "ChangeVt") EXCEPT !.ran = "ChangeVt"]
  <2>1. handle_bind(st, b) = do_action(st, "ChangeVt", b.locked)
    BY <1>3, Zenon DEF handle_bind
  <2>2. allowed_when_locked("ChangeVt")
    BY Zenon DEF allowed_when_locked
  <2> QED
    BY <2>1, <2>2, Zenon DEF do_action
<1>10. Perform(st, "ChangeVt") = [st EXCEPT !.suppressed = {}]
  BY Zenon DEF Perform
<1>11. handle_bind(st, b) \in KbStates /\ handle_bind(st, b).ran = "ChangeVt"
  <2>1. [st EXCEPT !.suppressed = {}] \in KbStates
    BY <1>6, Zenon DEF KbStates
  <2> QED
    BY <1>1, <1>9, <1>10, <2>1, ZenonT(60) DEF KbStates
<1>12. acted \in KbStates /\ acted.ran = "ChangeVt"
  BY <1>3, <1>11, Zenon DEF start_key_repeat, KbStates
<1> HIDE DEF acted
<1>13. kbSt' = [acted EXCEPT !.ui = @]
  <2>1. LET out == Filter(before, "Vt", TRUE, mods)
            done == IF out.bind = NoBind THEN out.st
                    ELSE start_key_repeat(handle_bind(out.st, out.bind), out.bind)
        IN  kbSt' = [done EXCEPT !.ui = @]
    BY <1>4, Zenon DEF on_keyboard, before
  <2>2. Intercept(st, b).bind = b /\ Intercept(st, b).st = st
    BY Zenon DEF Intercept
  <2> QED
    BY <1>3, <1>8, <2>1, <2>2, Zenon DEF acted
<1> QED
  BY <1>12, <1>13, Zenon DEF KbStates

\* Whatever is open, inhibited or locked, the virtual terminal can be switched,
\* but for the exit dialog.
THEOREM VtSwitches == KbSpec => VtAlwaysSwitches
<1>1. ASSUME KbInv, KbNext, "Vt" \in kbDown' \ kbDown, "Vt" \notin kbRecent, "dialog" \notin kbSt.ui
      PROVE  kbSt'.ran = "ChangeVt"
  <2>1. ~ModifiersChanged /\ ~RepeatFires /\ ~LockSession /\ ~UnlockSession /\ ~ToggleInhibitor
    BY <1>1 DEF ModifiersChanged, Toggled, RepeatFires, LockSession, UnlockSession, ToggleInhibitor
  <2>2. \A k \in KbKeys : ~KeyReleased(k) /\ ~Debounced(k) /\ ~ReleaseElsewhere(k) /\ ~CooldownExpires(k)
    BY <1>1, Zenon DEF KeyReleased, Debounced, ReleaseElsewhere, CooldownExpires
  <2>3. \A u \in kbProfile.ui : ~OpenUi(u)
    BY <1>1, Zenon DEF OpenUi
  <2>4. PICK k \in KbKeys : KeyPressed(k)
    BY <1>1, <2>1, <2>2, <2>3, Zenon DEF KbNext
  <2>5. k = "Vt"
    BY <1>1, <2>4, Zenon DEF KeyPressed
  <2> DEFINE mods == "Mod" \in kbDown
  <2>6. on_keyboard(k, TRUE, mods)
    BY <1>1, <2>4, <2>5, Zenon DEF KeyPressed
  <2>7. mods \in BOOLEAN
    OBVIOUS
  <2> HIDE DEF mods
  <2> QED
    BY <1>1, <2>5, <2>6, <2>7, VtPressed, Zenon
<1>2. KbInv /\ [KbNext]_kbVars =>
        [("Vt" \in kbDown' \ kbDown /\ "Vt" \notin kbRecent /\ "dialog" \notin kbSt.ui)
           => kbSt'.ran = "ChangeVt"]_kbVars
  BY <1>1, Zenon
<1> QED
  BY <1>2, KbInductive, PTL DEF KbSpec, VtAlwaysSwitches

-----------------------------------------------------------------------------
\* The selection of an open UI lies on the picture of its output.
OpenOK(ui) ==
    /\ ui \in SsOpen /\ ui.sel.out \in DOMAIN ui.data
    /\ Within(RectOf(ui.sel), ui.data[ui.sel.out])

\* DragHasItsPointer; and another finger moves the selection than drags it.
DragOK ==
    ssUi.open /\ ssUi.button # SsUp /\ ~ssProfile.cancel =>
       /\ ssUi.button.slot \in ssDown
       /\ ssUi.button.move # SsNone => ssUi.button.move.slot # ssUi.button.slot

\* The inductive invariant of the screenshot UI.
SsInv ==
    /\ ssProfile \in SsProfiles
    /\ ssSize \in SsDatas /\ DOMAIN ssSize \subseteq DOMAIN SsSizes
    /\ ssUi \in SsOpen \cup SsClosed
    /\ ssUi.open => OpenOK(ssUi) /\ \A o \in DOMAIN ssUi.data : o \in DOMAIN ssSize /\ ssSize[o] = ssUi.data[o]
    /\ DragOK

-----------------------------------------------------------------------------
\* The outputs that there can be, and their sizes.
LEMMA Areas ==
    /\ \A p \in SsProfiles : \A o \in DOMAIN p.sizes :
          o \in SsOutputs /\ \A i \in DOMAIN p.sizes[o] : p.sizes[o][i] \in SsAreas
    /\ \A s \in SsAreas : s[1] \in Nat /\ s[2] \in Nat /\ s[1] >= 2 /\ s[2] >= 2
    /\ \A d \in SsDatas : /\ DOMAIN d \subseteq SsOutputs /\ \A o \in DOMAIN d : d[o] \in SsAreas
<1>1. \A p \in SsProfiles : \A o \in DOMAIN p.sizes : o \in SsOutputs
  BY Zenon DEF SsOutputs
<1>2. ASSUME NEW p \in SsProfiles, NEW o \in DOMAIN p.sizes, NEW i \in DOMAIN p.sizes[o]
      PROVE  p.sizes[o][i] \in SsAreas
  BY DEF SsAreas
<1>3. \A s \in SsAreas : s[1] \in Nat /\ s[2] \in Nat /\ s[1] >= 2 /\ s[2] >= 2
  BY SsAssumption, Zenon
<1>4. \A d \in SsDatas : /\ DOMAIN d \subseteq SsOutputs /\ \A o \in DOMAIN d : d[o] \in SsAreas
  BY Zenon DEF SsDatas
<1> QED
  BY <1>1, <1>2, <1>3, <1>4, Zenon

\* A rectangle lies within a size if its two corners do.
LEMMA WithinIff ==
    ASSUME NEW sel \in SsSels, NEW size, size[1] \in Int, size[2] \in Int
    PROVE  Within(RectOf(sel), size) <=> /\ 0 <= sel.a[1] /\ sel.a[1] < size[1] /\ 0 <= sel.b[1] /\ sel.b[1] < size[1]
                                         /\ 0 <= sel.a[2] /\ sel.a[2] < size[2] /\ 0 <= sel.b[2] /\ sel.b[2] < size[2]
<1>1. sel.a[1] \in Int /\ sel.a[2] \in Int /\ sel.b[1] \in Int /\ sel.b[2] \in Int
  BY Zenon DEF SsSels, SsPoints
<1> DEFINE r == RectOf(sel)
<1>2. /\ r.loc[1] = Lesser(sel.a[1], sel.b[1]) /\ r.loc[2] = Lesser(sel.a[2], sel.b[2])
      /\ r.size[1] = Greater(sel.a[1], sel.b[1]) - Lesser(sel.a[1], sel.b[1]) + 1
      /\ r.size[2] = Greater(sel.a[2], sel.b[2]) - Lesser(sel.a[2], sel.b[2]) + 1
  BY Zenon DEF RectOf, rect_from_corner_points
<1>3. Within(r, size) <=> /\ r.loc[1] >= 0 /\ r.loc[1] + r.size[1] <= size[1]
                          /\ r.loc[2] >= 0 /\ r.loc[2] + r.size[2] <= size[2]
  BY Zenon DEF Within
<1> HIDE DEF r
<1> QED
  BY <1>1, <1>2, <1>3 DEF Lesser, Greater, r

\* Corner points are read back from the rectangle.
LEMMA RectTypes ==
    ASSUME NEW sel \in SsSels
    PROVE  /\ RectOf(sel) \in SsRects /\ RectOf(sel).size[1] >= 1 /\ RectOf(sel).size[2] >= 1
           /\ RectOf(sel).size[1] \in Int /\ RectOf(sel).size[2] \in Int
           /\ RectOf(sel).loc[1] \in Int /\ RectOf(sel).loc[2] \in Int
<1>1. sel.a[1] \in Int /\ sel.a[2] \in Int /\ sel.b[1] \in Int /\ sel.b[2] \in Int
  BY Zenon DEF SsSels, SsPoints
<1> QED
  BY <1>1 DEF RectOf, rect_from_corner_points, Lesser, Greater, SsRects, SsPoints

\* A rectangle is selected by its corners.
LEMMA SelectTypes ==
    ASSUME NEW o \in SsOutputs, NEW r, r.loc[1] \in Int, r.loc[2] \in Int, r.size[1] \in Int, r.size[2] \in Int,
           r.loc \in SsPoints
    PROVE  /\ Select(o, r) \in SsSels /\ Select(o, r).out = o /\ Select(o, r).a = r.loc
           /\ Select(o, r).b[1] = r.loc[1] + r.size[1] - 1 /\ Select(o, r).b[2] = r.loc[2] + r.size[2] - 1
  BY DEF Select, Minus, Plus, SsSels, SsPoints

\* The default selection fits an output of any size from 2 by 2.
LEMMA DefaultFits ==
    ASSUME NEW o \in SsOutputs, NEW size \in SsAreas
    PROVE  LET sel == Select(o, DefaultRect(size)) IN sel \in SsSels /\ sel.out = o /\ Within(RectOf(sel), size)
<1> DEFINE r == DefaultRect(size)
           sel == Select(o, r)
<1>1. size[1] \in Nat /\ size[2] \in Nat /\ size[1] >= 2 /\ size[2] >= 2
  BY Areas, Zenon
<1>2. /\ r.loc[1] = size[1] \div 4 /\ r.loc[2] = size[2] \div 4
      /\ r.size[1] = size[1] \div 2 /\ r.size[2] = size[2] \div 2
      /\ r.loc = <<size[1] \div 4, size[2] \div 4>>
  BY Zenon DEF DefaultRect
<1>3. ASSUME NEW n \in Nat, n >= 2
      PROVE  /\ n \div 4 \in Int /\ n \div 2 \in Int /\ 0 <= n \div 4 /\ n \div 4 < n
             /\ 1 <= n \div 2 /\ n \div 4 + n \div 2 - 1 < n
  BY <1>3
<1>4. /\ r.loc[1] \in Int /\ r.loc[2] \in Int /\ r.size[1] \in Int /\ r.size[2] \in Int /\ r.loc \in SsPoints
      /\ 0 <= r.loc[1] /\ r.loc[1] < size[1] /\ 1 <= r.size[1] /\ r.loc[1] + r.size[1] - 1 < size[1]
      /\ 0 <= r.loc[2] /\ r.loc[2] < size[2] /\ 1 <= r.size[2] /\ r.loc[2] + r.size[2] - 1 < size[2]
  BY <1>1, <1>2, <1>3, Zenon DEF SsPoints
<1> HIDE DEF r
<1>5. /\ sel \in SsSels /\ sel.out = o /\ sel.a = r.loc
      /\ sel.b[1] = r.loc[1] + r.size[1] - 1 /\ sel.b[2] = r.loc[2] + r.size[2] - 1
  BY <1>4, SelectTypes, ZenonT(60)
<1> HIDE DEF sel
<1>6. Within(RectOf(sel), size)
  BY <1>1, <1>4, <1>5, WithinIff
<1> QED
  BY <1>5, <1>6, Zenon DEF sel, r

\* update_buffers leaves a selection on the output, and one that was there as
\* it is.
LEMMA BuffersFit ==
    ASSUME NEW ui \in SsOpen, ui.sel.out \in DOMAIN ui.data
    PROVE  LET v == update_buffers(ui) IN
           /\ OpenOK(v) /\ v.data = ui.data /\ v.button = ui.button /\ v.sel.out = ui.sel.out
           /\ Within(RectOf(ui.sel), ui.data[ui.sel.out]) => v = ui
<1> DEFINE size == ui.data[ui.sel.out]
           sel == Select(ui.sel.out, DefaultRect(size))
<1>1. ui.sel \in SsSels /\ ui.sel.out \in SsOutputs /\ size \in SsAreas
  BY Areas, Zenon DEF SsOpen, SsSels
<1>2. sel \in SsSels /\ sel.out = ui.sel.out /\ Within(RectOf(sel), size)
  BY <1>1, DefaultFits, Zenon
<1>3. update_buffers(ui) = IF Within(RectOf(ui.sel), size) THEN ui ELSE [ui EXCEPT !.sel = sel]
  BY Zenon DEF update_buffers
<1> HIDE DEF sel, size
<1>4. LET v == [ui EXCEPT !.sel = sel] IN v \in SsOpen /\ v.data = ui.data /\ v.button = ui.button /\ v.sel = sel
  BY <1>2, Zenon DEF SsOpen
<1> QED
  BY <1>2, <1>3, <1>4, Zenon DEF OpenOK, size

\* A new selection, wherever it is, ends up on its output.
LEMMA NewSelection ==
    ASSUME NEW ui \in SsOpen, NEW sel \in SsSels, sel.out \in DOMAIN ui.data
    PROVE  LET v == update_buffers([ui EXCEPT !.sel = sel]) IN
           /\ OpenOK(v) /\ v.data = ui.data /\ v.button = ui.button
           /\ Within(RectOf(sel), ui.data[sel.out]) => v.sel = sel
<1> DEFINE u == [ui EXCEPT !.sel = sel]
<1>1. u \in SsOpen /\ u.data = ui.data /\ u.button = ui.button /\ u.sel = sel
  BY Zenon DEF SsOpen
<1> HIDE DEF u
<1>2. LET v == update_buffers(u) IN
      /\ OpenOK(v) /\ v.data = u.data /\ v.button = u.button
      /\ Within(RectOf(u.sel), u.data[u.sel.out]) => v = u
  BY <1>1, BuffersFit, Zenon
<1> QED
  BY <1>1, <1>2, Zenon DEF u

\* Moving both corners by the same vector keeps the size.
LEMMA ShiftedSize ==
    ASSUME NEW sel \in SsSels, NEW tgt \in SsSels, NEW x \in Int, NEW y \in Int,
           tgt.a[1] = sel.a[1] + x, tgt.a[2] = sel.a[2] + y, tgt.b[1] = sel.b[1] + x, tgt.b[2] = sel.b[2] + y
    PROVE  RectOf(tgt).size = RectOf(sel).size
<1>1. sel.a[1] \in Int /\ sel.a[2] \in Int /\ sel.b[1] \in Int /\ sel.b[2] \in Int
  BY Zenon DEF SsSels, SsPoints
<1>2. ASSUME NEW m \in Int, NEW n \in Int, NEW z \in Int
      PROVE  Greater(m + z, n + z) - Lesser(m + z, n + z) + 1 = Greater(m, n) - Lesser(m, n) + 1
  BY <1>2, SMTT(30) DEF Greater, Lesser
<1> QED
  BY <1>1, <1>2 DEF RectOf, rect_from_corner_points

\* The arrow keys move the selection as far as the output goes.
LEMMA ShiftFits ==
    ASSUME NEW ui, OpenOK(ui), NEW axis \in {1, 2}, NEW sign \in {-1, 1}, NEW step \in Nat
    PROVE  LET sel == Shift(ui.sel, ui.data[ui.sel.out], axis, sign, step) IN
           /\ sel \in SsSels /\ sel.out = ui.sel.out /\ Within(RectOf(sel), ui.data[ui.sel.out])
           /\ RectOf(sel).size = RectOf(ui.sel).size
<1> DEFINE old == ui.sel
           size == ui.data[ui.sel.out]
           delta == IF sign < 0 THEN -Lesser(step, Lesser(old.a[axis], old.b[axis]))
                    ELSE Lesser(step, size[axis] - Greater(old.a[axis], old.b[axis]) - 1)
           sel == Shift(old, size, axis, sign, step)
<1>1. old \in SsSels /\ size \in SsAreas /\ size[1] \in Nat /\ size[2] \in Nat
  BY Areas, Zenon DEF OpenOK, SsOpen
<1>2. /\ old.a \in SsPoints /\ old.b \in SsPoints
      /\ old.a[1] \in Int /\ old.a[2] \in Int /\ old.b[1] \in Int /\ old.b[2] \in Int
  BY <1>1, Zenon DEF SsSels, SsPoints
<1>3. /\ 0 <= old.a[1] /\ old.a[1] < size[1] /\ 0 <= old.b[1] /\ old.b[1] < size[1]
      /\ 0 <= old.a[2] /\ old.a[2] < size[2] /\ 0 <= old.b[2] /\ old.b[2] < size[2]
  BY <1>1, WithinIff DEF OpenOK
<1>4. sel = [old EXCEPT !.a[axis] = @ + delta, !.b[axis] = @ + delta]
  BY Zenon DEF Shift
<1> HIDE DEF old, size
<1>5. /\ delta \in Int
      /\ 0 <= old.a[axis] + delta /\ old.a[axis] + delta < size[axis]
      /\ 0 <= old.b[axis] + delta /\ old.b[axis] + delta < size[axis]
  BY <1>1, <1>2, <1>3 DEF Lesser, Greater
<1> HIDE DEF delta, sel
<1> DEFINE x == IF axis = 1 THEN delta ELSE 0
           y == IF axis = 2 THEN delta ELSE 0
<1>6. /\ sel.a[1] = old.a[1] + x /\ sel.a[2] = old.a[2] + y /\ sel.b[1] = old.b[1] + x /\ sel.b[2] = old.b[2] + y
      /\ sel.out = old.out /\ sel \in SsSels
  <2>1. ASSUME NEW p \in SsPoints
        PROVE  LET q == [p EXCEPT ![axis] = @ + delta] IN q \in SsPoints /\ q[1] = p[1] + x /\ q[2] = p[2] + y
    BY <1>5 DEF SsPoints
  <2>2. /\ sel.a = [old.a EXCEPT ![axis] = @ + delta] /\ sel.b = [old.b EXCEPT ![axis] = @ + delta]
        /\ sel.out = old.out /\ sel = [out |-> sel.out, a |-> sel.a, b |-> sel.b] /\ old.out \in SsOutputs
    BY <1>1, <1>4, Zenon DEF SsSels
  <2> QED
    BY <1>2, <2>1, <2>2, ZenonT(60) DEF SsSels
<1>7. Within(RectOf(sel), size)
  BY <1>1, <1>2, <1>3, <1>5, <1>6, WithinIff, SMTT(30)
<1>8. RectOf(sel).size = RectOf(old).size
  BY <1>1, <1>5, <1>6, ShiftedSize
<1> QED
  BY <1>6, <1>7, <1>8, Zenon DEF sel, old, size

\* A coordinate rounded half up and clamped.
LEMMA ScaledTypes ==
    ASSUME NEW x \in Int, NEW m \in Int, NEW d \in Nat \ {0}, NEW lo \in Int, NEW hi \in Int
    PROVE  Clamp((2 * x * m + d) \div (2 * d), lo, hi) \in Int
<1>1. 2 * x * m + d \in Int /\ 2 * d \in Nat \ {0}
  OBVIOUS
<1> DEFINE q == (2 * x * m + d) \div (2 * d)
<1>2. ASSUME NEW n \in Int, NEW e \in Nat \ {0} PROVE n \div e \in Int
  BY <1>2
<1>3. q \in Int
  BY <1>1, <1>2, Zenon
<1> HIDE DEF q
<1>4. Clamp(q, lo, hi) \in Int
  BY <1>3, Zenon DEF Clamp, Lesser, Greater
<1> QED
  BY <1>4, Zenon DEF q

\* The selection given another width or height.
LEMMA ResizedTypes ==
    ASSUME NEW sel \in SsSels, NEW size \in SsAreas, NEW axis \in {1, 2}, NEW n \in Int
    PROVE  Resized(sel, size, axis, n) \in SsSels /\ Resized(sel, size, axis, n).out = sel.out
<1> DEFINE low == Lesser(sel.a[axis], sel.b[axis])
           end == low + Clamp(n, 1, size[axis] - low) - 1
           new == Resized(sel, size, axis, n)
<1>1. /\ sel.a \in SsPoints /\ sel.b \in SsPoints /\ sel.out \in SsOutputs
      /\ size[axis] \in Int /\ sel.a[axis] \in Int /\ sel.b[axis] \in Int
  BY Areas DEF SsSels, SsPoints
<1>2. low \in Int /\ end \in Int
  BY <1>1 DEF Clamp, Lesser, Greater
<1>3. new = [sel EXCEPT !.a[axis] = low, !.b[axis] = end]
  BY Zenon DEF Resized
<1> HIDE DEF low, end, new
<1>4. /\ new.a = [sel.a EXCEPT ![axis] = low] /\ new.b = [sel.b EXCEPT ![axis] = end]
      /\ new.out = sel.out /\ new = [out |-> new.out, a |-> new.a, b |-> new.b]
  BY <1>3, Zenon DEF SsSels
<1>5. ASSUME NEW p \in SsPoints, NEW v \in Int PROVE [p EXCEPT ![axis] = v] \in SsPoints
  BY DEF SsPoints
<1> QED
  BY <1>1, <1>2, <1>4, <1>5 DEF SsSels, new

-----------------------------------------------------------------------------
\* A pointer moves: the selection ends on the output; if it is being moved, it
\* keeps its size.
LEMMA MotionFits ==
    ASSUME NEW ui, OpenOK(ui), NEW point \in SsPoints, NEW slot
    PROVE  LET v == pointer_motion(ui, point, slot)
               b == ui.button
           IN  /\ OpenOK(v) /\ v.data = ui.data
               /\ v = ui \/ (b # SsUp /\ v.button.slot = b.slot /\ v.button.move = b.move)
               /\ v.sel = ui.sel \/ b.move = SsNone \/ RectOf(v.sel).size = RectOf(ui.sel).size
<1> DEFINE b     == ui.button
           moved == [ui EXCEPT !.button.pos = point]
           rect  == RectOf(ui.sel)
           area  == ui.data[ui.sel.out]
           room  == Minus(area, rect.size)
           want  == Plus(rect.loc, Minus(point, Plus(ui.sel.a, b.move.offset)))
           loc   == <<Clamp(want[1], 0, room[1]), Clamp(want[2], 0, room[2])>>
           delta == Minus(loc, rect.loc)
           drawn == [moved EXCEPT !.sel.b = point]
           dragged == [moved EXCEPT !.sel.a = Plus(@, delta), !.sel.b = Plus(@, delta)]
           v == pointer_motion(ui, point, slot)
<1>1. v = IF b = SsUp \/ b.slot # slot THEN ui
          ELSE IF b.capture THEN moved
          ELSE IF b.move = SsNone THEN update_buffers(drawn) ELSE update_buffers(dragged)
  BY Zenon DEF pointer_motion
<1>2. CASE b = SsUp \/ b.slot # slot
  BY <1>1, <1>2, Zenon
<1>3. CASE ~(b = SsUp \/ b.slot # slot)
  <2>1. b \in SsButtons /\ ui.sel \in SsSels /\ area \in SsAreas
    BY <1>3, Areas, Zenon DEF OpenOK, SsOpen
  <2>2. /\ moved \in SsOpen /\ moved.data = ui.data /\ moved.sel = ui.sel
        /\ moved.button.slot = b.slot /\ moved.button.move = b.move
    <3>1. ui \in SsOpen
      BY Zenon DEF OpenOK
    <3>2. [b EXCEPT !.pos = point] \in SsButtons /\ [b EXCEPT !.pos = point].slot = b.slot
          /\ [b EXCEPT !.pos = point].move = b.move
      BY <2>1, Zenon DEF SsButtons
    <3>3. moved = [ui EXCEPT !.button = [b EXCEPT !.pos = point]]
      BY <3>1, Zenon DEF SsOpen
    <3> QED
      BY <3>1, <3>2, <3>3, Zenon DEF SsOpen
  <2> HIDE DEF moved
  <2>3. CASE b.capture
    <3>1. v = moved
      BY <1>1, <1>3, <2>3, Zenon
    <3>2. OpenOK(moved)
      BY <2>2, Zenon DEF OpenOK
    <3> QED
      BY <1>3, <2>2, <3>1, <3>2, Zenon
  <2>4. CASE ~b.capture /\ b.move = SsNone
    <3>1. v = update_buffers(drawn)
      BY <1>1, <1>3, <2>4, Zenon
    <3>2. drawn \in SsOpen /\ drawn.data = ui.data /\ drawn.button = moved.button /\ drawn.sel.out = ui.sel.out
      <4>1. [ui.sel EXCEPT !.b = point] \in SsSels /\ [ui.sel EXCEPT !.b = point].out = ui.sel.out
        BY <2>1, Zenon DEF SsSels
      <4>2. drawn = [moved EXCEPT !.sel = [ui.sel EXCEPT !.b = point]]
        BY <2>2, Zenon DEF SsOpen
      <4> QED
        BY <2>2, <4>1, <4>2, Zenon DEF SsOpen
    <3> HIDE DEF drawn, v
    <3>3. OpenOK(v) /\ v.data = ui.data /\ v.button = moved.button
      <4>1. drawn.sel.out \in DOMAIN drawn.data
        BY <3>2, Zenon DEF OpenOK
      <4> QED
        BY <3>1, <3>2, <4>1, BuffersFit, Zenon
    <3> QED
      BY <1>3, <2>2, <2>4, <3>3, Zenon DEF v
  <2>5. CASE ~b.capture /\ b.move # SsNone
    <3>1. v = update_buffers(dragged)
      BY <1>1, <1>3, <2>5, Zenon
    <3>2. b.move.offset \in SsPoints
      BY <2>1, <2>5, Zenon DEF SsButtons, SsMoves
    <3>3. /\ rect.size[1] \in Int /\ rect.size[2] \in Int /\ rect.loc[1] \in Int /\ rect.loc[2] \in Int
          /\ area[1] \in Int /\ area[2] \in Int
          /\ ui.sel.a[1] \in Int /\ ui.sel.a[2] \in Int /\ ui.sel.b[1] \in Int /\ ui.sel.b[2] \in Int
      BY <2>1, Areas, RectTypes, SMTT(30) DEF SsSels, SsPoints
    <3>4. /\ rect.loc[1] = Lesser(ui.sel.a[1], ui.sel.b[1]) /\ rect.loc[2] = Lesser(ui.sel.a[2], ui.sel.b[2])
          /\ rect.size[1] = Greater(ui.sel.a[1], ui.sel.b[1]) - Lesser(ui.sel.a[1], ui.sel.b[1]) + 1
          /\ rect.size[2] = Greater(ui.sel.a[2], ui.sel.b[2]) - Lesser(ui.sel.a[2], ui.sel.b[2]) + 1
      BY Zenon DEF RectOf, rect_from_corner_points
    <3>5. /\ 0 <= ui.sel.a[1] /\ ui.sel.a[1] < area[1] /\ 0 <= ui.sel.b[1] /\ ui.sel.b[1] < area[1]
          /\ 0 <= ui.sel.a[2] /\ ui.sel.a[2] < area[2] /\ 0 <= ui.sel.b[2] /\ ui.sel.b[2] < area[2]
      BY <2>1, <3>3, WithinIff, Zenon DEF OpenOK
    <3> HIDE DEF rect, area, b
    <3>6. room[1] = area[1] - rect.size[1] /\ room[2] = area[2] - rect.size[2]
      BY Zenon DEF Minus
    <3>7. want[1] \in Int /\ want[2] \in Int
      BY <3>2, <3>3 DEF Plus, Minus, SsPoints
    <3> HIDE DEF room, want
    <3>8. /\ delta[1] = Clamp(want[1], 0, area[1] - rect.size[1]) - rect.loc[1]
          /\ delta[2] = Clamp(want[2], 0, area[2] - rect.size[2]) - rect.loc[2]
      BY <3>6, Zenon DEF Minus
    <3> HIDE DEF loc, delta
    <3>9. /\ delta[1] \in Int /\ delta[2] \in Int
          /\ 0 <= rect.loc[1] + delta[1] /\ rect.loc[1] + delta[1] + rect.size[1] <= area[1]
          /\ 0 <= rect.loc[2] + delta[2] /\ rect.loc[2] + delta[2] + rect.size[2] <= area[2]
      <4>1. ASSUME NEW x \in Int, NEW y \in Int, NEW n \in Int, NEW w \in Int, NEW d, NEW low, NEW len,
                   0 <= x, x < n, 0 <= y, y < n, low = Lesser(x, y), len = Greater(x, y) - Lesser(x, y) + 1,
                   d = Clamp(w, 0, n - len) - low
            PROVE  d \in Int /\ 0 <= low + d /\ low + d + len <= n
        BY <4>1 DEF Clamp, Lesser, Greater
      <4>2. ASSUME NEW i \in {1, 2}
            PROVE  delta[i] \in Int /\ 0 <= rect.loc[i] + delta[i] /\ rect.loc[i] + delta[i] + rect.size[i] <= area[i]
        <5> DEFINE x == ui.sel.a[i]
                   y == ui.sel.b[i]
        <5>1. x \in Int /\ y \in Int /\ area[i] \in Int /\ want[i] \in Int
          BY <3>3, <3>7, <4>2, Zenon
        <5>2. 0 <= x /\ x < area[i] /\ 0 <= y /\ y < area[i]
          BY <3>5, <4>2, Zenon
        <5>3. rect.loc[i] = Lesser(x, y) /\ rect.size[i] = Greater(x, y) - Lesser(x, y) + 1
          BY <3>4, <4>2, Zenon
        <5>4. delta[i] = Clamp(want[i], 0, area[i] - rect.size[i]) - rect.loc[i]
          BY <3>8, <4>2, Zenon
        <5> HIDE DEF x, y
        <5> QED
          BY ONLY <4>1, <5>1, <5>2, <5>3, <5>4, ZenonT(60)
      <4> QED
        BY <4>2, Zenon
    <3> DEFINE sel == [ui.sel EXCEPT !.a = Plus(ui.sel.a, delta), !.b = Plus(ui.sel.b, delta)]
    <3>10. /\ sel \in SsSels /\ sel.out = ui.sel.out
           /\ sel.a[1] = ui.sel.a[1] + delta[1] /\ sel.a[2] = ui.sel.a[2] + delta[2]
           /\ sel.b[1] = ui.sel.b[1] + delta[1] /\ sel.b[2] = ui.sel.b[2] + delta[2]
      <4>1. ASSUME NEW q \in SsPoints
            PROVE  Plus(q, delta) \in SsPoints /\ Plus(q, delta)[1] = q[1] + delta[1] /\ Plus(q, delta)[2] = q[2] + delta[2]
        BY <3>9 DEF Plus, SsPoints
      <4>2. ui.sel.a \in SsPoints /\ ui.sel.b \in SsPoints /\ ui.sel.out \in SsOutputs
        BY <2>1, Zenon DEF SsSels
      <4> HIDE DEF sel
      <4>3. sel.out = ui.sel.out /\ sel.a = Plus(ui.sel.a, delta) /\ sel.b = Plus(ui.sel.b, delta) /\ sel \in SsSels
        <5> DEFINE pa == Plus(ui.sel.a, delta)
                   pb == Plus(ui.sel.b, delta)
        <5>1. pa \in SsPoints /\ pb \in SsPoints /\ ui.sel \in SsSels
          BY <2>1, <4>1, <4>2, Zenon
        <5>2. sel = [ui.sel EXCEPT !.a = pa, !.b = pb]
          BY Zenon DEF sel
        <5> HIDE DEF pa, pb
        <5>3. sel \in SsSels /\ sel.out = ui.sel.out /\ sel.a = pa /\ sel.b = pb
          BY <5>1, <5>2, Zenon DEF SsSels
        <5> QED
          BY <5>3, Zenon DEF pa, pb
      <4> QED
        BY <4>1, <4>2, <4>3, ZenonT(60)
    <3>11. dragged = [moved EXCEPT !.sel = sel]
      BY <2>1, <2>2, Zenon DEF SsOpen, SsSels
    <3> HIDE DEF sel, dragged, v
    <3>12. Within(RectOf(sel), area)
      <4>1. ASSUME NEW x \in Int, NEW y \in Int, NEW n \in Int, NEW d \in Int, 0 <= Lesser(x, y) + d,
                   Lesser(x, y) + d + (Greater(x, y) - Lesser(x, y) + 1) <= n
            PROVE  0 <= x + d /\ x + d < n /\ 0 <= y + d /\ y + d < n
        BY <4>1 DEF Lesser, Greater
      <4>2. ASSUME NEW i \in {1, 2}
            PROVE  0 <= sel.a[i] /\ sel.a[i] < area[i] /\ 0 <= sel.b[i] /\ sel.b[i] < area[i]
        <5> DEFINE x == ui.sel.a[i]
                   y == ui.sel.b[i]
                   n == area[i]
                   d == delta[i]
        <5>1. x \in Int /\ y \in Int /\ n \in Int /\ d \in Int
          BY <3>3, <3>9, <4>2, Zenon
        <5>2. 0 <= Lesser(x, y) + d /\ Lesser(x, y) + d + (Greater(x, y) - Lesser(x, y) + 1) <= n
          BY <3>4, <3>9, <4>2, Zenon
        <5>3. sel.a[i] = x + d /\ sel.b[i] = y + d
          BY <3>10, <4>2, Zenon
        <5> HIDE DEF x, y, n, d
        <5>4. 0 <= x + d /\ x + d < n /\ 0 <= y + d /\ y + d < n
          BY ONLY <4>1, <5>1, <5>2, Zenon
        <5> QED
          BY <5>3, <5>4, ZenonT(60) DEF n
      <4>3. /\ 0 <= sel.a[1] /\ sel.a[1] < area[1] /\ 0 <= sel.b[1] /\ sel.b[1] < area[1]
            /\ 0 <= sel.a[2] /\ sel.a[2] < area[2] /\ 0 <= sel.b[2] /\ sel.b[2] < area[2]
        BY <4>2, Zenon
      <4> QED
        BY <3>3, <3>10, <4>3, WithinIff, Zenon
    <3>13. RectOf(sel).size = RectOf(ui.sel).size
      BY <2>1, <3>9, <3>10, ShiftedSize
    <3>14. OpenOK(v) /\ v.data = ui.data /\ v.button = moved.button /\ v.sel = sel
      <4>1. sel.out \in DOMAIN moved.data /\ moved.data[sel.out] = area
        BY <2>2, <3>10, Zenon DEF OpenOK, area
      <4> QED
        BY <2>2, <3>1, <3>10, <3>11, <3>12, <4>1, NewSelection, Zenon
    <3> QED
      BY <1>3, <2>2, <3>13, <3>14, ZenonT(60) DEF v, b
  <2> QED
    BY <2>3, <2>4, <2>5, Zenon
<1> QED
  BY <1>2, <1>3, Zenon

\* A pointer goes down: nothing happens, or it is the second finger and moves
\* the selection, or it starts a drag.
LEMMA DownFits ==
    ASSUME NEW ui, OpenOK(ui), NEW o \in SsOutputs, NEW point \in SsPoints, NEW slot \in SsPointers
    PROVE  LET v == pointer_down(ui, o, point, slot)
               b == ui.button
           IN  /\ OpenOK(v) /\ v.data = ui.data
               /\ \/ v = ui
                  \/ /\ b # SsUp /\ v.sel = ui.sel
                     /\ v.button.slot = b.slot /\ v.button.move.slot = slot
                  \/ b = SsUp /\ v.button.slot = slot /\ v.button.move = SsNone
<1> DEFINE b == ui.button
           capture == is_within_capture_button(ui, o, point)
           down == [slot |-> slot, capture |-> capture, out |-> o, pos |-> point, move |-> SsNone]
           move == [offset |-> Minus(b.pos, ui.sel.a), slot |-> slot]
           sel == [out |-> o, a |-> point, b |-> point]
           v == pointer_down(ui, o, point, slot)
<1>1. v = IF b # SsUp THEN
              IF slot \in Touches /\ ~b.capture /\ b.move = SsNone THEN [ui EXCEPT !.button.move = move] ELSE ui
          ELSE IF o \notin DOMAIN ui.data THEN ui
          ELSE IF down.capture THEN [ui EXCEPT !.button = down]
          ELSE update_buffers([ui EXCEPT !.button = down, !.sel = sel])
  BY Zenon DEF pointer_down
<1>2. ui \in SsOpen /\ b \in SsButtons \cup {SsUp} /\ ui.sel \in SsSels
  BY Zenon DEF OpenOK, SsOpen
<1>3. CASE v = ui
  BY <1>3, Zenon
<1>4. CASE b # SsUp /\ v = [ui EXCEPT !.button.move = move]
  <2>1. b \in SsButtons /\ b.pos \in SsPoints /\ ui.sel.a \in SsPoints
    BY <1>2, <1>4, Zenon DEF SsButtons, SsSels
  <2>2. move \in SsMoves /\ move.slot = slot
    BY <2>1 DEF SsMoves, Minus, SsPoints
  <2> HIDE DEF move
  <2> DEFINE c == [b EXCEPT !.move = move]
  <2>3. c \in SsButtons /\ c.slot = b.slot /\ c.move = move
    BY <2>1, <2>2, Zenon DEF SsButtons
  <2>4. v = [ui EXCEPT !.button = c]
    BY <1>2, <1>4, Zenon DEF SsOpen
  <2> HIDE DEF c, v
  <2>5. v \in SsOpen /\ v.data = ui.data /\ v.sel = ui.sel /\ v.button = c
    BY <1>2, <2>3, <2>4, Zenon DEF SsOpen
  <2> QED
    BY <1>4, <2>2, <2>3, <2>5, Zenon DEF OpenOK, v
<1>5. CASE b = SsUp /\ o \in DOMAIN ui.data
           /\ v \in {[ui EXCEPT !.button = down], update_buffers([ui EXCEPT !.button = down, !.sel = sel])}
  <2>1. capture \in BOOLEAN
    BY Zenon DEF is_within_capture_button
  <2> HIDE DEF capture
  <2>2. down \in SsButtons /\ down.slot = slot /\ down.move = SsNone
    BY <2>1, Zenon DEF SsButtons
  <2>3. sel \in SsSels /\ sel.out = o
    BY Zenon DEF SsSels
  <2> HIDE DEF down, sel
  <2> DEFINE u == [ui EXCEPT !.button = down]
  <2>4. u \in SsOpen /\ u.data = ui.data /\ u.sel = ui.sel /\ u.button = down
    BY <1>2, <2>2, Zenon DEF SsOpen
  <2>5. [ui EXCEPT !.button = down, !.sel = sel] = [u EXCEPT !.sel = sel]
    BY <1>2, Zenon DEF SsOpen
  <2> HIDE DEF u, v
  <2>6. CASE v = u
    BY <1>5, <2>2, <2>4, <2>6, ZenonT(60) DEF OpenOK, v
  <2>7. CASE v = update_buffers([u EXCEPT !.sel = sel])
    <3>1. OpenOK(v) /\ v.data = ui.data /\ v.button = down
      BY <1>5, <2>3, <2>4, <2>7, NewSelection, Zenon
    <3> QED
      BY <1>5, <2>2, <3>1, Zenon DEF v
  <2> QED
    BY <1>5, <2>5, <2>6, <2>7, ZenonT(60) DEF u
<1> QED
  BY <1>1, <1>3, <1>4, <1>5, Zenon

\* A pointer goes up: nothing happens, or the second finger stops moving the
\* selection, or the drag ends.
LEMMA UpFits ==
    ASSUME NEW ui, OpenOK(ui), NEW slot
    PROVE  LET v == pointer_up(ui, slot)
               b == ui.button
           IN  /\ OpenOK(v) /\ v.data = ui.data
               /\ \/ v = ui /\ (b = SsUp \/ b.slot # slot)
                  \/ /\ b # SsUp /\ b.move # SsNone /\ b.move.slot = slot
                     /\ v.button.slot = b.slot /\ v.button.move = SsNone /\ v.sel = ui.sel
                  \/ v.button = SsUp
<1> DEFINE b == ui.button
           up == [ui EXCEPT !.button = SsUp]
           area == ui.data[ui.sel.out]
           v == pointer_up(ui, slot)
<1>1. v = IF b = SsUp THEN ui
          ELSE IF b.move # SsNone /\ slot \in Touches /\ b.move.slot = slot THEN [ui EXCEPT !.button.move = SsNone]
          ELSE IF b.slot # slot THEN ui
          ELSE IF RectOf(up.sel).size # <<1, 1>> THEN update_buffers(up)
          ELSE update_buffers([up EXCEPT !.sel = Around(@, area)])
  BY Zenon DEF pointer_up
<1>2. ui \in SsOpen /\ b \in SsButtons \cup {SsUp} /\ ui.sel \in SsSels /\ area \in SsAreas /\ ui.sel.out \in DOMAIN ui.data
  BY Areas, Zenon DEF OpenOK, SsOpen
<1>3. CASE v = ui /\ (b = SsUp \/ b.slot # slot)
  BY <1>3, Zenon
<1>4. CASE b # SsUp /\ b.move # SsNone /\ b.move.slot = slot /\ v = [ui EXCEPT !.button.move = SsNone]
  <2> DEFINE c == [b EXCEPT !.move = SsNone]
  <2>1. c \in SsButtons /\ c.slot = b.slot /\ c.move = SsNone
    BY <1>2, <1>4, Zenon DEF SsButtons
  <2>2. v = [ui EXCEPT !.button = c]
    BY <1>2, <1>4, Zenon DEF SsOpen
  <2> HIDE DEF c, v
  <2>3. v \in SsOpen /\ v.data = ui.data /\ v.sel = ui.sel /\ v.button = c
    BY <1>2, <2>1, <2>2, Zenon DEF SsOpen
  <2> QED
    BY <1>4, <2>1, <2>3, Zenon DEF OpenOK, v
<1>5. CASE v \in {update_buffers(up), update_buffers([up EXCEPT !.sel = Around(@, area)])}
  <2>1. up \in SsOpen /\ up.data = ui.data /\ up.sel = ui.sel /\ up.button = SsUp
    BY <1>2, Zenon DEF SsOpen
  <2>2. Around(ui.sel, area) \in SsSels /\ Around(ui.sel, area).out = ui.sel.out
    <3> DEFINE lo == <<Greater(ui.sel.a[1] - Margin, 0), Greater(ui.sel.a[2] - Margin, 0)>>
               hi == <<Lesser(ui.sel.a[1] + Margin, area[1]) - 1, Lesser(ui.sel.a[2] + Margin, area[2]) - 1>>
    <3>1. ui.sel.a[1] \in Int /\ ui.sel.a[2] \in Int /\ area[1] \in Int /\ area[2] \in Int
      BY <1>2, Areas, SMTT(30) DEF SsSels, SsPoints
    <3> HIDE DEF area
    <3>2. lo \in SsPoints /\ hi \in SsPoints
      BY <3>1 DEF SsPoints, Lesser, Greater, Margin
    <3>3. Around(ui.sel, area) = [ui.sel EXCEPT !.a = lo, !.b = hi]
      BY Zenon DEF Around
    <3> HIDE DEF lo, hi
    <3> QED
      BY <1>2, <3>2, <3>3, Zenon DEF SsSels
  <2>3. [up EXCEPT !.sel = Around(@, area)] = [up EXCEPT !.sel = Around(ui.sel, area)]
    BY <2>1, Zenon
  <2> HIDE DEF up, v, area
  <2>4. CASE v = update_buffers(up)
    <3>1. OpenOK(v) /\ v.data = ui.data /\ v.button = SsUp
      BY <1>2, <2>1, <2>4, BuffersFit, Zenon
    <3> QED
      BY <3>1, Zenon DEF v
  <2>5. CASE v = update_buffers([up EXCEPT !.sel = Around(ui.sel, area)])
    <3>1. OpenOK(v) /\ v.data = ui.data /\ v.button = SsUp
      BY <1>2, <2>1, <2>2, <2>5, NewSelection, Zenon
    <3> QED
      BY <3>1, Zenon DEF v
  <2> QED
    BY <1>5, <2>3, <2>4, <2>5, Zenon
<1> QED
  BY <1>1, <1>3, <1>4, <1>5, Zenon

-----------------------------------------------------------------------------
\* What a step of the UI while it is open and stays open may do to the drag: it
\* keeps the selection or its size, or it is no drag that moves the selection.
Gently ==
    \/ ssUi'.sel = ssUi.sel
    \/ RectOf(ssUi'.sel).size = RectOf(ssUi.sel).size
    \/ ssUi'.button \in {ssUi.button, SsUp} \/ ssUi.button = SsUp \/ ssUi.button.move = SsNone

\* Pixels are points.
LEMMA PixelTypes == ASSUME NEW size \in SsAreas, NEW point \in Pixels(size) PROVE point \in SsPoints
  BY Areas DEF Pixels, SsPoints

\* The facts about an open UI, in one place.
LEMMA WhileOpen ==
    ASSUME SsInv, ssUi.open
    PROVE  /\ OpenOK(ssUi) /\ ssUi \in SsOpen /\ ssUi.sel \in SsSels /\ ssUi.sel.out \in DOMAIN ssUi.data
           /\ ssUi.data[ssUi.sel.out] \in SsAreas /\ ssUi.button \in SsButtons \cup {SsUp}
           /\ \A o \in DOMAIN ssUi.data : /\ o \in SsOutputs /\ o \in DOMAIN ssSize /\ ssUi.data[o] \in SsAreas
                                          /\ SsScale[o] \in Nat \ {0}
<1>1. OpenOK(ssUi) /\ ssUi \in SsOpen
  BY Zenon DEF SsInv, OpenOK
<1>2. \A o \in DOMAIN ssUi.data : o \in SsOutputs /\ ssUi.data[o] \in SsAreas
  BY <1>1, Areas, Zenon DEF SsOpen
<1>3. \A o \in DOMAIN ssUi.data : o \in DOMAIN ssSize /\ SsScale[o] \in Nat \ {0}
  BY SsAssumption, Zenon DEF SsInv, SsScale, SsSizes
<1> QED
  BY <1>1, <1>2, <1>3, Zenon DEF OpenOK, SsOpen

\* An open UI that stays open.
LEMMA StaysOpen ==
    ASSUME SsInv, ssUi.open, OpenOK(ssUi'), ssUi'.data = ssUi.data, UNCHANGED <<ssSize, ssProfile>>, DragOK'
    PROVE  SsInv'
<1>1. OpenOK(ssUi)' <=> OpenOK(ssUi')
  BY Zenon DEF OpenOK
<1>2. ssUi' \in SsOpen
  BY Zenon DEF OpenOK
<1> QED
  BY <1>1, <1>2, Zenon DEF SsInv, SsSizes

\* A new selection while the drag goes on.
LEMMA Reselected ==
    ASSUME SsInv, NEW sel \in SsSels, sel.out \in DOMAIN ssUi.data,
           Ui(update_buffers([ssUi EXCEPT !.sel = sel])), UNCHANGED ssProfile
    PROVE  SsInv' /\ Gently
<1>1. ssUi.open /\ ssUi' = update_buffers([ssUi EXCEPT !.sel = sel]) /\ UNCHANGED <<ssSize, ssDown, ssProfile>>
  BY Zenon DEF Ui
<1>2. OpenOK(ssUi') /\ ssUi'.data = ssUi.data /\ ssUi'.button = ssUi.button
  BY <1>1, WhileOpen, NewSelection, Zenon
<1>3. DragOK'
  BY <1>1, <1>2, Zenon DEF SsInv, DragOK
<1> QED
  BY <1>1, <1>2, <1>3, StaysOpen, Zenon DEF Gently

\* The UI closes, on its outputs or when one of them is gone or resized.
LEMMA ClosedTypes == ASSUME SsInv, ssUi.open PROVE Closed(ssUi) \in SsClosed /\ Closed(ssUi).open = FALSE
<1>1. ssUi.sel \in SsSels /\ RectOf(ssUi.sel) \in SsRects
  BY WhileOpen, RectTypes, Zenon
<1>2. ssUi.sel.out \in SsOutputs
  BY <1>1, Zenon DEF SsSels
<1> QED
  BY <1>1, <1>2, Zenon DEF Closed, SsClosed

\* A closed UI stays as sound as the sizes of the outputs are.
LEMMA WhileClosed ==
    ASSUME SsInv, ssUi' \in SsClosed, ssSize' \in SsDatas, DOMAIN ssSize' \subseteq DOMAIN SsSizes, UNCHANGED ssProfile
    PROVE  SsInv'
<1>1. ~ssUi'.open
  BY Zenon DEF SsClosed
<1> QED
  BY <1>1, Zenon DEF SsInv, DragOK, SsSizes

\* The UI is closed if it is open.
LEMMA Closes == ASSUME SsInv, CloseIfOpen PROVE ssUi' \in SsClosed
<1>1. ssUi \in SsOpen \cup SsClosed /\ (~ssUi.open => ssUi \in SsClosed)
  BY Zenon DEF SsInv, SsOpen
<1> QED
  BY <1>1, ClosedTypes, Zenon DEF CloseIfOpen

\* Initially the UI is closed.
LEMMA SsInitInv == SsInit => SsInv
<1> SUFFICES ASSUME SsInit PROVE SsInv
  BY Zenon
<1>1. ssProfile \in SsProfiles /\ \A o \in DOMAIN SsSizes : o \in SsOutputs /\ SsSizes[o][1] \in SsAreas
  BY Areas, SsAssumption, Zenon DEF SsInit, SsSizes
<1>2. ssSize = [o \in DOMAIN SsSizes |-> SsSizes[o][1]]
  BY Zenon DEF SsInit
<1>3. ssSize \in [DOMAIN SsSizes -> SsAreas] /\ DOMAIN SsSizes \in SUBSET SsOutputs
  BY <1>1, <1>2, ZenonT(60)
<1>4. ssSize \in SsDatas
  BY <1>3, Zenon DEF SsDatas
<1>5. ssUi \in SsClosed /\ ~ssUi.open
  BY Zenon DEF SsInit, SsClosed
<1> QED
  BY <1>1, <1>2, <1>4, <1>5, Zenon DEF SsInv, DragOK

-----------------------------------------------------------------------------
\* Opening the UI, on the last selection or on the default one.
LEMMA OpenKeeps == ASSUME SsInv, NEW o, open(o), UNCHANGED ssProfile PROVE SsInv' /\ ~ssUi.open
<1> DEFINE sel == IF ssUi.last # SsNone /\ ssUi.last.out \in DOMAIN ssSize
                  THEN Select(ssUi.last.out, ssUi.last.rect)
                  ELSE Select(o, DefaultRect(ssSize[o]))
           ui == [open |-> TRUE, data |-> ssSize, button |-> SsUp, sel |-> sel]
<1>1. ~ssUi.open /\ o \in DOMAIN ssSize /\ ssUi' = update_buffers(ui) /\ UNCHANGED ssSize
  BY Zenon DEF open
<1>2. ssUi \in SsClosed /\ ssSize \in SsDatas
  BY <1>1, Zenon DEF SsInv, SsOpen
<1>3. o \in SsOutputs /\ ssSize[o] \in SsAreas
  BY <1>1, <1>2, Areas, Zenon
<1>4. sel \in SsSels /\ sel.out \in DOMAIN ssSize
  <2>1. CASE ssUi.last # SsNone /\ ssUi.last.out \in DOMAIN ssSize
    <3>1. ssUi.last.out \in SsOutputs /\ ssUi.last.rect \in SsRects
      BY <1>2, <2>1, Zenon DEF SsClosed
    <3> DEFINE r == ssUi.last.rect
    <3>2. r.loc[1] \in Int /\ r.loc[2] \in Int /\ r.size[1] \in Int /\ r.size[2] \in Int /\ r.loc \in SsPoints
      BY <3>1, Zenon DEF SsRects, SsPoints
    <3> HIDE DEF r
    <3>3. Select(ssUi.last.out, r) \in SsSels /\ Select(ssUi.last.out, r).out = ssUi.last.out
      BY <3>1, <3>2, SelectTypes, Zenon
    <3> QED
      BY <2>1, <3>3, Zenon DEF r
  <2>2. CASE ~(ssUi.last # SsNone /\ ssUi.last.out \in DOMAIN ssSize)
    BY <1>1, <1>3, <2>2, DefaultFits, Zenon
  <2> QED
    BY <2>1, <2>2, Zenon
<1> HIDE DEF sel
<1>5. ui \in SsOpen /\ ui.sel = sel /\ ui.data = ssSize /\ ui.button = SsUp
  BY <1>2, <1>4, Zenon DEF SsOpen
<1> HIDE DEF ui
<1>6. OpenOK(ssUi') /\ ssUi'.data = ssSize /\ ssUi'.button = SsUp
  BY <1>1, <1>4, <1>5, BuffersFit, Zenon
<1>7. OpenOK(ssUi)' /\ ssUi' \in SsOpen
  BY <1>6, Zenon DEF OpenOK
<1> QED
  BY <1>1, <1>6, <1>7, Zenon DEF SsInv, DragOK, SsSizes

\* An output is resized, removed or connected.
LEMMA OutputsKeep ==
    ASSUME SsInv, UNCHANGED ssProfile, NEW o \in DOMAIN SsSizes,
           \/ ss_remove_output(o) \/ ss_add_output(o)
           \/ \E i \in DOMAIN SsSizes[o] : output_resized(o, SsSizes[o][i])
    PROVE  SsInv' /\ (ssUi'.open => ssUi' = ssUi)
<1>1. ssProfile \in SsProfiles /\ ssSize \in SsDatas /\ DOMAIN ssSize \subseteq DOMAIN SsSizes
      /\ DOMAIN ssSize \subseteq SsOutputs /\ \A p \in DOMAIN ssSize : ssSize[p] \in SsAreas
  BY Areas, Zenon DEF SsInv
<1>2. o \in SsOutputs /\ 1 \in DOMAIN SsSizes[o] /\ \A i \in DOMAIN SsSizes[o] : SsSizes[o][i] \in SsAreas
  BY <1>1, Areas, SsAssumption, Zenon DEF SsSizes
<1>3. ASSUME ss_remove_output(o) PROVE SsInv' /\ (ssUi'.open => ssUi' = ssUi)
  <2> DEFINE closed == IF ssUi.open THEN Closed(ssUi) ELSE ssUi
  <2>1. closed \in SsClosed
    BY ClosedTypes, Zenon DEF SsInv, SsOpen
  <2>2. ssUi' = IF closed.last # SsNone /\ closed.last.out = o THEN [closed EXCEPT !.last = SsNone] ELSE closed
    BY <1>3, Zenon DEF ss_remove_output
  <2> HIDE DEF closed
  <2>3. ssUi' \in SsClosed /\ ~ssUi'.open
    BY <2>1, <2>2, Zenon DEF SsClosed
  <2>4. ssSize' = [p \in DOMAIN ssSize \ {o} |-> ssSize[p]]
    BY <1>3, Zenon DEF ss_remove_output
  <2>5. ssSize' \in [DOMAIN ssSize \ {o} -> SsAreas] /\ DOMAIN ssSize \ {o} \in SUBSET SsOutputs
    BY <1>1, <2>4, Zenon
  <2>6. ssSize' \in SsDatas /\ DOMAIN ssSize' \subseteq DOMAIN SsSizes
    BY <1>1, <2>4, <2>5, Zenon DEF SsDatas
  <2> QED
    BY <2>3, <2>6, WhileClosed, Zenon
<1>4. ASSUME ss_add_output(o) PROVE SsInv' /\ (ssUi'.open => ssUi' = ssUi)
  <2>1. /\ o \notin DOMAIN ssSize /\ UNCHANGED <<ssUi, ssDown>>
        /\ ssSize' = [p \in DOMAIN ssSize \cup {o} |-> IF p = o THEN SsSizes[o][1] ELSE ssSize[p]]
    BY <1>4, Zenon DEF ss_add_output
  <2>2. ssSize' \in [DOMAIN ssSize \cup {o} -> SsAreas] /\ DOMAIN ssSize \cup {o} \in SUBSET SsOutputs
    BY <1>1, <1>2, <2>1, Zenon
  <2>3. ssSize' \in SsDatas /\ DOMAIN ssSize' \subseteq DOMAIN SsSizes
        /\ \A p \in DOMAIN ssSize : p \in DOMAIN ssSize' /\ ssSize'[p] = ssSize[p]
    BY <1>1, <2>1, <2>2, Zenon DEF SsDatas
  <2> QED
    BY <2>1, <2>3, Zenon DEF SsInv, DragOK, OpenOK, SsSizes
<1>5. ASSUME NEW i \in DOMAIN SsSizes[o], output_resized(o, SsSizes[o][i]) PROVE SsInv' /\ (ssUi'.open => ssUi' = ssUi)
  <2>1. /\ o \in DOMAIN ssSize /\ ssSize' = [ssSize EXCEPT ![o] = SsSizes[o][i]] /\ UNCHANGED ssDown
        /\ IF ssUi.open /\ o \in DOMAIN ssUi.data THEN CloseIfOpen ELSE UNCHANGED ssUi
    BY <1>5, Zenon DEF output_resized
  <2>2. ssSize' \in [DOMAIN ssSize -> SsAreas] /\ DOMAIN ssSize \in SUBSET SsOutputs
    BY <1>1, <1>2, <2>1, Zenon
  <2>3. ssSize' \in SsDatas /\ DOMAIN ssSize' = DOMAIN ssSize /\ \A p \in DOMAIN ssSize \ {o} : ssSize'[p] = ssSize[p]
    BY <2>1, <2>2, Zenon DEF SsDatas
  <2>4. CASE ssUi.open /\ o \in DOMAIN ssUi.data
    <3>1. ssUi' \in SsClosed
      BY <2>1, <2>4, Closes, Zenon
    <3>2. SsInv'
      BY <1>1, <2>3, <3>1, WhileClosed, Zenon
    <3> QED
      BY <3>1, <3>2, Zenon DEF SsClosed
  <2>5. CASE ~(ssUi.open /\ o \in DOMAIN ssUi.data)
    BY <1>1, <2>1, <2>3, <2>5, ZenonT(60) DEF SsInv, DragOK, OpenOK, SsSizes
  <2> QED
    BY <2>4, <2>5, Zenon
<1> QED
  BY <1>3, <1>4, <1>5, Zenon

\* CancelScreenshot and ConfirmScreenshot close the UI.
LEMMA CloseKeeps == ASSUME SsInv, Cancel \/ ConfirmScreenshot, UNCHANGED ssProfile PROVE SsInv' /\ ~ssUi'.open
<1>1. CloseIfOpen /\ UNCHANGED ssSize
  BY Zenon DEF Cancel, ConfirmScreenshot
<1>2. ssUi' \in SsClosed
  BY <1>1, Closes, Zenon
<1>3. ssSize' \in SsDatas /\ DOMAIN ssSize' \subseteq DOMAIN SsSizes
  BY <1>1, Zenon DEF SsInv
<1> QED
  BY <1>2, <1>3, WhileClosed, Zenon DEF SsClosed

\* The keys that move the selection: it keeps its size.
LEMMA ArrowsKeep ==
    ASSUME SsInv, MoveSelection, UNCHANGED ssProfile
    PROVE  SsInv' /\ RectOf(ssUi'.sel).size = RectOf(ssUi.sel).size
<1> DEFINE area == ssUi.data[ssUi.sel.out]
           step == Step * SsScale[ssUi.sel.out]
<1>1. ssUi.open
  BY Zenon DEF MoveSelection
<1>2. step \in Nat
  <2>1. SsScale[ssUi.sel.out] \in Nat
    BY <1>1, WhileOpen, Zenon
  <2> QED
    BY <2>1 DEF Step
<1> HIDE DEF step
<1>3. PICK axis \in {1, 2}, sign \in {-1, 1} :
         Ui(update_buffers([ssUi EXCEPT !.sel = Shift(ssUi.sel, area, axis, sign, step)]))
  BY Zenon DEF MoveSelection, move_left, move_right, move_up, move_down, step
<1> DEFINE sel == Shift(ssUi.sel, area, axis, sign, step)
<1>4. /\ sel \in SsSels /\ sel.out = ssUi.sel.out /\ Within(RectOf(sel), area)
      /\ RectOf(sel).size = RectOf(ssUi.sel).size
  <2>1. OpenOK(ssUi)
    BY <1>1, WhileOpen, Zenon
  <2> QED
    BY ONLY <1>2, <1>3, <2>1, ShiftFits, ZenonT(60)
<1> HIDE DEF sel
<1>5. SsInv'
  BY <1>1, <1>3, <1>4, Reselected, WhileOpen, Zenon DEF sel
<1>6. ssUi' = update_buffers([ssUi EXCEPT !.sel = sel])
  BY <1>3, Zenon DEF Ui, sel
<1>7. ssUi'.sel = sel
  BY <1>1, <1>4, <1>6, WhileOpen, NewSelection, ZenonT(60)
<1> QED
  BY <1>4, <1>5, <1>7, Zenon

\* The selection is moved to another output.
LEMMA MoveKeeps == ASSUME SsInv, NEW o, move_to_output(o), UNCHANGED ssProfile PROVE SsInv' /\ Gently
<1> DEFINE from == ssUi.data[ssUi.sel.out]
           to   == ssUi.data[o]
           rect == RectOf(ssUi.sel)
           sz == [i \in {1, 2} |->
                     Clamp((2 * rect.size[i] * SsScale[o] + SsScale[ssUi.sel.out])
                               \div (2 * SsScale[ssUi.sel.out]), 1, to[i])]
           loc  == [i \in {1, 2} |->
                       Clamp((2 * rect.loc[i] * to[i] + from[i]) \div (2 * from[i]), 0, to[i] - sz[i])]
           sel == Select(o, [loc |-> <<loc[1], loc[2]>>, size |-> <<sz[1], sz[2]>>])
<1>1. ssUi.open /\ o \in DOMAIN ssUi.data /\ Ui(update_buffers([ssUi EXCEPT !.sel = sel]))
  BY Zenon DEF move_to_output
<1>2. /\ from \in SsAreas /\ to \in SsAreas /\ o \in SsOutputs /\ rect \in SsRects
      /\ SsScale[o] \in Nat \ {0} /\ SsScale[ssUi.sel.out] \in Nat \ {0}
  BY <1>1, WhileOpen, RectTypes, ZenonT(60)
<1>3. sel \in SsSels /\ sel.out = o
  <2> DEFINE s == SsScale[ssUi.sel.out]
             t == SsScale[o]
             r == [loc |-> <<loc[1], loc[2]>>, size |-> <<sz[1], sz[2]>>]
  <2>1. ASSUME NEW i \in {1, 2}
        PROVE  /\ rect.size[i] \in Int /\ rect.loc[i] \in Int /\ to[i] \in Int /\ from[i] \in Nat \ {0}
               /\ sz[i] = Clamp((2 * rect.size[i] * t + s) \div (2 * s), 1, to[i])
               /\ loc[i] = Clamp((2 * rect.loc[i] * to[i] + from[i]) \div (2 * from[i]), 0, to[i] - sz[i])
    <3>1. rect.size \in SsPoints /\ rect.loc \in SsPoints
      BY <1>2, Zenon DEF SsRects
    <3>2. rect.size[i] \in Int /\ rect.loc[i] \in Int
      BY <2>1, <3>1, Zenon DEF SsPoints
    <3>3. to[i] \in Int /\ from[i] \in Nat \ {0}
      BY <1>2, <2>1, Areas
    <3>4. sz[i] = Clamp((2 * rect.size[i] * t + s) \div (2 * s), 1, to[i])
      BY <2>1, Zenon
    <3>5. loc[i] = Clamp((2 * rect.loc[i] * to[i] + from[i]) \div (2 * from[i]), 0, to[i] - sz[i])
      <4> HIDE DEF sz
      <4> QED
        BY <2>1, Zenon
    <3> HIDE DEF sz, loc, s, t, rect, from, to
    <3> QED
      BY <3>2, <3>3, <3>4, <3>5, ZenonT(60)
  <2>2. s \in Nat \ {0} /\ t \in Int /\ 0 \in Int /\ 1 \in Int
    BY <1>2
  <2> HIDE DEF sz, loc, s, t, rect, from, to
  <2>3. ASSUME NEW i \in {1, 2} PROVE sz[i] \in Int /\ loc[i] \in Int
    <3>1. sz[i] \in Int
      BY <2>1, <2>2, <2>3, ScaledTypes, SMTT(30)
    <3> DEFINE x == rect.loc[i]
               m == to[i]
               d == from[i]
               hi == m - sz[i]
    <3>2. x \in Int /\ m \in Int /\ d \in Nat \ {0} /\ hi \in Int /\ 0 \in Int
      BY <2>1, <2>3, <3>1
    <3>3. loc[i] = Clamp((2 * x * m + d) \div (2 * d), 0, hi)
      BY <2>1, <2>3, Zenon
    <3> HIDE DEF x, m, d, hi
    <3>4. Clamp((2 * x * m + d) \div (2 * d), 0, hi) \in Int
      BY <3>2, ScaledTypes, Zenon
    <3> QED
      BY <3>1, <3>3, <3>4, Zenon
  <2>4. r.loc[1] \in Int /\ r.loc[2] \in Int /\ r.size[1] \in Int /\ r.size[2] \in Int /\ r.loc \in SsPoints
    BY <2>3, Zenon DEF SsPoints
  <2>5. sel = Select(o, r)
    BY Zenon
  <2> HIDE DEF r, sel
  <2> QED
    BY <1>2, <2>4, <2>5, SelectTypes, Zenon
<1> HIDE DEF sel
<1> QED
  BY <1>1, <1>3, Reselected, Zenon

\* The selection gets another width or height.
LEMMA SizesKeep == ASSUME SsInv, NEW n \in Int, set_width(n) \/ set_height(n), UNCHANGED ssProfile PROVE SsInv' /\ Gently
<1> DEFINE area == ssUi.data[ssUi.sel.out]
<1>1. PICK axis \in {1, 2} : Ui(update_buffers([ssUi EXCEPT !.sel = Resized(ssUi.sel, area, axis, n)]))
  BY Zenon DEF set_width, set_height
<1>2. ssUi.open
  BY <1>1, Zenon DEF Ui
<1>3. ssUi.sel \in SsSels /\ area \in SsAreas /\ ssUi.sel.out \in DOMAIN ssUi.data
  BY <1>2, WhileOpen, Zenon
<1>4. Resized(ssUi.sel, area, axis, n) \in SsSels /\ Resized(ssUi.sel, area, axis, n).out \in DOMAIN ssUi.data
  BY <1>3, ResizedTypes, ZenonT(60)
<1> QED
  BY <1>1, <1>4, Reselected, Zenon

\* Space starts or stops moving the selection.
LEMMA SpaceKeeps == ASSUME SsInv, NEW down, set_space_down(down), UNCHANGED ssProfile PROVE SsInv' /\ Gently
<1> DEFINE b == ssUi.button
           move == [offset |-> Minus(b.pos, ssUi.sel.a), slot |-> SsNone]
<1>1. /\ ssUi.open /\ b # SsUp /\ UNCHANGED <<ssSize, ssDown, ssProfile>>
      /\ ssUi' \in {[ssUi EXCEPT !.button.move = move], [ssUi EXCEPT !.button.move = SsNone]}
  BY Zenon DEF set_space_down, Ui
<1>2. PICK m \in {move, SsNone} : ssUi' = [ssUi EXCEPT !.button.move = m]
  BY <1>1, Zenon
<1>3. ssUi \in SsOpen /\ b \in SsButtons /\ b.slot \in SsPointers /\ b.pos \in SsPoints /\ ssUi.sel.a \in SsPoints /\ b.slot # SsNone
  BY <1>1, WhileOpen, SsAssumption, Zenon DEF SsButtons, SsSels
<1>4. move \in SsMoves /\ move.slot = SsNone
  BY <1>3 DEF SsMoves, Minus, SsPoints
<1> HIDE DEF move
<1> DEFINE c == [b EXCEPT !.move = m]
<1>5. c \in SsButtons /\ c.slot = b.slot /\ c.move = m
  BY <1>3, <1>4, Zenon DEF SsButtons
<1>6. ssUi' = [ssUi EXCEPT !.button = c]
  BY <1>2, <1>3, Zenon DEF SsOpen
<1> HIDE DEF c
<1>7. ssUi' \in SsOpen /\ ssUi'.data = ssUi.data /\ ssUi'.sel = ssUi.sel /\ ssUi'.button = c
  BY <1>3, <1>5, <1>6, Zenon DEF SsOpen
<1>8. OpenOK(ssUi')
  BY <1>1, <1>7, WhileOpen, Zenon DEF OpenOK
<1>9. DragOK'
  BY <1>1, <1>3, <1>4, <1>5, <1>7, Zenon DEF SsInv, DragOK
<1> QED
  BY <1>1, <1>7, <1>8, <1>9, StaysOpen, Zenon DEF Gently

\* The pointers go down, move and go up.
LEMMA PressKeeps ==
    ASSUME SsInv, NEW p \in ssProfile.pointers, NEW o, NEW point, Press(p, o, point), UNCHANGED ssProfile
    PROVE  SsInv' /\ (ssUi.open => Gently)
<1>1. /\ p \notin ssDown /\ o \in DOMAIN ssSize /\ point \in Pixels(ssSize[o]) /\ ssDown' = ssDown \cup {p}
      /\ ssUi' = IF ssUi.open THEN pointer_down(ssUi, o, point, p) ELSE ssUi
      /\ UNCHANGED <<ssSize, ssProfile>>
  BY Zenon DEF Press
<1>2. o \in SsOutputs /\ ssSize[o] \in SsAreas /\ p \in SsPointers
  BY <1>1, Areas, Zenon DEF SsInv, SsPointers
<1>3. point \in SsPoints
  BY <1>1, <1>2, PixelTypes, Zenon
<1>4. CASE ssUi.open
  <2> DEFINE b == ssUi.button
  <2>1. /\ OpenOK(ssUi') /\ ssUi'.data = ssUi.data
        /\ \/ ssUi' = ssUi
           \/ /\ b # SsUp /\ ssUi'.sel = ssUi.sel
              /\ ssUi'.button.slot = b.slot /\ ssUi'.button.move.slot = p
           \/ b = SsUp /\ ssUi'.button.slot = p /\ ssUi'.button.move = SsNone
    <3>1. OpenOK(ssUi)
      BY <1>4, WhileOpen, Zenon
    <3>2. PICK v : v = pointer_down(ssUi, o, point, p)
      BY Zenon
    <3>3. /\ OpenOK(v) /\ v.data = ssUi.data
          /\ \/ v = ssUi
             \/ /\ b # SsUp /\ v.sel = ssUi.sel
                /\ v.button.slot = b.slot /\ v.button.move.slot = p
             \/ b = SsUp /\ v.button.slot = p /\ v.button.move = SsNone
      BY <1>2, <1>3, <3>1, <3>2, DownFits, ZenonT(60)
    <3>4. ssUi' = v
      BY <1>1, <1>4, <3>2, Zenon
    <3> QED
      BY <3>3, <3>4, Zenon
  <2>2. DragOK'
    BY <1>1, <1>4, <2>1, ZenonT(60) DEF SsInv, DragOK
  <2> QED
    BY <1>1, <1>4, <2>1, <2>2, StaysOpen, Zenon DEF Gently
<1>5. CASE ~ssUi.open
  BY <1>1, <1>5, Zenon DEF SsInv, DragOK, OpenOK, SsSizes
<1> QED
  BY <1>4, <1>5, Zenon

\* A pointer that moves over the screenshot drags, moves or leaves the selection.
LEMMA MotionKeeps == ASSUME SsInv, NEW p, NEW point, Motion(p, point), UNCHANGED ssProfile PROVE SsInv' /\ Gently
<1>1. /\ ssUi.open /\ point \in Pixels(ssSize[ssUi.sel.out]) /\ ssUi' = pointer_motion(ssUi, point, p)
      /\ UNCHANGED <<ssSize, ssDown, ssProfile>>
  BY Zenon DEF Motion, Ui
<1>2. ssSize[ssUi.sel.out] \in SsAreas
  BY <1>1, WhileOpen, Areas, Zenon DEF SsInv
<1>3. point \in SsPoints
  BY <1>1, <1>2, PixelTypes, Zenon
<1> DEFINE b == ssUi.button
<1>4. /\ OpenOK(ssUi') /\ ssUi'.data = ssUi.data
      /\ ssUi' = ssUi \/ (b # SsUp /\ ssUi'.button.slot = b.slot /\ ssUi'.button.move = b.move)
      /\ ssUi'.sel = ssUi.sel \/ b.move = SsNone \/ RectOf(ssUi'.sel).size = RectOf(ssUi.sel).size
  <2>1. OpenOK(ssUi)
    BY <1>1, WhileOpen, Zenon
  <2>2. PICK v : v = pointer_motion(ssUi, point, p)
    BY Zenon
  <2>3. /\ OpenOK(v) /\ v.data = ssUi.data
        /\ v = ssUi \/ (b # SsUp /\ v.button.slot = b.slot /\ v.button.move = b.move)
        /\ v.sel = ssUi.sel \/ b.move = SsNone \/ RectOf(v.sel).size = RectOf(ssUi.sel).size
    BY <1>3, <2>1, <2>2, MotionFits, ZenonT(60)
  <2>4. ssUi' = v
    BY <1>1, <2>2, Zenon
  <2> QED
    BY <2>3, <2>4, Zenon
<1>5. DragOK'
  BY <1>1, <1>4, Zenon DEF SsInv, DragOK
<1> QED
  BY <1>1, <1>4, <1>5, StaysOpen, Zenon DEF Gently

\* A pointer that goes up ends its drag, or the confirmation it began.
LEMMA ReleaseKeeps ==
    ASSUME SsInv, NEW p, Release(p), UNCHANGED ssProfile
    PROVE  SsInv' /\ (ssUi.open /\ ssUi'.open => Gently)
<1>1. ssDown' = ssDown \ {p} /\ UNCHANGED <<ssSize, ssProfile>>
  BY Zenon DEF Release
<1>2. CASE ssUi.open /\ Captures(ssUi, p)
  <2>1. CloseIfOpen
    BY <1>2, Zenon DEF Release
  <2>2. ssUi' \in SsClosed
    BY <2>1, Closes, Zenon
  <2>3. ssSize' \in SsDatas /\ DOMAIN ssSize' \subseteq DOMAIN SsSizes
    BY <1>1, Zenon DEF SsInv
  <2> QED
    BY <1>1, <2>2, <2>3, WhileClosed, Zenon DEF SsClosed
<1>3. CASE ssUi.open /\ ~Captures(ssUi, p)
  <2> DEFINE b == ssUi.button
  <2>1. ssUi' = pointer_up(ssUi, p)
    BY <1>3, Zenon DEF Release
  <2>2. /\ OpenOK(ssUi') /\ ssUi'.data = ssUi.data
        /\ \/ ssUi' = ssUi /\ (b = SsUp \/ b.slot # p)
           \/ /\ b # SsUp /\ b.move # SsNone /\ b.move.slot = p
              /\ ssUi'.button.slot = b.slot /\ ssUi'.button.move = SsNone /\ ssUi'.sel = ssUi.sel
           \/ ssUi'.button = SsUp
    BY <1>3, <2>1, WhileOpen, UpFits, ZenonT(60)
  <2>3. DragOK'
    BY <1>1, <1>3, <2>2, Zenon DEF SsInv, DragOK
  <2> QED
    BY <1>1, <1>3, <2>2, <2>3, StaysOpen, Zenon DEF Gently
<1>4. CASE ~ssUi.open
  <2>1. UNCHANGED ssUi
    BY <1>4, Zenon DEF Release
  <2> QED
    BY <1>1, <1>4, <2>1, Zenon DEF SsInv, DragOK, OpenOK, SsSizes
<1> QED
  BY <1>2, <1>3, <1>4, Zenon

-----------------------------------------------------------------------------
\* Every step keeps the invariant, and what it may do to the selection.
LEMMA SsStepKeeps ==
    ASSUME SsInv, SsNext
    PROVE  /\ SsInv'
           /\ MoveSelection => RectOf(ssUi'.sel).size = RectOf(ssUi.sel).size
           /\ ssUi.open /\ ssUi'.open => Gently
<1>1. UNCHANGED ssProfile
  BY Zenon DEF SsNext
<1>2. MoveSelection => SsInv' /\ RectOf(ssUi'.sel).size = RectOf(ssUi.sel).size
  BY <1>1, ArrowsKeep, Zenon
<1>3. SsInv' /\ (ssUi.open /\ ssUi'.open => Gently)
  <2>1. ASSUME NEW o \in DOMAIN SsSizes, open(o) PROVE SsInv' /\ (ssUi.open /\ ssUi'.open => Gently)
    BY <1>1, <2>1, OpenKeeps, Zenon
  <2>2. ASSUME NEW o \in DOMAIN SsSizes,
               \/ ss_remove_output(o) \/ ss_add_output(o)
               \/ \E i \in DOMAIN SsSizes[o] : output_resized(o, SsSizes[o][i])
        PROVE  SsInv' /\ (ssUi.open /\ ssUi'.open => Gently)
    BY <1>1, <2>2, OutputsKeep, Zenon DEF Gently
  <2>3. ASSUME NEW o \in DOMAIN SsSizes, move_to_output(o) PROVE SsInv' /\ (ssUi.open /\ ssUi'.open => Gently)
    BY <1>1, <2>3, MoveKeeps, Zenon
  <2>4. ASSUME Cancel \/ ConfirmScreenshot PROVE SsInv' /\ (ssUi.open /\ ssUi'.open => Gently)
    BY <1>1, <2>4, CloseKeeps, Zenon
  <2>5. ASSUME MoveSelection PROVE SsInv' /\ (ssUi.open /\ ssUi'.open => Gently)
    BY <1>2, <2>5, Zenon DEF Gently
  <2>6. ASSUME TouchCancel PROVE SsInv' /\ (ssUi.open /\ ssUi'.open => Gently)
    BY <1>1, <2>6, Zenon DEF TouchCancel, SsInv, DragOK, OpenOK, SsSizes, Gently
  <2>7. ASSUME NEW down \in BOOLEAN, set_space_down(down) PROVE SsInv' /\ (ssUi.open /\ ssUi'.open => Gently)
    BY <1>1, <2>7, SpaceKeeps, Zenon
  <2>8. ASSUME NEW n \in {0, 2, 9}, set_width(n) \/ set_height(n) PROVE SsInv' /\ (ssUi.open /\ ssUi'.open => Gently)
    <3>1. n \in Int
      BY <2>8
    <3> QED
      BY <1>1, <2>8, <3>1, SizesKeep, Zenon
  <2>9. ASSUME NEW p \in ssProfile.pointers,
               \/ \E o \in DOMAIN ssSize : \E point \in Pixels(ssSize[o]) : Press(p, o, point)
               \/ \E point \in UNION {Pixels(ssSize[o]) : o \in DOMAIN ssSize} : Motion(p, point)
               \/ Release(p)
        PROVE  SsInv' /\ (ssUi.open /\ ssUi'.open => Gently)
    <3>1. ASSUME NEW o, NEW point, Press(p, o, point) PROVE SsInv' /\ (ssUi.open /\ ssUi'.open => Gently)
      BY <1>1, <3>1, PressKeeps, Zenon
    <3>2. ASSUME NEW point, Motion(p, point) PROVE SsInv' /\ (ssUi.open /\ ssUi'.open => Gently)
      BY <1>1, <3>2, MotionKeeps, Zenon
    <3>3. ASSUME Release(p) PROVE SsInv' /\ (ssUi.open /\ ssUi'.open => Gently)
      BY <1>1, <3>3, ReleaseKeeps, Zenon
    <3> QED
      BY <2>9, <3>1, <3>2, <3>3, Zenon
  <2> QED
    BY <2>1, <2>2, <2>3, <2>4, <2>5, <2>6, <2>7, <2>8, <2>9, ZenonT(60) DEF SsNext, SsStep
<1> QED
  BY <1>2, <1>3, Zenon

\* Every step of the screenshot UI keeps its invariant.
LEMMA SsStepInv == SsInv /\ [SsNext]_ssVars => SsInv'
<1>1. ASSUME SsInv, SsNext PROVE SsInv'
  BY <1>1, SsStepKeeps, Zenon
<1>2. ASSUME SsInv, UNCHANGED ssVars PROVE SsInv'
  BY <1>2, Zenon DEF ssVars, SsInv, DragOK, OpenOK, SsSizes
<1> QED
  BY <1>1, <1>2, Zenon

\* SsInv always holds of the screenshot UI, for any outputs of at least 2 by 2
\* pixels, any scales and any pointers.
THEOREM SsInductive == SsSpec => []SsInv
  BY SsInitInv, SsStepInv, PTL DEF SsSpec

\* The selection always lies on the captured picture of a connected output that
\* still has that size, so confirming never reads outside the texture.
THEOREM CapturesStayInside == SsSpec => []SelectionOnOutput
<1>1. SsInv => SelectionOnOutput
  <2> SUFFICES ASSUME SsInv, ssUi.open
               PROVE  /\ \A o \in DOMAIN ssUi.data : o \in DOMAIN ssSize /\ ssSize[o] = ssUi.data[o]
                      /\ Within(RectOf(ssUi.sel), ssUi.data[ssUi.sel.out])
                      /\ \A i \in {1, 2} : RectOf(ssUi.sel).size[i] >= 1
    BY Zenon DEF SelectionOnOutput
  <2> QED
    BY WhileOpen, RectTypes, Zenon DEF SsInv, OpenOK
<1> QED
  BY <1>1, SsInductive, PTL

\* Without touch cancellation, a drag belongs to a pointer that is down.
THEOREM DragsEndWithTheirPointer == SsSpec => []DragHasItsPointer
<1>1. SsInv => DragHasItsPointer
  BY Zenon DEF SsInv, DragOK, DragHasItsPointer
<1> QED
  BY <1>1, SsInductive, PTL

\* Moving the selection with the keys, Space or a second finger keeps its size.
THEOREM MovesKeepTheSize == SsSpec => MovingKeepsSize
<1> DEFINE Keeps == ssUi.open /\ ssUi'.open
                    => \/ ssUi'.sel = ssUi.sel
                       \/ RectOf(ssUi'.sel).size = RectOf(ssUi.sel).size
                       \/ /\ ~MoveSelection
                          /\ ssUi'.button \in {ssUi.button, SsUp} \/ ssUi.button = SsUp \/ ssUi.button.move = SsNone
<1>1. SsInv /\ [SsNext]_ssVars => [Keeps]_ssVars
  <2>1. ASSUME SsInv, SsNext PROVE Keeps
    BY <2>1, SsStepKeeps, Zenon DEF Gently
  <2> QED
    BY <2>1, Zenon
<1>2. SsSpec => [][Keeps]_ssVars
  BY <1>1, SsInductive, PTL DEF SsSpec
<1> QED
  BY <1>2, Zenon DEF MovingKeepsSize
=============================================================================
