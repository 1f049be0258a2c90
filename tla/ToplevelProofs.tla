--------------------------- MODULE ToplevelProofs ---------------------------
(***************************************************************************)
(* The life of a toplevel, for any windows, outputs, rules and bounds: it  *)
(* has one home, opens as it was asked to, on an output that exists, and   *)
(* is sent the configures it is owed.                                      *)
(***************************************************************************)
EXTENDS Toplevel, TLAPS

\* The world a window opens into: whatever is on an output is on one there is.
WorldOK ==
  /\ IF tlOuts = {} THEN tlActive = TlNone ELSE tlActive \in tlOuts
  /\ tlNamed \in tlOuts \cup {"nowhere", "gone"}
  /\ \A w \in TlWindows : IsIn(w) => tlLayout[w].at \in tlOuts \cup {"nowhere"}

\* OneHome; and a toplevel is made for a surface.
HomeOK(w) ==
  /\ tlTop[w] = "live" <=> (IsUnmapped(w) \/ IsIn(w))
  /\ ~(IsUnmapped(w) /\ IsIn(w))
  /\ tlSurf[w] = "live" => (w \in tlHook <=> ~IsIn(w))
  /\ tlTop[w] = "live" => tlSurf[w] # "none"

\* OpensAsAsked; and what was asked before the initial configure is remembered.
AskOK(w) ==
  /\ (IsUnmapped(w) /\ ~tlUnmapped[w].conf) =>
       tlAsk[w].fs = (tlUnmapped[w].wfs # "no") /\ tlAsk[w].max = tlUnmapped[w].wmax
  /\ (IsUnmapped(w) /\ tlUnmapped[w].conf /\ ~tlAsk[w].lost) =>
       /\ tlPend[w].fs = tlAsk[w].fs /\ tlPend[w].max = (tlAsk[w].max /\ ~tlAsk[w].fs)
       /\ tlUnmapped[w].pmax = tlAsk[w].max
  /\ (IsIn(w) /\ ~tlAsk[w].lost) => tlLayout[w].fs = tlAsk[w].fs /\ tlLayout[w].max = tlAsk[w].max

\* OwedIsPending; and a window that follows its parent remembers no output.
DueOK(w) ==
  /\ w \in tlOwed => \/ IsUnmapped(w) /\ ~tlUnmapped[w].conf
                     \/ IsIn(w) /\ tlLayout[w].needs
  /\ (IsUnmapped(w) /\ tlAsk[w].follows) => tlUnmapped[w].conf /\ tlUnmapped[w].out = TlNone

WinOK(w) == HomeOK(w) /\ AskOK(w) /\ DueOK(w)

TlInv == TlTypeOK /\ WorldOK /\ ~tlPanic /\ \A w \in TlWindows : WinOK(w)

-----------------------------------------------------------------------------
\* A window that a step leaves alone stays as sound as it was.
LEMMA OthersKept ==
    ASSUME NEW v \in TlWindows, WinOK(v),
           tlTop'[v] = tlTop[v], tlSurf'[v] = tlSurf[v], tlUnmapped'[v] = tlUnmapped[v],
           tlLayout'[v] = tlLayout[v], tlPend'[v] = tlPend[v], tlAsk'[v] = tlAsk[v],
           v \in tlHook' <=> v \in tlHook, v \in tlOwed' <=> v \in tlOwed
    PROVE  WinOK(v)'
<1>1. HomeOK(v)'
  BY Zenon DEF WinOK, HomeOK, IsIn, IsUnmapped
<1>2. AskOK(v)'
  BY ZenonT(60) DEF WinOK, AskOK, IsIn, IsUnmapped
<1>3. DueOK(v)'
  BY Zenon DEF WinOK, DueOK, IsIn, IsUnmapped
<1> QED
  BY <1>1, <1>2, <1>3, Zenon DEF WinOK

\* A step on window w keeps the invariant if it keeps the types, the world and w.
LEMMA OneWindow ==
    ASSUME TlInv, NEW w \in TlWindows, TlTypeOK', WorldOK', ~tlPanic', WinOK(w)',
           \A v \in TlWindows \ {w} :
              /\ tlTop'[v] = tlTop[v] /\ tlSurf'[v] = tlSurf[v] /\ tlUnmapped'[v] = tlUnmapped[v]
              /\ tlLayout'[v] = tlLayout[v] /\ tlPend'[v] = tlPend[v] /\ tlAsk'[v] = tlAsk[v]
              /\ v \in tlHook' <=> v \in tlHook
              /\ v \in tlOwed' <=> v \in tlOwed
    PROVE  TlInv'
<1>1. \A v \in TlWindows : WinOK(v)
  BY Zenon DEF TlInv
<1>2. \A v \in TlWindows \ {w} : WinOK(v)'
  BY <1>1, OthersKept, Zenon
<1> QED
  BY <1>2, Zenon DEF TlInv

\* A new window, or one that is unmapped, starts with nothing configured.
LEMMA FreshOK ==
    /\ UnmappedNew \in Unmappeds /\ NoStates \in Toplevels /\ NoAsk \in Asks
    /\ UnmappedNew # TlNone /\ ~UnmappedNew.conf /\ UnmappedNew.wfs = "no" /\ UnmappedNew.wmax = FALSE
    /\ NoAsk.fs = FALSE /\ NoAsk.max = FALSE /\ ~NoAsk.follows
<1>1. UnmappedNew \in Unmappeds
  BY Zenon DEF UnmappedNew, Unmappeds
<1>2. NoStates \in Toplevels /\ NoAsk \in Asks
  BY Zenon DEF NoStates, NoAsk, Toplevels, Asks
<1>3. ~UnmappedNew.conf /\ UnmappedNew.wfs = "no" /\ UnmappedNew.wmax = FALSE
  BY Zenon DEF UnmappedNew
<1>4. NoAsk.fs = FALSE /\ NoAsk.max = FALSE /\ ~NoAsk.follows
  BY Zenon DEF NoAsk
<1> QED
  BY <1>1, <1>2, <1>3, <1>4, TlAssumption, Zenon

-----------------------------------------------------------------------------
\* A surface is made.
LEMMA NewSurfaceKeeps ==
    ASSUME TlInv, NEW w \in TlWindows, new_surface(w)
    PROVE  TlInv'
<1>1. /\ tlSurf[w] = "none" /\ tlSurf' = [tlSurf EXCEPT ![w] = "live"] /\ tlHook' = tlHook \cup {w}
      /\ UNCHANGED <<tlCfg, tlOuts, tlActive, tlNamed, tlTop, tlParent, tlAck, tlUnmapped, tlLayout, tlPend, tlIdles,
                     tlAsk, tlOwed, tlPanic>>
  BY Zenon DEF new_surface, tlWorld
<1>2. TlTypeOK' /\ WorldOK' /\ ~tlPanic'
  BY <1>1, Zenon DEF TlInv, TlTypeOK, WorldOK, IsIn
<1>3. WinOK(w)'
  <2>1. HomeOK(w) /\ AskOK(w) /\ DueOK(w)
    BY Zenon DEF TlInv, WinOK
  <2>2. HomeOK(w)'
    BY <1>1, <2>1, Zenon DEF HomeOK, IsIn, IsUnmapped, TlInv, TlTypeOK
  <2>3. AskOK(w)' /\ DueOK(w)'
    BY <1>1, <2>1, Zenon DEF AskOK, DueOK, IsIn, IsUnmapped
  <2> QED
    BY <2>2, <2>3, Zenon DEF WinOK
<1> QED
  BY <1>1, <1>2, <1>3, OneWindow, Zenon DEF TlInv, TlTypeOK

\* A toplevel is made, for a surface whose earlier one is dead.
LEMMA NewToplevelKeeps ==
    ASSUME TlInv, NEW w \in TlWindows, new_toplevel(w)
    PROVE  TlInv'
<1>1. /\ tlSurf[w] = "live" /\ tlTop[w] # "live" /\ tlTop' = [tlTop EXCEPT ![w] = "live"]
      /\ tlUnmapped' = [tlUnmapped EXCEPT ![w] = UnmappedNew]
      /\ tlPend' = [tlPend EXCEPT ![w] = NoStates] /\ tlAsk' = [tlAsk EXCEPT ![w] = NoAsk]
      /\ tlAck' = [tlAck EXCEPT ![w] = "no"] /\ tlParent' = [tlParent EXCEPT ![w] = TlNone]
      /\ tlPanic' = (tlPanic \/ IsUnmapped(w))
      /\ UNCHANGED <<tlCfg, tlOuts, tlActive, tlNamed, tlSurf, tlLayout, tlHook, tlIdles, tlOwed>>
  BY Zenon DEF new_toplevel, tlWorld
<1>2. TlTypeOK /\ HomeOK(w) /\ DueOK(w) /\ ~tlPanic
  BY Zenon DEF TlInv, WinOK
<1>3. ~IsUnmapped(w) /\ ~IsIn(w)
  BY <1>1, <1>2, Zenon DEF HomeOK
<1>4. TlTypeOK' /\ WorldOK' /\ ~tlPanic'
  BY <1>1, <1>2, <1>3, FreshOK, Zenon DEF TlInv, TlTypeOK, WorldOK, IsIn
<1>5. tlUnmapped'[w] = UnmappedNew /\ tlAsk'[w] = NoAsk /\ tlTop'[w] = "live" /\ tlLayout'[w] = TlNone
  BY <1>1, <1>2, <1>3, Zenon DEF TlTypeOK, IsIn
<1>6. WinOK(w)'
  <2>1. HomeOK(w)'
    BY <1>1, <1>2, <1>3, <1>5, FreshOK, Zenon DEF HomeOK, IsIn, IsUnmapped
  <2>2. AskOK(w)'
    BY <1>5, FreshOK, Zenon DEF AskOK, IsIn
  <2>3. DueOK(w)'
    BY <1>5, FreshOK, Zenon DEF DueOK, IsUnmapped
  <2> QED
    BY <2>1, <2>2, <2>3, Zenon DEF WinOK
<1> QED
  BY <1>1, <1>2, <1>4, <1>6, OneWindow, Zenon DEF TlTypeOK

\* A toplevel is destroyed: it leaves the home it has.
LEMMA ToplevelDestroyedKeeps ==
    ASSUME TlInv, NEW w \in TlWindows, toplevel_destroyed(w)
    PROVE  TlInv'
<1>1. /\ tlTop[w] = "live" /\ tlTop' = [tlTop EXCEPT ![w] = "dead"]
      /\ tlUnmapped' = [tlUnmapped EXCEPT ![w] = TlNone]
      /\ tlLayout' = [tlLayout EXCEPT ![w] = IF IsUnmapped(w) THEN @ ELSE TlNone]
      /\ tlHook' = IF ~IsUnmapped(w) /\ IsIn(w) THEN tlHook \cup {w} ELSE tlHook
      /\ tlOwed' = tlOwed \ {w} /\ tlAsk' = [tlAsk EXCEPT ![w] = NoAsk]
      /\ tlPend' = [tlPend EXCEPT ![w] = NoStates]
      /\ UNCHANGED <<tlCfg, tlOuts, tlActive, tlNamed, tlSurf, tlParent, tlAck, tlIdles, tlPanic>>
  BY Zenon DEF toplevel_destroyed, tlWorld
<1>2. TlTypeOK /\ HomeOK(w) /\ ~tlPanic /\ WorldOK
  BY Zenon DEF TlInv, WinOK
<1>3. tlUnmapped'[w] = TlNone /\ tlLayout'[w] = TlNone /\ tlTop'[w] = "dead"
  BY <1>1, <1>2, Zenon DEF TlTypeOK, HomeOK, IsIn
<1>4. /\ tlLayout' \in [TlWindows -> Tiles \cup {TlNone}]
      /\ \A v \in TlWindows \ {w} : tlLayout'[v] = tlLayout[v]
  BY <1>1, <1>2, <1>3, Zenon DEF TlTypeOK
<1>5. TlTypeOK'
  BY <1>1, <1>2, <1>4, FreshOK, Zenon DEF TlTypeOK
<1>6. WorldOK' /\ ~tlPanic'
  BY <1>1, <1>2, <1>3, <1>4, Zenon DEF WorldOK, IsIn
<1>7. WinOK(w)'
  <2>1. HomeOK(w)'
    BY <1>1, <1>2, <1>3, Zenon DEF HomeOK, IsIn, IsUnmapped
  <2>2. AskOK(w)' /\ DueOK(w)'
    BY <1>1, <1>3, Zenon DEF AskOK, DueOK, IsIn, IsUnmapped
  <2> QED
    BY <2>1, <2>2, Zenon DEF WinOK
<1> QED
  BY <1>1, <1>2, <1>4, <1>5, <1>6, <1>7, OneWindow, Zenon DEF TlTypeOK

\* A surface is destroyed, with its toplevel or before it.
LEMMA DestroyedKeeps ==
    ASSUME TlInv, NEW w \in TlWindows, destroyed(w)
    PROVE  TlInv'
<1>1. /\ tlSurf' = [tlSurf EXCEPT ![w] = "dead"] /\ tlHook' = tlHook \ {w}
      /\ UNCHANGED <<tlCfg, tlOuts, tlActive, tlNamed, tlTop, tlParent, tlAck, tlUnmapped, tlLayout, tlPend, tlIdles,
                     tlAsk, tlOwed, tlPanic>>
  BY Zenon DEF destroyed, tlWorld
<1>2. TlTypeOK' /\ WorldOK' /\ ~tlPanic'
  BY <1>1, Zenon DEF TlInv, TlTypeOK, WorldOK, IsIn
<1>3. WinOK(w)'
  <2>1. HomeOK(w) /\ AskOK(w) /\ DueOK(w)
    BY Zenon DEF TlInv, WinOK
  <2>2. HomeOK(w)'
    BY <1>1, <2>1, Zenon DEF HomeOK, IsIn, IsUnmapped, TlInv, TlTypeOK
  <2>3. AskOK(w)' /\ DueOK(w)'
    BY <1>1, <2>1, Zenon DEF AskOK, DueOK, IsIn, IsUnmapped
  <2> QED
    BY <2>2, <2>3, Zenon DEF WinOK
<1> QED
  BY <1>1, <1>2, <1>3, OneWindow, Zenon DEF TlInv, TlTypeOK

-----------------------------------------------------------------------------
\* Where a window opens is nowhere or an output there is.
LEMMA TargetIsThere ==
    ASSUME TlInv, NEW w \in TlWindows, NEW out \in tlOuts \cup {TlNone}, NEW ws \in BOOLEAN
    PROVE  Target(w, out, ws) \in tlOuts \cup {"nowhere"}
<1> DEFINE p == tlParent[w]
           at == IF p # TlNone /\ IsIn(p) THEN tlLayout[p].at ELSE TlNone
<1>1. p \in TlWindows \cup {TlNone} /\ WorldOK
  BY Zenon DEF TlInv, TlTypeOK
<1>2. at \in tlOuts \cup {"nowhere", TlNone}
  BY <1>1, Zenon DEF WorldOK
<1>3. /\ tlNamed \in tlOuts \cup {"nowhere", "gone"} /\ tlActive \in tlOuts \cup {TlNone}
  BY <1>1, Zenon DEF WorldOK
<1>4. Target(w, out, ws) =
        IF at # TlNone /\ (at = "nowhere" \/ out = TlNone \/ out = at) THEN at
        ELSE IF ws /\ tlNamed # "gone" THEN tlNamed
        ELSE IF out # TlNone THEN out
        ELSE IF tlActive # TlNone THEN tlActive ELSE "nowhere"
  BY Zenon DEF Target
<1> HIDE DEF at
<1> QED
  BY <1>2, <1>3, <1>4

\* A window is mapped with what its configure decided.
LEMMA MapWindowKeeps ==
    ASSUME TlInv, NEW w \in TlWindows, MapWindow(w)
    PROVE  TlInv'
<1> DEFINE u == tlUnmapped[w]
           out == IF u.conf THEN StillThere(u.out) ELSE TlNone
           at == Target(w, out, u.ws)
           pend == tlPend[w]
           max == pend.max \/ (pend.fs /\ u.pmax)
           act == ActivateNew(u.tok)
           tile == [at |-> at, fs |-> pend.fs, max |-> max, needs |-> FALSE, raw |-> ~u.conf, act |-> act]
           ask == [tlAsk[w] EXCEPT !.lost = tlAsk[w].lost \/ ~u.conf, !.follows = FALSE]
<1>1. /\ Client(w) /\ IsUnmapped(w)
      /\ tlLayout' = [tlLayout EXCEPT ![w] = tile]
      /\ tlPanic' = (tlPanic \/ (at # "nowhere" /\ at \notin tlOuts))
      /\ tlUnmapped' = [tlUnmapped EXCEPT ![w] = TlNone] /\ tlHook' = tlHook \ {w}
      /\ tlPend' = [tlPend EXCEPT ![w] = NoStates]
      /\ tlAsk' = [tlAsk EXCEPT ![w].lost = @ \/ ~u.conf, ![w].follows = FALSE]
      /\ tlOwed' = IF u.conf THEN tlOwed ELSE tlOwed \ {w}
      /\ UNCHANGED <<tlCfg, tlOuts, tlActive, tlNamed, tlSurf, tlTop, tlParent, tlAck, tlIdles>>
  BY Zenon DEF MapWindow, tlWorld, tlClient
<1>2. TlTypeOK /\ WorldOK /\ ~tlPanic /\ HomeOK(w) /\ AskOK(w) /\ DueOK(w)
  BY Zenon DEF TlInv, WinOK
<1>3. u \in Unmappeds /\ pend \in Toplevels /\ tlAsk[w] \in Asks
  BY <1>1, <1>2, Zenon DEF TlTypeOK, IsUnmapped
<1>4. out \in tlOuts \cup {TlNone} /\ u.ws \in BOOLEAN
  BY <1>3, Zenon DEF StillThere, monitor_for_output, Unmappeds
<1>5. at \in tlOuts \cup {"nowhere"}
  BY <1>4, TargetIsThere, Zenon
<1>6. act \in {"yes", "no", "smart"}
  BY <1>2, Zenon DEF ActivateNew, TlTypeOK, TlCfgs
<1>7. u.conf \in BOOLEAN /\ u.pmax \in BOOLEAN /\ pend.fs \in BOOLEAN /\ pend.max \in BOOLEAN
  BY <1>3, Zenon DEF Unmappeds, Toplevels
<1> HIDE DEF out, at, act
<1>8. /\ tile \in Tiles /\ tile.fs = pend.fs /\ tile.max = max /\ tile.at = at
      /\ tile # TlNone
  <2>1. tile \in Tiles
    BY <1>2, <1>5, <1>6, <1>7, Zenon DEF Tiles, TlTypeOK
  <2> QED
    BY <2>1, TlAssumption, Zenon
<1>9. /\ ask \in Asks /\ ask.fs = tlAsk[w].fs /\ ask.max = tlAsk[w].max /\ ask.follows = FALSE
      /\ ask.lost = (tlAsk[w].lost \/ ~u.conf)
  BY <1>3, <1>7, Zenon DEF Asks
<1>10. tlAsk' = [tlAsk EXCEPT ![w] = ask]
  BY <1>1, <1>2, Zenon DEF TlTypeOK
<1> HIDE DEF tile, ask
<1>11. /\ tlLayout'[w] = tile /\ tlUnmapped'[w] = TlNone /\ tlAsk'[w] = ask
       /\ tlLayout' \in [TlWindows -> Tiles \cup {TlNone}] /\ tlAsk' \in [TlWindows -> Asks]
  <2>1. /\ tlUnmapped' = [tlUnmapped EXCEPT ![w] = TlNone] /\ tlLayout' = [tlLayout EXCEPT ![w] = tile]
    BY <1>1, Zenon
  <2>2. /\ tlUnmapped \in [TlWindows -> Unmappeds \cup {TlNone}] /\ tlLayout \in [TlWindows -> Tiles \cup {TlNone}]
        /\ tlAsk \in [TlWindows -> Asks] /\ tile \in Tiles /\ ask \in Asks
    BY <1>2, <1>8, <1>9, Zenon DEF TlTypeOK
  <2> QED
    BY <1>10, <2>1, <2>2, Zenon
<1>12. TlTypeOK'
  BY <1>1, <1>2, <1>11, FreshOK, Zenon DEF TlTypeOK
<1>13. WorldOK' /\ ~tlPanic'
  BY <1>1, <1>2, <1>5, <1>8, <1>11, Zenon DEF WorldOK, IsIn, TlTypeOK
<1>14. WinOK(w)'
  <2>1. HomeOK(w)'
    BY <1>1, <1>2, <1>8, <1>11, Zenon DEF HomeOK, IsIn, IsUnmapped
  <2>2. AskOK(w)'
    BY <1>1, <1>2, <1>3, <1>7, <1>8, <1>9, <1>11 DEF AskOK, IsIn, IsUnmapped, Asks
  <2>3. DueOK(w)'
    BY <1>1, <1>2, <1>11, Zenon DEF DueOK, IsIn, IsUnmapped, HomeOK
  <2> QED
    BY <2>1, <2>2, <2>3, Zenon DEF WinOK
<1> QED
  BY <1>1, <1>2, <1>10, <1>12, <1>13, <1>14, OneWindow, Zenon DEF TlTypeOK

\* A mapped window is unmapped: it starts afresh.
LEMMA UnmapWindowKeeps ==
    ASSUME TlInv, NEW w \in TlWindows, UnmapWindow(w)
    PROVE  TlInv'
<1>1. /\ Client(w) /\ IsIn(w) /\ tlLayout' = [tlLayout EXCEPT ![w] = TlNone] /\ tlHook' = tlHook \cup {w}
      /\ tlUnmapped' = [tlUnmapped EXCEPT ![w] = UnmappedNew] /\ tlPend' = [tlPend EXCEPT ![w] = NoStates]
      /\ tlAck' \in {[tlAck EXCEPT ![w] = a] : a \in {"no", "stale"}}
      /\ tlAsk' = [tlAsk EXCEPT ![w] = NoAsk]
      /\ UNCHANGED <<tlCfg, tlOuts, tlActive, tlNamed, tlSurf, tlTop, tlParent, tlIdles, tlOwed, tlPanic>>
  BY Zenon DEF UnmapWindow, tlWorld
<1>2. TlTypeOK /\ WorldOK /\ ~tlPanic /\ HomeOK(w)
  BY Zenon DEF TlInv, WinOK
<1>3. tlUnmapped'[w] = UnmappedNew /\ tlAsk'[w] = NoAsk /\ tlLayout'[w] = TlNone
  BY <1>1, <1>2, Zenon DEF TlTypeOK
<1>4. TlTypeOK'
  BY <1>1, <1>2, FreshOK, ZenonT(60) DEF TlTypeOK
<1>5. WorldOK' /\ ~tlPanic'
  BY <1>1, <1>2, Zenon DEF WorldOK, IsIn, TlTypeOK
<1>6. WinOK(w)'
  <2>1. HomeOK(w)'
    BY <1>1, <1>2, <1>3, FreshOK, Zenon DEF HomeOK, IsIn, IsUnmapped
  <2>2. AskOK(w)'
    BY <1>3, FreshOK, Zenon DEF AskOK, IsIn
  <2>3. DueOK(w)'
    BY <1>3, FreshOK, Zenon DEF DueOK, IsUnmapped
  <2> QED
    BY <2>1, <2>2, <2>3, Zenon DEF WinOK
<1> QED
  BY <1>1, <1>2, <1>4, <1>5, <1>6, OneWindow, Zenon DEF TlTypeOK

-----------------------------------------------------------------------------
\* The monitor a window is configured for is there, and one that follows its
\* parent is not tied to an output.
LEMMA PickFacts ==
    ASSUME TlInv, NEW w \in TlWindows, NEW explicit \in tlOuts \cup {TlNone}
    PROVE  /\ PickMonitor(w, explicit).out \in tlOuts \cup {TlNone}
           /\ explicit = TlNone /\ ParentMonitor(w) # TlNone => PickMonitor(w, explicit).out = TlNone
<1>1. tlActive \in tlOuts \cup {TlNone}
  BY Zenon DEF TlInv, WorldOK
<1>2. CASE explicit # TlNone
  BY <1>2, Zenon DEF PickMonitor
<1>3. CASE explicit = TlNone /\ ParentMonitor(w) # TlNone
  BY <1>3, Zenon DEF PickMonitor
<1>4. CASE explicit = TlNone /\ ParentMonitor(w) = TlNone
  BY <1>1, <1>4, Zenon DEF PickMonitor
<1> QED
  BY <1>2, <1>3, <1>4, Zenon

\* The initial configure decides what the rule and the client asked for.
LEMMA SendInitialKeeps ==
    ASSUME TlInv, NEW w \in TlWindows, IsUnmapped(w), ~tlUnmapped[w].conf,
           send_initial_configure(w), tlIdles' \in [TlWindows -> Nat],
           UNCHANGED <<tlCfg, tlWorld, tlSurf, tlTop, tlParent, tlLayout, tlHook, tlPanic>>
    PROVE  TlInv'
<1> DEFINE u == tlUnmapped[w]
           byWs == IF tlCfg.rule.ws THEN monitor_for_workspace ELSE TlNone
           byOut == monitor_for_output(tlCfg.rule.out)
           explicit == IF byWs # TlNone THEN byWs ELSE IF byOut # TlNone THEN byOut
                       ELSE monitor_for_output(u.wfs)
           pick == PickMonitor(w, explicit)
           found == FindsWorkspace(pick.mon, tlCfg.rule.ws)
           pmax == found /\ Opens(tlCfg.rule.max, u.wmax)
           fs == found /\ Opens(tlCfg.rule.fs, u.wfs # "no")
           follows == ParentMonitor(w) # TlNone /\ byWs = TlNone /\ byOut = TlNone /\ u.wfs \in {"no", "any"}
           ask == [fs |-> Opens(tlCfg.rule.fs, tlAsk[w].fs), max |-> Opens(tlCfg.rule.max, tlAsk[w].max),
                   lost |-> ~found, follows |-> follows]
           U(name) == [UnmappedNew EXCEPT !.conf = TRUE, !.tok = u.tok, !.out = pick.out, !.ws = name,
                                          !.pmax = pmax]
           pend == ToplevelStates(fs, pmax)
<1>1. PICK name \in WorkspaceNames(pick.mon, tlCfg.rule.ws) : tlUnmapped' = [tlUnmapped EXCEPT ![w] = U(name)]
  BY Zenon DEF send_initial_configure
<1>2. /\ tlPend' = [tlPend EXCEPT ![w] = pend] /\ tlAsk' = [tlAsk EXCEPT ![w] = ask]
      /\ tlOwed' = tlOwed \ {w} /\ tlAck' = [tlAck EXCEPT ![w] = "yes"]
  BY Zenon DEF send_initial_configure
<1>3. TlTypeOK /\ WorldOK /\ ~tlPanic /\ HomeOK(w) /\ AskOK(w) /\ DueOK(w)
  BY Zenon DEF TlInv, WinOK
<1>4. u \in Unmappeds /\ tlAsk[w] \in Asks
  BY <1>3, Zenon DEF TlTypeOK, IsUnmapped
<1>5. explicit \in tlOuts \cup {TlNone}
  BY Zenon DEF monitor_for_workspace, monitor_for_output
<1>6. /\ pick.out \in tlOuts \cup {TlNone}
      /\ explicit = TlNone /\ ParentMonitor(w) # TlNone => pick.out = TlNone
  BY <1>5, PickFacts, Zenon
<1>7. follows => pick.out = TlNone
  <2>1. "no" \notin tlOuts /\ "any" \notin tlOuts
    BY <1>3, TlAssumption, Zenon DEF TlTypeOK
  <2>2. follows => explicit = TlNone
    BY <2>1, Zenon DEF monitor_for_output
  <2> QED
    BY <1>6, <2>2, Zenon
<1>8. name \in BOOLEAN /\ found \in BOOLEAN
  BY <1>1, Zenon DEF WorkspaceNames, FindsWorkspace
<1>9. /\ u.wfs # "no" <=> tlAsk[w].fs
      /\ u.wmax = tlAsk[w].max
      /\ u.tok \in {"none", "fresh", "old"}
      /\ tlAsk[w].fs \in BOOLEAN /\ tlAsk[w].max \in BOOLEAN
  BY <1>3, <1>4, Zenon DEF AskOK, Unmappeds, Asks
<1>10. /\ fs \in BOOLEAN /\ pmax \in BOOLEAN
       /\ found => fs = Opens(tlCfg.rule.fs, tlAsk[w].fs) /\ pmax = Opens(tlCfg.rule.max, tlAsk[w].max)
       /\ Opens(tlCfg.rule.fs, tlAsk[w].fs) \in BOOLEAN /\ Opens(tlCfg.rule.max, tlAsk[w].max) \in BOOLEAN
  BY <1>8, <1>9, Zenon DEF Opens
<1> HIDE DEF explicit, pick, found, pmax, fs, byWs, byOut
<1>11. pend \in Toplevels /\ pend.fs = fs /\ pend.max = (pmax /\ ~fs)
  BY <1>10, Zenon DEF ToplevelStates, Toplevels
<1>12. follows \in BOOLEAN
  BY Zenon
<1> HIDE DEF pend, follows
<1>13. /\ ask \in Asks /\ ask.lost = ~found /\ ask.follows = follows
       /\ ask.fs = Opens(tlCfg.rule.fs, tlAsk[w].fs) /\ ask.max = Opens(tlCfg.rule.max, tlAsk[w].max)
  BY <1>8, <1>10, <1>12, Zenon DEF Asks
<1> HIDE DEF ask
<1>14. U(name) \in Unmappeds /\ U(name).conf = TRUE /\ U(name).out = pick.out /\ U(name).pmax = pmax
  BY <1>3, <1>6, <1>8, <1>9, <1>10, ZenonT(60) DEF UnmappedNew, Unmappeds, TlTypeOK
<1> DEFINE n == U(name)
<1> HIDE DEF n, U
<1>15. n \in Unmappeds /\ n.conf = TRUE /\ n.out = pick.out /\ n.pmax = pmax /\ n # TlNone /\ tlUnmapped' = [tlUnmapped EXCEPT ![w] = n]
  BY <1>1, <1>14, TlAssumption, Zenon DEF n
<1>16. tlUnmapped'[w] = n /\ tlPend'[w] = pend /\ tlAsk'[w] = ask /\ tlLayout'[w] = TlNone /\ w \notin tlOwed'
  BY <1>2, <1>3, <1>15, Zenon DEF TlTypeOK, HomeOK, IsIn
<1>17. TlTypeOK'
  BY <1>2, <1>3, <1>11, <1>13, <1>15, Zenon DEF TlTypeOK, tlWorld
<1>18. WorldOK' /\ ~tlPanic'
  BY <1>3, Zenon DEF WorldOK, IsIn, tlWorld
<1>19. WinOK(w)'
  <2>1. HomeOK(w)'
    BY <1>3, <1>15, <1>16, Zenon DEF HomeOK, IsIn, IsUnmapped
  <2>2. AskOK(w)'
    BY <1>10, <1>11, <1>13, <1>15, <1>16, Zenon DEF AskOK, IsIn, IsUnmapped
  <2>3. DueOK(w)'
    BY <1>7, <1>13, <1>15, <1>16, Zenon DEF DueOK
  <2> QED
    BY <2>1, <2>2, <2>3, Zenon DEF WinOK
<1> QED
  BY <1>2, <1>3, <1>15, <1>17, <1>18, <1>19, OneWindow, Zenon DEF TlTypeOK

\* The idle callback configures a window that still wants it.
LEMMA IdleKeeps ==
    ASSUME TlInv, NEW w \in TlWindows, InitialConfigureIdle(w)
    PROVE  TlInv'
<1>1. TlTypeOK /\ \A v \in TlWindows : WinOK(v)
  BY Zenon DEF TlInv
<1>2. tlIdles' \in [TlWindows -> Nat]
  BY <1>1 DEF InitialConfigureIdle, TlTypeOK
<1>3. CASE tlTop[w] = "live" /\ IsUnmapped(w) /\ ~tlUnmapped[w].conf
  <2>1. send_initial_configure(w) /\ UNCHANGED <<tlCfg, tlWorld, tlSurf, tlTop, tlParent, tlLayout, tlHook, tlPanic>>
    BY <1>3, Zenon DEF InitialConfigureIdle
  <2> QED
    BY <1>2, <1>3, <2>1, SendInitialKeeps, Zenon
<1>4. CASE ~(tlTop[w] = "live" /\ IsUnmapped(w) /\ ~tlUnmapped[w].conf)
  <2>1. UNCHANGED <<tlCfg, tlOuts, tlActive, tlNamed, tlSurf, tlTop, tlParent, tlLayout, tlHook, tlPanic,
                    tlUnmapped, tlPend, tlAsk, tlOwed, tlAck>>
    BY <1>4, Zenon DEF InitialConfigureIdle, tlWorld
  <2>2. TlTypeOK' /\ WorldOK' /\ ~tlPanic'
    BY <1>1, <1>2, <2>1, Zenon DEF TlInv, TlTypeOK, WorldOK, IsIn
  <2>3. WinOK(w)'
    BY <1>1, <2>1, OthersKept, Zenon
  <2> QED
    BY <2>1, <2>2, <2>3, OneWindow, Zenon
<1> QED
  BY <1>3, <1>4, Zenon

-----------------------------------------------------------------------------
\* What a request leaves alone.
RequestFrame == UNCHANGED <<tlCfg, tlWorld, tlClient, tlHook, tlIdles, tlPanic>>

\* A request to a mapped window flags it.
LEMMA SetMappedKeeps ==
    ASSUME TlInv, NEW w \in TlWindows, IsIn(w), NEW ask \in Asks, NEW mode \in Tiles,
           mode.at \in tlOuts \cup {"nowhere"}, ~ask.lost => mode.fs = ask.fs /\ mode.max = ask.max,
           SetMapped(w, ask, mode), RequestFrame
    PROVE  TlInv'
<1> DEFINE tile == [mode EXCEPT !.needs = TRUE]
<1>1. /\ tlLayout' = [tlLayout EXCEPT ![w] = tile] /\ tlOwed' = tlOwed \cup {w} /\ tlAsk' = [tlAsk EXCEPT ![w] = ask]
      /\ UNCHANGED <<tlUnmapped, tlPend, tlCfg, tlOuts, tlActive, tlNamed, tlSurf, tlTop, tlParent, tlAck, tlHook, tlIdles, tlPanic>>
  BY Zenon DEF SetMapped, RequestFrame, tlWorld, tlClient
<1>2. TlTypeOK /\ WorldOK /\ ~tlPanic /\ HomeOK(w)
  BY Zenon DEF TlInv, WinOK
<1>3. tile \in Tiles /\ tile.fs = mode.fs /\ tile.max = mode.max /\ tile.at = mode.at /\ tile.needs = TRUE
  BY Zenon DEF Tiles
<1>4. tile # TlNone
  BY <1>3, TlAssumption, Zenon
<1> HIDE DEF tile
<1>5. tlLayout'[w] = tile /\ tlAsk'[w] = ask /\ tlUnmapped'[w] = TlNone
  BY <1>1, <1>2, Zenon DEF TlTypeOK, HomeOK, IsUnmapped
<1>6. TlTypeOK'
  BY <1>1, <1>2, <1>3, Zenon DEF TlTypeOK
<1>7. WorldOK' /\ ~tlPanic'
  BY <1>1, <1>2, <1>3, <1>5, ZenonT(60) DEF WorldOK, IsIn, TlTypeOK
<1>8. WinOK(w)'
  <2>1. HomeOK(w)'
    BY <1>1, <1>2, <1>4, <1>5, Zenon DEF HomeOK, IsIn, IsUnmapped
  <2>2. AskOK(w)'
    BY <1>3, <1>5, Zenon DEF AskOK, IsIn, IsUnmapped
  <2>3. DueOK(w)'
    BY <1>3, <1>4, <1>5, Zenon DEF DueOK, IsIn, IsUnmapped
  <2> QED
    BY <2>1, <2>2, <2>3, Zenon DEF WinOK
<1> QED
  BY <1>1, <1>2, <1>6, <1>7, <1>8, OneWindow, Zenon DEF TlTypeOK

\* A request before the initial configure is remembered for it.
LEMMA RememberKeeps ==
    ASSUME TlInv, NEW w \in TlWindows, IsUnmapped(w), NEW ask \in Asks, NEW n \in Unmappeds, ~n.conf,
           ask.fs = (n.wfs # "no"), ask.max = n.wmax, ~ask.follows,
           Remember(w, ask, n), RequestFrame
    PROVE  TlInv'
<1>1. /\ tlUnmapped' = [tlUnmapped EXCEPT ![w] = n] /\ tlOwed' = tlOwed \cup {w} /\ tlAsk' = [tlAsk EXCEPT ![w] = ask]
      /\ UNCHANGED <<tlLayout, tlPend, tlCfg, tlOuts, tlActive, tlNamed, tlSurf, tlTop, tlParent, tlAck, tlHook, tlIdles, tlPanic>>
  BY Zenon DEF Remember, RequestFrame, tlWorld, tlClient
<1>2. TlTypeOK /\ WorldOK /\ ~tlPanic /\ HomeOK(w)
  BY Zenon DEF TlInv, WinOK
<1>3. tlUnmapped'[w] = n /\ n # TlNone /\ tlAsk'[w] = ask /\ tlLayout'[w] = TlNone
  BY <1>1, <1>2, TlAssumption, Zenon DEF TlTypeOK, HomeOK, IsIn
<1>4. TlTypeOK'
  BY <1>1, <1>2, Zenon DEF TlTypeOK
<1>5. WorldOK' /\ ~tlPanic'
  BY <1>1, <1>2, Zenon DEF WorldOK, IsIn
<1>6. WinOK(w)'
  <2>1. HomeOK(w)'
    BY <1>1, <1>2, <1>3, Zenon DEF HomeOK, IsIn, IsUnmapped
  <2>2. AskOK(w)'
    BY <1>3, Zenon DEF AskOK, IsIn
  <2>3. DueOK(w)'
    BY <1>3, Zenon DEF DueOK, IsUnmapped
  <2> QED
    BY <2>1, <2>2, <2>3, Zenon DEF WinOK
<1> QED
  BY <1>1, <1>2, <1>4, <1>5, <1>6, OneWindow, Zenon DEF TlTypeOK

\* A request to a configured window that is not mapped is answered.
LEMMA ReconfigureKeeps ==
    ASSUME TlInv, NEW w \in TlWindows, IsUnmapped(w), tlUnmapped[w].conf,
           NEW ask \in Asks, NEW pick, pick.out \in tlOuts \cup {TlNone}, NEW found \in BOOLEAN,
           NEW pmax \in BOOLEAN, NEW fs \in BOOLEAN,
           found /\ ~ask.lost => fs = ask.fs /\ pmax = ask.max,
           ask.follows /\ ParentMonitor(w) # TlNone => pick.out = TlNone,
           Reconfigure(w, ask, pick, found, pmax, fs), RequestFrame
    PROVE  TlInv'
<1> DEFINE u == tlUnmapped[w]
           n == [u EXCEPT !.out = pick.out, !.pmax = IF found THEN pmax ELSE u.pmax]
           pend == IF found THEN ToplevelStates(fs, pmax) ELSE tlPend[w]
           a == [ask EXCEPT !.lost = ask.lost \/ ~found,
                            !.follows = ask.follows /\ ParentMonitor(w) # TlNone]
<1>1. /\ tlUnmapped' = [tlUnmapped EXCEPT ![w].out = pick.out, ![w].pmax = IF found THEN pmax ELSE @]
      /\ tlPend' = [tlPend EXCEPT ![w] = pend] /\ tlAsk' = [tlAsk EXCEPT ![w] = a]
      /\ UNCHANGED <<tlLayout, tlOwed, tlCfg, tlOuts, tlActive, tlNamed, tlSurf, tlTop, tlParent, tlAck, tlHook, tlIdles, tlPanic>>
  BY Zenon DEF Reconfigure, RequestFrame, tlWorld, tlClient
<1>2. TlTypeOK /\ WorldOK /\ ~tlPanic /\ HomeOK(w) /\ DueOK(w)
  BY Zenon DEF TlInv, WinOK
<1>3. u \in Unmappeds /\ tlPend[w] \in Toplevels /\ tlOuts \subseteq TlOutputs
  BY <1>2, Zenon DEF TlTypeOK, IsUnmapped
<1>4. tlUnmapped' = [tlUnmapped EXCEPT ![w] = n]
  BY <1>1, <1>2, Zenon DEF TlTypeOK
<1>5. n \in Unmappeds /\ n.conf = u.conf /\ n.out = pick.out /\ (found => n.pmax = pmax)
  BY <1>3, ZenonT(60) DEF Unmappeds
<1>6. pend \in Toplevels /\ (found => pend.fs = fs /\ pend.max = (pmax /\ ~fs))
  BY <1>3, Zenon DEF ToplevelStates, Toplevels
<1>7. /\ a \in Asks /\ a.fs = ask.fs /\ a.max = ask.max
      /\ a.lost = (ask.lost \/ ~found) /\ a.follows = (ask.follows /\ ParentMonitor(w) # TlNone)
  BY Zenon DEF Asks
<1> HIDE DEF n, pend, a
<1>8. tlUnmapped'[w] = n /\ n # TlNone /\ tlPend'[w] = pend /\ tlAsk'[w] = a /\ tlLayout'[w] = TlNone
  BY <1>1, <1>2, <1>4, <1>5, TlAssumption, ZenonT(60) DEF TlTypeOK, HomeOK, IsIn
<1>9. w \notin tlOwed'
  BY <1>1, <1>2, Zenon DEF DueOK, HomeOK
<1>10. TlTypeOK'
  <2>1. /\ tlPend' \in [TlWindows -> Toplevels] /\ tlAsk' \in [TlWindows -> Asks]
        /\ tlUnmapped' \in [TlWindows -> Unmappeds \cup {TlNone}]
    <3>1. tlPend' = [tlPend EXCEPT ![w] = pend] /\ tlAsk' = [tlAsk EXCEPT ![w] = a]
      BY <1>1, Zenon
    <3> QED
      BY <1>2, <1>4, <1>5, <1>6, <1>7, <3>1, Zenon DEF TlTypeOK
  <2> QED
    BY <1>1, <1>2, <2>1, Zenon DEF TlTypeOK
<1>11. WorldOK' /\ ~tlPanic'
  BY <1>1, <1>2, Zenon DEF WorldOK, IsIn
<1>12. WinOK(w)'
  <2>1. HomeOK(w)'
    BY <1>1, <1>2, <1>8, Zenon DEF HomeOK, IsIn, IsUnmapped
  <2>2. AskOK(w)'
    BY <1>5, <1>6, <1>7, <1>8, Zenon DEF AskOK, IsIn
  <2>3. DueOK(w)'
    BY <1>5, <1>7, <1>8, <1>9, Zenon DEF DueOK
  <2> QED
    BY <2>1, <2>2, <2>3, Zenon DEF WinOK
<1> QED
  BY <1>1, <1>2, <1>4, <1>10, <1>11, <1>12, OneWindow, Zenon DEF TlTypeOK

-----------------------------------------------------------------------------
\* What is known of a window that a client asks for something.
LEMMA RequestTypes ==
    ASSUME TlInv, NEW w \in TlWindows
    PROVE  /\ tlAsk[w] \in Asks /\ tlPend[w] \in Toplevels /\ tlOuts \subseteq TlOutputs
           /\ IsIn(w) => /\ tlLayout[w] \in Tiles /\ tlLayout[w].at \in tlOuts \cup {"nowhere"}
                         /\ ~tlAsk[w].lost => tlLayout[w].fs = tlAsk[w].fs /\ tlLayout[w].max = tlAsk[w].max
           /\ IsUnmapped(w) => tlUnmapped[w] \in Unmappeds
           /\ IsUnmapped(w) /\ ~tlUnmapped[w].conf =>
                 /\ tlAsk[w].fs = (tlUnmapped[w].wfs # "no") /\ tlAsk[w].max = tlUnmapped[w].wmax
                 /\ ~tlAsk[w].follows
           /\ IsUnmapped(w) /\ tlAsk[w].follows => tlUnmapped[w].out = TlNone
           /\ IsUnmapped(w) /\ tlUnmapped[w].conf /\ ~tlAsk[w].lost =>
                 tlPend[w].fs = tlAsk[w].fs /\ tlUnmapped[w].pmax = tlAsk[w].max
<1>1. TlTypeOK /\ WorldOK /\ AskOK(w) /\ DueOK(w)
  BY Zenon DEF TlInv, WinOK
<1>2. /\ tlAsk[w] \in Asks /\ tlPend[w] \in Toplevels /\ tlOuts \subseteq TlOutputs
      /\ IsUnmapped(w) => tlUnmapped[w] \in Unmappeds
      /\ IsIn(w) => tlLayout[w] \in Tiles
  BY <1>1, Zenon DEF TlTypeOK, IsUnmapped, IsIn
<1> QED
  BY <1>1, <1>2, Zenon DEF WorldOK, AskOK, DueOK

\* The monitor for an output that is none is none.
LEMMA MonitorFacts ==
    ASSUME TlInv
    PROVE  /\ \A o : monitor_for_output(o) \in tlOuts \cup {TlNone}
           /\ monitor_for_output(TlNone) = TlNone
           /\ monitor_for_workspace \in tlOuts \cup {TlNone}
BY TlAssumption, Zenon DEF TlInv, TlTypeOK, monitor_for_output, monitor_for_workspace

\* A window asks to be maximized.
LEMMA MaximizeKeeps ==
    ASSUME TlInv, NEW w \in TlWindows, IsIn(w) \/ IsUnmapped(w), maximize_request(w), RequestFrame
    PROVE  TlInv'
<1> DEFINE ask == [tlAsk[w] EXCEPT !.max = TRUE]
           u == tlUnmapped[w]
<1> USE RequestTypes
<1>1. /\ ask \in Asks /\ ask.fs = tlAsk[w].fs /\ ask.max = TRUE /\ ask.lost = tlAsk[w].lost
      /\ ask.follows = tlAsk[w].follows
  BY Zenon DEF Asks
<1>2. CASE IsIn(w)
  <2> DEFINE mode == [tlLayout[w] EXCEPT !.max = TRUE]
  <2>1. mode \in Tiles /\ mode.max = TRUE /\ mode.fs = tlLayout[w].fs /\ mode.at = tlLayout[w].at
    BY <1>2, ZenonT(60) DEF Tiles
  <2>2. SetMapped(w, ask, mode)
    BY <1>2, Zenon DEF maximize_request
  <2> HIDE DEF ask, mode
  <2> QED
    BY <1>1, <1>2, <2>1, <2>2, SetMappedKeeps, ZenonT(60)
<1>3. CASE ~IsIn(w) /\ ~u.conf
  <2> DEFINE n == [u EXCEPT !.wmax = TRUE]
  <2>1. n \in Unmappeds /\ n.wmax = TRUE /\ n.wfs = u.wfs /\ n.conf = u.conf
    BY <1>3, ZenonT(60) DEF Unmappeds
  <2>2. Remember(w, ask, n)
    BY <1>3, Zenon DEF maximize_request
  <2> HIDE DEF ask, n
  <2> QED
    BY <1>1, <1>3, <2>1, <2>2, RememberKeeps, ZenonT(60)
<1>4. CASE ~IsIn(w) /\ u.conf
  <2> DEFINE explicit == monitor_for_output(u.out)
             pick == PickMonitor(w, explicit)
             found == FindsWorkspace(pick.mon, FALSE)
  <2>1. Reconfigure(w, ask, pick, found, TRUE, tlPend[w].fs)
    BY <1>4, Zenon DEF maximize_request
  <2>2. explicit \in tlOuts \cup {TlNone} /\ (tlAsk[w].follows => explicit = TlNone)
    BY <1>4, MonitorFacts, Zenon
  <2>3. /\ pick.out \in tlOuts \cup {TlNone}
        /\ explicit = TlNone /\ ParentMonitor(w) # TlNone => pick.out = TlNone
    BY <2>2, PickFacts, Zenon
  <2>4. found \in BOOLEAN /\ tlPend[w].fs \in BOOLEAN /\ TRUE \in BOOLEAN
    BY Zenon DEF FindsWorkspace, Toplevels
  <2>5. found /\ ~ask.lost => tlPend[w].fs = ask.fs /\ TRUE = ask.max
    BY <1>1, <1>4, Zenon
  <2>6. ask.follows /\ ParentMonitor(w) # TlNone => pick.out = TlNone
    BY <1>1, <2>2, <2>3, Zenon
  <2>7. IsUnmapped(w) /\ tlUnmapped[w].conf /\ ask \in Asks
    BY <1>1, <1>4, Zenon
  <2> HIDE DEF ask, pick, found
  <2> QED
    BY <2>1, <2>3, <2>4, <2>5, <2>6, <2>7, ReconfigureKeeps, ZenonT(60)
<1> QED
  BY <1>2, <1>3, <1>4, Zenon

\* A window asks to be maximized no longer.
LEMMA UnmaximizeKeeps ==
    ASSUME TlInv, NEW w \in TlWindows, IsIn(w) \/ IsUnmapped(w), unmaximize_request(w), RequestFrame
    PROVE  TlInv'
<1> DEFINE b == [tlAsk[w] EXCEPT !.max = FALSE]
           ask == Named(w, b)
           u == tlUnmapped[w]
<1> USE RequestTypes
<1>1. /\ ask \in Asks /\ ask.max = FALSE /\ ask.fs = tlAsk[w].fs /\ ask.lost = tlAsk[w].lost
      /\ ask.follows => tlAsk[w].follows /\ (IsUnmapped(w) => ~u.ws)
  <2>1. /\ b \in Asks /\ b.max = FALSE /\ b.fs = tlAsk[w].fs /\ b.lost = tlAsk[w].lost
        /\ b.follows = tlAsk[w].follows
    BY ZenonT(60) DEF Asks
  <2> HIDE DEF b
  <2> QED
    BY <2>1, Zenon DEF Named, Asks
<1>2. CASE IsIn(w)
  <2> DEFINE mode == [tlLayout[w] EXCEPT !.max = FALSE]
  <2>1. mode \in Tiles /\ mode.max = FALSE /\ mode.fs = tlLayout[w].fs /\ mode.at = tlLayout[w].at
    BY <1>2, ZenonT(60) DEF Tiles
  <2>2. SetMapped(w, ask, mode)
    BY <1>2, Zenon DEF unmaximize_request
  <2> HIDE DEF ask, mode
  <2> QED
    BY <1>1, <1>2, <2>1, <2>2, SetMappedKeeps, ZenonT(60)
<1>3. CASE ~IsIn(w) /\ ~u.conf
  <2> DEFINE n == [u EXCEPT !.wmax = FALSE]
  <2>1. n \in Unmappeds /\ n.wmax = FALSE /\ n.wfs = u.wfs /\ n.conf = u.conf
    BY <1>3, ZenonT(60) DEF Unmappeds
  <2>2. Remember(w, ask, n)
    BY <1>3, Zenon DEF unmaximize_request
  <2> HIDE DEF ask, n
  <2> QED
    BY <1>1, <1>3, <2>1, <2>2, RememberKeeps, ZenonT(60)
<1>4. CASE ~IsIn(w) /\ u.conf
  <2> DEFINE explicit == NamedOrOwn(w)
             pick == PickMonitor(w, explicit)
             found == FindsWorkspace(pick.mon, u.ws)
             pmax == FALSE
             fs == tlPend[w].fs
  <2>1. Reconfigure(w, ask, pick, found, pmax, fs)
    BY <1>4, Zenon DEF unmaximize_request
  <2>2. explicit \in tlOuts \cup {TlNone} /\ (ask.follows => explicit = TlNone)
    BY <1>1, <1>4, MonitorFacts, Zenon DEF NamedOrOwn
  <2>3. /\ pick.out \in tlOuts \cup {TlNone}
        /\ explicit = TlNone /\ ParentMonitor(w) # TlNone => pick.out = TlNone
    BY <2>2, PickFacts, Zenon
  <2>4. found \in BOOLEAN /\ pmax \in BOOLEAN /\ fs \in BOOLEAN
    BY <1>4, Zenon DEF FindsWorkspace, Toplevels, Unmappeds
  <2>5. found /\ ~ask.lost => fs = ask.fs /\ pmax = ask.max
    BY <1>1, <1>4, Zenon
  <2>6. ask.follows /\ ParentMonitor(w) # TlNone => pick.out = TlNone
    BY <1>1, <2>2, <2>3, Zenon
  <2>7. IsUnmapped(w) /\ tlUnmapped[w].conf /\ ask \in Asks
    BY <1>1, <1>4, Zenon
  <2> HIDE DEF ask, pick, found, pmax, fs
  <2> QED
    BY <2>1, <2>3, <2>4, <2>5, <2>6, <2>7, ReconfigureKeeps, ZenonT(60)
<1> QED
  BY <1>2, <1>3, <1>4, Zenon

\* A window asks to be fullscreen no longer.
LEMMA UnfullscreenKeeps ==
    ASSUME TlInv, NEW w \in TlWindows, IsIn(w) \/ IsUnmapped(w), unfullscreen_request(w), RequestFrame
    PROVE  TlInv'
<1> DEFINE b == [tlAsk[w] EXCEPT !.fs = FALSE]
           ask == Named(w, b)
           u == tlUnmapped[w]
<1> USE RequestTypes
<1>1. /\ ask \in Asks /\ ask.fs = FALSE /\ ask.max = tlAsk[w].max /\ ask.lost = tlAsk[w].lost
      /\ ask.follows => tlAsk[w].follows /\ (IsUnmapped(w) => ~u.ws)
  <2>1. /\ b \in Asks /\ b.fs = FALSE /\ b.max = tlAsk[w].max /\ b.lost = tlAsk[w].lost
        /\ b.follows = tlAsk[w].follows
    BY Zenon DEF Asks
  <2> HIDE DEF b
  <2> QED
    BY <2>1, Zenon DEF Named, Asks
<1>2. CASE IsIn(w)
  <2> DEFINE mode == [tlLayout[w] EXCEPT !.fs = FALSE]
  <2>1. mode \in Tiles /\ mode.fs = FALSE /\ mode.max = tlLayout[w].max /\ mode.at = tlLayout[w].at
    BY <1>2, ZenonT(60) DEF Tiles
  <2>2. SetMapped(w, ask, mode)
    BY <1>2, Zenon DEF unfullscreen_request
  <2> HIDE DEF ask, mode
  <2> QED
    BY <1>1, <1>2, <2>1, <2>2, SetMappedKeeps, ZenonT(60)
<1>3. CASE ~IsIn(w) /\ ~u.conf
  <2> DEFINE n == [u EXCEPT !.wfs = "no"]
  <2>1. n \in Unmappeds /\ n.wfs = "no" /\ n.wmax = u.wmax /\ n.conf = u.conf
    BY <1>3 DEF Unmappeds
  <2>2. Remember(w, ask, n)
    BY <1>3, Zenon DEF unfullscreen_request
  <2> HIDE DEF ask, n
  <2> QED
    BY <1>1, <1>3, <2>1, <2>2, RememberKeeps, ZenonT(60)
<1>4. CASE ~IsIn(w) /\ u.conf
  <2> DEFINE explicit == NamedOrOwn(w)
             pick == PickMonitor(w, explicit)
             found == FindsWorkspace(pick.mon, u.ws)
  <2>1. Reconfigure(w, ask, pick, found, u.pmax, FALSE)
    BY <1>4, Zenon DEF unfullscreen_request
  <2>2. explicit \in tlOuts \cup {TlNone} /\ (ask.follows => explicit = TlNone)
    BY <1>1, <1>4, MonitorFacts, Zenon DEF NamedOrOwn
  <2>3. /\ pick.out \in tlOuts \cup {TlNone}
        /\ explicit = TlNone /\ ParentMonitor(w) # TlNone => pick.out = TlNone
    BY <2>2, PickFacts, Zenon
  <2>4. found \in BOOLEAN /\ u.pmax \in BOOLEAN /\ FALSE \in BOOLEAN
    BY <1>4, Zenon DEF FindsWorkspace, Toplevels, Unmappeds
  <2>5. found /\ ~ask.lost => FALSE = ask.fs /\ u.pmax = ask.max
    BY <1>1, <1>4, Zenon
  <2>6. ask.follows /\ ParentMonitor(w) # TlNone => pick.out = TlNone
    BY <1>1, <2>2, <2>3, Zenon
  <2>7. IsUnmapped(w) /\ tlUnmapped[w].conf /\ ask \in Asks
    BY <1>1, <1>4, Zenon
  <2> HIDE DEF ask, pick, found
  <2> QED
    BY <2>1, <2>3, <2>4, <2>5, <2>6, <2>7, ReconfigureKeeps, ZenonT(60)
<1> QED
  BY <1>2, <1>3, <1>4, Zenon

\* A window asks to be fullscreen, on an output or on any.
LEMMA FullscreenKeeps ==
    ASSUME TlInv, NEW w \in TlWindows, IsIn(w) \/ IsUnmapped(w), NEW o \in tlOuts \cup {"any"},
           fullscreen_request(w, o), RequestFrame
    PROVE  TlInv'
<1> DEFINE ask == [tlAsk[w] EXCEPT !.fs = TRUE, !.follows = tlAsk[w].follows /\ o = "any"]
           u == tlUnmapped[w]
<1> USE RequestTypes
<1>1. /\ ask \in Asks /\ ask.fs = TRUE /\ ask.max = tlAsk[w].max /\ ask.lost = tlAsk[w].lost
      /\ ask.follows = (tlAsk[w].follows /\ o = "any")
  BY ZenonT(60) DEF Asks
<1>2. CASE IsIn(w)
  <2> DEFINE at == IF {o, tlLayout[w].at} \subseteq tlOuts THEN o ELSE tlLayout[w].at
             mode == [tlLayout[w] EXCEPT !.fs = TRUE, !.at = at]
  <2>1. at \in tlOuts \cup {"nowhere"} /\ at \in TlOutputs \cup {"nowhere"}
    BY <1>2, Zenon
  <2>2. SetMapped(w, ask, mode)
    BY <1>2, Zenon DEF fullscreen_request
  <2> HIDE DEF at
  <2>3. mode \in Tiles /\ mode.fs = TRUE /\ mode.max = tlLayout[w].max /\ mode.at = at
    BY <1>2, <2>1, ZenonT(60) DEF Tiles
  <2> HIDE DEF ask, mode
  <2> QED
    BY <1>1, <1>2, <2>1, <2>2, <2>3, SetMappedKeeps, ZenonT(60)
<1>3. CASE ~IsIn(w) /\ ~u.conf
  <2> DEFINE n == [u EXCEPT !.wfs = o]
  <2>1. n \in Unmappeds /\ n.wfs = o /\ n.wmax = u.wmax /\ n.conf = u.conf /\ o # "no"
    BY <1>3, TlAssumption DEF Unmappeds
  <2>2. Remember(w, ask, n)
    BY <1>3, Zenon DEF fullscreen_request
  <2> HIDE DEF ask, n
  <2> QED
    BY <1>1, <1>3, <2>1, <2>2, RememberKeeps, ZenonT(60)
<1>4. CASE ~IsIn(w) /\ u.conf
  <2> DEFINE explicit == monitor_for_output(IF o = "any" THEN u.out ELSE o)
             pick == PickMonitor(w, explicit)
             found == FindsWorkspace(pick.mon, FALSE)
  <2>1. Reconfigure(w, ask, pick, found, u.pmax, TRUE)
    BY <1>4, Zenon DEF fullscreen_request
  <2>2. explicit \in tlOuts \cup {TlNone} /\ (ask.follows => explicit = TlNone)
    BY <1>1, <1>4, MonitorFacts, Zenon
  <2>3. /\ pick.out \in tlOuts \cup {TlNone}
        /\ explicit = TlNone /\ ParentMonitor(w) # TlNone => pick.out = TlNone
    BY <2>2, PickFacts, Zenon
  <2>4. found \in BOOLEAN /\ u.pmax \in BOOLEAN /\ TRUE \in BOOLEAN
    BY <1>4, Zenon DEF FindsWorkspace, Unmappeds
  <2>5. found /\ ~ask.lost => TRUE = ask.fs /\ u.pmax = ask.max
    BY <1>1, <1>4, Zenon
  <2>6. ask.follows /\ ParentMonitor(w) # TlNone => pick.out = TlNone
    BY <1>1, <2>2, <2>3, Zenon
  <2>7. IsUnmapped(w) /\ tlUnmapped[w].conf /\ ask \in Asks
    BY <1>1, <1>4, Zenon
  <2> HIDE DEF ask, pick, found
  <2> QED
    BY <2>1, <2>3, <2>4, <2>5, <2>6, <2>7, ReconfigureKeeps, ZenonT(60)
<1> QED
  BY <1>2, <1>3, <1>4, Zenon

\* A request of a client keeps the invariant, whatever the window's state.
LEMMA RequestKeeps ==
    ASSUME TlInv, NEW w \in TlWindows, Request(w)
    PROVE  TlInv'
<1>1. RequestFrame /\ (IsIn(w) \/ IsUnmapped(w))
  BY Zenon DEF Request, RequestFrame
<1> QED
  BY <1>1, MaximizeKeeps, UnmaximizeKeeps, FullscreenKeeps, UnfullscreenKeeps, Zenon DEF Request

-----------------------------------------------------------------------------
\* A client asks for a decoration mode.
LEMMA RequestModeKeeps ==
    ASSUME TlInv, NEW w \in TlWindows, request_mode(w)
    PROVE  TlInv'
<1>1. /\ tlTop[w] = "live"
      /\ tlLayout' = IF IsIn(w) THEN [tlLayout EXCEPT ![w].needs = TRUE] ELSE tlLayout
      /\ tlOwed' = IF IsUnmapped(w) /\ tlUnmapped[w].conf THEN tlOwed ELSE tlOwed \cup {w}
      /\ UNCHANGED <<tlCfg, tlOuts, tlActive, tlNamed, tlSurf, tlTop, tlParent, tlAck, tlUnmapped, tlHook, tlPend,
                     tlIdles, tlAsk, tlPanic>>
  BY Zenon DEF request_mode, Client, tlWorld, tlClient
<1>2. TlTypeOK /\ WorldOK /\ HomeOK(w) /\ AskOK(w) /\ DueOK(w) /\ ~tlPanic
  BY Zenon DEF TlInv, WinOK
<1>3. IsIn(w) => /\ tlLayout[w] \in Tiles /\ tlLayout'[w] \in Tiles /\ tlLayout'[w].at = tlLayout[w].at
                 /\ tlLayout'[w].fs = tlLayout[w].fs /\ tlLayout'[w].max = tlLayout[w].max
                 /\ tlLayout'[w].needs /\ tlLayout'[w] # TlNone
  BY <1>1, <1>2, TlAssumption, ZenonT(60) DEF TlTypeOK, IsIn, Tiles
<1>4. ~IsIn(w) => tlLayout' = tlLayout
  BY <1>1, Zenon
<1>5. tlLayout' \in [TlWindows -> Tiles \cup {TlNone}] /\ \A v \in TlWindows \ {w} : tlLayout'[v] = tlLayout[v]
  BY <1>1, <1>2, <1>3, Zenon DEF TlTypeOK
<1>6. TlTypeOK' /\ WorldOK' /\ ~tlPanic'
  BY <1>1, <1>2, <1>3, <1>4, <1>5 DEF TlTypeOK, WorldOK, IsIn
<1>7. WinOK(w)'
  <2>1. HomeOK(w)'
    BY <1>1, <1>2, <1>3, <1>4, Zenon DEF HomeOK, IsIn, IsUnmapped
  <2>2. AskOK(w)'
    BY <1>1, <1>2, <1>3, <1>4, Zenon DEF AskOK, IsIn, IsUnmapped
  <2>3. DueOK(w)'
    BY <1>1, <1>2, <1>3, <1>4, Zenon DEF DueOK, HomeOK, IsIn, IsUnmapped
  <2> QED
    BY <2>1, <2>2, <2>3, Zenon DEF WinOK
<1> QED
  BY <1>1, <1>5, <1>6, <1>7, OneWindow, Zenon

\* A client names another parent.
LEMMA SetParentKeeps ==
    ASSUME TlInv, NEW w \in TlWindows, SetParent(w)
    PROVE  TlInv'
<1>1. /\ tlParent' = [tlParent EXCEPT ![w] = IF @ = TlNone THEN tlCfg.parent ELSE TlNone]
      /\ tlAsk' = [tlAsk EXCEPT ![w].follows = FALSE]
      /\ UNCHANGED <<tlCfg, tlOuts, tlActive, tlNamed, tlSurf, tlTop, tlAck, tlUnmapped, tlLayout, tlHook, tlPend,
                     tlIdles, tlOwed, tlPanic>>
  BY Zenon DEF SetParent, tlWorld
<1>2. TlTypeOK /\ WorldOK /\ HomeOK(w) /\ AskOK(w) /\ DueOK(w) /\ ~tlPanic
  BY Zenon DEF TlInv, WinOK
<1>3. /\ tlAsk'[w].fs = tlAsk[w].fs /\ tlAsk'[w].max = tlAsk[w].max /\ tlAsk'[w].lost = tlAsk[w].lost
      /\ ~tlAsk'[w].follows /\ tlAsk' \in [TlWindows -> Asks]
      /\ tlParent' \in [TlWindows -> TlWindows \cup {TlNone}]
      /\ \A v \in TlWindows \ {w} : tlAsk'[v] = tlAsk[v]
  <2>1. tlAsk \in [TlWindows -> Asks] /\ tlParent \in [TlWindows -> TlWindows \cup {TlNone}]
    BY <1>2, Zenon DEF TlTypeOK
  <2>2. tlCfg.parent \in TlWindows \cup {TlNone}
    BY <1>2, Zenon DEF TlTypeOK, TlCfgs
  <2>3. tlParent' \in [TlWindows -> TlWindows \cup {TlNone}]
    BY <1>1, <2>1, <2>2, Zenon
  <2> QED
    BY <1>1, <2>1, <2>3, ZenonT(60) DEF Asks
<1>4. TlTypeOK' /\ WorldOK' /\ ~tlPanic'
  BY <1>1, <1>2, <1>3, Zenon DEF TlTypeOK, WorldOK, IsIn
<1>5. WinOK(w)'
  <2>1. HomeOK(w)'
    BY <1>1, <1>2, Zenon DEF HomeOK, IsIn, IsUnmapped
  <2>2. AskOK(w)' /\ DueOK(w)'
    BY <1>1, <1>2, <1>3, ZenonT(60) DEF AskOK, DueOK, IsIn, IsUnmapped
  <2> QED
    BY <2>1, <2>2, Zenon DEF WinOK
<1> QED
  BY <1>1, <1>3, <1>4, <1>5, OneWindow, Zenon

\* A window is given an activation token, or its token runs out.
LEMMA TokenKeeps ==
    ASSUME TlInv, NEW w \in TlWindows, request_activation(w) \/ TokenExpires(w)
    PROVE  TlInv'
<1>1. PICK t \in {"fresh", "old"} : tlUnmapped' = [tlUnmapped EXCEPT ![w].tok = t]
  BY Zenon DEF request_activation, TokenExpires
<1>2. /\ IsUnmapped(w)
      /\ UNCHANGED <<tlCfg, tlOuts, tlActive, tlNamed, tlSurf, tlTop, tlParent, tlAck, tlLayout, tlHook, tlPend,
                     tlIdles, tlAsk, tlOwed, tlPanic>>
  BY Zenon DEF request_activation, TokenExpires, tlWorld, tlClient
<1>3. TlTypeOK /\ WorldOK /\ HomeOK(w) /\ AskOK(w) /\ DueOK(w) /\ ~tlPanic
  BY Zenon DEF TlInv, WinOK
<1>4. tlUnmapped[w] \in Unmappeds
  BY <1>2, <1>3, Zenon DEF TlTypeOK, IsUnmapped
<1>5. /\ tlUnmapped'[w] \in Unmappeds /\ tlUnmapped'[w].conf = tlUnmapped[w].conf
      /\ tlUnmapped'[w].wfs = tlUnmapped[w].wfs /\ tlUnmapped'[w].wmax = tlUnmapped[w].wmax
      /\ tlUnmapped'[w].pmax = tlUnmapped[w].pmax /\ tlUnmapped'[w].out = tlUnmapped[w].out
      /\ \A v \in TlWindows \ {w} : tlUnmapped'[v] = tlUnmapped[v]
  BY <1>1, <1>3, <1>4, ZenonT(60) DEF TlTypeOK, Unmappeds
<1>6. tlUnmapped' \in [TlWindows -> Unmappeds \cup {TlNone}] /\ tlUnmapped'[w] # TlNone
  BY <1>1, <1>3, <1>5, TlAssumption, Zenon DEF TlTypeOK
<1>7. TlTypeOK' /\ WorldOK' /\ ~tlPanic'
  BY <1>2, <1>3, <1>6, Zenon DEF TlTypeOK, WorldOK, IsIn
<1>8. WinOK(w)'
  <2>1. HomeOK(w)'
    BY <1>2, <1>3, <1>6, Zenon DEF HomeOK, IsIn, IsUnmapped
  <2>2. AskOK(w)' /\ DueOK(w)'
    BY <1>2, <1>3, <1>5, <1>6, Zenon DEF AskOK, DueOK, IsIn, IsUnmapped
  <2> QED
    BY <2>1, <2>2, Zenon DEF WinOK
<1> QED
  BY <1>2, <1>5, <1>7, <1>8, OneWindow, Zenon

\* A commit of an unmapped window that queues an initial configure.
LEMMA CommitKeeps ==
    ASSUME TlInv, NEW w \in TlWindows, CommitUnmapped(w)
    PROVE  TlInv'
<1>1. /\ tlIdles' = [tlIdles EXCEPT ![w] = @ + 1]
      /\ UNCHANGED <<tlCfg, tlOuts, tlActive, tlNamed, tlSurf, tlTop, tlParent, tlAck, tlUnmapped, tlLayout, tlHook,
                     tlPend, tlAsk, tlOwed, tlPanic>>
  BY Zenon DEF CommitUnmapped, tlWorld, tlClient
<1>2. TlTypeOK' /\ WorldOK' /\ ~tlPanic'
  BY <1>1 DEF TlInv, TlTypeOK, WorldOK, IsIn
<1>3. WinOK(w)'
  BY <1>1, OthersKept, Zenon DEF TlInv
<1> QED
  BY <1>1, <1>2, <1>3, OneWindow, Zenon

-----------------------------------------------------------------------------
\* Every window sends the configure it is flagged for.
LEMMA SendPendingKeeps ==
    ASSUME TlInv, SendPendingConfigures
    PROVE  TlInv'
<1>1. /\ tlLayout' = [w \in TlWindows |-> IF IsIn(w)
            THEN [tlLayout[w] EXCEPT !.needs = FALSE, !.raw = FALSE] ELSE TlNone]
      /\ tlOwed' = {w \in tlOwed : ~(IsIn(w) /\ tlLayout[w].needs)}
      /\ UNCHANGED <<tlCfg, tlOuts, tlActive, tlNamed, tlSurf, tlTop, tlParent, tlAck, tlUnmapped, tlHook, tlPend,
                     tlIdles, tlAsk, tlPanic>>
  BY Zenon DEF SendPendingConfigures, tlWorld, tlClient
<1>2. TlTypeOK /\ WorldOK /\ ~tlPanic /\ \A v \in TlWindows : HomeOK(v) /\ AskOK(v) /\ DueOK(v)
  BY Zenon DEF TlInv, WinOK
<1>3. \A v \in TlWindows :
        /\ IsIn(v) => /\ tlLayout'[v] \in Tiles /\ tlLayout'[v].at = tlLayout[v].at /\ tlLayout'[v] # TlNone
                      /\ tlLayout'[v].fs = tlLayout[v].fs /\ tlLayout'[v].max = tlLayout[v].max
        /\ ~IsIn(v) => tlLayout'[v] = TlNone
  <2> SUFFICES ASSUME NEW v \in TlWindows
               PROVE  /\ IsIn(v) => /\ tlLayout'[v] \in Tiles /\ tlLayout'[v].at = tlLayout[v].at
                                    /\ tlLayout'[v] # TlNone
                                    /\ tlLayout'[v].fs = tlLayout[v].fs /\ tlLayout'[v].max = tlLayout[v].max
                      /\ ~IsIn(v) => tlLayout'[v] = TlNone
    BY Zenon
  <2>1. IsIn(v) => tlLayout[v] \in Tiles
    BY <1>2, Zenon DEF TlTypeOK, IsIn
  <2>2. IsIn(v) => tlLayout'[v] = [tlLayout[v] EXCEPT !.needs = FALSE, !.raw = FALSE]
    BY <1>1, Zenon
  <2> QED
    BY <1>1, <2>1, <2>2, TlAssumption, ZenonT(60) DEF Tiles
<1>4. tlLayout' \in [TlWindows -> Tiles \cup {TlNone}]
  BY <1>1, <1>3, Zenon
<1>5. TlTypeOK' /\ WorldOK' /\ ~tlPanic'
  BY <1>1, <1>2, <1>3, <1>4, Zenon DEF TlTypeOK, WorldOK, IsIn
<1>6. ASSUME NEW v \in TlWindows PROVE WinOK(v)'
  <2>1. HomeOK(v)'
    BY <1>1, <1>2, <1>3, Zenon DEF HomeOK, IsIn, IsUnmapped
  <2>2. AskOK(v)'
    BY <1>1, <1>2, <1>3, ZenonT(60) DEF AskOK, IsIn, IsUnmapped
  <2>3. DueOK(v)'
    BY <1>1, <1>2, Zenon DEF DueOK, IsIn, IsUnmapped
  <2> QED
    BY <2>1, <2>2, <2>3, Zenon DEF WinOK
<1> QED
  BY <1>5, <1>6, Zenon DEF TlInv

\* A step of the world keeps the invariant if it only moves windows, to outputs
\* there are.
LEMMA MovedOK ==
    ASSUME TlInv, WorldOK', tlOuts' \subseteq TlOutputs,
           UNCHANGED <<tlCfg, tlClient, tlUnmapped, tlHook, tlPend, tlIdles, tlAsk, tlOwed, tlPanic>>,
           tlLayout' \in [TlWindows -> Tiles \cup {TlNone}],
           \A v \in TlWindows : IF IsIn(v)
             THEN /\ tlLayout'[v] # TlNone /\ tlLayout'[v].needs = tlLayout[v].needs
                  /\ tlLayout'[v].fs = tlLayout[v].fs /\ tlLayout'[v].max = tlLayout[v].max
             ELSE tlLayout'[v] = TlNone
    PROVE  TlInv'
<1>1. UNCHANGED <<tlCfg, tlSurf, tlTop, tlParent, tlAck, tlUnmapped, tlHook, tlPend, tlIdles, tlAsk, tlOwed, tlPanic>>
  BY Zenon DEF tlClient
<1>2. TlTypeOK /\ ~tlPanic /\ \A v \in TlWindows : HomeOK(v) /\ AskOK(v) /\ DueOK(v)
  BY Zenon DEF TlInv, WinOK
<1>3. TlTypeOK'
  BY <1>1, <1>2, Zenon DEF TlTypeOK, WorldOK
<1>4. ASSUME NEW v \in TlWindows PROVE WinOK(v)'
  <2>1. HomeOK(v)'
    BY <1>1, <1>2, Zenon DEF HomeOK, IsIn, IsUnmapped
  <2>2. AskOK(v)'
    BY <1>1, <1>2, ZenonT(60) DEF AskOK, IsIn, IsUnmapped
  <2>3. DueOK(v)'
    BY <1>1, <1>2, Zenon DEF DueOK, IsIn, IsUnmapped
  <2> QED
    BY <2>1, <2>2, <2>3, Zenon DEF WinOK
<1> QED
  BY <1>1, <1>2, <1>3, <1>4, SMTT(30) DEF TlInv

\* Moving every window to its place changes nothing else of it.
LEMMA MoveAllOK ==
    ASSUME TlInv, NEW place \in [TlOutputs \cup {"nowhere"} -> TlOutputs \cup {"nowhere"}], MoveAll(place)
    PROVE  /\ tlLayout' \in [TlWindows -> Tiles \cup {TlNone}]
           /\ \A v \in TlWindows : IF IsIn(v)
                THEN /\ tlLayout'[v] # TlNone /\ tlLayout'[v].needs = tlLayout[v].needs
                     /\ tlLayout'[v].fs = tlLayout[v].fs /\ tlLayout'[v].max = tlLayout[v].max
                     /\ tlLayout'[v].at = place[tlLayout[v].at]
                ELSE tlLayout'[v] = TlNone
<1>1. tlLayout' = [w \in TlWindows |-> IF IsIn(w) THEN [tlLayout[w] EXCEPT !.at = place[tlLayout[w].at]] ELSE TlNone]
  BY Zenon DEF MoveAll
<1>2. ASSUME NEW v \in TlWindows, IsIn(v)
      PROVE  /\ tlLayout'[v] \in Tiles
             /\ tlLayout'[v] # TlNone /\ tlLayout'[v].needs = tlLayout[v].needs
             /\ tlLayout'[v].fs = tlLayout[v].fs /\ tlLayout'[v].max = tlLayout[v].max
             /\ tlLayout'[v].at = place[tlLayout[v].at]
  <2>1. tlLayout[v] \in Tiles
    BY <1>2, Zenon DEF TlInv, TlTypeOK, IsIn
  <2>2. place[tlLayout[v].at] \in TlOutputs \cup {"nowhere"}
    BY <2>1, Zenon DEF Tiles
  <2>3. tlLayout'[v] = [tlLayout[v] EXCEPT !.at = place[tlLayout[v].at]]
    BY <1>1, <1>2, Zenon
  <2> QED
    BY <2>1, <2>2, <2>3, TlAssumption DEF Tiles
<1>3. \A v \in TlWindows : ~IsIn(v) => tlLayout'[v] = TlNone
  BY <1>1, Zenon
<1>4. \A v \in TlWindows : tlLayout'[v] \in Tiles \cup {TlNone}
  BY <1>2, <1>3, Zenon
<1> QED
  BY <1>1, <1>2, <1>3, <1>4, Zenon

\* An output goes: what was on it is on another, or nowhere.
LEMMA UnplugKeeps ==
    ASSUME TlInv, NEW o \in TlOutputs, Unplug(o),
           UNCHANGED <<tlCfg, tlClient, tlUnmapped, tlHook, tlPend, tlIdles, tlAsk, tlOwed, tlPanic>>
    PROVE  TlInv'
<1> DEFINE outs == tlOuts \ {o}
           place == [x \in TlOutputs \cup {"nowhere"} |-> Elsewhere(outs, x, o)]
<1>1. /\ o \in tlOuts /\ tlOuts' = outs /\ tlActive' = IF outs = {} THEN TlNone ELSE place[tlActive]
      /\ tlNamed' = IF tlNamed = "gone" THEN "gone" ELSE place[tlNamed]
      /\ MoveAll(place)
  BY Zenon DEF Unplug
<1>2. TlTypeOK /\ WorldOK /\ tlOuts \subseteq TlOutputs /\ "nowhere" \notin TlOutputs /\ TlNone \notin TlOutputs
  BY TlAssumption, Zenon DEF TlInv, TlTypeOK
<1>3. outs # {} => (CHOOSE q \in outs : TRUE) \in outs
  BY Zenon
<1>4. /\ \A x \in tlOuts \cup {"nowhere"} : place[x] \in outs \cup {"nowhere"}
      /\ \A x \in tlOuts : outs # {} => place[x] \in outs
      /\ place \in [TlOutputs \cup {"nowhere"} -> TlOutputs \cup {"nowhere"}]
  BY <1>2, <1>3, Zenon DEF Elsewhere
<1>5. WorldOK'
  <2>1. IF tlOuts' = {} THEN tlActive' = TlNone ELSE tlActive' \in tlOuts'
    BY <1>1, <1>2, <1>4, Zenon DEF WorldOK
  <2>2. tlNamed' \in tlOuts' \cup {"nowhere", "gone"}
    BY <1>1, <1>2, <1>4, Zenon DEF WorldOK
  <2>3. \A v \in TlWindows : IsIn(v)' => IsIn(v) /\ tlLayout'[v].at = place[tlLayout[v].at]
    BY <1>1, <1>4, MoveAllOK, Zenon DEF IsIn
  <2>4. \A v \in TlWindows : IsIn(v)' => tlLayout'[v].at \in tlOuts' \cup {"nowhere"}
    BY <1>1, <1>2, <1>4, <2>3, Zenon DEF WorldOK
  <2> QED
    BY <2>1, <2>2, <2>4, Zenon DEF WorldOK
<1>6. tlOuts' \subseteq TlOutputs
  BY <1>1, <1>2, Zenon
<1> QED
  BY <1>1, <1>4, <1>5, <1>6, MoveAllOK, MovedOK, Zenon

\* An output comes: it takes what had none, and perhaps the rest.
LEMMA PlugKeeps ==
    ASSUME TlInv, NEW o \in TlOutputs, Plug(o),
           UNCHANGED <<tlCfg, tlClient, tlUnmapped, tlHook, tlPend, tlIdles, tlAsk, tlOwed, tlPanic>>
    PROVE  TlInv'
<1>1. PICK back \in BOOLEAN :
        LET place == [x \in TlOutputs \cup {"nowhere"} |-> IF x = "nowhere" \/ back THEN o ELSE x]
        IN /\ MoveAll(place)
           /\ tlNamed' = IF tlNamed = "gone" THEN "gone" ELSE place[tlNamed]
  BY Zenon DEF Plug
<1> DEFINE place == [x \in TlOutputs \cup {"nowhere"} |-> IF x = "nowhere" \/ back THEN o ELSE x]
<1>2. /\ MoveAll(place) /\ tlNamed' = IF tlNamed = "gone" THEN "gone" ELSE place[tlNamed]
      /\ tlOuts' = tlOuts \cup {o} /\ tlActive' = IF tlActive = TlNone THEN o ELSE tlActive
  BY <1>1, Zenon DEF Plug
<1>3. TlTypeOK /\ WorldOK /\ tlOuts \subseteq TlOutputs /\ "nowhere" \notin TlOutputs /\ TlNone \notin TlOutputs
  BY TlAssumption, Zenon DEF TlInv, TlTypeOK
<1>4. /\ \A x \in tlOuts \cup {"nowhere"} : place[x] \in tlOuts'
      /\ place \in [TlOutputs \cup {"nowhere"} -> TlOutputs \cup {"nowhere"}]
  BY <1>2, <1>3, Zenon
<1>5. WorldOK'
  <2>1. IF tlOuts' = {} THEN tlActive' = TlNone ELSE tlActive' \in tlOuts'
    BY <1>2, <1>3, Zenon DEF WorldOK
  <2>2. tlNamed' \in tlOuts' \cup {"nowhere", "gone"}
    BY <1>2, <1>3, <1>4, Zenon DEF WorldOK
  <2>3. \A v \in TlWindows : IsIn(v)' => IsIn(v) /\ tlLayout'[v].at = place[tlLayout[v].at]
    BY <1>2, <1>4, MoveAllOK, ZenonT(60) DEF IsIn
  <2>4. \A v \in TlWindows : IsIn(v)' => tlLayout'[v].at \in tlOuts' \cup {"nowhere"}
    BY <1>3, <1>4, <2>3, Zenon DEF WorldOK
  <2> QED
    BY <2>1, <2>2, <2>4, Zenon DEF WorldOK
<1>6. tlOuts' \subseteq TlOutputs
  BY <1>2, <1>3, Zenon
<1> QED
  BY <1>2, <1>4, <1>5, <1>6, MoveAllOK, MovedOK, Zenon

\* The user moves a window or the named workspace, or looks at another output.
LEMMA UserActsKeeps ==
    ASSUME TlInv, UserActs,
           UNCHANGED <<tlCfg, tlClient, tlUnmapped, tlHook, tlPend, tlIdles, tlAsk, tlOwed, tlPanic>>
    PROVE  TlInv'
<1>1. TlTypeOK /\ WorldOK /\ tlOuts \subseteq TlOutputs /\ tlOuts' = tlOuts
  BY Zenon DEF TlInv, TlTypeOK, UserActs
<1>2. CASE tlLayout' = tlLayout
  <2>1. WorldOK'
    BY <1>1, <1>2, TlAssumption, Zenon DEF WorldOK, UserActs, IsIn
  <2>2. tlLayout' \in [TlWindows -> Tiles \cup {TlNone}]
    BY <1>1, <1>2, Zenon DEF TlTypeOK
  <2>3. \A v \in TlWindows : IF IsIn(v)
             THEN /\ tlLayout'[v] # TlNone /\ tlLayout'[v].needs = tlLayout[v].needs
                  /\ tlLayout'[v].fs = tlLayout[v].fs /\ tlLayout'[v].max = tlLayout[v].max
             ELSE tlLayout'[v] = TlNone
    BY <1>2, Zenon DEF IsIn
  <2> QED
    BY <1>1, <2>1, <2>2, <2>3, MovedOK, Zenon
<1>3. CASE tlLayout' # tlLayout
  <2>1. PICK o \in tlOuts, w \in TlWindows :
          IsIn(w) /\ tlLayout' = [tlLayout EXCEPT ![w].at = o] /\ UNCHANGED <<tlActive, tlNamed>>
    BY <1>3, Zenon DEF UserActs
  <2>2. tlLayout[w] \in Tiles /\ o \in TlOutputs
    BY <1>1, <2>1, Zenon DEF TlTypeOK, IsIn
  <2>3. /\ tlLayout'[w] \in Tiles /\ tlLayout'[w] # TlNone /\ tlLayout'[w].needs = tlLayout[w].needs
        /\ tlLayout'[w].fs = tlLayout[w].fs /\ tlLayout'[w].max = tlLayout[w].max /\ tlLayout'[w].at = o
        /\ \A v \in TlWindows \ {w} : tlLayout'[v] = tlLayout[v]
    BY <1>1, <2>1, <2>2, TlAssumption, SMTT(30) DEF TlTypeOK, Tiles
  <2>4. tlLayout' \in [TlWindows -> Tiles \cup {TlNone}]
    BY <1>1, <2>1, <2>3, Zenon DEF TlTypeOK
  <2>5. WorldOK'
    BY <1>1, <2>1, <2>3 DEF WorldOK, IsIn
  <2>6. \A v \in TlWindows : IF IsIn(v)
             THEN /\ tlLayout'[v] # TlNone /\ tlLayout'[v].needs = tlLayout[v].needs
                  /\ tlLayout'[v].fs = tlLayout[v].fs /\ tlLayout'[v].max = tlLayout[v].max
             ELSE tlLayout'[v] = TlNone
    BY <2>1, <2>3, Zenon DEF IsIn
  <2> QED
    BY <1>1, <2>4, <2>5, <2>6, MovedOK, Zenon
<1> QED
  BY <1>2, <1>3, Zenon

-----------------------------------------------------------------------------
\* The invariant holds at the start.
LEMMA TlInitInv == TlInit => TlInv
<1> SUFFICES ASSUME TlInit PROVE TlInv
  BY Zenon
<1>1. tlCfg \in TlCfgs /\ tlCfg.parent \in TlWindows \cup {TlNone}
  BY TlAssumption, Zenon DEF TlInit, TlCfgs
<1> DEFINE t == [at |-> "a", fs |-> FALSE, max |-> FALSE, needs |-> FALSE, raw |-> FALSE, act |-> "yes"]
<1>2. t \in Tiles /\ t.at = "a" /\ t.fs = FALSE /\ t.max = FALSE /\ t # TlNone
  <2>1. t \in Tiles
    BY TlAssumption, Zenon DEF Tiles
  <2> QED
    BY <2>1, TlAssumption, Zenon
<1>3. tlLayout = [w \in TlWindows |-> IF w = tlCfg.parent THEN t ELSE TlNone]
  BY Zenon DEF TlInit
<1> HIDE DEF t
<1>4. TlTypeOK
  BY <1>1, <1>2, <1>3, FreshOK, Zenon DEF TlTypeOK, TlInit
<1>5. WorldOK /\ ~tlPanic
  BY <1>2, <1>3, TlAssumption DEF WorldOK, TlInit, IsIn
<1>6. ASSUME NEW w \in TlWindows PROVE WinOK(w)
  <2>1. tlUnmapped[w] = TlNone /\ tlAsk[w] = NoAsk /\ w \notin tlHook /\ w \notin tlOwed
    BY Zenon DEF TlInit
  <2>2. IF w = tlCfg.parent THEN tlTop[w] = "live" /\ tlSurf[w] = "live" /\ tlLayout[w] = t
                            ELSE tlTop[w] = "none" /\ tlSurf[w] = "none" /\ tlLayout[w] = TlNone
    BY <1>3, Zenon DEF TlInit
  <2> QED
    BY <1>2, <2>1, <2>2, FreshOK, Zenon DEF WinOK, HomeOK, AskOK, DueOK, IsIn, IsUnmapped
<1> QED
  BY <1>4, <1>5, <1>6, Zenon DEF TlInv

\* Every step keeps the invariant.
LEMMA TlStepInv == TlInv /\ [TlNext]_tlVars => TlInv'
<1> SUFFICES ASSUME TlInv, [TlNext]_tlVars PROVE TlInv'
  BY Zenon
<1>1. CASE World
  <2>1. UNCHANGED <<tlCfg, tlClient, tlUnmapped, tlHook, tlPend, tlIdles, tlAsk, tlOwed, tlPanic>>
    BY <1>1, Zenon DEF World
  <2> QED
    BY <1>1, <2>1, UserActsKeeps, UnplugKeeps, PlugKeeps, Zenon DEF World
<1>2. CASE SendPendingConfigures
  BY <1>2, SendPendingKeeps, Zenon
<1>3. ASSUME NEW w \in TlWindows,
             \/ new_surface(w) \/ new_toplevel(w) \/ toplevel_destroyed(w) \/ destroyed(w)
             \/ MapWindow(w) \/ CommitUnmapped(w) \/ UnmapWindow(w) \/ InitialConfigureIdle(w)
      PROVE  TlInv'
  BY <1>3, NewSurfaceKeeps, NewToplevelKeeps, ToplevelDestroyedKeeps, DestroyedKeeps, MapWindowKeeps,
     CommitKeeps, UnmapWindowKeeps, IdleKeeps, Zenon
<1>4. ASSUME NEW w \in TlWindows,
             \/ Request(w) \/ request_mode(w) \/ SetParent(w)
             \/ request_activation(w) \/ TokenExpires(w)
      PROVE  TlInv'
  BY <1>4, RequestKeeps, RequestModeKeeps, SetParentKeeps, TokenKeeps, Zenon
<1>5. CASE UNCHANGED tlVars
  <2>1. UNCHANGED <<tlCfg, tlOuts, tlActive, tlNamed, tlSurf, tlTop, tlUnmapped, tlLayout, tlHook,
                    tlPend, tlAck, tlParent, tlIdles, tlAsk, tlOwed, tlPanic>>
    BY <1>5, Zenon DEF tlVars
  <2>2. TlTypeOK' /\ WorldOK' /\ ~tlPanic'
    BY <2>1, Zenon DEF TlInv, TlTypeOK, WorldOK, IsIn
  <2>3. \A v \in TlWindows : WinOK(v)'
    BY <2>1, OthersKept, Zenon DEF TlInv
  <2> QED
    BY <2>2, <2>3, Zenon DEF TlInv
<1> QED
  BY <1>1, <1>2, <1>3, <1>4, <1>5, Zenon DEF TlNext

\* The inductive invariant of the toplevels.
THEOREM TlInductive == TlSpec => []TlInv
BY TlInitInv, TlStepInv, PTL DEF TlSpec

\* A toplevel is in unmapped_windows or in the layout and never in both, with
\* the dmabuf hook that goes with it, however its client is torn down.
THEOREM ToplevelHasOneHome == TlSpec => []OneHome
<1>1. TlInv => OneHome
  BY Zenon DEF TlInv, WinOK, HomeOK, OneHome
<1> QED
  BY <1>1, TlInductive, PTL

\* A window is never added to an output or a workspace that is gone.
THEOREM WindowsOpenSomewhere == TlSpec => []TargetExists
<1>1. TlInv => TargetExists
  BY Zenon DEF TlInv, TargetExists
<1> QED
  BY <1>1, TlInductive, PTL

\* Windows are fullscreen and maximized as they and the rules last asked.
THEOREM WindowsOpenAsAsked == TlSpec => []OpensAsAsked
<1>1. TlInv => OpensAsAsked
  <2> SUFFICES ASSUME TlInv, NEW w \in TlWindows
               PROVE  /\ (IsUnmapped(w) /\ tlUnmapped[w].conf /\ ~tlAsk[w].lost) =>
                           /\ tlPend[w] = [fs |-> tlAsk[w].fs, max |-> tlAsk[w].max /\ ~tlAsk[w].fs]
                           /\ tlUnmapped[w].pmax = tlAsk[w].max
                      /\ (IsIn(w) /\ ~tlAsk[w].lost) => tlLayout[w].fs = tlAsk[w].fs /\ tlLayout[w].max = tlAsk[w].max
    BY Zenon DEF OpensAsAsked
  <2>1. AskOK(w) /\ tlPend[w] \in Toplevels
    BY Zenon DEF TlInv, WinOK, TlTypeOK
  <2>2. tlPend[w] = [fs |-> tlPend[w].fs, max |-> tlPend[w].max]
    BY <2>1, Zenon DEF Toplevels
  <2> QED
    BY <2>1, <2>2, Zenon DEF AskOK
<1> QED
  BY <1>1, TlInductive, PTL

\* No client waits for a configure that nothing is going to send.
THEOREM OwedConfiguresAreSent == TlSpec => []OwedIsPending
<1>1. TlInv => OwedIsPending
  BY Zenon DEF TlInv, TlTypeOK, WinOK, DueOK, OwedIsPending
<1> QED
  BY <1>1, TlInductive, PTL

\* Only a commit with a buffer takes an unmapped window into the layout.
LEMMA OnlyMapping ==
    ASSUME TlInv, [TlNext]_tlVars, NEW w \in TlWindows, IsUnmapped(w), IsIn(w)'
    PROVE  MapWindow(w)
<1>1. ~IsIn(w) /\ tlLayout[w] = TlNone /\ tlLayout'[w] # TlNone /\ tlLayout \in [TlWindows -> Tiles \cup {TlNone}]
  BY Zenon DEF TlInv, TlTypeOK, WinOK, HomeOK, IsIn
<1>2. ~SendPendingConfigures
  BY <1>1, Zenon DEF SendPendingConfigures
<1>3. ~World
  BY <1>1, Zenon DEF World, UserActs, Unplug, Plug, MoveAll, IsIn
<1>4. ASSUME NEW v \in TlWindows,
             \/ new_surface(v) \/ new_toplevel(v) \/ toplevel_destroyed(v) \/ destroyed(v)
             \/ CommitUnmapped(v) \/ UnmapWindow(v) \/ InitialConfigureIdle(v)
             \/ request_mode(v) \/ SetParent(v) \/ request_activation(v) \/ TokenExpires(v)
      PROVE  FALSE
  <2>1. \/ tlLayout' = tlLayout \/ tlLayout' = [tlLayout EXCEPT ![v] = TlNone]
        \/ tlLayout' = [tlLayout EXCEPT ![v] = IF IsUnmapped(v) THEN @ ELSE TlNone]
        \/ IsIn(v) /\ tlLayout' = [tlLayout EXCEPT ![v].needs = TRUE]
    BY <1>4, Zenon DEF new_surface, new_toplevel, toplevel_destroyed, destroyed, CommitUnmapped, UnmapWindow,
         InitialConfigureIdle, request_mode, SetParent, request_activation, TokenExpires
  <2> QED
    BY <1>1, <2>1, Zenon
<1>5. ASSUME NEW v \in TlWindows, Request(v)
      PROVE  FALSE
  <2>1. tlLayout' = tlLayout \/ (IsIn(v) /\ \E t : tlLayout' = [tlLayout EXCEPT ![v] = t])
    BY <1>5, Zenon DEF Request, maximize_request, unmaximize_request, fullscreen_request, unfullscreen_request,
         SetMapped, Remember, Reconfigure
  <2> QED
    BY <1>1, <2>1, Zenon
<1>6. ASSUME NEW v \in TlWindows, MapWindow(v)
      PROVE  MapWindow(w)
  <2>1. \E t : tlLayout' = [tlLayout EXCEPT ![v] = t]
    BY <1>6, Zenon DEF MapWindow
  <2>2. v = w
    BY <1>1, <2>1, Zenon
  <2> QED
    BY <1>6, <2>2, Zenon
<1> QED
  BY <1>1, <1>2, <1>3, <1>4, <1>5, <1>6, Zenon DEF TlNext, tlVars

\* A window configured to follow its parent opens where its parent is by then.
THEOREM DialogsFollowTheirParent == TlSpec => FollowsParent
<1>1. ASSUME TlInv, [TlNext]_tlVars, NEW w \in TlWindows,
             IsUnmapped(w), IsIn(w)', tlAsk[w].follows, ParentMonitor(w) # TlNone
      PROVE  tlLayout'[w].at = tlLayout[tlParent[w]].at
  <2> DEFINE u == tlUnmapped[w]
             out == IF u.conf THEN StillThere(u.out) ELSE TlNone
  <2>1. MapWindow(w)
    BY <1>1, OnlyMapping, Zenon
  <2>2. u.conf /\ u.out = TlNone
    BY <1>1, Zenon DEF TlInv, WinOK, DueOK
  <2>3. out = TlNone
    BY <2>2, Zenon DEF StillThere, monitor_for_output
  <2>4. tlParent[w] # TlNone /\ IsIn(tlParent[w]) /\ tlLayout[tlParent[w]].at # TlNone
    <3>1. tlLayout[tlParent[w]].at \in tlOuts /\ tlOuts \subseteq TlOutputs
      BY <1>1, Zenon DEF ParentMonitor, monitor_for_output, TlInv, TlTypeOK
    <3> QED
      BY <1>1, <3>1, TlAssumption, Zenon DEF ParentMonitor
  <2>5. Target(w, out, u.ws) = tlLayout[tlParent[w]].at
    BY <2>3, <2>4, Zenon DEF Target
  <2>6. tlLayout'[w].at = Target(w, out, u.ws)
    <3>1. \E fs, max, needs, raw, act : tlLayout' = [tlLayout EXCEPT ![w] =
            [at |-> Target(w, out, u.ws), fs |-> fs, max |-> max, needs |-> needs, raw |-> raw, act |-> act]]
      BY <2>1, ZenonT(60) DEF MapWindow
    <3>2. tlLayout \in [TlWindows -> Tiles \cup {TlNone}]
      BY <1>1, Zenon DEF TlInv, TlTypeOK
    <3> HIDE DEF out, u
    <3> QED
      BY <3>1, <3>2
  <2> QED
    BY <2>5, <2>6, Zenon
<1>2. TlInv /\ [TlNext]_tlVars =>
        [\A w \in TlWindows :
           (IsUnmapped(w) /\ IsIn(w)' /\ tlAsk[w].follows /\ ParentMonitor(w) # TlNone)
           => tlLayout'[w].at = tlLayout[tlParent[w]].at]_tlVars
  BY <1>1, Zenon
<1> QED
  BY <1>2, TlInductive, PTL DEF TlSpec, FollowsParent

\* A token that has run out takes no focus for the window it was given to.
THEOREM OldTokensTakeNoFocus == TlSpec => OldTokenNoFocus
<1>1. ASSUME TlInv, [TlNext]_tlVars, NEW w \in TlWindows,
             IsUnmapped(w), IsIn(w)', tlUnmapped[w].tok # "fresh", tlCfg.rule.focus # "yes"
      PROVE  tlLayout'[w].act # "yes"
  <2>1. MapWindow(w)
    BY <1>1, OnlyMapping, Zenon
  <2>2. tlLayout'[w].act = ActivateNew(tlUnmapped[w].tok)
    BY <1>1, <2>1, Zenon DEF MapWindow, TlInv, TlTypeOK
  <2> QED
    BY <1>1, <2>2, Zenon DEF ActivateNew
<1>2. TlInv /\ [TlNext]_tlVars =>
        [\A w \in TlWindows :
           (/\ IsUnmapped(w) /\ IsIn(w)'
            /\ tlUnmapped[w].tok # "fresh" /\ tlCfg.rule.focus # "yes")
           => tlLayout'[w].act # "yes"]_tlVars
  BY <1>1, Zenon
<1> QED
  BY <1>2, TlInductive, PTL DEF TlSpec, OldTokenNoFocus

=============================================================================
