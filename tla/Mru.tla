-------------------------------- MODULE Mru --------------------------------
(***************************************************************************)
(* Recently used windows: the focus timestamps that mr_update_keyboard_focus  *)
(* keeps with a debounce (src/niri.rs), and the switcher that lists the    *)
(* windows by them (src/ui/mru.rs, the Mru actions of src/input/mod.rs).   *)
(* Sizes, the view position and animations other than the closing one are  *)
(* left out.                                                               *)
(***************************************************************************)
EXTENDS Vec

CONSTANTS MrWin, NoWin,
          MrApp,        \* window -> app ID, "" for none
          MrProfiles    \* bounds: [wins: windows, stamps: focus changes,
                        \*   places: where windows are, seen from the active workspace]

VARIABLES mrOpen,     \* windows of the layout
          mrActive,   \* layout.focus()
          mrKbd,      \* niri.keyboard_focus: a window, "mru" or "other"
          mrStamp,    \* window -> focus timestamp, 0 for none
          mrPending,  \* pending_mru_commit: <<>> or <<window, stamp>>
          mrNow,      \* the monotonic clock
          mrUi,       \* WindowMruUi
          mrProfile

MrPlaces == {"workspace", "output", "elsewhere"}
ASSUME MrAssumption ==
  /\ NoWin \notin MrWin /\ IsFiniteSet(MrWin)
  /\ \A p \in MrProfiles : p.wins \subseteq MrWin /\ p.places \subseteq [MrWin -> MrPlaces]

mrVars == <<mrOpen, mrActive, mrKbd, mrStamp, mrPending, mrNow, mrUi, mrProfile>>

Scopes == <<"All", "Workspace", "Output">>
Filters == {"All", "AppId"}

MrClosed(scope) == [state |-> "closed", thumbs |-> <<>>, cur |-> NoWin, scope |-> scope, filter |-> "none"]

MrInit ==
  /\ mrOpen = {} /\ mrActive = NoWin /\ mrKbd = "other"
  /\ mrStamp = [w \in MrWin |-> 0]
  /\ mrPending = <<>> /\ mrNow = 0
  /\ mrUi = MrClosed("All")
  /\ mrProfile \in MrProfiles

(***************************************************************************)
(* WindowMru: thumbs in MRU order, and the ones scope and filter let pass. *)
(***************************************************************************)
Passes(u, t) ==
  /\ u.scope = "Output" => t.place \in {"workspace", "output"}
  /\ u.scope = "Workspace" => t.place = "workspace"
  /\ u.filter # "none" => MrApp[t.id] = u.filter

\* Positions in thumbs: the ones shown, and that of a window.
thumbnails(u) == {i \in DOMAIN u.thumbs : Passes(u, u.thumbs[i])}
idx_of(u, id) == CHOOSE i \in DOMAIN u.thumbs : u.thumbs[i].id = id
Listed(u) == {u.thumbs[i].id : i \in DOMAIN u.thumbs}

first_id(u) == IF thumbnails(u) = {} THEN NoWin ELSE u.thumbs[Min(thumbnails(u))].id
last_id(u) == IF thumbnails(u) = {} THEN NoWin ELSE u.thumbs[Max(thumbnails(u))].id

\* The next one shown, around the end.
forward(u) ==
  IF u.cur = NoWin THEN u
  ELSE LET next == {i \in thumbnails(u) : i > idx_of(u, u.cur)}
       IN [u EXCEPT !.cur = IF next = {} THEN first_id(u) ELSE u.thumbs[Min(next)].id]

backward(u) ==
  IF u.cur = NoWin THEN u
  ELSE LET next == {i \in thumbnails(u) : i < idx_of(u, u.cur)}
       IN [u EXCEPT !.cur = IF next = {} THEN last_id(u) ELSE u.thumbs[Max(next)].id]

\* After a change of scope or filter: the nearest window at or before the old
\* one in MRU order, or else the first.
Reselect(u) ==
  LET kept == {i \in thumbnails(u) : i <= idx_of(u, u.cur)}
  IN [u EXCEPT !.cur = IF u.cur = NoWin \/ kept = {} THEN first_id(u) ELSE u.thumbs[Max(kept)].id]

set_scope(u, scope) == IF u.scope = scope THEN u ELSE Reselect([u EXCEPT !.scope = scope])

set_filter(u, filter) ==
  IF (u.filter # "none") = (filter = "AppId") THEN u
  ELSE IF filter = "All" THEN Reselect([u EXCEPT !.filter = "none"])
  ELSE IF u.cur = NoWin \/ MrApp[u.cur] = "" THEN u
  ELSE Reselect([u EXCEPT !.filter = MrApp[u.cur]])

\* Mutant: the selection does not move on from a window that closes.
remove_by_idx_Stays(u, i) ==
  [u EXCEPT !.cur = IF @ = u.thumbs[i].id THEN NoWin ELSE @, !.thumbs = remove(@, i)]

remove_by_idx(u, i) ==
  LET id == u.thumbs[i].id
      f == IF u.cur = id THEN forward(u) ELSE u
  IN [f EXCEPT !.cur = IF @ = id THEN NoWin ELSE @, !.thumbs = remove(@, i)]

\* The closing animation is skipped when the UI has not been shown yet.
close(u, shown) == [MrClosed(u.scope) EXCEPT !.state = IF shown THEN "closing" ELSE "closed"]

remove_window(u, id, shown) ==
  IF u.state # "open" \/ id \notin Listed(u) THEN u
  ELSE LET r == remove_by_idx(u, idx_of(u, id)) IN IF r.thumbs = <<>> THEN close(r, shown) ELSE r

(***************************************************************************)
(* Timestamps.                                                             *)
(***************************************************************************)
\* What mru_apply_keyboard_commit does to the timestamps.
Commit(stamp) ==
  IF mrPending = <<>> \/ mrPending[1] \notin mrOpen THEN stamp
  ELSE [stamp EXCEPT ![mrPending[1]] = mrPending[2]]

CommitOnOpen(stamp) == Commit(stamp)

\* A new pending commit replaces the previous one and its timer.
Replaced(w) == <<w, mrNow + 1>>

FocusFor(other) ==
  IF mrUi.state = "open" THEN "mru" ELSE IF other \/ mrActive = NoWin THEN "other" ELSE mrActive

\* The end of update_keyboard_focus, once the new focus is known; a layer
\* surface or a dialog may have it.
mr_update_keyboard_focus(other) ==
  LET f == FocusFor(other)
  IN /\ mrKbd # f /\ mrKbd' = f
     /\ IF f \in MrWin
        THEN /\ mrNow < mrProfile.stamps /\ mrNow' = mrNow + 1
             /\ IF mrStamp[f] = 0
                THEN mrStamp' = [mrStamp EXCEPT ![f] = mrNow + 1] /\ UNCHANGED mrPending
                ELSE mrPending' = Replaced(f) /\ UNCHANGED mrStamp
        ELSE UNCHANGED <<mrStamp, mrPending, mrNow>>
     /\ UNCHANGED <<mrOpen, mrActive, mrUi, mrProfile>>

\* The debounce timer, or a key pressed in a window.
mru_apply_keyboard_commit ==
  /\ mrPending # <<>>
  /\ mrStamp' = Commit(mrStamp) /\ mrPending' = <<>>
  /\ UNCHANGED <<mrOpen, mrActive, mrKbd, mrNow, mrUi, mrProfile>>

(***************************************************************************)
(* Windows.                                                                *)
(***************************************************************************)
OpenWindow(w, focus) ==
  /\ w \notin mrOpen /\ mrStamp[w] = 0
  /\ mrOpen' = mrOpen \union {w}
  /\ mrActive' = IF focus \/ mrActive = NoWin THEN w ELSE mrActive
  /\ UNCHANGED <<mrKbd, mrStamp, mrPending, mrNow, mrUi, mrProfile>>

\* A pending commit for a window that is gone finds nothing to stamp.  The next
\* window with this name is a new one.
CloseWindow(w) ==
  /\ w \in mrOpen
  /\ mrOpen' = mrOpen \ {w}
  /\ mrStamp' = [mrStamp EXCEPT ![w] = 0]
  /\ \E shown \in BOOLEAN : mrUi' = remove_window(mrUi, w, shown)
  /\ IF mrActive = w THEN mrActive' \in (mrOpen \ {w}) \union {NoWin} ELSE UNCHANGED mrActive
  /\ mrKbd' = IF mrKbd = w THEN "other" ELSE mrKbd
  /\ mrPending' = IF mrPending # <<>> /\ mrPending[1] = w THEN <<>> ELSE mrPending
  /\ UNCHANGED <<mrNow, mrProfile>>

\* focus_window, and the switches of workspace that leave nothing focused.
Activate(w) ==
  /\ w \in mrOpen \union {NoWin} /\ w # mrActive /\ mrUi.state # "open"
  /\ mrActive' = w
  /\ UNCHANGED <<mrOpen, mrKbd, mrStamp, mrPending, mrNow, mrUi, mrProfile>>

\* The most recently used window other than the focused one.
FocusWindowPrevious ==
  /\ \E w \in mrOpen \ {mrActive} :
       /\ \A v \in mrOpen \ {mrActive} : mrStamp[v] <= mrStamp[w]
       /\ mrActive' = w
  /\ mrStamp' = Commit(mrStamp) /\ mrPending' = <<>>
  /\ UNCHANGED <<mrOpen, mrKbd, mrNow, mrUi, mrProfile>>

(***************************************************************************)
(* The switcher.                                                           *)
(***************************************************************************)
\* The orders the stable sort may leave: latest first, windows never focused
\* at the end in the order of the layout.
MruOrders(stamp) ==
  {s \in UNION {Bijection(1 .. k, mrOpen) : k \in 0 .. Cardinality(MrWin)} :
     \A i \in 2..Len(s) : stamp[s[i - 1]] >= stamp[s[i]]}

new_WindowMru(s, place) ==
  [state |-> "open", thumbs |-> [i \in DOMAIN s |-> [id |-> s[i], place |-> place[s[i]]]],
   cur |-> s[1], scope |-> "All", filter |-> "none"]

Advance(u, dir, filter) ==
  LET f == IF filter = "none" THEN u ELSE set_filter(u, filter)
  IN IF dir = "Forward" THEN forward(f) ELSE backward(f)

MruAdvance(dir, scope, filter) ==
  /\ IF mrUi.state = "open"
     THEN mrUi' = Advance(mrUi, dir, filter) /\ UNCHANGED <<mrStamp, mrPending>>
     ELSE /\ mrStamp' = CommitOnOpen(mrStamp) /\ mrPending' = <<>>
          /\ IF mrOpen = {} THEN UNCHANGED mrUi
             ELSE \E s \in MruOrders(CommitOnOpen(mrStamp)), place \in mrProfile.places :
                    LET n == set_scope(new_WindowMru(s, place), IF scope = "none" THEN mrUi.scope ELSE scope)
                        u == IF filter = "none" THEN n ELSE set_filter(n, filter)
                    IN mrUi' = IF dir = "Forward" /\ mrActive = NoWin THEN u ELSE Advance(u, dir, "none")
  /\ UNCHANGED <<mrOpen, mrActive, mrKbd, mrNow, mrProfile>>

Change(u) == mrUi.state = "open" /\ mrUi' = u /\ UNCHANGED <<mrOpen, mrActive, mrKbd, mrStamp, mrPending, mrNow, mrProfile>>

MruFirst == Change([mrUi EXCEPT !.cur = first_id(mrUi)])
MruLast == Change([mrUi EXCEPT !.cur = last_id(mrUi)])
MruSetScope(scope) == Change(set_scope(mrUi, scope))
MruCycleScope ==
  \E i \in 1..3 : Scopes[i] = mrUi.scope /\ Change(set_scope(mrUi, Scopes[(i % 3) + 1]))

\* The pointer is over a thumbnail of the list.
mr_pointer_motion(id) ==
  Change(IF \E i \in thumbnails(mrUi) : mrUi.thumbs[i].id = id THEN [mrUi EXCEPT !.cur = id] ELSE mrUi)

\* Escape, a click elsewhere, the output going away, the lock screen.
MruCancel(shown) == Change(close(mrUi, shown))

\* Focuses the selected window, if it is still there.
MruConfirm(shown) ==
  /\ mrUi.state = "open" /\ mrUi' = close(mrUi, shown)
  /\ mrActive' = IF mrUi.cur = NoWin THEN mrActive ELSE mrUi.cur
  /\ UNCHANGED <<mrOpen, mrKbd, mrStamp, mrPending, mrNow, mrProfile>>

ClosingDone ==
  /\ mrUi.state = "closing" /\ mrUi' = MrClosed(mrUi.scope)
  /\ UNCHANGED <<mrOpen, mrActive, mrKbd, mrStamp, mrPending, mrNow, mrProfile>>

ScopeSet == {Scopes[i] : i \in 1..3}

MrNext ==
  \/ \E other \in BOOLEAN : mr_update_keyboard_focus(other)
  \/ mru_apply_keyboard_commit \/ FocusWindowPrevious \/ ClosingDone
  \/ \E w \in mrProfile.wins : \/ \E focus \in BOOLEAN : OpenWindow(w, focus)
                             \/ CloseWindow(w) \/ mr_pointer_motion(w)
  \/ \E w \in MrWin \union {NoWin} : Activate(w)
  \/ \E dir \in {"Forward", "Backward"}, scope \in ScopeSet \union {"none"}, filter \in Filters \union {"none"} :
       MruAdvance(dir, scope, filter)
  \/ MruFirst \/ MruLast \/ MruCycleScope \/ \E scope \in ScopeSet : MruSetScope(scope)
  \/ \E shown \in BOOLEAN : MruCancel(shown) \/ MruConfirm(shown)

MrSpec == MrInit /\ [][MrNext]_mrVars

(***************************************************************************)
(* Properties.                                                             *)
(***************************************************************************)
\* WindowMru::verify_invariants: the selection is one of the windows that scope
\* and filter let pass, and there is none only if none passes;
\* "window in the MRU must be present in the layout", and an empty switcher does
\* not stay open.
SelectionShown ==
  mrUi.state = "open" =>
    /\ mrUi.thumbs # <<>> /\ \A i \in DOMAIN mrUi.thumbs : mrUi.thumbs[i].id \in mrOpen
    /\ IF mrUi.cur = NoWin THEN thumbnails(mrUi) = {}
       ELSE \E i \in thumbnails(mrUi) : mrUi.thumbs[i].id = mrUi.cur

\* "The debounce delay prevents those intermediate windows from polluting the
\* recent windows list": a commit is for the window that has the focus.
CommitsFocused ==
  [][mrOpen' = mrOpen /\ mrKbd' = mrKbd => \A w \in MrWin : mrStamp'[w] # mrStamp[w] => w = mrKbd]_mrVars
=============================================================================
