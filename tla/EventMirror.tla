---------------------------- MODULE EventMirror ----------------------------
(***************************************************************************)
(* What an IPC event stream promises: every subscriber holds a mirror that *)
(* walks through published states in order, never misses the last one and  *)
(* is cut off rather than left behind.                                     *)
(***************************************************************************)
EXTENDS Sequences, SequencesExt

CONSTANTS Clients
VARIABLES published,   \* the state that was published last
          link,        \* client -> "none", "live", "gone" or "cut"
          mirror,      \* client -> the state it holds
          ahead        \* client -> the states it has still to go through

mirrorVars == <<published, link, mirror, ahead>>

Latest(c) == IF ahead[c] = <<>> THEN mirror[c] ELSE Last(ahead[c])

MirrorInit == link = [c \in Clients |-> "none"]

Subscribe(c) ==
  /\ link[c] = "none" /\ link' = [link EXCEPT ![c] = "live"]
  /\ Latest(c)' = published
  /\ \A d \in Clients \ {c} : UNCHANGED <<mirror[d], ahead[d]>>
  /\ UNCHANGED published

Publish ==
  /\ \A c \in Clients :
       /\ UNCHANGED mirror[c]
       /\ \/ link[c] = "live" /\ link'[c] = "live"
             /\ IsPrefix(ahead[c], ahead'[c]) /\ Latest(c)' = published'
          \/ link[c] = "live" /\ link'[c] = "cut"
          \/ link[c] = "gone" /\ link'[c] = "none" /\ UNCHANGED ahead[c]
          \/ link[c] # "live" /\ UNCHANGED <<link[c], ahead[c]>>

Follow(c) ==
  /\ link[c] = "live" /\ ahead[c] # <<>>
  /\ mirror' = [mirror EXCEPT ![c] = Head(ahead[c])]
  /\ ahead' = [ahead EXCEPT ![c] = Tail(ahead[c])]
  /\ UNCHANGED <<published, link>>

HangUp(c) ==
  /\ link[c] = "live" /\ link' = [link EXCEPT ![c] = "gone"]
  /\ \A d \in Clients \ {c} : UNCHANGED <<mirror[d], ahead[d]>>
  /\ UNCHANGED published

MirrorNext == Publish \/ \E c \in Clients : Subscribe(c) \/ Follow(c) \/ HangUp(c)

MirrorSpec == MirrorInit /\ [][MirrorNext]_mirrorVars
=============================================================================
