------------------------------ MODULE MCLayout ------------------------------
(***************************************************************************)
(* Layout for model checking.  Outputs, windows and names are only compared*)
(* with each other, so permuting them is a symmetry.  So are workspace     *)
(* ids: the view replaces each by the place of its workspace, and a        *)
(* remembered id by the place it refers to, 0 if it refers to none.  The   *)
(* view leaves out a monitor's previous workspace: no property reads it,   *)
(* and the one action that does, SwitchWorkspacePrevious, takes a step     *)
(* that SwitchWorkspace can take as well.                                  *)
(*                                                                         *)
(* A behaviour has one of the setups, chosen in its initial state:         *)
(*                                                                         *)
(*   hotplug     a window and a named workspace on two outputs that come   *)
(*               and go                                                    *)
(*   above       two named workspaces on them, with an empty workspace     *)
(*               above the first one                                       *)
(*   everything  everything there is on one output with one window, while  *)
(*               empty-workspace-above-first changes                       *)
(*   across      gestures and drags of two windows between two outputs     *)
(*               that come and go                                          *)
(*                                                                         *)
(* What a setup does not use occurs in none of its states, so it does not  *)
(* break the symmetry.                                                     *)
(***************************************************************************)
EXTENDS Layout, TLC

CONSTANTS Setups, o1, o2, w1, w2, n1, n2

VARIABLE setup

Of == [hotplug    |-> [outs |-> {o1, o2}, wins |-> {w1}, names |-> {n1}, above |-> {FALSE}, max |-> 3],
       above      |-> [outs |-> {o1, o2}, wins |-> {}, names |-> {n1, n2}, above |-> {TRUE}, max |-> 4],
       everything |-> [outs |-> {o1}, wins |-> {w1}, names |-> {}, above |-> {FALSE, TRUE}, max |-> 5],
       across     |-> [outs |-> {o1, o2}, wins |-> {w1, w2}, names |-> {}, above |-> {FALSE}, max |-> 2]]

Fits ==
    LET s == Of[setup] IN
    /\ Connected \subseteq s.outs /\ mapped \subseteq s.wins /\ above \in s.above
    /\ NamesInUse \subseteq s.names \cup {None}
    /\ \A i \in DOMAIN monitors : Len(monitors[i].ws) <= s.max

SetupInit == setup \in Setups /\ Init /\ Fits

SetupNext ==
    /\ \/ HotplugNext
       \/ setup # "across" /\ ManageNext
       \/ setup \in {"everything", "across"} /\ DragNext
       \/ setup = "everything" /\ ConfigNext
    /\ UNCHANGED setup
    /\ Fits'

SetupSpec == SetupInit /\ [][SetupNext]_<<vars, setup>>

Symmetry == Permutations(Outputs) \cup Permutations(Windows) \cup Permutations(Names)

RECURSIVE From(_)
From(i) == IF i > Len(monitors) THEN orphans ELSE monitors[i].ws \o From(i + 1)

CanonView ==
    LET all == From(1)
        Place(id) ==
            IF \E k \in DOMAIN all : all[k].id = id THEN CHOOSE k \in DOMAIN all : all[k].id = id ELSE 0
    IN << setup,
          [k \in DOMAIN all |-> <<all[k].name, all[k].wins, all[k].own>>],
          [i \in DOMAIN monitors |->
              LET m == monitors[i] IN <<m.output, Len(m.ws), m.active, m.sw, m.ok>>],
          [o \in Outputs |-> Place(lastActive[o])],
          primary, activeMon, above, overview, move, dnd, mapped >>

=============================================================================
