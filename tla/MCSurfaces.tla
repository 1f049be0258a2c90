----------------------------- MODULE MCSurfaces -----------------------------
(***************************************************************************)
(* What has to appear together, for TLC: the session lock, which blanks    *)
(* all outputs before it says so, and the transactions that resize the     *)
(* windows of a column together.  The two have no state in common: a       *)
(* behaviour is one of one of them, chosen in the initial state.           *)
(*                                                                         *)
(* Two outputs, so that one can be drawn while the other still waits, and  *)
(* two lockers, so that one can be refused or can replace the other.  Two  *)
(* windows, and two transactions that may overlap.                         *)
(***************************************************************************)
EXTENDS SessionLock, Transaction, TLC

VARIABLE machine  \* the machine at work

SfInit == machine \in {"lock", "transactions"} /\ Init /\ TxInit

SfNext ==
    \/ machine = "lock" /\ Next /\ UNCHANGED <<machine, txVars>>
    \/ machine = "transactions" /\ TxNext /\ UNCHANGED <<machine, vars>>

SfSpec == SfInit /\ [][SfNext]_<<machine, vars, txVars>>

\* Outputs, lockers, windows and transactions are only compared with each other.
SfSymmetry ==
    Permutations(Outputs) \cup Permutations(Lockers) \cup Permutations(Windows) \cup Permutations(Txns)

=============================================================================
