----------------------------- MODULE ChainMirror -----------------------------
(***************************************************************************)
(* What following the chain promises to a reader of the index: the highest *)
(* indexed block moves to a child of itself or back to an ancestor of      *)
(* itself, and the index never loses genesis again.  A chain is the path   *)
(* of branches that leads to its tip; the empty path is an empty index.    *)
(* The promise ends with a tick that is cut short around a reorganisation. *)
(***************************************************************************)
EXTENDS Integers, Sequences, SequencesExt

CONSTANT Branch

VARIABLES chain, intact

vars == <<chain, intact>>

Init == intact = TRUE

Grow == \E b \in Branch : chain' = Append(chain, b)

RollBack == chain' # << >> /\ IsStrictPrefix(chain', chain)

Move == intact /\ intact' = TRUE /\ (Grow \/ RollBack)

Lose == intact' = FALSE

Next == Move \/ Lose

Spec == Init /\ [][Next]_vars
=============================================================================
