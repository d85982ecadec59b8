------------------------------- MODULE MCBlocks -------------------------------
(* Blocks on a small instance. *)
EXTENDS Blocks

CONSTANTS
    MaxLag,    \* bound: the markers scanned and not yet applied
    MaxBoth    \* bound: prompts and cut-off sequences together

ASSUME MCAssumption == MaxLag \in Nat \ {0} /\ MaxBoth \in Nat

\* How late a marker is applied changes nothing of what Apply does with it.
Bounded == Len(scanner.out) - applied <= MaxLag /\ prompts + cuts <= MaxBoth

MCSpec == Init /\ [][Next /\ Bounded']_vars
===============================================================================
