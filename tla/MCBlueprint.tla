----------------------------- MODULE MCBlueprint -----------------------------
(* Instances of Blueprint for TLC. *)
EXTENDS Blueprint, TLC

\* The instance names are interchangeable (used by the safety runs only)
Symmetry == Permutations(Instances)

\* Liveness is checked for one history of the spec that makes every operation
\* happen: all modules are installed, then one is upgraded and the others are
\* uninstalled
ShrinkingInit ==
    /\ Init
    /\ specs = [g \in Generations |->
                   IF g = 1 THEN Instances ELSE {CHOOSE i \in Instances : TRUE}]

ShrinkingLiveSpec == ShrinkingInit /\ [][Next]_vars /\ Fairness
=============================================================================
