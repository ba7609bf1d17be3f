------------------------------ MODULE MCPlotter ------------------------------
(* Instances of Plotter for TLC. *)
EXTENDS Plotter, TLC

\* Clusters are interchangeable (used by the safety runs only)
Symmetry == Permutations(Clusters)

\* Contents of different clusters are never compared, so the first one that a
\* cluster gets may be the same everywhere
CanonicalInit ==
    LET first == CHOOSE x \in Contents : TRUE
    IN  /\ Init
        /\ \A c \in Clusters, g \in Generations :
              (\A h \in 1 .. g - 1 : specs[h][c] = None) => specs[g][c] \in {first, None}

CanonicalSpec == CanonicalInit /\ [][Next]_vars

CanonicalLiveSpec == CanonicalSpec /\ Fairness
=============================================================================
