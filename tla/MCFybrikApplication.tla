------------------------- MODULE MCFybrikApplication -------------------------
(* Instances of FybrikApplication for TLC. *)
EXTENDS FybrikApplication, TLC

\* Assets are interchangeable (used without Cataloged, and for safety only)
Symmetry == Permutations(Assets)

\* An application that has dropped all its data does not ask for data again
NeverRefilledInit ==
    /\ Init
    /\ \A g, h \in Generations :
          (g < h /\ specs[g].data # {} /\ specs[h].data = {}) =>
              \A k \in h .. MaxGeneration : specs[k].data = {}

NeverRefilledSpec == NeverRefilledInit /\ [][Next]_vars

\* The second version of the application replaces its asset by another one
MovingInit ==
    /\ Init
    /\ \A g \in Generations : specs[g].valid
    /\ \E old, new \in Assets :
          /\ old # new
          /\ \A g \in Generations : specs[g].data = {IF g = 1 THEN old ELSE new}

\* What happens after the deletion of the application, or after an error of the
\* plotter, is left to the other runs
NotDeleted == ~app.deleting /\ plotter.state # "error"

MovingSpec == MovingInit /\ [][Next]_vars

\* The first version is valid and asks for data; the others may be any
UpdatedInit == NeverRefilledInit /\ specs[1].valid /\ specs[1].data # {}

UpdatedLiveSpec == UpdatedInit /\ [][Next]_vars /\ Fairness
=============================================================================
