--------------------------- MODULE MCRequisitions ---------------------------
(* Instances of Requisitions for TLC. *)
EXTENDS Requisitions, TLC

CONSTANTS r1, r2, r3, m1, m2, w1, w2

AllFunds == [m \in Main |-> 3]

\* What meets in one behaviour; all of it at once is too much.
FamilyMixes ==
    {[reqs |-> {r1}, families |-> {"move", "text"}, versions |-> 7],
     [reqs |-> {r1}, families |-> {"amend"}, versions |-> 7],
     [reqs |-> {r1}, families |-> {"amend", "text"}, versions |-> 5],
     [reqs |-> {r1}, families |-> {"amend", "codes"}, versions |-> 5],
     [reqs |-> {r1}, families |-> {"projects", "text"}, versions |-> 5],
     [reqs |-> {r3}, families |-> {"projects"}, versions |-> 6],
     [reqs |-> {r3}, families |-> {"amend"}, versions |-> 5],
     [reqs |-> {r1, r2}, families |-> {}, versions |-> 5]}

Symmetry == Permutations(Worker) \cup Permutations(Main)
=============================================================================
