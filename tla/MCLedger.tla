------------------------------ MODULE MCLedger ------------------------------
(* Instances of Ledger for TLC. *)
EXTENDS Ledger, TLC

\* A single root project.
OneProject == {1}
OneParent == 1 :> 0
OneRoute == 1 :> (1 :> <<1>>)

\* A root, its child and its grandchild.
ChainProject == {1, 2, 3}
ChainParent == 1 :> 0 @@ 2 :> 1 @@ 3 :> 2
ChainRoute ==
    [p \in {1, 2, 3} |-> [q \in {1, 2, 3} |->
        IF p <= q THEN [i \in 1..(q - p + 1) |-> p + i - 1]
                  ELSE [i \in 1..(p - q + 1) |-> p - i + 1]]]

Symmetry == Permutations(Worker) \cup Permutations(Key)
=============================================================================
