----------------------------- MODULE MCImports -----------------------------
(* Instance of Imports for TLC. *)
EXTENDS Imports

CONSTANTS j1, j2, j3, allocations, projects, manyProjects

\* One job is retried once, the others give up at once.
Attempts == [j \in Job |-> IF j = j2 THEN 2 ELSE 1]

\* The second row names the first as its parent.
Parents == [r \in Row |-> r - 1]

Templates == [f \in File |-> IF f = allocations THEN "budget_allocations" ELSE "projects"]

\* The small files have a mapping under which the last row is not valid.
FileMappings == [f \in File |-> IF f \in Large THEN {{}} ELSE {{}, {Rows}}]
=============================================================================
