----------------------------- MODULE MCIdentity -----------------------------
(***************************************************************************)
(* Identity and Access for TLC.  Access decides from the committed tables  *)
(* alone, so the behaviours that write them follow nothing else.           *)
(***************************************************************************)
EXTENDS Identity, Access, TLC

CONSTANTS r1, r2, admin, user, guest

\* Every request has an address of its own.
Clients == [r \in Request |-> r]

\* The families that meet in one behaviour; all of them at once are too many.
FamilyMixes ==
    {[families |-> {"login", "revoke", "reset", "deactivate"}, requests |-> 4],
     [families |-> {"login", "select", "clock"}, requests |-> 4],
     [families |-> {"login", "wrong", "clock"}, requests |-> 4],
     [families |-> {"login", "mfa", "roles"}, requests |-> 5],
     [families |-> {"login", "mfa", "deactivate"}, requests |-> 4],
     [families |-> {"reset", "clock"}, requests |-> 4],
     [families |-> {"accept", "wrong", "clock"}, requests |-> 4],
     [families |-> {"accept", "login"}, requests |-> 4],
     [families |-> {"accept", "roles", "deactivate"}, requests |-> 4],
     [families |-> {"access"}, requests |-> 0]}

IdentityInit == Init /\ AccessInit

IdentityNext ==
    \/ ~Family("access") /\ Next /\ UNCHANGED accessVars
    \/ Family("access") /\ AccessNext /\ UNCHANGED vars

IdentitySpec == IdentityInit /\ [][IdentityNext]_<<vars, accessVars>>

Symmetry == Permutations(Request) \cup Permutations(Plan)
=============================================================================
