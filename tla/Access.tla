------------------------------- MODULE Access -------------------------------
(***************************************************************************)
(* Effective permissions in one organization: roles with permissions,      *)
(* assignments of roles at a scope, the containment of scopes, and the     *)
(* queries that decide a request and list the holders of a permission.     *)
(*                                                                         *)
(* The recursive query is translated as it runs, row by row; what it       *)
(* should answer is stated apart from it, over the chain of a target.      *)
(* Every check reads the committed tables: nothing is cached.              *)
(***************************************************************************)
EXTENDS Naturals, FiniteSets

CONSTANTS
    User, RoleId, Permission,
    Unit, Plan,     \* scopes of type "bu" and "project"
    Company,        \* the organization's scope
    MaxToday,       \* bound: the clock
    MaxAssigned     \* bound: assignments at a time

ASSUME AccessAssumption ==
    /\ Company \notin Unit \cup Plan
    /\ Unit \cap Plan = {}
    /\ IsFiniteSet(Unit \cup Plan)
    /\ {MaxToday, MaxAssigned} \subseteq Nat

VARIABLES
    within,     \* authorization_scope: within[s] = [parent, roll], for registered scopes
    allows,     \* allows[r]: the permissions of role r
    assigned,   \* user_role: [user, role, scope, from]
    activeUser, \* identities with status "active"
    date        \* the current time

accessVars == <<within, allows, assigned, activeUser, date>>

Scope == Unit \cup Plan \cup {Company}

Registered == DOMAIN within

AccessInit ==
    /\ within = [s \in {} |-> [parent |-> Company, roll |-> TRUE]]
    /\ allows = [r \in RoleId |-> {}]
    /\ assigned = {}
    /\ activeUser = User
    /\ date = 0

-----------------------------------------------------------------------------
(* Operations.                                                               *)

\* A unit is directly under the organization, a project under a unit or another project.
RightParent(s, parent) ==
    \/ s \in Unit /\ parent = Company
    \/ s \in Plan /\ parent \in Registered \ {s}

\* register_scope: a new scope, or another place for one that is there.
RegisterScope(s, parent, roll) ==
    /\ RightParent(s, parent)
    /\ within' = [t \in Registered \cup {s} |->
                     IF t = s THEN [parent |-> parent, roll |-> roll] ELSE within[t]]
    /\ UNCHANGED <<allows, assigned, activeUser, date>>

\* grant_permission and revoke_permission.
TogglePermission(r, p) ==
    /\ allows' = [allows EXCEPT ![r] = IF p \in @ THEN @ \ {p} ELSE @ \cup {p}]
    /\ UNCHANGED <<within, assigned, activeUser, date>>

Assignments(u, r, s) == {a \in assigned : a.user = u /\ a.role = r /\ a.scope = s}

\* grant_role: at the organization or a registered scope; a second grant of the role at
\* the scope leaves the first as it is, its effective date included.
AssignRole(u, r, s, from) ==
    /\ s \in Registered \cup {Company}
    /\ Assignments(u, r, s) = {}
    /\ Cardinality(assigned) < MaxAssigned
    /\ assigned' = assigned \cup {[user |-> u, role |-> r, scope |-> s, from |-> from]}
    /\ UNCHANGED <<within, allows, activeUser, date>>

\* revoke_role
UnassignRole(a) ==
    /\ assigned' = assigned \ {a}
    /\ UNCHANGED <<within, allows, activeUser, date>>

Leave(u) ==
    /\ u \in activeUser
    /\ activeUser' = activeUser \ {u}
    /\ UNCHANGED <<within, allows, assigned, date>>

NextDate ==
    /\ date < MaxToday
    /\ date' = date + 1
    /\ UNCHANGED <<within, allows, assigned, activeUser>>

AccessNext ==
    \/ \E s \in Unit \cup Plan, parent \in Scope, roll \in BOOLEAN : RegisterScope(s, parent, roll)
    \/ \E r \in RoleId, p \in Permission : TogglePermission(r, p)
    \/ \E u \in User, r \in RoleId, s \in Scope, from \in 0..MaxToday : AssignRole(u, r, s, from)
    \/ \E a \in assigned : UnassignRole(a)
    \/ \E u \in User : Leave(u)
    \/ NextDate

AccessSpec == AccessInit /\ [][AccessNext]_accessVars

-----------------------------------------------------------------------------
(* The queries.                                                              *)

\* Fault: only the last edge of the way up is looked at.
LastEdgeOnly(row) == [scope |-> within[row.scope].parent,
                      grants |-> within[row.scope].roll \/ within[row.scope].parent \notin Plan]

\* One step of the recursion: the parent, and whether a grant on a project still counts.
ParentRow(row) == [scope |-> within[row.scope].parent,
                   grants |-> row.grants
                              /\ (within[row.scope].parent \in Plan => within[row.scope].roll)]

\* ancestors: the rows the recursive query collects, a set, so each is found once.
Ancestors(target) ==
    LET Rows[n \in 0..Cardinality(Scope)] ==
            IF n = 0 THEN {[scope |-> target, grants |-> TRUE]}
            ELSE Rows[n - 1] \cup {ParentRow(row) : row \in {x \in Rows[n - 1] : x.scope \in Registered}}
    IN  Rows[Cardinality(Scope)]

\* eligible_grants
EligibleGrants(target) ==
    {a \in assigned :
        /\ a.from <= date
        /\ \/ a.scope = Company
           \/ \E row \in Ancestors(target) :
                 row.scope = a.scope /\ (a.scope \in Plan => row.grants)}

\* check: what the two EXISTS answer.
ScopeMatched(u, target) == \E a \in EligibleGrants(target) : a.user = u

Check(u, p, target) == \E a \in EligibleGrants(target) : a.user = u /\ p \in allows[a.role]

\* _decide: a target the user has no grant on is concealed, unless it is the organization.
Decide(u, p, target) ==
    CASE Check(u, p, target) -> "allowed"
      [] ~Check(u, p, target) /\ ~ScopeMatched(u, target) /\ target # Company -> "not found"
      [] OTHER -> "forbidden"

\* _holders, for a permission.
Holders(p, target) ==
    {u \in activeUser : \E a \in EligibleGrants(target) : a.user = u /\ p \in allows[a.role]}

-----------------------------------------------------------------------------
(* Properties.                                                               *)

\* The scopes on the way up from a target, as far as the edges of `open` lead.
Upwards(target, open) ==
    LET Up[n \in 0..Cardinality(Scope)] ==
            IF n = 0 THEN {target}
            ELSE Up[n - 1] \cup {within[s].parent : s \in Up[n - 1] \cap open}
    IN  Up[Cardinality(Scope)]

\* What containment should mean: a grant at the organization or a unit reaches all that
\* is below it; a grant on a project reaches what is below it along edges that roll down.
Reaches(scope, target) ==
    \/ scope = Company
    \/ scope \in Upwards(target, IF scope \in Plan THEN {s \in Registered : within[s].roll}
                                ELSE Registered)

\* The queries agree with that meaning and with each other in every state of roles,
\* scopes and dates: a request is allowed exactly to those a current grant reaches, the
\* holders of a permission are the active people who would be allowed, and a scope is
\* not confirmed to exist to somebody whom no grant reaches.
AccessAgrees ==
    \A u \in User, target \in Registered \cup {Company} :
        LET reaching == {a \in assigned : a.user = u /\ a.from <= date /\ Reaches(a.scope, target)}
        IN  \A p \in Permission :
              LET allowed == \E a \in reaching : p \in allows[a.role]
              IN  /\ (Decide(u, p, target) = "allowed") = allowed
                  /\ (u \in Holders(p, target)) = (allowed /\ u \in activeUser)
                  /\ Decide(u, p, target) = "forbidden" => reaching # {} \/ target = Company
=============================================================================
