------------------------------ MODULE Workflows ------------------------------
(***************************************************************************)
(* Approval workflows: definitions, their drafted and published graphs,    *)
(* the checks of publication, and the walk of an approval through the      *)
(* graph of the version it is pinned to.                                   *)
(*                                                                         *)
(* Writers of a definition lock its row, so each of them is one step.      *)
(* Starting an approval locks no definition: it resolves a version and     *)
(* keeps it, whatever is drafted, published or retired later.              *)
(*                                                                         *)
(* Abstracted: who may approve a step and how many have to (see            *)
(* Approvals); a condition to a free choice among the edges it can take.   *)
(***************************************************************************)
EXTENDS Organization

CONSTANTS
    Definition,     \* workflow definitions
    Doc,            \* documents that are approved
    TypeOf,         \* TypeOf[d]: the document type of document d
    Node,           \* the nodes of a graph
    Kind,           \* Kind[n]: "start", "condition", "approval" or "end"
    Start           \* the start node

ASSUME WorkflowsAssumption ==
    /\ Kind \in [Node -> {"start", "condition", "approval", "end"}]
    /\ {n \in Node : Kind[n] = "start"} = {Start}
    /\ Nowhere \notin Definition \cup Node
    /\ IsFiniteSet(Node)

VARIABLES
    definition,     \* definition[w]: workflow_definition and its versions
    instance,       \* instance[d]: the latest approval_instance of document d
    holders         \* the approver rules that name somebody

workflowVars == <<definition, instance, holders>>
organizationVars == <<orgLock, structureVars, calendarVars>>

\* A graph has nodes, edges [from, to, rule] with rule "always", "when" or "default", the approver
\* rule of each approval and the approvals that may repeat a rule.
NoDefinition == [status |-> "none", type |-> "none", scope |-> Org, versions |-> <<>>]
NoInstance == [status |-> "none", of |-> Nowhere, version |-> 0, node |-> Start, done |-> 0]

\* WorkflowGraph.structure, of every graph that is stored.
WellFormed(g) ==
    /\ g.nodes \subseteq Node /\ Start \in g.nodes /\ \E n \in g.nodes : Kind[n] = "end"
    /\ \A e \in g.edges : {e.from, e.to} \subseteq g.nodes

-----------------------------------------------------------------------------
(* check_graph *)

Next1(g, n) == {e.to : e \in {f \in g.edges : f.from = n}}
Prev1(g, n) == {e.from : e \in {f \in g.edges : f.to = n}}

\* incoming, as edges.
Reversed(edges) == {[from |-> e.to, to |-> e.from] : e \in edges}

\* reachable: what the edges lead to, the seeds included.
Reach(edges, seeds) ==
    LET R[k \in 0..Cardinality(Node)] ==
            IF k = 0 THEN seeds
            ELSE R[k - 1] \cup {e.to : e \in {f \in edges : f.from \in R[k - 1]}}
    IN  R[Cardinality(Node)]

Reached(g) == Reach(g.edges, {Start})
Finishes(g) == Reach(Reversed(g.edges), {n \in g.nodes : Kind[n] = "end"})

\* Tarjan's components, one per cycle: some node leads back to itself.
Cyclic(g) == \E n \in g.nodes : n \in Reach(g.edges, Next1(g, n))

Longest(ways) == IF ways = {} THEN 0 ELSE CHOOSE x \in ways : \A y \in ways : y <= x

\* The most approvals on a way from a node to an end, of a graph without cycles.
Depth(g, n) ==
    LET D[k \in 0..Cardinality(Node)] ==
            [m \in Node |->
                (IF Kind[m] = "approval" THEN 1 ELSE 0)
                + Longest(IF k = 0 THEN {} ELSE {D[k - 1][c] : c \in Next1(g, m) \cap Finishes(g)})]
    IN  D[Cardinality(Node)][n]

\* The approvals whose rule an approval on the way to them already has.
Repeats(g) ==
    {n \in g.nodes \cap Reached(g) \cap Finishes(g) :
        /\ Kind[n] = "approval"
        /\ \E m \in Reach(Reversed(g.edges), Prev1(g, n)) \cap Reached(g) :
              Kind[m] = "approval" /\ g.rule[m] = g.rule[n]}

\* The edges a condition, and the ones another step, may have.
Defaults(g, n) == {e \in g.edges : e.from = n /\ e.rule = "default"}

\* bad_out_degree, missing_default
BadEdges(g) ==
    {n \in g.nodes :
        \/ Kind[n] \in {"start", "approval"} /\ Cardinality({e \in g.edges : e.from = n}) # 1
        \/ Kind[n] = "condition" /\ Cardinality(Defaults(g, n)) # 1
        \/ Kind[n] # "condition" /\ \E e \in g.edges : e.from = n /\ e.rule # "always"}

\* unreachable, dead_end
Astray(g) ==
    {n \in g.nodes :
        \/ n \notin Reached(g)
        \/ n \notin Finishes(g)
        \/ Kind[n] # "end" /\ Next1(g, n) = {}}

\* validate_graph reads the limit of the organization, not of the unit.
MaxDepth == IF setting["max_depth"][Org] = Unset THEN SettingDefault["max_depth"]
            ELSE setting["max_depth"][Org]

\* The errors that refuse a publication.
Flawed(g) ==
    \/ Cyclic(g)
    \/ BadEdges(g) # {}
    \/ Astray(g) # {}
    \/ \E n \in g.nodes : Kind[n] = "approval" /\ g.rule[n] \notin holders
    \/ Depth(g, Start) > MaxDepth
    \/ Repeats(g) \ g.repeat # {}

\* The rows of a definition.  A version that is no draft has passed the checks of a graph, and
\* its depth the limit it was published under.
IsVersion(v) ==
    /\ v = [status |-> v.status, graph |-> v.graph, limit |-> v.limit]
    /\ WellFormed(v.graph) /\ v.limit \in Nat
    /\ v.status # "draft" => /\ ~Cyclic(v.graph) /\ BadEdges(v.graph) = {} /\ Astray(v.graph) = {}
                             /\ Depth(v.graph, Start) <= v.limit

IsDefinition(r) ==
    /\ r = [status |-> r.status, type |-> r.type, scope |-> r.scope, versions |-> r.versions]
    /\ Len(r.versions) \in Nat /\ r.versions = [k \in 1..Len(r.versions) |-> r.versions[k]]
    /\ \A k \in 1..Len(r.versions) : IsVersion(r.versions[k])
    /\ r.status = "none" => Len(r.versions) = 0

-----------------------------------------------------------------------------
(* WorkflowService *)

Live(w) == definition[w].status = "live"
Versions(w) == definition[w].versions
Drafts(w) == {k \in 1..Len(Versions(w)) : Versions(w)[k].status = "draft"}
Published(w) == {k \in 1..Len(Versions(w)) : Versions(w)[k].status = "published"}

\* create: one live definition of a document type and a scope.
CreateDefinition(w, type, scope) ==
    /\ definition[w].status = "none"
    /\ scope # Org => Exists(scope)
    /\ ~\E v \in Definition : Live(v) /\ definition[v].type = type /\ definition[v].scope = scope
    /\ definition' = [definition EXCEPT ![w] = [NoDefinition EXCEPT !.status = "live",
                                                                    !.type = type, !.scope = scope]]
    /\ UNCHANGED <<instance, holders>> /\ UNCHANGED organizationVars

\* create_version: one draft at a time, of a retired definition too.
CreateVersion(w, g) ==
    /\ definition[w].status # "none"
    /\ Drafts(w) = {}
    /\ definition' = [definition EXCEPT ![w].versions =
                         Append(@, [status |-> "draft", graph |-> g, limit |-> 0])]
    /\ UNCHANGED <<instance, holders>> /\ UNCHANGED organizationVars

\* Fault: the latest version is edited in place.
EditableLatest(w) == {k \in 1..Len(Versions(w)) : k = Len(Versions(w))}
\* What update_version and the trigger workflow_version_immutable leave open to edits.
Editable(w) == Drafts(w)

UpdateVersion(w, g) ==
    /\ \E k \in Editable(w) :
          /\ Versions(w)[k].graph # g
          /\ definition' = [definition EXCEPT ![w].versions[k].graph = g]
    /\ UNCHANGED <<instance, holders>> /\ UNCHANGED organizationVars

\* publish: the draft, once it has no errors and its warnings are acknowledged, takes the place of
\* the version published before.  `limit` is the depth it was checked against.
Publish(w, acknowledged) ==
    /\ \E k \in Drafts(w) :
          LET g == Versions(w)[k].graph IN
          /\ ~Flawed(g)
          /\ Repeats(g) = {} \/ acknowledged
          /\ definition' = [definition EXCEPT ![w].versions =
                [j \in DOMAIN @ |->
                    CASE j = k -> [@[j] EXCEPT !.status = "published", !.limit = MaxDepth]
                      [] j # k /\ @[j].status = "published" -> [@[j] EXCEPT !.status = "superseded"]
                      [] OTHER -> @[j]]]
    /\ UNCHANGED <<instance, holders>> /\ UNCHANGED organizationVars

\* retire: again is no change.
Retire(w) ==
    /\ Live(w)
    /\ definition' = [definition EXCEPT ![w].status = "retired"]
    /\ UNCHANGED <<instance, holders>> /\ UNCHANGED organizationVars

\* Roles and grants come and go.
ChangeHolders(rule) ==
    /\ holders' = IF rule \in holders THEN holders \ {rule} ELSE holders \cup {rule}
    /\ UNCHANGED <<definition, instance>> /\ UNCHANGED organizationVars

-----------------------------------------------------------------------------
(* Approvals.  They run in the transaction of a document, whose module says what else changes. *)

\* resolve_version: the definition of the business unit before the one of the organization.
Bound(type, scope) ==
    {w \in Definition : /\ Live(w) /\ Published(w) # {}
                        /\ definition[w].type = type /\ definition[w].scope = scope}

Resolve(type, bu) ==
    LET near == Bound(type, bu)
        found == IF near # {} THEN near ELSE Bound(type, Org)
    IN  IF found = {} THEN Nowhere ELSE CHOOSE w \in found : TRUE

\* require_workflow
HasWorkflow(type, bu) == Resolve(type, bu) # Nowhere

Graph(i) == definition[i.of].versions[i.version].graph

\* walk: on from a step through conditions to the next approval or end.  A condition takes an edge
\* whose rule is true, or the default one; a step with no edge to take blocks the route, and so
\* does a round of conditions that never ends.
Taken(g, n) ==
    IF Kind[n] = "condition" THEN {e.to : e \in {f \in g.edges : f.from = n /\ f.rule # "always"}}
    ELSE Next1(g, n)

Halts(g, n) == IF Kind[n] = "condition" THEN Defaults(g, n) = {} ELSE Taken(g, n) = {}

Walk(g, from) ==
    LET W[k \in 0..Cardinality(Node)] ==
            IF k = 0 THEN Taken(g, from)
            ELSE UNION {IF Kind[n] = "condition" THEN Taken(g, n) ELSE {n} : n \in W[k - 1]}
        met == UNION {W[k] : k \in DOMAIN W}
        stuck == \/ Halts(g, from) \/ \E n \in met : Kind[n] = "condition" /\ Halts(g, n)
                 \/ \E n \in W[Cardinality(Node)] : Kind[n] = "condition"
    IN  {n \in met : Kind[n] # "condition"} \cup IF stuck THEN {Nowhere} ELSE {}

\* Where a route goes on: an end is the outcome of the document.
Arrived(i, n) ==
    IF Kind[n] = "end" THEN [i EXCEPT !.node = n, !.status = "approved"] ELSE [i EXCEPT !.node = n]

\* start, in the transaction of its caller: pinned to the version resolved now.
StartApproval(d, bu) ==
    LET w == Resolve(TypeOf[d], bu) IN
    /\ instance[d].status # "running"
    /\ w # Nowhere
    /\ LET k == CHOOSE j \in Published(w) : TRUE
           i == [NoInstance EXCEPT !.status = "running", !.of = w, !.version = k]
       IN  \E n \in Walk(Graph(i), Start) \ {Nowhere} :
               instance' = [instance EXCEPT ![d] = Arrived(i, n)]
    /\ UNCHANGED <<definition, holders>>

\* start with resume_from: the version of the returned approval, and the step that returned it.
ResumeApproval(d) ==
    /\ instance[d].status = "returned"
    /\ instance' = [instance EXCEPT ![d].status = "running"]
    /\ UNCHANGED <<definition, holders>>

\* The decision that completes a step: advance, or the end of the approval.
Decide(d, outcome) ==
    /\ instance[d].status = "running"
    /\ LET i == instance[d] IN
       IF outcome = "approved"
       THEN \E n \in Walk(Graph(i), i.node) \ {Nowhere} :
               instance' = [instance EXCEPT ![d] = Arrived([i EXCEPT !.done = @ + 1], n)]
       ELSE instance' = [instance EXCEPT ![d].status = outcome]
    /\ UNCHANGED <<definition, holders>>

-----------------------------------------------------------------------------
(***************************************************************************)
(* An approval that runs can always run on.  Whatever has been edited,     *)
(* published and retired since it was started, every way from its step     *)
(* through the graph it is pinned to leads on to an approval or an end,    *)
(* and the approvals on its way stay within the limit of the time its      *)
(* version was published (publish, check_graph, update_version, walk).     *)
(***************************************************************************)
RoutesComplete ==
    \A d \in Doc : instance[d].status = "running" =>
        LET i == instance[d] IN
        /\ Kind[i.node] = "approval" /\ i.node \in Graph(i).nodes
        /\ Nowhere \notin Walk(Graph(i), i.node)
        /\ i.done < definition[i.of].versions[i.version].limit
=============================================================================
