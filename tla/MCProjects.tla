----------------------------- MODULE MCProjects -----------------------------
(* Instances of Projects for TLC. *)
EXTENDS Projects, TLC

CONSTANTS u1, u2, w1, w2, q1, c1, c2, start, test, first, second, end

Types == [d \in Doc |-> IF d \in Project THEN "project"
                        ELSE IF d \in Request THEN "budget_change" ELSE "requisition"]

Kinds == [n \in Node |-> CASE n = start -> "start" [] n = test -> "condition"
                           [] n = end -> "end" [] OTHER -> "approval"]

Edge(from, to, rule) == [from |-> from, to |-> to, rule |-> rule]

\* Drafts: some edges of a route with two approvals and a condition between them, with approvers
\* that differ, and that repeat with and without leave.
Candidates ==
    {Edge(start, first, "always"), Edge(start, test, "always"), Edge(first, test, "always"),
     Edge(test, second, "when"), Edge(test, end, "default"), Edge(second, end, "always"),
     Edge(second, test, "always")}

Rules == [n \in Node |-> IF n = second THEN "board" ELSE "managers"]
Drafted(edges, rule, repeat) ==
    [nodes |-> {start, end} \cup {e.from : e \in edges} \cup {e.to : e \in edges},
     edges |-> edges, rule |-> rule, repeat |-> repeat]
AllDrafts ==
    {Drafted(edges, Rules, {}) : edges \in SUBSET Candidates}
    \cup {Drafted(Candidates \ {Edge(start, test, "always"), Edge(second, test, "always")},
                  [n \in Node |-> "managers"], repeat) : repeat \in {{}, {second}}}

\* Workflows in force from the start: one approval, or none.
OneApproval == Drafted({Edge(start, first, "always"), Edge(first, end, "always")}, Rules, {})
NoApproval == Drafted({Edge(start, end, "always")}, Rules, {})
InForce(type, graph) ==
    [status |-> "live", type |-> type, scope |-> Org,
     versions |-> <<[status |-> "published", graph |-> graph, limit |-> 10]>>]

NoWorkflows == [w \in Definition |-> NoDefinition]
Workflow(type, graph) == [NoWorkflows EXCEPT ![w1] = InForce(type, graph)]

Units(parent) ==
    [u \in Unit |-> [status |-> IF u \in DOMAIN parent THEN "active" ELSE "none",
                     parent |-> IF u \in DOMAIN parent THEN parent[u] ELSE Nowhere]]
OneUnit == Units([u \in {u1} |-> Nowhere])
TwoUnits == Units([u \in {u1, u2} |-> IF u = u2 THEN u1 ELSE Nowhere])

\* Nothing but one unit; every mix names what it adds.
Bare == [families |-> {}, unit |-> OneUnit, definition |-> NoWorkflows, codes |-> {"A"},
         names |-> {w1}, types |-> {}, graphs |-> {}, versions |-> 0, projects |-> 0, requests |-> 0]

\* Graphs for approvals of two versions of two definitions.
Choice == Drafted(Candidates \ {Edge(start, test, "always"), Edge(second, test, "always")}, Rules, {})
Circle == Drafted(Candidates \ {Edge(start, test, "always"), Edge(second, end, "always")}, Rules, {})

Clients == Permutations(Client)

\* What meets in one behaviour; all of it at once is too much.
FamilyMixes ==
    {[Bare EXCEPT !.families = {"calendar"}],
     [Bare EXCEPT !.families = {"units", "numbers"}, !.unit = Units(<<>>), !.projects = 2],
     [Bare EXCEPT !.families = {"codes", "edits"}, !.codes = Code, !.projects = 2],
     [Bare EXCEPT !.families = {"trees"}, !.projects = 7],
     [Bare EXCEPT !.families = {"workflows", "documents", "depth"}, !.types = {"requisition"},
                  !.graphs = AllDrafts, !.versions = 1],
     [Bare EXCEPT !.families = {"workflows", "redrafts", "documents"}, !.types = {"requisition"},
                  !.graphs = {OneApproval, Choice, Circle}, !.versions = 2],
     [Bare EXCEPT !.families = {"workflows", "documents"}, !.types = {"requisition"},
                  !.names = Definition, !.graphs = {OneApproval}, !.versions = 1],
     [Bare EXCEPT !.families = {"plans"}, !.projects = 2],
     [Bare EXCEPT !.families = {"life", "plans"}, !.projects = 1,
                  !.definition = Workflow("project", OneApproval)],
     [Bare EXCEPT !.families = {"budget"}, !.projects = 2, !.requests = 12,
                  !.definition = Workflow("budget_change", OneApproval)],
     [Bare EXCEPT !.families = {"budget"}, !.projects = 2, !.requests = 11,
                  !.definition = Workflow("budget_change", NoApproval)]}
    \cup {[Bare EXCEPT !.families = {"life", "workflows"}, !.projects = 1, !.types = {"project"},
                       !.definition = Workflow("project", g), !.graphs = {g}, !.versions = 2] :
             g \in {OneApproval, NoApproval}}
=============================================================================
