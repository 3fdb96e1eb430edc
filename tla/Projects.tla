------------------------------- MODULE Projects -------------------------------
(***************************************************************************)
(* Projects: their numbers and hierarchy, their life from draft to end     *)
(* with the approval in between, their schedule and risks, and the         *)
(* requests that change their budgets once approved.                       *)
(*                                                                         *)
(* A command that locks the project row before it reads is one step.  Two  *)
(* kinds of transaction are two steps each, with other steps in between: a *)
(* schedule or risk write, under the project row's lock (shared for        *)
(* risks), and a budget change request, under the organization's lock.     *)
(*                                                                         *)
(* Abstracted: the ledger to the funds of each project and which of them   *)
(* have an entry (see Ledger), in amounts of one unit, which an adjustment *)
(* takes away; permissions and what keeps a project from closing are left  *)
(* out.                                                                    *)
(***************************************************************************)
EXTENDS Workflows

CONSTANTS
    Project,        \* projects, named in the order they are created
    ProjectLevels,  \* levels of projects: 5
    WalkGuard,      \* the nodes a recursive walk visits at most: 6
    Request,        \* budget change requests, known by their idempotency keys
    Mixes,          \* bound: the commands that meet in one behaviour
    MaxProjectVersion,  \* bound
    MaxRows         \* bound: rows of a schedule

ASSUME ProjectsAssumption ==
    /\ Project \cup Request \subseteq Doc
    /\ Project \cup Request \subseteq Nat /\ Project \cap Request = {}
    /\ Nowhere \notin Doc
    /\ ProjectLevels \in Nat \ {0} /\ WalkGuard \in Nat /\ ProjectLevels <= WalkGuard
    /\ \A m \in Mixes :
          /\ m.unit \in [Unit -> [status : UnitStatus, parent : Unit \cup {Nowhere}]]
          /\ \A u \in Unit : m.unit[u].status # "none" /\ m.unit[u].parent # Nowhere =>
                m.unit[m.unit[u].parent].status # "none"
          /\ m.names \subseteq Definition
          /\ m.definition = [w \in Definition |-> m.definition[w]]
          /\ \A w \in Definition : IsDefinition(m.definition[w])
          /\ \A g \in m.graphs : WellFormed(g)

VARIABLES
    mix,            \* the commands of this behaviour, and the units and workflows it starts with
    project,        \* project[p]
    plan,           \* plan[p]: its phases, milestones and risks
    funds,          \* funds[p]: allocated and not reserved
    entered,        \* the projects that have a ledger entry
    request,        \* request[r]: budget_change_request
    posted,         \* posted[r]: the postings under key bcr:r
    tx              \* tx[c]: the transaction client c has open

projectVars == <<project, plan>>
budgetVars == <<funds, entered, request, posted>>
vars == <<mix, tx, projectVars, budgetVars, workflowVars, organizationVars>>

In(family) == family \in mix.families

NoProject == [status |-> "none", version |-> 0, parent |-> Nowhere, depth |-> 0, root |-> Nowhere,
              bu |-> Nowhere, code |-> Nowhere, number |-> <<>>, ref |-> FALSE]
EmptyPlan == [phases |-> {}, milestones |-> 0, risk |-> 0]
NoRequest == [status |-> "none", kind |-> "none", project |-> Nowhere, to |-> Nowhere,
              from |-> Nowhere]
Idle == [op |-> "none", project |-> Nowhere, request |-> Nowhere, row |-> NoRequest]

Created(p) == project[p].status # "none"
Ended == {"completed", "abandoned"}

\* Who waits for the row lock of a project.
RowFree(p) == \A c \in Client : tx[c].project # p
RowShared(p) == \A c \in Client : tx[c].project = p => tx[c].op = "risk"

-----------------------------------------------------------------------------
(* Creation and hierarchy *)

\* create and _insert_project.  The number is taken on another connection, so a creation that then
\* fails, on a number the unit already has or on a reference in use, still uses it up.
Creatable(p, parent, bu, code) ==
    /\ Exists(bu) /\ Usable(code)
    /\ parent # Nowhere => Created(parent) /\ project[parent].depth < ProjectLevels

Duplicate(bu) == \E q \in Project : project[q].bu = bu /\ project[q].number = NextNumber(bu)

\* enforce_project_hierarchy: depth and root follow from the parent, for good.
Placed(row, p, parent) ==
    IF parent = Nowhere THEN [row EXCEPT !.depth = 1, !.root = p]
    ELSE [row EXCEPT !.parent = parent, !.depth = project[parent].depth + 1,
                     !.root = project[parent].root]

CreateProject(p, parent, bu, code) ==
    /\ ~Created(p)
    /\ Creatable(p, parent, bu, code)
    /\ numbering' = CountUp(bu)
    /\ project' = IF Duplicate(bu) THEN project
                  ELSE [project EXCEPT ![p] =
                          Placed([NoProject EXCEPT !.status = "draft", !.version = 1, !.bu = bu,
                                                   !.code = code, !.number = NextNumber(bu)],
                                 p, parent)]
    /\ UNCHANGED <<mix, tx, plan, budgetVars, workflowVars, calendarVars, orgLock, unit, setting,
                   master>>

\* update: any status; an external reference is set once and belongs to one project.
UpdateProject(p, ref) ==
    /\ Created(p) /\ RowFree(p)
    /\ project[p].version < MaxProjectVersion
    /\ ref => ~\E q \in Project \ {p} : project[q].ref
    /\ project[p].ref => ref
    /\ project' = [project EXCEPT ![p].version = @ + 1, ![p].ref = ref]
    /\ UNCHANGED <<mix, tx, plan, budgetVars, workflowVars, organizationVars>>

\* substitute_project: another code for one that is no longer usable; no new version.
SubstituteCode(p, code) ==
    /\ Created(p) /\ RowFree(p)
    /\ ~Usable(project[p].code) /\ Usable(code)
    /\ project' = [project EXCEPT ![p].code = code]
    /\ UNCHANGED <<mix, tx, plan, budgetVars, workflowVars, organizationVars>>

ParentOf == [p \in Project |-> project[p].parent]

\* Fault: the walk stops short.
UpwardShort(p) == Ascent(ParentOf, WalkGuard - 2, p)
\* Hierarchy.walk upward: a project and its ancestors, nearest first, at most WalkGuard of them.
Upward(p) == Ascent(ParentOf, WalkGuard, p)

Upto(s, q) == SubSeq(s, 1, (CHOOSE k \in 1..Len(s) : s[k] = q) - 1)

\* common_path: the first project on the way up from a that is also above b.
CommonPath(a, b) ==
    LET above == {k \in 1..Len(Upward(a)) : \E j \in 1..Len(Upward(b)) : Upward(b)[j] = Upward(a)[k]}
    IN  IF above = {} THEN [up |-> <<>>, lca |-> Nowhere, down |-> <<>>]
        ELSE LET lca == Upward(a)[CHOOSE k \in above : \A j \in above : k <= j]
                 down == Upto(Upward(b), lca)
             IN  [up |-> Upto(Upward(a), lca), lca |-> lca,
                  down |-> [k \in 1..Len(down) |-> down[Len(down) + 1 - k]]]

-----------------------------------------------------------------------------
(* The life of a project *)

\* Lifecycle.write
Moved(row, to) == [row EXCEPT !.status = to, !.version = @ + 1]

\* TRANSITIONS, less the submission and the two that only an approval takes.
Step == {<<"draft", "abandoned">>, <<"active", "deferred">>, <<"deferred", "active">>,
         <<"active", "completed">>, <<"active", "abandoned">>, <<"deferred", "abandoned">>}

\* Fault: a project that waits for its approval may be taken back by hand.
ByHandAlways(p) == {<<"approval_pending", "active">>, <<"approval_pending", "draft">>}
\* evaluate: these two are left to the approval while one runs.
ByHand(p) ==
    IF instance[p].status = "running" THEN {}
    ELSE {<<"approval_pending", "active">>, <<"approval_pending", "draft">>}

\* transition, but for the submission.
Transition(p, to) ==
    LET from == project[p].status IN
    /\ Created(p) /\ RowFree(p)
    /\ project[p].version < MaxProjectVersion
    /\ <<from, to>> \in Step \cup ByHand(p)
    /\ project' = [project EXCEPT ![p] = Moved(@, to)]
    /\ UNCHANGED <<mix, tx, plan, budgetVars, workflowVars, organizationVars>>

\* ProjectAdapter.on_outcome, approval_outcome
ProjectOutcome(row, outcome) ==
    CASE outcome = "running" -> row
      [] outcome = "approved" -> Moved(row, "active")
      [] OTHER -> Moved(row, "draft")

\* transition_project to approval_pending: the status, then start, in one transaction.
SubmitProject(p) ==
    /\ project[p].status = "draft" /\ RowFree(p)
    /\ project[p].version < MaxProjectVersion
    /\ HasWorkflow("project", project[p].bu)
    /\ StartApproval(p, project[p].bu)
    /\ project' = [project EXCEPT ![p] =
                     ProjectOutcome(Moved(@, "approval_pending"), instance'[p].status)]
    /\ UNCHANGED <<mix, tx, plan, budgetVars, organizationVars>>

\* A decision or a withdrawal, with the document's part in it.
DecideProject(p, outcome) ==
    /\ RowFree(p)
    /\ project[p].status = "approval_pending"
    /\ Decide(p, outcome)
    /\ project' = [project EXCEPT ![p] = ProjectOutcome(@, instance'[p].status)]
    /\ UNCHANGED <<mix, tx, plan, budgetVars, organizationVars>>

-----------------------------------------------------------------------------
(* Schedule and risks *)

\* Fault: the status is read without the lock.
UnheldRow(op, p) == Nowhere
\* The project row is locked until the write commits: FOR UPDATE, and FOR SHARE for a risk.
HeldRow(op, p) == p

\* Schedule._project, RiskService._project
BeginPlan(c, op, p) ==
    /\ tx[c].op = "none"
    /\ Created(p)
    /\ IF op = "risk" THEN RowShared(p) ELSE RowFree(p)
    /\ project[p].status \notin Ended
    /\ tx' = [tx EXCEPT ![c] = [Idle EXCEPT !.op = op, !.project = HeldRow(op, p), !.row.to = p]]
    /\ UNCHANGED <<mix, projectVars, budgetVars, workflowVars, organizationVars>>

\* A phase takes a free sequence, the next one by default, and may stand for a child project that
\* no other phase stands for.
PhaseFits(p, row) ==
    /\ \A f \in plan[p].phases : f.sequence # row.sequence
    /\ row.child # Nowhere =>
          /\ project[row.child].parent = p
          /\ \A q \in Project : \A f \in plan[q].phases : f.child # row.child

WritePhase(c, sequence, child) ==
    LET p == tx[c].row.to
        row == [sequence |-> sequence, child |-> child]
    IN  /\ tx[c].op = "phase"
        /\ plan' = IF PhaseFits(p, row) THEN [plan EXCEPT ![p].phases = @ \cup {row}] ELSE plan
        /\ tx' = [tx EXCEPT ![c] = Idle]
        /\ UNCHANGED <<mix, project, budgetVars, workflowVars, organizationVars>>

WriteMilestone(c) ==
    LET p == tx[c].row.to IN
    /\ tx[c].op = "milestone"
    /\ plan' = [plan EXCEPT ![p].milestones = IF @ < MaxRows THEN @ + 1 ELSE @]
    /\ tx' = [tx EXCEPT ![c] = Idle]
    /\ UNCHANGED <<mix, project, budgetVars, workflowVars, organizationVars>>

WriteRisk(c) ==
    LET p == tx[c].row.to IN
    /\ tx[c].op = "risk"
    /\ plan' = [plan EXCEPT ![p].risk = IF @ < MaxRows THEN @ + 1 ELSE @]
    /\ tx' = [tx EXCEPT ![c] = Idle]
    /\ UNCHANGED <<mix, project, budgetVars, workflowVars, organizationVars>>

-----------------------------------------------------------------------------
(* Budget changes *)

\* mode_for: the mode of the business unit of the root.
ModeFor(p) == Effective(project[project[p].root].bu, "funding_mode")

\* plan_allocation, planned_parent: the parent an allocation draws on, or nothing.
PlannedParent(p) == IF ModeFor(p) = "roll_down" THEN project[p].parent ELSE Nowhere

\* plan_legs: who receives, hop by hop, what one project gives another; siblings and roll-up
\* projects give directly.
Siblings(p, q) == project[p].parent = project[q].parent /\ project[p].depth = project[q].depth

Receivers(p, q) ==
    LET path == CommonPath(p, q)
        hops == path.up \o <<path.lca>> \o path.down
    IN  IF Siblings(p, q) \/ ModeFor(p) = "roll_up" THEN {q}
        ELSE {hops[k] : k \in 2..Len(hops)}

\* The checks of allocate, transfer and adjust, for one unit of money.
Postable(row) ==
    LET p == row.project IN
    CASE row.kind = "allocation" ->
           /\ project[p].status \in {"draft", "active"}
           /\ PlannedParent(p) # Nowhere => funds[PlannedParent(p)] > 0
      [] row.kind = "transfer" ->
           /\ row.to # p /\ funds[p] > 0
           /\ Siblings(p, row.to) \/ CommonPath(p, row.to).lca # Nowhere
           /\ \A q \in Receivers(p, row.to) : project[q].status \in {"draft", "active"}
      [] row.kind = "adjustment" -> funds[p] > 0

Post(row) ==
    LET p == row.project
        giver == CASE row.kind = "allocation" -> PlannedParent(p)
                   [] row.kind = "transfer" -> p
                   [] row.kind = "adjustment" -> p
        taker == CASE row.kind = "allocation" -> p
                   [] row.kind = "transfer" -> row.to
                   [] row.kind = "adjustment" -> Nowhere
    IN  /\ funds' = [q \in Project |-> funds[q] - (IF q = giver THEN 1 ELSE 0)
                                                + (IF q = taker THEN 1 ELSE 0)]
        /\ entered' = entered \cup ({giver, taker} \ {Nowhere})
                         \cup IF row.kind = "transfer" THEN Receivers(p, row.to) ELSE {}

\* request_change up to its insertion: the lock, the key, the checks in a savepoint that is rolled
\* back, the parent the request counts on.
BeginRequest(c, r, row) ==
    /\ tx[c].op = "none"
    /\ Created(row.project) /\ HasWorkflow("budget_change", project[row.project].bu)
    /\ Unlocked
    /\ request[r].status = "none"
    /\ row.kind = "transfer" => Created(row.to)
    /\ Postable(row)
    /\ orgLock' = c
    /\ tx' = [tx EXCEPT ![c] =
                [Idle EXCEPT !.op = "request", !.request = r,
                             !.row = [row EXCEPT !.status = "pending",
                                        !.from = IF row.kind = "allocation"
                                                 THEN PlannedParent(row.project) ELSE Nowhere]]]
    /\ UNCHANGED <<mix, projectVars, budgetVars, workflowVars, structureVars, calendarVars>>

\* BudgetChangeAdapter.on_outcome: a request is decided once; an approval posts it if the funding
\* mode still plans what the requester was allowed.
RequestOutcome(r, row, outcome) ==
    CASE outcome = "running" ->
           /\ request' = [request EXCEPT ![r] = row]
           /\ UNCHANGED <<funds, entered, posted>>
      [] outcome = "approved" ->
           /\ row.kind = "allocation" => row.from = PlannedParent(row.project)
           /\ Postable(row) /\ Post(row)
           /\ posted' = [posted EXCEPT ![r] = @ + 1]
           /\ request' = [request EXCEPT ![r] = [row EXCEPT !.status = "approved"]]
      [] OTHER ->
           /\ request' = [request EXCEPT ![r] =
                            [row EXCEPT !.status = IF outcome = "withdrawn" THEN "withdrawn"
                                                   ELSE "rejected"]]
           /\ UNCHANGED <<funds, entered, posted>>

\* The insertion and start, in the transaction that holds the lock.
CommitRequest(c) ==
    LET r == tx[c].request IN
    /\ tx[c].op = "request"
    /\ StartApproval(r, project[tx[c].row.project].bu)
    /\ RequestOutcome(r, tx[c].row, instance'[r].status)
    /\ tx' = [tx EXCEPT ![c] = Idle]
    /\ orgLock' = Nowhere
    /\ UNCHANGED <<mix, projectVars, structureVars, calendarVars>>

\* Any refusal on the way, or a lost connection, takes everything back.
Rollback(c) ==
    /\ tx[c].op # "none"
    /\ tx' = [tx EXCEPT ![c] = Idle]
    /\ orgLock' = IF orgLock = c THEN Nowhere ELSE orgLock
    /\ UNCHANGED <<mix, projectVars, budgetVars, workflowVars, structureVars, calendarVars>>

\* A decision or a withdrawal of a request; allocate takes the organization's lock.
DecideRequest(r, outcome) ==
    /\ request[r].status = "pending"
    /\ outcome = "approved" /\ request[r].kind = "allocation" => Unlocked
    /\ Decide(r, outcome)
    /\ RequestOutcome(r, request[r], instance'[r].status)
    /\ UNCHANGED <<mix, tx, projectVars, organizationVars>>

\* Fault: requests under way do not lock the mode.
GuardsEntriesOnly(scope) ==
    ~\E p \in entered : {project[p].bu, project[project[p].root].bu} \cap Subtree(scope) # {}
\* _funding_mode_guard: entries and pending allocations of the unit keep the mode as it is.
FundingModeGuard(scope) ==
    LET bound == entered \cup {request[r].project : r \in
                    {s \in Request : request[s].status = "pending" /\ request[s].kind = "allocation"}}
    IN  ~\E p \in bound : {project[p].bu, project[project[p].root].bu} \cap Subtree(scope) # {}

SetFundingMode(scope, mode) ==
    /\ ChangeSetting("funding_mode", scope, mode, FundingModeGuard(scope))
    /\ UNCHANGED <<mix, tx, projectVars, budgetVars, workflowVars>>

-----------------------------------------------------------------------------
documentVars == <<mix, tx, projectVars, budgetVars>>
Outcome == {"approved", "rejected", "returned", "withdrawn"}

\* Documents of other types, of some unit.
Plain == Doc \ (Project \cup Request)

\* Projects are created, and requests made, in the order of their names.
NextProject ==
    {p \in Project : ~Created(p) /\ p <= mix.projects /\ \A q \in Project : q < p => Created(q)}
NextRequest ==
    {r \in Request : /\ r <= mix.requests
                     /\ \A s \in Request : s < r => request[s].status # "none"}

StructureStep ==
    /\ UNCHANGED <<documentVars, workflowVars>>
    /\ \/ In("units") /\ \E u \in Unit, parent \in Unit \cup {Nowhere} : CreateUnit(u, parent)
       \/ In("units") /\ \E u \in Unit, active \in BOOLEAN : UpdateUnit(u, active)
       \/ In("numbers") /\ \E s \in Scope, prefix \in Prefix : AddFormat(s, prefix)
       \/ In("codes") /\ \E c \in Code, active, effective \in BOOLEAN :
                            WriteMaster(c, active, effective)
       \/ In("depth") /\ \E n \in 1..2 : ChangeSetting("max_depth", Org, n, TRUE)

CalendarStep ==
    /\ In("calendar")
    /\ UNCHANGED <<documentVars, workflowVars>>
    /\ \/ \E m \in StartMonths : SetCalendar(m)
       \/ \E y \in Year : EnsureYear(y)
       \/ \E c \in Client, date \in Dates : SeekPeriod(c, date)
       \/ \E c \in Client : GeneratePeriods(c)
       \/ \E p \in period : ClosePeriod(p) \/ ReopenPeriod(p)

DefinitionStep ==
    /\ In("workflows")
    /\ UNCHANGED documentVars
    /\ \/ \E w \in mix.names, type \in mix.types, s \in Scope : CreateDefinition(w, type, s)
       \/ \E w \in mix.names, g \in mix.graphs :
             Len(Versions(w)) < mix.versions /\ CreateVersion(w, g)
       \/ In("redrafts") /\ \E w \in mix.names, g \in mix.graphs : UpdateVersion(w, g)
       \/ \E w \in mix.names, acknowledged \in BOOLEAN : Publish(w, acknowledged)
       \/ \E w \in mix.names : Retire(w)
       \/ \E rule \in {"managers", "board"} : ChangeHolders(rule)

DocumentStep ==
    /\ In("documents")
    /\ UNCHANGED <<documentVars, organizationVars>>
    /\ \E d \in Plain :
          \/ \E u \in Unit : StartApproval(d, u)
          \/ ResumeApproval(d)
          \/ \E outcome \in Outcome : Decide(d, outcome)

ProjectStep ==
    \/ \E p \in NextProject, parent \in Project \cup {Nowhere}, u \in Unit, c \in mix.codes :
          CreateProject(p, parent, u, c)
    \/ In("edits") /\ \E p \in Project, ref \in BOOLEAN : UpdateProject(p, ref)
    \/ In("codes") /\ \E p \in Project, c \in Code : SubstituteCode(p, c)
    \/ In("life") /\ \E p \in Project, to \in {"active", "draft", "deferred"} \cup Ended :
                        Transition(p, to)
    \/ In("life") /\ \E p \in Project : SubmitProject(p)
    \/ In("life") /\ \E p \in Project, outcome \in Outcome : DecideProject(p, outcome)

\* What a budget change request may ask for.
Made == {p \in Project : Created(p)}
Asking(kind, p, q) == [NoRequest EXCEPT !.kind = kind, !.project = p, !.to = q]
Wanted == {Asking(kind, p, Nowhere) : kind \in {"allocation", "adjustment"}, p \in Made}
          \cup {Asking("transfer", p, q) : p, q \in Made}

PlanStep ==
    /\ In("plans")
    /\ \/ \E c \in Client, op \in {"phase", "milestone", "risk"}, p \in Project : BeginPlan(c, op, p)
       \/ \E c \in Client, n \in 1..MaxRows, child \in Project \cup {Nowhere} :
             WritePhase(c, n, child)
       \/ \E c \in Client : WriteMilestone(c) \/ WriteRisk(c)

BudgetStep ==
    /\ In("budget")
    /\ \/ \E c \in Client, r \in NextRequest, row \in Wanted : BeginRequest(c, r, row)
       \/ \E c \in Client : CommitRequest(c)
       \/ \E r \in Request, outcome \in Outcome : DecideRequest(r, outcome)
       \/ \E s \in Scope, mode \in {"roll_down", "roll_up", Unset} : SetFundingMode(s, mode)

Init ==
    /\ mix \in Mixes
    /\ OrganizationInit
    /\ unit = mix.unit
    /\ definition = mix.definition /\ holders = {"managers", "board"}
    /\ instance = [d \in Doc |-> NoInstance]
    /\ tx = [c \in Client |-> Idle]
    /\ project = [p \in Project |-> NoProject] /\ plan = [p \in Project |-> EmptyPlan]
    /\ funds = [p \in Project |-> 0] /\ entered = {}
    /\ request = [r \in Request |-> NoRequest] /\ posted = [r \in Request |-> 0]

Next ==
    \/ StructureStep \/ CalendarStep \/ DefinitionStep \/ DocumentStep \/ ProjectStep \/ PlanStep
    \/ BudgetStep
    \/ \E c \in Client : Rollback(c)

Spec == Init /\ [][Next]_vars

-----------------------------------------------------------------------------
(***************************************************************************)
(* A document and its approval never part.  A project awaits approval      *)
(* exactly while an approval of it runs, and a budget change is pending    *)
(* exactly while one of it runs; it ends as its approval ends, and it has  *)
(* been posted once when it was approved and never otherwise (transition,  *)
(* approval_outcome, request_change, on_outcome, evaluate).                *)
(***************************************************************************)
DocumentsFollowApprovals ==
    /\ \A p \in Project :
          project[p].status = "approval_pending" <=> instance[p].status = "running"
    /\ \A r \in Request :
          /\ request[r].status = "pending" <=> instance[r].status = "running"
          /\ request[r].status = "approved" <=> instance[r].status = "approved"
          /\ posted[r] = IF request[r].status = "approved" THEN 1 ELSE 0

(***************************************************************************)
(* A pending allocation draws on the parent its requester was allowed to   *)
(* draw on: the funding mode in force plans the same, so an approval is    *)
(* never refused with funding_plan_changed (request_change,                *)
(* _funding_mode_guard, set_setting, clear_setting, on_outcome).           *)
(***************************************************************************)
PlansStand ==
    \A r \in Request : request[r].status = "pending" /\ request[r].kind = "allocation" =>
        request[r].from = PlannedParent(request[r].project)

(***************************************************************************)
(* The schedule and the risks of a project that has ended stay as they     *)
(* are, although its status was read before the end (Schedule.write,       *)
(* RiskService.write, Lifecycle.snapshot).                                 *)
(***************************************************************************)
EndedPlansStand ==
    [][\A p \in Project : project[p].status \in Ended => plan'[p] = plan[p]]_vars

(***************************************************************************)
(* The path between two projects of one tree goes up from the first to the *)
(* deepest project above both and down to the second, one parent or child  *)
(* at a time; projects of different trees have none.  The walks, which     *)
(* visit a bounded number of levels, miss nobody (Hierarchy.walk,          *)
(* common_path, create, enforce_project_hierarchy).                        *)
(***************************************************************************)
PathsMeet ==
    \A a, b \in Made :
        LET path == CommonPath(a, b)
            whole == path.up \o <<path.lca>> \o path.down
        IN  IF project[a].root # project[b].root THEN path.lca = Nowhere
            ELSE /\ path.lca # Nowhere
                 /\ whole[1] = a /\ whole[Len(whole)] = b
                 /\ \A i \in 1..(Len(whole) - 1) :
                       IF i <= Len(path.up) THEN project[whole[i]].parent = whole[i + 1]
                       ELSE project[whole[i + 1]].parent = whole[i]
                 /\ \A i, j \in 1..Len(whole) : whole[i] = whole[j] => i = j
=============================================================================
