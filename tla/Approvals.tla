----------------------------- MODULE Approvals -----------------------------
(***************************************************************************)
(* The approval engine for one document: instances, steps, decisions by    *)
(* members and their delegates, live membership, return and resume,        *)
(* reassignment, escalation, withdrawal, and the approval in force.        *)
(*                                                                         *)
(* Every operation on an approval locks its instance first and commits or  *)
(* rolls back as a whole, so each is one action; its refusals are guards.  *)
(* Only escalation takes no lock; it sets one column of an open task.      *)
(* Grants, delegations and edits of the document commit between them.      *)
(*                                                                         *)
(* The document is a requisition: an amount the graph's conditions read    *)
(* and a master code, which may expire and be substituted.  An amendment   *)
(* of an approved one presents its proposal while its approval runs.       *)
(*                                                                         *)
(* Abstracted: comments, audit and emails; document versions, on which a   *)
(* decision is only refused; workflow versions (one graph); delegation     *)
(* periods, of which only the live ones are kept; the adapter's outcome    *)
(* handler, which changes the document and never the approval.  supersede  *)
(* has no caller in this repository and is left out.                       *)
(***************************************************************************)
EXTENDS Naturals, Sequences, FiniteSets

CONSTANTS
    User,         \* identities of the organization
    Requester,    \* who submitted the document
    Node,         \* approval nodes of the workflow graph
    Amount,       \* amounts of the document
    Code,         \* master codes
    Expirable,    \* the codes that may expire
    NextNode,     \* NextNode[a][n]: approval node after n for amount a, or "end"
    Rule,         \* Rule[n]: users the node's approver rule selects
    Mode,         \* Mode[n]: "any", "all" or "quorum"
    Quorum,       \* Quorum[n]: approvals a quorum step needs
    AllowRepeat,  \* AllowRepeat[n]: earlier deciders may decide here again
    EscalateTo,   \* EscalateTo[n]: users added on escalation, {} for none
    SeparationOfDuty,  \* the approval.separation_of_duty setting
    Changing,     \* bound: users whose approve permission comes and goes
    MaxInstance,  \* bound: approvals of the document
    MaxCover      \* bound: delegations live at once

ASSUME ApprovalsAssumption ==
    /\ Requester \in User
    /\ "start" \notin Node /\ "end" \notin Node
    /\ Amount \in SUBSET (Nat \ {0})
    /\ Expirable \in SUBSET Code
    /\ NextNode \in [Amount -> [Node \cup {"start"} -> Node \cup {"end"}]]
    \* No cycle: every set of nodes is left (publishing refuses a graph with one).
    /\ \A a \in Amount, S \in (SUBSET Node) \ {{}} : \E n \in S : NextNode[a][n] \notin S
    /\ Rule \in [Node -> SUBSET User]
    /\ Mode \in [Node -> {"any", "all", "quorum"}]
    /\ Quorum \in [Node -> Nat]
    /\ AllowRepeat \in [Node -> BOOLEAN]
    /\ EscalateTo \in [Node -> SUBSET User]
    /\ SeparationOfDuty \in BOOLEAN
    /\ Changing \in SUBSET User
    /\ MaxInstance \in Nat
    /\ MaxCover \in Nat

VARIABLES
    material,   \* the material fields an approval of the document presents
    kept,       \* the requisition's own while an amendment is pending, or Nothing
    expired,    \* codes that have expired
    holders,    \* users who hold the approve permission
    cover,      \* live delegations, oldest first
    instances,  \* approval_instance rows with their newest task, oldest first
    decisions   \* approval_decision rows that count (no comments, no withdrawals)

docVars == <<material, kept, expired>>
vars == <<material, kept, expired, holders, cover, instances, decisions>>

-----------------------------------------------------------------------------
(* Values.                                                                   *)

Material == [amount : Amount, code : Code]

Nothing == [amount |-> 0, code |-> "none"]

InstanceStatus == {"running", "approved", "rejected", "returned", "withdrawn", "superseded"}

TaskRow ==
    [node : Node \cup {"start"}, rule : SUBSET User, escalated : BOOLEAN,
     status : {"none", "open", "completed", "cancelled"},
     outcome : {"none", "approved", "rejected", "returned"}]

NoTask == [node |-> "start", rule |-> {}, escalated |-> FALSE,
           status |-> "none", outcome |-> "none"]

OpenTask(n) == [node |-> n, rule |-> Rule[n], escalated |-> FALSE,
                status |-> "open", outcome |-> "none"]

RouteEntry == [node : Node, state : {"open", "completed", "carried"}, by : SUBSET User]

Instance ==
    [status : InstanceStatus, route : Seq(RouteEntry), digest : Material,
     approved : Material \cup {Nothing}, task : TaskRow]

Decision ==
    [instance : Nat, node : Node, actor : User, principal : User,
     outcome : {"approve", "reject", "return"}]

\* The newest instance: the only one that can be running (approval_one_running).
Current == Len(instances)

Running == instances # <<>> /\ instances[Current].status = "running"

ReplaceCurrent(i) == instances' = [instances EXCEPT ![Current] = i]

-----------------------------------------------------------------------------
(* Who may decide now.                                                       *)

\* eligible_approvers: selected users who hold the permission, without the
\* requester where separation of duty applies.
Eligible(rule) ==
    (rule \cap holders) \ (IF SeparationOfDuty THEN {Requester} ELSE {})

\* Deciders of the route's other steps.
EarlierDeciders(i, n) ==
    UNION {i.route[k].by : k \in {j \in 1..Len(i.route) : i.route[j].node # n}}

CurrentMembers(i, n, rule) ==
    Eligible(rule) \ (IF AllowRepeat[n] THEN {} ELSE EarlierDeciders(i, n))

\* The base of effective_members: the task's rule, and the escalation's once it
\* has escalated.
Base(i) ==
    CurrentMembers(i, i.task.node, i.task.rule)
        \cup IF i.task.escalated
             THEN CurrentMembers(i, i.task.node, EscalateTo[i.task.node])
             ELSE {}

\* Fault: the delegate's own standing is not looked at.
AnyDelegate(i) == User \ Base(i)

\* Users who may act as a delegate: not members themselves, able to approve the
\* document in their own right, and bound by the same rule on repeats.
AbleDelegates(i) == CurrentMembers(i, i.task.node, User) \ Base(i)

\* Live delegations from a member to u.
CoverRows(i, u) == {k \in 1..Len(cover) : cover[k].delegate = u /\ cover[k].delegator \in Base(i)}

\* A delegate acts for the member whose delegation is the oldest.
ActsFor(i, u) ==
    LET rows == CoverRows(i, u)
    IN  cover[CHOOSE k \in rows : \A l \in rows : k <= l].delegator

MayAct(i, u) == u \in Base(i) \/ (u \in AbleDelegates(i) /\ CoverRows(i, u) # {})

Principal(i, u) == IF u \in Base(i) THEN u ELSE ActsFor(i, u)

TaskDecisions == {d \in decisions : d.instance = Current /\ d.node = instances[Current].task.node}

\* Fault: only the actor's own decisions are looked for.
ActorDecided(u, p) == \E d \in TaskDecisions : d.actor = u

\* The actor or the person behind them has decided on this task before.
AlreadyDecided(u, p) ==
    \E d \in TaskDecisions : d.actor \in {u, p} \/ d.principal = p

\* The checks of decide that let u decide on the open task.
MayDecide(u) ==
    /\ Running
    /\ instances[Current].task.status = "open"
    /\ MayAct(instances[Current], u)
    /\ ~AlreadyDecided(u, Principal(instances[Current], u))

DecisionBy(u, outcome) ==
    [instance |-> Current, node |-> instances[Current].task.node, actor |-> u,
     principal |-> Principal(instances[Current], u), outcome |-> outcome]

\* step_complete is True: evidence of current members only.
StepComplete(n, evidence, members) ==
    LET counted == {d \in evidence : d.principal \in members}
        approved == {d.principal : d \in counted}
    IN  /\ \A d \in counted : d.outcome = "approve"
        /\ CASE Mode[n] = "any" -> approved # {}
             [] Mode[n] = "all" -> members # {} /\ members \subseteq approved
             [] OTHER -> Cardinality(approved) >= Quorum[n]

-----------------------------------------------------------------------------
(* Steps of an instance.                                                     *)

\* The approval node the graph reaches from n for material m.
Walk(m, n) == NextNode[m.amount][n]

\* Marks the route entry of the instance's task.
MarkStep(i, by) ==
    [k \in 1..Len(i.route) |->
        IF i.route[k].node = i.task.node
        THEN [i.route[k] EXCEPT !.state = "completed", !.by = by] ELSE i.route[k]]

\* _open is refused (no_eligible_approver) when nobody may decide the step.
HasApprover(i, n) == CurrentMembers(i, n, Rule[n]) # {}

Opened(i, n) ==
    [i EXCEPT !.task = OpenTask(n),
              !.route = Append(@, [node |-> n, state |-> "open", by |-> {}])]

\* The instance at node n: finished at the end of the graph, otherwise open there.
Reached(i, n, m) ==
    IF n = "end" THEN [i EXCEPT !.status = "approved", !.approved = m] ELSE Opened(i, n)

CanReach(i, n) == n # "end" => HasApprover(i, n)

\* Everyone who decided the step, in person or through a delegate.
DecidedBy(u, evidence) ==
    {u} \cup {d.actor : d \in evidence} \cup {d.principal : d \in evidence}

-----------------------------------------------------------------------------
(* Operations.                                                               *)

NewInstance(route, m) ==
    [status |-> "running", route |-> route, digest |-> m,
     approved |-> Nothing, task |-> NoTask]

\* _in_force: the newest running, approved or superseded instance, else the newest.
InForce ==
    LET shown == {k \in 1..Current : instances[k].status \in {"running", "approved", "superseded"}}
    IN  IF shown = {} THEN Current ELSE CHOOSE k \in shown : \A l \in shown : l <= k

ApprovedInForce == instances # <<>> /\ instances[InForce].status = "approved"

\* The approval nodes on the graph's path for material m.
PathNodes(m) ==
    {n \in Node : \A S \in SUBSET (Node \cup {"end"}) :
        (Walk(m, "start") \in S /\ \A k \in S \ {"end"} : Walk(m, k) \in S) => n \in S}

\* Submission checks that let material m be presented: its code is usable and
\* every step of its route has an eligible approver (routing_check).
Submittable(m) ==
    /\ m.code \notin expired
    /\ \A n \in PathNodes(m) : Eligible(Rule[n]) # {}

\* The requisition is a draft: never submitted, returned, or rejected to draft.
\* A withdrawn one stays withdrawn.
Draft ==
    /\ ~Running
    /\ ~ApprovedInForce
    /\ instances # <<>> => instances[Current].status \in {"rejected", "returned"}

\* start without resume_from, for material m: from the beginning of the graph.
StartFor(m) ==
    /\ Current < MaxInstance
    /\ Submittable(m)
    /\ LET i == NewInstance(<<>>, m)
           n == Walk(m, "start")
       IN  /\ CanReach(i, n)
           /\ instances' = Append(instances, Reached(i, n, m))
    /\ UNCHANGED <<expired, holders, cover, decisions>>

\* An amendment with material changes is submitted: the proposal is presented and
\* the requisition keeps its own fields until the proposal is approved.
Amend(m) ==
    /\ ApprovedInForce
    /\ m # instances[InForce].approved
    /\ StartFor(m)
    /\ LET applied == instances'[Current + 1].status = "approved" IN
         /\ material' = m
         /\ kept' = IF applied THEN Nothing ELSE material

\* Fault: any returned approval resumes.
ReturnedLast == instances # <<>> /\ instances[Current].status = "returned"

\* The latest approval was returned and the document is not changed materially.
Resumable ==
    /\ instances # <<>>
    /\ instances[Current].status = "returned"
    /\ instances[Current].digest = material

\* A draft is submitted that has nothing to resume.
Start ==
    /\ Draft
    /\ ~Resumable
    /\ StartFor(material)
    /\ UNCHANGED <<material, kept>>

\* Fault: a carried step forgets who decided it.
CarriedBare(i) ==
    LET before == (CHOOSE k \in 1..Len(i.route) : i.route[k].node = i.task.node) - 1
    IN  [k \in 1..before |-> [i.route[k] EXCEPT !.state = "carried", !.by = {}]]

\* The steps before the returned one are carried over.
CarriedRoute(i) ==
    LET before == (CHOOSE k \in 1..Len(i.route) : i.route[k].node = i.task.node) - 1
    IN  [k \in 1..before |-> [i.route[k] EXCEPT !.state = "carried"]]

\* start with resume_from: at the step that was returned.
Resume ==
    /\ Current < MaxInstance
    /\ Draft
    /\ Resumable
    /\ Submittable(material)
    /\ LET i == NewInstance(CarriedRoute(instances[Current]), material)
           n == instances[Current].task.node
       IN  /\ HasApprover(i, n)
           /\ instances' = Append(instances, Opened(i, n))
    /\ UNCHANGED <<docVars, holders, cover, decisions>>

\* The fields of the requisition itself.
Live == IF kept = Nothing THEN material ELSE kept

\* A substitute for the requisition's code: only for an expired one, by a usable one.
Substitutes == IF Live.code \in expired THEN Code \ expired ELSE {}

\* prepare_approval: an expired code must be substituted to approve.
Prepared == IF Live.code \in expired THEN Substitutes ELSE {Live.code}

\* The code is written to the requisition and to the pending proposal.
WithCode(m, c) == IF m = Nothing \/ c = Live.code THEN m ELSE [m EXCEPT !.code = c]

\* decide with approve, and code c after prepare_approval; when the step is
\* complete, advance opens the next one or finishes.
Approve(u, c) ==
    /\ MayDecide(u)
    /\ c \in Prepared
    /\ material' = WithCode(material, c)
    /\ decisions' = decisions \cup {DecisionBy(u, "approve")}
    /\ LET i == instances[Current]
           evidence == TaskDecisions \cup {DecisionBy(u, "approve")}
           done == [i EXCEPT !.task.status = "completed", !.task.outcome = "approved",
                             !.route = MarkStep(i, DecidedBy(u, evidence))]
           n == Walk(material', i.task.node)
       IN  \/ /\ ~StepComplete(i.task.node, evidence, Base(i))
              /\ kept' = WithCode(kept, c)
              /\ UNCHANGED instances
           \/ /\ StepComplete(i.task.node, evidence, Base(i))
              /\ CanReach(done, n)
              /\ ReplaceCurrent(Reached(done, n, material'))
              /\ kept' = IF n = "end" THEN Nothing ELSE WithCode(kept, c)
    /\ UNCHANGED <<expired, holders, cover>>

\* Fault: a failed amendment leaves its proposal in place.
KeepProposal == material' = material /\ kept' = Nothing

\* The outcome handler of an approval that failed: a proposal is dropped.
DropProposal == material' = Live /\ kept' = Nothing

\* decide with reject or return: the decision ends the approval.
EndBy(u, outcome, status) ==
    /\ MayDecide(u)
    /\ decisions' = decisions \cup {DecisionBy(u, outcome)}
    /\ LET i == instances[Current] IN
         ReplaceCurrent([i EXCEPT !.status = status, !.task.status = "completed",
                                  !.task.outcome = status, !.route = MarkStep(i, {u})])
    /\ DropProposal
    /\ UNCHANGED <<expired, holders, cover>>

Reject(u) == EndBy(u, "reject", "rejected")

Return(u) == EndBy(u, "return", "returned")

\* _end with a withdrawal: open tasks are cancelled.
WithdrawnInstance(i) ==
    [i EXCEPT !.status = "withdrawn", !.task.status = "cancelled", !.route = MarkStep(i, {})]

\* withdraw, by the requester or by a document module on an admin's behalf.
Withdraw ==
    /\ Running
    /\ ReplaceCurrent(WithdrawnInstance(instances[Current]))
    /\ DropProposal
    /\ UNCHANGED <<expired, holders, cover, decisions>>

\* reassign_task: named users, all of them eligible, replace the task's rule.
Reassign(users) ==
    /\ Running
    /\ users # {}
    /\ users \subseteq Eligible(users)
    /\ ReplaceCurrent([instances[Current] EXCEPT !.task.rule = users])
    /\ UNCHANGED <<docVars, holders, cover, decisions>>

\* The reminder job escalates an open task that has waited too long.
Escalate ==
    /\ Running
    /\ ~instances[Current].task.escalated
    /\ EscalateTo[instances[Current].task.node] # {}
    /\ ReplaceCurrent([instances[Current] EXCEPT !.task.escalated = TRUE])
    /\ UNCHANGED <<docVars, holders, cover, decisions>>

\* substitute_requisition after approval: rebase_digest restamps the approval.
Rebase(c) ==
    /\ ApprovedInForce
    /\ c \in Substitutes
    /\ material' = [material EXCEPT !.code = c]
    /\ instances' = [instances EXCEPT ![InForce].approved = material']
    /\ UNCHANGED <<kept, expired, holders, cover, decisions>>

\* create_delegation: to a holder; not while covering for somebody, and one live
\* delegation per delegator.
Delegate(a, b) ==
    /\ Len(cover) < MaxCover
    /\ a # b
    /\ b \in holders
    /\ \A k \in 1..Len(cover) : cover[k].delegate # a /\ cover[k].delegator # a
    /\ cover' = Append(cover, [delegator |-> a, delegate |-> b])
    /\ UNCHANGED <<docVars, holders, instances, decisions>>

\* revoke_delegation, or the end of its period.
EndDelegation(k) ==
    /\ k \in 1..Len(cover)
    /\ cover' = SubSeq(cover, 1, k - 1) \o SubSeq(cover, k + 1, Len(cover))
    /\ UNCHANGED <<docVars, holders, instances, decisions>>

\* An administrator grants or takes away the approve permission.
ChangeHolder(u) ==
    /\ u \in Changing
    /\ holders' = IF u \in holders THEN holders \ {u} ELSE holders \cup {u}
    /\ UNCHANGED <<docVars, cover, instances, decisions>>

\* A draft is edited; a requisition that is not one refuses edits.
Edit(m) ==
    /\ Draft
    /\ m # material
    /\ material' = m
    /\ UNCHANGED <<kept, expired, holders, cover, instances, decisions>>

\* A master code reaches the end of its validity, or is made valid again.
ChangeCode(c) ==
    /\ c \in Expirable
    /\ expired' = IF c \in expired THEN expired \ {c} ELSE expired \cup {c}
    /\ UNCHANGED <<material, kept, holders, cover, instances, decisions>>

Init ==
    /\ material \in Material
    /\ kept = Nothing
    /\ expired = {}
    /\ holders = User
    /\ cover = <<>>
    /\ instances = <<>>
    /\ decisions = {}

Next ==
    \/ Start \/ Resume \/ Withdraw \/ Escalate
    \/ \E u \in User : Reject(u) \/ Return(u) \/ ChangeHolder(u)
    \/ \E u \in User, c \in Code : Approve(u, c)
    \/ \E users \in SUBSET User : Reassign(users)
    \/ \E m \in Material : Amend(m) \/ Edit(m)
    \/ \E c \in Code : Rebase(c) \/ ChangeCode(c)
    \/ \E a, b \in User : Delegate(a, b)
    \/ \E k \in 1..MaxCover : EndDelegation(k)

Spec == Init /\ [][Next]_vars

-----------------------------------------------------------------------------
(* Properties.                                                               *)

\* The values the tables' columns and CHECK constraints allow.
TypeOK ==
    /\ material \in Material
    /\ kept \in Material \cup {Nothing}
    /\ expired \in SUBSET Code
    /\ holders \in SUBSET User
    /\ cover \in Seq([delegator : User, delegate : User])
    /\ instances \in Seq(Instance)
    /\ decisions \in SUBSET Decision

\* On one task nobody decides twice and nobody is decided for twice, whether in
\* person or through delegates, whatever is delegated, revoked or reassigned.
DecidersDistinct ==
    \A d, e \in decisions :
        d # e /\ d.instance = e.instance /\ d.node = e.node =>
            d.actor # e.actor /\ d.principal # e.principal

\* With separation of duty the requester neither decides nor is decided for:
\* not as a delegate, after a reassignment, an escalation or a resumption.
RequesterApart ==
    SeparationOfDuty => \A d \in decisions : Requester \notin {d.actor, d.principal}

\* The approvals in which step n of approval k was decided: k, and those it
\* carries the step over from.
Rounds(k, n) ==
    {j \in 1..k : \A l \in (j + 1)..k : \E e \in 1..Len(instances[l].route) :
        instances[l].route[e].node = n /\ instances[l].route[e].state = "carried"}

\* Everyone who had a part in the decisions on step n of approval k.
People(k, n) ==
    UNION {{d.actor, d.principal} : d \in {x \in decisions : x.node = n /\ x.instance \in Rounds(k, n)}}

\* A step without allow_repeat is decided by people who had no part in the
\* steps before it, those carried over from a returned approval included.
NoRepeatDeciders ==
    \A k \in 1..Current :
        LET node == [e \in 1..Len(instances[k].route) |-> instances[k].route[e].node] IN
        \A s \in DOMAIN node : \A e \in 1..(s - 1) :
            ~AllowRepeat[node[s]] => People(k, node[e]) \cap People(k, node[s]) = {}

\* An approval ends approved only along the graph's whole path for the document
\* it approved, each step of it decided, also when it resumed a returned one.
WholeRouteApproved ==
    \A k \in 1..Current :
        LET i == instances[k]
            n == Len(i.route)
            node[j \in 0..(n + 1)] ==
                IF j = 0 THEN "start" ELSE IF j > n THEN "end" ELSE i.route[j].node
        IN  i.status = "approved" =>
              \A j \in 1..(n + 1) :
                  /\ Walk(i.approved, node[j - 1]) = node[j]
                  /\ j <= n => i.route[j].by # {}

\* While an approval is in force and no amendment is pending, the requisition's
\* amount is the approved one: failed amendments and corrections leave it so.
AmountInForce ==
    ApprovedInForce => instances[InForce].approved.amount = material.amount

\* "Amendments to an approved requisition: the approved version stays in force"
\* (tests/requisitions/test_amendments.py): the approval in force is current, the
\* digest it recorded is the requisition's, whatever became of its amendments.
ApprovalStaysCurrent ==
    ApprovedInForce => instances[InForce].approved = material
=============================================================================
