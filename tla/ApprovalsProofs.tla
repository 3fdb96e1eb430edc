-------------------------- MODULE ApprovalsProofs --------------------------
(***************************************************************************)
(* The approval engine for any workflow graph, approver rules, users,      *)
(* delegations and number of approvals.  Who decides: the requester stays  *)
(* apart, nobody decides or is decided for twice on one step, nor again on *)
(* a later step that bars earlier deciders.  What is approved: the whole   *)
(* route of the document, and the amount stands while it is in force.      *)
(*                                                                         *)
(* Beside the types (TypeInv) three invariants are inductive, each given   *)
(* the ones before it: what is in force (ForceInv), how a route follows    *)
(* the graph (RoutesInv) and who had a part in its steps (RepeatInv).      *)
(***************************************************************************)
EXTENDS Approvals, SequenceTheorems, WellFoundedInduction, TLAPS

-----------------------------------------------------------------------------
(* Deciders.                                                                 *)

\* A nonempty set of naturals has a smallest member: the oldest delegation exists.
LEMMA Smallest ==
    ASSUME NEW T \in SUBSET Nat, T # {}
    PROVE  \E x \in T : \A y \in T : x <= y
<1>1. PICK x \in T : \A y \in T : ~(<<y, x>> \in OpToRel(<, Nat))
  BY WFMin, NatLessThanWellFounded
<1>2. \A y \in T : y < x => <<y, x>> \in OpToRel(<, Nat)
  <2>1. SUFFICES ASSUME NEW y \in T, y < x
                 PROVE  <<y, x>> \in {ss \in Nat \X Nat : ss[1] < ss[2]}
    BY DEF OpToRel
  <2>2. QED
    BY <2>1
<1>3. \A y \in T : ~(y < x)
  BY <1>1, <1>2, Zenon
<1>4. QED
  BY <1>3

\* Leaving one entry out of a sequence leaves a sequence over the same set.
LEMMA DroppedEntry ==
    ASSUME NEW S, NEW s \in Seq(S), NEW k \in 1..Len(s)
    PROVE  SubSeq(s, 1, k - 1) \o SubSeq(s, k + 1, Len(s)) \in Seq(S)
<1>1. Len(s) \in Nat /\ \A j \in 1..Len(s) : s[j] \in S
  OBVIOUS
<1>2. /\ 1 \in Int /\ k - 1 \in Int /\ k + 1 \in Int /\ Len(s) \in Int
      /\ \A j \in 1..(k - 1) : s[j] \in S
      /\ \A j \in (k + 1)..Len(s) : s[j] \in S
  BY <1>1
<1>3. SubSeq(s, 1, k - 1) \in Seq(S) /\ SubSeq(s, k + 1, Len(s)) \in Seq(S)
  BY <1>2, SubSeqProperties
<1>4. QED
  BY <1>3, ConcatProperties

\* Everybody who is a member of a task holds the permission, and the requester
\* is not one where separation of duty applies.
LEMMA MembersEligible ==
    ASSUME NEW i, NEW n, NEW rule
    PROVE  /\ CurrentMembers(i, n, rule) \subseteq holders
           /\ SeparationOfDuty => Requester \notin CurrentMembers(i, n, rule)
  BY DEF CurrentMembers, Eligible

\* The same of the people a task is open to, reassigned or not.
LEMMA BaseEligible ==
    ASSUME NEW i
    PROVE  /\ Base(i) \subseteq holders
           /\ SeparationOfDuty => Requester \notin Base(i)
  BY MembersEligible DEF Base

\* A delegate acts for a member.
LEMMA ActsForMember ==
    ASSUME cover \in Seq([delegator : User, delegate : User]), NEW i, NEW u, CoverRows(i, u) # {}
    PROVE  ActsFor(i, u) \in Base(i)
<1> DEFINE rows == CoverRows(i, u)
<1>1. rows \in SUBSET Nat
  BY DEF CoverRows
<1>2. \E k \in rows : \A l \in rows : k <= l
  BY <1>1, Smallest
<1>3. (CHOOSE k \in rows : \A l \in rows : k <= l) \in rows
  BY <1>2
<1>4. QED
  BY <1>3 DEF ActsFor, CoverRows

\* Who decides is not the requester, and decides for a member who is not either.
LEMMA DeciderApart ==
    ASSUME cover \in Seq([delegator : User, delegate : User]), NEW u, MayDecide(u)
    PROVE  /\ u \in holders /\ Principal(instances[Current], u) \in holders
           /\ SeparationOfDuty => Requester \notin {u, Principal(instances[Current], u)}
<1> DEFINE i == instances[Current]
<1>1. CASE u \in Base(i)
  BY <1>1, BaseEligible DEF Principal
<1>2. CASE u \notin Base(i)
  <2>1. u \in CurrentMembers(i, i.task.node, User) /\ CoverRows(i, u) # {}
    BY <1>2 DEF MayDecide, MayAct, AbleDelegates
  <2>2. Principal(i, u) \in Base(i)
    BY <1>2, <2>1, ActsForMember DEF Principal
  <2>3. QED
    BY <2>1, <2>2, BaseEligible, MembersEligible
<1>3. QED
  BY <1>1, <1>2

\* The steps that add decisions, and what they add.
LEMMA DecisionsGrow ==
    ASSUME [Next]_vars
    PROVE  \/ UNCHANGED decisions
           \/ \E u \in User, o \in {"approve", "reject", "return"} :
                MayDecide(u) /\ decisions' = decisions \cup {DecisionBy(u, o)}
<1>1. CASE \E u \in User, c \in Code : Approve(u, c)
  BY <1>1 DEF Approve
<1>2. CASE \E u \in User : Reject(u) \/ Return(u)
  BY <1>2 DEF Reject, Return, EndBy
<1>3. CASE Start \/ Resume \/ Withdraw \/ Escalate
  BY <1>3 DEF Start, StartFor, Resume, Withdraw, Escalate
<1>4. CASE \E u \in User : ChangeHolder(u)
  BY <1>4 DEF ChangeHolder
<1>5. CASE \E users \in SUBSET User : Reassign(users)
  BY <1>5 DEF Reassign
<1>6. CASE \E m \in Material : Amend(m) \/ Edit(m)
  BY <1>6 DEF Amend, StartFor, Edit
<1>7. CASE \E c \in Code : Rebase(c) \/ ChangeCode(c)
  BY <1>7 DEF Rebase, ChangeCode
<1>8. CASE (\E a, b \in User : Delegate(a, b)) \/ (\E k \in 1..MaxCover : EndDelegation(k))
  BY <1>8 DEF Delegate, EndDelegation
<1>9. CASE UNCHANGED vars
  BY <1>9 DEF vars
<1>10. QED
  BY <1>1, <1>2, <1>3, <1>4, <1>5, <1>6, <1>7, <1>8, <1>9 DEF Next

-----------------------------------------------------------------------------
(* Types.                                                                    *)

\* Every approval that is not approved stands at a step of its route.
AtStep(i) ==
    i.status # "approved" => \E k \in 1..Len(i.route) : i.route[k].node = i.task.node

\* TypeOK with what it needs to be kept: without AtStep a decision might be made
\* at no node, and a resumption carry over an undefined part of the route.
TypeInv == TypeOK /\ \A k \in 1..Len(instances) : AtStep(instances[k])

\* The terms in force are terms of the document.
LEMMA LiveType == TypeOK => Live \in Material
  BY DEF TypeOK, Live

\* Whoever may decide is a user, at a node, for users.
LEMMA MayDecideType ==
    ASSUME TypeInv, NEW u \in User, MayDecide(u)
    PROVE  /\ Current \in 1..Len(instances)
           /\ instances[Current] \in Instance
           /\ instances[Current].task.node \in Node
           /\ AtStep(instances[Current])
           /\ Principal(instances[Current], u) \in User
           /\ \A o \in {"approve", "reject", "return"} : DecisionBy(u, o) \in Decision
<1>1. Current \in 1..Len(instances) /\ instances[Current] \in Instance
  BY DEF TypeInv, TypeOK, MayDecide, Running, Current
<1>2. AtStep(instances[Current])
  BY <1>1 DEF TypeInv
<1>3. instances[Current].task.node \in Node
  <2>1. instances[Current].status # "approved"
    BY DEF MayDecide, Running
  <2>2. PICK k \in 1..Len(instances[Current].route) :
               instances[Current].route[k].node = instances[Current].task.node
    BY <1>2, <2>1 DEF AtStep
  <2>3. instances[Current].route[k] \in RouteEntry
    BY <1>1, <2>2 DEF Instance
  <2>4. QED
    BY <2>2, <2>3 DEF RouteEntry
<1>4. Principal(instances[Current], u) \in User
  BY DeciderApart DEF TypeInv, TypeOK
<1>5. QED
  BY <1>1, <1>2, <1>3, <1>4 DEF DecisionBy, Decision

\* Marking the steps of a task as done keeps a route a route.
LEMMA MarkStepType ==
    ASSUME NEW i \in Instance, NEW by \in SUBSET User
    PROVE  /\ MarkStep(i, by) \in Seq(RouteEntry)
           /\ Len(MarkStep(i, by)) = Len(i.route)
           /\ \A k \in 1..Len(i.route) : MarkStep(i, by)[k].node = i.route[k].node
<1>1. \A k \in 1..Len(i.route) : i.route[k] \in RouteEntry
  BY DEF Instance
<1>2. Len(i.route) \in Nat
  BY DEF Instance
<1> DEFINE e(k) == IF i.route[k].node = i.task.node
                   THEN [i.route[k] EXCEPT !.state = "completed", !.by = by] ELSE i.route[k]
<1>3. \A k \in 1..Len(i.route) : e(k) \in RouteEntry /\ e(k).node = i.route[k].node
  BY <1>1 DEF RouteEntry
<1>4. MarkStep(i, by) = [k \in 1..Len(i.route) |-> e(k)]
  BY DEF MarkStep
<1> HIDE DEF e
<1>5. QED
  BY <1>2, <1>3, <1>4

\* Opening a step adds it to the route and its task stands at it.
LEMMA OpenedType ==
    ASSUME NEW i \in Instance, NEW n \in Node
    PROVE  Opened(i, n) \in Instance /\ AtStep(Opened(i, n))
<1> DEFINE e == [node |-> n, state |-> "open", by |-> {}]
<1>1. e \in RouteEntry /\ OpenTask(n) \in TaskRow
  BY ApprovalsAssumption DEF RouteEntry, OpenTask, TaskRow
<1>2. /\ Append(i.route, e) \in Seq(RouteEntry)
      /\ Len(i.route) + 1 \in 1..Len(Append(i.route, e))
      /\ Append(i.route, e)[Len(i.route) + 1] = e
  BY <1>1 DEF Instance
<1>3. Opened(i, n) \in Instance
  BY <1>1, <1>2 DEF Opened, Instance
<1>4. Opened(i, n).route[Len(i.route) + 1].node = Opened(i, n).task.node
  BY <1>2 DEF Opened, Instance, OpenTask
<1>5. QED
  BY <1>2, <1>3, <1>4 DEF AtStep, Opened, Instance

\* Reaching a node opens its step; reaching the end approves: well typed either way.
LEMMA ReachedType ==
    ASSUME NEW i \in Instance, NEW n \in Node \cup {"end"}, NEW m \in Material
    PROVE  Reached(i, n, m) \in Instance /\ AtStep(Reached(i, n, m))
<1>1. CASE n = "end"
  BY <1>1 DEF Reached, AtStep, Instance, InstanceStatus
<1>2. CASE n # "end"
  BY <1>2, OpenedType DEF Reached
<1>3. QED
  BY <1>1, <1>2

\* The walk from a node leads to a node or to the end.
LEMMA WalkType ==
    ASSUME NEW m \in Material, NEW n \in Node \cup {"start"}
    PROVE  Walk(m, n) \in Node \cup {"end"}
<1>1. m.amount \in Amount
  BY DEF Material
<1>2. NextNode[m.amount] \in [Node \cup {"start"} -> Node \cup {"end"}]
  BY <1>1, ApprovalsAssumption
<1>3. QED
  BY <1>2 DEF Walk

\* A fresh instance over a well-typed route is well typed.
LEMMA NewInstanceType ==
    ASSUME NEW route \in Seq(RouteEntry), NEW m \in Material
    PROVE  NewInstance(route, m) \in Instance
  BY DEF NewInstance, Instance, InstanceStatus, NoTask, TaskRow

\* Replacing the newest instance by a well-typed one keeps the sequence well typed.
LEMMA ReplaceType ==
    ASSUME TypeInv, Current \in 1..Len(instances), NEW i \in Instance, AtStep(i), ReplaceCurrent(i)
    PROVE  instances' \in Seq(Instance) /\ \A k \in 1..Len(instances') : AtStep(instances'[k])
  BY DEF TypeInv, TypeOK, ReplaceCurrent

\* An added instance keeps the sequence of instances well typed.
LEMMA AppendType ==
    ASSUME TypeInv, NEW i \in Instance, AtStep(i), instances' = Append(instances, i)
    PROVE  instances' \in Seq(Instance) /\ \A k \in 1..Len(instances') : AtStep(instances'[k])
  BY DEF TypeInv, TypeOK

\* Starting an approval keeps the types.
LEMMA StartForType ==
    ASSUME TypeInv, NEW m \in Material, StartFor(m)
    PROVE  instances' \in Seq(Instance) /\ \A k \in 1..Len(instances') : AtStep(instances'[k])
<1> DEFINE i == NewInstance(<<>>, m)
           n == Walk(m, "start")
<1>1. i \in Instance
  <2>1. <<>> \in Seq(RouteEntry)
    OBVIOUS
  <2>2. QED
    BY <2>1, NewInstanceType
<1>2. n \in Node \cup {"end"}
  BY WalkType
<1>3. Reached(i, n, m) \in Instance /\ AtStep(Reached(i, n, m))
  BY <1>1, <1>2, ReachedType
<1>4. instances' = Append(instances, Reached(i, n, m))
  BY DEF StartFor
<1>5. QED
  BY <1>3, <1>4, AppendType

\* A resumed route is made of the entries of the returned one.
LEMMA CarriedRouteType ==
    ASSUME NEW i \in Instance, i.status # "approved", AtStep(i)
    PROVE  CarriedRoute(i) \in Seq(RouteEntry) /\ i.task.node \in Node
<1> DEFINE c == CHOOSE k \in 1..Len(i.route) : i.route[k].node = i.task.node
<1>1. c \in 1..Len(i.route) /\ i.route[c].node = i.task.node
  BY DEF AtStep
<1>2. Len(i.route) \in Nat /\ \A k \in 1..Len(i.route) : i.route[k] \in RouteEntry
  BY DEF Instance
<1>3. i.task.node \in Node
  BY <1>1, <1>2 DEF RouteEntry
<1> DEFINE e(k) == [i.route[k] EXCEPT !.state = "carried"]
<1>4. \A k \in 1..(c - 1) : e(k) \in RouteEntry
  BY <1>1, <1>2, SMTT(20) DEF RouteEntry
<1>5. CarriedRoute(i) = [k \in 1..(c - 1) |-> e(k)]
  BY DEF CarriedRoute
<1>6. c - 1 \in Nat
  BY <1>1, <1>2
<1> HIDE DEF c, e
<1>7. QED
  BY <1>3, <1>4, <1>5, <1>6

\* Resuming an approval keeps the types.
LEMMA ResumeType ==
    ASSUME TypeInv, Resume
    PROVE  instances' \in Seq(Instance) /\ \A k \in 1..Len(instances') : AtStep(instances'[k])
<1> DEFINE r == instances[Current]
           i == NewInstance(CarriedRoute(r), material)
<1>1. r \in Instance /\ r.status # "approved" /\ AtStep(r)
  BY DEF TypeInv, TypeOK, Resume, Resumable, Current
<1>2. CarriedRoute(r) \in Seq(RouteEntry) /\ r.task.node \in Node
  BY <1>1, CarriedRouteType
<1>3. i \in Instance
  BY <1>2, NewInstanceType DEF TypeInv, TypeOK
<1>4. Opened(i, r.task.node) \in Instance /\ AtStep(Opened(i, r.task.node))
  BY <1>2, <1>3, OpenedType
<1>5. instances' = Append(instances, Opened(i, r.task.node))
  BY DEF Resume
<1>6. QED
  BY <1>4, <1>5, AppendType

\* The terms with the code prepare_decision settles on are terms of the document.
LEMMA PreparedType ==
    ASSUME TypeOK, NEW c \in Prepared
    PROVE  WithCode(material, c) \in Material /\ WithCode(kept, c) \in Material \cup {Nothing}
<1>1. c \in Code
  BY LiveType DEF Prepared, Substitutes, Material
<1>2. QED
  BY <1>1 DEF TypeOK, WithCode, Material

\* An approval keeps the types.
LEMMA ApproveType ==
    ASSUME TypeInv, NEW u \in User, NEW c \in Code, Approve(u, c)
    PROVE  TypeInv'
<1> DEFINE i == instances[Current]
           evidence == TaskDecisions \cup {DecisionBy(u, "approve")}
           done == [i EXCEPT !.task.status = "completed", !.task.outcome = "approved",
                             !.route = MarkStep(i, DecidedBy(u, evidence))]
           n == Walk(material', i.task.node)
<1>1. MayDecide(u) /\ c \in Prepared
  BY DEF Approve
<1>2. /\ Current \in 1..Len(instances) /\ i \in Instance /\ i.task.node \in Node /\ AtStep(i)
      /\ DecisionBy(u, "approve") \in Decision
  BY <1>1, MayDecideType
<1>3. decisions' \in SUBSET Decision /\ evidence \in SUBSET Decision
  BY <1>2 DEF Approve, TypeInv, TypeOK, TaskDecisions
<1>4. DecidedBy(u, evidence) \in SUBSET User
  BY <1>3 DEF DecidedBy, Decision
<1>5. done \in Instance
  <2>1. MarkStep(i, DecidedBy(u, evidence)) \in Seq(RouteEntry)
    BY <1>2, <1>4, MarkStepType
  <2>2. [i.task EXCEPT !.status = "completed", !.outcome = "approved"] \in TaskRow
    BY <1>2 DEF Instance, TaskRow
  <2>3. QED
    BY <1>2, <2>1, <2>2 DEF Instance
<1>6. material' \in Material /\ WithCode(kept, c) \in Material \cup {Nothing}
  BY <1>1, PreparedType DEF Approve, TypeInv
<1>7. n \in Node \cup {"end"}
  BY <1>2, <1>6, WalkType
<1>8. Reached(done, n, material') \in Instance /\ AtStep(Reached(done, n, material'))
  BY <1>5, <1>6, <1>7, ReachedType
<1>9. /\ kept' \in Material \cup {Nothing}
      /\ UNCHANGED instances \/ ReplaceCurrent(Reached(done, n, material'))
  BY <1>6 DEF Approve
<1>10. instances' \in Seq(Instance) /\ \A k \in 1..Len(instances') : AtStep(instances'[k])
  BY <1>2, <1>8, <1>9, ReplaceType DEF TypeInv, TypeOK
<1>11. QED
  BY <1>3, <1>6, <1>9, <1>10 DEF Approve, TypeInv, TypeOK

\* The newest instance of a running approval is an instance.
LEMMA RunningType ==
    ASSUME TypeInv, Running
    PROVE  /\ Current \in 1..Len(instances) /\ instances[Current] \in Instance
           /\ instances[Current].status # "approved" /\ AtStep(instances[Current])
  BY DEF TypeInv, TypeOK, Running, Current

\* Dropping a proposal falls back on terms of the document.
LEMMA DropType ==
    TypeOK /\ DropProposal => material' \in Material /\ kept' \in Material \cup {Nothing}
  BY LiveType DEF DropProposal

\* An instance with its step marked and the same task still stands at that step.
LEMMA MarkedAtStep ==
    ASSUME NEW i \in Instance, i.status # "approved", AtStep(i), NEW by \in SUBSET User, NEW j,
           j.route = MarkStep(i, by), j.task.node = i.task.node
    PROVE  AtStep(j)
  BY MarkStepType DEF AtStep

\* A rejection or a return keeps the types.
LEMMA EndByType ==
    ASSUME TypeInv, NEW u \in User, NEW o \in {"reject", "return"},
           NEW status \in {"rejected", "returned"}, EndBy(u, o, status)
    PROVE  TypeInv'
<1> DEFINE i == instances[Current]
           j == [i EXCEPT !.status = status, !.task.status = "completed",
                          !.task.outcome = status, !.route = MarkStep(i, {u})]
<1>1. MayDecide(u) /\ Running /\ DropProposal /\ ReplaceCurrent(j)
  BY DEF EndBy, MayDecide
<1>2. /\ Current \in 1..Len(instances) /\ i \in Instance
      /\ i.status # "approved" /\ AtStep(i)
  BY <1>1, RunningType
<1>3. MarkStep(i, {u}) \in Seq(RouteEntry)
  BY <1>2, MarkStepType
<1>4. [i.task EXCEPT !.status = "completed", !.outcome = status] \in TaskRow
  BY <1>2 DEF Instance, TaskRow
<1>5. j \in Instance
  BY <1>2, <1>3, <1>4 DEF Instance, InstanceStatus
<1>6. j.route = MarkStep(i, {u}) /\ j.task.node = i.task.node
  BY <1>2 DEF Instance, TaskRow
<1>7. AtStep(j)
  BY <1>2, <1>6, MarkedAtStep
<1>8. instances' \in Seq(Instance) /\ \A k \in 1..Len(instances') : AtStep(instances'[k])
  BY <1>1, <1>2, <1>5, <1>7, ReplaceType
<1>9. decisions' \in SUBSET Decision
  BY <1>1, MayDecideType DEF EndBy, TypeInv, TypeOK
<1>10. material' \in Material /\ kept' \in Material \cup {Nothing}
  BY <1>1, DropType DEF TypeInv
<1>11. QED
  BY <1>8, <1>9, <1>10 DEF EndBy, TypeInv, TypeOK

\* A withdrawal keeps the types.
LEMMA WithdrawType == TypeInv /\ Withdraw => TypeInv'
<1> SUFFICES ASSUME TypeInv, Withdraw PROVE TypeInv'
  OBVIOUS
<1> DEFINE i == instances[Current]
           j == WithdrawnInstance(i)
<1>1. /\ Current \in 1..Len(instances) /\ i \in Instance
      /\ i.status # "approved" /\ AtStep(i)
  BY RunningType DEF Withdraw
<1>2. MarkStep(i, {}) \in Seq(RouteEntry)
  BY <1>1, MarkStepType
<1>3. [i.task EXCEPT !.status = "cancelled"] \in TaskRow
  BY <1>1 DEF Instance, TaskRow
<1>4. j \in Instance
  BY <1>1, <1>2, <1>3 DEF WithdrawnInstance, Instance, InstanceStatus
<1>5. j.route = MarkStep(i, {}) /\ j.task.node = i.task.node
  BY <1>1 DEF WithdrawnInstance, Instance, TaskRow
<1>6. AtStep(j)
  BY <1>1, <1>5, MarkedAtStep
<1>7. instances' \in Seq(Instance) /\ \A k \in 1..Len(instances') : AtStep(instances'[k])
  BY <1>1, <1>4, <1>6, ReplaceType DEF Withdraw
<1>8. material' \in Material /\ kept' \in Material \cup {Nothing}
  BY DropType DEF TypeInv, Withdraw
<1>9. QED
  BY <1>7, <1>8 DEF Withdraw, TypeInv, TypeOK

\* Escalation and reassignment keep the types.
LEMMA TaskChangeType ==
    ASSUME TypeInv, Escalate \/ \E users \in SUBSET User : Reassign(users)
    PROVE  TypeInv'
<1> DEFINE i == instances[Current]
<1>1. /\ Current \in 1..Len(instances) /\ i \in Instance
      /\ i.status # "approved" /\ AtStep(i)
  BY RunningType DEF Escalate, Reassign
<1>2. PICK t \in TaskRow : t.node = i.task.node /\ ReplaceCurrent([i EXCEPT !.task = t])
  <2>1. CASE Escalate
    <3>1. [i.task EXCEPT !.escalated = TRUE] \in TaskRow
      BY <1>1 DEF Instance, TaskRow
    <3>2. QED
      BY <1>1, <2>1, <3>1 DEF Escalate, Instance, TaskRow
  <2>2. CASE \E users \in SUBSET User : Reassign(users)
    <3>1. PICK users \in SUBSET User : Reassign(users)
      BY <2>2
    <3>2. [i.task EXCEPT !.rule = users] \in TaskRow
      BY <1>1 DEF Instance, TaskRow
    <3>3. QED
      BY <1>1, <3>1, <3>2 DEF Reassign, Instance, TaskRow
  <2>3. QED
    BY <2>1, <2>2
<1>3. [i EXCEPT !.task = t] \in Instance /\ AtStep([i EXCEPT !.task = t])
  BY <1>1, <1>2 DEF Instance, AtStep
<1>4. instances' \in Seq(Instance) /\ \A k \in 1..Len(instances') : AtStep(instances'[k])
  BY <1>1, <1>2, <1>3, ReplaceType
<1>5. QED
  BY <1>4 DEF Escalate, Reassign, docVars, TypeInv, TypeOK

\* A change of the code on a live approval keeps the types.
LEMMA RebaseType ==
    ASSUME TypeInv, NEW c \in Code, Rebase(c)
    PROVE  TypeInv'
<1>1. material' \in Material
  BY DEF Rebase, TypeInv, TypeOK, Material
<1> DEFINE new(k) == [instances[k] EXCEPT !.approved = material']
<1>2. ASSUME NEW k \in 1..Len(instances)
      PROVE  new(k) \in Instance /\ AtStep(new(k))
  <2>1. instances[k] \in Instance /\ AtStep(instances[k])
    BY DEF TypeInv, TypeOK
  <2>2. new(k) \in Instance
    BY <1>1, <2>1 DEF Instance
  <2>3. /\ new(k).status = instances[k].status /\ new(k).route = instances[k].route
        /\ new(k).task = instances[k].task
    BY <2>1 DEF Instance
  <2>4. QED
    BY <2>1, <2>2, <2>3 DEF AtStep
<1> DEFINE e(k) == IF k = InForce THEN new(k) ELSE instances[k]
<1>3. instances' = [k \in 1..Len(instances) |-> e(k)]
  <2>1. DOMAIN instances = 1..Len(instances)
    BY DEF TypeInv, TypeOK
  <2>2. instances' = [instances EXCEPT ![InForce].approved = material']
    BY DEF Rebase
  <2>3. instances' = [k \in DOMAIN instances |-> e(k)]
    BY <2>2, Zenon
  <2>4. QED
    BY <2>1, <2>3, Zenon
<1>4. Len(instances) \in Nat /\ \A k \in 1..Len(instances) : e(k) \in Instance /\ AtStep(e(k))
  BY <1>2 DEF TypeInv, TypeOK
<1> HIDE DEF e
<1>5. instances' \in Seq(Instance) /\ \A k \in 1..Len(instances') : AtStep(instances'[k])
  BY <1>3, <1>4
<1>6. QED
  BY <1>1, <1>5 DEF Rebase, TypeInv, TypeOK

\* A submission, a resumption and an amendment keep the types.
LEMMA StartType ==
    ASSUME TypeInv, Start \/ Resume \/ \E m \in Material : Amend(m)
    PROVE  TypeInv'
<1>1. CASE Start
  BY <1>1, StartForType DEF Start, StartFor, TypeInv, TypeOK
<1>2. CASE Resume
  BY <1>2, ResumeType DEF Resume, docVars, TypeInv, TypeOK
<1>3. ASSUME NEW m \in Material, Amend(m) PROVE TypeInv'
  <2>1. StartFor(m) /\ material' = m /\ kept' \in {Nothing, material}
    BY <1>3 DEF Amend
  <2>2. QED
    BY <2>1, StartForType DEF StartFor, TypeInv, TypeOK
<1>4. QED
  BY <1>1, <1>2, <1>3

\* The type invariant holds of a new document ...
LEMMA TypeInit == Init => TypeInv
  BY DEF Init, TypeInv, TypeOK

\* ... and every step keeps it.
LEMMA TypeStep == TypeInv /\ [Next]_vars => TypeInv'
<1> SUFFICES ASSUME TypeInv, [Next]_vars PROVE TypeInv'
  OBVIOUS
<1>1. CASE Start \/ Resume \/ \E m \in Material : Amend(m)
  BY <1>1, StartType
<1>2. CASE \E u \in User, c \in Code : Approve(u, c)
  BY <1>2, ApproveType
<1>3. CASE \E u \in User : Reject(u) \/ Return(u)
  BY <1>3, EndByType DEF Reject, Return
<1>4. CASE Withdraw
  BY <1>4, WithdrawType
<1>5. CASE Escalate \/ \E users \in SUBSET User : Reassign(users)
  BY <1>5, TaskChangeType
<1>6. CASE \E c \in Code : Rebase(c)
  BY <1>6, RebaseType
<1>7. ASSUME NEW u \in User, ChangeHolder(u) PROVE TypeInv'
  BY <1>7 DEF ChangeHolder, docVars, TypeInv, TypeOK
<1>8. ASSUME NEW m \in Material, Edit(m) PROVE TypeInv'
  BY <1>8 DEF Edit, TypeInv, TypeOK
<1>9. ASSUME NEW c \in Code, ChangeCode(c) PROVE TypeInv'
  BY <1>9 DEF ChangeCode, TypeInv, TypeOK
<1>10. ASSUME NEW a \in User, NEW b \in User, Delegate(a, b) PROVE TypeInv'
  BY <1>10 DEF Delegate, docVars, TypeInv, TypeOK
<1>11. ASSUME NEW k \in 1..MaxCover, EndDelegation(k) PROVE TypeInv'
  <2>1. k \in 1..Len(cover) /\ cover \in Seq([delegator : User, delegate : User])
    BY <1>11 DEF EndDelegation, TypeInv, TypeOK
  <2>2. cover' = SubSeq(cover, 1, k - 1) \o SubSeq(cover, k + 1, Len(cover))
    BY <1>11 DEF EndDelegation
  <2>3. cover' \in Seq([delegator : User, delegate : User])
    BY <2>1, <2>2, DroppedEntry
  <2>4. QED
    BY <1>11, <2>3 DEF EndDelegation, docVars, TypeInv, TypeOK
<1>12. CASE UNCHANGED vars
  BY <1>12 DEF vars, TypeInv, TypeOK
<1>13. QED
  BY <1>1, <1>2, <1>3, <1>4, <1>5, <1>6, <1>7, <1>8, <1>9, <1>10, <1>11, <1>12 DEF Next

\* Every reachable state is well typed: decisions are made at nodes by and for
\* users, and a resumed route is made of the entries of the returned one.
THEOREM TypeCorrect == Spec => []TypeOK
<1>1. Spec => []TypeInv
  BY TypeInit, TypeStep, PTL DEF Spec
<1>2. TypeInv => TypeOK
  BY DEF TypeInv
<1>3. QED
  BY <1>1, <1>2, PTL

-----------------------------------------------------------------------------
(* Safety.                                                                   *)

\* With separation of duty no decision of any approval of the document, decided
\* through effective_members, is made by or for its requester.
THEOREM RequesterKeptApart == Spec => []RequesterApart
<1>1. Init => RequesterApart
  BY DEF Init, RequesterApart
<1>2. TypeInv /\ RequesterApart /\ [Next]_vars => RequesterApart'
  <2> SUFFICES ASSUME TypeInv, RequesterApart, [Next]_vars PROVE RequesterApart'
    OBVIOUS
  <2>1. CASE UNCHANGED decisions
    BY <2>1 DEF RequesterApart
  <2>2. ASSUME NEW u \in User, NEW o \in {"approve", "reject", "return"}, MayDecide(u),
               decisions' = decisions \cup {DecisionBy(u, o)}
        PROVE  RequesterApart'
    BY <2>2, DeciderApart DEF RequesterApart, DecisionBy, TypeInv, TypeOK
  <2>3. QED
    BY <2>1, <2>2, DecisionsGrow
<1>3. Spec => []TypeInv
  BY TypeInit, TypeStep, PTL DEF Spec
<1>4. QED
  BY <1>1, <1>2, <1>3, PTL DEF Spec

\* On one step of one approval nobody decides twice, in person or for others, and
\* nobody is decided for twice: decide refuses what AlreadyDecided describes.
THEOREM NobodyDecidesTwice == Spec => []DecidersDistinct
<1>1. Init => DecidersDistinct
  BY DEF Init, DecidersDistinct
<1>2. DecidersDistinct /\ [Next]_vars => DecidersDistinct'
  <2> SUFFICES ASSUME DecidersDistinct, [Next]_vars PROVE DecidersDistinct'
    OBVIOUS
  <2>1. CASE UNCHANGED decisions
    BY <2>1 DEF DecidersDistinct
  <2>2. ASSUME NEW u \in User, NEW o \in {"approve", "reject", "return"}, MayDecide(u),
               decisions' = decisions \cup {DecisionBy(u, o)}
        PROVE  DecidersDistinct'
    <3> DEFINE new == DecisionBy(u, o)
    <3>1. ASSUME NEW d \in decisions, d.instance = new.instance, d.node = new.node
          PROVE  d.actor # new.actor /\ d.principal # new.principal
      BY <2>2, <3>1 DEF MayDecide, AlreadyDecided, TaskDecisions, DecisionBy
    <3>2. QED
      BY <2>2, <3>1 DEF DecidersDistinct
  <2>3. QED
    BY <2>1, <2>2, DecisionsGrow
<1>3. QED
  BY <1>1, <1>2, PTL DEF Spec

-----------------------------------------------------------------------------
(* The amount in force.                                                      *)

\* What keeps the approved amount in force: only the newest approval runs, an
\* amendment sets the requisition's own terms aside, and the newest approved
\* approval has their amount.
ForceInv ==
    /\ \A k \in 1..Len(instances) : instances[k].status # "superseded"
    /\ \A k \in 1..(Len(instances) - 1) : instances[k].status # "running"
    /\ kept # Nothing => Running
    /\ Running /\ kept = Nothing => \A k \in 1..Len(instances) : instances[k].status # "approved"
    /\ \A k \in 1..Len(instances) :
         /\ instances[k].status = "approved"
         /\ \A l \in (k + 1)..Len(instances) : instances[l].status # "approved"
         => instances[k].approved.amount = Live.amount

\* A nonempty set of positions of a sequence has a last one.
LEMMA Largest ==
    ASSUME NEW n \in Nat, NEW T \in SUBSET (1..n), T # {}
    PROVE  \E x \in T : \A y \in T : y <= x
<1> DEFINE U == {n - x : x \in T}
<1>1. U \in SUBSET Nat /\ U # {}
  <2>1. \A x \in T : n - x \in Nat
    OBVIOUS
  <2>2. PICK x \in T : TRUE
    OBVIOUS
  <2>3. n - x \in U
    BY <2>2
  <2>4. QED
    BY <2>1, <2>3
<1>2. PICK u \in U : \A v \in U : u <= v
  BY <1>1, Smallest
<1>3. PICK x \in T : u = n - x
  BY <1>2
<1>4. ASSUME NEW y \in T PROVE y <= x
  <2>1. n - x <= n - y
    BY <1>2, <1>3
  <2>2. QED
    BY <2>1
<1>5. QED
  BY <1>4

\* _in_force finds the newest approved approval, and none beside a running one.
LEMMA InForceIs ==
    ASSUME TypeInv, ForceInv
    PROVE  /\ ApprovedInForce =>
                /\ ~Running /\ kept = Nothing
                /\ InForce \in 1..Len(instances) /\ instances[InForce].status = "approved"
                /\ \A l \in (InForce + 1)..Len(instances) : instances[l].status # "approved"
                /\ instances[InForce].approved.amount = material.amount
           /\ ~Running /\ ~ApprovedInForce =>
                \A k \in 1..Len(instances) : instances[k].status # "approved"
<1> DEFINE shown ==
             {k \in 1..Current : instances[k].status \in {"running", "approved", "superseded"}}
<1>1. Len(instances) \in Nat /\ Current = Len(instances)
  BY DEF TypeInv, TypeOK, Current
<1>2. shown # {} => InForce \in shown /\ \A l \in shown : l <= InForce
  <2>1. shown # {} => \E k \in shown : \A l \in shown : l <= k
    BY <1>1, Largest
  <2>2. shown # {} => InForce = CHOOSE k \in shown : \A l \in shown : l <= k
    BY DEF InForce
  <2>3. QED
    BY <2>1, <2>2
<1>3. shown = {} => InForce = Current
  BY DEF InForce
<1>4. ASSUME ApprovedInForce
      PROVE  /\ InForce \in 1..Len(instances) /\ instances[InForce].status = "approved"
             /\ \A l \in (InForce + 1)..Len(instances) :
                  instances[l].status \notin {"approved", "running"}
             /\ ~Running
  <2>1. instances # <<>> /\ instances[InForce].status = "approved"
    BY <1>4 DEF ApprovedInForce
  <2>2. Current \in 1..Current
    BY <1>1, <2>1 DEF TypeInv, TypeOK
  <2>3. shown # {}
    BY <1>3, <2>1, <2>2
  <2>4. InForce \in shown /\ \A l \in shown : l <= InForce
    BY <1>2, <2>3
  <2>5. \A l \in (InForce + 1)..Len(instances) : l \notin shown
    BY <1>1, <2>4
  <2>6. \A l \in (InForce + 1)..Len(instances) : instances[l].status \notin {"approved", "running"}
    BY <1>1, <2>4, <2>5
  <2>7. ~Running
    BY <1>1, <2>1, <2>4, <2>6 DEF Running
  <2>8. QED
    BY <1>1, <2>1, <2>4, <2>6, <2>7
<1>5. ASSUME ApprovedInForce
      PROVE  kept = Nothing /\ instances[InForce].approved.amount = material.amount
  BY <1>4, <1>5 DEF ForceInv, Live
<1>6. ASSUME ~Running, NEW k \in 1..Len(instances), instances[k].status = "approved"
      PROVE  ApprovedInForce
  <2>1. k \in shown
    BY <1>1, <1>6
  <2>2. InForce \in shown
    BY <1>2, <2>1
  <2>3. instances # <<>>
    BY <1>1
  <2>4. instances[InForce].status \notin {"running", "superseded"}
    BY <1>1, <1>6, <2>2, <2>3 DEF ForceInv, Running
  <2>5. QED
    BY <2>2, <2>3, <2>4 DEF ApprovedInForce
<1>7. QED
  BY <1>4, <1>5, <1>6

\* Starting an approval, of a draft or of an amendment's proposal.
LEMMA ForceAppend ==
    ASSUME TypeInv, ForceInv, ~Running, NEW j \in Instance, j.status \in {"running", "approved"},
           instances' = Append(instances, j),
           j.status = "approved" => kept' = Nothing /\ j.approved.amount = material'.amount,
           j.status = "running" =>
             \/ ~ApprovedInForce /\ kept' = Nothing
             \/ ApprovedInForce /\ kept' = material
    PROVE  ForceInv'
<1>1. /\ Len(instances) \in Nat /\ Len(instances') = Len(instances) + 1
      /\ \A k \in 1..Len(instances) : instances'[k] = instances[k]
      /\ instances'[Len(instances) + 1] = j
  BY DEF TypeInv, TypeOK
<1>2. \A k \in 1..Len(instances) : instances[k].status # "running"
  <2>1. instances # <<>> => instances[Len(instances)].status # "running"
    BY DEF Running, Current
  <2>2. QED
    BY <1>1, <2>1 DEF ForceInv
<1>3. Running' <=> j.status = "running"
  BY <1>1 DEF Running, Current
<1>4. material \in Material /\ material # Nothing
  BY ApprovalsAssumption DEF TypeInv, TypeOK, Material, Nothing
<1>5. j.status = "running" /\ kept' = Nothing =>
        \A k \in 1..Len(instances) : instances[k].status # "approved"
  BY <1>4, InForceIs
<1>6. ASSUME NEW k \in 1..Len(instances'), instances'[k].status = "approved",
             \A l \in (k + 1)..Len(instances') : instances'[l].status # "approved"
      PROVE  instances'[k].approved.amount = (Live.amount)'
  <2>1. CASE k = Len(instances) + 1
    BY <1>1, <1>6, <2>1 DEF Live
  <2>2. CASE k \in 1..Len(instances)
    <3>1. Len(instances) + 1 \in (k + 1)..Len(instances')
      BY <1>1, <2>2
    <3>2. j.status = "running"
      BY <1>1, <1>6, <3>1
    <3>3. kept' = material /\ ApprovedInForce
      BY <1>1, <1>5, <1>6, <2>2, <3>2
    <3>4. \A l \in (k + 1)..Len(instances) : instances[l].status # "approved"
      BY <1>1, <1>6, <2>2
    <3>5. instances[k].approved.amount = Live.amount /\ kept = Nothing
      BY <1>1, <1>6, <2>2, <3>3, <3>4, InForceIs DEF ForceInv
    <3>6. QED
      BY <1>1, <1>4, <2>2, <3>3, <3>5 DEF Live
  <2>3. QED
    BY <1>1, <2>1, <2>2
<1>7. \A k \in 1..Len(instances') : instances'[k].status # "superseded"
  BY <1>1 DEF ForceInv
<1>8. kept' # Nothing => Running'
  BY <1>3
<1>9. Running' /\ kept' = Nothing => \A k \in 1..Len(instances') : instances'[k].status # "approved"
  BY <1>1, <1>3, <1>5
<1>10. QED
  BY <1>1, <1>2, <1>6, <1>7, <1>8, <1>9, SMTT(20) DEF ForceInv

\* Neither the requisition's amount changes nor whether an amendment is pending.
AmountKept == Live'.amount = Live.amount /\ (kept' = Nothing <=> kept = Nothing)

\* The running approval goes on, is approved, or ends and drops its proposal.
LEMMA ForceReplace ==
    ASSUME TypeInv, ForceInv, Running, NEW j \in Instance,
           ReplaceCurrent(j),
           \/ j.status = "running" /\ AmountKept
           \/ /\ j.status = "approved" /\ kept' = Nothing
              /\ j.approved.amount = material'.amount
           \/ j.status \in {"rejected", "returned", "withdrawn"} /\ DropProposal
    PROVE  ForceInv'
<1>1. /\ Len(instances) \in Nat /\ Len(instances) > 0 /\ Len(instances') = Len(instances)
      /\ \A k \in 1..(Len(instances) - 1) : instances'[k] = instances[k]
      /\ instances'[Len(instances)] = j /\ Current = Len(instances)
      /\ instances[Len(instances)].status = "running" /\ instances # <<>> /\ instances' # <<>>
  BY DEF ReplaceCurrent, TypeInv, TypeOK, Running, Current
<1>2. Running' <=> j.status = "running"
  BY <1>1 DEF Running, Current
<1>3. \A k \in 1..Len(instances') : instances'[k].status # "superseded"
  BY <1>1 DEF ForceInv
<1>4. \A k \in 1..(Len(instances') - 1) : instances'[k].status # "running"
  BY <1>1 DEF ForceInv
<1>5. kept' # Nothing => Running'
  BY <1>2 DEF ForceInv, DropProposal
<1>6. Running' /\ kept' = Nothing => \A k \in 1..Len(instances') : instances'[k].status # "approved"
  BY <1>1, <1>2 DEF ForceInv, AmountKept
<1>7. ASSUME NEW k \in 1..Len(instances'), instances'[k].status = "approved",
             \A l \in (k + 1)..Len(instances') : instances'[l].status # "approved"
      PROVE  instances'[k].approved.amount = (Live.amount)'
  <2>1. CASE k = Len(instances)
    BY <1>1, <1>7, <2>1 DEF Live
  <2>2. CASE k \in 1..(Len(instances) - 1)
    <3>1. Len(instances) \in (k + 1)..Len(instances')
      BY <1>1, <2>2
    <3>2. j.status # "approved"
      BY <1>1, <1>7, <3>1
    <3>3. \A l \in (k + 1)..Len(instances) : instances[l].status # "approved"
      BY <1>1, <1>7, <2>2
    <3>4. instances[k].approved.amount = Live.amount
      BY <1>1, <1>7, <2>2, <3>3 DEF ForceInv
    <3>5. Live'.amount = Live.amount
      BY <3>2 DEF AmountKept, DropProposal, Live
    <3>6. QED
      BY <1>1, <2>2, <3>4, <3>5
  <2>3. QED
    BY <1>1, <2>1, <2>2
<1>8. QED
  BY <1>3, <1>4, <1>5, <1>6, <1>7 DEF ForceInv

\* What leaves the approvals alone keeps the amount, or edits a draft.
LEMMA ForceQuiet ==
    ASSUME TypeInv, ForceInv, UNCHANGED instances,
           AmountKept \/ (~Running /\ ~ApprovedInForce /\ kept' = kept)
    PROVE  ForceInv'
<1>1. CASE AmountKept
  BY <1>1 DEF AmountKept, ForceInv, Running, Current
<1>2. CASE ~Running /\ ~ApprovedInForce /\ kept' = kept
  <2>1. \A k \in 1..Len(instances) : instances[k].status # "approved"
    BY <1>2, InForceIs
  <2>2. QED
    BY <1>2, <2>1 DEF ForceInv, Running, Current
<1>3. QED
  BY <1>1, <1>2

\* A substitution restamps the approval in force with the same amount.
LEMMA ForceRebase ==
    ASSUME TypeInv, ForceInv, NEW c \in Code, Rebase(c)
    PROVE  ForceInv'
<1>1. /\ ApprovedInForce /\ material' = [material EXCEPT !.code = c] /\ kept' = kept
      /\ instances' = [instances EXCEPT ![InForce].approved = material']
  BY DEF Rebase
<1>2. /\ InForce \in 1..Len(instances) /\ kept = Nothing
      /\ instances[InForce].approved.amount = material.amount
  BY <1>1, InForceIs
<1>3. material'.amount = material.amount
  BY <1>1 DEF TypeInv, TypeOK, Material
<1>4. /\ Len(instances') = Len(instances) /\ Len(instances) \in Nat
      /\ \A k \in 1..Len(instances) :
           /\ instances'[k].status = instances[k].status
           /\ instances'[k].approved.amount =
                IF k = InForce THEN material'.amount ELSE instances[k].approved.amount
  <2>1. \A k \in 1..Len(instances) : instances[k] \in Instance
    BY DEF TypeInv, TypeOK
  <2>2. QED
    BY <1>1, <1>2, <2>1 DEF TypeInv, TypeOK, Instance
<1>5. \A k \in 1..Len(instances) : instances'[k].approved.amount = instances[k].approved.amount
  BY <1>2, <1>3, <1>4
<1>6. AmountKept
  BY <1>1, <1>2, <1>3 DEF AmountKept, Live
<1>7. Running' <=> Running
  <2>1. instances' = <<>> <=> instances = <<>>
    BY <1>1, <1>2, <1>4 DEF TypeInv, TypeOK
  <2>2. QED
    BY <1>4, <2>1 DEF Running, Current, TypeInv, TypeOK
<1>8. QED
  BY <1>1, <1>4, <1>5, <1>6, <1>7 DEF ForceInv, AmountKept

\* A code written to the terms leaves their amounts alone.
LEMMA CodeKeepsAmount ==
    ASSUME TypeInv, NEW c \in Prepared
    PROVE  /\ WithCode(material, c) \in Material
           /\ WithCode(material, c).amount = material.amount
           /\ WithCode(kept, c) = Nothing <=> kept = Nothing
           /\ WithCode(kept, c).amount = kept.amount
<1>1. material \in Material /\ kept \in Material \cup {Nothing} /\ TypeOK
  BY DEF TypeInv, TypeOK
<1>2. Nothing \notin Material
  BY ApprovalsAssumption DEF Material, Nothing
<1>3. /\ WithCode(material, c) \in Material
      /\ WithCode(kept, c) \in Material \cup {Nothing}
  BY <1>1, PreparedType
<1>4. WithCode(material, c) \in {material, [material EXCEPT !.code = c]}
  BY DEF WithCode
<1>5. CASE kept = Nothing
  BY <1>1, <1>3, <1>4, <1>5 DEF WithCode, Material
<1>6. CASE kept # Nothing
  <2>1. kept \in Material /\ WithCode(kept, c) \in {kept, [kept EXCEPT !.code = c]}
    BY <1>1, <1>6 DEF WithCode
  <2>2. WithCode(kept, c).amount = kept.amount /\ WithCode(kept, c) # Nothing
    <3>1. [kept EXCEPT !.code = c].amount = kept.amount /\ kept.amount \in Amount
      BY <2>1 DEF Material
    <3>2. 0 \notin Amount /\ Nothing.amount = 0
      BY ApprovalsAssumption DEF Nothing
    <3>3. QED
      BY <2>1, <3>1, <3>2
  <2>3. QED
    BY <1>1, <1>3, <1>4, <1>6, <2>2 DEF Material
<1>7. QED
  BY <1>5, <1>6

\* An approval whose step is complete, decided by the given people.
Completed(i, by) ==
    [i EXCEPT !.task.status = "completed", !.task.outcome = "approved", !.route = MarkStep(i, by)]

\* The approval a decision leaves, and what it does to the terms.
LEMMA ApproveEffect ==
    ASSUME TypeInv, NEW u \in User, NEW c \in Code, Approve(u, c)
    PROVE  /\ MayDecide(u) /\ Running /\ material' \in Material
           /\ material'.amount = material.amount
           /\ decisions' = decisions \cup {DecisionBy(u, "approve")}
           /\ \/ UNCHANGED instances /\ AmountKept
              \/ \E by \in SUBSET User :
                   LET done == Completed(instances[Current], by)
                       n == Walk(material', instances[Current].task.node) IN
                   /\ by = DecidedBy(u, TaskDecisions \cup {DecisionBy(u, "approve")})
                   /\ done \in Instance /\ n \in Node \cup {"end"}
                   /\ ReplaceCurrent(Reached(done, n, material'))
                   /\ IF n = "end" THEN kept' = Nothing ELSE AmountKept
<1> DEFINE i == instances[Current]
           evidence == TaskDecisions \cup {DecisionBy(u, "approve")}
           by == DecidedBy(u, evidence)
           done == Completed(i, by)
           n == Walk(material', i.task.node)
<1>1. MayDecide(u) /\ Running /\ c \in Prepared /\ material' = WithCode(material, c)
  BY DEF Approve, MayDecide
<1>2. /\ Current \in 1..Len(instances) /\ i \in Instance /\ i.task.node \in Node
      /\ DecisionBy(u, "approve") \in Decision
  BY <1>1, MayDecideType
<1>3. material' \in Material /\ material'.amount = material.amount
  BY <1>1, CodeKeepsAmount
<1>4. kept' = WithCode(kept, c) => AmountKept
  BY <1>1, <1>3, CodeKeepsAmount DEF AmountKept, Live
<1>5. by \in SUBSET User
  BY <1>2 DEF DecidedBy, Decision, TaskDecisions, TypeInv, TypeOK
<1>6. done \in Instance
  <2>1. MarkStep(i, by) \in Seq(RouteEntry)
    BY <1>2, <1>5, MarkStepType
  <2>2. [i.task EXCEPT !.status = "completed", !.outcome = "approved"] \in TaskRow
    BY <1>2 DEF Instance, TaskRow
  <2>3. QED
    BY <1>2, <2>1, <2>2 DEF Completed, Instance
<1>7. n \in Node \cup {"end"}
  BY <1>2, <1>3, WalkType
<1>8. \/ UNCHANGED instances /\ kept' = WithCode(kept, c)
      \/ /\ ReplaceCurrent(Reached(done, n, material'))
         /\ kept' = IF n = "end" THEN Nothing ELSE WithCode(kept, c)
  BY DEF Approve, Completed
<1>9. decisions' = decisions \cup {DecisionBy(u, "approve")}
  BY DEF Approve
<1> HIDE DEF i, evidence, by, done, n
<1>10. CASE UNCHANGED instances /\ kept' = WithCode(kept, c)
  BY <1>1, <1>3, <1>4, <1>9, <1>10
<1>11. CASE /\ ReplaceCurrent(Reached(done, n, material'))
            /\ kept' = IF n = "end" THEN Nothing ELSE WithCode(kept, c)
  <2>1. /\ ReplaceCurrent(Reached(done, n, material'))
        /\ IF n = "end" THEN kept' = Nothing ELSE AmountKept
    BY <1>4, <1>11
  <2>2. QED
    BY <1>1, <1>3, <1>5, <1>6, <1>7, <1>9, <2>1 DEF i, evidence, by, done, n
<1>12. QED
  BY <1>8, <1>10, <1>11

\* The status a reached node leaves the approval in.
LEMMA ReachedStatus ==
    ASSUME NEW i \in Instance, NEW n, NEW m
    PROVE  /\ n = "end" => /\ Reached(i, n, m).status = "approved"
                           /\ Reached(i, n, m).approved = m
           /\ n # "end" => Reached(i, n, m).status = i.status
  BY DEF Reached, Opened, Instance

LEMMA ForceInit == Init => ForceInv
  BY DEF Init, ForceInv, Running

LEMMA ForceStep == TypeInv /\ ForceInv /\ [Next]_vars => ForceInv'
<1> SUFFICES ASSUME TypeInv, ForceInv, [Next]_vars PROVE ForceInv'
  OBVIOUS
<1> DEFINE cur == instances[Current]
<1>1. ASSUME NEW m \in Material, StartFor(m),
             \/ Draft /\ UNCHANGED <<material, kept>> /\ m = material
             \/ Amend(m)
      PROVE  ForceInv'
  <2> DEFINE i == NewInstance(<<>>, m)
             n == Walk(m, "start")
  <2>1. <<>> \in Seq(RouteEntry) /\ i \in Instance /\ n \in Node \cup {"end"}
    <3>1. <<>> \in Seq(RouteEntry)
      OBVIOUS
    <3>2. QED
      BY <3>1, NewInstanceType, WalkType
  <2>2. /\ Reached(i, n, m) \in Instance /\ instances' = Append(instances, Reached(i, n, m))
        /\ i.status = "running"
    BY <1>1, <2>1, ReachedType DEF StartFor, NewInstance
  <2>3. /\ Reached(i, n, m).status \in {"running", "approved"}
        /\ Reached(i, n, m).status = "approved" => Reached(i, n, m).approved = m
    BY <2>1, <2>2, ReachedStatus
  <2>4. CASE Draft /\ UNCHANGED <<material, kept>> /\ m = material
    <3>1. ~Running /\ ~ApprovedInForce /\ kept' = Nothing
      BY <2>4 DEF Draft, ForceInv
    <3>2. QED
      BY <2>2, <2>3, <2>4, <3>1, ForceAppend
  <2>5. CASE Amend(m)
    <3>1. ApprovedInForce /\ material' = m /\ ~Running
      BY <2>5, InForceIs DEF Amend
    <3>2. kept' = IF instances'[Current + 1].status = "approved" THEN Nothing ELSE material
      BY <2>5 DEF Amend
    <3>3. instances'[Current + 1] = Reached(i, n, m)
      BY <2>2 DEF Current, TypeInv, TypeOK
    <3> HIDE DEF i, n
    <3>4. QED
      BY <2>2, <2>3, <3>1, <3>2, <3>3, ForceAppend
  <2>6. QED
    BY <1>1, <2>4, <2>5
<1>2. CASE Start \/ \E m \in Material : Amend(m)
  <2>1. material \in Material
    BY DEF TypeInv, TypeOK
  <2>2. QED
    BY <1>1, <1>2, <2>1 DEF Start, Amend
<1>3. CASE Resume
  <2> DEFINE i == NewInstance(CarriedRoute(cur), material)
  <2>1. cur \in Instance /\ cur.status # "approved" /\ AtStep(cur)
    BY <1>3 DEF TypeInv, TypeOK, Resume, Resumable, Current
  <2>2. CarriedRoute(cur) \in Seq(RouteEntry) /\ cur.task.node \in Node
    BY <2>1, CarriedRouteType
  <2>3. i \in Instance /\ i.status = "running"
    BY <2>2, NewInstanceType DEF TypeInv, TypeOK, NewInstance
  <2>4. Opened(i, cur.task.node) \in Instance /\ Opened(i, cur.task.node).status = "running"
    BY <2>2, <2>3, OpenedType DEF Opened, Instance
  <2>5. instances' = Append(instances, Opened(i, cur.task.node))
    BY <1>3 DEF Resume
  <2>6. ~Running /\ ~ApprovedInForce /\ kept' = Nothing
    BY <1>3 DEF Resume, Draft, docVars, ForceInv
  <2> HIDE DEF i
  <2>7. QED
    BY <2>4, <2>5, <2>6, ForceAppend
<1>4. ASSUME NEW u \in User, NEW c \in Code, Approve(u, c) PROVE ForceInv'
  <2>1. Running
    BY <1>4, ApproveEffect
  <2>2. CASE UNCHANGED instances /\ AmountKept
    BY <2>2, ForceQuiet
  <2>3. ASSUME NEW d \in Instance, NEW n \in Node \cup {"end"}, d.status = cur.status,
               material' \in Material, ReplaceCurrent(Reached(d, n, material')),
               IF n = "end" THEN kept' = Nothing ELSE AmountKept
        PROVE  ForceInv'
    <3>1. Reached(d, n, material') \in Instance
      BY <2>3, ReachedType
    <3>2. n # "end" => Reached(d, n, material').status = "running"
      BY <2>1, <2>3, ReachedStatus DEF Running
    <3>3. n = "end" => /\ Reached(d, n, material').status = "approved"
                       /\ Reached(d, n, material').approved = material'
      BY <2>3, ReachedStatus
    <3>4. QED
      BY <2>1, <2>3, <3>1, <3>2, <3>3, ForceReplace
  <2>4. ASSUME NEW by
        PROVE  Completed(cur, by).status = cur.status
    BY <2>1, RunningType DEF Completed, Instance
  <2>5. QED
    BY <1>4, <2>2, <2>3, <2>4, ApproveEffect
<1>5. ASSUME NEW j \in Instance, j.status \in {"rejected", "returned", "withdrawn"},
             Running, ReplaceCurrent(j), DropProposal
      PROVE  ForceInv'
  BY <1>5, ForceReplace
<1>6. CASE \E u \in User : Reject(u) \/ Return(u)
  <2>1. PICK u \in User, o \in {"reject", "return"}, status \in {"rejected", "returned"} :
             EndBy(u, o, status)
    BY <1>6 DEF Reject, Return
  <2>2. PICK j : /\ j.status = status /\ ReplaceCurrent(j) /\ j \in Instance
    <3> DEFINE j == [cur EXCEPT !.status = status, !.task.status = "completed",
                                !.task.outcome = status, !.route = MarkStep(cur, {u})]
    <3>1. Running /\ cur \in Instance
      BY <2>1, RunningType DEF EndBy, MayDecide
    <3>2. MarkStep(cur, {u}) \in Seq(RouteEntry)
      BY <3>1, MarkStepType
    <3>3. [cur.task EXCEPT !.status = "completed", !.outcome = status] \in TaskRow
      BY <3>1 DEF Instance, TaskRow
    <3>4. j \in Instance /\ j.status = status
      BY <3>1, <3>2, <3>3 DEF Instance, InstanceStatus
    <3>5. ReplaceCurrent(j)
      BY <2>1 DEF EndBy
    <3> HIDE DEF j
    <3>6. QED
      BY <3>4, <3>5
  <2>3. Running /\ DropProposal
    BY <2>1 DEF EndBy, MayDecide
  <2>4. QED
    BY <1>5, <2>2, <2>3
<1>7. CASE Withdraw
  <2> DEFINE j == WithdrawnInstance(cur)
  <2>1. Running /\ DropProposal /\ ReplaceCurrent(j) /\ cur \in Instance
    BY <1>7, RunningType DEF Withdraw
  <2>2. MarkStep(cur, {}) \in Seq(RouteEntry)
    BY <2>1, MarkStepType
  <2>3. [cur.task EXCEPT !.status = "cancelled"] \in TaskRow
    BY <2>1 DEF Instance, TaskRow
  <2>4. j \in Instance /\ j.status = "withdrawn"
    BY <2>1, <2>2, <2>3 DEF WithdrawnInstance, Instance, InstanceStatus
  <2> HIDE DEF j
  <2>5. QED
    BY <1>5, <2>1, <2>4
<1>8. CASE Escalate \/ \E users \in SUBSET User : Reassign(users)
  <2>1. Running /\ UNCHANGED docVars /\ cur \in Instance /\ cur.status = "running"
    BY <1>8, RunningType DEF Escalate, Reassign, Running
  <2>2. PICK j \in Instance : j.status = "running" /\ ReplaceCurrent(j)
    <3>1. CASE Escalate
      BY <2>1, <3>1 DEF Escalate, Instance, TaskRow
    <3>2. CASE \E users \in SUBSET User : Reassign(users)
      BY <2>1, <3>2 DEF Reassign, Instance, TaskRow
    <3>3. QED
      BY <1>8, <3>1, <3>2
  <2>3. AmountKept
    BY <2>1 DEF AmountKept, docVars, Live
  <2>4. QED
    BY <2>1, <2>2, <2>3, ForceReplace
<1>9. CASE \E c \in Code : Rebase(c)
  BY <1>9, ForceRebase
<1>10. CASE \E m \in Material : Edit(m)
  BY <1>10, ForceQuiet DEF Edit, Draft
<1>11. ASSUME UNCHANGED <<instances, material, kept>> PROVE ForceInv'
  BY <1>11, ForceQuiet DEF AmountKept, Live
<1>12. CASE \/ \E u \in User : ChangeHolder(u)
            \/ \E c \in Code : ChangeCode(c)
            \/ \E a, b \in User : Delegate(a, b)
            \/ \E k \in 1..MaxCover : EndDelegation(k)
            \/ UNCHANGED vars
  BY <1>11, <1>12 DEF ChangeHolder, ChangeCode, Delegate, EndDelegation, docVars, vars
<1>13. QED
  BY <1>2, <1>3, <1>4, <1>6, <1>7, <1>8, <1>9, <1>10, <1>12 DEF Next

\* While no amendment is pending, the requisition's amount is the approved one,
\* whatever amendments failed, codes were substituted or approvals resumed.
THEOREM ApprovedAmountStands == Spec => []AmountInForce
<1>1. TypeInv /\ ForceInv => AmountInForce
  BY InForceIs DEF AmountInForce
<1>2. QED
  BY TypeInit, TypeStep, ForceInit, ForceStep, <1>1, PTL DEF Spec

-----------------------------------------------------------------------------
(* The route of an approval.                                                 *)

\* A route follows the graph for amount a.
OnPath(route, a) ==
    \A j \in 1..Len(route) :
        NextNode[a][IF j = 1 THEN "start" ELSE route[j - 1].node] = route[j].node

LastNode(route) == IF route = <<>> THEN "start" ELSE route[Len(route)].node

\* The first e steps of a route were decided by somebody.
DecidedUpTo(route, e) == \A j \in 1..e : route[j].by # {}

\* An approval follows the graph for the amount it was started for; a running or
\* returned one stands at the last step of its route, an approved one is past it.
RouteOK(i) ==
    /\ OnPath(i.route, i.digest.amount)
    /\ i.status \in {"running", "returned"} =>
         /\ i.route # <<>>
         /\ LastNode(i.route) = i.task.node
         /\ i.route[Len(i.route)].state # "carried"
         /\ DecidedUpTo(i.route, Len(i.route) - 1)
    /\ i.status = "approved" =>
         /\ i.approved.amount = i.digest.amount
         /\ NextNode[i.digest.amount][LastNode(i.route)] = "end"
         /\ DecidedUpTo(i.route, Len(i.route))

\* What runs presents the document's amount: a draft alone is edited.
RoutesInv ==
    /\ \A k \in 1..Len(instances) : RouteOK(instances[k])
    /\ Running => instances[Current].digest.amount = material.amount

\* An approval that decided all its steps reaches the next one, or the end.
LEMMA ReachedRoute ==
    ASSUME NEW i \in Instance, i.status = "running", NEW m \in Material,
           m.amount = i.digest.amount, OnPath(i.route, i.digest.amount),
           DecidedUpTo(i.route, Len(i.route)), NEW n \in Node \cup {"end"},
           n = NextNode[i.digest.amount][LastNode(i.route)]
    PROVE  /\ RouteOK(Reached(i, n, m))
           /\ Reached(i, n, m).digest = i.digest
<1>1. CASE n = "end"
  <2>1. /\ Reached(i, n, m).status = "approved" /\ Reached(i, n, m).approved = m
        /\ Reached(i, n, m).route = i.route /\ Reached(i, n, m).digest = i.digest
    BY <1>1 DEF Reached, Instance
  <2>2. QED
    BY <1>1, <2>1 DEF RouteOK
<1>2. CASE n # "end"
  <2> DEFINE e == [node |-> n, state |-> "open", by |-> {}]
             r == Append(i.route, e)
  <2>1. Reached(i, n, m) = Opened(i, n)
    BY <1>2 DEF Reached
  <2>2. /\ Opened(i, n).status = "running" /\ Opened(i, n).route = r
        /\ Opened(i, n).digest = i.digest /\ Opened(i, n).task.node = n
    BY DEF Opened, OpenTask, Instance
  <2>3. i.route \in Seq(RouteEntry) /\ Len(i.route) \in Nat
    BY DEF Instance
  <2>4. /\ Len(r) = Len(i.route) + 1 /\ r # <<>> /\ r[Len(r)] = e
        /\ \A j \in 1..Len(i.route) : r[j] = i.route[j]
    BY <2>3
  <2>5. e.node = n /\ e.state = "open"
    OBVIOUS
  <2> HIDE DEF e, r
  <2>6. ASSUME NEW j \in 1..Len(r)
        PROVE  NextNode[i.digest.amount][IF j = 1 THEN "start" ELSE r[j - 1].node] = r[j].node
    <3>1. CASE j \in 1..Len(i.route)
      <4>1. r[j] = i.route[j] /\ (j # 1 => r[j - 1] = i.route[j - 1])
        BY <2>3, <2>4, <3>1
      <4>2. QED
        BY <3>1, <4>1 DEF OnPath
    <3>2. CASE j = Len(i.route) + 1
      <4>1. (IF j = 1 THEN "start" ELSE r[j - 1].node) = LastNode(i.route)
        <5>1. j = 1 <=> i.route = <<>>
          BY <2>3, <3>2
        <5>2. j # 1 => r[j - 1] = i.route[Len(i.route)]
          BY <2>3, <2>4, <3>2
        <5>3. QED
          BY <5>1, <5>2 DEF LastNode
      <4>2. QED
        BY <2>4, <2>5, <3>2, <4>1
    <3>3. QED
      BY <2>3, <2>4, <3>1, <3>2
  <2>7. OnPath(r, i.digest.amount)
    BY <2>6 DEF OnPath
  <2>8. DecidedUpTo(r, Len(r) - 1)
    BY <2>3, <2>4 DEF DecidedUpTo
  <2>9. QED
    BY <2>1, <2>2, <2>4, <2>5, <2>7, <2>8 DEF RouteOK, LastNode
<1>3. QED
  BY <1>1, <1>2

\* The entries of a marked route.
LEMMA MarkStepEntries ==
    ASSUME NEW i \in Instance, NEW by \in SUBSET User, NEW k \in 1..Len(i.route)
    PROVE  /\ i.route[k].node = i.task.node =>
                MarkStep(i, by)[k].state = "completed" /\ MarkStep(i, by)[k].by = by
           /\ i.route[k].node # i.task.node => MarkStep(i, by)[k] = i.route[k]
<1>1. i.route[k] \in RouteEntry
  BY DEF Instance
<1>2. QED
  BY <1>1 DEF MarkStep, RouteEntry

\* Marking the step at which an approval stands keeps its route on the graph.
LEMMA MarkedRoute ==
    ASSUME NEW i \in Instance, RouteOK(i), NEW by \in SUBSET User
    PROVE  /\ OnPath(MarkStep(i, by), i.digest.amount)
           /\ LastNode(MarkStep(i, by)) = LastNode(i.route)
           /\ i.status = "running" /\ by # {} =>
                /\ MarkStep(i, by) # <<>> /\ DecidedUpTo(MarkStep(i, by), Len(i.route))
                /\ MarkStep(i, by)[Len(i.route)].state # "carried"
<1> DEFINE r == MarkStep(i, by)
<1>1. /\ r \in Seq(RouteEntry) /\ Len(r) = Len(i.route) /\ Len(r) \in Nat
      /\ i.route \in Seq(RouteEntry)
      /\ \A k \in 1..Len(r) : r[k].node = i.route[k].node
  BY MarkStepType DEF Instance
<1>2. ASSUME i.status = "running", by # {}
      PROVE  /\ r # <<>> /\ r[Len(r)].state # "carried" /\ DecidedUpTo(r, Len(i.route))
  <2>1. /\ i.route # <<>> /\ i.route[Len(i.route)].node = i.task.node
        /\ DecidedUpTo(i.route, Len(i.route) - 1)
    BY <1>2 DEF RouteOK, LastNode
  <2>2. Len(r) \in 1..Len(r) /\ r # <<>>
    BY <1>1, <2>1
  <2>3. r[Len(r)].state = "completed"
    BY <1>1, <2>1, <2>2, MarkStepEntries
  <2>4. ASSUME NEW j \in 1..Len(i.route) PROVE r[j].by # {}
    <3>1. i.route[j].node # i.task.node => i.route[j].by # {}
      BY <1>1, <2>1 DEF DecidedUpTo
    <3>2. QED
      BY <1>2, <3>1, MarkStepEntries
  <2>5. QED
    BY <2>2, <2>3, <2>4 DEF DecidedUpTo
<1>3. OnPath(r, i.digest.amount)
  <2>1. OnPath(i.route, i.digest.amount)
    BY DEF RouteOK
  <2>2. \A j \in 1..Len(r) : j # 1 => j - 1 \in 1..Len(r)
    BY <1>1
  <2> HIDE DEF r
  <2>3. QED
    BY <1>1, <2>1, <2>2 DEF OnPath
<1>4. LastNode(r) = LastNode(i.route)
  <2>1. r = <<>> <=> i.route = <<>>
    BY <1>1
  <2>2. r # <<>> => Len(r) \in 1..Len(r)
    BY <1>1
  <2> HIDE DEF r
  <2>3. QED
    BY <1>1, <2>1, <2>2 DEF LastNode
<1>5. QED
  BY <1>1, <1>2, <1>3, <1>4

\* The same of the approval that runs.
LEMMA MarkedRunning ==
    ASSUME NEW i \in Instance, RouteOK(i), i.status = "running", NEW by \in SUBSET User, by # {},
           NEW r, r = MarkStep(i, by)
    PROVE  /\ OnPath(r, i.digest.amount) /\ LastNode(r) = i.task.node
           /\ r # <<>> /\ Len(r) \in Nat /\ DecidedUpTo(r, Len(r))
           /\ r[Len(r)].state # "carried"
<1>1. Len(r) = Len(i.route) /\ Len(r) \in Nat
  BY MarkStepType DEF Instance
<1>2. LastNode(i.route) = i.task.node
  BY DEF RouteOK
<1>3. QED
  BY <1>1, <1>2, MarkedRoute

\* The carried steps of a returned approval lead to the step it was returned at.
LEMMA CarriedOnPath ==
    ASSUME NEW i \in Instance, RouteOK(i), AtStep(i), i.status = "returned"
    PROVE  LET r == CarriedRoute(i) IN
           /\ r \in Seq(RouteEntry) /\ i.task.node \in Node
           /\ OnPath(r, i.digest.amount) /\ DecidedUpTo(r, Len(r))
           /\ i.task.node = NextNode[i.digest.amount][LastNode(r)]
           /\ Len(r) < Len(i.route) /\ i.route[Len(r) + 1].node = i.task.node
           /\ \A j \in 1..Len(r) : /\ r[j].node = i.route[j].node /\ r[j].by = i.route[j].by
                                   /\ r[j].state = "carried"
<1> DEFINE c == CHOOSE k \in 1..Len(i.route) : i.route[k].node = i.task.node
           r == CarriedRoute(i)
<1>1. c \in 1..Len(i.route) /\ i.route[c].node = i.task.node
  BY DEF AtStep
<1>2. Len(i.route) \in Nat /\ \A k \in 1..Len(i.route) : i.route[k] \in RouteEntry
  BY DEF Instance
<1>3. r = [k \in 1..(c - 1) |-> [i.route[k] EXCEPT !.state = "carried"]]
  BY DEF CarriedRoute
<1>4. r \in Seq(RouteEntry) /\ i.task.node \in Node
  BY CarriedRouteType
<1> HIDE DEF c
<1>5. c - 1 \in Nat /\ Len(r) = c - 1
  BY <1>1, <1>2, <1>3, <1>4
<1>6. \A j \in 1..Len(r) : /\ j \in 1..Len(i.route) /\ r[j].node = i.route[j].node
                           /\ r[j].by = i.route[j].by /\ r[j].state = "carried"
  BY <1>1, <1>2, <1>3, <1>5 DEF RouteEntry
<1> HIDE DEF r
<1>7. OnPath(i.route, i.digest.amount) /\ DecidedUpTo(i.route, Len(i.route) - 1)
  BY DEF RouteOK
<1>8. OnPath(r, i.digest.amount)
  <2>1. \A j \in 1..Len(r) : j # 1 => j - 1 \in 1..Len(r)
    BY <1>5
  <2>2. QED
    BY <1>6, <1>7, <2>1 DEF OnPath
<1>9. DecidedUpTo(r, Len(r))
  <2>1. \A j \in 1..Len(r) : j \in 1..(Len(i.route) - 1)
    BY <1>1, <1>2, <1>5
  <2>2. QED
    BY <1>6, <1>7, <2>1 DEF DecidedUpTo
<1>10. i.task.node = NextNode[i.digest.amount][LastNode(r)]
  <2>0. c \in Nat /\ c >= 1 /\ (r = <<>> <=> Len(r) = 0)
    BY <1>1, <1>2, <1>4
  <2>1. r = <<>> <=> c = 1
    BY <1>5, <2>0
  <2>2. c # 1 => c - 1 \in 1..Len(r)
    BY <1>5, <2>0
  <2>3. LastNode(r) = IF c = 1 THEN "start" ELSE i.route[c - 1].node
    BY <1>5, <1>6, <2>1, <2>2 DEF LastNode
  <2>4. QED
    BY <1>1, <1>7, <2>3 DEF OnPath
<1>11. QED
  BY <1>1, <1>2, <1>4, <1>5, <1>6, <1>8, <1>9, <1>10 DEF r

\* The steps by what they do to the approvals.
AppendsFresh(i, n, m) ==
    /\ instances' = Append(instances, Reached(i, n, m))
    /\ material' = m /\ UNCHANGED decisions

Submits ==
    \E m \in Material :
        /\ ~Running
        /\ AppendsFresh(NewInstance(<<>>, m), Walk(m, "start"), m)

Resumes ==
    LET i == instances[Current] IN
    /\ ~Running /\ Resumable
    /\ AppendsFresh(NewInstance(CarriedRoute(i), material), i.task.node, material)

Decides ==
    \E u \in User, by \in SUBSET User :
        LET done == Completed(instances[Current], by)
            n == Walk(material', instances[Current].task.node)
        IN  /\ MayDecide(u)
            /\ by = DecidedBy(u, TaskDecisions \cup {DecisionBy(u, "approve")})
            /\ material'.amount = material.amount /\ material' \in Material
            /\ decisions' = decisions \cup {DecisionBy(u, "approve")}
            /\ \/ UNCHANGED instances
               \/ /\ done \in Instance /\ n \in Node \cup {"end"}
                  /\ ReplaceCurrent(Reached(done, n, material'))

Rejects ==
    \E u \in User, o \in {"reject", "return"}, j \in Instance :
        LET i == instances[Current] IN
        /\ MayDecide(u) /\ decisions' = decisions \cup {DecisionBy(u, o)}
        /\ ReplaceCurrent(j)
        /\ j.status \in {"rejected", "returned"} /\ j.digest = i.digest
        /\ j.route = MarkStep(i, {u}) /\ j.task.node = i.task.node

Withdraws ==
    \E j \in Instance :
        /\ Running /\ UNCHANGED decisions
        /\ ReplaceCurrent(j)
        /\ j.status = "withdrawn" /\ j.digest = instances[Current].digest
        /\ j.route = MarkStep(instances[Current], {})

\* The columns a route is read from stay, or only the current task or the
\* approved terms of the approval in force change.
Retouches ==
    /\ UNCHANGED decisions
    /\ Len(instances') = Len(instances)
    /\ \A k \in 1..Len(instances) :
         LET i == instances[k]
             j == instances'[k]
         IN  /\ j.route = i.route /\ j.digest = i.digest /\ j.status = i.status
             /\ j.task.node = i.task.node
             /\ i.status = "approved" => j.approved.amount = i.approved.amount
    /\ Running => material' = material

LEMMA StepsAre ==
    ASSUME TypeInv, ForceInv, [Next]_vars
    PROVE  Submits \/ Resumes \/ Decides \/ Rejects \/ Withdraws \/ Retouches
<1> DEFINE cur == instances[Current]
<1>0. ASSUME NEW m \in Material, StartFor(m), material' = m, ~Running PROVE Submits
  <2>1. /\ instances' = Append(instances, Reached(NewInstance(<<>>, m), Walk(m, "start"), m))
        /\ UNCHANGED decisions
    BY <1>0 DEF StartFor
  <2>2. AppendsFresh(NewInstance(<<>>, m), Walk(m, "start"), m)
    BY <1>0, <2>1 DEF AppendsFresh
  <2>3. QED
    BY <1>0, <2>2 DEF Submits
<1>1. CASE Start
  BY <1>0, <1>1 DEF Start, Draft, TypeInv, TypeOK
<1>2. ASSUME NEW m \in Material, Amend(m) PROVE Submits
  <2>1. ApprovedInForce /\ StartFor(m) /\ material' = m
    BY <1>2 DEF Amend
  <2>2. QED
    BY <1>0, <2>1, InForceIs
<1>3. CASE Resume
  <2>1. cur.task.node \in Node
    BY <1>3, CarriedRouteType DEF TypeInv, TypeOK, Resume, Resumable, Current
  <2>2. cur.task.node # "end"
    BY <2>1, ApprovalsAssumption
  <2>3. Resumes
    BY <1>3, <2>2 DEF Resume, Draft, docVars, Resumes, AppendsFresh, Reached
  <2>4. QED
    BY <2>3
<1>4. ASSUME NEW u \in User, NEW c \in Code, Approve(u, c) PROVE Decides
  <2>1. /\ MayDecide(u) /\ material' \in Material /\ material'.amount = material.amount
        /\ decisions' = decisions \cup {DecisionBy(u, "approve")}
    BY <1>4, ApproveEffect
  <2> DEFINE by == DecidedBy(u, TaskDecisions \cup {DecisionBy(u, "approve")})
             done == Completed(cur, by)
             n == Walk(material', cur.task.node)
  <2>2. \/ UNCHANGED instances
        \/ /\ by \in SUBSET User /\ done \in Instance /\ n \in Node \cup {"end"}
           /\ ReplaceCurrent(Reached(done, n, material'))
    BY <1>4, ApproveEffect
  <2>3. by \in SUBSET User
    <3>1. DecisionBy(u, "approve") \in Decision
      BY <2>1, MayDecideType
    <3>2. QED
      BY <3>1 DEF DecidedBy, Decision, TaskDecisions, TypeInv, TypeOK
  <2>4. QED
    BY <2>1, <2>2, <2>3, Zenon DEF Decides
<1>5. ASSUME NEW u \in User, NEW o \in {"reject", "return"},
             NEW status \in {"rejected", "returned"}, EndBy(u, o, status)
      PROVE  Rejects
  <2> DEFINE j == [cur EXCEPT !.status = status, !.task.status = "completed",
                              !.task.outcome = status, !.route = MarkStep(cur, {u})]
  <2>1. MayDecide(u) /\ Running /\ cur \in Instance
    BY <1>5, RunningType DEF EndBy, MayDecide
  <2>2. MarkStep(cur, {u}) \in Seq(RouteEntry)
    BY <2>1, MarkStepType
  <2>3. [cur.task EXCEPT !.status = "completed", !.outcome = status] \in TaskRow
    BY <2>1 DEF Instance, TaskRow
  <2>4. j \in Instance
    BY <2>1, <2>2, <2>3 DEF Instance, InstanceStatus
  <2>5. /\ j.status = status /\ j.digest = cur.digest
        /\ j.route = MarkStep(cur, {u}) /\ j.task.node = cur.task.node
    BY <2>1 DEF Instance, TaskRow
  <2>6. ReplaceCurrent(j) /\ decisions' = decisions \cup {DecisionBy(u, o)}
    BY <1>5 DEF EndBy
  <2> HIDE DEF j
  <2>7. QED
    BY <2>1, <2>4, <2>5, <2>6 DEF Rejects
<1>6. CASE Withdraw
  <2> DEFINE j == WithdrawnInstance(cur)
  <2>1. Running /\ ReplaceCurrent(j) /\ cur \in Instance /\ UNCHANGED decisions
    BY <1>6, RunningType DEF Withdraw
  <2>2. MarkStep(cur, {}) \in Seq(RouteEntry)
    BY <2>1, MarkStepType
  <2>3. [cur.task EXCEPT !.status = "cancelled"] \in TaskRow
    BY <2>1 DEF Instance, TaskRow
  <2>4. /\ j \in Instance /\ j.status = "withdrawn" /\ j.digest = cur.digest
        /\ j.route = MarkStep(cur, {})
    BY <2>1, <2>2, <2>3 DEF WithdrawnInstance, Instance, InstanceStatus
  <2> HIDE DEF j
  <2>5. QED
    BY <2>1, <2>4 DEF Withdraws
<1>7. CASE Escalate \/ \E users \in SUBSET User : Reassign(users)
  <2>1. /\ Running /\ UNCHANGED docVars /\ UNCHANGED decisions
        /\ cur \in Instance /\ Current \in 1..Len(instances) /\ cur.status = "running"
    BY <1>7, RunningType DEF Escalate, Reassign, Running
  <2>2. PICK j : /\ ReplaceCurrent(j) /\ j.route = cur.route /\ j.digest = cur.digest
                 /\ j.status = cur.status /\ j.task.node = cur.task.node
    <3>1. CASE Escalate
      BY <2>1, <3>1 DEF Escalate, Instance, TaskRow
    <3>2. CASE \E users \in SUBSET User : Reassign(users)
      BY <2>1, <3>2 DEF Reassign, Instance, TaskRow
    <3>3. QED
      BY <1>7, <3>1, <3>2
  <2>3. /\ Len(instances') = Len(instances)
        /\ \A k \in 1..Len(instances) : instances'[k] = IF k = Current THEN j ELSE instances[k]
    BY <2>1, <2>2 DEF ReplaceCurrent, TypeInv, TypeOK
  <2>4. material' = material
    BY <2>1 DEF docVars
  <2>5. QED
    BY <2>1, <2>2, <2>3, <2>4 DEF Retouches
<1>8. ASSUME NEW c \in Code, Rebase(c) PROVE Retouches
  <2>1. /\ ApprovedInForce /\ material' = [material EXCEPT !.code = c] /\ UNCHANGED decisions
        /\ instances' = [instances EXCEPT ![InForce].approved = material']
    BY <1>8 DEF Rebase
  <2>2. /\ InForce \in 1..Len(instances) /\ ~Running
        /\ instances[InForce].approved.amount = material.amount
    BY <2>1, InForceIs
  <2>3. material'.amount = material.amount
    BY <2>1 DEF TypeInv, TypeOK, Material
  <2>4. \A k \in 1..Len(instances) : instances[k] \in Instance
    BY DEF TypeInv, TypeOK
  <2>5. /\ Len(instances') = Len(instances)
        /\ \A k \in 1..Len(instances) :
             /\ k # InForce => instances'[k] = instances[k]
             /\ k = InForce => instances'[k] = [instances[k] EXCEPT !.approved = material']
    <3>1. instances \in Seq(Instance)
      BY DEF TypeInv, TypeOK
    <3>2. PICK x : x = [instances[InForce] EXCEPT !.approved = material']
      OBVIOUS
    <3>3. instances' = [instances EXCEPT ![InForce] = x]
      BY <2>1, <3>2
    <3>4. QED
      BY <2>2, <3>1, <3>2, <3>3
  <2>6. ASSUME NEW k \in 1..Len(instances)
        PROVE  LET i == instances[k]
                   j == instances'[k]
               IN  /\ j.route = i.route /\ j.digest = i.digest /\ j.status = i.status
                   /\ j.task.node = i.task.node
                   /\ i.status = "approved" => j.approved.amount = i.approved.amount
    BY <2>2, <2>3, <2>4, <2>5 DEF Instance
  <2>7. QED
    BY <2>1, <2>2, <2>5, <2>6 DEF Retouches
<1>9. ASSUME UNCHANGED <<instances, decisions>>, Running => material' = material PROVE Retouches
  BY <1>9 DEF Retouches
<1>10. CASE \/ \E m \in Material : Edit(m)
            \/ \E u \in User : ChangeHolder(u)
            \/ \E c \in Code : ChangeCode(c)
            \/ \E a, b \in User : Delegate(a, b)
            \/ \E k \in 1..MaxCover : EndDelegation(k)
            \/ UNCHANGED vars
  BY <1>9, <1>10 DEF Edit, Draft, ChangeHolder, ChangeCode, Delegate, EndDelegation, docVars, vars
<1>11. QED
  BY <1>1, <1>2, <1>3, <1>4, <1>5, <1>6, <1>7, <1>8, <1>10 DEF Next, Reject, Return

\* Adding an approval with a well-formed route.
LEMMA RoutesAppend ==
    ASSUME TypeInv, RoutesInv, NEW j, RouteOK(j), j.digest.amount = material'.amount,
           instances' = Append(instances, j)
    PROVE  RoutesInv'
<1>1. /\ Len(instances) \in Nat /\ Len(instances') = Len(instances) + 1
      /\ \A k \in 1..Len(instances) : instances'[k] = instances[k]
      /\ instances'[Len(instances) + 1] = j
  BY DEF TypeInv, TypeOK
<1>2. \A k \in 1..Len(instances') : RouteOK(instances'[k])
  <2>1. \A k \in 1..Len(instances') : k \in 1..Len(instances) \/ k = Len(instances) + 1
    BY <1>1
  <2>2. QED
    BY <1>1, <2>1 DEF RoutesInv
<1>3. instances'[Current'].digest.amount = material'.amount
  BY <1>1 DEF Current
<1>4. QED
  BY <1>2, <1>3 DEF RoutesInv

\* Replacing the newest approval by one with a well-formed route.
LEMMA RoutesReplace ==
    ASSUME TypeInv, RoutesInv, Running, NEW j, RouteOK(j), ReplaceCurrent(j),
           j.status = "running" => j.digest.amount = material'.amount
    PROVE  RoutesInv'
<1>1. /\ Len(instances) \in Nat /\ Len(instances') = Len(instances) /\ Current = Len(instances)
      /\ \A k \in 1..Len(instances) : instances'[k] = IF k = Current THEN j ELSE instances[k]
      /\ Current \in 1..Len(instances)
  BY DEF ReplaceCurrent, TypeInv, TypeOK, Running, Current
<1>2. \A k \in 1..Len(instances') : RouteOK(instances'[k])
  BY <1>1 DEF RoutesInv
<1>3. instances'[Current'] = j
  BY <1>1 DEF Current
<1>4. QED
  BY <1>2, <1>3 DEF RoutesInv, Running

LEMMA RoutesInit == Init => RoutesInv
  BY DEF Init, RoutesInv, Running

LEMMA RoutesStep == TypeInv /\ ForceInv /\ RoutesInv /\ [Next]_vars => RoutesInv'
<1> SUFFICES ASSUME TypeInv, ForceInv, RoutesInv, [Next]_vars PROVE RoutesInv'
  OBVIOUS
<1> DEFINE cur == instances[Current]
<1>0. Running => /\ Current \in 1..Len(instances) /\ cur \in Instance /\ cur.status = "running"
                 /\ RouteOK(cur) /\ cur.digest.amount = material.amount
  BY RunningType DEF Running, RoutesInv
<1>1. CASE Submits
  <2>1. PICK m \in Material : AppendsFresh(NewInstance(<<>>, m), Walk(m, "start"), m)
    BY <1>1 DEF Submits
  <2> DEFINE i == NewInstance(<<>>, m)
             n == Walk(m, "start")
  <2>2. i \in Instance /\ n \in Node \cup {"end"}
    <3>1. <<>> \in Seq(RouteEntry)
      OBVIOUS
    <3>2. QED
      BY <3>1, NewInstanceType, WalkType
  <2>3. i.status = "running" /\ i.route = <<>> /\ i.digest = m
    BY DEF NewInstance
  <2>4. /\ OnPath(i.route, i.digest.amount) /\ DecidedUpTo(i.route, Len(i.route))
        /\ n = NextNode[i.digest.amount][LastNode(i.route)]
    BY <2>3 DEF OnPath, DecidedUpTo, LastNode, Walk
  <2>5. instances' = Append(instances, Reached(i, n, m)) /\ material' = m
    BY <2>1 DEF AppendsFresh
  <2> HIDE DEF i, n
  <2>6. RouteOK(Reached(i, n, m)) /\ Reached(i, n, m).digest = m
    BY <2>2, <2>3, <2>4, ReachedRoute
  <2>7. QED
    BY <2>5, <2>6, RoutesAppend
<1>2. CASE Resumes
  <2> DEFINE i == NewInstance(CarriedRoute(cur), material)
             n == cur.task.node
  <2>1. /\ AppendsFresh(i, n, material) /\ cur.digest = material /\ cur.status = "returned"
        /\ cur \in Instance /\ AtStep(cur) /\ RouteOK(cur) /\ material \in Material
    BY <1>2 DEF Resumes, Resumable, TypeInv, TypeOK, RoutesInv, Current
  <2>2. /\ CarriedRoute(cur) \in Seq(RouteEntry) /\ n \in Node
        /\ OnPath(CarriedRoute(cur), cur.digest.amount)
        /\ DecidedUpTo(CarriedRoute(cur), Len(CarriedRoute(cur)))
        /\ n = NextNode[cur.digest.amount][LastNode(CarriedRoute(cur))]
    BY <2>1, CarriedOnPath
  <2>3. i.status = "running" /\ i.route = CarriedRoute(cur) /\ i.digest = material
    BY DEF NewInstance
  <2>4. i \in Instance
    BY <2>1, <2>2, NewInstanceType
  <2>5. instances' = Append(instances, Reached(i, n, material)) /\ material' = material
    BY <2>1 DEF AppendsFresh
  <2> HIDE DEF i, n
  <2>6. RouteOK(Reached(i, n, material)) /\ Reached(i, n, material).digest = material
    BY <2>1, <2>2, <2>3, <2>4, ReachedRoute
  <2>7. QED
    BY <2>5, <2>6, RoutesAppend
<1>3. CASE Decides
  <2>1. PICK u \in User, by \in SUBSET User :
               /\ MayDecide(u) /\ material'.amount = material.amount /\ material' \in Material
               /\ by = DecidedBy(u, TaskDecisions \cup {DecisionBy(u, "approve")})
               /\ \/ UNCHANGED instances
                  \/ /\ Completed(cur, by) \in Instance
                     /\ Walk(material', cur.task.node) \in Node \cup {"end"}
                     /\ ReplaceCurrent(Reached(Completed(cur, by),
                                               Walk(material', cur.task.node), material'))
    BY <1>3 DEF Decides
  <2>2. Running /\ by # {}
    BY <2>1 DEF MayDecide, DecidedBy
  <2>3. CASE UNCHANGED instances
    BY <1>0, <2>1, <2>2, <2>3 DEF RoutesInv, Running, Current
  <2>4. CASE ~UNCHANGED instances
    <3> DEFINE d == Completed(cur, by)
               n == Walk(material', cur.task.node)
    <3>1. d \in Instance /\ n \in Node \cup {"end"} /\ ReplaceCurrent(Reached(d, n, material'))
      BY <2>1, <2>4
    <3>2. d.status = "running" /\ d.route = MarkStep(cur, by) /\ d.digest = cur.digest
      BY <1>0, <2>2 DEF Completed, Instance
    <3>3. /\ OnPath(MarkStep(cur, by), cur.digest.amount)
          /\ LastNode(MarkStep(cur, by)) = cur.task.node
          /\ DecidedUpTo(MarkStep(cur, by), Len(MarkStep(cur, by)))
      BY <1>0, <2>2, MarkedRunning
    <3>4. n = NextNode[d.digest.amount][LastNode(d.route)] /\ material'.amount = d.digest.amount
      BY <1>0, <2>1, <2>2, <3>2, <3>3 DEF Walk
    <3> HIDE DEF d, n
    <3>5. RouteOK(Reached(d, n, material')) /\ Reached(d, n, material').digest = d.digest
      BY <2>1, <3>1, <3>2, <3>3, <3>4, ReachedRoute
    <3>6. QED
      BY <2>2, <3>1, <3>4, <3>5, RoutesReplace
  <2>5. QED
    BY <2>3, <2>4
<1>4. CASE Rejects
  <2>1. PICK u \in User, j \in Instance :
               /\ MayDecide(u) /\ ReplaceCurrent(j) /\ j.digest = cur.digest
               /\ j.status \in {"rejected", "returned"} /\ j.route = MarkStep(cur, {u})
               /\ j.task.node = cur.task.node
    BY <1>4 DEF Rejects
  <2>2. Running /\ {u} # {}
    BY <2>1 DEF MayDecide
  <2>3. /\ OnPath(j.route, j.digest.amount) /\ LastNode(j.route) = j.task.node
        /\ j.route # <<>> /\ DecidedUpTo(j.route, Len(j.route))
        /\ j.route[Len(j.route)].state # "carried" /\ Len(j.route) \in Nat
    <3>1. {u} \in SUBSET User
      OBVIOUS
    <3>2. QED
      BY <1>0, <2>1, <2>2, <3>1, MarkedRunning
  <2>4. DecidedUpTo(j.route, Len(j.route) - 1)
    BY <2>3 DEF DecidedUpTo
  <2>5. RouteOK(j)
    BY <2>1, <2>3, <2>4 DEF RouteOK
  <2>6. QED
    BY <2>1, <2>2, <2>5, RoutesReplace
<1>5. CASE Withdraws
  <2>1. PICK j \in Instance :
               /\ Running /\ ReplaceCurrent(j) /\ j.status = "withdrawn"
               /\ j.digest = cur.digest /\ j.route = MarkStep(cur, {})
    BY <1>5 DEF Withdraws
  <2>2. RouteOK(j)
    BY <1>0, <2>1, MarkedRoute DEF RouteOK
  <2>3. QED
    BY <2>1, <2>2, RoutesReplace
<1>6. CASE Retouches
  <2>1. /\ Len(instances') = Len(instances) /\ (Running => material' = material)
        /\ \A k \in 1..Len(instances) :
             /\ instances'[k].route = instances[k].route
             /\ instances'[k].digest = instances[k].digest
             /\ instances'[k].status = instances[k].status
             /\ instances'[k].task.node = instances[k].task.node
             /\ instances[k].status = "approved" =>
                  instances'[k].approved.amount = instances[k].approved.amount
    BY <1>6 DEF Retouches
  <2>2. ASSUME NEW k \in 1..Len(instances') PROVE RouteOK(instances'[k])
    BY <2>1 DEF RoutesInv, RouteOK
  <2>3. Current' = Current /\ (Running' => Running)
    <3>1. Len(instances) \in Nat /\ (Len(instances) = 0 => instances = <<>>)
      BY DEF TypeInv, TypeOK
    <3>2. Current = Len(instances) /\ Current' = Len(instances')
      BY DEF Current
    <3>3. instances' # <<>> => Current \in 1..Len(instances)
      <4>1. instances' \in Seq(Instance)
        BY TypeStep DEF TypeInv, TypeOK
      <4>2. instances' # <<>> => Len(instances') > 0
        BY <4>1
      <4>3. QED
        BY <2>1, <3>1, <3>2, <4>2
    <3>4. QED
      BY <2>1, <3>1, <3>2, <3>3 DEF Running
  <2>4. Running' => Current \in 1..Len(instances)
    BY <1>0, <2>3
  <2>5. QED
    BY <1>0, <2>1, <2>2, <2>3, <2>4 DEF RoutesInv
<1>7. QED
  BY <1>1, <1>2, <1>3, <1>4, <1>5, <1>6, StepsAre

\* An approval ends approved only at the end of the graph's path for the amount it
\* approved, every step of which somebody decided, resumed after a return or not.
THEOREM RoutesAreWhole == Spec => []WholeRouteApproved
<1>1. TypeInv /\ RoutesInv => WholeRouteApproved
  <2> SUFFICES ASSUME TypeInv, RoutesInv, NEW k \in 1..Current, instances[k].status = "approved",
                      NEW j \in 1..(Len(instances[k].route) + 1)
               PROVE  LET i == instances[k]
                          n == Len(i.route)
                          node[l \in 0..(n + 1)] ==
                            IF l = 0 THEN "start" ELSE IF l > n THEN "end" ELSE i.route[l].node
                      IN  /\ Walk(i.approved, node[j - 1]) = node[j]
                          /\ j <= n => i.route[j].by # {}
    BY DEF WholeRouteApproved
  <2> DEFINE i == instances[k]
             n == Len(i.route)
             node[l \in 0..(n + 1)] ==
               IF l = 0 THEN "start" ELSE IF l > n THEN "end" ELSE i.route[l].node
  <2>1. /\ RouteOK(i) /\ n \in Nat /\ i.route \in Seq(RouteEntry)
    <3>1. k \in 1..Len(instances)
      BY DEF Current
    <3>2. i \in Instance /\ RouteOK(i)
      BY <3>1 DEF RoutesInv, TypeInv, TypeOK
    <3>3. QED
      BY <3>2 DEF Instance
  <2>2. /\ OnPath(i.route, i.approved.amount) /\ DecidedUpTo(i.route, n)
        /\ NextNode[i.approved.amount][LastNode(i.route)] = "end"
    BY <2>1, SMTT(20) DEF RouteOK
  <2>3. /\ node[0] = "start" /\ node[n + 1] = "end"
        /\ \A l \in 1..n : node[l] = i.route[l].node
    BY <2>1
  <2>4. j <= n => i.route[j].by # {}
    BY <2>1, <2>2 DEF DecidedUpTo
  <2> HIDE DEF i, n, node
  <2>5. ASSUME j \in 1..n PROVE Walk(i.approved, node[j - 1]) = node[j]
    <3>1. j # 1 => j - 1 \in 1..n
      BY <2>1, <2>5
    <3>2. node[j - 1] = IF j = 1 THEN "start" ELSE i.route[j - 1].node
      BY <2>3, <3>1
    <3>3. NextNode[i.approved.amount][node[j - 1]] = i.route[j].node
      BY <2>2, <2>5, <3>2 DEF OnPath, n
    <3>4. QED
      BY <2>3, <2>5, <3>3 DEF Walk
  <2>6. ASSUME j = n + 1 PROVE Walk(i.approved, node[j - 1]) = node[j]
    <3>1. n = 0 <=> i.route = <<>>
      BY <2>1 DEF n
    <3>2. j - 1 = n /\ (n # 0 => n \in 1..n)
      BY <2>1, <2>6
    <3>3. node[j - 1] = LastNode(i.route)
      BY <2>3, <3>1, <3>2 DEF LastNode, n
    <3>4. QED
      BY <2>2, <2>3, <2>6, <3>3 DEF Walk
  <2>7. j \in 1..n \/ j = n + 1
    BY <2>1 DEF n, i
  <2>8. QED
    BY <2>4, <2>5, <2>6, <2>7 DEF i, n, node
<1>2. QED
  BY TypeInit, TypeStep, ForceInit, ForceStep, RoutesInit, RoutesStep, <1>1, PTL DEF Spec

-----------------------------------------------------------------------------
(* Who had a part in which step.                                             *)

\* The nodes of a route that follows the graph are distinct, as the graph has no cycle.
Distinct(route) ==
    \A e \in 1..Len(route), f \in 1..Len(route) : e < f => route[e].node # route[f].node

LEMMA PathDistinct ==
    ASSUME NEW a \in Amount, NEW route \in Seq(RouteEntry), OnPath(route, a)
    PROVE  Distinct(route)
<1> SUFFICES ASSUME NEW e \in 1..Len(route), NEW f \in 1..Len(route), e < f,
                    route[e].node = route[f].node
             PROVE  FALSE
  BY DEF Distinct
<1>1. Len(route) \in Nat /\ \A l \in 1..Len(route) : route[l].node \in Node
  <2>1. \A l \in 1..Len(route) : route[l] \in RouteEntry
    OBVIOUS
  <2>2. QED
    BY <2>1 DEF RouteEntry
<1> DEFINE S == {route[l].node : l \in e..(f - 1)}
<1>2. S \in (SUBSET Node) \ {{}}
  <2>1. \A l \in e..(f - 1) : l \in 1..Len(route)
    BY <1>1
  <2>2. e \in e..(f - 1)
    BY <1>1
  <2>3. route[e].node \in S
    BY <2>2
  <2>4. S \subseteq Node
    BY <1>1, <2>1
  <2>5. QED
    BY <2>3, <2>4
<1>3. PICK n \in S : NextNode[a][n] \notin S
  BY <1>2, ApprovalsAssumption
<1>4. PICK l \in e..(f - 1) : n = route[l].node
  BY <1>3
<1>5. /\ l + 1 \in 1..Len(route) /\ l + 1 # 1 /\ (l + 1) - 1 = l
      /\ l + 1 \in e..(f - 1) \/ l + 1 = f
  BY <1>1, <1>4
<1>6. NextNode[a][n] = route[l + 1].node
  <2>1. PICK j \in 1..Len(route) : j = l + 1
    BY <1>5
  <2>2. j # 1 /\ j - 1 = l
    BY <1>5, <2>1
  <2>3. NextNode[a][route[j - 1].node] = route[j].node
    BY <2>2 DEF OnPath
  <2>4. QED
    BY <1>4, <2>1, <2>2, <2>3
<1>7. route[l + 1].node \in S
  <2>1. e \in e..(f - 1)
    BY <1>1
  <2>2. QED
    BY <1>5, <2>1
<1>8. QED
  BY <1>3, <1>6, <1>7

\* The route of approval i carries step n over.
Carried(i, n) == \E e \in 1..Len(i.route) : i.route[e].node = n /\ i.route[e].state = "carried"

\* Rounds and People of the approvals s and the decisions D.
RoundsOf(s, k, n) == {j \in 1..k : \A l \in (j + 1)..k : Carried(s[l], n)}

PeopleOf(s, D, k, n) ==
    UNION {{d.actor, d.principal} :
             d \in {x \in D : x.node = n /\ x.instance \in RoundsOf(s, k, n)}}

LEMMA PeopleIs ==
    ASSUME NEW s, NEW D, NEW k, NEW n, NEW v
    PROVE  v \in PeopleOf(s, D, k, n) <=>
             \E d \in D : /\ d.node = n /\ d.instance \in RoundsOf(s, k, n)
                          /\ v \in {d.actor, d.principal}
  BY DEF PeopleOf

\* A step that is not carried over is decided in its own approval alone.
LEMMA RoundsFresh ==
    ASSUME NEW s, NEW k \in Nat, k > 0, NEW n, ~Carried(s[k], n)
    PROVE  RoundsOf(s, k, n) = {k}
<1>1. ASSUME NEW j \in 1..k, \A l \in (j + 1)..k : Carried(s[l], n) PROVE j = k
  <2>1. k \notin (j + 1)..k
    BY <1>1
  <2>2. QED
    BY <2>1
<1>2. k \in 1..k /\ \A l \in (k + 1)..k : FALSE
  OBVIOUS
<1>3. QED
  BY <1>1, <1>2 DEF RoundsOf

\* A step that is carried over was decided in the approval before as well.
LEMMA RoundsCarried ==
    ASSUME NEW s, NEW k \in Nat, NEW n, Carried(s[k + 1], n)
    PROVE  RoundsOf(s, k + 1, n) = {k + 1} \cup RoundsOf(s, k, n)
<1>1. ASSUME NEW j \in 1..(k + 1)
      PROVE  j \in RoundsOf(s, k + 1, n) <=> j \in {k + 1} \cup RoundsOf(s, k, n)
  <2>1. CASE j = k + 1
    BY <2>1 DEF RoundsOf
  <2>2. CASE j \in 1..k
    <3>1. \A l \in (j + 1)..(k + 1) : l \in (j + 1)..k \/ l = k + 1
      BY <2>2
    <3>2. k + 1 \in (j + 1)..(k + 1) /\ \A l \in (j + 1)..k : l \in (j + 1)..(k + 1)
      BY <2>2
    <3>3. QED
      BY <2>2, <3>1, <3>2 DEF RoundsOf
  <2>3. QED
    BY <2>1, <2>2
<1>2. RoundsOf(s, k + 1, n) \subseteq 1..(k + 1) /\ RoundsOf(s, k, n) \subseteq 1..(k + 1)
  BY DEF RoundsOf
<1>3. k + 1 \in 1..(k + 1)
  OBVIOUS
<1>4. QED
  BY <1>1, <1>2, <1>3

\* Rounds are read from what the routes carry over.
LEMMA RoundsSame ==
    ASSUME NEW s, NEW t, NEW k \in Nat, NEW n,
           \A l \in 1..k : Carried(t[l], n) <=> Carried(s[l], n)
    PROVE  RoundsOf(t, k, n) = RoundsOf(s, k, n)
<1>1. \A j \in 1..k, l \in Nat : l \in (j + 1)..k => l \in 1..k
  OBVIOUS
<1>2. QED
  BY <1>1 DEF RoundsOf

\* What a route says of its deciders: the steps before the last name everybody who
\* had a part in them, and who decided a step without allow_repeat had none before.
RouteDeciders(s, D, k, r) ==
    /\ \A e \in 1..(Len(r) - 1) : PeopleOf(s, D, k, r[e].node) \subseteq r[e].by
    /\ \A e \in 1..Len(r), f \in 1..Len(r) :
         e < f /\ ~AllowRepeat[r[f].node] =>
            PeopleOf(s, D, k, r[e].node) \cap PeopleOf(s, D, k, r[f].node) = {}

DecidersOK(s, D, k) == RouteDeciders(s, D, k, s[k].route)

\* A decision counts for a step its approval opened.
DecisionsPlaced(s, D) ==
    \A d \in D :
        /\ d.instance \in 1..Len(s)
        /\ \E e \in 1..Len(s[d.instance].route) : s[d.instance].route[e].node = d.node

RepeatInv ==
    /\ DecisionsPlaced(instances, decisions)
    /\ \A k \in 1..Len(instances) : DecidersOK(instances, decisions, k)

\* Two routes with the same steps, and the same deciders of all but the last.
SameSteps(r, q) ==
    /\ Len(q) = Len(r)
    /\ \A e \in 1..Len(r) : /\ q[e].node = r[e].node
                            /\ q[e].state = "carried" <=> r[e].state = "carried"
    /\ \A e \in 1..(Len(r) - 1) : q[e].by = r[e].by

\* Steps with the same nodes have the same deciders.
LEMMA SamePeople ==
    ASSUME NEW s, NEW t, NEW D, NEW k \in Nat, k > 0, NEW n,
           \A l \in 1..(k - 1) : t[l].route = s[l].route,
           SameSteps(s[k].route, t[k].route)
    PROVE  PeopleOf(t, D, k, n) = PeopleOf(s, D, k, n)
<1>1. ASSUME NEW l \in 1..k PROVE Carried(t[l], n) <=> Carried(s[l], n)
  <2>1. CASE l \in 1..(k - 1)
    <3>1. t[l].route = s[l].route
      BY <2>1
    <3>2. QED
      BY <3>1 DEF Carried
  <2>2. CASE l = k
    BY <2>2 DEF Carried, SameSteps
  <2>3. QED
    BY <2>1, <2>2
<1>2. \A l \in 1..k : Carried(t[l], n) <=> Carried(s[l], n)
  BY <1>1
<1>3. RoundsOf(t, k, n) = RoundsOf(s, k, n)
  BY <1>2, RoundsSame
<1>4. QED
  BY <1>3 DEF PeopleOf

\* Approvals with the same steps were decided by the same people.
LEMMA SameDeciders ==
    ASSUME NEW s, NEW t, NEW D, NEW k \in Nat, k > 0, Len(s[k].route) \in Nat,
           \A l \in 1..(k - 1) : t[l].route = s[l].route,
           SameSteps(s[k].route, t[k].route), DecidersOK(s, D, k)
    PROVE  DecidersOK(t, D, k)
<1>2. ASSUME NEW n PROVE PeopleOf(t, D, k, n) = PeopleOf(s, D, k, n)
  BY SamePeople
<1>3. \A e \in 1..(Len(s[k].route) - 1) : e \in 1..Len(s[k].route)
  OBVIOUS
<1> DEFINE r == s[k].route
           q == t[k].route
<1>4. /\ Len(q) = Len(r) /\ \A e \in 1..Len(r) : q[e].node = r[e].node
      /\ \A e \in 1..(Len(r) - 1) : q[e].by = r[e].by
  BY DEF SameSteps
<1>5. /\ \A e \in 1..(Len(r) - 1) : PeopleOf(s, D, k, r[e].node) \subseteq r[e].by
      /\ \A e \in 1..Len(r), f \in 1..Len(r) : e < f /\ ~AllowRepeat[r[f].node] =>
            PeopleOf(s, D, k, r[e].node) \cap PeopleOf(s, D, k, r[f].node) = {}
  BY DEF DecidersOK, RouteDeciders
<1> HIDE DEF r, q
<1>6. \A e \in 1..(Len(q) - 1) : PeopleOf(t, D, k, q[e].node) \subseteq q[e].by
  BY <1>2, <1>3, <1>4, <1>5 DEF r
<1>7. ASSUME NEW e \in 1..Len(q), NEW f \in 1..Len(q), e < f, ~AllowRepeat[q[f].node]
      PROVE  PeopleOf(t, D, k, q[e].node) \cap PeopleOf(t, D, k, q[f].node) = {}
  <2>1. /\ e \in 1..Len(r) /\ f \in 1..Len(r) /\ q[e].node = r[e].node
        /\ q[f].node = r[f].node
    BY <1>4
  <2>2. PeopleOf(s, D, k, r[e].node) \cap PeopleOf(s, D, k, r[f].node) = {}
    BY <1>5, <1>7, <2>1
  <2>3. QED
    BY <1>2, <2>1, <2>2
<1>8. QED
  BY <1>6, <1>7 DEF DecidersOK, RouteDeciders, q

\* A decision of a later approval does not concern an earlier one.
LEMMA LaterDecision ==
    ASSUME NEW s, NEW D, NEW d, NEW k \in Nat, d.instance \notin 1..k, DecidersOK(s, D, k)
    PROVE  DecidersOK(s, D \cup {d}, k)
<1>1. ASSUME NEW n PROVE PeopleOf(s, D \cup {d}, k, n) = PeopleOf(s, D, k, n)
  <2>1. d.instance \notin RoundsOf(s, k, n)
    BY DEF RoundsOf
  <2>2. \A v : v \in PeopleOf(s, D \cup {d}, k, n) <=> v \in PeopleOf(s, D, k, n)
    BY <2>1, PeopleIs
  <2>3. QED
    BY <2>2
<1>2. QED
  BY <1>1 DEF DecidersOK, RouteDeciders

\* A decision at the last step, by and for people without a part in the steps before
\* it where these may not decide again.
LEMMA LastDecision ==
    ASSUME NEW s, NEW D, NEW d, NEW k \in Nat, k > 0, NEW r \in Seq(RouteEntry),
           r # <<>>, Distinct(r), d.instance = k, d.node = r[Len(r)].node,
           RouteDeciders(s, D, k, r),
           ~AllowRepeat[d.node] =>
             \A e \in 1..(Len(r) - 1) : d.actor \notin r[e].by /\ d.principal \notin r[e].by
    PROVE  RouteDeciders(s, D \cup {d}, k, r)
<1> DEFINE P(n) == PeopleOf(s, D, k, n)
           Q(n) == PeopleOf(s, D \cup {d}, k, n)
<1>1. ASSUME NEW n, n # d.node PROVE Q(n) = P(n)
  <2>1. \A v : v \in Q(n) <=> v \in P(n)
    BY <1>1, PeopleIs
  <2>2. QED
    BY <2>1
<1>2. \A v : v \in Q(d.node) => v \in P(d.node) \/ v \in {d.actor, d.principal}
  BY PeopleIs
<1>3. Len(r) \in Nat /\ Len(r) > 0 /\ \A e \in 1..(Len(r) - 1) : e \in 1..Len(r) /\ e < Len(r)
  OBVIOUS
<1>4. /\ \A e \in 1..(Len(r) - 1) : P(r[e].node) \subseteq r[e].by
      /\ \A e \in 1..Len(r), f \in 1..Len(r) :
           e < f /\ ~AllowRepeat[r[f].node] => P(r[e].node) \cap P(r[f].node) = {}
  BY DEF RouteDeciders
<1> HIDE DEF P, Q
<1>5. \A e \in 1..(Len(r) - 1) : Q(r[e].node) = P(r[e].node)
  <2>1. \A e \in 1..(Len(r) - 1) : r[e].node # d.node
    BY <1>3 DEF Distinct
  <2>2. QED
    BY <1>1, <2>1
<1>6. ASSUME NEW e \in 1..Len(r), NEW f \in 1..Len(r), e < f, ~AllowRepeat[r[f].node]
      PROVE  Q(r[e].node) \cap Q(r[f].node) = {}
  <2>1. e \in 1..(Len(r) - 1) /\ (f \in 1..(Len(r) - 1) \/ f = Len(r))
    BY <1>3, <1>6
  <2>2. CASE f \in 1..(Len(r) - 1)
    <3>1. P(r[e].node) \cap P(r[f].node) = {}
      BY <1>4, <1>6
    <3>2. Q(r[e].node) = P(r[e].node) /\ Q(r[f].node) = P(r[f].node)
      BY <1>5, <2>1, <2>2
    <3>3. QED
      BY <3>1, <3>2
  <2>3. CASE f = Len(r)
    <3>0. P(r[e].node) \cap P(r[f].node) = {}
      BY <1>4, <1>6
    <3>1. P(r[e].node) \cap P(d.node) = {} /\ P(r[e].node) \subseteq r[e].by
      BY <1>4, <2>1, <2>3, <3>0
    <3>2. d.actor \notin r[e].by /\ d.principal \notin r[e].by
      BY <1>6, <2>1, <2>3
    <3>3. QED
      BY <1>2, <1>5, <2>1, <2>3, <3>1, <3>2
  <2>4. QED
    BY <2>1, <2>2, <2>3
<1>7. \A e \in 1..(Len(r) - 1) : Q(r[e].node) \subseteq r[e].by
  BY <1>4, <1>5
<1>8. QED
  BY <1>6, <1>7 DEF RouteDeciders, Q

\* A new step is opened, once everybody who had a part in a step is named by it.
LEMMA OpenedStep ==
    ASSUME NEW s, NEW t, NEW D, NEW k \in Nat, k > 0, NEW r \in Seq(RouteEntry), r = s[k].route,
           NEW x \in RouteEntry, x.state = "open", t[k].route = Append(r, x),
           \A l \in 1..(k - 1) : t[l].route = s[l].route,
           Distinct(Append(r, x)), DecidersOK(s, D, k),
           \A e \in 1..Len(r) : PeopleOf(s, D, k, r[e].node) \subseteq r[e].by,
           \A d \in D : ~(d.instance = k /\ d.node = x.node)
    PROVE  DecidersOK(t, D, k)
<1> DEFINE q == Append(r, x)
<1>1. /\ Len(r) \in Nat /\ Len(q) = Len(r) + 1 /\ q[Len(r) + 1] = x
      /\ \A e \in 1..Len(r) : q[e] = r[e] /\ e \in 1..Len(q) /\ e < Len(r) + 1
      /\ Len(r) + 1 \in 1..Len(q)
      /\ \A e \in 1..Len(q) : e \in 1..Len(r) \/ e = Len(r) + 1
  OBVIOUS
<1> HIDE DEF q
<1>2. ASSUME NEW n, NEW l \in 1..k PROVE Carried(t[l], n) <=> Carried(s[l], n)
  <2>1. CASE l \in 1..(k - 1)
    <3>1. t[l].route = s[l].route
      BY <2>1
    <3>2. QED
      BY <3>1 DEF Carried
  <2>2. CASE l = k
    <3>1. t[k].route = q
      BY DEF q
    <3>2. QED
      BY <1>1, <2>2, <3>1, ZenonT(40) DEF Carried
  <2>3. QED
    BY <2>1, <2>2
<1>3. ASSUME NEW n PROVE PeopleOf(t, D, k, n) = PeopleOf(s, D, k, n)
  <2>1. \A l \in 1..k : Carried(t[l], n) <=> Carried(s[l], n)
    BY <1>2
  <2>2. RoundsOf(t, k, n) = RoundsOf(s, k, n)
    BY <2>1, RoundsSame
  <2>3. QED
    BY <2>2 DEF PeopleOf
<1>4. PeopleOf(t, D, k, x.node) = {}
  <2>1. \A e \in 1..Len(r) : q[e].node # q[Len(r) + 1].node
    BY <1>1 DEF Distinct, q
  <2>2. ~Carried(t[k], x.node)
    <3>1. t[k].route = q
      BY DEF q
    <3>2. QED
      BY <1>1, <2>1, <3>1 DEF Carried
  <2>3. RoundsOf(t, k, x.node) = {k}
    BY <2>2, RoundsFresh
  <2>4. \A v : v \notin PeopleOf(t, D, k, x.node)
    BY <2>3, PeopleIs
  <2>5. QED
    BY <2>4
<1>5. \A e \in 1..(Len(q) - 1) : PeopleOf(t, D, k, q[e].node) \subseteq q[e].by
  BY <1>1, <1>3
<1>6. ASSUME NEW e \in 1..Len(q), NEW f \in 1..Len(q), e < f, ~AllowRepeat[q[f].node]
      PROVE  PeopleOf(t, D, k, q[e].node) \cap PeopleOf(t, D, k, q[f].node) = {}
  <2>1. CASE f = Len(r) + 1
    BY <1>1, <1>4, <2>1
  <2>2. CASE f \in 1..Len(r)
    <3>1. e \in 1..Len(r) /\ q[e] = r[e] /\ q[f] = r[f]
      BY <1>1, <1>6, <2>2
    <3>2. PeopleOf(s, D, k, r[e].node) \cap PeopleOf(s, D, k, r[f].node) = {}
      BY <1>6, <2>2, <3>1 DEF DecidersOK, RouteDeciders
    <3>3. QED
      BY <1>3, <3>1, <3>2
  <2>3. QED
    BY <1>1, <2>1, <2>2
<1>7. t[k].route = q
  BY DEF q
<1>8. QED
  BY <1>5, <1>6, <1>7 DEF DecidersOK, RouteDeciders

\* Marking the last step leaves the others as they were.
LEMMA MarkedSteps ==
    ASSUME NEW i \in Instance, RouteOK(i), i.status = "running", NEW by \in SUBSET User
    PROVE  /\ Distinct(i.route) /\ i.route # <<>> /\ i.route \in Seq(RouteEntry)
           /\ i.route[Len(i.route)].node = i.task.node
           /\ SameSteps(i.route, MarkStep(i, by))
           /\ MarkStep(i, by)[Len(i.route)].by = by
<1> DEFINE r == i.route
<1>1. r \in Seq(RouteEntry) /\ i.digest.amount \in Amount /\ Len(r) \in Nat
  BY DEF Instance, Material
<1>2. Distinct(r)
  BY <1>1, PathDistinct DEF RouteOK
<1>3. r # <<>> /\ r[Len(r)].node = i.task.node /\ r[Len(r)].state # "carried"
  BY DEF RouteOK, LastNode
<1>4. Len(r) \in 1..Len(r)
  BY <1>1, <1>3
<1>5. /\ Len(MarkStep(i, by)) = Len(r)
      /\ \A e \in 1..Len(r) : MarkStep(i, by)[e].node = r[e].node
  BY MarkStepType
<1>6. /\ MarkStep(i, by)[Len(r)].state = "completed"
      /\ MarkStep(i, by)[Len(r)].by = by
  BY <1>3, <1>4, MarkStepEntries
<1>7. ASSUME NEW e \in 1..(Len(r) - 1) PROVE MarkStep(i, by)[e] = r[e]
  <2>1. e \in 1..Len(r) /\ e < Len(r)
    BY <1>1
  <2>2. r[e].node # i.task.node
    BY <1>2, <1>3, <1>4, <2>1 DEF Distinct
  <2>3. QED
    BY <2>1, <2>2, MarkStepEntries
<1>8. \A e \in 1..Len(r) : e \in 1..(Len(r) - 1) \/ e = Len(r)
  BY <1>1
<1> HIDE DEF r
<1>9. SameSteps(r, MarkStep(i, by))
  BY <1>3, <1>5, <1>6, <1>7, <1>8 DEF SameSteps
<1>10. QED
  BY <1>1, <1>2, <1>3, <1>6, <1>9 DEF r

\* Where a step bars earlier deciders, neither who decides nor whom they decide for
\* is named by a step before it.
LEMMA DeciderNew ==
    ASSUME TypeInv, NEW u \in User, MayDecide(u), NEW i, i = instances[Current],
           ~AllowRepeat[i.task.node], NEW e \in 1..Len(i.route), i.route[e].node # i.task.node
    PROVE  u \notin i.route[e].by /\ Principal(i, u) \notin i.route[e].by
<1>1. i.route[e].by \subseteq EarlierDeciders(i, i.task.node)
  BY DEF EarlierDeciders
<1>2. \A rule : CurrentMembers(i, i.task.node, rule) \cap EarlierDeciders(i, i.task.node) = {}
  BY DEF CurrentMembers
<1>3. Base(i) \cap EarlierDeciders(i, i.task.node) = {}
  BY <1>2 DEF Base
<1>4. u \in Base(i) \/ (u \in CurrentMembers(i, i.task.node, User) /\ CoverRows(i, u) # {})
  BY DEF MayDecide, MayAct, AbleDelegates
<1>5. Principal(i, u) \in Base(i)
  BY <1>4, ActsForMember DEF Principal, TypeInv, TypeOK
<1>6. u \notin EarlierDeciders(i, i.task.node)
  BY <1>2, <1>3, <1>4
<1>7. QED
  BY <1>1, <1>3, <1>5, <1>6

\* The steps of route r name everybody who had a part in them.
NamesAll(s, D, k, r) ==
    \A e \in 1..Len(r) : PeopleOf(s, D, k, r[e].node) \subseteq r[e].by

\* Approval k's decisions are on steps of route r.
PlacedOn(D, k, r) == \A d \in D : d.instance = k => \E e \in 1..Len(r) : r[e].node = d.node

\* The approvals before k have the same routes.
SameBefore(s, t, k) == \A l \in 1..(k - 1) : t[l].route = s[l].route

\* An approval that reaches a node, or the end, with everybody who had a part in
\* its steps named by them.
LEMMA ReachedDeciders ==
    ASSUME NEW s, NEW t, NEW D, NEW k \in Nat, k > 0, NEW i \in Instance, s[k] = i,
           NEW n \in Node \cup {"end"}, NEW m \in Material, t[k] = Reached(i, n, m), RouteOK(t[k]),
           SameBefore(s, t, k), DecidersOK(s, D, k),
           NamesAll(s, D, k, i.route), PlacedOn(D, k, i.route)
    PROVE  DecidersOK(t, D, k)
<1>0. /\ \A l \in 1..(k - 1) : t[l].route = s[l].route
      /\ \A e \in 1..Len(i.route) : PeopleOf(s, D, k, i.route[e].node) \subseteq i.route[e].by
      /\ \A d \in D : d.instance = k => \E e \in 1..Len(i.route) : i.route[e].node = d.node
  BY DEF SameBefore, NamesAll, PlacedOn
<1>1. i.route \in Seq(RouteEntry) /\ Len(i.route) \in Nat
  BY DEF Instance
<1>2. t[k] \in Instance
  BY ReachedType
<1>3. CASE n = "end"
  <2>1. t[k].route = s[k].route
    BY <1>3 DEF Reached, Instance
  <2>2. SameSteps(s[k].route, t[k].route)
    BY <2>1 DEF SameSteps
  <2>3. Len(s[k].route) \in Nat
    BY <1>1
  <2>4. QED
    BY <1>0, <2>2, <2>3, SameDeciders
<1>4. CASE n # "end"
  <2> DEFINE x == [node |-> n, state |-> "open", by |-> {}]
  <2>1. x \in RouteEntry /\ x.state = "open" /\ x.node = n
    BY <1>4 DEF RouteEntry
  <2>2. t[k].route = Append(i.route, x)
    BY <1>4 DEF Reached, Opened, Instance
  <2>3. Distinct(Append(i.route, x))
    <3>1. t[k].route \in Seq(RouteEntry) /\ t[k].digest.amount \in Amount
      BY <1>2 DEF Instance, Material
    <3>2. OnPath(t[k].route, t[k].digest.amount)
      BY DEF RouteOK
    <3>3. QED
      BY <2>2, <3>1, <3>2, PathDistinct
  <2> HIDE DEF x
  <2>4. \A e \in 1..Len(i.route) : i.route[e].node # x.node
    <3>1. /\ Len(i.route) + 1 \in 1..Len(Append(i.route, x))
          /\ Append(i.route, x)[Len(i.route) + 1] = x
          /\ \A e \in 1..Len(i.route) : /\ e \in 1..Len(Append(i.route, x))
                                        /\ e < Len(i.route) + 1
                                        /\ Append(i.route, x)[e] = i.route[e]
      BY <1>1
    <3>2. QED
      BY <2>3, <3>1 DEF Distinct
  <2>5. \A d \in D : ~(d.instance = k /\ d.node = x.node)
    BY <1>0, <2>4
  <2>6. QED
    BY <1>0, <1>1, <2>1, <2>2, <2>3, <2>5, OpenedStep
<1>5. QED
  BY <1>3, <1>4

\* Approvals before the one that a step concerns keep their deciders.
LEMMA OlderDeciders ==
    ASSUME NEW s, NEW t, NEW D, NEW E, NEW k \in Nat, k > 0, Len(s[k].route) \in Nat,
           \A l \in 1..k : t[l].route = s[l].route, DecidersOK(s, D, k),
           E = D \/ \E d : E = D \cup {d} /\ d.instance \notin 1..k
    PROVE  DecidersOK(t, E, k)
<1>1. DecidersOK(s, E, k)
  BY LaterDecision
<1>2. t[k].route = s[k].route /\ \A l \in 1..(k - 1) : t[l].route = s[l].route
  OBVIOUS
<1>3. SameSteps(s[k].route, t[k].route)
  BY <1>2 DEF SameSteps
<1>4. QED
  BY <1>1, <1>2, <1>3, SameDeciders

LEMMA RepeatInit == Init => RepeatInv
  BY DEF Init, RepeatInv, DecisionsPlaced

\* An approval is started, with nobody's part or the parts of the one it resumes.
LEMMA RepeatAppend ==
    ASSUME TypeInv, RepeatInv, RoutesInv', NEW i \in Instance, NEW n \in Node \cup {"end"},
           NEW m \in Material, AppendsFresh(i, n, m),
           DecidersOK(Append(instances, i), decisions, Len(instances) + 1),
           NamesAll(Append(instances, i), decisions, Len(instances) + 1, i.route)
    PROVE  RepeatInv'
<1> DEFINE K == Len(instances) + 1
           s == Append(instances, i)
<1>1. /\ K \in Nat /\ K > 0 /\ Len(instances') = K /\ Len(instances) \in Nat
      /\ s[K] = i /\ instances'[K] = Reached(i, n, m)
      /\ \A l \in 1..(K - 1) : s[l] = instances[l] /\ instances'[l] = instances[l]
      /\ instances' = Append(instances, Reached(i, n, m)) /\ decisions' = decisions
  BY DEF AppendsFresh, TypeInv, TypeOK
<1>2. \A d \in decisions : d.instance \in 1..(K - 1)
  BY <1>1 DEF RepeatInv, DecisionsPlaced
<1>3. DecisionsPlaced(instances', decisions')
  <2>1. \A d \in decisions : d.instance \in 1..Len(instances')
    BY <1>1, <1>2
  <2>2. \A d \in decisions : instances'[d.instance] = instances[d.instance]
    BY <1>1, <1>2
  <2>3. QED
    BY <1>1, <2>1, <2>2 DEF RepeatInv, DecisionsPlaced
<1>4. DecidersOK(instances', decisions', K)
  <2>1. RouteOK(instances'[K])
    BY <1>1 DEF RoutesInv
  <2>2. PlacedOn(decisions, K, i.route)
    BY <1>1, <1>2 DEF PlacedOn
  <2>3. SameBefore(s, instances', K)
    BY <1>1 DEF SameBefore
  <2>4. /\ K \in Nat /\ K > 0 /\ s[K] = i /\ instances'[K] = Reached(i, n, m)
        /\ decisions' = decisions
    BY <1>1
  <2> HIDE DEF K, s
  <2>5. DecidersOK(s, decisions, K) /\ NamesAll(s, decisions, K, i.route)
    BY DEF K, s
  <2>6. DecidersOK(instances', decisions, K)
    BY <2>1, <2>2, <2>3, <2>4, <2>5, ReachedDeciders
  <2>7. QED
    BY <2>4, <2>6
<1>5. ASSUME NEW k \in 1..(K - 1) PROVE DecidersOK(instances', decisions', k)
  <2>1. k \in 1..Len(instances) /\ k \in Nat /\ k > 0
    BY <1>1
  <2>2. DecidersOK(instances, decisions, k) /\ Len(instances[k].route) \in Nat
    BY <2>1 DEF RepeatInv, TypeInv, TypeOK, Instance
  <2>3. \A l \in 1..k : instances'[l].route = instances[l].route
    BY <1>1, <2>1
  <2>4. decisions' = decisions
    BY <1>1
  <2>5. QED
    BY <2>1, <2>2, <2>3, <2>4, OlderDeciders
<1>6. \A k \in 1..Len(instances') : k \in 1..(K - 1) \/ k = K
  BY <1>1
<1>7. QED
  BY <1>3, <1>4, <1>5, <1>6 DEF RepeatInv

\* The running approval is replaced, with or without a decision on its last step.
LEMMA RepeatReplace ==
    ASSUME TypeInv, RepeatInv, Running, NEW j \in Instance, ReplaceCurrent(j),
           DecidersOK(instances', decisions', Current),
           \A e \in 1..Len(instances[Current].route) :
             \E f \in 1..Len(j.route) : j.route[f].node = instances[Current].route[e].node,
           \/ decisions' = decisions
           \/ \E d : /\ decisions' = decisions \cup {d} /\ d.instance = Current
                     /\ \E e \in 1..Len(instances[Current].route) :
                          instances[Current].route[e].node = d.node
    PROVE  RepeatInv'
<1> DEFINE K == Current
<1>1. /\ K \in Nat /\ K > 0 /\ Len(instances') = K /\ Len(instances) = K
      /\ instances'[K] = j
      /\ \A l \in 1..(K - 1) : instances'[l] = instances[l]
  BY DEF ReplaceCurrent, Running, Current, TypeInv, TypeOK
<1>2. \A l \in 1..K : l \in 1..(K - 1) \/ l = K
  BY <1>1
<1>3. ASSUME NEW d \in decisions'
      PROVE  /\ d.instance \in 1..Len(instances)
             /\ \E e \in 1..Len(instances[d.instance].route) :
                  instances[d.instance].route[e].node = d.node
  <2>1. K \in 1..Len(instances)
    BY <1>1
  <2>2. QED
    BY <2>1 DEF RepeatInv, DecisionsPlaced
<1>4. ASSUME NEW l \in 1..K, NEW e \in 1..Len(instances[l].route)
      PROVE  \E f \in 1..Len(instances'[l].route) :
                instances'[l].route[f].node = instances[l].route[e].node
  <2>1. CASE l = K
    BY <1>1, <2>1
  <2>2. CASE l \in 1..(K - 1)
    <3>1. instances'[l] = instances[l]
      BY <1>1, <2>2
    <3>2. QED
      BY <3>1
  <2>3. QED
    BY <1>2, <2>1, <2>2
<1>5. DecisionsPlaced(instances', decisions')
  <2>1. ASSUME NEW d \in decisions'
        PROVE  /\ d.instance \in 1..Len(instances')
               /\ \E f \in 1..Len(instances'[d.instance].route) :
                    instances'[d.instance].route[f].node = d.node
    <3>1. d.instance \in 1..K /\ d.instance \in 1..Len(instances')
      BY <1>1, <1>3
    <3>2. PICK e \in 1..Len(instances[d.instance].route) :
                 instances[d.instance].route[e].node = d.node
      BY <1>3
    <3>3. \E f \in 1..Len(instances'[d.instance].route) :
             instances'[d.instance].route[f].node = instances[d.instance].route[e].node
      BY <1>4, <3>1
    <3>4. QED
      BY <3>1, <3>2, <3>3
  <2>2. QED
    BY <2>1 DEF DecisionsPlaced
<1>6. ASSUME NEW k \in 1..(K - 1) PROVE DecidersOK(instances', decisions', k)
  <2>1. k \in 1..Len(instances) /\ k \in Nat /\ k > 0 /\ K \notin 1..k
    BY <1>1
  <2>2. DecidersOK(instances, decisions, k) /\ Len(instances[k].route) \in Nat
    BY <2>1 DEF RepeatInv, TypeInv, TypeOK, Instance
  <2>3. \A l \in 1..k : instances'[l].route = instances[l].route
    BY <1>1, <2>1
  <2>4. decisions' = decisions \/ \E d : decisions' = decisions \cup {d} /\ d.instance \notin 1..k
    BY <2>1
  <2>5. QED
    BY <2>1, <2>2, <2>3, <2>4, OlderDeciders
<1>7. QED
  BY <1>1, <1>2, <1>5, <1>6 DEF RepeatInv

\* A resumed approval carries its steps over with everybody who had a part in them.
LEMMA RepeatResumes ==
    ASSUME TypeInv, RoutesInv, RepeatInv, Resumes
    PROVE  LET i == NewInstance(CarriedRoute(instances[Current]), material)
               s == Append(instances, i)
           IN  /\ i \in Instance
               /\ DecidersOK(s, decisions, Len(instances) + 1)
               /\ NamesAll(s, decisions, Len(instances) + 1, i.route)
<1> DEFINE cur == instances[Current]
           r == CarriedRoute(cur)
           i == NewInstance(r, material)
           s == Append(instances, i)
           K == Len(instances)
<1>1. /\ cur \in Instance /\ AtStep(cur) /\ RouteOK(cur) /\ cur.status = "returned"
      /\ material \in Material /\ K \in Nat /\ K > 0 /\ Current = K
  BY DEF Resumes, Resumable, TypeInv, TypeOK, RoutesInv, Current
<1>2. /\ r \in Seq(RouteEntry) /\ Len(r) < Len(cur.route)
      /\ \A e \in 1..Len(r) : /\ r[e].node = cur.route[e].node /\ r[e].by = cur.route[e].by
                              /\ r[e].state = "carried"
  BY <1>1, CarriedOnPath
<1>3. i \in Instance /\ i.route = r
  BY <1>1, <1>2, NewInstanceType DEF NewInstance
<1>4. /\ s[K + 1] = i /\ \A l \in 1..K : s[l] = instances[l]
      /\ Len(cur.route) \in Nat /\ Len(r) \in Nat
  BY <1>1, <1>2 DEF Instance, TypeInv, TypeOK
<1>5. DecidersOK(instances, decisions, K) /\ \A d \in decisions : d.instance # K + 1
  BY <1>1 DEF RepeatInv, DecisionsPlaced
<1> HIDE DEF i, s, r, cur, K
<1>6. ASSUME NEW e \in 1..Len(r)
      PROVE  PeopleOf(s, decisions, K + 1, r[e].node)
               = PeopleOf(instances, decisions, K, cur.route[e].node)
  <2> DEFINE n == r[e].node
  <2>1. n = cur.route[e].node
    BY <1>2
  <2>2. Carried(s[K + 1], n)
    BY <1>2, <1>3, <1>4 DEF Carried
  <2>3. RoundsOf(s, K + 1, n) = {K + 1} \cup RoundsOf(s, K, n)
    BY <1>1, <2>2, RoundsCarried
  <2>4. RoundsOf(s, K, n) = RoundsOf(instances, K, n)
    <3>1. \A l \in 1..K : Carried(s[l], n) <=> Carried(instances[l], n)
      BY <1>4
    <3>2. QED
      BY <1>1, <3>1, RoundsSame
  <2> HIDE DEF n
  <2>5. \A v : v \in PeopleOf(s, decisions, K + 1, n) <=> v \in PeopleOf(instances, decisions, K, n)
    BY <1>5, <2>3, <2>4, PeopleIs
  <2>6. QED
    BY <2>1, <2>5 DEF n
<1>7. /\ \A e \in 1..(Len(cur.route) - 1) :
           PeopleOf(instances, decisions, K, cur.route[e].node) \subseteq cur.route[e].by
      /\ \A e \in 1..Len(cur.route), f \in 1..Len(cur.route) :
           e < f /\ ~AllowRepeat[cur.route[f].node] =>
             PeopleOf(instances, decisions, K, cur.route[e].node)
               \cap PeopleOf(instances, decisions, K, cur.route[f].node) = {}
  BY <1>1, <1>5 DEF DecidersOK, RouteDeciders, cur
<1>8. \A e \in 1..Len(r) : e \in 1..Len(cur.route) /\ e \in 1..(Len(cur.route) - 1)
  BY <1>2, <1>4
<1>9. NamesAll(s, decisions, K + 1, r)
  BY <1>2, <1>6, <1>7, <1>8 DEF NamesAll
<1>10. RouteDeciders(s, decisions, K + 1, r)
  <2>1. \A e \in 1..(Len(r) - 1) : e \in 1..Len(r)
    BY <1>4
  <2>2. \A e \in 1..(Len(r) - 1) : PeopleOf(s, decisions, K + 1, r[e].node) \subseteq r[e].by
    BY <1>9, <2>1 DEF NamesAll
  <2>3. ASSUME NEW e \in 1..Len(r), NEW f \in 1..Len(r), e < f, ~AllowRepeat[r[f].node]
        PROVE  PeopleOf(s, decisions, K + 1, r[e].node)
                 \cap PeopleOf(s, decisions, K + 1, r[f].node) = {}
    <3>1. ~AllowRepeat[cur.route[f].node]
      BY <1>2, <2>3
    <3>2. PeopleOf(instances, decisions, K, cur.route[e].node)
            \cap PeopleOf(instances, decisions, K, cur.route[f].node) = {}
      BY <1>7, <1>8, <2>3, <3>1
    <3>3. QED
      BY <1>6, <3>2
  <2>4. QED
    BY <2>2, <2>3 DEF RouteDeciders
<1>11. DecidersOK(s, decisions, K + 1)
  BY <1>3, <1>4, <1>10 DEF DecidersOK
<1>12. QED
  BY <1>3, <1>9, <1>11 DEF i, s, r, cur, K

\* A decision on the running approval, before anything moves: its people are new to it.
LEMMA RepeatDecision ==
    ASSUME TypeInv, RoutesInv, RepeatInv, NEW u \in User, MayDecide(u), NEW o
    PROVE  LET cur == instances[Current]
               d == DecisionBy(u, o)
           IN  /\ DecidersOK(instances, decisions \cup {d}, Current)
               /\ d.instance = Current /\ d.node = cur.task.node
               /\ \E e \in 1..Len(cur.route) : cur.route[e].node = d.node
<1> DEFINE cur == instances[Current]
           d == DecisionBy(u, o)
           r == cur.route
<1>1. /\ Current \in 1..Len(instances) /\ cur \in Instance /\ RouteOK(cur)
      /\ cur.status = "running" /\ Current \in Nat /\ Current > 0
  BY RunningType DEF MayDecide, Running, RoutesInv
<1>2. /\ Distinct(r) /\ r # <<>> /\ r \in Seq(RouteEntry)
      /\ r[Len(r)].node = cur.task.node
  BY <1>1, MarkedSteps
<1>3. /\ d.instance = Current /\ d.node = cur.task.node /\ d.actor = u
      /\ d.principal = Principal(cur, u)
  BY DEF DecisionBy
<1>4. RouteDeciders(instances, decisions, Current, r)
  BY <1>1 DEF RepeatInv, DecidersOK
<1>5. Len(r) \in 1..Len(r)
  BY <1>2
<1>6. ASSUME ~AllowRepeat[d.node], NEW e \in 1..(Len(r) - 1)
      PROVE  d.actor \notin r[e].by /\ d.principal \notin r[e].by
  <2>1. e \in 1..Len(r) /\ e < Len(r)
    BY <1>2
  <2>2. r[e].node # cur.task.node
    BY <1>2, <1>5, <2>1 DEF Distinct
  <2>3. QED
    BY <1>3, <1>6, <2>1, <2>2, DeciderNew
<1> HIDE DEF r, d
<1>7. RouteDeciders(instances, decisions \cup {d}, Current, r)
  BY <1>1, <1>2, <1>3, <1>4, <1>6, LastDecision
<1>8. QED
  BY <1>2, <1>3, <1>5, <1>7 DEF DecidersOK, r, d

\* Approve: the completed step names everybody who decided it.
LEMMA RepeatDecides ==
    ASSUME TypeInv, TypeInv', RoutesInv, RoutesInv', RepeatInv, Decides
    PROVE  RepeatInv'
<1> DEFINE cur == instances[Current]
           K == Current
<1>1. PICK u \in User, by \in SUBSET User :
             /\ MayDecide(u) /\ material' \in Material
             /\ by = DecidedBy(u, TaskDecisions \cup {DecisionBy(u, "approve")})
             /\ decisions' = decisions \cup {DecisionBy(u, "approve")}
             /\ \/ UNCHANGED instances
                \/ /\ Completed(cur, by) \in Instance
                   /\ Walk(material', cur.task.node) \in Node \cup {"end"}
                   /\ ReplaceCurrent(Reached(Completed(cur, by),
                                             Walk(material', cur.task.node), material'))
  BY DEF Decides
<1> DEFINE d == DecisionBy(u, "approve")
           D == decisions \cup {d}
<1>2. /\ Running /\ K \in 1..Len(instances) /\ cur \in Instance /\ RouteOK(cur)
      /\ cur.status = "running" /\ K \in Nat /\ K > 0 /\ K = Len(instances)
  BY <1>1, RunningType DEF MayDecide, Running, RoutesInv, Current
<1>3. /\ DecidersOK(instances, D, K) /\ d.instance = K /\ d.node = cur.task.node
      /\ \E e \in 1..Len(cur.route) : cur.route[e].node = d.node
  BY <1>1, RepeatDecision
<1> HIDE DEF d
<1>4. CASE UNCHANGED instances
  <2>1. ReplaceCurrent(cur)
    BY <1>2, <1>4 DEF ReplaceCurrent, TypeInv, TypeOK
  <2>2. DecidersOK(instances', decisions', K)
    BY <1>1, <1>3, <1>4 DEF d
  <2>3. decisions' = decisions \cup {d}
    BY <1>1 DEF d
  <2>4. QED
    BY <1>2, <1>3, <2>1, <2>2, <2>3, RepeatReplace
<1>5. CASE ~UNCHANGED instances
  <2> DEFINE i == Completed(cur, by)
             n == Walk(material', cur.task.node)
             j == Reached(i, n, material')
             s == [instances EXCEPT ![K] = i]
             r == cur.route
             q == i.route
  <2>1. i \in Instance /\ n \in Node \cup {"end"} /\ ReplaceCurrent(j) /\ j \in Instance
    BY <1>1, <1>5, ReachedType
  <2>2. q = MarkStep(cur, by)
    BY <1>2 DEF Completed, Instance
  <2>3. /\ Distinct(r) /\ r # <<>> /\ r \in Seq(RouteEntry) /\ r[Len(r)].node = cur.task.node
        /\ SameSteps(r, q) /\ q[Len(r)].by = by /\ Len(r) \in Nat
    BY <1>2, <2>2, MarkedSteps
  <2>4. /\ s[K] = i /\ \A l \in 1..(K - 1) : s[l] = instances[l] /\ instances'[l] = instances[l]
        /\ instances'[K] = j
    BY <1>2, <2>1 DEF ReplaceCurrent, TypeInv, TypeOK
  <2>5. RouteOK(instances'[K])
    <3>1. K \in 1..Len(instances')
      BY <1>2, <2>1 DEF ReplaceCurrent, TypeInv, TypeOK
    <3>2. QED
      BY <3>1 DEF RoutesInv
  <2> HIDE DEF i, n, j, s, q
  <2>6. /\ \A m : PeopleOf(s, D, K, m) = PeopleOf(instances, D, K, m)
        /\ DecidersOK(s, D, K)
    <3>1. s[K].route = q /\ \A l \in 1..(K - 1) : s[l].route = instances[l].route
      BY <2>4 DEF q
    <3>2. SameSteps(instances[K].route, s[K].route) /\ Len(instances[K].route) \in Nat
      BY <2>3, <3>1
    <3> HIDE DEF D, K
    <3>3. \A l \in 1..(K - 1) : s[l].route = instances[l].route
      BY <3>1
    <3>4. DecidersOK(s, D, K)
      BY <1>2, <1>3, <3>2, <3>3, SameDeciders
    <3>5. ASSUME NEW m PROVE PeopleOf(s, D, K, m) = PeopleOf(instances, D, K, m)
      <4>1. K \in Nat /\ K > 0
        BY <1>2
      <4>2. QED
        BY <3>2, <3>3, <4>1, SamePeople
    <3>6. QED
      BY <1>3, <3>4, <3>5
  <2>7. PeopleOf(instances, D, K, cur.task.node) \subseteq by
    <3>1. ~Carried(cur, cur.task.node)
      <4>1. cur.route[Len(cur.route)].state # "carried"
        BY <1>2 DEF RouteOK
      <4>2. \A e \in 1..Len(r) : e = Len(r) \/ e < Len(r)
        BY <2>3
      <4>3. Len(r) \in 1..Len(r)
        BY <2>3
      <4>4. \A e \in 1..Len(r) : r[e].node = cur.task.node => e = Len(r)
        BY <2>3, <4>2, <4>3 DEF Distinct
      <4>5. QED
        BY <4>1, <4>4 DEF Carried
    <3>2. RoundsOf(instances, K, cur.task.node) = {K}
      BY <1>2, <3>1, RoundsFresh
    <3>3. \A e \in D : e.instance = K /\ e.node = cur.task.node => e \in TaskDecisions \cup {d}
      BY DEF TaskDecisions
    <3>4. \A e \in TaskDecisions \cup {d} : e.actor \in by /\ e.principal \in by
      BY <1>1 DEF DecidedBy, d
    <3>5. \A v : v \in PeopleOf(instances, D, K, cur.task.node) => v \in by
      BY <3>2, <3>3, <3>4, PeopleIs
    <3>6. QED
      BY <3>5
  <2>8. NamesAll(s, D, K, q)
    <3>1. RouteDeciders(s, D, K, q) /\ Len(q) = Len(r)
      BY <2>3, <2>4, <2>6 DEF DecidersOK, SameSteps, q
    <3>2. \A e \in 1..(Len(q) - 1) : PeopleOf(s, D, K, q[e].node) \subseteq q[e].by
      BY <3>1 DEF RouteDeciders
    <3>3. Len(r) \in 1..Len(r)
      BY <2>3
    <3>4. q[Len(r)].node = cur.task.node
      BY <2>3, <3>3 DEF SameSteps
    <3>5. PeopleOf(s, D, K, q[Len(r)].node) \subseteq q[Len(r)].by
      BY <2>3, <2>6, <2>7, <3>4
    <3>6. \A e \in 1..Len(q) : e \in 1..(Len(q) - 1) \/ e = Len(r)
      BY <2>3, <3>1
    <3>7. QED
      BY <3>2, <3>5, <3>6 DEF NamesAll
  <2>9. PlacedOn(D, K, q)
    <3>1. \A e \in decisions : e.instance = K => \E f \in 1..Len(r) : r[f].node = e.node
      BY DEF RepeatInv, DecisionsPlaced
    <3>2. \A e \in D : e.instance = K => \E f \in 1..Len(r) : r[f].node = e.node
      BY <1>3, <3>1
    <3>3. Len(q) = Len(r) /\ \A f \in 1..Len(r) : q[f].node = r[f].node
      BY <2>3 DEF SameSteps
    <3>4. QED
      BY <3>2, <3>3 DEF PlacedOn
  <2>10. DecidersOK(instances', D, K)
    <3>1. SameBefore(s, instances', K)
      BY <2>4 DEF SameBefore
    <3>2. NamesAll(s, D, K, i.route) /\ PlacedOn(D, K, i.route)
      BY <2>8, <2>9 DEF q
    <3>3. instances'[K] = Reached(i, n, material')
      BY <2>4 DEF j
    <3>4. QED
      BY <1>1, <1>2, <2>1, <2>4, <2>5, <2>6, <3>1, <3>2, <3>3, ReachedDeciders
  <2>11. \A e \in 1..Len(r) : \E f \in 1..Len(j.route) : j.route[f].node = r[e].node
    <3>1. q \in Seq(RouteEntry) /\ Len(q) = Len(r) /\ \A e \in 1..Len(r) : q[e].node = r[e].node
      BY <2>1, <2>3 DEF SameSteps, Instance, q
    <3>2. j.route = q \/ \E x \in RouteEntry : j.route = Append(q, x)
      <4>1. n = "end" => j.route = q
        BY <2>1 DEF j, q, Reached, Instance
      <4>2. n # "end" => j.route = Append(q, [node |-> n, state |-> "open", by |-> {}])
        BY <2>1 DEF j, q, Reached, Opened, Instance
      <4>3. n # "end" => [node |-> n, state |-> "open", by |-> {}] \in RouteEntry
        BY <2>1 DEF RouteEntry
      <4>4. QED
        BY <4>1, <4>2, <4>3
    <3>3. \A e \in 1..Len(r) : e \in 1..Len(j.route) /\ j.route[e] = q[e]
      BY <3>1, <3>2
    <3>4. QED
      BY <3>1, <3>3
  <2>12. decisions' = D
    BY <1>1 DEF d
  <2>13. QED
    BY <1>2, <1>3, <2>1, <2>10, <2>11, <2>12, RepeatReplace
<1>6. QED
  BY <1>4, <1>5

\* The running approval's last step is marked, whatever its status becomes.
LEMMA RepeatMarked ==
    ASSUME TypeInv, RepeatInv, RoutesInv, Running, NEW j \in Instance, ReplaceCurrent(j),
           NEW by \in SUBSET User, j.route = MarkStep(instances[Current], by),
           DecidersOK(instances, decisions', Current),
           \/ decisions' = decisions
           \/ \E d : /\ decisions' = decisions \cup {d} /\ d.instance = Current
                     /\ \E e \in 1..Len(instances[Current].route) :
                          instances[Current].route[e].node = d.node
    PROVE  RepeatInv'
<1> DEFINE K == Current
           r == instances[K].route
<1>1. /\ K \in 1..Len(instances) /\ instances[K] \in Instance /\ RouteOK(instances[K])
      /\ instances[K].status = "running" /\ K \in Nat /\ K > 0 /\ K = Len(instances)
  BY RunningType DEF Running, RoutesInv, Current
<1>2. SameSteps(r, MarkStep(instances[K], by)) /\ Len(r) \in Nat
  BY <1>1, MarkedSteps
<1>3. instances'[K] = j /\ \A l \in 1..(K - 1) : instances'[l] = instances[l]
  BY <1>1 DEF ReplaceCurrent, TypeInv, TypeOK
<1>4. SameSteps(r, j.route)
  BY <1>2
<1>5. \A e \in 1..Len(r) : \E f \in 1..Len(j.route) : j.route[f].node = r[e].node
  BY <1>4 DEF SameSteps
<1>6. DecidersOK(instances', decisions', K)
  <2>1. PICK s, D : s = instances' /\ D = decisions'
    OBVIOUS
  <2>2. \A l \in 1..(K - 1) : s[l].route = instances[l].route
    BY <1>3, <2>1
  <2>3. SameSteps(instances[K].route, s[K].route)
    BY <1>3, <1>4, <2>1
  <2>4. DecidersOK(instances, D, K)
    BY <2>1
  <2>5. DecidersOK(s, D, K)
    BY <1>1, <1>2, <2>2, <2>3, <2>4, SameDeciders
  <2>6. QED
    BY <2>1, <2>5
<1>7. QED
  BY <1>5, <1>6, RepeatReplace

\* Nothing a decider is read from changes.
LEMMA RepeatRetouches ==
    ASSUME TypeInv, RepeatInv, Retouches
    PROVE  RepeatInv'
<1>1. /\ decisions' = decisions /\ Len(instances') = Len(instances) /\ Len(instances) \in Nat
      /\ \A k \in 1..Len(instances) : instances'[k].route = instances[k].route
  BY DEF Retouches, TypeInv, TypeOK
<1>2. DecisionsPlaced(instances', decisions')
  BY <1>1 DEF RepeatInv, DecisionsPlaced
<1>3. ASSUME NEW k \in 1..Len(instances) PROVE DecidersOK(instances', decisions', k)
  <2>1. DecidersOK(instances, decisions, k) /\ Len(instances[k].route) \in Nat
    BY DEF RepeatInv, TypeInv, TypeOK, Instance
  <2>2. \A l \in 1..k : instances'[l].route = instances[l].route
    BY <1>1
  <2>3. k \in Nat /\ k > 0
    BY <1>1
  <2>4. QED
    BY <1>1, <2>1, <2>2, <2>3, OlderDeciders
<1>4. QED
  BY <1>1, <1>2, <1>3 DEF RepeatInv

LEMMA RepeatStep == TypeInv /\ ForceInv /\ RoutesInv /\ RepeatInv /\ [Next]_vars => RepeatInv'
<1> SUFFICES ASSUME TypeInv, ForceInv, RoutesInv, RepeatInv, [Next]_vars PROVE RepeatInv'
  OBVIOUS
<1>0. TypeInv' /\ RoutesInv'
  BY TypeStep, RoutesStep
<1>1. CASE Submits
  <2>1. PICK m \in Material : AppendsFresh(NewInstance(<<>>, m), Walk(m, "start"), m)
    BY <1>1 DEF Submits
  <2> DEFINE i == NewInstance(<<>>, m)
             n == Walk(m, "start")
             s == Append(instances, i)
             K == Len(instances) + 1
  <2>2. i \in Instance /\ n \in Node \cup {"end"} /\ i.route = <<>>
    <3>1. <<>> \in Seq(RouteEntry)
      OBVIOUS
    <3>2. QED
      BY <3>1, NewInstanceType, WalkType DEF NewInstance
  <2>3. AppendsFresh(i, n, m)
    BY <2>1
  <2>4. s[K] = i
    BY DEF TypeInv, TypeOK
  <2> HIDE DEF i, n, s, K
  <2>5. s[K].route = <<>> /\ Len(<<>>) = 0
    BY <2>2, <2>4
  <2>6. NamesAll(s, decisions, K, i.route) /\ DecidersOK(s, decisions, K)
    BY <2>2, <2>5 DEF NamesAll, DecidersOK, RouteDeciders
  <2>7. QED
    BY <1>0, <2>2, <2>3, <2>6, RepeatAppend DEF s, K
<1>2. CASE Resumes
  <2> DEFINE i == NewInstance(CarriedRoute(instances[Current]), material)
             n == instances[Current].task.node
             s == Append(instances, i)
             K == Len(instances) + 1
  <2>1. i \in Instance /\ DecidersOK(s, decisions, K) /\ NamesAll(s, decisions, K, i.route)
    BY <1>2, RepeatResumes
  <2>2. AppendsFresh(i, n, material) /\ material \in Material
    BY <1>2 DEF Resumes, TypeInv, TypeOK
  <2>3. n \in Node \cup {"end"}
    BY <1>2, CarriedRouteType DEF Resumes, Resumable, TypeInv, TypeOK, Current
  <2> HIDE DEF i, n
  <2>4. QED
    BY <1>0, <2>1, <2>2, <2>3, RepeatAppend
<1>3. CASE Decides
  BY <1>0, <1>3, RepeatDecides
<1>4. CASE Rejects
  <2>1. PICK u \in User, o \in {"reject", "return"}, j \in Instance :
               /\ MayDecide(u) /\ decisions' = decisions \cup {DecisionBy(u, o)}
               /\ ReplaceCurrent(j) /\ j.route = MarkStep(instances[Current], {u})
    BY <1>4 DEF Rejects
  <2>2. Running /\ {u} \in SUBSET User
    BY <2>1 DEF MayDecide
  <2>3. /\ DecidersOK(instances, decisions', Current) /\ DecisionBy(u, o).instance = Current
        /\ \E e \in 1..Len(instances[Current].route) :
             instances[Current].route[e].node = DecisionBy(u, o).node
    BY <2>1, RepeatDecision
  <2>4. QED
    BY <2>1, <2>2, <2>3, RepeatMarked
<1>5. CASE Withdraws
  <2>1. PICK j \in Instance : /\ Running /\ decisions' = decisions /\ ReplaceCurrent(j)
                              /\ j.route = MarkStep(instances[Current], {})
    BY <1>5 DEF Withdraws
  <2>2. DecidersOK(instances, decisions', Current)
    BY <2>1, RunningType DEF RepeatInv
  <2>3. {} \in SUBSET User
    OBVIOUS
  <2>4. QED
    BY <2>1, <2>2, <2>3, RepeatMarked
<1>6. CASE Retouches
  BY <1>6, RepeatRetouches
<1>7. QED
  BY <1>1, <1>2, <1>3, <1>4, <1>5, <1>6, StepsAre

\* Nobody who decided a step, nor anybody it was decided for, has a part in a later
\* step that bars earlier deciders, over every round of an approval: a resumed one
\* counts the steps it carried over from the rounds before.
THEOREM NobodyDecidesAgain == Spec => []NoRepeatDeciders
<1> DEFINE IInv == TypeInv /\ ForceInv /\ RoutesInv /\ RepeatInv
<1>1. Init => IInv
  BY TypeInit, ForceInit, RoutesInit, RepeatInit
<1>2. IInv /\ [Next]_vars => IInv'
  BY TypeStep, ForceStep, RoutesStep, RepeatStep
<1>3. IInv => NoRepeatDeciders
  <2> SUFFICES ASSUME IInv PROVE NoRepeatDeciders
    OBVIOUS
  <2>1. \A k, n : Rounds(k, n) = RoundsOf(instances, k, n)
    BY DEF Rounds, RoundsOf, Carried
  <2>2. \A k, n : People(k, n) = PeopleOf(instances, decisions, k, n)
    BY <2>1 DEF People, PeopleOf
  <2>3. ASSUME NEW k \in 1..Current, NEW e \in 1..Len(instances[k].route),
               NEW s \in 1..Len(instances[k].route), e < s,
               ~AllowRepeat[instances[k].route[s].node]
        PROVE  People(k, instances[k].route[e].node)
                 \cap People(k, instances[k].route[s].node) = {}
    <3>1. DecidersOK(instances, decisions, k)
      BY DEF RepeatInv, Current
    <3>2. PeopleOf(instances, decisions, k, instances[k].route[e].node)
            \cap PeopleOf(instances, decisions, k, instances[k].route[s].node) = {}
      BY <2>3, <3>1 DEF DecidersOK, RouteDeciders
    <3>3. QED
      BY <2>2, <3>2
  <2>4. ASSUME NEW k \in 1..Current, NEW s \in 1..Len(instances[k].route), NEW e \in 1..(s - 1)
        PROVE  e \in 1..Len(instances[k].route) /\ e < s
    <3>1. Len(instances[k].route) \in Nat
      BY DEF TypeInv, TypeOK, Current, Instance
    <3>2. QED
      BY <3>1
  <2>5. QED
    BY <2>3, <2>4 DEF NoRepeatDeciders
<1>4. QED
  BY <1>1, <1>2, <1>3, PTL DEF Spec
=============================================================================
