----------------------------- MODULE Requisitions -----------------------------
(***************************************************************************)
(* Requisitions and the money they hold: drafting, submission, the outcome *)
(* of their approval, amendment, substitution of expired codes, stopping   *)
(* and expiry, with the projects an approval generates.                    *)
(*                                                                         *)
(* Most commands read the requisition and its reservation first, without a *)
(* lock, to learn which balance rows to lock; then they lock these and the *)
(* requisition and read again.  Such a command is two steps, and others    *)
(* commit between them.  Commands that begin by locking are one step.      *)
(*                                                                         *)
(* Abstracted: of a requisition's fields its estimate (the sum of its      *)
(* lines), one further material field (the ledger account), one field that *)
(* is not material and its project; the ledger to what is allocated to a   *)
(* project and the reservations on it (see Ledger), an approval to its     *)
(* status and outcome (see Approvals), the revisions to the latest applied *)
(* one and the open amendment.  Negative budgets are not allowed.          *)
(***************************************************************************)
EXTENDS Integers, FiniteSets, FiniteSetsExt

CONSTANTS
    Req,            \* requisitions
    Standalone,     \* the ones raised without a project: Project Requests
    Main,           \* projects that exist from the start
    Nothing,        \* SQL NULL
    Worker,         \* database transactions in flight at a time
    Funds,          \* Funds[m]: what is allocated to project m
    MaxEstimate,    \* bound
    Mixes           \* bound: the requisitions and commands that meet, and versions of each

ASSUME RequisitionsAssumption ==
    /\ Standalone \subseteq Req
    /\ Funds \in [Main -> Nat]
    /\ Nothing \notin Main
    /\ MaxEstimate \in Nat
    \* Rows have ids of their own: no two of these are one, and none is NULL.
    /\ Main \cap ({"sub", "own"} \X Req) = {}
    /\ Nothing \notin Req \cup ({"sub", "own"} \X Req) \cup (Req \X Nat \X {"main", "sub"})

Sub(r) == <<"sub", r>>          \* project.generated_by_requisition_id
Own(r) == <<"own", r>>          \* project.source_requisition_id of a Project Request
Generated == {Sub(r) : r \in Req} \cup {Own(r) : r \in Req}
Project == Main \cup Generated

VARIABLES
    mix,        \* the requisitions and families of commands of this behaviour
    req,        \* requisition
    applied,    \* applied[r]: the snapshot of its latest applied revision
    amendment,  \* amendment[r]: its open amendment (requisition_revision, draft or pending)
    instance,   \* instance[r]: the status of its latest approval instance
    approved,   \* approved[r]: approved_material_digest of the approval in force
    money,      \* the ledger: allocated, reservations, and the keys of the other postings
    project,    \* project[p]: project.status; "none" before the project exists
    usable,     \* the codes that are usable today
    tx          \* tx[w]: the transaction of worker w and what it has read

vars == <<mix, req, applied, amendment, instance, approved, money, project, usable, tx>>

\* Whether the commands of a family are part of this behaviour.
In(family) == family \in mix.families
Texts == IF In("text") THEN 0..1 ELSE {0}

Idle == [op |-> "none", r |-> Nothing, stage |-> "idle", row |-> Nothing, held |-> Nothing,
         amendment |-> Nothing]
NoAmendment == [status |-> "none", content |-> Nothing, base |-> 0]

-----------------------------------------------------------------------------
\* live_snapshot: the fields a revision keeps.
Content(row) == [estimate |-> row.estimate, text |-> row.text, code |-> row.code,
                 project |-> row.project]

\* material_of: the fields whose change needs a new approval.
Material(content) == [estimate |-> content.estimate, code |-> content.code,
                      project |-> content.project]

\* What the adapter presents to the approvals: a running amendment stands for its requisition.
Proposal(r, row) ==
    IF amendment[r].status = "pending" THEN amendment[r].content ELSE Content(row)

(* The ledger.  A reservation is known by the key it was posted under; posting a key again     *)
(* replays the first posting when the content is the same and is refused otherwise.            *)
Reserved(m, p) ==
    MapThenSumSet(LAMBDA k: IF m.held[k].project = p THEN m.held[k].left ELSE 0, DOMAIN m.held)

Available(m, p) == m.allocated[p] - Reserved(m, p)

\* reservation_remaining
Held(m, row) ==
    IF row.entry = Nothing THEN Nothing
    ELSE [project |-> m.held[row.entry].project, left |-> m.held[row.entry].left]

Reserve(m, ps, key, p, amount) ==
    IF key \in DOMAIN m.held
    THEN [m EXCEPT !.ok = @ /\ m.held[key].project = p /\ m.held[key].amount = amount]
    ELSE [m EXCEPT !.ok = @ /\ ps[p] = "active" /\ Available(m, p) >= amount,
                   !.held = [k \in DOMAIN @ \cup {key} |->
                                IF k = key THEN [project |-> p, amount |-> amount, left |-> amount]
                                ELSE @[k]]]

\* release_live: what is left of the current reservation, under the key of its round and reason.
ReleaseLive(m, r, row, reason) ==
    LET key == <<"release", r, row.round, reason>>
    IN  IF row.entry = Nothing \/ m.held[row.entry].left = 0 \/ key \in m.keys THEN m
        ELSE [m EXCEPT !.held[row.entry].left = 0, !.keys = @ \cup {key}]

\* move_funds: one balanced group out of a project and into another.
MoveFunds(m, ps, key, from, to, amount) ==
    IF key \in m.keys THEN m
    ELSE [m EXCEPT !.ok = @ /\ Available(m, from) >= amount /\ ps[to] = "active",
                   !.allocated[from] = @ - amount, !.allocated[to] = @ + amount,
                   !.keys = @ \cup {key}]

-----------------------------------------------------------------------------
(* Drafting: these lock the requisition first. *)

\* write_status: every status is a new version.
Moved(row, to) == [row EXCEPT !.status = to, !.version = @ + 1]

\* RequisitionService.create: a number, a draft, no lines yet.
Create(r, p) ==
    /\ r \in mix.reqs /\ req[r].status = "none"
    /\ p \in IF r \in Standalone THEN {Nothing} ELSE Main
    /\ req' = [req EXCEPT ![r] = [@ EXCEPT !.status = "draft", !.version = 1, !.project = p]]
    /\ UNCHANGED <<applied, amendment, instance, approved, money, project, usable, tx>>

\* RequisitionService.update of a draft, with the version last read; its codes must be usable.
\* The reservation of a returned requisition stays where it is, whatever becomes of its project.
UpdateHeader(r, p, code, text) ==
    /\ req[r].status = "draft" /\ req[r].version < mix.versions
    /\ code \in usable
    /\ code = req[r].code \/ In("codes")
    /\ p = req[r].project \/ (r \notin Standalone /\ p \in Main /\ In("move"))
    /\ <<p, code, text>> # <<req[r].project, req[r].code, req[r].text>>
    /\ req' = [req EXCEPT ![r] = [req[r] EXCEPT !.project = p, !.code = code, !.text = text,
                                             !.version = @ + 1]]
    /\ UNCHANGED <<applied, amendment, instance, approved, money, project, usable, tx>>

\* LineService.write: lines come and go, and the estimate is their sum, zero when none is left.
WriteLines(r, estimate) ==
    /\ req[r].status = "draft" /\ req[r].version < mix.versions
    /\ estimate # req[r].estimate
    /\ req' = [req EXCEPT ![r] = [req[r] EXCEPT !.estimate = estimate, !.version = @ + 1]]
    /\ UNCHANGED <<applied, amendment, instance, approved, money, project, usable, tx>>

-----------------------------------------------------------------------------
(* A command that reads before it locks. *)

\* TRANSITIONS, and what the unlocked reads of the other commands require.
Begins(op, r) ==
    LET status == req[r].status
    IN  CASE op = "approval_pending"   -> status = "draft"
          [] op = "withdrawn"          -> status \in {"draft", "approval_pending",
                                                      "sourcing_in_progress"}
          [] op = "cancelled"          -> status \in {"approval_pending", "sourcing_in_progress"}
          [] op = "expired"            -> status = "sourcing_in_progress"
          [] op = "submit amendment"   -> amendment[r].status = "draft"
          [] op = "withdraw amendment" -> amendment[r].status = "pending"
          \* A decision locks the approval instance before it reads.
          [] op = "decide"             -> /\ instance[r] = "running"
                                          /\ \A w \in Worker : <<tx[w].op, tx[w].r>> # <<op, r>>

Begin(w, r, op) ==
    /\ tx[w] = Idle
    /\ req[r].version \in 1..(mix.versions - 1)
    /\ Begins(op, r)
    /\ tx' = [tx EXCEPT ![w] = [op |-> op, r |-> r, stage |-> "read", row |-> req[r],
                                held |-> Held(money, req[r]), amendment |-> amendment[r]]]
    /\ UNCHANGED <<req, applied, amendment, instance, approved, money, project, usable>>

\* The command is refused, its connection is lost or the process dies: nothing is kept.
Refuse(w) ==
    /\ tx[w] # Idle
    /\ tx' = [tx EXCEPT ![w] = Idle]
    /\ UNCHANGED <<req, applied, amendment, instance, approved, money, project, usable>>

Ends(w) == tx' = [tx EXCEPT ![w] = Idle]

\* Nobody decides on the approval of r: its row can be locked.
Unlocked(r) == \A w \in Worker : ~(tx[w].op = "decide" /\ tx[w].r = r)

\* transition: the row and its reservation are as they were first read.
Unchanged(w, r) ==
    /\ req[r].version = tx[w].row.version
    /\ Held(money, req[r]) = tx[w].held
    /\ req[r].project = tx[w].row.project

\* check_submission, once the balances are locked.
Submittable(r, need) ==
    /\ req[r].estimate > 0 /\ req[r].code \in usable
    /\ r \notin Standalone =>
           /\ project[req[r].project] = "active"
           /\ need <= 0 \/ Available(money, req[r].project) >= need

\* The reservation a submission needs: none when the one it kept fits.
\* Fault: a reservation of the right amount is kept although the draft moved to another project.
KeepsReservation(row, held) == row.project = Nothing \/ (held # Nothing /\ held.left = row.estimate)
Reservation(row, held) ==
    IF held = Nothing THEN row.project = Nothing
    ELSE held.project = row.project /\ held.left = row.estimate

\* The key of the reservation of a round.
NextKey(r, row) == <<r, row.round + 1, "main">>

Submit(w) ==
    LET r    == tx[w].r
        row  == req[r]
        held == tx[w].held
        need == row.estimate - IF held # Nothing /\ held.project = row.project THEN held.left ELSE 0
        key  == NextKey(r, row)
        keep == Reservation(row, held)
        m    == IF keep THEN money
                ELSE Reserve(ReleaseLive(money, r, row, "resubmit"), project, key, row.project,
                             row.estimate)
        done == IF keep THEN row ELSE [row EXCEPT !.round = @ + 1, !.entry = key]
    IN  /\ tx[w].op = "approval_pending"
        /\ Unchanged(w, r)
        /\ Submittable(r, need)
        /\ applied[r] # Content(row)                    \* nothing_changed
        /\ m.ok
        /\ money' = m
        /\ req' = [req EXCEPT ![r] = Moved(done, "approval_pending")]
        /\ applied' = [applied EXCEPT ![r] = Content(row)]      \* record_submission
        /\ instance' = [instance EXCEPT ![r] = "running"]       \* resumed or started anew
        /\ Ends(w)
        /\ UNCHANGED <<amendment, approved, project, usable>>

\* A draft is withdrawn with the reservation it kept.
WithdrawDraft(w) ==
    LET r == tx[w].r
    IN  /\ tx[w].op = "withdrawn" /\ tx[w].row.status = "draft"
        /\ Unchanged(w, r)
        /\ money' = ReleaseLive(money, r, req[r], "withdrawn")
        /\ req' = [req EXCEPT ![r] = Moved(@, "withdrawn")]
        /\ Ends(w)
        /\ UNCHANGED <<applied, amendment, instance, approved, project, usable>>

-----------------------------------------------------------------------------
(* The outcomes of an approval; the instance is locked. *)

\* _amendment_outcome, without an approval: the proposal is closed, the requisition stands.
\* Fault: the requisition goes on pointing to the proposal.
AmendmentStaysPending(r, outcome) ==
    /\ req[r].status = "sourcing_in_progress" /\ amendment[r].status = "pending"
    /\ instance' = [instance EXCEPT ![r] = outcome]
    /\ UNCHANGED <<req, applied, amendment, approved, money, project>>
AmendmentClosed(r, outcome) ==
    /\ req[r].status = "sourcing_in_progress" /\ amendment[r].status = "pending"
    /\ amendment' = [amendment EXCEPT ![r] = NoAmendment]
    /\ instance' = [instance EXCEPT ![r] = outcome]
    /\ UNCHANGED <<req, applied, approved, money, project>>

\* on_outcome of a pending requisition that is not approved.
NotApproved(r, outcome, to) ==
    LET reason == IF outcome = "rejected" /\ to = "draft" THEN "returned_to_draft" ELSE to
    IN  /\ req[r].status = "approval_pending"
        /\ money' = IF outcome = "returned" THEN money ELSE ReleaseLive(money, r, req[r], reason)
        /\ req' = [req EXCEPT ![r] = Moved(@, to)]
        /\ instance' = [instance EXCEPT ![r] = outcome]
        /\ UNCHANGED <<applied, amendment, approved, project>>

\* engine.withdraw of whatever runs for the requisition.
WithdrawRunning(r, to) ==
    /\ instance[r] = "running" /\ Unlocked(r)
    /\ NotApproved(r, "withdrawn", to) \/ AmendmentClosed(r, "withdrawn")

\* transition of a pending requisition: the engine withdraws whatever runs for it by now.
WithdrawPending(w) ==
    LET r == tx[w].r
    IN  /\ tx[w].op \in {"withdrawn", "cancelled"} /\ tx[w].row.status = "approval_pending"
        /\ WithdrawRunning(r, tx[w].op)
        /\ Ends(w)
        /\ UNCHANGED usable

\* withdraw_amendment
WithdrawAmendment(w) ==
    LET r == tx[w].r
    IN  /\ tx[w].op = "withdraw amendment"
        /\ WithdrawRunning(r, "withdrawn")
        /\ Ends(w)
        /\ UNCHANGED usable

\* A decision that returns or rejects; the workflow says whether a rejection goes back to draft.
Decline(w) ==
    LET r == tx[w].r
    IN  /\ tx[w].op = "decide"
        /\ \/ NotApproved(r, "returned", "draft")
           \/ \E to \in {"draft", "rejected"} : NotApproved(r, "rejected", to)
           \/ \E outcome \in {"returned", "rejected"} : AmendmentClosed(r, outcome)
        /\ Ends(w)
        /\ UNCHANGED usable

\* _fund_sub_project: release on the main project, transfer, reserve on the new sub-project.
FundSub(m, ps, r, row) ==
    Reserve(MoveFunds(ReleaseLive(m, r, row, "approved"), ps, <<"fund", r, row.round>>,
                      row.project, Sub(r), row.estimate),
            ps, <<r, row.round, "sub">>, Sub(r), row.estimate)

\* _approved for a requisition of a project: its reservation must be intact.
ApproveFunded(r, row) ==
    LET ps == [project EXCEPT ![Sub(r)] = "active"]
        m  == FundSub(money, ps, r, row)
    IN  /\ r \notin Standalone
        /\ Held(money, row) = [project |-> row.project, left |-> row.estimate]
        /\ project[row.project] = "active"
        /\ m.ok
        /\ money' = m /\ project' = ps
        /\ req' = [req EXCEPT ![r] = Moved([row EXCEPT !.entry = <<r, row.round, "sub">>],
                                           "sourcing_in_progress")]

\* _approved for a Project Request, without a project: a project and its budget are created.
ApproveNew(r, row) ==
    LET ps == [project EXCEPT ![Own(r)] = "active"]
        m  == Reserve([money EXCEPT !.allocated[Own(r)] = @ + row.estimate], ps,
                      NextKey(r, row), Own(r), row.estimate)
    IN  /\ r \in Standalone
        /\ m.ok
        /\ money' = m /\ project' = ps
        /\ req' = [req EXCEPT ![r] =
                      Moved([row EXCEPT !.project = Own(r), !.round = @ + 1,
                                        !.entry = NextKey(r, row)], "sourcing_in_progress")]

\* Fault: the status of the assigned project is not looked at.
AssignableAnywhere(p, row) == Available(money, p) >= row.estimate
Assignable(p, row) == project[p] = "active" /\ Available(money, p) >= row.estimate

\* _approved for a Project Request the decider assigns to an existing project.
ApproveAssigned(r, row, p) ==
    LET assigned == [row EXCEPT !.project = p, !.round = @ + 1]
        ps == [project EXCEPT ![Sub(r)] = "active"]
        m  == FundSub(money, ps, r, assigned)
    IN  /\ r \in Standalone
        /\ Assignable(p, row)
        /\ m.ok
        /\ money' = m /\ project' = ps
        /\ req' = [req EXCEPT ![r] = Moved([assigned EXCEPT !.entry = <<r, assigned.round, "sub">>],
                                           "sourcing_in_progress")]

\* prepare_approval: an unusable code is substituted by the decider, or the approval is refused.
\* A running proposal carries the correction too.
Corrected(r, fields, code) ==
    IF req[r].code \in usable THEN fields ELSE [fields EXCEPT !.code = code]

\* An approval that does not end the route: the substitution is written with it, and stays
\* whatever the later steps decide.
ApproveEarlier(w) ==
    LET r == tx[w].r
    IN  \E code \in usable :
        /\ tx[w].op = "decide" /\ instance[r] = "running"
        /\ req' = [req EXCEPT ![r] = Corrected(r, @, code)]
        /\ amendment' = IF amendment[r].status = "pending"
                        THEN [amendment EXCEPT ![r].content = Corrected(r, @, code)]
                        ELSE amendment
        /\ Ends(w)
        /\ UNCHANGED <<applied, instance, approved, money, project, usable>>

\* The final approval of a pending requisition.
Approve(w) ==
    LET r == tx[w].r
    IN  \E code \in usable :
        LET row == Corrected(r, req[r], code)
        IN  /\ tx[w].op = "decide"
            /\ row.status = "approval_pending"
            /\ \/ ApproveFunded(r, row)
               \/ ApproveNew(r, row)
               \/ \E p \in Main : ApproveAssigned(r, row, p)
            /\ approved' = [approved EXCEPT ![r] = Material(Proposal(r, row))]
            /\ instance' = [instance EXCEPT ![r] = "approved"]
            /\ Ends(w)
            /\ UNCHANGED <<applied, amendment, usable>>

\* _amendment_outcome, approved: the round's remainder is released and the new total reserved;
\* the difference moves between the main project and the sub-project that holds the money.
\* Fault: a smaller total leaves the difference on the sub-project.
RefundedUpOnly(r, row, total) ==
    LET held  == Held(money, row)
        delta == total - held.left
        key   == NextKey(r, row)
        moves == held.project # row.project
        up    == IF moves /\ delta > 0
                 THEN MoveFunds(money, project, <<"amend", r, row.round + 1>>, row.project,
                                held.project, delta)
                 ELSE money
    IN  Reserve(ReleaseLive(up, r, row, "resubmit"), project, key, held.project, total)
Refunded(r, row, total) ==
    LET held  == Held(money, row)
        delta == total - held.left
        key   == NextKey(r, row)
        moves == held.project # row.project
        up    == IF moves /\ delta > 0
                 THEN MoveFunds(money, project, <<"amend", r, row.round + 1>>, row.project,
                                held.project, delta)
                 ELSE money
        m     == Reserve(ReleaseLive(up, r, row, "resubmit"), project, key, held.project, total)
    IN  IF moves /\ delta < 0
        THEN MoveFunds(m, project, <<"amend", r, row.round + 1>>, held.project, row.project, -delta)
        ELSE m

\* apply_snapshot: the proposal's fields are written in place as a new version.
Amended(row, content) ==
    [row EXCEPT !.estimate = content.estimate, !.text = content.text, !.code = content.code,
                !.version = @ + 1]

ApproveAmendment(w) ==
    LET r    == tx[w].r
        held == Held(money, req[r])
    IN  \E code \in usable :
        LET content == Corrected(r, amendment[r].content, code)
            row     == Corrected(r, req[r], code)
            same    == held.left = content.estimate
            m       == IF same THEN money ELSE Refunded(r, row, content.estimate)
            funded  == IF same THEN row
                       ELSE [row EXCEPT !.round = @ + 1, !.entry = NextKey(r, row)]
        IN  /\ tx[w].op = "decide"
            /\ row.status = "sourcing_in_progress" /\ amendment[r].status = "pending"
            /\ m.ok
            /\ money' = m
            /\ req' = [req EXCEPT ![r] = Amended(funded, content)]
            /\ applied' = [applied EXCEPT ![r] = content]
            /\ amendment' = [amendment EXCEPT ![r] = NoAmendment]
            /\ approved' = [approved EXCEPT ![r] = Material(content)]
            /\ instance' = [instance EXCEPT ![r] = "approved"]
            /\ Ends(w)
            /\ UNCHANGED <<project, usable>>

-----------------------------------------------------------------------------
(* Amendments. *)

\* amendments.create
OpenAmendment(r) ==
    /\ In("amend")
    /\ req[r].status = "sourcing_in_progress" /\ req[r].version < mix.versions
    /\ amendment[r].status = "none"
    /\ amendment' = [amendment EXCEPT ![r] = [status |-> "draft", content |-> Content(req[r]),
                                              base |-> req[r].version]]
    /\ UNCHANGED <<req, applied, instance, approved, money, project, usable, tx>>

\* amendments.put: the project and the codes cannot be changed.
PutAmendment(r, estimate, text) ==
    /\ req[r].status = "sourcing_in_progress"
    /\ amendment[r].status = "draft"
    /\ amendment[r].content.code \in usable
    /\ amendment' = [amendment EXCEPT ![r].content = [@ EXCEPT !.estimate = estimate,
                                                               !.text = text]]
    /\ UNCHANGED <<req, applied, instance, approved, money, project, usable, tx>>

\* amendments.delete
DeleteAmendment(r) ==
    /\ amendment[r].status = "draft"
    /\ amendment' = [amendment EXCEPT ![r] = NoAmendment]
    /\ UNCHANGED <<req, applied, instance, approved, money, project, usable, tx>>

\* amendments.submit: applied at once unless it is material.
\* Fault: only a larger estimate needs an approval.
IsMaterialWhenLarger(r, content) == content.estimate > approved[r].estimate
IsMaterial(r, content) == Material(content) # approved[r]

SubmitAmendment(w) ==
    LET r       == tx[w].r
        held    == tx[w].held
        content == amendment[r].content
    IN  /\ tx[w].op = "submit amendment"
        /\ amendment[r].status = "draft" /\ amendment[r] = tx[w].amendment
        /\ req[r].status = "sourcing_in_progress"
        /\ amendment[r].base = req[r].version
        /\ content.estimate > 0 /\ content.code \in usable
        /\ content.estimate > held.left =>
               Available(money, req[r].project) >= content.estimate - held.left
        /\ content # applied[r]                         \* nothing_changed
        /\ IF IsMaterial(r, content)
           THEN /\ amendment' = [amendment EXCEPT ![r].status = "pending"]
                /\ instance' = [instance EXCEPT ![r] = "running"]
                /\ UNCHANGED <<req, applied>>
           ELSE /\ amendment' = [amendment EXCEPT ![r] = NoAmendment]
                /\ req' = [req EXCEPT ![r] = Amended(@, content)]
                /\ applied' = [applied EXCEPT ![r] = content]
                /\ UNCHANGED instance
        /\ Ends(w)
        /\ UNCHANGED <<approved, money, project, usable>>

-----------------------------------------------------------------------------
(* Stopping an approved requisition: stop_approved. *)

\* What is available on the sub-project that holds the money goes back.
Returned(m, r, row, held) ==
    IF held.project = Sub(r) /\ Available(m, Sub(r)) > 0
    THEN MoveFunds(m, project, <<"unfund", r, row.round>>, Sub(r), row.project,
                   Available(m, Sub(r)))
    ELSE m

\* open_document_count
OpenDocuments(p) == {r \in Req : /\ req[r].project = p
                                 /\ req[r].status \in {"approval_pending", "sourcing_in_progress"}}

\* abandon_generated, abandon_requested: the closing rule holds for them too.
Abandoned(p) ==
    IF project[p] \in {"active", "deferred"} THEN [project EXCEPT ![p] = "abandoned"] ELSE project

Stopped(w, r, to) ==
    LET row  == req[r]
        m    == Returned(ReleaseLive(money, r, row, to), r, row, Held(money, row))
    IN  /\ row.status = "sourcing_in_progress"
        /\ to = "expired" \/ row.version = tx[w].row.version
        /\ m.ok
        /\ Reserved(m, Sub(r)) = 0 /\ Reserved(m, Own(r)) = 0 /\ OpenDocuments(Own(r)) \ {r} = {}
        /\ money' = m
        /\ project' = IF project[Sub(r)] # "none" THEN Abandoned(Sub(r)) ELSE Abandoned(Own(r))
        /\ req' = [req EXCEPT ![r] = Moved(row, to)]

Stops(w) == /\ tx[w].op \in {"withdrawn", "cancelled", "expired"}
            /\ tx[w].row.status = "sourcing_in_progress"

\* No approval runs for it: the next statement locks the balances.
StopClear(w) ==
    /\ Stops(w) /\ tx[w].stage = "read"
    /\ instance[tx[w].r] # "running"
    /\ tx' = [tx EXCEPT ![w].stage = "clear"]
    /\ UNCHANGED <<req, applied, amendment, instance, approved, money, project, usable>>

\* An amendment runs: it is withdrawn first, and its locks are kept.
StopAmending(w) ==
    LET r == tx[w].r
    IN  /\ Stops(w) /\ tx[w].stage = "read"
        /\ instance[r] = "running" /\ amendment[r].status = "pending" /\ Unlocked(r)
        /\ Stopped(w, r, tx[w].op)
        /\ amendment' = [amendment EXCEPT ![r] = NoAmendment]
        /\ instance' = [instance EXCEPT ![r] = "withdrawn"]
        /\ Ends(w)
        /\ UNCHANGED <<applied, approved, usable>>

Stop(w) ==
    /\ Stops(w) /\ tx[w].stage = "clear"
    /\ Stopped(w, tx[w].r, tx[w].op)
    /\ Ends(w)
    /\ UNCHANGED <<applied, amendment, instance, approved, usable>>

-----------------------------------------------------------------------------
(* Codes and projects. *)

\* OrgService.update_master, or the day: the first code expires, or becomes usable again.
ChangeCode ==
    /\ In("codes")
    /\ usable' = IF "first" \in usable THEN usable \ {"first"} ELSE usable \cup {"first"}
    /\ UNCHANGED <<req, applied, amendment, instance, approved, money, project, tx>>

\* codes._apply: rebase_digest restamps the approval of document type "requisition", which a
\* Project Request does not have.
\* Fault: the approval is not restamped.
RestampNever(r, row) == approved
Restamp(r, row) ==
    IF r \in Standalone THEN approved
    ELSE [approved EXCEPT ![r] = Material(Content(row))]

Substitute(r) ==
    /\ req[r].status = "sourcing_in_progress" /\ amendment[r].status # "pending"
    /\ req[r].code \notin usable
    /\ \E code \in usable :
           LET row == [req[r] EXCEPT !.code = code]
           IN  /\ req' = [req EXCEPT ![r] = row]
               /\ approved' = Restamp(r, row)
    /\ UNCHANGED <<applied, amendment, instance, money, project, usable, tx>>

\* ProjectService.transition of a main project; its balance is locked.
Defer(p) ==
    /\ project[p] = "active"
    /\ project' = [project EXCEPT ![p] = "deferred"]
    /\ UNCHANGED <<req, applied, amendment, instance, approved, money, usable, tx>>

Reactivate(p) ==
    /\ project[p] = "deferred"
    /\ project' = [project EXCEPT ![p] = "active"]
    /\ UNCHANGED <<req, applied, amendment, instance, approved, money, usable, tx>>

\* blocked_by_holdings; an authorized override closes a project with holdings.
Close(p, override) ==
    /\ project[p] \in {"active", "deferred"}
    /\ override \/ (Reserved(money, p) = 0 /\ OpenDocuments(p) = {})
    /\ project' = [project EXCEPT ![p] = IF override THEN "overridden" ELSE "closed"]
    /\ UNCHANGED <<req, applied, amendment, instance, approved, money, usable, tx>>

-----------------------------------------------------------------------------
Blank == [status |-> "none", project |-> Nothing, estimate |-> 0, text |-> 0, code |-> "first",
          version |-> 0, entry |-> Nothing, round |-> 0]

Init ==
    /\ mix \in Mixes
    /\ req = [r \in Req |-> Blank]
    /\ applied = [r \in Req |-> Nothing]
    /\ amendment = [r \in Req |-> NoAmendment]
    /\ instance = [r \in Req |-> "none"]
    /\ approved = [r \in Req |-> Nothing]
    /\ money = [allocated |-> [p \in Project |-> IF p \in Main THEN Funds[p] ELSE 0],
                held |-> <<>>, keys |-> {}, ok |-> TRUE]
    /\ project = [p \in Project |-> IF p \in Main THEN "active" ELSE "none"]
    /\ usable = {"first", "second"}
    /\ tx = [w \in Worker |-> Idle]

Commands == {"approval_pending", "withdrawn", "cancelled", "expired", "submit amendment",
             "withdraw amendment", "decide"}

Next ==
    \/ \E r \in Req :
          \/ \E p \in Main \cup {Nothing} : Create(r, p)
          \/ \E p \in Main \cup {Nothing}, c \in usable, t \in Texts : UpdateHeader(r, p, c, t)
          \/ \E e \in 0..MaxEstimate : WriteLines(r, e)
          \/ OpenAmendment(r)
          \/ \E e \in 1..MaxEstimate, t \in Texts : PutAmendment(r, e, t)
          \/ DeleteAmendment(r)
          \/ Substitute(r)
          \/ \E w \in Worker, op \in Commands : Begin(w, r, op)
    \/ \E w \in Worker :
          \/ Submit(w) \/ WithdrawDraft(w) \/ WithdrawPending(w) \/ WithdrawAmendment(w)
          \/ Decline(w) \/ ApproveEarlier(w) \/ Approve(w) \/ ApproveAmendment(w)
          \/ SubmitAmendment(w) \/ StopClear(w) \/ StopAmending(w) \/ Stop(w)
          \/ Refuse(w)
    \/ ChangeCode
    \/ /\ In("projects")
       /\ \E p \in Main : Defer(p) \/ Reactivate(p) \/ \E o \in BOOLEAN : Close(p, o)

Spec == Init /\ [][Next /\ UNCHANGED mix]_vars

-----------------------------------------------------------------------------
Ended == {"rejected", "withdrawn", "cancelled", "expired"}

\* A requisition holds exactly what its status says: while it is pending its whole estimate on
\* its project, once approved its estimate on the project made for it, nothing after it has
\* ended, and never a second reservation beside the one it points to (transition, on_outcome,
\* _amendment_outcome and stop_approved release and reserve in several postings each).
HoldsMatchStatus ==
    \A r \in Req :
        LET row == req[r]
        IN  /\ \A k \in DOMAIN money.held :
                   k[1] = r /\ k # row.entry => money.held[k].left = 0
            /\ row.status = "approval_pending" /\ r \notin Standalone =>
                   Held(money, row) = [project |-> row.project, left |-> row.estimate]
            /\ row.status = "sourcing_in_progress" =>
                   /\ Held(money, row).left = row.estimate
                   /\ Held(money, row).project \in {Sub(r), Own(r)}
            /\ row.status \in Ended /\ row.entry # Nothing => Held(money, row).left = 0

\* The sub-project of a requisition owns exactly the requisition's estimate while the requisition
\* is approved, whatever amendments moved, and nothing after it has been stopped: all of it went
\* back to the main project (_fund_sub_project, _move, stop_approved).
SubFundedExactly ==
    \A r \in Req :
        money.allocated[Sub(r)] =
            IF req[r].status = "sourcing_in_progress" /\ project[Sub(r)] # "none"
            THEN req[r].estimate ELSE 0

\* An approval runs for a requisition exactly while the requisition or its amendment waits for
\* one: neither is left waiting for an approval that has ended (start, withdraw, on_outcome).
ApprovalRunsWhileAwaited ==
    \A r \in Req :
        instance[r] = "running" <=>
            req[r].status = "approval_pending" \/ amendment[r].status = "pending"

\* An approved requisition of a project asks for the amount and the project that were approved,
\* whatever its amendments proposed, were refused or applied without an approval of their own
\* (IsMaterial, _amendment_outcome).  Its code is CoverKept's subject.
ApprovalCovers ==
    \A r \in Req \ Standalone :
        req[r].status = "sourcing_in_progress" =>
            /\ req[r].estimate = approved[r].estimate
            /\ req[r].project = approved[r].project

\* The approval in force is for exactly what the requisition of a project asks for.
Covered(r) == approved[r] = Material(Content(req[r]))
Approved(r) == r \notin Standalone /\ req[r].status = "sourcing_in_progress"

\* A requisition is covered when it becomes approved, and loses its cover only to a code
\* substituted in a step of a running amendment: no direct amendment, and no substitution after
\* the approval, parts it from the approval in force (on_outcome, IsMaterial, rebase_digest).
CoverKept ==
    [][\A r \in Req : /\ Approved(r)' /\ ~Covered(r)'
                      /\ Approved(r) => Covered(r)
                      => amendment[r].status = "pending" /\ amendment'[r].status = "pending"]_vars

\* A project that was closed without an override holds no reservation and has no open
\* requisition, however its closing interleaves with submissions and assignments.
ClosedIsIdle ==
    \A p \in Main : project[p] = "closed" => Reserved(money, p) = 0 /\ OpenDocuments(p) = {}

\* "A running instance on an approved requisition is exactly a pending amendment. If one exists,
\* call approvals.service.withdraw for that instance first": no approval runs for a requisition
\* that has ended.
NoHalfState ==
    \A r \in Req : req[r].status \in Ended => instance[r] # "running"
=============================================================================
