------------------------------ MODULE Reminders ------------------------------
(***************************************************************************)
(* The daily approval reminders of one organization: overdue tasks are     *)
(* escalated, and everybody who has to decide gets one digest a day, added *)
(* to the outbox in the run's own transaction.                             *)
(*                                                                         *)
(* A run is a job, so it may be repeated or meet another one.  It takes    *)
(* the time when it starts, waits for the organization's advisory lock,    *)
(* reads, and writes everything at once.  Decisions close tasks and        *)
(* delegations change between any two of these steps.                      *)
(*                                                                         *)
(* Abstracted: who is eligible (module Approvals), addresses and wording.  *)
(***************************************************************************)
EXTENDS Outbox, Sequences, FiniteSetsExt

CONSTANTS
    Task,           \* approval tasks
    Person,         \* people who decide
    Base,           \* Base[t]: members of the task's approver rule
    Extra,          \* Extra[t]: members its escalation adds; {} without a rule
    DueDay,         \* DueDay[t]: the day it is due
    EscalateDay,    \* EscalateDay[t]: the day after which it is escalated
    Cover,          \* states of the delegation table: oldest first
    Runner,         \* concurrent runs
    MaxDay,         \* bound: days
    NoRun           \* nobody holds the advisory lock

ASSUME RemindersAssumption ==
    /\ Base \in [Task -> SUBSET Person]
    /\ Extra \in [Task -> SUBSET Person]
    /\ Cover \subseteq Seq([delegator : Person, delegate : Person])
    /\ DueDay \in [Task -> Nat] /\ EscalateDay \in [Task -> Nat] /\ MaxDay \in Nat \ {0}
    /\ Person \X (1..MaxDay) \subseteq Message
    /\ NoRun \notin Runner

VARIABLES
    today,      \* the date
    task,       \* task[t]: "new", "open" or "closed"
    cover,      \* the active delegations
    escalated,  \* tasks with an escalated_at
    audits,     \* audits[t]: approval.escalated rows in the audit log
    remindedOn, \* remindedOn[t]: the day, or 0
    orgLock,    \* the run that holds the advisory lock
    run,        \* run[j]: where run j stands and what it has decided to write
    told,       \* history: the people tasks were announced to, and on which day
    collided    \* history: a run was rolled back by outbox_idempotency_unique

reminderVars == <<today, task, cover, escalated, audits, remindedOn, orgLock, run, told, collided>>

\* The idempotency key of a digest: approval-digest, the person and the day.
DigestOf(p, day) == <<p, day>>

IdleRun == [at |-> "idle", day |-> 0, escalates |-> {}, reminds |-> {}, people |-> {}, mails |-> {}]

RemindersInit ==
    /\ today = 1
    /\ task = [t \in Task |-> "new"]
    /\ cover \in Cover
    /\ escalated = {}
    /\ audits = [t \in Task |-> 0]
    /\ remindedOn = [t \in Task |-> 0]
    /\ orgLock = NoRun
    /\ run = [j \in Runner |-> IdleRun]
    /\ told = {}
    /\ collided = FALSE

-----------------------------------------------------------------------------
(* What a run reads.                                                         *)

OpenTasks == {t \in Task : task[t] = "open"}

\* Overdue by the step's rule, and not escalated yet.
Overdue(day) == {t \in OpenTasks : Extra[t] # {} /\ t \notin escalated /\ day > EscalateDay[t]}

\* Due within a day, and not announced today.
DueSoon(day) == {t \in OpenTasks : DueDay[t] <= day + 1 /\ remindedOn[t] # day}

Members(t, raised) == Base[t] \cup (IF t \in raised THEN Extra[t] ELSE {})

\* Acting delegates, each for the oldest delegation from a member to a non-member.
ActingFor(q, members) ==
    LET rows == {i \in DOMAIN cover : cover[i].delegate = q /\ cover[i].delegator \in members}
    IN  IF q \in members \/ rows = {} THEN {} ELSE {cover[Min(rows)].delegator}

\* A member who is covered is not written to; the delegate is.
Recipients(t, raised) ==
    LET members == Members(t, raised)
        covered == UNION {ActingFor(q, members) : q \in Person}
    IN  (members \ covered) \cup {q \in Person : ActingFor(q, members) # {}}

\* Who has had no digest on that day.
WithoutDigest(people, day) == {p \in people : state[DigestOf(p, day)] = "absent"}

-----------------------------------------------------------------------------
(* The run.                                                                  *)

\* The job starts and takes the time.
BeginRun(j) ==
    /\ run[j].at = "idle"
    /\ run' = [run EXCEPT ![j] = [IdleRun EXCEPT !.at = "waiting", !.day = today]]
    /\ UNCHANGED <<vars, today, task, cover, escalated, audits, remindedOn, orgLock, told, collided>>

\* Fault: runs of one organization do not wait for each other.
NoWait == TRUE

LockFree == orgLock = NoRun

\* Under the advisory lock the run reads the tasks, their people and the outbox.
PlanRun(j) ==
    LET day     == run[j].day
        raised  == Overdue(day)
        reminds == DueSoon(day)
        people  == UNION {Recipients(t, escalated \cup raised) : t \in reminds}
    IN  /\ run[j].at = "waiting"
        /\ LockFree
        /\ orgLock' = j
        /\ run' = [run EXCEPT ![j] =
               [at |-> "planned", day |-> day, escalates |-> raised, reminds |-> reminds,
                people |-> people, mails |-> WithoutDigest(people, day)]]
        /\ UNCHANGED <<vars, today, task, cover, escalated, audits, remindedOn, told, collided>>

EndRun(j) ==
    /\ run' = [run EXCEPT ![j] = IdleRun]
    /\ orgLock' = IF orgLock = j THEN NoRun ELSE orgLock

Digests(j) == {DigestOf(p, run[j].day) : p \in run[j].mails}

\* Escalations with their audit rows, digests and marks, in one transaction.
WriteRun(j) ==
    /\ escalated' = escalated \cup run[j].escalates
    /\ audits' = [t \in Task |-> audits[t] + (IF t \in run[j].escalates THEN 1 ELSE 0)]
    /\ state' = [m \in Message |-> IF m \in Digests(j) THEN "pending" ELSE state[m]]
    /\ due' = [m \in Message |-> due[m] \/ m \in Digests(j)]
    /\ remindedOn' = [t \in Task |-> IF t \in run[j].reminds THEN run[j].day ELSE remindedOn[t]]
    /\ told' = told \cup (run[j].people \X {run[j].day})
    /\ UNCHANGED collided

\* The transaction is rolled back when a digest it adds exists by then.
FinishRun(j) ==
    /\ run[j].at = "planned"
    /\ IF \A m \in Digests(j) : state[m] = "absent" THEN WriteRun(j)
       ELSE /\ collided' = TRUE
            /\ UNCHANGED <<escalated, audits, state, due, remindedOn, told>>
    /\ EndRun(j)
    /\ UNCHANGED <<attempts, lock, expired, accepted, tickVars, faults>>
    /\ UNCHANGED <<today, task, cover>>

\* The process dies or a statement fails: rolled back, and the job is tried again.
FailRun(j) ==
    /\ run[j].at # "idle"
    /\ EndRun(j)
    /\ UNCHANGED <<vars, today, task, cover, escalated, audits, remindedOn, told, collided>>

-----------------------------------------------------------------------------
(* Around it.                                                                *)

OpenTask(t) ==
    /\ task[t] = "new"
    /\ task' = [task EXCEPT ![t] = "open"]
    /\ UNCHANGED <<vars, today, cover, escalated, audits, remindedOn, orgLock, run, told, collided>>

CloseTask(t) ==
    /\ task[t] = "open"
    /\ task' = [task EXCEPT ![t] = "closed"]
    /\ UNCHANGED <<vars, today, cover, escalated, audits, remindedOn, orgLock, run, told, collided>>

CoverChanges ==
    /\ cover' \in Cover \ {cover}
    /\ UNCHANGED <<vars, today, task, escalated, audits, remindedOn, orgLock, run, told, collided>>

Tomorrow ==
    /\ today < MaxDay
    /\ today' = today + 1
    /\ UNCHANGED <<vars, task, cover, escalated, audits, remindedOn, orgLock, run, told, collided>>

RemindersNext ==
    \/ \E j \in Runner : BeginRun(j) \/ PlanRun(j) \/ FinishRun(j) \/ FailRun(j)
    \/ \E t \in Task : OpenTask(t) \/ CloseTask(t)
    \/ CoverChanges
    \/ Tomorrow

\* Only the runs add digests; whatever else adds rows, and the dispatcher, goes on beside them.
OutboxBeside ==
    /\ Next
    /\ \A m \in Person \X (1..MaxDay) : state[m] = "absent" => state'[m] = "absent"
    /\ UNCHANGED reminderVars

RemindersSpec ==
    Init /\ RemindersInit /\ [][RemindersNext \/ OutboxBeside]_<<vars, reminderVars>>

-----------------------------------------------------------------------------
(* Properties.                                                               *)

\* Whatever runs are repeated, fail or meet, on one day or across midnight: a task is
\* escalated in the audit log once, no run is lost to a digest another one has added,
\* and whoever a task is marked as announced to has a digest of that day.
RemindersHold ==
    /\ \A t \in Task : audits[t] = (IF t \in escalated THEN 1 ELSE 0)
    /\ ~collided
    /\ \A person \in told : state[DigestOf(person[1], person[2])] # "absent"
=============================================================================
