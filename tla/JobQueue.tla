------------------------------ MODULE JobQueue ------------------------------
(***************************************************************************)
(* The Postgres job queue and the runner that drains it on each cron tick. *)
(*                                                                         *)
(* A worker is one tick of JobRunner.run: it claims a due job in one short *)
(* transaction, runs the handler (which commits its work on a connection   *)
(* of its own), and records the outcome in a second transaction.  Between  *)
(* the two the row says "running" and nothing else remembers the claim.    *)
(*                                                                         *)
(* Abstracted: run_after is "due or not yet", so the claim order among due *)
(* jobs is left open; payloads, progress and the audit rows are left out.  *)
(***************************************************************************)
EXTENDS Naturals

CONSTANTS
    Job,            \* jobs ever enqueued
    Worker,         \* concurrent ticks
    MaxAttempts,    \* MaxAttempts[j]: the job's max_attempts
    Handled,        \* jobs whose kind has a registered handler
    MaxCrash,       \* bound: ticks that die (killed, or their database is lost)
    NoJob           \* a worker that has claimed nothing

Schedule == 1..5    \* attempts BASE_DELAYS_SECONDS has a delay for

ASSUME JobQueueAssumption ==
    /\ MaxAttempts \in [Job -> Schedule]
    /\ Handled \subseteq Job
    /\ MaxCrash \in Nat
    /\ NoJob \notin Job

VARIABLES
    state,      \* job.state; "absent" before the enqueuing transaction commits
    attempts,   \* job.attempts
    due,        \* run_after has passed
    job,        \* job[w]: the job worker w has claimed
    stage,      \* stage[w]: where its tick stands
    crashes     \* ticks that have died

vars == <<state, attempts, due, job, stage, crashes>>

-----------------------------------------------------------------------------

Init ==
    /\ state = [j \in Job |-> "absent"]
    /\ attempts = [j \in Job |-> 0]
    /\ due = [j \in Job |-> FALSE]
    /\ job = [w \in Worker |-> NoJob]
    /\ stage = [w \in Worker |-> "idle"]
    /\ crashes = 0

\* The business transaction that enqueues the job commits; run_after may lie ahead.
Enqueue(j, now) ==
    /\ state[j] = "absent"
    /\ state' = [state EXCEPT ![j] = "queued"]
    /\ due' = [due EXCEPT ![j] = now]
    /\ UNCHANGED <<attempts, job, stage, crashes>>

BecomesDue(j) ==
    /\ state[j] = "queued"
    /\ ~due[j]
    /\ due' = [due EXCEPT ![j] = TRUE]
    /\ UNCHANGED <<state, attempts, job, stage, crashes>>

Claimable(j) == state[j] = "queued" /\ due[j]

\* claim: UPDATE of one row selected FOR UPDATE SKIP LOCKED, committed at once.
Claim(w, j) ==
    /\ stage[w] = "idle"
    /\ Claimable(j)
    /\ state' = [state EXCEPT ![j] = "running"]
    /\ attempts' = [attempts EXCEPT ![j] = @ + 1]
    /\ job' = [job EXCEPT ![w] = j]
    /\ stage' = [stage EXCEPT ![w] = "claimed"]
    /\ UNCHANGED <<due, crashes>>

Exhausted(j) == attempts[j] >= MaxAttempts[j]

\* The handler returns, or raises a transient or any other error.
HandlerReturns(w) ==
    /\ stage[w] = "claimed"
    /\ job[w] \in Handled
    /\ stage' = [stage EXCEPT ![w] = "completing"]
    /\ UNCHANGED <<state, attempts, due, job, crashes>>

HandlerTransient(w) ==
    /\ stage[w] = "claimed"
    /\ job[w] \in Handled
    /\ stage' = [stage EXCEPT ![w] = IF Exhausted(job[w]) THEN "burying" ELSE "retrying"]
    /\ UNCHANGED <<state, attempts, due, job, crashes>>

HandlerFails(w) ==
    /\ stage[w] = "claimed"
    /\ stage' = [stage EXCEPT ![w] = "burying"]
    /\ UNCHANGED <<state, attempts, due, job, crashes>>

\* _transition: one row, still running; the worker goes on with its tick.
Finish(w, to) ==
    /\ state[job[w]] = "running"
    /\ state' = [state EXCEPT ![job[w]] = to]
    /\ job' = [job EXCEPT ![w] = NoJob]
    /\ stage' = [stage EXCEPT ![w] = "idle"]

Complete(w) ==
    /\ stage[w] = "completing"
    /\ Finish(w, "done")
    /\ UNCHANGED <<attempts, due, crashes>>

\* The completing transaction fails: an error like any other, so the job is buried.
CompleteFails(w) ==
    /\ stage[w] = "completing"
    /\ crashes < MaxCrash
    /\ crashes' = crashes + 1
    /\ stage' = [stage EXCEPT ![w] = "burying"]
    /\ UNCHANGED <<state, attempts, due, job>>

\* retry with backoff_seconds, which is defined on the schedule only.
Retry(w) ==
    /\ stage[w] = "retrying"
    /\ attempts[job[w]] \in Schedule
    /\ Finish(w, "queued")
    /\ due' = [due EXCEPT ![job[w]] = FALSE]
    /\ UNCHANGED <<attempts, crashes>>

Dead(w) ==
    /\ stage[w] = "burying"
    /\ Finish(w, "dead")
    /\ UNCHANGED <<attempts, due, crashes>>

\* The process dies, or the outcome cannot be written: the claim is forgotten.
Crash(w) ==
    /\ stage[w] # "idle"
    /\ crashes < MaxCrash
    /\ crashes' = crashes + 1
    /\ job' = [job EXCEPT ![w] = NoJob]
    /\ stage' = [stage EXCEPT ![w] = "idle"]
    /\ UNCHANGED <<state, attempts, due>>

Step(w) ==
    \/ HandlerReturns(w) \/ HandlerTransient(w) \/ HandlerFails(w)
    \/ Complete(w) \/ Retry(w) \/ Dead(w)

Next ==
    \/ \E j \in Job : (\E now \in BOOLEAN : Enqueue(j, now)) \/ BecomesDue(j)
    \/ \E w \in Worker : (\E j \in Job : Claim(w, j)) \/ Step(w) \/ CompleteFails(w) \/ Crash(w)

Spec == Init /\ [][Next]_vars

-----------------------------------------------------------------------------
(* Properties.                                                               *)

JobState == {"absent", "queued", "running", "done", "dead"}
Stage == {"idle", "claimed", "completing", "retrying", "burying"}

\* The values of the job table's columns and of a tick's program counter.
TypeOK ==
    /\ state \in [Job -> JobState]
    /\ attempts \in [Job -> Nat]
    /\ due \in [Job -> BOOLEAN]
    /\ job \in [Worker -> Job \cup {NoJob}]
    /\ stage \in [Worker -> Stage]
    /\ crashes \in 0..MaxCrash

\* A job is never run by two ticks at once, and a tick that runs one holds it as
\* running: what makes the unguarded handlers safe to run concurrently.
OneRunner ==
    \A w \in Worker : stage[w] # "idle" =>
        /\ job[w] \in Job
        /\ state[job[w]] = "running"
        /\ \A v \in Worker : stage[v] # "idle" /\ job[v] = job[w] => v = w

\* Retries are bounded whatever crashes: no job is claimed more often than its
\* max_attempts allow, so backoff_seconds is only called within its schedule.
AttemptsBounded ==
    /\ \A j \in Job : attempts[j] <= MaxAttempts[j]
    /\ \A w \in Worker : stage[w] = "retrying" => attempts[job[w]] < MaxAttempts[job[w]]

\* Why AttemptsBounded holds: a job waits for a claim only with attempts to spare.
AttemptsToSpare ==
    /\ AttemptsBounded
    /\ \A j \in Job : state[j] \in {"absent", "queued"} => attempts[j] < MaxAttempts[j]
=============================================================================
