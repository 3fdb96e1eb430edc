------------------------------- MODULE Outbox -------------------------------
(***************************************************************************)
(* The transactional outbox and the dispatcher that hands its rows to the  *)
(* email provider.                                                         *)
(*                                                                         *)
(* A worker is one tick of OutboxDispatcher.run: it claims a row in one    *)
(* short transaction, calls the provider, and records the outcome in a     *)
(* second one.  Unlike a job, a row whose lock is five minutes old may be  *)
(* claimed again, so a slow or dead tick and its successor may both be at  *)
(* work on one row.                                                        *)
(*                                                                         *)
(* The provider is Resend, outside the repository, which sends one email   *)
(* per Idempotency-Key; the SMTP adapter is a development sink.            *)
(*                                                                         *)
(* Abstracted: run_after is "due or not yet", so the claim order among     *)
(* ready rows is left open; payloads and audit rows are left out.          *)
(***************************************************************************)
EXTENDS Naturals, FiniteSets

CONSTANTS
    Message,        \* rows ever added; each has its own idempotency key
    Expiring,       \* identity-scoped rows: they expire and are then deleted
    Worker,         \* concurrent ticks
    MaxAttempts,    \* max_attempts of every row
    MaxFault,       \* bound: ticks that die and recordings that fail
    NoMessage       \* a worker that has claimed nothing

Schedule == 1..5    \* attempts BASE_DELAYS_SECONDS has a delay for

ASSUME OutboxAssumption ==
    /\ Expiring \subseteq Message
    /\ MaxAttempts \in Schedule
    /\ MaxFault \in Nat
    /\ NoMessage \notin Message

VARIABLES
    state,      \* outbox.state; "absent" before it is added, "gone" once deleted
    attempts,   \* outbox.attempts
    due,        \* run_after has passed
    lock,       \* locked_at: "none", "held", or "stale" after five minutes
    expired,    \* expires_at has passed
    accepted,   \* keys the provider has accepted, hence emails it has sent
    row,        \* row[w]: the row worker w has claimed
    seen,       \* seen[w]: the attempts it read when it claimed it
    stage,      \* stage[w]: where its tick stands
    faults      \* faults so far

vars == <<state, attempts, due, lock, expired, accepted, row, seen, stage, faults>>

rowVars  == <<state, attempts, due, lock, expired>>
tickVars == <<row, seen, stage>>

-----------------------------------------------------------------------------

Init ==
    /\ state = [m \in Message |-> "absent"]
    /\ attempts = [m \in Message |-> 0]
    /\ due = [m \in Message |-> FALSE]
    /\ lock = [m \in Message |-> "none"]
    /\ expired = [m \in Message |-> FALSE]
    /\ accepted = {}
    /\ row = [w \in Worker |-> NoMessage]
    /\ seen = [w \in Worker |-> 0]
    /\ stage = [w \in Worker |-> "idle"]
    /\ faults = 0

\* The business transaction that adds the row commits.
Add(m) ==
    /\ state[m] = "absent"
    /\ state' = [state EXCEPT ![m] = "pending"]
    /\ due' = [due EXCEPT ![m] = TRUE]
    /\ UNCHANGED <<attempts, lock, expired, accepted, tickVars, faults>>

Open(m) == state[m] \in {"pending", "failed"}

\* The states discard_email (tenant rows) and discard_pending_email delete.
Discardable(m) == Open(m) \/ (state[m] = "dead" /\ m \notin Expiring)

Discard(m) ==
    /\ Discardable(m)
    /\ state' = [state EXCEPT ![m] = "gone"]
    /\ UNCHANGED <<attempts, due, lock, expired, accepted, tickVars, faults>>

\* Time passes.
BecomesDue(m) ==
    /\ Open(m)
    /\ ~due[m]
    /\ due' = [due EXCEPT ![m] = TRUE]
    /\ UNCHANGED <<state, attempts, lock, expired, accepted, tickVars, faults>>

LockAges(m) ==
    /\ Open(m)
    /\ lock[m] = "held"
    /\ lock' = [lock EXCEPT ![m] = "stale"]
    /\ UNCHANGED <<state, attempts, due, expired, accepted, tickVars, faults>>

Expires(m) ==
    /\ m \in Expiring
    /\ state[m] \notin {"absent", "gone"}
    /\ ~expired[m]
    /\ expired' = [expired EXCEPT ![m] = TRUE]
    /\ UNCHANGED <<state, attempts, due, lock, accepted, tickVars, faults>>

-----------------------------------------------------------------------------
(* The dispatcher.                                                           *)

\* claim first deletes every expired identity row, whatever its state.
Swept == [m \in Message |->
             IF expired[m] /\ state[m] # "absent" THEN "gone" ELSE state[m]]

\* Fault: a lock never goes stale.
ClaimableOnce(m) == Swept[m] \in {"pending", "failed"} /\ due[m] /\ lock[m] = "none"

Claimable(m) == Swept[m] \in {"pending", "failed"} /\ due[m] /\ lock[m] \in {"none", "stale"}

Claim(w, m) ==
    /\ stage[w] = "idle"
    /\ Claimable(m)
    /\ state' = Swept
    /\ attempts' = [attempts EXCEPT ![m] = @ + 1]
    /\ lock' = [lock EXCEPT ![m] = "held"]
    /\ row' = [row EXCEPT ![w] = m]
    /\ seen' = [seen EXCEPT ![w] = attempts'[m]]
    /\ stage' = [stage EXCEPT ![w] = "claimed"]
    /\ UNCHANGED <<due, expired, accepted, faults>>

\* A claim that finds no row still deletes the expired ones.
Sweep(w) ==
    /\ stage[w] = "idle"
    /\ \A m \in Message : ~Claimable(m)
    /\ state' = Swept
    /\ UNCHANGED <<attempts, due, lock, expired, accepted, tickVars, faults>>

\* Fault: every attempt has a key of its own.
KeyPerAttempt(w) == <<row[w], seen[w]>>

\* The key the provider deduplicates on: the row's, whatever the attempt.
HandoffKey(w) == <<row[w], 0>>

\* The provider accepts the message, once per key, and its answer arrives.
ProviderAccepts(w) ==
    /\ stage[w] = "claimed"
    /\ accepted' = accepted \cup {HandoffKey(w)}
    /\ stage' = [stage EXCEPT ![w] = "accepted"]
    /\ UNCHANGED <<rowVars, row, seen, faults>>

Exhausted(w) == seen[w] >= MaxAttempts

\* A transient error; the message may have been accepted all the same.
ProviderTransient(w, lostAnswer) ==
    /\ stage[w] = "claimed"
    /\ accepted' = IF lostAnswer THEN accepted \cup {HandoffKey(w)} ELSE accepted
    /\ stage' = [stage EXCEPT ![w] = IF Exhausted(w) THEN "burying" ELSE "retrying"]
    /\ UNCHANGED <<rowVars, row, seen, faults>>

\* A permanent error, an unusable payload or a topic without a handler.
ProviderRejects(w) ==
    /\ stage[w] = "claimed"
    /\ stage' = [stage EXCEPT ![w] = "burying"]
    /\ UNCHANGED <<rowVars, accepted, row, seen, faults>>

\* _transition's WHERE clause: the row is open and locked, by whomever.
StillClaimed(m) == Open(m) /\ lock[m] # "none"

EndDelivery(w) ==
    /\ row' = [row EXCEPT ![w] = NoMessage]
    /\ seen' = [seen EXCEPT ![w] = 0]
    /\ stage' = [stage EXCEPT ![w] = "idle"]

Record(w, to) ==
    /\ StillClaimed(row[w])
    /\ state' = [state EXCEPT ![row[w]] = to]
    /\ lock' = [lock EXCEPT ![row[w]] = "none"]
    /\ EndDelivery(w)

RecordSent(w) ==
    /\ stage[w] = "accepted"
    /\ Record(w, "sent")
    /\ UNCHANGED <<attempts, due, expired, accepted, faults>>

\* The row changed, or the transaction failed: any exception buries the row.
RecordSentFails(w) ==
    /\ stage[w] = "accepted"
    /\ \/ ~StillClaimed(row[w]) /\ UNCHANGED faults
       \/ faults < MaxFault /\ faults' = faults + 1
    /\ stage' = [stage EXCEPT ![w] = "burying"]
    /\ UNCHANGED <<rowVars, accepted, row, seen>>

\* retry with backoff_seconds, which is defined on the schedule only.
RecordRetry(w) ==
    /\ stage[w] = "retrying"
    /\ seen[w] \in Schedule
    /\ Record(w, "failed")
    /\ due' = [due EXCEPT ![row[w]] = FALSE]
    /\ UNCHANGED <<attempts, expired, accepted, faults>>

RecordDead(w) ==
    /\ stage[w] = "burying"
    /\ Record(w, "dead")
    /\ UNCHANGED <<attempts, due, expired, accepted, faults>>

\* "claimed outbox row changed before delivery completed" ends the tick.
Conflict(w) ==
    /\ stage[w] \in {"retrying", "burying"}
    /\ ~StillClaimed(row[w])
    /\ EndDelivery(w)
    /\ UNCHANGED <<rowVars, accepted, faults>>

\* The process dies, or the outcome cannot be written: the lock stays behind.
Crash(w) ==
    /\ stage[w] # "idle"
    /\ faults < MaxFault
    /\ faults' = faults + 1
    /\ EndDelivery(w)
    /\ UNCHANGED <<rowVars, accepted>>

Deliver(w) ==
    \/ ProviderAccepts(w)
    \/ \E lostAnswer \in BOOLEAN : ProviderTransient(w, lostAnswer)
    \/ ProviderRejects(w)
    \/ RecordSent(w) \/ RecordSentFails(w) \/ RecordRetry(w) \/ RecordDead(w) \/ Conflict(w)

Next ==
    \/ \E m \in Message : Add(m) \/ Discard(m) \/ BecomesDue(m) \/ LockAges(m) \/ Expires(m)
    \/ \E w \in Worker : (\E m \in Message : Claim(w, m)) \/ Sweep(w) \/ Deliver(w) \/ Crash(w)

Spec == Init /\ [][Next]_vars

-----------------------------------------------------------------------------
(* Properties.                                                               *)

RowState == {"absent", "pending", "failed", "sent", "dead", "gone"}

\* The values of the outbox columns and of a tick's program counter.
TypeOK ==
    /\ state \in [Message -> RowState]
    /\ attempts \in [Message -> Nat]
    /\ due \in [Message -> BOOLEAN]
    /\ lock \in [Message -> {"none", "held", "stale"}]
    /\ expired \in [Message -> BOOLEAN]
    /\ accepted \in SUBSET (Message \X Nat)
    /\ row \in [Worker -> Message \cup {NoMessage}]
    /\ seen \in [Worker -> Nat]
    /\ stage \in [Worker -> {"idle", "claimed", "accepted", "retrying", "burying"}]
    /\ \A w \in Worker : stage[w] # "idle" => row[w] \in Message
    /\ faults \in 0..MaxFault

Emails(m) == {key \in accepted : key[1] = m}

\* Retries never send twice: however often ticks die, answers are lost and stale
\* ticks come back, the provider accepts one email per row, and a row recorded as
\* sent has its email.
SentOnce ==
    \A m \in Message :
        /\ Cardinality(Emails(m)) <= 1
        /\ state[m] = "sent" => Emails(m) # {}

\* Why SentOnce holds: the only key ever accepted for a row is its own, and a tick
\* records a row as sent only after the provider accepted that key.
OwnKeyAccepted ==
    /\ \A key \in accepted : key = <<key[1], 0>>
    /\ \A m \in Message : state[m] = "sent" => <<m, 0>> \in accepted
    /\ \A w \in Worker : stage[w] = "accepted" => <<row[w], 0>> \in accepted

\* A tick that comes back late never reopens or reclassifies a settled row: sent
\* evidence and dead rows change only by being deleted.
SettledIsFinal ==
    [][ \A m \in Message :
          state[m] \in {"sent", "dead"} => state'[m] \in {state[m], "gone"} ]_vars

\* Every row is sent, dead or deleted in the end: a lock left by a dead tick goes
\* stale and the row is claimed again.
RowsSettle == \A m \in Message : Open(m) ~> ~Open(m)
=============================================================================
