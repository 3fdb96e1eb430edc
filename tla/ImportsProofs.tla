--------------------------- MODULE ImportsProofs ---------------------------
(***************************************************************************)
(* One import batch for files of any length, any chunk size and number of  *)
(* jobs and ticks: slices use the queue as JobQueue describes it, a row is *)
(* applied once, only over the record that was previewed, and a            *)
(* cancellation that was acknowledged is not overtaken.                    *)
(*                                                                         *)
(* The inductive invariant Typed /\ BatchInv says what a slice may rely on *)
(* while it holds the session lock (SlicesOK), what the batch row says     *)
(* when none does (BatchOK), and that at most one slice holds it           *)
(* (SlicesOwned).  It stands on the theorems about the queue alone, which  *)
(* come first.                                                             *)
(***************************************************************************)
EXTENDS Imports, FiniteSetTheorems, TLAPS

-----------------------------------------------------------------------------
(* The queue alone: type correctness, exclusive execution and bounded retries. *)

LEMMA TypeInit == Init => TypeOK
  BY JobQueueAssumption DEF Init, TypeOK, JobState, Stage

LEMMA TypeStep == TypeOK /\ [Next]_vars => TypeOK'
<1> SUFFICES ASSUME TypeOK, [Next]_vars PROVE TypeOK'
  OBVIOUS
<1> USE JobQueueAssumption DEF TypeOK, JobState, Stage
<1>1. ASSUME NEW j \in Job, NEW now \in BOOLEAN, Enqueue(j, now) PROVE TypeOK'
  BY <1>1 DEF Enqueue
<1>2. ASSUME NEW j \in Job, BecomesDue(j) PROVE TypeOK'
  BY <1>2 DEF BecomesDue
<1>3. ASSUME NEW w \in Worker, NEW j \in Job, Claim(w, j) PROVE TypeOK'
  BY <1>3 DEF Claim
<1>4. ASSUME NEW w \in Worker, HandlerReturns(w) \/ HandlerTransient(w) \/ HandlerFails(w)
      PROVE  TypeOK'
  BY <1>4 DEF HandlerReturns, HandlerTransient, HandlerFails
<1>5. ASSUME NEW w \in Worker, Complete(w) \/ Retry(w) \/ Dead(w) PROVE TypeOK'
  <2>1. PICK to \in {"done", "queued", "dead"} : Finish(w, to)
    BY <1>5 DEF Complete, Retry, Dead
  <2>2. state' \in [Job -> JobState]
    BY <2>1 DEF Finish
  <2>3. job' \in [Worker -> Job \cup {NoJob}] /\ stage' \in [Worker -> Stage]
    BY <2>1 DEF Finish
  <2>4. UNCHANGED <<attempts, crashes>>
    BY <1>5 DEF Complete, Retry, Dead
  <2>5. due' \in [Job -> BOOLEAN]
    <3>1. due' = due \/ due' = [due EXCEPT ![job[w]] = FALSE]
      BY <1>5 DEF Complete, Retry, Dead
    <3>2. QED
      BY <3>1
  <2>6. QED
    BY <2>2, <2>3, <2>4, <2>5
<1>6. ASSUME NEW w \in Worker, CompleteFails(w) \/ Crash(w) PROVE TypeOK'
  BY <1>6 DEF CompleteFails, Crash
<1>7. CASE UNCHANGED vars
  BY <1>7 DEF vars
<1>8. QED
  BY <1>1, <1>2, <1>3, <1>4, <1>5, <1>6, <1>7 DEF Next, Step

\* Every reachable state of the queue and its runners is well typed.
THEOREM TypeCorrect == Spec => []TypeOK
  BY TypeInit, TypeStep, PTL DEF Spec

-----------------------------------------------------------------------------
(* Exclusive execution.  The claim takes only queued rows and whoever runs a *)
(* job holds it as running, so the invariant is inductive as it stands.      *)

LEMMA RunnerInit == Init => OneRunner
  BY DEF Init, OneRunner

LEMMA RunnerStep == TypeOK /\ OneRunner /\ [Next]_vars => OneRunner'
<1> SUFFICES ASSUME TypeOK, OneRunner, [Next]_vars PROVE OneRunner'
  OBVIOUS
<1> USE DEF OneRunner
<1>1. ASSUME NEW j \in Job, NEW now \in BOOLEAN, Enqueue(j, now) PROVE OneRunner'
  BY <1>1 DEF Enqueue, TypeOK
<1>2. ASSUME NEW j \in Job, BecomesDue(j) PROVE OneRunner'
  BY <1>2 DEF BecomesDue, TypeOK
<1>3. ASSUME NEW w \in Worker, NEW j \in Job, Claim(w, j) PROVE OneRunner'
  BY <1>3 DEF Claim, Claimable, TypeOK
<1>4. ASSUME NEW w \in Worker, HandlerReturns(w) \/ HandlerTransient(w) \/ HandlerFails(w)
      PROVE  OneRunner'
  BY <1>4 DEF HandlerReturns, HandlerTransient, HandlerFails, TypeOK
<1>5. ASSUME NEW w \in Worker, Complete(w) \/ Retry(w) \/ Dead(w) PROVE OneRunner'
  <2>1. stage[w] # "idle" /\ \E to \in JobState : Finish(w, to)
    BY <1>5 DEF Complete, Retry, Dead, JobState
  <2>2. QED
    BY <2>1 DEF Finish, TypeOK
<1>6. ASSUME NEW w \in Worker, CompleteFails(w) \/ Crash(w) PROVE OneRunner'
  BY <1>6 DEF CompleteFails, Crash, TypeOK
<1>7. CASE UNCHANGED vars
  BY <1>7 DEF vars
<1>8. QED
  BY <1>1, <1>2, <1>3, <1>4, <1>5, <1>6, <1>7 DEF Next, Step

\* No two ticks ever run the same job, whatever crashes and however claims
\* interleave.
THEOREM ExclusiveExecution == Spec => []OneRunner
  BY TypeInit, TypeStep, RunnerInit, RunnerStep, PTL DEF Spec

-----------------------------------------------------------------------------
(* Bounded retries.  AttemptsBounded needs AttemptsToSpare: the bound holds  *)
(* after a claim because a queued job had an attempt to spare before it.     *)

LEMMA AttemptsInit == Init => AttemptsToSpare
  BY JobQueueAssumption DEF Init, AttemptsToSpare, AttemptsBounded, Schedule

LEMMA AttemptsStep ==
    TypeOK /\ OneRunner /\ AttemptsToSpare /\ [Next]_vars => AttemptsToSpare'
<1> SUFFICES ASSUME TypeOK, OneRunner, AttemptsToSpare, [Next]_vars PROVE AttemptsToSpare'
  OBVIOUS
<1> USE JobQueueAssumption DEF AttemptsToSpare, AttemptsBounded, Schedule
<1>1. ASSUME NEW j \in Job, NEW now \in BOOLEAN, Enqueue(j, now) PROVE AttemptsToSpare'
  BY <1>1 DEF Enqueue, TypeOK
<1>2. ASSUME NEW j \in Job, BecomesDue(j) PROVE AttemptsToSpare'
  BY <1>2 DEF BecomesDue, TypeOK
<1>3. ASSUME NEW w \in Worker, NEW j \in Job, Claim(w, j) PROVE AttemptsToSpare'
  <2>1. attempts[j] < MaxAttempts[j] /\ state[j] = "queued"
    BY <1>3 DEF Claim, Claimable
  <2>2. \A i \in Job : attempts'[i] = IF i = j THEN attempts[j] + 1 ELSE attempts[i]
    BY <1>3 DEF Claim, TypeOK
  <2>3. \A i \in Job : attempts'[i] <= MaxAttempts[i]
    BY <2>1, <2>2 DEF TypeOK
  <2>4. \A i \in Job : state'[i] \in {"absent", "queued"} => i # j /\ state'[i] = state[i]
    BY <1>3 DEF Claim, TypeOK
  <2>5. \A v \in Worker : stage'[v] = "retrying" =>
                             stage[v] = "retrying" /\ job'[v] = job[v] /\ job[v] # j
    BY <1>3, <2>1 DEF Claim, TypeOK, OneRunner
  <2>6. \A v \in Worker : stage'[v] = "retrying" => attempts'[job'[v]] < MaxAttempts[job'[v]]
    BY <2>2, <2>5 DEF OneRunner
  <2>7. QED
    BY <2>2, <2>3, <2>4, <2>6
<1>4. ASSUME NEW w \in Worker, HandlerReturns(w) \/ HandlerTransient(w) \/ HandlerFails(w)
      PROVE  AttemptsToSpare'
  BY <1>4 DEF HandlerReturns, HandlerTransient, HandlerFails, Exhausted, TypeOK, OneRunner
<1>5. ASSUME NEW w \in Worker, Complete(w) \/ Retry(w) \/ Dead(w) PROVE AttemptsToSpare'
  <2>1. /\ stage[w] # "idle" /\ attempts' = attempts
        /\ \E to \in JobState : Finish(w, to) /\ (to \in {"absent", "queued"} => stage[w] = "retrying")
    BY <1>5 DEF Complete, Retry, Dead, JobState
  <2>2. \A i \in Job : state'[i] \in {"absent", "queued"} => attempts[i] < MaxAttempts[i]
    BY <2>1 DEF Finish, TypeOK, OneRunner
  <2>3. \A v \in Worker : stage'[v] = "retrying" => stage[v] = "retrying" /\ job'[v] = job[v]
    BY <2>1 DEF Finish, TypeOK
  <2>4. QED
    BY <2>1, <2>2, <2>3
<1>6. ASSUME NEW w \in Worker, CompleteFails(w) \/ Crash(w) PROVE AttemptsToSpare'
  BY <1>6 DEF CompleteFails, Crash, TypeOK
<1>7. CASE UNCHANGED vars
  BY <1>7 DEF vars
<1>8. QED
  BY <1>1, <1>2, <1>3, <1>4, <1>5, <1>6, <1>7 DEF Next, Step

\* A job is never attempted more often than its max_attempts, and a retry is
\* scheduled only within the backoff schedule.
THEOREM RetriesBounded == Spec => []AttemptsBounded
<1>1. AttemptsToSpare => AttemptsBounded
  BY DEF AttemptsToSpare
<1>2. QED
  BY TypeInit, TypeStep, RunnerInit, RunnerStep, AttemptsInit, AttemptsStep, <1>1, PTL DEF Spec

-----------------------------------------------------------------------------
(* The batch *)

BatchStatus == {"absent", "uploaded", "validating", "validated", "failed_validation",
                "committing", "committed", "cancelled", "failed"}
Mode == {"none", "atomic", "partial"}
Action == {"create", "update", "skip", "error"}
SliceAt == {"none", "chunk", "after", "finish", "ending", "cancelled", "failing"}

Plan == [action : Action \cup {"none"}, token : Nat]
Report == [mode : Mode, committed : SUBSET Row, skipped : SUBSET Row]
Record == [version : Nat, same : BOOLEAN]
Slice == [at : SliceAt, done : Nat, committed : SUBSET Row, skipped : SUBSET Row]

ImportTypeOK ==
    /\ status \in BatchStatus
    /\ file \in File
    /\ bad \in SUBSET Row
    /\ cancel \in BOOLEAN
    /\ done \in Nat
    /\ report \in Report
    /\ plan \in [Row -> Plan]
    /\ results \in SUBSET Row
    /\ target \in [Row -> Record]
    /\ kind \in [Job -> {"none", "validating", "committing"}]
    /\ slice \in [Worker -> Slice]
    /\ times \in [Row -> Nat]

\* A slice runs in a tick that has claimed its job, and one at a time holds the lock.
SlicesOwned ==
    /\ \A w \in Worker : slice[w].at # "none" => stage[w] = "claimed"
    /\ \A v, w \in Worker : slice[v].at \in Held /\ slice[w].at \in Held => v = w

\* Places of a slice that is still at work.
AtWork == {"chunk", "after", "finish"}

Before == {"absent", "uploaded", "validated", "failed_validation"}

Accounted(r, res, rp, pl) == r \in res \cup rp.skipped \/ pl[r].action = "skip"

\* The batch row: nothing is applied before a commit, and the report is what was.
BatchOK ==
    /\ status \in Before \cup {"validating"} => report.mode = "none"
    /\ status = "committing" => report.mode # "none"
    /\ report.mode = "none" => results = {}
    /\ report.committed = results
    /\ report.mode = "atomic" =>
          /\ report.skipped = {}
          /\ \A r \in Row : plan[r].action # "error"
          /\ status \notin {"committed", "failed"} => results = {}
    /\ status \in {"validated", "failed_validation"} \/ report.mode # "none" =>
          \A r \in Row : plan[r].action # "none"
    /\ status = "validated" => \A r \in Row : plan[r].action # "error"
    /\ status = "validating" => \A r \in Row : r <= done => plan[r].action # "none"
    /\ status = "committing" /\ report.mode = "partial" =>
          \A r \in Row : r <= done => Accounted(r, results, report, plan)

\* The flag, once raised, is seen by every slice that begins or goes on.
CancelOK ==
    /\ cancel => status \in {"validating", "committing", "cancelled", "failed"}
    /\ status = "cancelled" => cancel
    /\ \A w \in Worker : slice[w].at = "cancelled" => cancel
    /\ \A w \in Worker : slice[w].at \in {"chunk", "after"} =>
          /\ status # "cancelled"
          /\ \A v \in Worker : slice[v].at # "cancelled"

\* What a slice s at work on a phase relies on, given the batch row.
SliceOK(s, phase, st, c, rp, pl, res, tg) ==
    /\ st \notin Before \cup {"committed"}
    /\ phase = IF rp.mode = "none" THEN "validating" ELSE "committing"
    /\ s.at = "chunk" => s.done < Rows
    /\ s.at = "finish" => s.done >= Rows
    /\ rp.mode = "none" /\ (s.at # "finish" \/ ~c) =>
          \A r \in Row : r <= s.done => pl[r].action # "none"
    /\ rp.mode = "partial" =>
          /\ s.committed = res /\ s.skipped = rp.skipped
          /\ \A r \in Row : r <= s.done => Accounted(r, res, rp, pl)
    /\ rp.mode = "atomic" =>
          /\ res = {} /\ s.skipped = {}
          /\ \A r \in Row : r <= s.done => r \in s.committed \/ pl[r].action = "skip"
          /\ \A r \in s.committed : /\ r <= s.done
                                    /\ pl[r].action \in {"create", "update"}
                                    /\ pl[r].token = tg[r].version

SlicesOK ==
    \A w \in Worker : slice[w].at \in AtWork =>
        SliceOK(slice[w], Phase(w), status, cancel, report, plan, results, target)

-----------------------------------------------------------------------------
(* The queue.                                                                *)

\* The steps by who takes them: the API and its users, the runner, and the slice in a tick.
Command ==
    \/ \E m \in Mappings[file] : Upload(m) \/ SaveMapping(m)
    \/ ValidateNow \/ ValidateLater
    \/ \E mode \in {"atomic", "partial"} : CommitNow(mode) \/ CommitLater(mode)
    \/ CommitRollsBack \/ RecordRollback
    \/ Cancel
    \/ \E r \in Contended, same \in BOOLEAN : Edit(r, same)

SliceMove(w) ==
    SliceStep(w) \/ SliceTransient(w) \/ SliceFails(w) \/ TerminalLost(w) \/ SliceCrash(w)

LEMMA NextSplits ==
    [ImportNext]_allVars =>
        Command \/ QueueStep \/ (\E w \in Worker : SliceMove(w)) \/ UNCHANGED allVars
  BY DEF ImportNext, Command, SliceMove

LEMMA FreeJobIsJob == FreeJobs # {} => (CHOOSE x \in FreeJobs : TRUE) \in FreeJobs
  OBVIOUS

\* The job an enqueuing slice or command takes.
LEMMA EnqueueTakes ==
    ASSUME NEW k, EnqueueSlice(k)
    PROVE  \E j \in Job : Enqueue(j, TRUE) /\ kind' = [kind EXCEPT ![j] = k]
<1> DEFINE j == CHOOSE x \in FreeJobs : TRUE
<1>1. Enqueue(j, TRUE) /\ kind' = [kind EXCEPT ![j] = k] /\ FreeJobs # {}
  BY DEF EnqueueSlice
<1>2. j \in FreeJobs
  BY <1>1, FreeJobIsJob
<1>3. j \in Job
  BY <1>2 DEF FreeJobs
<1> HIDE DEF j
<1>4. QED
  BY <1>1, <1>3

\* An API command leaves the queue alone, or enqueues.
LEMMA CommandQueues ==
    ASSUME Command
    PROVE  \/ UNCHANGED <<vars, kind>>
           \/ \E k \in {"validating", "committing"} : EnqueueSlice(k)
  BY DEF Command, Upload, SaveMapping, ValidateNow, ValidateLater, CommitNow, CommitLater,
         CommitRollsBack, RecordRollback, Cancel, Edit

\* A step of a slice leaves the queue alone, enqueues its continuation, or ends its handler.
LEMMA SliceQueues ==
    ASSUME NEW w \in Worker, SliceMove(w)
    PROVE  \/ UNCHANGED <<vars, kind>>
           \/ EnqueueSlice(Phase(w)) /\ SliceYields(w)
           \/ /\ HandlerReturns(w) \/ HandlerTransient(w) \/ HandlerFails(w) \/ Crash(w)
              /\ kind' = kind
<1>1. CASE SliceBegin(w) \/ ValidateChunk(w) \/ CommitChunk(w) \/ ApplyChunk(w) \/ ChunkRefused(w)
  BY <1>1 DEF SliceBegin, ValidateChunk, CommitChunk, ApplyChunk, ChunkRefused
<1>2. CASE SliceGoesOn(w) \/ FinishCancelled(w) \/ FinishValidation(w) \/ FinishCommit(w)
  BY <1>2 DEF SliceGoesOn, FinishCancelled, FinishValidation, FinishCommit
<1>3. CASE SliceYields(w)
  BY <1>3 DEF SliceYields
<1>4. CASE SliceEnds(w) \/ SliceTransient(w) \/ SliceFails(w) \/ TerminalLost(w) \/ SliceCrash(w)
  BY <1>4 DEF SliceEnds, SliceTransient, SliceFails, TerminalLost, SliceCrash
<1>5. CASE Terminal(w)
  BY <1>5 DEF Terminal
<1>6. QED
  BY <1>1, <1>2, <1>3, <1>4, <1>5 DEF SliceMove, SliceStep

LEMMA QueueInit == ImportInit => Init
  BY DEF ImportInit

\* Every step of a batch, and of others, is a step of the queue or leaves it alone.
LEMMA QueueStepped == [ImportNext]_allVars => [Next]_vars
<1> SUFFICES ASSUME [ImportNext]_allVars PROVE [Next]_vars
  OBVIOUS
<1>1. ASSUME NEW k, EnqueueSlice(k) PROVE Next
  BY <1>1, EnqueueTakes DEF Next
<1>2. CASE Command
  BY <1>1, <1>2, CommandQueues
<1>3. CASE QueueStep
  BY <1>3 DEF QueueStep, Next, Step
<1>4. ASSUME NEW w \in Worker, SliceMove(w) PROVE [Next]_vars
  <2>1. HandlerReturns(w) \/ HandlerTransient(w) \/ HandlerFails(w) \/ Crash(w) => Next
    BY DEF Next, Step
  <2>2. QED
    BY <1>1, <1>4, <2>1, SliceQueues
<1>5. CASE UNCHANGED allVars
  BY <1>5 DEF allVars
<1>6. QED
  BY <1>2, <1>3, <1>4, <1>5, NextSplits

-----------------------------------------------------------------------------
(* The operators: planning, applying and the rows of a chunk.                *)

Planned == [action : Action, token : Nat]

LEMMA PlannedRow ==
    ASSUME NEW t \in [Row -> Record], NEW r \in Row, NEW planned \in BOOLEAN
    PROVE  /\ PlanProject(t, r, planned) \in Planned
           /\ PlanProject(t, r, planned).action \in {"create", "update"} =>
                 PlanProject(t, r, planned).token = t[r].version
           /\ PlanAllocation(t, r) \in Planned
           /\ PlanAllocation(t, r).action \in {"create", "update"} =>
                 PlanAllocation(t, r).token = t[r].version
<1>1. t[r] \in Record
  OBVIOUS
<1>2. /\ PlanProject(t, r, planned) \in Planned
      /\ PlanProject(t, r, planned).action \in {"create", "update"} =>
            PlanProject(t, r, planned).token = t[r].version
  <2>1. \/ PlanProject(t, r, planned) = [action |-> "skip", token |-> 0]
        \/ PlanProject(t, r, planned) = [action |-> "error", token |-> 0]
        \/ PlanProject(t, r, planned) = [action |-> "update", token |-> t[r].version]
        \/ /\ PlanProject(t, r, planned) = [action |-> "create", token |-> 0]
           /\ ~(t[r].version > 0)
    BY Zenon DEF PlanProject, Refused
  <2>2. QED
    BY <1>1, <2>1 DEF Record, Planned, Action
<1>3. /\ PlanAllocation(t, r) \in Planned
      /\ PlanAllocation(t, r).action \in {"create", "update"} =>
            PlanAllocation(t, r).token = t[r].version
  <2>1. \/ PlanAllocation(t, r) = [action |-> "skip", token |-> 0]
        \/ PlanAllocation(t, r) = [action |-> "error", token |-> 0]
        \/ PlanAllocation(t, r) = [action |-> "create", token |-> 0] /\ t[r].version = 0
    BY Zenon DEF PlanAllocation, Refused
  <2>2. QED
    BY <1>1, <2>1 DEF Record, Planned, Action
<1>4. QED
  BY <1>2, <1>3

\* Every row gets an action, and a row that writes the version it was planned against.
LEMMA PlanRowsPlans ==
    ASSUME NEW t \in [Row -> Record], NEW n, NEW known
    PROVE  /\ PlanRows(t, n, known) \in [Row -> Planned]
           /\ \A r \in Row : PlanRows(t, n, known)[r].action \in {"create", "update"} =>
                 PlanRows(t, n, known)[r].token = t[r].version
<1>1. PICK ps : PlanRows(t, n, known) =
          [r \in Row |-> IF r \in bad THEN Refused
                         ELSE IF Template[file] = "projects" THEN PlanProject(t, r, Parent[r] \in ps)
                         ELSE PlanAllocation(t, r)]
  BY DEF PlanRows
<1>2. Refused \in Planned /\ Refused.action = "error"
  BY DEF Refused, Planned, Action
<1>3. \A r \in Row : PlanRows(t, n, known)[r] \in
          {Refused, PlanProject(t, r, Parent[r] \in ps), PlanAllocation(t, r)}
  BY <1>1
<1>4. ASSUME NEW r \in Row
      PROVE  /\ PlanRows(t, n, known)[r] \in Planned
             /\ PlanRows(t, n, known)[r].action \in {"create", "update"} =>
                   PlanRows(t, n, known)[r].token = t[r].version
  <2>1. (Parent[r] \in ps) \in BOOLEAN
    OBVIOUS
  <2>2. QED
    BY <1>2, <1>3, <2>1, PlannedRow
<1>5. QED
  BY <1>1, <1>4

LEMMA AppliedRecords ==
    ASSUME NEW t \in [Row -> Record], NEW S
    PROVE  /\ Applied(t, S) \in [Row -> Record]
           /\ \A r \in Row : r \notin S => Applied(t, S)[r] = t[r]
  BY DEF Applied, Record

LEMMA OutcomesWithin ==
    ASSUME NEW t, NEW S, NEW ok \in Outcomes(t, S) PROVE ok \subseteq S
  BY DEF Outcomes

\* The rows a slice has done after its next chunk are those before it and the chunk's.
LEMMA ChunkIs ==
    ASSUME ImportTypeOK, NEW w \in Worker, slice[w].done < Rows
    PROVE  /\ DoneAfter(w) \in Nat /\ slice[w].done < DoneAfter(w)
           /\ ChunkOf(w) = (slice[w].done + 1)..DoneAfter(w)
<1>1. slice[w].done \in Nat /\ Rows \in Nat /\ Chunk \in Nat \ {0}
  BY ImportsAssumption DEF ImportTypeOK, Slice
<1>2. PICK top \in Nat : top = IF slice[w].done + Chunk < Rows THEN slice[w].done + Chunk ELSE Rows
  BY <1>1
<1>3. ChunkOf(w) = (slice[w].done + 1)..top
  BY <1>1, <1>2 DEF ChunkOf, Row
<1>4. PICK a \in Int : a = slice[w].done + 1
  BY <1>1
<1>5. ~(a > top) /\ top \in Int
  BY <1>1, <1>2, <1>4
<1>6. Cardinality(a..top) = top - a + 1
  BY <1>5, FS_Interval
<1>7. ChunkOf(w) = a..top /\ a - 1 = slice[w].done
  BY <1>1, <1>3, <1>4
<1>8. DoneAfter(w) = top
  <2>1. top - a + 1 = top - slice[w].done
    BY <1>1, <1>2, <1>4
  <2>2. Cardinality(ChunkOf(w)) = Cardinality(a..top)
    BY <1>7
  <2>3. Cardinality(ChunkOf(w)) = top - slice[w].done
    BY <1>6, <2>1, <2>2
  <2>4. QED
    BY <1>1, <1>2, <2>3 DEF DoneAfter
<1>9. QED
  BY <1>1, <1>2, <1>3, <1>8

LEMMA ChunkDone ==
    ASSUME ImportTypeOK, NEW w \in Worker
    PROVE  /\ DoneAfter(w) \in Nat /\ ChunkOf(w) \in SUBSET Row
           /\ slice[w].done < Rows =>
                 /\ slice[w].done <= DoneAfter(w) /\ \A r \in ChunkOf(w) : r <= DoneAfter(w)
                 /\ \A r \in Row : r <= DoneAfter(w) => r <= slice[w].done \/ r \in ChunkOf(w)
<1>1. slice[w].done \in Nat /\ Rows \in Nat
  BY ImportsAssumption DEF ImportTypeOK, Slice
<1>2. Row = 1..Rows /\ IsFiniteSet(Row)
  BY <1>1, FS_Interval DEF Row
<1>3. ChunkOf(w) \in SUBSET Row
  BY DEF ChunkOf
<1>4. Cardinality(ChunkOf(w)) \in Nat
  BY <1>2, <1>3, FS_Subset, FS_CardinalityType
<1>5. ASSUME slice[w].done < Rows
      PROVE  /\ slice[w].done <= DoneAfter(w) /\ \A r \in ChunkOf(w) : r <= DoneAfter(w)
             /\ \A r \in Row : r <= DoneAfter(w) => r <= slice[w].done \/ r \in ChunkOf(w)
  BY <1>1, <1>2, <1>5, ChunkIs
<1>6. QED
  BY <1>1, <1>3, <1>4, <1>5 DEF DoneAfter

\* What a transaction of a partial commit writes: of the rows P plans, ok are applied.
ChunkCommitted(w, P, ok, com, skp) ==
    LET todo == Writes(P) \cap OpenRows(w)
    IN  /\ ~Stale(P, OpenRows(w))
        /\ ok \in Outcomes(target, todo)
        /\ com = slice[w].committed \cup (ChunkOf(w) \cap results) \cup ok
        /\ skp = slice[w].skipped \cup (todo \ ok) \cup {r \in OpenRows(w) : P[r].action = "error"}
        /\ target' = Applied(target, ok)
        /\ results' = results \cup ok
        /\ times' = [r \in Row |-> times[r] + (IF r \in ok THEN 1 ELSE 0)]
        /\ plan' = Persisted(plan, todo \ ok)
        /\ report' = [report EXCEPT !.committed = com, !.skipped = skp]
        /\ slice' = [slice EXCEPT ![w] =
              [at |-> "after", done |-> DoneAfter(w), committed |-> com, skipped |-> skp]]

LEMMA CommitChunkCommits ==
    ASSUME NEW w, CommitChunk(w)
    PROVE  \E ok, com, skp : ChunkCommitted(w, PlanRows(target, slice[w].done, {}), ok, com, skp)
<1> DEFINE P == PlanRows(target, slice[w].done, {})
           todo == Writes(P) \cap OpenRows(w)
           Com(ok) == slice[w].committed \cup (ChunkOf(w) \cap results) \cup ok
           Skp(ok) == slice[w].skipped \cup (todo \ ok) \cup {r \in OpenRows(w) : P[r].action = "error"}
<1>1. ~Stale(P, OpenRows(w))
  BY DEF CommitChunk
<1>2. PICK ok \in Outcomes(target, todo) :
          /\ target' = Applied(target, ok)
          /\ results' = results \cup ok
          /\ times' = [r \in Row |-> times[r] + (IF r \in ok THEN 1 ELSE 0)]
          /\ plan' = Persisted(plan, todo \ ok)
          /\ report' = [report EXCEPT !.committed = Com(ok), !.skipped = Skp(ok)]
          /\ slice' = [slice EXCEPT ![w] =
                [at |-> "after", done |-> DoneAfter(w), committed |-> Com(ok), skipped |-> Skp(ok)]]
  BY Zenon DEF CommitChunk
<1>3. ChunkCommitted(w, P, ok, Com(ok), Skp(ok))
  BY <1>1, <1>2 DEF ChunkCommitted
<1>4. QED
  BY <1>3

-----------------------------------------------------------------------------
(* Types.                                                                    *)

LEMMA PlanTypes ==
    /\ NoPlan \in Plan /\ Refused \in Plan /\ Planned \subseteq Plan
    /\ NoSlice \in Slice /\ NoReport \in Report
  BY DEF NoPlan, Refused, Planned, Plan, Action, NoSlice, Slice, SliceAt, NoReport, Report, Mode

LEMMA ImportTypeInit == ImportInit => ImportTypeOK
<1> SUFFICES ASSUME ImportInit PROVE ImportTypeOK
  OBVIOUS
<1>1. target \in [Row -> Record]
  BY DEF ImportInit, Record
<1>2. plan \in [Row -> Plan] /\ report \in Report /\ slice \in [Worker -> Slice]
  BY PlanTypes DEF ImportInit
<1>3. QED
  BY <1>1, <1>2 DEF ImportInit, ImportTypeOK, BatchStatus

\* Moving a slice, or taking a job for one, keeps the types.
LEMMA MovedType ==
    ASSUME ImportTypeOK, NEW w \in Worker, NEW at \in SliceAt, Goto(w, at)
    PROVE  slice' \in [Worker -> Slice]
  BY DEF ImportTypeOK, Goto, Slice

LEMMA KindType ==
    ASSUME ImportTypeOK, NEW k \in {"none", "validating", "committing"}, EnqueueSlice(k)
    PROVE  kind' \in [Job -> {"none", "validating", "committing"}]
  BY EnqueueTakes DEF ImportTypeOK

LEMMA PhaseType ==
    ASSUME TypeOK, ImportTypeOK, OneRunner, SlicesOwned, NEW w \in Worker, slice[w].at # "none"
    PROVE  Phase(w) \in {"none", "validating", "committing"} /\ job[w] \in Job
  BY DEF ImportTypeOK, OneRunner, SlicesOwned, Phase

LEMMA TimesType ==
    ASSUME ImportTypeOK, NEW S
    PROVE  [r \in Row |-> times[r] + (IF r \in S THEN 1 ELSE 0)] \in [Row -> Nat]
  BY DEF ImportTypeOK

LEMMA CommandTypes ==
    ASSUME ImportTypeOK,
           Command
    PROVE  ImportTypeOK'
<1>1. CASE \E m \in Mappings[file] : Upload(m) \/ SaveMapping(m)
  <2>1. PICK m \in Mappings[file] : Upload(m) \/ SaveMapping(m)
    BY <1>1
  <2>2. m \in SUBSET Row
    BY ImportsAssumption DEF ImportTypeOK
  <2>3. QED
    BY <2>1, <2>2 DEF ImportTypeOK, Upload, SaveMapping, BatchStatus
<1>2. CASE ValidateNow
  <2>1. PlanRows(target, 0, {}) \in [Row -> Planned]
    BY PlanRowsPlans DEF ImportTypeOK
  <2>2. plan' \in [Row -> Plan]
    BY <1>2, <2>1, PlanTypes DEF ValidateNow, StorePlanned, ImportTypeOK
  <2>3. status' \in BatchStatus
    BY <1>2 DEF ValidateNow, Verdict, BatchStatus
  <2>4. QED
    BY <1>2, <2>2, <2>3 DEF ImportTypeOK, ValidateNow
<1>3. CASE ValidateLater
  BY <1>3, KindType, PlanTypes DEF ValidateLater, ImportTypeOK, BatchStatus
<1>4. ASSUME NEW mode \in {"atomic", "partial"}, CommitNow(mode) PROVE ImportTypeOK'
  <2>1. PICK P : P = PlanRows(target, 0, {})
    OBVIOUS
  <2>2. PICK ok \in Outcomes(target, Writes(P)) :
            /\ target' = Applied(target, ok)
            /\ results' = results \cup ok
            /\ times' = [r \in Row |-> times[r] + (IF r \in ok THEN 1 ELSE 0)]
            /\ plan' = Persisted(plan, Writes(P) \ ok)
            /\ report' = [mode |-> mode, committed |-> ok,
                          skipped |-> {r \in Row : P[r].action = "error"} \cup (Writes(P) \ ok)]
    BY <1>4, <2>1 DEF CommitNow
  <2>3. ok \in SUBSET Row /\ Writes(P) \in SUBSET Row
    BY OutcomesWithin DEF Writes
  <2>4. target' \in [Row -> Record] /\ times' \in [Row -> Nat]
    BY <2>2, AppliedRecords, TimesType DEF ImportTypeOK
  <2>5. plan' \in [Row -> Plan]
    BY <2>2, PlanTypes DEF Persisted, ImportTypeOK
  <2>6. report' \in Report /\ results' \in SUBSET Row
    BY <2>2, <2>3 DEF Report, Mode, ImportTypeOK
  <2>7. QED
    BY <1>4, <2>4, <2>5, <2>6 DEF ImportTypeOK, CommitNow, BatchStatus
<1>5. ASSUME NEW mode \in {"atomic", "partial"}, CommitLater(mode) PROVE ImportTypeOK'
  <2>1. report' \in Report
    BY <1>5 DEF CommitLater, NoReport, Report, Mode
  <2>2. QED
    BY <1>5, <2>1, KindType DEF CommitLater, ImportTypeOK, BatchStatus
<1>6. CASE CommitRollsBack \/ RecordRollback \/ Cancel
  BY <1>6 DEF CommitRollsBack, RecordRollback, Cancel, ImportTypeOK, batchVars, BatchStatus
<1>7. ASSUME NEW r \in Contended, NEW same \in BOOLEAN, Edit(r, same) PROVE ImportTypeOK'
  <2>1. target' \in [Row -> Record]
    BY <1>7, ImportsAssumption DEF Edit, ImportTypeOK, Record
  <2>2. QED
    BY <1>7, <2>1 DEF Edit, ImportTypeOK, batchVars
<1>8. QED
  BY <1>1, <1>2, <1>3, <1>4, <1>5, <1>6, <1>7 DEF Command

\* The slices.
LEMMA SliceTypes ==
    ASSUME TypeOK, OneRunner, ImportTypeOK, SlicesOwned, NEW w \in Worker, SliceMove(w)
    PROVE  ImportTypeOK'
<1> USE DEF SliceAt, Held
<1>0. slice[w] \in Slice /\ [slice EXCEPT ![w] = NoSlice] \in [Worker -> Slice]
  BY PlanTypes DEF ImportTypeOK
<1>1. CASE SliceBegin(w)
  <2>1. CASE Goto(w, "ending")
    BY <1>1, <2>1, MovedType DEF SliceBegin, ImportTypeOK, batchVars
  <2>2. CASE \E at \in SliceAt : slice' = [slice EXCEPT ![w] =
                [at |-> at, done |-> StartAt(w),
                 committed |-> report.committed, skipped |-> report.skipped]]
    <3>1. StartAt(w) \in Nat
      BY DEF StartAt, ImportTypeOK
    <3>2. slice' \in [Worker -> Slice]
      BY <2>2, <3>1 DEF ImportTypeOK, Slice, Report
    <3>3. QED
      BY <1>1, <3>2 DEF SliceBegin, ImportTypeOK, batchVars
  <2>3. QED
    BY <1>1, <2>1, <2>2 DEF SliceBegin
<1>2. CASE ValidateChunk(w)
  <2>1. PICK P \in [Row -> Planned] : plan' = StorePlanned(P, ChunkOf(w))
    BY <1>2, PlanRowsPlans DEF ValidateChunk, ImportTypeOK
  <2>2. plan' \in [Row -> Plan]
    BY <2>1, PlanTypes DEF StorePlanned, ImportTypeOK
  <2>3. slice' \in [Worker -> Slice] /\ done' \in Nat
    <3>1. DoneAfter(w) \in Nat
      BY ChunkDone
    <3>2. QED
      BY <1>0, <1>2, <3>1 DEF ValidateChunk, ImportTypeOK, Slice
  <2>4. QED
    BY <1>2, <2>2, <2>3 DEF ValidateChunk, ImportTypeOK
<1>3. CASE CommitChunk(w)
  <2>1. PICK ok, com, skp : ChunkCommitted(w, PlanRows(target, slice[w].done, {}), ok, com, skp)
    BY <1>3, CommitChunkCommits
  <2> DEFINE P == PlanRows(target, slice[w].done, {})
             todo == Writes(P) \cap OpenRows(w)
  <2> HIDE DEF P
  <2> USE DEF ChunkCommitted
  <2>2. todo \in SUBSET Row /\ OpenRows(w) \in SUBSET Row /\ ok \in SUBSET Row
    BY <2>1, ChunkDone, OutcomesWithin DEF OpenRows, ImportTypeOK
  <2>3. com \in SUBSET Row /\ skp \in SUBSET Row
    BY <1>0, <2>1, <2>2 DEF Slice, ImportTypeOK
  <2>4. target' \in [Row -> Record] /\ times' \in [Row -> Nat]
    BY <2>1, AppliedRecords, TimesType DEF ImportTypeOK
  <2>5. plan' \in [Row -> Plan]
    BY <2>1, PlanTypes, SMTT(20) DEF Persisted, ImportTypeOK
  <2>6. report' \in Report /\ results' \in SUBSET Row
    BY <2>1, <2>2, <2>3 DEF Report, ImportTypeOK
  <2>7. slice' \in [Worker -> Slice]
    BY <2>1, <2>3, ChunkDone DEF ImportTypeOK, Slice
  <2>8. QED
    BY <1>3, <2>4, <2>5, <2>6, <2>7, ChunkDone DEF CommitChunk, ImportTypeOK
<1>4. CASE ApplyChunk(w)
  <2>1. PICK new : slice' = [slice EXCEPT ![w].at = "after", ![w].done = DoneAfter(w),
                                          ![w].committed = @ \cup (new \cap OpenRows(w))]
    BY <1>4 DEF ApplyChunk
  <2>2. OpenRows(w) \in SUBSET Row
    BY ChunkDone DEF OpenRows
  <2>3. slice' \in [Worker -> Slice]
    BY <1>0, <2>1, <2>2, ChunkDone DEF ImportTypeOK, Slice
  <2>4. QED
    BY <1>4, <2>3 DEF ApplyChunk, ImportTypeOK, batchVars
<1>5. CASE ChunkRefused(w) \/ FinishCancelled(w) \/ SliceFails(w)
  BY <1>5, MovedType DEF ChunkRefused, FinishCancelled, SliceFails, ImportTypeOK, batchVars
<1>6. CASE SliceGoesOn(w)
  BY <1>0, <1>6, MovedType DEF SliceGoesOn, ImportTypeOK, Slice
<1>7. CASE SliceYields(w)
  BY <1>7, MovedType, KindType, PhaseType DEF SliceYields, ImportTypeOK, batchVars
<1>8. CASE FinishValidation(w)
  BY <1>8, MovedType DEF FinishValidation, ImportTypeOK, Verdict, BatchStatus
<1>9. CASE FinishCommit(w)
  <2>1. slice' \in [Worker -> Slice]
    BY <1>9, MovedType DEF FinishCommit
  <2>2. /\ target' \in [Row -> Record] /\ results' \in SUBSET Row
        /\ times' \in [Row -> Nat] /\ report' \in Report
    <3>1. CASE ~Atomic(w)
      BY <1>9, <3>1 DEF FinishCommit, ImportTypeOK
    <3>2. CASE Atomic(w)
      <4>1. PICK new : /\ new = slice[w].committed \ results
                       /\ target' = Applied(target, new)
                       /\ results' = results \cup new
                       /\ times' = [r \in Row |-> times[r] + (IF r \in new THEN 1 ELSE 0)]
                       /\ report' = [report EXCEPT !.committed = slice[w].committed]
        BY <1>9, <3>2 DEF FinishCommit
      <4>2. target' \in [Row -> Record] /\ times' \in [Row -> Nat]
        BY <4>1, AppliedRecords, TimesType DEF ImportTypeOK
      <4>3. QED
        BY <1>0, <4>1, <4>2 DEF Slice, Report, ImportTypeOK
    <3>3. QED
      BY <3>1, <3>2
  <2>3. QED
    BY <1>9, <2>1, <2>2 DEF FinishCommit, ImportTypeOK, BatchStatus
<1>10. CASE SliceEnds(w) \/ TerminalLost(w) \/ SliceCrash(w)
  BY <1>0, <1>10 DEF SliceEnds, TerminalLost, SliceCrash, ImportTypeOK, batchVars
<1>11. CASE SliceTransient(w)
  BY <1>0, <1>11, MovedType DEF SliceTransient, ImportTypeOK, batchVars
<1>12. CASE Terminal(w)
  <2>1. slice' \in [Worker -> Slice]
    BY <1>0, <1>12 DEF Terminal
  <2>2. plan' \in [Row -> Plan] /\ status' \in BatchStatus
    BY <1>12, PlanTypes DEF Terminal, ImportTypeOK, BatchStatus
  <2>3. report' \in Report
    BY <1>12 DEF Terminal, ImportTypeOK, Report
  <2>4. QED
    BY <1>12, <2>1, <2>2, <2>3 DEF Terminal, ImportTypeOK
<1>13. QED
  BY <1>1, <1>2, <1>3, <1>4, <1>5, <1>6, <1>7, <1>8, <1>9, <1>10, <1>11, <1>12 DEF SliceMove, SliceStep

-----------------------------------------------------------------------------
(* Who runs what.  A tick keeps its job, and the job its phase, for as long  *)
(* as it has it claimed; a step of one tick leaves the slices of the others. *)

LEMMA JobKept ==
    ASSUME TypeOK, [Next]_vars, NEW w \in Worker, stage[w] = "claimed", stage'[w] = "claimed"
    PROVE  job'[w] = job[w]
<1>1. ASSUME NEW v \in Worker, Complete(v) \/ Retry(v) \/ Dead(v) PROVE job'[w] = job[w]
  <2>1. v # w /\ \E to : Finish(v, to)
    BY <1>1 DEF Complete, Retry, Dead
  <2>2. QED
    BY <2>1 DEF Finish, TypeOK
<1>2. ASSUME NEW v \in Worker, NEW j \in Job, Claim(v, j) PROVE job'[w] = job[w]
  BY <1>2 DEF Claim, TypeOK
<1>3. ASSUME NEW v \in Worker, Crash(v) PROVE job'[w] = job[w]
  BY <1>3 DEF Crash, TypeOK
<1>4. ASSUME NEW v \in Worker,
             HandlerReturns(v) \/ HandlerTransient(v) \/ HandlerFails(v) \/ CompleteFails(v)
      PROVE  job'[w] = job[w]
  BY <1>4 DEF HandlerReturns, HandlerTransient, HandlerFails, CompleteFails
<1>5. ASSUME NEW j \in Job, (\E now \in BOOLEAN : Enqueue(j, now)) \/ BecomesDue(j)
      PROVE  job'[w] = job[w]
  BY <1>5 DEF Enqueue, BecomesDue
<1>6. CASE UNCHANGED vars
  BY <1>6 DEF vars
<1>7. QED
  BY <1>1, <1>2, <1>3, <1>4, <1>5, <1>6 DEF Next, Step

LEMMA KindKept ==
    ASSUME ImportTypeOK, [ImportNext]_allVars, NEW j \in Job, state[j] # "absent"
    PROVE  kind'[j] = kind[j]
<1>1. ASSUME NEW k, EnqueueSlice(k) PROVE kind'[j] = kind[j]
  <2>1. PICK i \in Job : Enqueue(i, TRUE) /\ kind' = [kind EXCEPT ![i] = k]
    BY <1>1, EnqueueTakes
  <2>2. i # j
    BY <2>1 DEF Enqueue
  <2>3. QED
    BY <2>1, <2>2 DEF ImportTypeOK
<1>2. CASE Command
  BY <1>1, <1>2, CommandQueues
<1>3. CASE QueueStep
  BY <1>3 DEF QueueStep, importVars
<1>4. ASSUME NEW w \in Worker, SliceMove(w) PROVE kind'[j] = kind[j]
  BY <1>1, <1>4, SliceQueues
<1>5. CASE UNCHANGED allVars
  BY <1>5 DEF allVars, importVars
<1>6. QED
  BY <1>2, <1>3, <1>4, <1>5, NextSplits

LEMMA PhaseKept ==
    ASSUME TypeOK, OneRunner, ImportTypeOK, [ImportNext]_allVars,
           NEW w \in Worker, stage[w] = "claimed", stage'[w] = "claimed"
    PROVE  Phase(w)' = Phase(w)
<1>1. job'[w] = job[w]
  BY QueueStepped, JobKept
<1>2. job[w] \in Job /\ state[job[w]] = "running"
  BY DEF OneRunner
<1>3. kind'[job[w]] = kind[job[w]]
  BY <1>2, KindKept
<1>4. QED
  BY <1>1, <1>3 DEF Phase

\* Steps of one tick move its own slice only, and those of others none.
LEMMA SliceMoves ==
    ASSUME ImportTypeOK, NEW w \in Worker, SliceMove(w)
    PROVE  \A v \in Worker : v # w => slice'[v] = slice[v]
<1>1. \E s : slice' = [slice EXCEPT ![w] = s]
  <2>1. ASSUME NEW at, Goto(w, at) PROVE \E s : slice' = [slice EXCEPT ![w] = s]
    BY <2>1 DEF Goto
  <2>2. CASE SliceBegin(w)
    <3>1. CASE status # Phase(w)
      BY <2>1, <2>2, <3>1 DEF SliceBegin
    <3>2. CASE status = Phase(w)
      BY <2>2, <3>2 DEF SliceBegin
    <3>3. QED
      BY <3>1, <3>2
  <2>3. CASE ValidateChunk(w)
    BY <2>3 DEF ValidateChunk
  <2>4. CASE CommitChunk(w)
    BY <2>4, CommitChunkCommits DEF ChunkCommitted
  <2>5. CASE ApplyChunk(w)
    BY <2>5 DEF ApplyChunk
  <2>6. CASE ChunkRefused(w) \/ FinishCancelled(w) \/ SliceFails(w) \/ SliceGoesOn(w)
             \/ SliceYields(w) \/ FinishValidation(w) \/ FinishCommit(w)
    BY <2>1, <2>6 DEF ChunkRefused, FinishCancelled, SliceFails, SliceGoesOn, SliceYields,
                      FinishValidation, FinishCommit
  <2>7. CASE SliceEnds(w) \/ TerminalLost(w) \/ SliceCrash(w) \/ Terminal(w)
    BY <2>7 DEF SliceEnds, TerminalLost, SliceCrash, Terminal
  <2>8. CASE SliceTransient(w)
    BY <2>1, <2>8 DEF SliceTransient
  <2>9. QED
    BY <2>2, <2>3, <2>4, <2>5, <2>6, <2>7, <2>8 DEF SliceMove, SliceStep
<1>2. QED
  BY <1>1 DEF ImportTypeOK

\* Where a step takes a slice: it is left, or its tick still has its job.
LEMMA SliceGoes ==
    ASSUME TypeOK, ImportTypeOK, SlicesOwned, NEW w \in Worker, SliceMove(w)
    PROVE  /\ slice'[w].at # "none" => stage[w] = "claimed" /\ stage' = stage
           /\ slice'[w].at \in Held => slice[w].at \in Held \/ SliceFree
           /\ \A v \in Worker : v # w => stage'[v] = stage[v]
<1> USE DEF Held
<1>1. ASSUME NEW at, Goto(w, at) PROVE slice'[w].at = at
  BY <1>1 DEF Goto, ImportTypeOK, Slice
<1>2. slice[w].at # "none" => stage[w] = "claimed"
  BY DEF SlicesOwned
<1>3. slice' = [slice EXCEPT ![w] = NoSlice] => slice'[w].at = "none"
  BY DEF ImportTypeOK, NoSlice
<1>4. CASE SliceBegin(w)
  <2>1. stage[w] = "claimed" /\ stage' = stage /\ SliceFree
    BY <1>4 DEF SliceBegin, vars
  <2>2. QED
    BY <2>1
<1>5. CASE ValidateChunk(w) \/ CommitChunk(w) \/ ApplyChunk(w) \/ ChunkRefused(w)
           \/ SliceGoesOn(w) \/ FinishCancelled(w) \/ FinishValidation(w) \/ FinishCommit(w)
           \/ SliceFails(w)
  <2>1. slice[w].at \in Held /\ UNCHANGED vars
    BY <1>5 DEF ValidateChunk, CommitChunk, ApplyChunk, ChunkRefused, SliceGoesOn,
                FinishCancelled, FinishValidation, FinishCommit, SliceFails
  <2>2. QED
    BY <1>2, <2>1 DEF vars
<1>6. CASE SliceYields(w)
  <2>1. slice[w].at = "after" /\ EnqueueSlice(Phase(w))
    BY <1>6 DEF SliceYields
  <2>2. stage' = stage
    BY <2>1, EnqueueTakes DEF Enqueue
  <2>3. QED
    BY <1>2, <2>1, <2>2
<1>7. CASE SliceEnds(w) \/ TerminalLost(w) \/ SliceCrash(w) \/ Terminal(w)
  <2>1. slice' = [slice EXCEPT ![w] = NoSlice]
    BY <1>7 DEF SliceEnds, TerminalLost, SliceCrash, Terminal
  <2>2. HandlerReturns(w) \/ HandlerFails(w) \/ Crash(w)
    BY <1>7 DEF SliceEnds, TerminalLost, SliceCrash, Terminal
  <2>3. \A v \in Worker : v # w => stage'[v] = stage[v]
    BY <2>2 DEF HandlerReturns, HandlerFails, Crash, TypeOK
  <2>4. QED
    BY <1>3, <2>1, <2>3
<1>8. CASE SliceTransient(w)
  <2>1. CASE Goto(w, "failing") /\ UNCHANGED vars
    BY <1>1, <1>8, <2>1 DEF SliceTransient, vars
  <2>2. CASE HandlerTransient(w) /\ slice' = [slice EXCEPT ![w] = NoSlice]
    <3>1. \A v \in Worker : v # w => stage'[v] = stage[v]
      BY <2>2 DEF HandlerTransient, TypeOK
    <3>2. QED
      BY <1>3, <2>2, <3>1
  <2>3. QED
    BY <1>8, <2>1, <2>2 DEF SliceTransient
<1>9. QED
  BY <1>4, <1>5, <1>6, <1>7, <1>8 DEF SliceMove, SliceStep

\* The queue's own steps are taken by ticks that run no slice.
LEMMA QueueStepKeepsSlices ==
    ASSUME TypeOK, SlicesOwned, QueueStep
    PROVE  /\ UNCHANGED importVars
           /\ \A w \in Worker : stage[w] = "claimed" => stage'[w] = "claimed"
<1>1. UNCHANGED importVars
  BY DEF QueueStep
<1>2. ASSUME NEW w \in Worker, stage[w] = "claimed" PROVE stage'[w] = "claimed"
  <2>1. ASSUME NEW v \in Worker, Complete(v) \/ Retry(v) \/ Dead(v) PROVE stage'[w] = "claimed"
    <3>1. stage[v] # "claimed" /\ stage' = [stage EXCEPT ![v] = "idle"]
      BY <2>1 DEF Complete, Retry, Dead, Finish
    <3>2. QED
      BY <1>2, <3>1 DEF TypeOK
  <2>2. ASSUME NEW v \in Worker, NEW j \in Job, Claim(v, j) PROVE stage'[w] = "claimed"
    BY <1>2, <2>2 DEF Claim, TypeOK
  <2>3. ASSUME NEW v \in Worker, CompleteFails(v) PROVE stage'[w] = "claimed"
    BY <1>2, <2>3 DEF CompleteFails, TypeOK
  <2>4. CASE \E j \in Job : BecomesDue(j)
    BY <1>2, <2>4 DEF BecomesDue
  <2>5. QED
    BY <2>1, <2>2, <2>3, <2>4 DEF QueueStep
<1>3. QED
  BY <1>1, <1>2

\* Commands of the API run beside the ticks.
LEMMA CommandKeepsSlices ==
    ASSUME Command
    PROVE  slice' = slice /\ stage' = stage
<1>1. slice' = slice
  BY DEF Command, Upload, SaveMapping, ValidateNow, ValidateLater, CommitNow, CommitLater,
         CommitRollsBack, RecordRollback, Cancel, Edit
<1>2. stage' = stage
  BY CommandQueues, EnqueueTakes DEF vars, Enqueue
<1>3. QED
  BY <1>1, <1>2

LEMMA OwnedStep ==
    TypeOK /\ ImportTypeOK /\ SlicesOwned /\ [ImportNext]_allVars => SlicesOwned'
<1> SUFFICES ASSUME TypeOK, ImportTypeOK, SlicesOwned, [ImportNext]_allVars PROVE SlicesOwned'
  OBVIOUS
<1>1. CASE Command
  BY <1>1, CommandKeepsSlices DEF SlicesOwned
<1>2. CASE QueueStep
  BY <1>2, QueueStepKeepsSlices DEF SlicesOwned, importVars
<1>3. ASSUME NEW w \in Worker, SliceMove(w) PROVE SlicesOwned'
  <2>1. \A v \in Worker : v # w => slice'[v] = slice[v] /\ stage'[v] = stage[v]
    BY <1>3, SliceMoves, SliceGoes
  <2>2. slice'[w].at # "none" => stage'[w] = "claimed"
    BY <1>3, SliceGoes
  <2>3. slice'[w].at \in Held => slice[w].at \in Held \/ \A v \in Worker : slice[v].at \notin Held
    BY <1>3, SliceGoes DEF SliceFree
  <2>4. QED
    BY <2>1, <2>2, <2>3 DEF SlicesOwned
<1>4. CASE UNCHANGED allVars
  BY <1>4 DEF allVars, vars, importVars, SlicesOwned
<1>5. QED
  BY <1>1, <1>2, <1>3, <1>4, NextSplits

-----------------------------------------------------------------------------
(* The batch.  Everything a command or a slice has to preserve, apart from   *)
(* the types and the lock.                                                   *)

BatchInv == BatchOK /\ CancelOK /\ SlicesOK /\ RowsAppliedOnce

Typed == TypeOK /\ OneRunner /\ ImportTypeOK /\ SlicesOwned

LEMMA BatchInit == ImportInit => SlicesOwned /\ BatchInv
<1> SUFFICES ASSUME ImportInit PROVE SlicesOwned /\ BatchInv
  OBVIOUS
<1> USE DEF ImportInit
<1>1. \A w \in Worker : slice[w].at = "none"
  BY DEF NoSlice
<1>2. SlicesOwned /\ CancelOK /\ SlicesOK
  BY <1>1 DEF SlicesOwned, CancelOK, SlicesOK, Held, AtWork
<1>3. BatchOK
  BY DEF BatchOK, NoReport, Before
<1>4. RowsAppliedOnce
  BY DEF RowsAppliedOnce
<1>5. QED
  BY <1>2, <1>3, <1>4 DEF BatchInv

\* Before a phase, and between the two, no slice is at work and none has been cancelled.
LEMMA QuietBefore ==
    ASSUME BatchInv, status \in Before
    PROVE  ~cancel /\ \A w \in Worker : slice[w].at \notin AtWork \cup {"cancelled"}
<1>1. ~cancel
  BY DEF BatchInv, CancelOK, Before
<1>2. ASSUME NEW w \in Worker PROVE slice[w].at \notin AtWork
  BY DEF BatchInv, SlicesOK, SliceOK
<1>3. ASSUME NEW w \in Worker PROVE slice[w].at # "cancelled"
  BY <1>1 DEF BatchInv, CancelOK
<1>4. QED
  BY <1>1, <1>2, <1>3

\* So a command that finds the batch there has only the batch row to answer for.
LEMMA QuietCommand ==
    ASSUME BatchInv, status \in Before, slice' = slice, cancel' => cancel,
           status' # "cancelled"
    PROVE  CancelOK' /\ SlicesOK'
<1>1. ~cancel' /\ \A w \in Worker : slice'[w].at \notin AtWork \cup {"cancelled"}
  BY QuietBefore
<1>2. CancelOK'
  BY <1>1 DEF CancelOK, AtWork
<1>3. SlicesOK'
  BY <1>1 DEF SlicesOK
<1>4. QED
  BY <1>2, <1>3

LEMMA BeforeCommit ==
    ASSUME BatchInv, status \in Before \cup {"validating"}
    PROVE  report.mode = "none" /\ results = {} /\ report.committed = {}
  BY DEF BatchInv, BatchOK

LEMMA UploadKeeps ==
    ASSUME Typed, BatchInv, NEW m, Upload(m) \/ SaveMapping(m)
    PROVE  BatchInv'
<1>1. /\ status \in Before /\ status' = "uploaded"
      /\ UNCHANGED <<cancel, done, report, plan, results, slice, times>>
  BY DEF Upload, SaveMapping, Before
<1>2. CancelOK' /\ SlicesOK'
  BY <1>1, QuietCommand
<1>3. BatchOK'
  BY <1>1, BeforeCommit DEF BatchInv, BatchOK
<1>4. RowsAppliedOnce'
  BY <1>1 DEF BatchInv, RowsAppliedOnce
<1>5. QED
  BY <1>2, <1>3, <1>4 DEF BatchInv

LEMMA ValidateKeeps ==
    ASSUME Typed, BatchInv, ValidateNow \/ ValidateLater
    PROVE  BatchInv'
<1>1. /\ status \in Before /\ status' \in {"validated", "failed_validation", "validating"}
      /\ cancel' => cancel
      /\ UNCHANGED <<report, results, slice, times>>
  BY DEF ValidateNow, ValidateLater, Editable, Before, Verdict
<1>2. CancelOK' /\ SlicesOK'
  BY <1>1, QuietCommand
<1>3. RowsAppliedOnce'
  BY <1>1 DEF BatchInv, RowsAppliedOnce
<1>4. CASE ValidateNow
  <2>1. PICK P \in [Row -> Planned] : plan' = StorePlanned(P, Row)
    BY <1>4, PlanRowsPlans DEF ValidateNow, Typed, ImportTypeOK
  <2>2. \A r \in Row : plan'[r].action \in Action
    BY <2>1 DEF StorePlanned, Planned
  <2>3. status' = "validated" => \A r \in Row : plan'[r].action # "error"
    BY <1>4 DEF ValidateNow, Verdict
  <2>4. status' # "validating"
    BY <1>4 DEF ValidateNow, Verdict
  <2>5. BatchOK'
    BY <1>1, <2>2, <2>3, <2>4, BeforeCommit DEF BatchOK, Before, Action
  <2>6. QED
    BY <1>2, <1>3, <2>5 DEF BatchInv
<1>5. CASE ValidateLater
  <2>1. status' = "validating" /\ done' = 0
    BY <1>5 DEF ValidateLater
  <2>2. \A r \in Row : ~(r <= 0)
    BY ImportsAssumption DEF Row
  <2>3. BatchOK'
    BY <1>1, <2>1, <2>2, BeforeCommit DEF BatchOK
  <2>4. QED
    BY <1>2, <1>3, <2>3 DEF BatchInv
<1>6. QED
  BY <1>4, <1>5

LEMMA CommitNowKeeps ==
    ASSUME Typed, BatchInv, NEW mode \in {"atomic", "partial"}, CommitNow(mode)
    PROVE  BatchInv'
<1>1. PICK P \in [Row -> Planned] : P = PlanRows(target, 0, {})
  BY PlanRowsPlans DEF Typed, ImportTypeOK
<1>2. PICK ok \in Outcomes(target, Writes(P)) :
          /\ mode = "atomic" => ok = Writes(P)
          /\ results' = results \cup ok
          /\ times' = [r \in Row |-> times[r] + (IF r \in ok THEN 1 ELSE 0)]
          /\ plan' = Persisted(plan, Writes(P) \ ok)
          /\ report' = [mode |-> mode, committed |-> ok,
                        skipped |-> {r \in Row : P[r].action = "error"} \cup (Writes(P) \ ok)]
  BY <1>1 DEF CommitNow
<1>3. \A r \in Row : plan[r] = P[r] /\ plan[r].action \in Action
  BY <1>1 DEF CommitNow, Stale, Planned
<1>4. ok \subseteq Writes(P) /\ Writes(P) \subseteq Row
  BY OutcomesWithin DEF Writes
<1>5. /\ status \in {"validated", "failed_validation"}
      /\ mode = "atomic" => status = "validated"
      /\ status' = "committed" /\ UNCHANGED <<cancel, done, slice>>
  BY DEF CommitNow, Committable
<1>6. CancelOK' /\ SlicesOK'
  BY <1>5, QuietCommand DEF Before
<1>7. results = {} /\ results' = ok /\ report'.committed = ok /\ report'.mode = mode
  BY <1>2, <1>5, BeforeCommit DEF Before
<1>8. report'.skipped = {r \in Row : P[r].action = "error"} \cup (Writes(P) \ ok)
  BY <1>2
<1>9. \A r \in Row : plan'[r] = IF r \in Writes(P) \ ok THEN Refused ELSE plan[r]
  BY <1>2 DEF Persisted
<1>10. RowsAppliedOnce'
  <2>1. \A r \in Row : times[r] = 0
    BY <1>7 DEF BatchInv, RowsAppliedOnce
  <2>2. \A r \in Row : times'[r] = IF r \in results' THEN 1 ELSE 0
    BY <1>2, <1>7, <2>1
  <2>3. ASSUME NEW r \in Row, r \notin results', r \notin report'.skipped
        PROVE  plan'[r].action = "skip"
    BY <1>3, <1>7, <1>8, <1>9, <2>3 DEF Writes, Action
  <2>4. QED
    BY <1>7, <2>2, <2>3 DEF RowsAppliedOnce
<1>11. BatchOK'
  <2>1. \A r \in Row : plan'[r].action # "none"
    BY <1>3, <1>9 DEF Refused, Action
  <2>2. ASSUME mode = "atomic"
        PROVE  report'.skipped = {} /\ \A r \in Row : plan'[r].action # "error"
    <3>1. ok = Writes(P) /\ \A r \in Row : plan[r].action # "error"
      BY <1>2, <1>5, <2>2 DEF BatchInv, BatchOK
    <3>2. QED
      BY <1>3, <1>8, <1>9, <3>1
  <2>3. QED
    BY <1>5, <1>7, <2>1, <2>2 DEF BatchOK, Before
<1>12. QED
  BY <1>6, <1>10, <1>11 DEF BatchInv

LEMMA CommitLaterKeeps ==
    ASSUME Typed, BatchInv, NEW mode \in {"atomic", "partial"}, CommitLater(mode)
    PROVE  BatchInv'
<1>1. /\ status \in {"validated", "failed_validation"}
      /\ mode = "atomic" => status = "validated"
      /\ status' = "committing" /\ ~cancel' /\ done' = 0
      /\ UNCHANGED <<plan, results, slice, times>>
  BY DEF CommitLater, Committable
<1>2. report' = [mode |-> mode, committed |-> {}, skipped |-> {}]
  BY DEF CommitLater, NoReport
<1>3. results = {} /\ \A r \in Row : ~(r <= 0)
  BY <1>1, BeforeCommit, ImportsAssumption DEF Before, Row
<1>4. CancelOK' /\ SlicesOK'
  BY <1>1, QuietCommand DEF Before
<1>5. \A r \in Row : plan[r].action # "none" /\ (mode = "atomic" => plan[r].action # "error")
  BY <1>1 DEF BatchInv, BatchOK
<1>6. BatchOK'
  BY <1>1, <1>2, <1>3, <1>5 DEF BatchOK, Before
<1>7. RowsAppliedOnce'
  BY <1>1 DEF BatchInv, RowsAppliedOnce
<1>8. QED
  BY <1>4, <1>6, <1>7 DEF BatchInv

\* The rest of the commands: a late failure, the flag, and other users' edits.
LEMMA OtherCommandKeeps ==
    ASSUME Typed, BatchInv,
           \A w \in Worker : slice[w].at \in AtWork => Phase(w)' = Phase(w),
           \/ CommitRollsBack \/ RecordRollback \/ Cancel
           \/ \E r \in Contended, same \in BOOLEAN : Edit(r, same)
    PROVE  BatchInv'
<1>1. CASE CommitRollsBack
  <2>1. UNCHANGED <<batchVars, target, slice, times>>
    BY <1>1 DEF CommitRollsBack
  <2>2. QED
    BY <2>1 DEF batchVars, BatchInv, BatchOK, CancelOK, SlicesOK, RowsAppliedOnce
<1>2. CASE RecordRollback
  <2>1. status' = "failed" /\ UNCHANGED <<cancel, done, report, plan, results, target, slice, times>>
    BY <1>2 DEF RecordRollback
  <2>2. BatchOK' /\ CancelOK' /\ RowsAppliedOnce'
    BY <2>1 DEF BatchInv, BatchOK, CancelOK, RowsAppliedOnce, Before
  <2>3. SlicesOK'
    BY <2>1 DEF BatchInv, SlicesOK, SliceOK, Before
  <2>4. QED
    BY <2>2, <2>3 DEF BatchInv
<1>3. CASE Cancel
  <2>1. /\ status \in {"validating", "committing"} /\ cancel' = TRUE
        /\ UNCHANGED <<status, done, report, plan, results, target, slice, times>>
    BY <1>3 DEF Cancel
  <2>2. BatchOK' /\ CancelOK' /\ RowsAppliedOnce'
    BY <2>1 DEF BatchInv, BatchOK, CancelOK, RowsAppliedOnce
  <2>3. SlicesOK'
    BY <2>1 DEF BatchInv, SlicesOK, SliceOK
  <2>4. QED
    BY <2>2, <2>3 DEF BatchInv
<1>4. ASSUME NEW r \in Contended, NEW same \in BOOLEAN, Edit(r, same) PROVE BatchInv'
  <2>1. UNCHANGED <<status, cancel, done, report, plan, results, slice, times>>
    BY <1>4 DEF Edit, batchVars
  <2>2. BatchOK' /\ CancelOK' /\ RowsAppliedOnce'
    BY <2>1 DEF BatchInv, BatchOK, CancelOK, RowsAppliedOnce
  <2>3. ASSUME NEW w \in Worker, slice[w].at \in AtWork
        PROVE  SliceOK(slice[w], Phase(w), status, cancel, report, plan, results, target')
    <3>1. SliceOK(slice[w], Phase(w), status, cancel, report, plan, results, target)
      BY <2>3 DEF BatchInv, SlicesOK
    <3>2. report.mode = "atomic" => r \notin slice[w].committed
      <4>1. report.mode = "atomic" => Atomic(w)
        BY <3>1 DEF SliceOK, Atomic
      <4>2. QED
        BY <1>4, <2>3, <4>1 DEF Edit, AtWork, Held
    <3>3. \A s \in Row : s # r => target'[s] = target[s]
      BY <1>4 DEF Edit, Typed, ImportTypeOK
    <3>4. slice[w].committed \in SUBSET Row
      BY DEF Typed, ImportTypeOK, Slice
    <3>5. QED
      BY <3>1, <3>2, <3>3, <3>4 DEF SliceOK
  <2>4. SlicesOK'
    BY <2>1, <2>3 DEF SlicesOK
  <2>5. QED
    BY <2>2, <2>4 DEF BatchInv
<1>5. QED
  BY <1>1, <1>2, <1>3, <1>4

-----------------------------------------------------------------------------
(* The slices.  SliceOKNow(w) is what SlicesOK says of the slice in w.       *)

SliceOKNow(w) == SliceOK(slice[w], Phase(w), status, cancel, report, plan, results, target)

PhasesKept == \A w \in Worker : slice[w].at # "none" /\ slice'[w].at # "none" =>
                                   Phase(w)' = Phase(w)

\* While a slice holds the lock no other is at work, before or after its step.
LEMMA Alone ==
    ASSUME Typed, NEW w \in Worker, SliceMove(w), slice[w].at \in Held
    PROVE  \A v \in Worker : v # w => slice[v].at \notin Held /\ slice'[v] = slice[v]
  BY SliceMoves DEF Typed, SlicesOwned

\* A step of a slice that holds the lock: the others do not depend on the batch row.
LEMMA HeldStep ==
    ASSUME Typed, BatchInv, NEW w \in Worker, SliceMove(w), slice[w].at \in Held,
           slice'[w].at \in AtWork => SliceOKNow(w)',
           slice'[w].at = "cancelled" => cancel,
           slice'[w].at \in {"chunk", "after"} => slice[w].at \in {"chunk", "after"},
           cancel' = cancel,
           status' = status \/ (~cancel /\ status' # "cancelled")
    PROVE  CancelOK' /\ SlicesOK'
<1>1. \A v \in Worker : v # w => slice[v].at \notin Held /\ slice'[v] = slice[v]
  BY Alone
<1>2. SlicesOK'
  BY <1>1 DEF SlicesOK, SliceOKNow, AtWork, Held
<1>3. CancelOK'
  <2>1. (cancel => status \in {"validating", "committing", "cancelled", "failed"})'
    BY DEF BatchInv, CancelOK
  <2>2. (status = "cancelled" => cancel)'
    BY DEF BatchInv, CancelOK
  <2>3. \A v \in Worker : slice'[v].at = "cancelled" => cancel'
    BY <1>1 DEF BatchInv, CancelOK
  <2>4. ASSUME NEW u \in Worker, slice'[u].at \in {"chunk", "after"}
        PROVE  status' # "cancelled" /\ \A v \in Worker : slice'[v].at # "cancelled"
    <3>1. u = w /\ slice[w].at \in {"chunk", "after"}
      BY <1>1, <2>4 DEF Held
    <3>2. status # "cancelled" /\ \A v \in Worker : slice[v].at # "cancelled"
      BY <3>1 DEF BatchInv, CancelOK
    <3>3. QED
      BY <1>1, <2>4, <3>1, <3>2
  <2>5. QED
    BY <2>1, <2>2, <2>3, <2>4 DEF CancelOK
<1>4. QED
  BY <1>2, <1>3

\* A step that leaves the batch and the records alone: only the slice has to be looked at.
LEMMA QuietStep ==
    ASSUME Typed, BatchInv, PhasesKept, NEW w \in Worker, SliceMove(w),
           UNCHANGED <<batchVars, target, times>>,
           slice'[w].at \in AtWork => SliceOKNow(w)',
           slice'[w].at = "cancelled" => cancel /\ (slice[w].at \in Held \/ SliceFree),
           slice'[w].at \in {"chunk", "after"} =>
              \/ slice[w].at \in {"chunk", "after"}
              \/ ~cancel
    PROVE  BatchInv'
<1>1. UNCHANGED <<status, cancel, done, report, plan, results, target, times>>
  BY DEF batchVars
<1>2. BatchOK' /\ RowsAppliedOnce'
  BY <1>1 DEF BatchInv, BatchOK, RowsAppliedOnce
<1>3. \A v \in Worker : v # w => slice'[v] = slice[v]
  BY SliceMoves DEF Typed
<1>4. SlicesOK'
  <2>1. ASSUME NEW v \in Worker, v # w, slice'[v].at \in AtWork PROVE SliceOKNow(v)'
    <3>1. slice'[v] = slice[v] /\ SliceOKNow(v)
      BY <1>3, <2>1 DEF BatchInv, SlicesOK, SliceOKNow
    <3>2. Phase(v)' = Phase(v)
      BY <2>1, <3>1 DEF PhasesKept, AtWork
    <3>3. QED
      BY <1>1, <3>1, <3>2 DEF SliceOKNow
  <2>2. QED
    BY <2>1 DEF SlicesOK, SliceOKNow
<1>5. CancelOK'
  <2>1. \A v \in Worker : slice'[v].at = "cancelled" => cancel'
    BY <1>1, <1>3 DEF BatchInv, CancelOK
  <2>2. ASSUME NEW u \in Worker, slice'[u].at \in {"chunk", "after"}
        PROVE  status' # "cancelled" /\ \A v \in Worker : slice'[v].at # "cancelled"
    <3>1. slice[u].at \in {"chunk", "after"} \/ ~cancel
      BY <1>3, <2>2
    <3>2. status # "cancelled" /\ \A v \in Worker : slice[v].at # "cancelled"
      BY <3>1 DEF BatchInv, CancelOK
    <3>3. slice'[w].at # "cancelled"
      <4>1. CASE u = w
        BY <2>2, <4>1
      <4>2. CASE u # w
        <5>1. slice[u].at \in {"chunk", "after"}
          BY <1>3, <2>2, <4>2
        <5>2. slice[w].at \notin Held /\ ~SliceFree
          BY <4>2, <5>1 DEF Typed, SlicesOwned, SliceFree, Held
        <5>3. QED
          BY <5>2
      <4>3. QED
        BY <4>1, <4>2
    <3>4. QED
      BY <1>1, <1>3, <3>2, <3>3
  <2>3. QED
    BY <1>1, <2>1, <2>2 DEF BatchInv, CancelOK
<1>6. QED
  BY <1>2, <1>4, <1>5 DEF BatchInv

LEMMA BeginKeeps ==
    ASSUME Typed, BatchInv, PhasesKept, NEW w \in Worker, SliceBegin(w)
    PROVE  BatchInv'
<1>1. /\ UNCHANGED <<vars, batchVars, target, times, kind>> /\ SliceMove(w) /\ SliceFree
      /\ stage[w] = "claimed"
  BY DEF SliceBegin, SliceMove, SliceStep
<1>2. CASE status # Phase(w)
  <2>1. slice'[w].at = "ending"
    BY <1>2 DEF SliceBegin, Goto, Typed, ImportTypeOK, Slice
  <2>2. QED
    BY <1>1, <2>1, QuietStep DEF AtWork
<1>3. CASE status = Phase(w)
  <2>1. PICK n : n = StartAt(w)
    OBVIOUS
  <2>2. slice'[w] = [at |-> IF n >= Rows THEN "finish" ELSE IF cancel THEN "cancelled" ELSE "chunk",
                     done |-> n, committed |-> report.committed, skipped |-> report.skipped]
    BY <1>3, <2>1 DEF SliceBegin, Typed, ImportTypeOK
  <2>3. Phase(w)' = Phase(w)
    BY <1>1 DEF Phase, vars
  <2>4. status \in {"validating", "committing"}
    <3>1. kind[job[w]] \in {"none", "validating", "committing"}
      BY <1>1 DEF Typed, OneRunner, ImportTypeOK
    <3>2. QED
      BY <1>3, <3>1 DEF Phase, Typed, ImportTypeOK, BatchStatus
  <2>5. Phase(w) = IF report.mode = "none" THEN "validating" ELSE "committing"
    BY <1>3, <2>4 DEF BatchInv, BatchOK
  <2>6. n = (IF report.mode = "atomic" THEN 0 ELSE done) /\ n \in Nat /\ Rows \in Nat
    BY <2>1, <2>5, ImportsAssumption DEF StartAt, Atomic, Typed, ImportTypeOK
  <2>7. SliceOK(slice'[w], Phase(w), status, cancel, report, plan, results, target)
    <3>1. /\ status \notin Before \cup {"committed"}
          /\ slice'[w].at = "chunk" => slice'[w].done < Rows
          /\ slice'[w].at = "finish" => slice'[w].done >= Rows
      BY <2>2, <2>4, <2>6 DEF Before
    <3>2. ASSUME report.mode = "none", NEW r \in Row, r <= slice'[w].done
          PROVE  plan[r].action # "none"
      BY <1>3, <2>2, <2>5, <2>6, <3>2 DEF BatchInv, BatchOK
    <3>3. ASSUME report.mode = "partial"
          PROVE  /\ slice'[w].committed = results /\ slice'[w].skipped = report.skipped
                 /\ \A r \in Row : r <= slice'[w].done => Accounted(r, results, report, plan)
      BY <1>3, <2>2, <2>5, <2>6, <3>3 DEF BatchInv, BatchOK
    <3>4. ASSUME report.mode = "atomic"
          PROVE  /\ results = {} /\ slice'[w].skipped = {} /\ slice'[w].committed = {}
                 /\ \A r \in Row : ~(r <= slice'[w].done)
      <4>1. results = {} /\ report.committed = {} /\ report.skipped = {}
        BY <2>4, <3>4 DEF BatchInv, BatchOK
      <4>2. QED
        BY <2>2, <2>6, <3>4, <4>1 DEF Row
    <3>5. QED
      BY <2>5, <3>1, <3>2, <3>3, <3>4 DEF SliceOK
  <2>8. SliceOKNow(w)'
    BY <1>1, <2>3, <2>7 DEF SliceOKNow, batchVars
  <2>9. /\ slice'[w].at = "cancelled" => cancel
        /\ slice'[w].at \in {"chunk", "after"} => ~cancel
    BY <2>2
  <2>10. QED
    BY <1>1, <2>8, <2>9, QuietStep
<1>4. QED
  BY <1>2, <1>3

\* The chunk of an atomic commit: its rows are planned against the records as they are.
LEMMA ApplyKeeps ==
    ASSUME Typed, BatchInv, PhasesKept, NEW w \in Worker, ApplyChunk(w)
    PROVE  BatchInv'
<1>1. /\ UNCHANGED <<batchVars, target, times>> /\ SliceMove(w)
      /\ slice[w].at = "chunk" /\ report.mode = "atomic"
  BY DEF ApplyChunk, SliceMove, SliceStep, Atomic
<1>2. SliceOKNow(w) /\ slice[w] \in Slice
  BY <1>1 DEF BatchInv, SlicesOK, SliceOKNow, AtWork, Typed, ImportTypeOK
<1>3. /\ results = {} /\ slice[w].skipped = {} /\ slice[w].done < Rows
      /\ \A r \in slice[w].committed :
            r <= slice[w].done /\ plan[r].action \in {"create", "update"}
                               /\ plan[r].token = target[r].version
      /\ \A r \in Row : r <= slice[w].done => r \in slice[w].committed \/ plan[r].action = "skip"
  BY <1>1, <1>2 DEF SliceOKNow, SliceOK
<1>4. OpenRows(w) = ChunkOf(w) /\ ChunkOf(w) \subseteq Row
  BY <1>3 DEF OpenRows, ChunkOf
<1>5. PICK t \in [Row -> Record] : t = Seen(w)
  BY AppliedRecords DEF Seen, Typed, ImportTypeOK
<1>6. PICK P \in [Row -> Planned] :
          /\ P = PlanRows(t, slice[w].done, {})
          /\ \A r \in Row : P[r].action \in {"create", "update"} => P[r].token = t[r].version
  BY PlanRowsPlans
<1>7. /\ ~Stale(P, ChunkOf(w))
      /\ slice' = [slice EXCEPT ![w].at = "after", ![w].done = DoneAfter(w),
                                ![w].committed = @ \cup (Writes(P) \cap ChunkOf(w))]
  BY <1>4, <1>5, <1>6 DEF ApplyChunk
<1>8. slice'[w] = [slice[w] EXCEPT !.at = "after", !.done = DoneAfter(w),
                                   !.committed = @ \cup (Writes(P) \cap ChunkOf(w))]
  BY <1>7 DEF Typed, ImportTypeOK
<1>9. /\ slice'[w].at = "after" /\ slice'[w].done = DoneAfter(w) /\ slice'[w].skipped = {}
      /\ slice'[w].committed = slice[w].committed \cup (Writes(P) \cap ChunkOf(w))
  BY <1>2, <1>3, <1>8 DEF Slice
<1>10. ASSUME NEW r \in ChunkOf(w)
       PROVE  /\ plan[r].action \in Action \ {"error"}
              /\ plan[r].action \in {"create", "update"} => plan[r].token = target[r].version
              /\ r \in Writes(P) <=> plan[r].action \in {"create", "update"}
              /\ r <= DoneAfter(w)
  <2>1. r \in Row /\ plan[r] = P[r] /\ plan[r].action # "error"
    BY <1>1, <1>4, <1>7 DEF Stale, BatchInv, BatchOK
  <2>2. r \notin slice[w].committed
    BY <1>2, <1>3 DEF ChunkOf, Slice, Row
  <2>3. t[r] = target[r]
    BY <1>5, <2>1, <2>2, AppliedRecords DEF Seen, Typed, ImportTypeOK
  <2>4. r <= DoneAfter(w)
    BY <1>3, <2>1, ChunkDone DEF Typed
  <2>5. QED
    BY <1>6, <2>1, <2>3, <2>4 DEF Planned, Writes
<1>11. SliceOK(slice'[w], Phase(w), status, cancel, report, plan, results, target)
  <2>1. ASSUME NEW r \in Row, r <= DoneAfter(w)
        PROVE  r \in slice'[w].committed \/ plan[r].action = "skip"
    <3>1. r <= slice[w].done \/ r \in ChunkOf(w)
      BY <1>3, <2>1, ChunkDone DEF Typed
    <3>2. QED
      BY <1>3, <1>9, <1>10, <3>1 DEF Action
  <2>2. ASSUME NEW r \in slice'[w].committed
        PROVE  /\ r <= DoneAfter(w) /\ plan[r].action \in {"create", "update"}
               /\ plan[r].token = target[r].version
    <3>1. CASE r \in slice[w].committed
      <4>1. slice[w].done <= DoneAfter(w) /\ r \in Row /\ slice[w].done \in Nat
        BY <1>2, <1>3, <3>1, ChunkDone DEF Slice, Typed
      <4>2. r <= DoneAfter(w)
        BY <1>3, <3>1, <4>1, ChunkDone DEF Row, Typed
      <4>3. QED
        BY <1>3, <3>1, <4>2
    <3>2. CASE r \in Writes(P) \cap ChunkOf(w)
      BY <1>10, <3>2
    <3>3. QED
      BY <1>9, <3>1, <3>2
  <2>3. QED
    BY <1>1, <1>2, <1>3, <1>9, <2>1, <2>2 DEF SliceOKNow, SliceOK
<1>12. SliceOKNow(w)'
  <2>1. Phase(w)' = Phase(w)
    BY <1>1, <1>9 DEF PhasesKept
  <2>2. QED
    BY <1>1, <1>11, <2>1 DEF SliceOKNow, batchVars
<1>13. QED
  BY <1>1, <1>9, <1>12, QuietStep

\* The steps in which a slice stops, or hands over, without writing.
LEMMA StopKeeps ==
    ASSUME Typed, BatchInv, PhasesKept, NEW w \in Worker,
           \/ ChunkRefused(w) \/ FinishCancelled(w) \/ SliceYields(w) \/ SliceEnds(w)
           \/ SliceTransient(w) \/ SliceFails(w) \/ TerminalLost(w) \/ SliceCrash(w)
    PROVE  BatchInv'
<1>1. UNCHANGED <<batchVars, target, times>> /\ SliceMove(w)
  BY DEF ChunkRefused, FinishCancelled, SliceYields, SliceEnds, SliceTransient, SliceFails,
         TerminalLost, SliceCrash, SliceMove, SliceStep
<1>2. ASSUME NEW at, Goto(w, at) PROVE slice'[w].at = at
  BY <1>2 DEF Goto, Typed, ImportTypeOK, Slice
<1>3. slice' = [slice EXCEPT ![w] = NoSlice] => slice'[w].at = "none"
  BY DEF Typed, ImportTypeOK, NoSlice
<1>4. \/ slice'[w].at \in {"none", "ending", "failing"}
      \/ slice'[w].at = "cancelled" /\ slice[w].at = "finish" /\ cancel
  BY <1>2, <1>3 DEF ChunkRefused, FinishCancelled, NotCancelled, SliceYields, SliceEnds,
         SliceTransient, SliceFails, TerminalLost, SliceCrash
<1>5. QED
  BY <1>1, <1>4, QuietStep DEF AtWork, Held

-----------------------------------------------------------------------------
(* The transactions of a slice that write to the batch.                      *)

LEMMA ValidateChunkKeeps ==
    ASSUME Typed, BatchInv, PhasesKept, NEW w \in Worker, ValidateChunk(w)
    PROVE  BatchInv'
<1>1. /\ slice[w].at = "chunk" /\ Phase(w) = "validating" /\ SliceMove(w)
      /\ done' = DoneAfter(w)
      /\ slice' = [slice EXCEPT ![w].at = "after", ![w].done = DoneAfter(w)]
      /\ UNCHANGED <<status, cancel, report, results, target, times>>
  BY DEF ValidateChunk, SliceMove, SliceStep
<1>2. SliceOKNow(w) /\ slice[w] \in Slice
  BY <1>1 DEF BatchInv, SlicesOK, SliceOKNow, AtWork, Typed, ImportTypeOK
<1>3. /\ report.mode = "none" /\ slice[w].done < Rows
      /\ status \notin Before \cup {"committed"}
      /\ \A r \in Row : r <= slice[w].done => plan[r].action # "none"
  BY <1>1, <1>2 DEF SliceOKNow, SliceOK
<1>4. slice'[w].at = "after" /\ slice'[w].done = DoneAfter(w)
  BY <1>1, <1>2 DEF Slice, Typed, ImportTypeOK
<1>5. PICK P \in [Row -> Planned] : plan' = StorePlanned(P, ChunkOf(w))
  BY PlanRowsPlans DEF ValidateChunk, Typed, ImportTypeOK
<1>6. ASSUME NEW r \in Row, r <= DoneAfter(w) PROVE plan'[r].action # "none"
  <2>1. r <= slice[w].done \/ r \in ChunkOf(w)
    BY <1>3, <1>6, ChunkDone DEF Typed
  <2>2. plan'[r] = IF r \in ChunkOf(w) THEN P[r] ELSE plan[r]
    BY <1>5 DEF StorePlanned
  <2>3. QED
    BY <1>3, <2>1, <2>2 DEF Planned, Action
<1>7. BatchOK'
  <2>1. BatchOK
    BY DEF BatchInv
  <2>2. QED
    BY <1>1, <1>3, <1>6, <2>1 DEF BatchOK, Before
<1>8. RowsAppliedOnce'
  BY <1>1, <1>3 DEF BatchInv, RowsAppliedOnce
<1>9. SliceOKNow(w)'
  <2>1. Phase(w)' = "validating"
    BY <1>1, <1>4 DEF PhasesKept
  <2>2. SliceOK(slice'[w], "validating", status, cancel, report, plan', results, target)
    BY <1>3, <1>4, <1>6 DEF SliceOK
  <2>3. QED
    BY <1>1, <2>1, <2>2 DEF SliceOKNow
<1>10. CancelOK' /\ SlicesOK'
  BY <1>1, <1>4, <1>9, HeldStep DEF Held
<1>11. QED
  BY <1>7, <1>8, <1>10 DEF BatchInv

\* Progress is published: the slice knows what it has done.
LEMMA GoesOnKeeps ==
    ASSUME Typed, BatchInv, PhasesKept, NEW w \in Worker, SliceGoesOn(w)
    PROVE  BatchInv'
<1> DEFINE to == IF cancel THEN "cancelled" ELSE IF slice[w].done < Rows THEN "chunk" ELSE "finish"
<1>1. /\ slice[w].at = "after" /\ SliceMove(w)
      /\ done' = slice[w].done
      /\ Goto(w, to)
      /\ UNCHANGED <<status, cancel, report, plan, results, target, times>>
  BY DEF SliceGoesOn, SliceMove, SliceStep
<1>2. SliceOKNow(w) /\ slice[w] \in Slice /\ Rows \in Nat
  BY <1>1, ImportsAssumption DEF BatchInv, SlicesOK, SliceOKNow, AtWork, Typed, ImportTypeOK
<1>3. slice'[w] = [slice[w] EXCEPT !.at = to]
  BY <1>1 DEF Goto, Typed, ImportTypeOK
<1>4. /\ slice'[w].at = to /\ slice'[w].done = slice[w].done
      /\ slice'[w].committed = slice[w].committed /\ slice'[w].skipped = slice[w].skipped
      /\ slice[w].done \in Nat
  BY <1>2, <1>3 DEF Slice
<1>5. BatchOK'
  <2>1. /\ report.mode = "none" => \A r \in Row : r <= done' => plan[r].action # "none"
        /\ report.mode = "partial" =>
              \A r \in Row : r <= done' => Accounted(r, results, report, plan)
    BY <1>1, <1>2 DEF SliceOKNow, SliceOK
  <2>2. BatchOK
    BY DEF BatchInv
  <2>3. QED
    BY <1>1, <2>1, <2>2 DEF BatchOK
<1>6. RowsAppliedOnce'
  BY <1>1 DEF BatchInv, RowsAppliedOnce
<1>7. ASSUME ~cancel PROVE SliceOKNow(w)'
  <2>1. Phase(w)' = Phase(w)
    BY <1>1, <1>4 DEF PhasesKept
  <2>2. /\ slice'[w].at = "chunk" => slice[w].done < Rows
        /\ slice'[w].at = "finish" => slice[w].done >= Rows
    BY <1>2, <1>4
  <2>3. SliceOK(slice'[w], Phase(w), status, cancel, report, plan, results, target)
    BY <1>1, <1>2, <1>4, <1>7, <2>2 DEF SliceOKNow, SliceOK
  <2>4. QED
    BY <1>1, <2>1, <2>3 DEF SliceOKNow
<1>8. /\ slice'[w].at = "cancelled" => cancel
      /\ slice'[w].at \in AtWork => ~cancel
  BY <1>4 DEF AtWork
<1>9. CancelOK' /\ SlicesOK'
  BY <1>1, <1>7, <1>8, HeldStep DEF Held
<1>10. QED
  BY <1>5, <1>6, <1>9 DEF BatchInv

LEMMA FinishValidationKeeps ==
    ASSUME Typed, BatchInv, PhasesKept, NEW w \in Worker, FinishValidation(w)
    PROVE  BatchInv'
<1>1. /\ slice[w].at = "finish" /\ Phase(w) = "validating" /\ ~cancel /\ SliceMove(w)
      /\ status' = Verdict(plan) /\ Goto(w, "ending")
      /\ UNCHANGED <<cancel, done, report, plan, results, target, times>>
  BY DEF FinishValidation, SliceMove, SliceStep, NotCancelled
<1>2. SliceOKNow(w) /\ slice[w].done \in Nat /\ Rows \in Nat
  BY <1>1, ImportsAssumption
  DEF BatchInv, SlicesOK, SliceOKNow, AtWork, Typed, ImportTypeOK, Slice
<1>3. /\ report.mode = "none"
      /\ \A r \in Row : r <= slice[w].done => plan[r].action # "none"
      /\ slice[w].done >= Rows
  BY <1>1, <1>2 DEF SliceOKNow, SliceOK
<1>4. \A r \in Row : plan[r].action # "none"
  BY <1>2, <1>3 DEF Row
<1>5. slice'[w].at = "ending"
  BY <1>1 DEF Goto, Typed, ImportTypeOK, Slice
<1>6. /\ status' \in {"validated", "failed_validation"}
      /\ status' = "validated" => \A r \in Row : plan[r].action # "error"
  BY <1>1 DEF Verdict
<1>7. BatchOK'
  <2>1. results = {} /\ report.committed = results
    BY <1>3 DEF BatchInv, BatchOK
  <2>2. QED
    BY <1>1, <1>3, <1>4, <1>6, <2>1 DEF BatchOK
<1>8. RowsAppliedOnce'
  BY <1>1, <1>6 DEF BatchInv, RowsAppliedOnce
<1>9. CancelOK' /\ SlicesOK'
  BY <1>1, <1>5, <1>6, HeldStep, SMTT(20) DEF Held, AtWork
<1>10. QED
  BY <1>7, <1>8, <1>9 DEF BatchInv

\* Rows of a chunk, their results, the report and the progress are one transaction.
LEMMA CommitChunkKeeps ==
    ASSUME Typed, BatchInv, PhasesKept, NEW w \in Worker, CommitChunk(w)
    PROVE  BatchInv'
<1>1. /\ slice[w].at = "chunk" /\ Phase(w) = "committing" /\ ~Atomic(w) /\ SliceMove(w)
      /\ done' = DoneAfter(w)
      /\ UNCHANGED <<status, cancel>>
  BY DEF CommitChunk, SliceMove, SliceStep
<1>2. SliceOKNow(w) /\ slice[w] \in Slice /\ report \in Report
  BY <1>1 DEF BatchInv, SlicesOK, SliceOKNow, AtWork, Typed, ImportTypeOK
<1>3. report.mode = "partial"
  BY <1>1, <1>2 DEF SliceOKNow, SliceOK, Atomic, Report, Mode
<1>4. /\ slice[w].committed = results /\ slice[w].skipped = report.skipped
      /\ \A r \in Row : r <= slice[w].done => Accounted(r, results, report, plan)
      /\ slice[w].done < Rows
      /\ status \notin Before \cup {"committed"}
  BY <1>1, <1>2, <1>3 DEF SliceOKNow, SliceOK
<1>5. PICK P \in [Row -> Planned] : P = PlanRows(target, slice[w].done, {})
  BY PlanRowsPlans DEF Typed, ImportTypeOK
<1>6. PICK ok, com, skp : ChunkCommitted(w, P, ok, com, skp)
  BY <1>5, CommitChunkCommits
<1>7. PICK todo : todo = Writes(P) \cap OpenRows(w)
  OBVIOUS
<1>8. /\ \A r \in OpenRows(w) : plan[r] = P[r]
      /\ ok \subseteq todo
      /\ com = results \cup ok
      /\ skp = report.skipped \cup (todo \ ok) \cup {r \in OpenRows(w) : P[r].action = "error"}
  BY <1>4, <1>6, <1>7, OutcomesWithin DEF ChunkCommitted, Stale
<1>9. /\ results' = results \cup ok
      /\ times' = [r \in Row |-> times[r] + (IF r \in ok THEN 1 ELSE 0)]
      /\ plan' = Persisted(plan, todo \ ok)
      /\ report' = [report EXCEPT !.committed = com, !.skipped = skp]
      /\ slice' = [slice EXCEPT ![w] =
            [at |-> "after", done |-> DoneAfter(w), committed |-> com, skipped |-> skp]]
  BY <1>6, <1>7 DEF ChunkCommitted
<1>10. /\ report'.mode = "partial" /\ report'.committed = results' /\ report'.skipped = skp
       /\ slice'[w] = [at |-> "after", done |-> DoneAfter(w), committed |-> com, skipped |-> skp]
  BY <1>2, <1>3, <1>8, <1>9 DEF Report, Typed, ImportTypeOK
<1>11. \A r \in Row : plan'[r] = IF r \in todo \ ok THEN Refused ELSE plan[r]
  BY <1>9 DEF Persisted
<1>12. OpenRows(w) = ChunkOf(w) \ (results \cup report.skipped) /\ ChunkOf(w) \subseteq Row
  BY <1>4 DEF OpenRows, ChunkOf
<1>13. ASSUME NEW r \in Row, r <= DoneAfter(w) PROVE Accounted(r, results', report', plan')
  <2>1. r <= slice[w].done \/ r \in ChunkOf(w)
    BY <1>4, <1>13, ChunkDone DEF Typed
  <2>2. plan[r].action = "skip" => r \notin todo
    BY <1>7, <1>8 DEF Writes
  <2>3. CASE Accounted(r, results, report, plan)
    BY <1>8, <1>9, <1>10, <1>11, <2>2, <2>3 DEF Accounted
  <2>4. CASE r \in OpenRows(w)
    <3>1. plan[r] = P[r] /\ P[r].action \in Action
      BY <1>5, <1>8, <2>4 DEF Planned
    <3>2. CASE P[r].action \in {"create", "update"}
      BY <1>7, <1>8, <1>9, <1>10, <2>4, <3>2 DEF Accounted, Writes
    <3>3. CASE P[r].action = "error"
      BY <1>8, <1>10, <2>4, <3>3 DEF Accounted
    <3>4. CASE P[r].action = "skip"
      BY <1>11, <2>2, <3>1, <3>4 DEF Accounted
    <3>5. QED
      BY <3>1, <3>2, <3>3, <3>4 DEF Action
  <2>5. QED
    BY <1>4, <1>12, <2>1, <2>3, <2>4 DEF Accounted
<1>14. \A r \in Row : plan'[r].action # "none"
  <2>1. \A r \in Row : plan[r].action # "none"
    BY <1>3 DEF BatchInv, BatchOK
  <2>2. QED
    BY <1>11, <2>1 DEF Refused
<1>15. BatchOK'
  <2>1. status # "validating"
    BY <1>3 DEF BatchInv, BatchOK
  <2>2. QED
    BY <1>1, <1>4, <1>10, <1>13, <1>14, <2>1 DEF BatchOK, Before
<1>16. RowsAppliedOnce'
  <2>1. \A r \in Row : r \in ok => r \notin results
    BY <1>7, <1>8, <1>12
  <2>2. \A r \in Row : times'[r] = times[r] + (IF r \in ok THEN 1 ELSE 0)
    BY <1>9
  <2>3. \A r \in Row : times[r] = IF r \in results THEN 1 ELSE 0
    BY DEF BatchInv, RowsAppliedOnce
  <2>4. \A r \in Row : times'[r] = IF r \in results' THEN 1 ELSE 0
    BY <1>9, <2>1, <2>2, <2>3
  <2>5. QED
    BY <1>1, <1>4, <2>4 DEF RowsAppliedOnce
<1>17. SliceOKNow(w)'
  <2>1. Phase(w)' = "committing"
    BY <1>1, <1>10 DEF PhasesKept
  <2>2. SliceOK(slice'[w], "committing", status, cancel, report', plan', results', target')
    <3>1. /\ slice'[w].at = "after" /\ slice'[w].done = DoneAfter(w)
          /\ slice'[w].committed = results' /\ slice'[w].skipped = report'.skipped
      BY <1>8, <1>9, <1>10
    <3>2. report'.mode = "partial" /\ status \notin Before \cup {"committed"}
      BY <1>4, <1>10
    <3>3. \A r \in Row : r <= slice'[w].done => Accounted(r, results', report', plan')
      BY <1>13, <3>1
    <3>4. QED
      BY <3>1, <3>2, <3>3 DEF SliceOK
  <2>3. QED
    BY <1>1, <2>1, <2>2 DEF SliceOKNow
<1>18. CancelOK' /\ SlicesOK'
  BY <1>1, <1>10, <1>17, HeldStep DEF Held
<1>19. QED
  BY <1>15, <1>16, <1>18 DEF BatchInv

LEMMA FinishCommitKeeps ==
    ASSUME Typed, BatchInv, PhasesKept, NEW w \in Worker, FinishCommit(w)
    PROVE  BatchInv'
<1>1. /\ slice[w].at = "finish" /\ Phase(w) = "committing" /\ ~cancel /\ SliceMove(w)
      /\ status' = "committed" /\ Goto(w, "ending")
      /\ UNCHANGED <<cancel, done, plan>>
  BY DEF FinishCommit, SliceMove, SliceStep, NotCancelled
<1>2. SliceOKNow(w) /\ slice[w] \in Slice /\ Rows \in Nat /\ report \in Report
  BY <1>1, ImportsAssumption DEF BatchInv, SlicesOK, SliceOKNow, AtWork, Typed, ImportTypeOK
<1>3. report.mode \in {"atomic", "partial"} /\ \A r \in Row : r <= slice[w].done
  BY <1>1, <1>2 DEF SliceOKNow, SliceOK, Report, Mode, Slice, Row
<1>4. \A r \in Row : plan[r].action # "none"
  BY <1>3 DEF BatchInv, BatchOK
<1>5. slice'[w].at = "ending"
  BY <1>1 DEF Goto, Typed, ImportTypeOK, Slice
<1>6. CancelOK' /\ SlicesOK'
  BY <1>1, <1>5, HeldStep DEF Held, AtWork
<1>7. CASE report.mode = "partial"
  <2>1. UNCHANGED <<target, results, times, report>>
    BY <1>7 DEF FinishCommit, Atomic
  <2>2. \A r \in Row : Accounted(r, results, report, plan)
    BY <1>2, <1>3, <1>7 DEF SliceOKNow, SliceOK
  <2>3. report.committed = results
    BY DEF BatchInv, BatchOK
  <2>4. BatchOK'
    BY <1>1, <1>4, <1>7, <2>1, <2>3 DEF BatchOK, Before
  <2>5. RowsAppliedOnce'
    BY <1>1, <2>1, <2>2, <2>3 DEF BatchInv, RowsAppliedOnce, Accounted
  <2>6. QED
    BY <1>6, <2>4, <2>5 DEF BatchInv
<1>8. CASE report.mode = "atomic"
  <2>1. results = {} /\ \A r \in Row : r \in slice[w].committed \/ plan[r].action = "skip"
    BY <1>2, <1>3, <1>8 DEF SliceOKNow, SliceOK
  <2>2. Atomic(w)
    BY <1>1, <1>8 DEF Atomic
  <2>3. /\ results' = slice[w].committed
        /\ times' = [r \in Row |-> times[r] + (IF r \in slice[w].committed THEN 1 ELSE 0)]
        /\ report' = [report EXCEPT !.committed = slice[w].committed]
    <3>1. PICK new : /\ new = slice[w].committed \ results
                     /\ results' = results \cup new
                     /\ times' = [r \in Row |-> times[r] + (IF r \in new THEN 1 ELSE 0)]
                     /\ report' = [report EXCEPT !.committed = slice[w].committed]
      BY <2>2 DEF FinishCommit
    <3>2. new = slice[w].committed
      BY <2>1, <3>1
    <3>3. QED
      BY <2>1, <3>1, <3>2
  <2>4. /\ report'.mode = "atomic" /\ report'.committed = results'
        /\ report'.skipped = report.skipped
    BY <1>2, <1>8, <2>3 DEF Report
  <2>5. report.skipped = {} /\ \A r \in Row : plan[r].action # "error"
    BY <1>8 DEF BatchInv, BatchOK
  <2>6. BatchOK'
    BY <1>1, <1>4, <2>4, <2>5 DEF BatchOK, Before
  <2>7. \A r \in Row : times'[r] = IF r \in results' THEN 1 ELSE 0
    <3>1. \A r \in Row : times[r] = 0
      BY <2>1 DEF BatchInv, RowsAppliedOnce
    <3>2. QED
      BY <2>3, <3>1
  <2>8. RowsAppliedOnce'
    BY <1>1, <2>1, <2>3, <2>4, <2>7 DEF RowsAppliedOnce
  <2>9. QED
    BY <1>6, <2>6, <2>8 DEF BatchInv
<1>9. QED
  BY <1>3, <1>7, <1>8

\* The end of a batch is written outside the lock, while another slice may be at work.
LEMMA TerminalKeeps ==
    ASSUME Typed, BatchInv, PhasesKept, NEW w \in Worker, Terminal(w)
    PROVE  BatchInv'
<1>1. /\ slice[w].at \in {"cancelled", "failing"} /\ SliceMove(w)
      /\ slice' = [slice EXCEPT ![w] = NoSlice]
      /\ UNCHANGED <<cancel, done, results, target, times>>
  BY DEF Terminal, SliceMove, SliceStep
<1>2. slice'[w].at = "none"
  BY <1>1 DEF Typed, ImportTypeOK, NoSlice
<1>3. CASE BatchSettled
  <2>1. UNCHANGED <<batchVars, target, times>>
    BY <1>3, <1>1 DEF Terminal, batchVars
  <2>2. QED
    BY <1>1, <1>2, <2>1, QuietStep DEF AtWork
<1>4. CASE ~BatchSettled
  <2>1. PICK cancelled \in BOOLEAN : cancelled <=> slice[w].at = "cancelled"
    OBVIOUS
  <2>2. /\ status' = IF cancelled THEN "cancelled" ELSE "failed"
        /\ plan' = IF cancelled /\ status = "validating" THEN [r \in Row |-> NoPlan] ELSE plan
        /\ report' = IF cancelled /\ report.mode = "atomic"
                     THEN [report EXCEPT !.committed = {}] ELSE report
    BY <1>4, <2>1 DEF Terminal
  <2>3. /\ cancelled => cancel
        /\ \A v \in Worker : slice[v].at \in {"chunk", "after"} => ~cancelled /\ status # "cancelled"
    BY <2>1 DEF BatchInv, CancelOK
  <2>4. report.mode = "atomic" => results = {} /\ report.committed = {}
    BY <1>4 DEF BatchInv, BatchOK, BatchSettled
  <2>5. report' = report
    <3>1. report \in Report
      BY DEF Typed, ImportTypeOK
    <3>2. QED
      BY <2>2, <2>4, <3>1 DEF Report
  <2>6. report.mode # "none" => plan' = plan
    BY <2>2 DEF BatchInv, BatchOK
  <2>7. \A v \in Worker : v # w => slice'[v] = slice[v]
    BY <1>1, SliceMoves DEF Typed
  <2>8. BatchOK'
    <3>1. BatchOK
      BY DEF BatchInv
    <3>2. status' \in {"cancelled", "failed"}
      BY <2>2
    <3>3. QED
      BY <1>1, <2>4, <2>5, <2>6, <3>1, <3>2 DEF BatchOK, Before
  <2>9. RowsAppliedOnce'
    BY <1>1, <2>2 DEF BatchInv, RowsAppliedOnce
  <2>10. CancelOK'
    <3>1. /\ cancel' => status' \in {"validating", "committing", "cancelled", "failed"}
          /\ status' = "cancelled" => cancel'
          /\ \A v \in Worker : slice'[v].at = "cancelled" => cancel'
      BY <1>1, <1>2, <2>2, <2>3, <2>7 DEF BatchInv, CancelOK
    <3>2. ASSUME NEW u \in Worker, slice'[u].at \in {"chunk", "after"}
          PROVE  status' # "cancelled" /\ \A v \in Worker : slice'[v].at # "cancelled"
      <4>1. u # w /\ slice[u].at \in {"chunk", "after"}
        BY <1>2, <2>7, <3>2
      <4>2. \A v \in Worker : slice[v].at # "cancelled"
        BY <4>1 DEF BatchInv, CancelOK
      <4>3. QED
        BY <1>2, <2>2, <2>3, <2>7, <4>1, <4>2
    <3>3. QED
      BY <3>1, <3>2 DEF CancelOK
  <2>11. ASSUME NEW v \in Worker, slice'[v].at \in AtWork PROVE SliceOKNow(v)'
    <3>1. v # w /\ slice'[v] = slice[v]
      BY <1>2, <2>7, <2>11 DEF AtWork
    <3>2. Phase(v)' = Phase(v)
      BY <2>11, <3>1 DEF PhasesKept, AtWork
    <3>3. SliceOKNow(v)
      BY <2>11, <3>1 DEF BatchInv, SlicesOK, SliceOKNow
    <3>4. report.mode = "none" /\ (slice[v].at # "finish" \/ ~cancel) => plan' = plan
      BY <2>2, <2>3, <2>11, <3>1 DEF AtWork
    <3>5. SliceOK(slice[v], Phase(v), status', cancel, report, plan', results, target)
      <4>1. status' \notin Before \cup {"committed"}
        BY <2>2 DEF Before
      <4>2. CASE plan' = plan
        BY <3>3, <4>1, <4>2 DEF SliceOKNow, SliceOK
      <4>3. CASE plan' # plan
        <5>1. report.mode = "none" /\ ~(slice[v].at # "finish" \/ ~cancel)
          BY <2>6, <3>4, <4>3
        <5>2. QED
          BY <3>3, <4>1, <5>1 DEF SliceOKNow, SliceOK
      <4>4. QED
        BY <4>2, <4>3
    <3>6. QED
      BY <1>1, <2>5, <3>1, <3>2, <3>5 DEF SliceOKNow
  <2>12. SlicesOK'
    BY <2>11 DEF SlicesOK, SliceOKNow
  <2>13. QED
    BY <2>8, <2>9, <2>10, <2>12 DEF BatchInv
<1>5. QED
  BY <1>3, <1>4

-----------------------------------------------------------------------------
(* All together.                                                             *)

LEMMA ImportTypeStep ==
    Typed /\ [ImportNext]_allVars => ImportTypeOK'
<1> SUFFICES ASSUME Typed, [ImportNext]_allVars PROVE ImportTypeOK'
  OBVIOUS
<1>1. CASE Command
  BY <1>1, CommandTypes DEF Typed
<1>2. CASE QueueStep \/ UNCHANGED allVars
  BY <1>2 DEF QueueStep, importVars, batchVars, allVars, ImportTypeOK, Typed
<1>3. ASSUME NEW w \in Worker, SliceMove(w) PROVE ImportTypeOK'
  BY <1>3, SliceTypes DEF Typed
<1>4. QED
  BY <1>1, <1>2, <1>3, NextSplits

LEMMA TypedStep == Typed /\ [ImportNext]_allVars => Typed'
  BY QueueStepped, TypeStep, RunnerStep, ImportTypeStep, OwnedStep DEF Typed

LEMMA BatchStep == Typed /\ BatchInv /\ [ImportNext]_allVars => BatchInv'
<1> SUFFICES ASSUME Typed, BatchInv, [ImportNext]_allVars PROVE BatchInv'
  OBVIOUS
<1>1. PhasesKept
  <2>1. SlicesOwned /\ SlicesOwned'
    BY TypedStep DEF Typed
  <2>2. ASSUME NEW w \in Worker, slice[w].at # "none", slice'[w].at # "none"
        PROVE  Phase(w)' = Phase(w)
    <3>1. stage[w] = "claimed" /\ stage'[w] = "claimed"
      BY <2>1, <2>2 DEF SlicesOwned
    <3>2. QED
      BY <3>1, PhaseKept DEF Typed
  <2>3. QED
    BY <2>2 DEF PhasesKept
<1>2. CASE Command
  <2>1. \A w \in Worker : slice[w].at \in AtWork => Phase(w)' = Phase(w)
    BY <1>1, <1>2, CommandKeepsSlices DEF PhasesKept, AtWork
  <2>2. QED
    BY <1>2, <2>1, UploadKeeps, ValidateKeeps, CommitNowKeeps, CommitLaterKeeps, OtherCommandKeeps
    DEF Command
<1>3. CASE QueueStep \/ UNCHANGED allVars
  <2>1. UNCHANGED importVars
    BY <1>3 DEF QueueStep, allVars
  <2>2. \A w \in Worker : slice[w].at \in AtWork => Phase(w)' = Phase(w)
    BY <1>1, <2>1 DEF PhasesKept, AtWork, importVars
  <2>3. QED
    BY <2>1, <2>2 DEF importVars, batchVars, BatchInv, BatchOK, CancelOK, SlicesOK, RowsAppliedOnce
<1>4. ASSUME NEW w \in Worker, SliceMove(w) PROVE BatchInv'
  BY <1>1, <1>4, BeginKeeps, ApplyKeeps, StopKeeps, ValidateChunkKeeps, GoesOnKeeps,
     FinishValidationKeeps, CommitChunkKeeps, FinishCommitKeeps, TerminalKeeps
  DEF SliceMove, SliceStep
<1>5. QED
  BY <1>2, <1>3, <1>4, NextSplits

LEMMA ImportInvariant == ImportSpec => [](Typed /\ BatchInv)
<1>1. ImportInit => Typed /\ BatchInv
  BY QueueInit, TypeInit, RunnerInit, ImportTypeInit, BatchInit DEF Typed
<1>2. QED
  BY <1>1, TypedStep, BatchStep, PTL DEF ImportSpec

\* However slices are retried, duplicated by a continuation, killed or cancelled: no row
\* of the file is applied twice, and the report of a committed batch accounts for every
\* row, for files, chunks, jobs and ticks of any size and number.
THEOREM ImportedOnce == ImportSpec => []RowsAppliedOnce
<1>1. BatchInv => RowsAppliedOnce
  BY DEF BatchInv
<1>2. QED
  BY <1>1, ImportInvariant, PTL

\* A cancellation that was acknowledged is never overtaken by the end of its phase, and a
\* cancelled atomic commit has applied nothing.
THEOREM CancellationsHold == ImportSpec => []CancellationHolds
<1>1. BatchInv => CancellationHolds
  BY DEF BatchInv, BatchOK, CancelOK, CancellationHolds
<1>2. QED
  BY <1>1, ImportInvariant, PTL

LEMMA SafelyApplied ==
    Typed /\ BatchInv /\ [ImportNext]_allVars =>
        \A r \in results' \ results :
            /\ status # "cancelled"
            /\ plan[r].action \in {"create", "update"}
            /\ plan[r].token = target[r].version
<1> SUFFICES ASSUME Typed, BatchInv, [ImportNext]_allVars, NEW r \in results', r \notin results
             PROVE  /\ status # "cancelled"
                    /\ plan[r].action \in {"create", "update"}
                    /\ plan[r].token = target[r].version
  OBVIOUS
<1>1. target \in [Row -> Record]
  BY DEF Typed, ImportTypeOK
<1>2. ASSUME NEW mode \in {"atomic", "partial"}, CommitNow(mode)
      PROVE  /\ status # "cancelled"
             /\ plan[r].action \in {"create", "update"}
             /\ plan[r].token = target[r].version
  <2>1. PICK P : P = PlanRows(target, 0, {})
    OBVIOUS
  <2>2. PICK ok \in Outcomes(target, Writes(P)) : results' = results \cup ok
    BY <1>2, <2>1 DEF CommitNow
  <2>3. r \in Row /\ r \in Writes(P)
    BY <2>2, OutcomesWithin DEF Writes
  <2>4. plan[r] = P[r]
    BY <1>2, <2>1, <2>3 DEF CommitNow, Stale
  <2>5. P[r].action \in {"create", "update"} /\ P[r].token = target[r].version
    BY <1>1, <2>1, <2>3, PlanRowsPlans DEF Writes
  <2>6. status # "cancelled"
    BY <1>2 DEF CommitNow, Committable
  <2>7. QED
    BY <2>4, <2>5, <2>6
<1>3. ASSUME NEW w \in Worker, CommitChunk(w)
      PROVE  /\ status # "cancelled"
             /\ plan[r].action \in {"create", "update"}
             /\ plan[r].token = target[r].version
  <2>1. PICK P : P = PlanRows(target, slice[w].done, {})
    OBVIOUS
  <2>2. PICK ok, com, skp : ChunkCommitted(w, P, ok, com, skp)
    BY <1>3, <2>1, CommitChunkCommits
  <2>3. r \in Row /\ r \in Writes(P) /\ r \in OpenRows(w)
    BY <2>2, OutcomesWithin DEF ChunkCommitted, Writes
  <2>4. plan[r] = P[r]
    BY <2>2, <2>3 DEF ChunkCommitted, Stale
  <2>5. P[r].action \in {"create", "update"} /\ P[r].token = target[r].version
    BY <1>1, <2>1, <2>3, PlanRowsPlans DEF Writes
  <2>6. status # "cancelled"
    BY <1>3 DEF CommitChunk, BatchInv, CancelOK
  <2>7. QED
    BY <2>4, <2>5, <2>6
<1>4. ASSUME NEW w \in Worker, FinishCommit(w)
      PROVE  /\ status # "cancelled"
             /\ plan[r].action \in {"create", "update"}
             /\ plan[r].token = target[r].version
  <2>1. Atomic(w) /\ r \in slice[w].committed
    BY <1>4 DEF FinishCommit
  <2>2. slice[w].at = "finish" /\ ~cancel
    BY <1>4 DEF FinishCommit, NotCancelled
  <2>3. SliceOKNow(w)
    BY <2>2 DEF BatchInv, SlicesOK, SliceOKNow, AtWork
  <2>4. status # "cancelled"
    BY <2>2 DEF BatchInv, CancelOK
  <2>5. QED
    BY <2>1, <2>3, <2>4 DEF SliceOKNow, SliceOK, Atomic
<1>5. CASE Command
  <2>1. results' = results \/ \E mode \in {"atomic", "partial"} : CommitNow(mode)
    BY <1>5 DEF Command, Upload, SaveMapping, ValidateNow, ValidateLater, CommitLater,
                CommitRollsBack, RecordRollback, Cancel, Edit, batchVars
  <2>2. QED
    BY <1>2, <2>1
<1>6. CASE QueueStep \/ UNCHANGED allVars
  BY <1>6 DEF QueueStep, allVars, importVars, batchVars
<1>7. ASSUME NEW w \in Worker, SliceMove(w), ~CommitChunk(w), ~FinishCommit(w)
      PROVE  results' = results
  BY <1>7 DEF SliceMove, SliceStep, SliceBegin, ValidateChunk, ApplyChunk, ChunkRefused,
              SliceGoesOn, SliceYields, FinishCancelled, FinishValidation, SliceEnds, Terminal,
              SliceTransient, SliceFails, TerminalLost, SliceCrash, batchVars
<1>8. QED
  BY <1>3, <1>4, <1>5, <1>6, <1>7, NextSplits

-----------------------------------------------------------------------------
(* No batch is forgotten: the job of its phase that is open stays so until   *)
(* a slice writes how the batch ended.                                       *)

\* Enough for a step that neither ends the phase nor loses its outcome.
LEMMA OpenSuffices ==
    ASSUME Typed, [ImportNext]_allVars, NoBatchForgotten, status' = status, lost' = lost,
           \A j \in Job : kind[j] = status /\ StillOpen(j) => StillOpen(j)'
    PROVE  NoBatchForgotten'
<1> SUFFICES ASSUME Working', ~lost' PROVE \E j \in Job : kind'[j] = status' /\ StillOpen(j)'
  BY DEF NoBatchForgotten
<1>1. PICK j \in Job : kind[j] = status /\ StillOpen(j)
  BY DEF NoBatchForgotten, Working
<1>2. state[j] # "absent"
  BY <1>1 DEF StillOpen
<1>3. kind'[j] = kind[j]
  BY <1>2, KindKept DEF Typed
<1>4. QED
  BY <1>1, <1>3

\* A slice that moves on within its handler keeps its job open unless it is ending.
LEMMA MoveKeepsOpen ==
    ASSUME Typed, NEW w \in Worker, SliceMove(w), UNCHANGED vars,
           NEW j \in Job, StillOpen(j), slice'[w].at # "ending" \/ job[w] # j
    PROVE  StillOpen(j)'
<1>1. UNCHANGED <<state, job, stage, crashes>>
  BY DEF vars
<1>2. \A v \in Worker : v # w => slice'[v] = slice[v]
  BY SliceMoves DEF Typed
<1>3. AtIt(j) => AtIt(j)'
  BY <1>1, <1>2 DEF AtIt
<1>4. QED
  BY <1>1, <1>3 DEF StillOpen, Abandoned

LEMMA CommandKeepsOpen ==
    ASSUME Typed, Command, NEW j \in Job, StillOpen(j) PROVE StillOpen(j)'
<1>1. UNCHANGED <<job, stage, crashes, slice>>
  BY CommandKeepsSlices, CommandQueues, EnqueueTakes DEF vars, Enqueue
<1>2. state'[j] = state[j]
  <2>1. CASE UNCHANGED vars
    BY <2>1 DEF vars
  <2>2. CASE \E i \in Job : Enqueue(i, TRUE)
    BY <2>2 DEF Enqueue, StillOpen, Typed, TypeOK
  <2>3. QED
    BY <2>1, <2>2, CommandQueues, EnqueueTakes
<1>3. AtIt(j) => AtIt(j)'
  BY <1>1 DEF AtIt
<1>4. QED
  BY <1>1, <1>2, <1>3 DEF StillOpen, Abandoned

LEMMA QueueKeepsOpen ==
    ASSUME Typed, QueueStep, NEW j \in Job, StillOpen(j) PROVE StillOpen(j)'
<1>1. slice' = slice /\ OneRunner
  BY DEF QueueStep, importVars, Typed
<1> USE DEF Typed, TypeOK
<1>2. ASSUME NEW i \in Job, BecomesDue(i) PROVE StillOpen(j)'
  BY <1>1, <1>2 DEF BecomesDue, StillOpen, AtIt, Abandoned
<1>3. ASSUME NEW v \in Worker, NEW i \in Job, Claim(v, i) PROVE StillOpen(j)'
  <2>1. /\ stage[v] = "idle" /\ state[i] = "queued"
        /\ state' = [state EXCEPT ![i] = "running"] /\ job' = [job EXCEPT ![v] = i]
        /\ stage' = [stage EXCEPT ![v] = "claimed"] /\ crashes' = crashes
    BY <1>3 DEF Claim, Claimable
  <2>2. CASE i = j
    <3>1. slice[v].at # "ending"
      BY <2>1 DEF SlicesOwned
    <3>2. state'[j] = "running" /\ job'[v] = j /\ stage'[v] = "claimed"
      BY <2>1, <2>2
    <3>3. AtIt(j)'
      BY <1>1, <3>1, <3>2 DEF AtIt
    <3>4. QED
      BY <3>2, <3>3 DEF StillOpen
  <2>3. CASE i # j
    <3>1. state'[j] = state[j]
      BY <2>1, <2>3
    <3>2. \A u \in Worker : u # v => job'[u] = job[u] /\ stage'[u] = stage[u]
      BY <2>1
    <3>3. AtIt(j) => AtIt(j)'
      BY <1>1, <2>1, <3>2 DEF AtIt
    <3>4. Abandoned(j) => Abandoned(j)'
      BY <2>1, <2>3, <3>2 DEF Abandoned
    <3>5. QED
      BY <2>1, <3>1, <3>3, <3>4 DEF StillOpen
  <2>4. QED
    BY <2>2, <2>3
<1>4. ASSUME NEW v \in Worker, Complete(v) \/ Retry(v) \/ Dead(v) PROVE StillOpen(j)'
  <2>1. PICK to : /\ Finish(v, to) /\ crashes' = crashes
                  /\ stage[v] \in {"completing", "retrying", "burying"}
                  /\ stage[v] = "retrying" => to = "queued"
    BY <1>4 DEF Complete, Retry, Dead
  <2>2. /\ state' = [state EXCEPT ![job[v]] = to] /\ job' = [job EXCEPT ![v] = NoJob]
        /\ stage' = [stage EXCEPT ![v] = "idle"] /\ state[job[v]] = "running"
    BY <2>1 DEF Finish
  <2>3. job[v] \in Job /\ \A u \in Worker : stage[u] # "idle" /\ job[u] = job[v] => u = v
    BY <2>1 DEF OneRunner
  <2>4. CASE job[v] = j
    <3>1. AtIt(j)
      BY <2>1, <2>2, <2>4 DEF StillOpen, Abandoned
    <3>2. stage[v] = "retrying"
      BY <2>1, <2>3, <2>4, <3>1 DEF AtIt
    <3>3. state'[j] = "queued"
      BY <2>1, <2>2, <2>3, <2>4, <3>2
    <3>4. QED
      BY <3>3 DEF StillOpen
  <2>5. CASE job[v] # j
    <3>1. state'[j] = state[j]
      BY <2>2, <2>5
    <3>2. \A u \in Worker : u # v => job'[u] = job[u] /\ stage'[u] = stage[u]
      BY <2>2
    <3>3. AtIt(j) => AtIt(j)'
      BY <1>1, <2>5, <3>2 DEF AtIt
    <3>4. Abandoned(j) => Abandoned(j)'
      BY <2>1, <2>2, <3>2 DEF Abandoned
    <3>5. QED
      BY <2>1, <3>1, <3>3, <3>4 DEF StillOpen
  <2>6. QED
    BY <2>4, <2>5
<1>5. ASSUME NEW v \in Worker, CompleteFails(v) PROVE StillOpen(j)'
  <2>1. /\ stage[v] = "completing" /\ crashes' = crashes + 1
        /\ stage' = [stage EXCEPT ![v] = "burying"] /\ UNCHANGED <<state, job>>
    BY <1>5 DEF CompleteFails
  <2>2. AtIt(j) => AtIt(j)'
    BY <1>1, <2>1 DEF AtIt
  <2>3. crashes > 0 => crashes' > 0
    BY <2>1, JobQueueAssumption
  <2>4. QED
    BY <2>1, <2>2, <2>3 DEF StillOpen, Abandoned
<1>6. QED
  BY <1>2, <1>3, <1>4, <1>5 DEF QueueStep

\* A handler that ends, and a tick that dies.
LEMMA HandlerKeepsOpen ==
    ASSUME Typed, NEW w \in Worker, SliceMove(w), NEW j \in Job, StillOpen(j),
           \/ HandlerReturns(w) /\ slice[w].at = "ending"
           \/ HandlerTransient(w) /\ ~Exhausted(job[w])
           \/ Crash(w)
    PROVE  StillOpen(j)'
<1>1. /\ \A v \in Worker : v # w => slice'[v] = slice[v]
      /\ \A v \in Worker : v # w => stage'[v] = stage[v]
  <2>1. SlicesOwned /\ TypeOK /\ ImportTypeOK
    BY DEF Typed
  <2>2. QED
    BY <2>1, SliceMoves, SliceGoes
<1>2. state' = state /\ (crashes > 0 => crashes' > 0)
  BY JobQueueAssumption DEF HandlerReturns, HandlerTransient, Crash, Typed, TypeOK
<1>3. CASE HandlerReturns(w) /\ slice[w].at = "ending"
  <2>1. job' = job /\ stage[w] = "claimed"
    BY <1>3 DEF HandlerReturns
  <2>2. AtIt(j) => AtIt(j)'
    BY <1>1, <1>3, <2>1 DEF AtIt
  <2>3. Abandoned(j) => Abandoned(j)'
    BY <1>1, <1>2, <2>1 DEF Abandoned
  <2>4. QED
    BY <1>2, <2>2, <2>3 DEF StillOpen
<1>4. CASE HandlerTransient(w) /\ ~Exhausted(job[w])
  <2>1. job' = job /\ stage[w] = "claimed" /\ stage'[w] = "retrying"
    BY <1>4 DEF HandlerTransient, Typed, TypeOK
  <2>2. AtIt(j) => AtIt(j)'
    BY <1>1, <2>1 DEF AtIt
  <2>3. Abandoned(j) => Abandoned(j)'
    BY <1>1, <1>2, <2>1 DEF Abandoned
  <2>4. QED
    BY <1>2, <2>2, <2>3 DEF StillOpen
<1>5. CASE Crash(w)
  <2>1. /\ job' = [job EXCEPT ![w] = NoJob] /\ stage[w] # "idle"
        /\ stage' = [stage EXCEPT ![w] = "idle"] /\ crashes' = crashes + 1
    BY <1>5 DEF Crash
  <2>2. \A v \in Worker : v # w => job'[v] = job[v]
    BY <2>1 DEF Typed, TypeOK
  <2>3. job'[w] # j
    BY <2>1, JobQueueAssumption DEF Typed, TypeOK
  <2>4. crashes' > 0
    BY <2>1, JobQueueAssumption DEF Typed, TypeOK
  <2>5. CASE job[w] = j
    <3>1. Abandoned(j)'
      <4>1. \A v \in Worker : v # w /\ job[v] = j => stage[v] = "idle"
        BY <2>1, <2>5 DEF OneRunner, Typed
      <4>2. QED
        BY <1>1, <2>2, <2>3, <2>4, <4>1 DEF Abandoned
    <3>2. QED
      BY <1>2, <3>1 DEF StillOpen
  <2>6. CASE job[w] # j
    <3>1. AtIt(j) => AtIt(j)'
      BY <1>1, <2>2, <2>6 DEF AtIt
    <3>2. Abandoned(j) => Abandoned(j)'
      BY <1>1, <2>2, <2>3, <2>4 DEF Abandoned
    <3>3. QED
      BY <1>2, <3>1, <3>2 DEF StillOpen
  <2>7. QED
    BY <2>5, <2>6
<1>6. QED
  BY <1>3, <1>4, <1>5

LEMMA NothingForgotten ==
    Typed /\ BatchInv /\ NoBatchForgotten /\ [ImportNext]_allVars => NoBatchForgotten'
<1> SUFFICES ASSUME Typed, BatchInv, NoBatchForgotten, [ImportNext]_allVars
             PROVE  NoBatchForgotten'
  OBVIOUS
<1>1. ASSUME Command PROVE NoBatchForgotten'
  <2>1. CASE ValidateLater \/ \E mode \in {"atomic", "partial"} : CommitLater(mode)
    <3>1. EnqueueSlice(status')
      BY <2>1 DEF ValidateLater, CommitLater
    <3>2. PICK j \in Job : Enqueue(j, TRUE) /\ kind' = [kind EXCEPT ![j] = status']
      BY <3>1, EnqueueTakes
    <3>3. kind'[j] = status' /\ state'[j] = "queued"
      BY <3>2 DEF Enqueue, Typed, TypeOK, ImportTypeOK
    <3>4. QED
      BY <3>3 DEF NoBatchForgotten, StillOpen
  <2>2. CASE UNCHANGED <<status, lost>>
    BY <1>1, <2>2, CommandKeepsOpen, OpenSuffices
  <2>3. CASE status' \notin {"validating", "committing"}
    BY <2>3 DEF NoBatchForgotten, Working
  <2>4. QED
    BY <1>1, <2>1, <2>2, <2>3
    DEF Command, Upload, SaveMapping, ValidateNow, Verdict, CommitNow, CommitRollsBack,
        RecordRollback, Cancel, Edit, batchVars
<1>2. CASE QueueStep
  <2>1. UNCHANGED <<status, lost>>
    BY <1>2 DEF QueueStep, importVars, batchVars
  <2>2. QED
    BY <1>2, <2>1, QueueKeepsOpen, OpenSuffices
<1>3. CASE UNCHANGED allVars
  <2>1. UNCHANGED <<status, lost, state, job, stage, crashes, slice>>
    BY <1>3 DEF allVars, vars, importVars, batchVars
  <2>2. \A j \in Job : StillOpen(j) => StillOpen(j)'
    BY <2>1 DEF StillOpen, AtIt, Abandoned
  <2>3. QED
    BY <2>1, <2>2, OpenSuffices
<1>4. ASSUME NEW w \in Worker, SliceMove(w) PROVE NoBatchForgotten'
  <2>1. ASSUME NEW at, Goto(w, at) PROVE slice'[w].at = at
    BY <2>1 DEF Goto, Typed, ImportTypeOK, Slice
  <2>2. ASSUME UNCHANGED <<vars, status, lost>>,
               \A j \in Job : kind[j] = status => slice'[w].at # "ending" \/ job[w] # j
        PROVE  NoBatchForgotten'
    BY <1>4, <2>2, MoveKeepsOpen, OpenSuffices
  <2>3. CASE SliceBegin(w)
    <3>1. CASE status # Phase(w)
      BY <2>2, <2>3, <3>1 DEF SliceBegin, Phase, batchVars
    <3>2. CASE status = Phase(w)
      <4>1. slice'[w].at # "ending"
        BY <2>3, <3>2 DEF SliceBegin, Typed, ImportTypeOK
      <4>2. QED
        BY <2>2, <2>3, <4>1 DEF SliceBegin, batchVars
    <3>3. QED
      BY <3>1, <3>2
  <2>4. CASE ValidateChunk(w) \/ ApplyChunk(w)
    <3>1. slice'[w].at = "after"
      BY <2>4 DEF ValidateChunk, ApplyChunk, Typed, ImportTypeOK, Slice
    <3>2. QED
      BY <2>2, <2>4, <3>1 DEF ValidateChunk, ApplyChunk, batchVars
  <2>5. CASE CommitChunk(w)
    <3>1. slice'[w].at = "after"
      <4>1. PICK ok, com, skp :
                ChunkCommitted(w, PlanRows(target, slice[w].done, {}), ok, com, skp)
        BY <2>5, CommitChunkCommits
      <4>2. QED
        BY <4>1 DEF ChunkCommitted, Typed, ImportTypeOK
    <3>2. QED
      BY <2>2, <2>5, <3>1 DEF CommitChunk
  <2>6. CASE ChunkRefused(w) \/ FinishCancelled(w) \/ SliceFails(w)
    BY <2>1, <2>2, <2>6 DEF ChunkRefused, FinishCancelled, SliceFails, batchVars
  <2>7. CASE SliceGoesOn(w)
    <3>1. slice'[w].at # "ending"
      BY <2>1, <2>7 DEF SliceGoesOn
    <3>2. QED
      BY <2>2, <2>7, <3>1 DEF SliceGoesOn
  <2>8. CASE SliceYields(w)
    <3>1. PICK j \in Job : Enqueue(j, TRUE) /\ kind' = [kind EXCEPT ![j] = Phase(w)]
      BY <2>8, EnqueueTakes DEF SliceYields
    <3>2. kind'[j] = Phase(w) /\ state'[j] = "queued"
      BY <3>1 DEF Enqueue, Typed, TypeOK, ImportTypeOK
    <3>3. slice[w].at \in AtWork /\ status' = status
      BY <2>8 DEF SliceYields, AtWork, batchVars
    <3>4. Working => Phase(w) = status
      BY <3>3 DEF BatchInv, SlicesOK, SliceOK, BatchOK, Working
    <3>5. QED
      BY <3>2, <3>3, <3>4 DEF NoBatchForgotten, StillOpen, Working
  <2>9. CASE FinishValidation(w) \/ FinishCommit(w)
    <3>1. status' \notin {"validating", "committing"}
      BY <2>9 DEF FinishValidation, FinishCommit, Verdict
    <3>2. QED
      BY <3>1 DEF NoBatchForgotten, Working
  <2>10. CASE Terminal(w)
    <3>1. status' \notin {"validating", "committing"}
      BY <2>10 DEF Terminal, BatchSettled
    <3>2. QED
      BY <3>1 DEF NoBatchForgotten, Working
  <2>11. CASE TerminalLost(w)
    BY <2>11 DEF TerminalLost, NoBatchForgotten
  <2>12. CASE SliceTransient(w) /\ Exhausted(job[w])
    <3>1. slice'[w].at = "failing" /\ UNCHANGED <<vars, status, lost>>
      BY <2>1, <2>12 DEF SliceTransient, batchVars
    <3>2. QED
      BY <2>2, <3>1
  <2>13. CASE SliceEnds(w) \/ SliceCrash(w) \/ (SliceTransient(w) /\ ~Exhausted(job[w]))
    <3>1. UNCHANGED <<status, lost>>
      BY <2>13 DEF SliceEnds, SliceCrash, SliceTransient, batchVars
    <3>2. \/ HandlerReturns(w) /\ slice[w].at = "ending"
          \/ HandlerTransient(w) /\ ~Exhausted(job[w])
          \/ Crash(w)
      BY <2>13 DEF SliceEnds, SliceCrash, SliceTransient
    <3>3. \A j \in Job : StillOpen(j) => StillOpen(j)'
      BY <1>4, <3>2, HandlerKeepsOpen
    <3>4. QED
      BY <3>1, <3>3, OpenSuffices
  <2>14. QED
    BY <1>4, <2>3, <2>4, <2>5, <2>6, <2>7, <2>8, <2>9, <2>10, <2>11, <2>12, <2>13
    DEF SliceMove, SliceStep
<1>5. QED
  BY <1>1, <1>2, <1>3, <1>4, NextSplits

\* Through continuations, retries, exhausted attempts, duplicates and dying ticks, for any
\* number of jobs and ticks: a batch under way always has a job of its phase that is open,
\* unless the transaction that was to settle it was lost.
THEOREM NoBatchIsForgotten == ImportSpec => []NoBatchForgotten
<1>1. ImportInit => NoBatchForgotten
  BY DEF ImportInit, NoBatchForgotten, Working
<1>2. QED
  BY <1>1, NothingForgotten, ImportInvariant, PTL DEF ImportSpec

\* Whatever other users edit while a batch is validated and committed, in one request or
\* in slices: a row is applied only over the version of its record that was previewed,
\* and never once the batch is cancelled.
THEOREM NothingIsOverwritten == ImportSpec => NothingOverwritten
<1>1. Typed /\ BatchInv /\ [ImportNext]_allVars =>
        [\A r \in results' \ results :
            /\ status # "cancelled"
            /\ plan[r].action \in {"create", "update"}
            /\ plan[r].token = target[r].version]_allVars
  BY SafelyApplied
<1>2. QED
  BY <1>1, ImportInvariant, PTL DEF ImportSpec, NothingOverwritten
=============================================================================
