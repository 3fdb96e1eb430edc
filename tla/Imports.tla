------------------------------ MODULE Imports ------------------------------
(***************************************************************************)
(* One import batch: upload, mapping, validation, commit and cancellation, *)
(* and the ImportWorker slices that do the work of a large file as jobs of *)
(* JobQueue.  The module composes the two: a slice is what happens between *)
(* a tick's claim of a job and the outcome it records.                     *)
(*                                                                         *)
(* A row of the file stands for one project or one allocation request.     *)
(* Other users, and other batches, are the Edit of its target record.      *)
(* Abstracted: cell values (a row is invalid under a mapping or not), the  *)
(* control transaction that follows another without a chunk in between,    *)
(* the emails and audit rows, which every settling transaction adds, and   *)
(* the stored file, which outlives the batch.                              *)
(***************************************************************************)
EXTENDS JobQueue, FiniteSets

CONSTANTS
    Rows,           \* rows of the file, in file order 1..Rows
    Chunk,          \* CHUNK: rows of one transaction of a slice
    Parent,         \* Parent[r]: the earlier row r names as its parent, or 0
    File,           \* files that may be uploaded
    Large,          \* files of more than 500 rows, whose work is done by jobs
    Template,       \* Template[f]: what the file's rows are
    Mappings,       \* Mappings[f]: per column mapping of the file, the invalid rows
    Contended,      \* bound: rows whose records other users touch
    MaxVersion      \* bound: versions they give to a record

Row == 1..Rows

ASSUME ImportsAssumption ==
    /\ Rows \in Nat \ {0}
    /\ Chunk \in Nat \ {0}
    /\ Parent \in [Row -> 0..Rows] /\ \A r \in Row : Parent[r] < r
    /\ Large \subseteq File
    /\ Template \in [File -> {"projects", "budget_allocations"}]
    /\ Mappings \in [File -> SUBSET SUBSET Row]
    /\ Contended \subseteq Row
    /\ MaxVersion \in Nat

VARIABLES
    status,     \* import_batch.status; "absent" before the upload
    file,       \* the batch's file, with its template and its row count
    bad,        \* rows that do not validate under the saved mapping
    cancel,     \* import_batch.cancel_requested
    done,       \* import_batch.progress.rows_done
    report,     \* import_batch.result: mode and row numbers
    plan,       \* import_row: the previewed action and state_token of each row
    results,    \* import_result: rows recorded as applied
    target,     \* the records the rows are about: version (0: none), content as in the file
    kind,       \* kind[j]: the phase job j works on
    slice,      \* slice[w]: local state of the slice in worker w
    late,       \* a synchronous commit has rolled back and has yet to record its failure
    times,      \* history: how often this batch has applied the row
    lost        \* history: a slice could not record how the batch ended

batchVars == <<status, file, bad, cancel, done, report, plan, results>>
importVars == <<batchVars, target, kind, slice, late, times, lost>>
allVars == <<vars, importVars>>

NoPlan == [action |-> "none", token |-> 0]
NoReport == [mode |-> "none", committed |-> {}, skipped |-> {}]
NoSlice == [at |-> "none", done |-> 0, committed |-> {}, skipped |-> {}]

ImportInit ==
    /\ Init
    /\ status = "absent"
    /\ file \in File
    /\ bad = {} /\ cancel = FALSE
    /\ done = 0
    /\ report = NoReport
    /\ plan = [r \in Row |-> NoPlan]
    /\ results = {}
    /\ target = [r \in Row |-> [version |-> 0, same |-> FALSE]]
    /\ kind = [j \in Job |-> "none"]
    /\ slice = [w \in Worker |-> NoSlice]
    /\ late = FALSE
    /\ times = [r \in Row |-> 0]
    /\ lost = FALSE

-----------------------------------------------------------------------------
(* Planning and applying rows.                                               *)

Refused == [action |-> "error", token |-> 0]

HasRecord(t, p) == p = 0 \/ t[p].version > 0

\* ProjectsHandler.plan_row against the records in t; `planned` says that an earlier
\* row will create the parent.  The version is the token an update depends on.
PlanProject(t, r, planned) ==
    LET found == t[r].version > 0
        parent == HasRecord(t, Parent[r])
    IN  IF ~found /\ (parent \/ planned) THEN [action |-> "create", token |-> 0]
        ELSE IF ~found \/ ~parent THEN Refused
        ELSE IF t[r].same THEN [action |-> "skip", token |-> 0]
        ELSE [action |-> "update", token |-> t[r].version]

\* BudgetAllocationsHandler.plan_row: a request with the row's key exists or not.
PlanAllocation(t, r) ==
    IF t[r].version = 0 THEN [action |-> "create", token |-> 0]
    ELSE IF t[r].same THEN [action |-> "skip", token |-> 0]
    ELSE Refused

\* The rows after `from` that create their project, each below a project that exists,
\* one planned before, or another of these: an earlier row, as Parent[r] < r.
Creating(t, from, known) ==
    UNION {C \in SUBSET (Row \ bad) : \A r \in C :
              /\ t[r].version = 0
              /\ \/ HasRecord(t, Parent[r]) \/ Parent[r] \in known
                 \/ Parent[r] > from /\ Parent[r] \in C}

\* plan_rows over the rows after `from`; rows in `known` are planned already.
PlanRows(t, from, known) ==
    LET planned == known \cup {r \in Creating(t, from, known) : r > from}
    IN  [r \in Row |->
            IF r \in bad THEN Refused
            ELSE IF Template[file] = "projects" THEN PlanProject(t, r, Parent[r] \in planned)
            ELSE PlanAllocation(t, r)]

\* store_planned, for the rows of S.
StorePlanned(P, S) == [r \in Row |-> IF r \in S THEN P[r] ELSE plan[r]]

Writes(P) == {r \in Row : P[r].action \in {"create", "update"}}

\* apply_row: the record as the file has it.
Applied(t, S) ==
    [r \in Row |-> IF r \in S THEN [version |-> t[r].version + 1, same |-> TRUE] ELSE t[r]]

\* What one pass over the rows of S may apply: a row fails if its record changed
\* meanwhile, or for any other reason, and with it the projects created below it.
Outcomes(t, S) ==
    {ok \in SUBSET S : Template[file] = "projects" =>
        \A r \in ok : HasRecord(t, Parent[r]) \/ Parent[r] \in ok}

\* persist_failure: a row whose savepoint was rolled back is reported as an error.
Persisted(P, S) == [r \in Row |-> IF r \in S THEN Refused ELSE P[r]]

\* Fault: re-planning replaces the preview instead of being compared with it.
NeverStale(P, S) == FALSE

\* stale_validation: a row would now do something else than was previewed.
Stale(P, S) == \E r \in S : P[r] # plan[r]

-----------------------------------------------------------------------------
(* Commands of the API.                                                      *)

\* upload: a keyed upload that is repeated finds the batch and changes nothing.
Upload(invalid) ==
    /\ status = "absent"
    /\ status' = "uploaded"
    /\ bad' = invalid
    /\ UNCHANGED <<vars, file, cancel, done, report, plan, results, target, kind, slice, late, times, lost>>

SaveMapping(invalid) ==
    /\ status = "uploaded"
    /\ bad' = invalid
    /\ UNCHANGED <<vars, status, file, cancel, done, report, plan, results,
                   target, kind, slice, late, times, lost>>

FreeJobs == {j \in Job : state[j] = "absent"}

\* JobQueue.enqueue in the caller's transaction, due at once.
EnqueueSlice(k) ==
    /\ FreeJobs # {}
    /\ LET j == CHOOSE x \in FreeJobs : TRUE
       IN  Enqueue(j, TRUE) /\ kind' = [kind EXCEPT ![j] = k]

Editable == status \in {"uploaded", "validated", "failed_validation"}

Verdict(P) == IF \E r \in Row : P[r].action = "error" THEN "failed_validation" ELSE "validated"

\* validate, at most 500 rows: planned and stored in the request's transaction.
ValidateNow ==
    /\ Editable /\ file \notin Large
    /\ plan' = StorePlanned(PlanRows(target, 0, {}), Row)
    /\ status' = Verdict(plan')
    /\ UNCHANGED <<vars, file, bad, cancel, done, report, results,
                   target, kind, slice, late, times, lost>>

\* validate, more rows: old rows and flags are cleared and a job enqueued.
ValidateLater ==
    /\ Editable /\ file \in Large
    /\ EnqueueSlice("validating")
    /\ status' = "validating"
    /\ cancel' = FALSE
    /\ done' = 0
    /\ plan' = [r \in Row |-> NoPlan]
    /\ UNCHANGED <<file, bad, report, results, target, slice, late, times, lost>>

\* commit's checks: validated, no errors unless partial, and something to do.
Committable(mode) ==
    /\ status \in {"validated", "failed_validation"}
    /\ mode = "atomic" => status = "validated"
    /\ mode = "partial" => \E r \in Row : plan[r].action # "error"

\* commit, at most 500 rows: one transaction under the template's advisory lock.
CommitNow(mode) ==
    /\ Committable(mode) /\ file \notin Large
    /\ LET P == PlanRows(target, 0, {})
       IN  /\ ~Stale(P, Row)
           /\ \E ok \in Outcomes(target, Writes(P)) :
                /\ mode = "atomic" => ok = Writes(P)
                /\ target' = Applied(target, ok)
                /\ results' = results \cup ok
                /\ times' = [r \in Row |-> times[r] + (IF r \in ok THEN 1 ELSE 0)]
                /\ plan' = Persisted(plan, Writes(P) \ ok)
                /\ report' = [mode |-> mode, committed |-> ok,
                              skipped |-> {r \in Row : P[r].action = "error"} \cup (Writes(P) \ ok)]
    /\ status' = "committed"
    /\ UNCHANGED <<vars, file, bad, cancel, done, kind, slice, late, lost>>

\* A row of an atomic commit fails: the transaction is rolled back and its locks
\* are gone, and only then a transaction of its own records the failure.
CommitRollsBack ==
    /\ Committable("atomic") /\ file \notin Large
    /\ ~Stale(PlanRows(target, 0, {}), Row)
    /\ Writes(plan) # {}
    /\ late' = TRUE
    /\ UNCHANGED <<vars, batchVars, target, kind, slice, times, lost>>

\* Whatever the status has become in between.
RecordRollback ==
    /\ late
    /\ late' = FALSE
    /\ status' = "failed"
    /\ UNCHANGED <<vars, file, bad, cancel, done, report, plan, results,
                   target, kind, slice, times, lost>>

\* commit, more rows: the report starts empty and a job is enqueued.
CommitLater(mode) ==
    /\ Committable(mode) /\ file \in Large
    /\ EnqueueSlice("committing")
    /\ status' = "committing"
    /\ cancel' = FALSE
    /\ done' = 0
    /\ report' = [NoReport EXCEPT !.mode = mode]
    /\ UNCHANGED <<file, bad, plan, results, target, slice, late, times, lost>>

\* cancel only raises a flag, which the slices look at.
Cancel ==
    /\ status \in {"validating", "committing"}
    /\ cancel' = TRUE
    /\ UNCHANGED <<vars, status, file, bad, done, report, plan, results,
                   target, kind, slice, late, times, lost>>

-----------------------------------------------------------------------------
(* ImportWorker.run: a slice of the batch in the tick of worker w.           *)

Held == {"chunk", "after", "finish", "ending"}

SliceFree == \A w \in Worker : slice[w].at \notin Held

Phase(w) == kind[job[w]]
Atomic(w) == Phase(w) = "committing" /\ report.mode = "atomic"

Goto(w, at) == slice' = [slice EXCEPT ![w].at = at]

\* Fault: an atomic commit resumes where the progress it published stands.
ResumeAtProgress(w) == done

\* Where the slice starts: an atomic commit always starts over.
StartAt(w) == IF Atomic(w) THEN 0 ELSE done

\* The session lock is taken, the batch read, and cancellation looked at if rows
\* are left; a batch in another phase is none of this job's business.
SliceBegin(w) ==
    /\ stage[w] = "claimed" /\ slice[w].at = "none"
    /\ SliceFree
    /\ IF status # Phase(w) THEN Goto(w, "ending")
       ELSE LET n == StartAt(w)
            IN  slice' = [slice EXCEPT ![w] =
                    [at |-> IF n >= Rows THEN "finish" ELSE IF cancel THEN "cancelled" ELSE "chunk",
                     done |-> n, committed |-> report.committed, skipped |-> report.skipped]]
    /\ UNCHANGED <<vars, batchVars, target, kind, late, times, lost>>

ChunkOf(w) == {r \in Row : r > slice[w].done /\ r <= slice[w].done + Chunk}
DoneAfter(w) == slice[w].done + Cardinality(ChunkOf(w))

\* One transaction: the chunk's rows and the progress together.
ValidateChunk(w) ==
    /\ slice[w].at = "chunk" /\ Phase(w) = "validating"
    /\ LET n == slice[w].done
           P == PlanRows(target, n, {r \in 1..n : plan[r].action = "create"})
       IN  plan' = StorePlanned(P, ChunkOf(w))
    /\ done' = DoneAfter(w)
    /\ slice' = [slice EXCEPT ![w].at = "after", ![w].done = DoneAfter(w)]
    /\ UNCHANGED <<vars, status, file, bad, cancel, report, results,
                   target, kind, late, times, lost>>

\* The records as the slice's transaction sees them: its own writes included.
Seen(w) == IF Atomic(w) THEN Applied(target, slice[w].committed) ELSE target

\* Rows of the chunk that apply_chunk has not dealt with before.
OpenRows(w) == ChunkOf(w) \ (results \cup slice[w].skipped)

\* apply_chunk raises: the chunk, or the whole atomic commit, is rolled back.
ChunkRefused(w) ==
    LET P == PlanRows(Seen(w), slice[w].done, {})
    IN  /\ slice[w].at = "chunk" /\ Phase(w) = "committing"
        /\ \/ Stale(P, OpenRows(w))
           \/ Atomic(w) /\ Writes(P) \cap OpenRows(w) # {}
        /\ Goto(w, "failing")
        /\ UNCHANGED <<vars, batchVars, target, kind, late, times, lost>>

\* apply_chunk of a partial commit: rows, results, report and progress together.
CommitChunk(w) ==
    LET P == PlanRows(target, slice[w].done, {})
        todo == Writes(P) \cap OpenRows(w)
    IN  /\ slice[w].at = "chunk" /\ Phase(w) = "committing" /\ ~Atomic(w)
        /\ ~Stale(P, OpenRows(w))
        /\ \E ok \in Outcomes(target, todo) :
             LET com == slice[w].committed \cup (ChunkOf(w) \cap results) \cup ok
                 skp == slice[w].skipped \cup (todo \ ok)
                          \cup {r \in OpenRows(w) : P[r].action = "error"}
             IN  /\ target' = Applied(target, ok)
                 /\ results' = results \cup ok
                 /\ times' = [r \in Row |-> times[r] + (IF r \in ok THEN 1 ELSE 0)]
                 /\ plan' = Persisted(plan, todo \ ok)
                 /\ report' = [report EXCEPT !.committed = com, !.skipped = skp]
                 /\ slice' = [slice EXCEPT ![w] =
                        [at |-> "after", done |-> DoneAfter(w), committed |-> com, skipped |-> skp]]
        /\ done' = DoneAfter(w)
        /\ UNCHANGED <<vars, status, file, bad, cancel, kind, late, lost>>

\* apply_chunk of an atomic commit: nothing leaves the open transaction.
ApplyChunk(w) ==
    LET P == PlanRows(Seen(w), slice[w].done, {})
    IN  /\ slice[w].at = "chunk" /\ Atomic(w)
        /\ ~Stale(P, OpenRows(w))
        /\ slice' = [slice EXCEPT ![w].at = "after", ![w].done = DoneAfter(w),
                                  ![w].committed = @ \cup (Writes(P) \cap OpenRows(w))]
        /\ UNCHANGED <<vars, batchVars, target, kind, late, times, lost>>

\* After a chunk: publish progress, stop if cancelled, else go on.
SliceGoesOn(w) ==
    /\ slice[w].at = "after"
    /\ done' = slice[w].done
    /\ Goto(w, IF cancel THEN "cancelled" ELSE IF slice[w].done < Rows THEN "chunk" ELSE "finish")
    /\ UNCHANGED <<vars, status, file, bad, cancel, report, plan, results,
                   target, kind, late, times, lost>>

\* Fault: the continuation is forgotten.
SliceStops(w) ==
    /\ slice[w].at = "after" /\ ~Atomic(w)
    /\ ~cancel /\ slice[w].done < Rows
    /\ Goto(w, "ending")
    /\ UNCHANGED <<vars, batchVars, target, kind, late, times, lost>>

\* After a chunk, past the deadline: the rest is left to a continuation.
SliceYields(w) ==
    /\ slice[w].at = "after" /\ ~Atomic(w)
    /\ ~cancel /\ slice[w].done < Rows
    /\ EnqueueSlice(Phase(w))
    /\ Goto(w, "ending")
    /\ UNCHANGED <<batchVars, target, late, times, lost>>

\* Fault: the last update does not ask for the flag again.
FlagUnseen == TRUE

\* WHERE NOT cancel_requested, in the update that settles the phase.
NotCancelled == ~cancel

FinishCancelled(w) ==
    /\ slice[w].at = "finish" /\ ~NotCancelled
    /\ Goto(w, "cancelled")
    /\ UNCHANGED <<vars, batchVars, target, kind, late, times, lost>>

FinishValidation(w) ==
    /\ slice[w].at = "finish" /\ Phase(w) = "validating" /\ NotCancelled
    /\ status' = Verdict(plan)
    /\ Goto(w, "ending")
    /\ UNCHANGED <<vars, file, bad, cancel, done, report, plan, results,
                   target, kind, late, times, lost>>

\* finish; an atomic commit saves its report and commits its rows with it.
FinishCommit(w) ==
    /\ slice[w].at = "finish" /\ Phase(w) = "committing" /\ NotCancelled
    /\ status' = "committed"
    /\ IF Atomic(w)
       THEN LET new == slice[w].committed \ results
            IN  /\ target' = Applied(target, new)
                /\ results' = results \cup new
                /\ times' = [r \in Row |-> times[r] + (IF r \in new THEN 1 ELSE 0)]
                /\ report' = [report EXCEPT !.committed = slice[w].committed]
       ELSE UNCHANGED <<target, results, times, report>>
    /\ Goto(w, "ending")
    /\ UNCHANGED <<vars, file, bad, cancel, done, plan, kind, late, lost>>

\* The lock is given back and the handler returns.
SliceEnds(w) ==
    /\ slice[w].at = "ending"
    /\ HandlerReturns(w)
    /\ slice' = [slice EXCEPT ![w] = NoSlice]
    /\ UNCHANGED <<batchVars, target, kind, late, times, lost>>

\* Fault: giving up is left to the runner, which knows nothing of the batch.
SliceRaises(w) ==
    /\ stage[w] = "claimed" /\ slice[w].at \in Held \cup {"none"}
    /\ HandlerTransient(w)
    /\ slice' = [slice EXCEPT ![w] = NoSlice]
    /\ UNCHANGED <<batchVars, target, kind, late, times, lost>>

\* The connection is lost, before the lock is taken, while it is held or as it is given
\* back: retried, or given up.
SliceTransient(w) ==
    /\ stage[w] = "claimed" /\ slice[w].at \in Held \cup {"none"}
    /\ \/ /\ Exhausted(job[w])
          /\ Goto(w, "failing")
          /\ UNCHANGED vars
       \/ /\ ~Exhausted(job[w])
          /\ HandlerTransient(w)
          /\ slice' = [slice EXCEPT ![w] = NoSlice]
    /\ UNCHANGED <<batchVars, target, kind, late, times, lost>>

\* Any other error, as of the file store.
SliceFails(w) ==
    /\ slice[w].at \in Held \ {"ending"}
    /\ Goto(w, "failing")
    /\ UNCHANGED <<vars, batchVars, target, kind, late, times, lost>>

BatchSettled == status \in {"committed", "cancelled", "failed"}

\* terminal, outside the slice's lock: a settled batch stays as it is.
Terminal(w) ==
    LET cancelled == slice[w].at = "cancelled"
    IN  /\ slice[w].at \in {"cancelled", "failing"}
        /\ IF BatchSettled THEN UNCHANGED <<status, plan, report>>
           ELSE /\ status' = IF cancelled THEN "cancelled" ELSE "failed"
                /\ plan' = IF cancelled /\ status = "validating" THEN [r \in Row |-> NoPlan] ELSE plan
                /\ report' = IF cancelled /\ report.mode = "atomic"
                             THEN [report EXCEPT !.committed = {}] ELSE report
        /\ IF cancelled THEN HandlerReturns(w) ELSE HandlerFails(w)
        /\ slice' = [slice EXCEPT ![w] = NoSlice]
        /\ UNCHANGED <<file, bad, cancel, done, results, target, kind, late, times, lost>>

\* terminal itself loses its connection: the job is buried, the batch left as it is.
TerminalLost(w) ==
    /\ slice[w].at \in {"cancelled", "failing"}
    /\ HandlerFails(w)
    /\ slice' = [slice EXCEPT ![w] = NoSlice]
    /\ lost' = TRUE
    /\ UNCHANGED <<batchVars, target, kind, late, times>>

-----------------------------------------------------------------------------

\* Somebody else creates or changes the record, unless a transaction has it locked.
Edit(r, same) ==
    /\ target[r].version < MaxVersion
    /\ \A w \in Worker : slice[w].at \in Held /\ Atomic(w) => r \notin slice[w].committed
    /\ target' = [target EXCEPT ![r] = [version |-> @.version + 1, same |-> same]]
    /\ UNCHANGED <<vars, batchVars, kind, slice, late, times, lost>>

\* A tick records an outcome, or waits for its next job.
QueueStep ==
    /\ \/ \E j \in Job : BecomesDue(j)
       \/ \E w \in Worker : \/ \E j \in Job : Claim(w, j)
                            \/ Complete(w) \/ Retry(w) \/ Dead(w) \/ CompleteFails(w)
    /\ UNCHANGED importVars

\* The tick dies; the server rolls back its transaction and drops its lock.
SliceCrash(w) ==
    /\ Crash(w)
    /\ slice' = [slice EXCEPT ![w] = NoSlice]
    /\ UNCHANGED <<batchVars, target, kind, late, times, lost>>

SliceStep(w) ==
    \/ SliceBegin(w) \/ ValidateChunk(w) \/ CommitChunk(w) \/ ApplyChunk(w) \/ ChunkRefused(w)
    \/ SliceGoesOn(w) \/ SliceYields(w)
    \/ FinishCancelled(w) \/ FinishValidation(w) \/ FinishCommit(w)
    \/ SliceEnds(w) \/ Terminal(w)

ImportNext ==
    \/ \E m \in Mappings[file] : Upload(m) \/ SaveMapping(m)
    \/ ValidateNow \/ ValidateLater
    \/ \E mode \in {"atomic", "partial"} : CommitNow(mode) \/ CommitLater(mode)
    \/ CommitRollsBack \/ RecordRollback
    \/ Cancel
    \/ \E r \in Contended, same \in BOOLEAN : Edit(r, same)
    \/ QueueStep
    \/ \E w \in Worker : SliceStep(w) \/ SliceTransient(w) \/ SliceFails(w) \/ TerminalLost(w)
                            \/ SliceCrash(w)

\* The cron keeps ticking and a slice that is not killed goes on.
ImportFairness ==
    /\ \A w \in Worker :
        /\ WF_allVars(SliceStep(w))
        /\ WF_allVars(Complete(w) /\ UNCHANGED importVars)
        /\ WF_allVars(Retry(w) /\ UNCHANGED importVars)
        /\ WF_allVars(Dead(w) /\ UNCHANGED importVars)
    /\ WF_allVars((\E w \in Worker, j \in Job : Claim(w, j)) /\ UNCHANGED importVars)
    /\ \A j \in Job : WF_allVars(BecomesDue(j) /\ UNCHANGED importVars)

ImportSpec == ImportInit /\ [][ImportNext]_allVars /\ ImportFairness

-----------------------------------------------------------------------------
(* Properties.                                                               *)

\* However often slices are retried, duplicated by a continuation or killed, a row
\* is applied at most once; and the report of a committed batch accounts for every
\* row: applied ones are exactly those with a result, the rest was skipped or unchanged.
RowsAppliedOnce ==
    /\ \A r \in Row : times[r] = (IF r \in results THEN 1 ELSE 0)
    /\ status = "committed" =>
        /\ report.committed = results
        /\ \A r \in Row : r \in results \cup report.skipped \/ plan[r].action = "skip"

\* A cancellation that was acknowledged is never overtaken by the end of the phase
\* (the conditional updates of validate and finish), and a cancelled atomic commit
\* has applied nothing.
CancellationHolds ==
    /\ cancel => status \notin {"validated", "failed_validation", "committed"}
    /\ status = "cancelled" /\ report.mode = "atomic" => results = {} /\ report.committed = {}

\* A row is applied only while its record is still at the version previewed to the
\* user: what somebody else changed since the validation is never overwritten.  And once
\* a batch is cancelled, no slice still running, and no duplicate of one, applies another:
\* terminal runs outside the slices' lock.
NothingOverwritten ==
    [][\A r \in results' \ results :
          /\ status # "cancelled"
          /\ plan[r].action \in {"create", "update"}
          /\ plan[r].token = target[r].version]_allVars

Working == status \in {"validating", "committing"}

\* A batch handed to the workers comes to an end (settled, or validated), unless a
\* tick died on it or a slice could not write the outcome.
BatchesSettle == Working ~> (~Working \/ lost \/ crashes > 0)

\* The job is held by a tick that has not done with it.
AtIt(j) ==
    \E w \in Worker :
        /\ job[w] = j
        /\ stage[w] = "retrying" \/ (stage[w] = "claimed" /\ slice[w].at # "ending")

\* The job is waiting, in hand, or left as running by a tick that died, which nothing
\* takes up again.
Abandoned(j) == crashes > 0 /\ \A w \in Worker : stage[w] # "idle" => job[w] # j

StillOpen(j) == state[j] = "queued" \/ (state[j] = "running" /\ (AtIt(j) \/ Abandoned(j)))

\* A batch is never under way with nobody to end it: through continuations, duplicates,
\* retries and exhausted attempts a job of its phase is still open, unless the slice that
\* ended the last one could not record how.
NoBatchForgotten ==
    Working /\ ~lost => \E j \in Job : kind[j] = status /\ StillOpen(j)
=============================================================================
