---- MODULE RetryQueue ----
(***************************************************************************)
(* The persistent retry queue, src/retry-queue/retry-queue.service.ts.     *)
(*                                                                         *)
(* Every await of the service is a point where another invocation may run, *)
(* so one call of processDueJobs or manualRetry is a sequence of actions   *)
(* of a "worker": a slot that holds one such call in flight.  setInterval  *)
(* has no re-entrancy guard, so several polls may be in flight at once.    *)
(* The rows are read into memory (snap) and later written back by id with  *)
(* no condition, which is how the code uses the table.                     *)
(*                                                                         *)
(* Time is abstracted: a backing-off row becomes due (next_attempt_at has  *)
(* passed) and a processing row becomes stale (updated_at is older than    *)
(* staleProcessingMs) by steps of their own.                               *)
(***************************************************************************)
EXTENDS Integers, FiniteSets

CONSTANTS Jobs,          \* idempotency keys; the column is UNIQUE, a key is a row
          Handled,       \* the jobs whose job_type has a registered handler
          Workers,       \* calls of processDueJobs / manualRetry in flight at once
          MaxAttempts,   \* RETRY_QUEUE_MAX_ATTEMPTS, stored as max_attempts
          Concurrency,   \* RETRY_QUEUE_CONCURRENCY, the LIMIT of the poll's query
          SlowHandlers,  \* may a handler outlive staleProcessingMs?
          MaxFaults,     \* bound: crashes and failed database calls of a behaviour
          MaxManual,     \* bound: POST /retry-queue/:id/retry calls of a behaviour
          AttemptCap,    \* bound: highest attempt number a behaviour starts
          NoJob

ASSUME QueueAssumption ==
    /\ Handled \subseteq Jobs
    /\ NoJob \notin Jobs
    /\ MaxAttempts \in Nat \ {0}
    /\ Concurrency \in Nat \ {0}
    /\ SlowHandlers \in BOOLEAN
    /\ MaxFaults \in Nat
    /\ MaxManual \in Nat
    /\ AttemptCap \in Nat

VARIABLES
    job,       \* the retry_jobs table
    run,       \* the calls in flight
    done,      \* history: jobs one of whose handler calls resolved
    exhausted, \* history: jobs one of whose last allowed attempts threw
    faults,    \* history: faults so far
    manual     \* history: manual retries so far

vars == <<job, run, done, exhausted, faults, manual>>

RetryJobStatus == {"absent", "pending", "processing", "succeeded", "failed"}

RetryJob == [status : RetryJobStatus, attempts : Nat, due : BOOLEAN, stale : BOOLEAN]

\* kind: who called; pc: the await the call is suspended in; todo: the rest of
\* the loop's list; snap: the attempts the rows had when they were read;
\* cur: the job of processJob; ok: how the handler ended.
Run == [kind : {"poll", "manual"},
        pc   : {"idle", "reclaim", "batch", "handler", "finish"},
        todo : SUBSET Jobs,
        snap : [Jobs -> Nat],
        cur  : Jobs \cup {NoJob},
        ok   : BOOLEAN]

NoSnap == [j \in Jobs |-> 0]

Idle == [kind |-> "poll", pc |-> "idle", todo |-> {}, snap |-> NoSnap,
         cur |-> NoJob, ok |-> FALSE]

Init ==
    /\ job = [j \in Jobs |-> [status |-> "absent", attempts |-> 0,
                              due |-> FALSE, stale |-> FALSE]]
    /\ run = [w \in Workers |-> Idle]
    /\ done = {}
    /\ exhausted = {}
    /\ faults = 0
    /\ manual = 0

(***************************************************************************)
(* enqueue                                                                 *)
(***************************************************************************)

\* A bug to catch: the insert becomes an upsert, and a repeated enqueue
\* resets the row.
EnqueueUpserts(j) ==
    /\ job' = [job EXCEPT ![j] = [status |-> "pending", attempts |-> 0,
                                  due |-> TRUE, stale |-> FALSE]]
    /\ UNCHANGED <<run, done, exhausted, faults, manual>>

\* A call whose key is known, found by the first select or by the unique
\* violation of a racing insert, returns the row and changes nothing: only the
\* insert that wins is a step.
Enqueue(j) ==
    /\ job[j].status = "absent"
    /\ job' = [job EXCEPT ![j] = [status |-> "pending", attempts |-> 0,
                                  due |-> TRUE, stale |-> FALSE]]
    /\ UNCHANGED <<run, done, exhausted, faults, manual>>

(***************************************************************************)
(* updateJob: every write goes by id alone and renews updated_at.          *)
(***************************************************************************)

\* A bug to catch: a job that is given up gets a status the table does not know.
updateJobUnknownStatus(j, s) ==
    job' = [job EXCEPT ![j].status = IF s = "failed" THEN "error" ELSE s, ![j].stale = FALSE]

updateJob(j, s) ==
    job' = [job EXCEPT ![j].status = s, ![j].stale = FALSE]

InFlight(j) == \E w \in Workers : run[w].cur = j

(***************************************************************************)
(* processDueJobs: reclaim the stale rows one by one, then read the due    *)
(* rows, then process them one after the other.                            *)
(***************************************************************************)
ReclaimSelect(w) ==
    /\ run[w].pc = "idle"
    /\ run' = [run EXCEPT ![w].pc = "reclaim",
                          ![w].todo = {j \in Jobs : /\ job[j].status = "processing"
                                                    /\ job[j].stale}]
    /\ UNCHANGED <<job, done, exhausted, faults, manual>>

\* Its error is ignored: no data reads as no stale row.
ReclaimSelectFails(w) ==
    /\ faults < MaxFaults
    /\ run[w].pc = "idle"
    /\ faults' = faults + 1
    /\ run' = [run EXCEPT ![w].pc = "reclaim"]
    /\ UNCHANGED <<job, done, exhausted, manual>>

\* A bug to catch: the stale rows are logged and left as they are.
ReclaimJobSkipsUpdate(w, j) ==
    /\ run[w].pc = "reclaim"
    /\ j \in run[w].todo
    /\ run' = [run EXCEPT ![w].todo = @ \ {j}]
    /\ UNCHANGED <<job, done, exhausted, faults, manual>>

ReclaimJob(w, j) ==
    /\ run[w].pc = "reclaim"
    /\ j \in run[w].todo
    /\ updateJob(j, "pending")
    /\ run' = [run EXCEPT ![w].todo = @ \ {j}]
    /\ UNCHANGED <<done, exhausted, faults, manual>>

Due == {j \in Jobs : job[j].status = "pending" /\ job[j].due}

\* The rows come oldest first; the order is left open here.
SelectDue(w) ==
    /\ run[w].pc = "reclaim"
    /\ run[w].todo = {}
    /\ \E batch \in SUBSET Due :
          /\ Cardinality(batch) = IF Cardinality(Due) < Concurrency
                                  THEN Cardinality(Due) ELSE Concurrency
          /\ run' = [run EXCEPT ![w] =
                IF batch = {} THEN Idle
                ELSE [@ EXCEPT !.pc = "batch",
                               !.todo = batch,
                               !.snap = [j \in Jobs |-> IF j \in batch
                                                        THEN job[j].attempts ELSE 0]]]
    /\ UNCHANGED <<job, done, exhausted, faults, manual>>

(***************************************************************************)
(* manualRetry: read the row, refuse a succeeded or processing one, then   *)
(* processJob on what was read.                                            *)
(***************************************************************************)
ManualRetry(w, j) ==
    /\ manual < MaxManual
    /\ run[w].pc = "idle"
    /\ job[j].status \in {"pending", "failed"}
    /\ run' = [run EXCEPT ![w] = [Idle EXCEPT !.kind = "manual",
                                              !.pc = "batch",
                                              !.todo = {j},
                                              !.snap = [NoSnap EXCEPT ![j] = job[j].attempts]]]
    /\ manual' = manual + 1
    /\ UNCHANGED <<job, done, exhausted, faults>>

(***************************************************************************)
(* processJob                                                              *)
(***************************************************************************)

\* A bug to catch: the attempt is numbered only when it fails.
StartJobKeepsAttempts(w, j) ==
    /\ run[w].pc = "batch"
    /\ j \in run[w].todo
    /\ run[w].snap[j] < AttemptCap
    /\ job' = [job EXCEPT ![j].status = "processing", ![j].stale = FALSE]
    /\ run' = [run EXCEPT ![w].pc = "handler", ![w].todo = @ \ {j}, ![w].cur = j]
    /\ UNCHANGED <<done, exhausted, faults, manual>>

StartJob(w, j) ==
    /\ run[w].pc = "batch"
    /\ j \in run[w].todo
    /\ run[w].snap[j] < AttemptCap
    /\ job' = [job EXCEPT ![j].status = "processing", ![j].stale = FALSE,
                          ![j].attempts = run[w].snap[j] + 1]
    /\ run' = [run EXCEPT ![w].pc = "handler", ![w].todo = @ \ {j}, ![w].cur = j]
    /\ UNCHANGED <<done, exhausted, faults, manual>>

HandlerResolves(w) ==
    /\ run[w].pc = "handler"
    /\ run[w].cur \in Handled
    /\ run' = [run EXCEPT ![w].pc = "finish", ![w].ok = TRUE]
    /\ done' = done \cup {run[w].cur}
    /\ UNCHANGED <<job, exhausted, faults, manual>>

HandlerThrows(w) ==
    /\ run[w].pc = "handler"
    /\ run[w].cur \in Handled
    /\ run' = [run EXCEPT ![w].pc = "finish", ![w].ok = FALSE]
    /\ exhausted' = IF run[w].snap[run[w].cur] + 1 >= MaxAttempts
                    THEN exhausted \cup {run[w].cur} ELSE exhausted
    /\ UNCHANGED <<job, done, faults, manual>>

\* The loop of processDueJobs goes on to the next row, or the call returns.
NextRow(w) ==
    run' = [run EXCEPT ![w] =
              IF @.todo = {} THEN Idle
              ELSE [@ EXCEPT !.pc = "batch", !.cur = NoJob, !.ok = FALSE,
                             !.snap[run[w].cur] = 0]]

NoHandler(w) ==
    /\ run[w].pc = "handler"
    /\ run[w].cur \notin Handled
    /\ updateJob(run[w].cur, "failed")
    /\ NextRow(w)
    /\ UNCHANGED <<done, exhausted, faults, manual>>

FinishSucceeded(w) ==
    /\ run[w].pc = "finish"
    /\ run[w].ok
    /\ updateJob(run[w].cur, "succeeded")
    /\ NextRow(w)
    /\ UNCHANGED <<done, exhausted, faults, manual>>

\* A bug to catch: the job is given up one attempt early.
LastAttemptOffByOne(w) == run[w].snap[run[w].cur] + 2 >= MaxAttempts

\* A bug to catch: the job is given up one attempt late.
LastAttemptTooLate(w) == run[w].snap[run[w].cur] + 1 > MaxAttempts

LastAttempt(w) == run[w].snap[run[w].cur] + 1 >= MaxAttempts

FinishFailed(w) ==
    /\ run[w].pc = "finish"
    /\ ~run[w].ok
    /\ LastAttempt(w)
    /\ updateJob(run[w].cur, "failed")
    /\ NextRow(w)
    /\ UNCHANGED <<done, exhausted, faults, manual>>

FinishBackoff(w) ==
    /\ run[w].pc = "finish"
    /\ ~run[w].ok
    /\ ~LastAttempt(w)
    /\ job' = [job EXCEPT ![run[w].cur].status = "pending",
                          ![run[w].cur].stale = FALSE,
                          ![run[w].cur].due = FALSE]
    /\ NextRow(w)
    /\ UNCHANGED <<done, exhausted, faults, manual>>

(***************************************************************************)
(* Time and faults                                                         *)
(***************************************************************************)

\* computeBackoffMs has passed since the attempt failed.
BackoffElapses(j) ==
    /\ job[j].status = "pending"
    /\ ~job[j].due
    /\ job' = [job EXCEPT ![j].due = TRUE]
    /\ UNCHANGED <<run, done, exhausted, faults, manual>>

\* staleProcessingMs has passed since the row was written.
GoesStale(j) ==
    /\ job[j].status = "processing"
    /\ ~job[j].stale
    /\ SlowHandlers \/ ~InFlight(j)
    /\ job' = [job EXCEPT ![j].stale = TRUE]
    /\ UNCHANGED <<run, done, exhausted, faults, manual>>

\* The process dies and takes every call in flight with it.  This is also what
\* becomes of a poll whose updateJob throws: nothing handles its rejection.
Crash ==
    /\ faults < MaxFaults
    /\ faults' = faults + 1
    /\ run' = [w \in Workers |-> Idle]
    /\ UNCHANGED <<job, done, exhausted, manual>>

\* The poll's query fails, is logged and the poll returns.
SelectFails(w) ==
    /\ faults < MaxFaults
    /\ run[w].pc = "reclaim"
    /\ run[w].todo = {}
    /\ faults' = faults + 1
    /\ run' = [run EXCEPT ![w] = Idle]
    /\ UNCHANGED <<job, done, exhausted, manual>>

\* A write of a manual retry fails: the request ends, the row stays as it is.
ManualUpdateFails(w) ==
    /\ faults < MaxFaults
    /\ run[w].kind = "manual"
    /\ run[w].pc \in {"batch", "finish"}
    /\ faults' = faults + 1
    /\ run' = [run EXCEPT ![w] = Idle]
    /\ UNCHANGED <<job, done, exhausted, manual>>

----
WorkerStep(w) ==
    \/ ReclaimSelect(w)
    \/ \E j \in Jobs : ReclaimJob(w, j)
    \/ SelectDue(w)
    \/ \E j \in Jobs : StartJob(w, j)
    \/ HandlerResolves(w)
    \/ HandlerThrows(w)
    \/ NoHandler(w)
    \/ FinishSucceeded(w)
    \/ FinishFailed(w)
    \/ FinishBackoff(w)

Next ==
    \/ \E j \in Jobs : Enqueue(j) \/ BackoffElapses(j) \/ GoesStale(j)
    \/ \E w \in Workers :
          \/ WorkerStep(w)
          \/ \E j \in Jobs : ManualRetry(w, j)
          \/ ReclaimSelectFails(w)
          \/ SelectFails(w)
          \/ ManualUpdateFails(w)
    \/ Crash

Spec == Init /\ [][Next]_vars

\* setInterval fires for ever, fetch settles, time passes.  Nothing is assumed
\* of clients, administrators or faults.
Fairness ==
    /\ \A w \in Workers : WF_vars(WorkerStep(w))
    /\ \A j \in Jobs : WF_vars(BackoffElapses(j)) /\ WF_vars(GoesStale(j))

FairSpec == Spec /\ Fairness
----
(***************************************************************************)
(* Properties                                                              *)
(***************************************************************************)

\* The table's rows and the calls in flight keep their shape.
TypeOK ==
    /\ job \in [Jobs -> RetryJob]
    /\ run \in [Workers -> Run]
    /\ done \subseteq Jobs
    /\ exhausted \subseteq Jobs
    /\ faults \in 0..MaxFaults
    /\ manual \in 0..MaxManual

\* However the calls overlap, a row says succeeded only if its handler has
\* really resolved once, and failed only if nobody handles its type or its last
\* allowed attempt really threw: processJob never reports another job's outcome.
OutcomeIsReal ==
    \A j \in Jobs :
        /\ job[j].status = "succeeded" => j \in done
        /\ job[j].status = "failed" => j \in exhausted \/ j \notin Handled

\* Only one call of the service is ever in flight.
Serial == \A v, w \in Workers : v = w

\* With one call in flight at a time the number of attempts stays within
\* max_attempts, plus one for each fault that orphaned a job in processing and
\* one for each attempt an administrator forced.
AttemptBudget ==
    \A j \in Jobs : job[j].attempts <= MaxAttempts + faults + manual

\* With one call in flight at a time, a job whose handler has resolved is only
\* run again when a fault kept its outcome from being written.
RerunOnlyAfterFault ==
    \A j \in done : \/ job[j].status = "succeeded"
                    \/ \E w \in Workers : run[w].cur = j /\ run[w].ok
                    \/ faults > 0

JobSpec == INSTANCE RetryJob WITH status   <- [j \in Jobs |-> job[j].status],
                                  attempts <- [j \in Jobs |-> job[j].attempts]

\* With one call in flight at a time the table behaves like RetryJob.
ImplementsRetryJob == JobSpec!Spec

\* A job that succeeded is never run again: manualRetry answers "already
\* succeeded - nothing to retry" and a poll only takes pending rows.
SucceededIsFinal ==
    [][\A j \in Jobs : job[j].status = "succeeded" => job'[j].status = "succeeded"]_vars

\* However polls overlap and whatever crashes, every job that is enqueued ends
\* up succeeded or failed for good: stale rows are reclaimed, retries run out.
Settles ==
    \A j \in Jobs :
        job[j].status # "absent" ~> [](job[j].status \in {"succeeded", "failed"})
====
