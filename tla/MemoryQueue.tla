---- MODULE MemoryQueue ----
(***************************************************************************)
(* The in-memory queue of src/common/retry/retry-queue.service.ts, which   *)
(* carries sync, reconcile and milestone jobs.  Its Map and its handlers   *)
(* die with the process; a handler that is waiting for Trustless Work then *)
(* dies with it.  Time is abstracted to whether a job is due.              *)
(***************************************************************************)
EXTENDS Calls

CONSTANTS Ticks,         \* polls of the timer that may run at once
          MaxMemoryJobs, \* bound: jobs ever enqueued
          maxRetries

VARIABLES queue,         \* the Map, by id
          handlers,      \* job types with a handler
          processing,    \* the concurrency guard
          polls,         \* by tick: the due jobs it still has to run and the one it runs
          successes,     \* history: times the handler of a job succeeded
          failures       \* history: times it failed since the job was last queued anew

memoryVars == <<queue, handlers, processing, polls, successes, failures>>

MemoryJobs == 1..MaxMemoryJobs

JobTypes == {"sync_agreement", "reconcile_agreement", "milestone_sync"}

MemoryRow == [status     : {"queued", "processing", "completed", "failed"},
              type       : JobTypes,
              retryCount : Nat,
              due        : BOOLEAN]

Forgotten == [status |-> "forgotten"]

ASSUME MemoryQueueAssumption ==
    /\ MaxMemoryJobs \in Nat
    /\ maxRetries \in Nat \ {0}
    /\ Nothing \notin MemoryRow \cup {Forgotten}

NoPoll == [due |-> {}, job |-> 0, running |-> FALSE]

MemoryInit ==
    /\ queue = [j \in MemoryJobs |-> Nothing]
    /\ handlers = {}
    /\ processing = FALSE
    /\ polls = [t \in Ticks |-> NoPoll]
    /\ successes = [j \in MemoryJobs |-> 0]
    /\ failures = [j \in MemoryJobs |-> 0]

Has(j, statuses) == queue[j] # Nothing /\ queue[j].status \in statuses

registerHandler(type) ==
    /\ type \notin handlers
    /\ handlers' = handlers \cup {type}
    /\ UNCHANGED <<queue, processing, polls, successes, failures, callVars>>

\* syncAgreement and reconcileAgreement with useRetryQueue, and enqueueRetry.
MemoryEnqueue(j, type) ==
    /\ queue[j] = Nothing
    /\ \A i \in 1..(j - 1) : queue[i] # Nothing
    /\ queue' = [queue EXCEPT ![j] = [status |-> "queued", type |-> type, retryCount |-> 0,
                                      due |-> TRUE]]
    /\ UNCHANGED <<handlers, processing, polls, successes, failures, callVars>>

MemoryDue == {j \in MemoryJobs : Has(j, {"queued"}) /\ queue[j].due}

\* A bug to catch: a tick does not look whether the last one is over.
pollUnguarded(t) ==
    /\ ~polls[t].running
    /\ processing' = TRUE
    /\ polls' = [polls EXCEPT ![t] = [due |-> MemoryDue, job |-> 0, running |-> TRUE]]
    /\ UNCHANGED <<queue, handlers, successes, failures, callVars>>

\* The timer ticks.
processDueJobs(t) ==
    /\ ~polls[t].running
    /\ ~processing
    /\ processing' = TRUE
    /\ polls' = [polls EXCEPT ![t] = [due |-> MemoryDue, job |-> 0, running |-> TRUE]]
    /\ UNCHANGED <<queue, handlers, successes, failures, callVars>>

\* processJob up to its await, for the next due job.  The poll holds the job
\* itself, not its id: a job the queue has dropped is run all the same.
RunJob(t) ==
    /\ polls[t].running /\ polls[t].job = 0
    /\ \E j \in polls[t].due :
         /\ \A i \in polls[t].due : j <= i
         /\ IF queue[j].type \in handlers
            THEN /\ queue' = [queue EXCEPT ![j].status = "processing"]
                 /\ polls' = [polls EXCEPT ![t].due = @ \ {j}, ![t].job = j]
            ELSE /\ queue' = [queue EXCEPT ![j].due = FALSE]
                 /\ polls' = [polls EXCEPT ![t].due = @ \ {j}]
    /\ UNCHANGED <<handlers, processing, successes, failures, callVars>>

\* What each handler calls a success: a sync without errors, a reconcile that
\* reconciled, a push that Trustless Work accepted or refused for good (4xx).
\* What it refuses before the push, an escrow that is not funded, is a failure.
HandlerOutcome(type, answer) ==
    CASE type \in {"sync_agreement", "reconcile_agreement"} -> answer = "accepted"
      [] type = "milestone_sync" -> answer \in {"accepted", "refused"}

HandlerReturns(t, answer) ==
    /\ polls[t].job # 0
    /\ LET j == polls[t].job
           count == queue[j].retryCount + 1
       IN IF HandlerOutcome(queue[j].type, answer)
          THEN /\ queue' = [queue EXCEPT ![j].status = "completed"]
               /\ successes' = [successes EXCEPT ![j] = @ + 1]
               /\ UNCHANGED failures
          ELSE /\ queue' = [queue EXCEPT
                     ![j].retryCount = count, ![j].due = FALSE,
                     ![j].status = IF count >= maxRetries THEN "failed" ELSE "queued"]
               /\ failures' = [failures EXCEPT ![j] = @ + 1]
               /\ UNCHANGED successes
    /\ polls' = [polls EXCEPT ![t].job = 0]
    /\ UNCHANGED <<handlers, processing, callVars>>

PollEnds(t) ==
    /\ polls[t].running /\ polls[t].job = 0 /\ polls[t].due = {}
    /\ processing' = FALSE
    /\ polls' = [polls EXCEPT ![t] = NoPoll]
    /\ UNCHANGED <<queue, handlers, successes, failures, callVars>>

MemoryBackoffElapses(j) ==
    /\ Has(j, {"queued"}) /\ ~queue[j].due
    /\ queue' = [queue EXCEPT ![j].due = TRUE]
    /\ UNCHANGED <<handlers, processing, polls, successes, failures, callVars>>

retryJob(j) ==
    /\ Has(j, {"failed"})
    /\ queue' = [queue EXCEPT ![j].retryCount = 0, ![j].status = "queued", ![j].due = TRUE]
    /\ failures' = [failures EXCEPT ![j] = 0]
    /\ UNCHANGED <<handlers, processing, polls, successes, callVars>>

clearCompleted ==
    /\ queue' = [j \in MemoryJobs |-> IF Has(j, {"completed", "failed"}) THEN Forgotten
                                      ELSE queue[j]]
    /\ UNCHANGED <<handlers, processing, polls, successes, failures, callVars>>

MemoryRestart ==
    /\ faults < MaxFaults
    /\ faults' = faults + 1
    /\ queue' = [j \in MemoryJobs |-> IF queue[j] = Nothing THEN Nothing ELSE Forgotten]
    /\ handlers' = {}
    /\ processing' = FALSE
    /\ polls' = [t \in Ticks |-> NoPoll]
    /\ UNCHANGED <<successes, failures, call, load, served>>

MemoryNext ==
    \/ \E type \in JobTypes : registerHandler(type) \/ \E j \in MemoryJobs : MemoryEnqueue(j, type)
    \/ \E t \in Ticks :
         \/ processDueJobs(t) \/ RunJob(t) \/ PollEnds(t)
         \/ \E answer \in {"accepted", "refused", "failed"} : HandlerReturns(t, answer)
    \/ \E j \in MemoryJobs : MemoryBackoffElapses(j) \/ retryJob(j)
    \/ clearCompleted
    \/ MemoryRestart

MemorySpec == CallsInit /\ MemoryInit /\ [][MemoryNext]_<<memoryVars, callVars>>

(***************************************************************************)
(* Properties.                                                             *)
(***************************************************************************)

\* However ticks, retries and cleanups interleave, a job's work is done once:
\* a handler that succeeded is not run again, one that failed is run at most
\* maxRetries times for each time it was asked for, and failed is only what
\* has used them up.
MemoryJobRunsOnce ==
    \A j \in MemoryJobs :
        /\ successes[j] <= 1
        /\ failures[j] <= maxRetries
        /\ Has(j, {"completed"}) => successes[j] = 1
        /\ Has(j, {"failed"}) => failures[j] = maxRetries
        /\ Has(j, {"queued", "processing", "failed"}) => successes[j] = 0
====
