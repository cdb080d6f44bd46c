---- MODULE RetryJob ----
(***************************************************************************)
(* What the persistent retry queue promises of one row of retry_jobs: a    *)
(* job is submitted once, is attempted until it succeeds or has used up    *)
(* its attempts, may be picked up again when it was orphaned, may be       *)
(* forced by an administrator after it failed, and is never touched again  *)
(* once it succeeded.  RetryQueue is the detailed specification.           *)
(***************************************************************************)
EXTENDS Integers

CONSTANTS Jobs,         \* idempotency keys, one row of retry_jobs each
          Handled,      \* the jobs whose job_type has a registered handler
          MaxAttempts   \* retry_jobs.max_attempts

VARIABLES status,       \* retry_jobs.status, "absent" before the insert
          attempts      \* retry_jobs.attempts

vars == <<status, attempts>>

Init ==
    /\ status = [j \in Jobs |-> "absent"]
    /\ attempts = [j \in Jobs |-> 0]

Submit(j) ==
    /\ status[j] = "absent"
    /\ status' = [status EXCEPT ![j] = "pending"]
    /\ UNCHANGED attempts

\* An attempt is numbered one higher than the last one, whoever starts it.
Begin(j) ==
    /\ status[j] \in {"pending", "failed"}
    /\ status' = [status EXCEPT ![j] = "processing"]
    /\ attempts' = [attempts EXCEPT ![j] = @ + 1]

Succeed(j) ==
    /\ status[j] = "processing"
    /\ j \in Handled
    /\ status' = [status EXCEPT ![j] = "succeeded"]
    /\ UNCHANGED attempts

\* Giving up needs a reason: the attempts are used up or nobody can run it.
GiveUp(j) ==
    /\ status[j] = "processing"
    /\ attempts[j] >= MaxAttempts \/ j \notin Handled
    /\ status' = [status EXCEPT ![j] = "failed"]
    /\ UNCHANGED attempts

\* Back to pending after a failed attempt, or after the attempt was orphaned.
Requeue(j) ==
    /\ status[j] = "processing"
    /\ status' = [status EXCEPT ![j] = "pending"]
    /\ UNCHANGED attempts

Next == \E j \in Jobs :
            Submit(j) \/ Begin(j) \/ Succeed(j) \/ GiveUp(j) \/ Requeue(j)

Spec == Init /\ [][Next]_vars
====
