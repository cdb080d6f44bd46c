---- MODULE RetryQueueProofs ----
(***************************************************************************)
(* Proofs about RetryQueue for any jobs, workers and limits.               *)
(***************************************************************************)
EXTENDS RetryQueue, TLAPS

(***************************************************************************)
(* Types.  TypeOK alone does not say which job a suspended processJob is   *)
(* about, and its writes go to that row.                                   *)
(***************************************************************************)
CurIsJob == \A w \in Workers : run[w].pc \in {"handler", "finish"} => run[w].cur \in Jobs

TypeInv == TypeOK /\ CurIsJob

LEMMA IdleIsRun == Idle \in Run
  BY DEF Idle, Run, NoSnap

\* Going on to the next row keeps the call well formed, and not in processJob.
LEMMA NextRowTyped ==
  ASSUME TypeInv, NEW w \in Workers, run[w].cur \in Jobs, NextRow(w)
  PROVE  /\ run' \in [Workers -> Run]
         /\ CurIsJob'
         /\ \A v \in Workers \ {w} : run'[v] = run[v]
         /\ run'[w].pc \in {"idle", "batch"}
<1>1. run[w] \in Run
  BY DEF TypeInv, TypeOK
<1>2. /\ run'[w] \in Run
      /\ run'[w].pc \in {"idle", "batch"}
  <2>1. CASE run[w].todo = {}
    BY <2>1, IdleIsRun DEF NextRow, TypeInv, TypeOK, Idle
  <2>2. CASE run[w].todo # {}
    BY <1>1, <2>2 DEF NextRow, TypeInv, TypeOK, Run
  <2> QED  BY <2>1, <2>2
<1>3. /\ run' \in [Workers -> Run]
      /\ \A v \in Workers \ {w} : run'[v] = run[v]
  BY <1>2 DEF NextRow, TypeInv, TypeOK
<1>4. CurIsJob'
  BY <1>2, <1>3 DEF CurIsJob, TypeInv
<1> QED  BY <1>2, <1>3, <1>4

LEMMA TypeInvInit == Init => TypeInv
  BY QueueAssumption, IdleIsRun DEF Init, TypeInv, TypeOK, CurIsJob, RetryJob, RetryJobStatus, Idle

LEMMA TypeInvNext == TypeInv /\ [Next]_vars => TypeInv'
<1> SUFFICES ASSUME TypeInv, [Next]_vars PROVE TypeInv'
  OBVIOUS
<1> USE QueueAssumption
<1>1. CASE UNCHANGED vars
  BY <1>1 DEF vars, TypeInv, TypeOK, CurIsJob
<1>2. ASSUME NEW j \in Jobs, Enqueue(j) PROVE TypeInv'
  BY <1>2 DEF Enqueue, TypeInv, TypeOK, CurIsJob, RetryJob, RetryJobStatus
<1>3. ASSUME NEW j \in Jobs, BackoffElapses(j) PROVE TypeInv'
  BY <1>3 DEF BackoffElapses, TypeInv, TypeOK, CurIsJob, RetryJob
<1>4. ASSUME NEW j \in Jobs, GoesStale(j) PROVE TypeInv'
  BY <1>4 DEF GoesStale, TypeInv, TypeOK, CurIsJob, RetryJob
<1>5. ASSUME NEW w \in Workers, ReclaimSelect(w) PROVE TypeInv'
  <2>1. run[w] \in Run
    BY DEF TypeInv, TypeOK
  <2>2. /\ run'[w] \in Run
        /\ run'[w].pc \in {"handler", "finish"} => run'[w].cur \in Jobs
        /\ \A v \in Workers \ {w} : run'[v] = run[v]
    BY <1>5, <2>1 DEF ReclaimSelect, TypeInv, TypeOK, CurIsJob, Run
  <2>3. run' \in [Workers -> Run] /\ CurIsJob'
    BY <1>5, <2>2 DEF ReclaimSelect, TypeInv, TypeOK, CurIsJob
  <2> QED  BY <1>5, <2>1, <2>3 DEF ReclaimSelect, TypeInv, TypeOK, CurIsJob
<1>6. ASSUME NEW w \in Workers, NEW j \in Jobs, ReclaimJob(w, j) PROVE TypeInv'
  <2>1. run[w] \in Run
    BY DEF TypeInv, TypeOK
  <2>2. /\ run'[w] \in Run
        /\ run'[w].pc \in {"handler", "finish"} => run'[w].cur \in Jobs
        /\ \A v \in Workers \ {w} : run'[v] = run[v]
    BY <1>6, <2>1 DEF ReclaimJob, TypeInv, TypeOK, CurIsJob, Run
  <2>3. run' \in [Workers -> Run] /\ CurIsJob'
    BY <1>6, <2>2 DEF ReclaimJob, TypeInv, TypeOK, CurIsJob
  <2> QED  BY <1>6, <2>1, <2>3 DEF ReclaimJob, updateJob, RetryJob, RetryJobStatus, TypeInv, TypeOK, CurIsJob
<1>7. ASSUME NEW w \in Workers, SelectDue(w) PROVE TypeInv'
  <2>1. PICK batch \in SUBSET Due :
           run' = [run EXCEPT ![w] =
                IF batch = {} THEN Idle
                ELSE [@ EXCEPT !.pc = "batch",
                               !.todo = batch,
                               !.snap = [j \in Jobs |-> IF j \in batch
                                                        THEN job[j].attempts ELSE 0]]]
    BY <1>7 DEF SelectDue
  <2>2. [j \in Jobs |-> IF j \in batch THEN job[j].attempts ELSE 0] \in [Jobs -> Nat]
    BY DEF TypeInv, TypeOK, RetryJob
  <2>3. run'[w] \in Run /\ run'[w].pc \in {"idle", "batch"}
    BY <2>1, <2>2, IdleIsRun DEF TypeInv, TypeOK, Run, Due, Idle
  <2> QED  BY <1>7, <2>1, <2>3 DEF SelectDue, TypeInv, TypeOK, CurIsJob
<1>8. ASSUME NEW w \in Workers, NEW j \in Jobs, StartJob(w, j) PROVE TypeInv'
  BY <1>8 DEF StartJob, TypeInv, TypeOK, CurIsJob, Run, RetryJob, RetryJobStatus
<1>9. ASSUME NEW w \in Workers, HandlerResolves(w) PROVE TypeInv'
  <2>1. run[w] \in Run
    BY DEF TypeInv, TypeOK
  <2>2. /\ run'[w] \in Run
        /\ run'[w].pc \in {"handler", "finish"} => run'[w].cur \in Jobs
        /\ \A v \in Workers \ {w} : run'[v] = run[v]
    BY <1>9, <2>1 DEF HandlerResolves, TypeInv, TypeOK, CurIsJob, Run
  <2>3. run' \in [Workers -> Run] /\ CurIsJob'
    BY <1>9, <2>2 DEF HandlerResolves, TypeInv, TypeOK, CurIsJob
  <2> QED  BY <1>9, <2>1, <2>3 DEF HandlerResolves, TypeInv, TypeOK, CurIsJob
<1>10. ASSUME NEW w \in Workers, HandlerThrows(w) PROVE TypeInv'
  <2>1. run[w] \in Run
    BY DEF TypeInv, TypeOK
  <2>2. /\ run'[w] \in Run
        /\ run'[w].pc \in {"handler", "finish"} => run'[w].cur \in Jobs
        /\ \A v \in Workers \ {w} : run'[v] = run[v]
    BY <1>10, <2>1 DEF HandlerThrows, TypeInv, TypeOK, CurIsJob, Run
  <2>3. run' \in [Workers -> Run] /\ CurIsJob'
    BY <1>10, <2>2 DEF HandlerThrows, TypeInv, TypeOK, CurIsJob
  <2> QED  BY <1>10, <2>1, <2>3 DEF HandlerThrows, TypeInv, TypeOK, CurIsJob
<1>11. ASSUME NEW w \in Workers, NoHandler(w) PROVE TypeInv'
  BY <1>11, NextRowTyped DEF NoHandler, updateJob, TypeInv, TypeOK, CurIsJob, RetryJob, RetryJobStatus
<1>12. ASSUME NEW w \in Workers, FinishSucceeded(w) PROVE TypeInv'
  BY <1>12, NextRowTyped
     DEF FinishSucceeded, updateJob, TypeInv, TypeOK, CurIsJob, RetryJob, RetryJobStatus
<1>13. ASSUME NEW w \in Workers, FinishFailed(w) PROVE TypeInv'
  BY <1>13, NextRowTyped
     DEF FinishFailed, updateJob, TypeInv, TypeOK, CurIsJob, RetryJob, RetryJobStatus
<1>14. ASSUME NEW w \in Workers, FinishBackoff(w) PROVE TypeInv'
  BY <1>14, NextRowTyped
     DEF FinishBackoff, TypeInv, TypeOK, CurIsJob, RetryJob, RetryJobStatus
<1>15. ASSUME NEW w \in Workers, NEW j \in Jobs, ManualRetry(w, j) PROVE TypeInv'
  <2>1. [Idle EXCEPT !.kind = "manual", !.pc = "batch", !.todo = {j},
                     !.snap = [NoSnap EXCEPT ![j] = job[j].attempts]] \in Run
    BY DEF Idle, Run, NoSnap, TypeInv, TypeOK, RetryJob
  <2>2. run'[w].pc = "batch"
    BY <1>15 DEF ManualRetry, Idle, TypeInv, TypeOK
  <2> QED  BY <1>15, <2>1, <2>2 DEF ManualRetry, TypeInv, TypeOK, CurIsJob
<1>16. ASSUME NEW w \in Workers, ReclaimSelectFails(w) PROVE TypeInv'
  <2>1. run[w] \in Run
    BY DEF TypeInv, TypeOK
  <2>2. /\ run'[w] \in Run
        /\ run'[w].pc \in {"handler", "finish"} => run'[w].cur \in Jobs
        /\ \A v \in Workers \ {w} : run'[v] = run[v]
    BY <1>16, <2>1 DEF ReclaimSelectFails, TypeInv, TypeOK, CurIsJob, Run
  <2>3. run' \in [Workers -> Run] /\ CurIsJob'
    BY <1>16, <2>2 DEF ReclaimSelectFails, TypeInv, TypeOK, CurIsJob
  <2> QED  BY <1>16, <2>1, <2>3 DEF ReclaimSelectFails, TypeInv, TypeOK, CurIsJob
<1>17. ASSUME NEW w \in Workers, SelectFails(w) PROVE TypeInv'
  BY <1>17, IdleIsRun DEF SelectFails, TypeInv, TypeOK, CurIsJob, Idle
<1>18. ASSUME NEW w \in Workers, ManualUpdateFails(w) PROVE TypeInv'
  BY <1>18, IdleIsRun DEF ManualUpdateFails, TypeInv, TypeOK, CurIsJob, Idle
<1>19. ASSUME Crash PROVE TypeInv'
  BY <1>19, IdleIsRun DEF Crash, TypeInv, TypeOK, CurIsJob, Idle
<1> QED
  BY <1>1, <1>2, <1>3, <1>4, <1>5, <1>6, <1>7, <1>8, <1>9, <1>10, <1>11, <1>12, <1>13, <1>14,
     <1>15, <1>16, <1>17, <1>18, <1>19 DEF Next, WorkerStep

\* The rows of retry_jobs and the calls of the service keep their shape, for any
\* number of jobs, overlapping calls, faults and forced retries.
THEOREM TypeCorrect == Spec => []TypeOK
<1>1. TypeInv => TypeOK
  BY DEF TypeInv
<1> QED  BY <1>1, TypeInvInit, TypeInvNext, PTL DEF Spec
----
(***************************************************************************)
(* Outcomes.  OutcomeIsReal is about the table; what makes it inductive is *)
(* that a call about to write an outcome has seen that outcome itself.     *)
(***************************************************************************)
RunsAgree ==
    \A w \in Workers :
        run[w].pc = "finish" =>
            /\ run[w].ok => run[w].cur \in done
            /\ ~run[w].ok /\ LastAttempt(w) => run[w].cur \in exhausted

OutcomeInv == TypeInv /\ OutcomeIsReal /\ RunsAgree

\* A call that is not about to write an outcome needs nothing of the histories.
LEMMA RunsAgreeKept ==
  ASSUME RunsAgree, NEW w \in Workers, run'[w].pc # "finish",
         \A v \in Workers \ {w} : run'[v] = run[v],
         done \subseteq done', exhausted \subseteq exhausted'
  PROVE  RunsAgree'
  BY DEF RunsAgree, LastAttempt

LEMMA OutcomeInvNext == OutcomeInv /\ [Next]_vars => OutcomeInv'
<1> SUFFICES ASSUME OutcomeInv, [Next]_vars PROVE OutcomeIsReal' /\ RunsAgree'
  BY TypeInvNext DEF OutcomeInv
<1>t. TypeInv /\ TypeInv'
  BY TypeInvNext DEF OutcomeInv
<1>j. /\ job \in [Jobs -> RetryJob]
      /\ run \in [Workers -> Run]
      /\ \A w \in Workers : run[w] \in Run
  BY <1>t DEF TypeInv, TypeOK
<1>r. OutcomeIsReal /\ RunsAgree
  BY DEF OutcomeInv
<1>1. CASE UNCHANGED vars
  BY <1>1, <1>r DEF vars, OutcomeIsReal, RunsAgree, LastAttempt
<1>2. ASSUME NEW j \in Jobs, Enqueue(j) PROVE OutcomeIsReal' /\ RunsAgree'
  BY <1>2, <1>j, <1>r DEF Enqueue, OutcomeIsReal, RunsAgree, LastAttempt
<1>3. ASSUME NEW j \in Jobs, BackoffElapses(j) PROVE OutcomeIsReal' /\ RunsAgree'
  BY <1>3, <1>j, <1>r DEF BackoffElapses, OutcomeIsReal, RunsAgree, LastAttempt, RetryJob
<1>4. ASSUME NEW j \in Jobs, GoesStale(j) PROVE OutcomeIsReal' /\ RunsAgree'
  BY <1>4, <1>j, <1>r DEF GoesStale, OutcomeIsReal, RunsAgree, LastAttempt, RetryJob
<1>5. ASSUME NEW w \in Workers, ReclaimSelect(w) PROVE OutcomeIsReal' /\ RunsAgree'
  <2>1. OutcomeIsReal'
    BY <1>5, <1>r DEF ReclaimSelect, OutcomeIsReal
  <2>2. run'[w].pc # "finish" /\ \A v \in Workers \ {w} : run'[v] = run[v]
    BY <1>5, <1>j DEF ReclaimSelect, Run
  <2> QED  BY <1>5, <1>r, <2>1, <2>2, RunsAgreeKept DEF ReclaimSelect
<1>6. ASSUME NEW w \in Workers, NEW j \in Jobs, ReclaimJob(w, j)
      PROVE OutcomeIsReal' /\ RunsAgree'
  <2>1. OutcomeIsReal'
    BY <1>6, <1>j, <1>r DEF ReclaimJob, updateJob, OutcomeIsReal, RetryJob
  <2>2. run'[w].pc # "finish" /\ \A v \in Workers \ {w} : run'[v] = run[v]
    BY <1>6, <1>j DEF ReclaimJob, Run
  <2> QED  BY <1>6, <1>r, <2>1, <2>2, RunsAgreeKept DEF ReclaimJob
<1>7. ASSUME NEW w \in Workers, SelectDue(w) PROVE OutcomeIsReal' /\ RunsAgree'
  <2>1. OutcomeIsReal'
    BY <1>7, <1>r DEF SelectDue, OutcomeIsReal
  <2>2. run'[w].pc # "finish" /\ \A v \in Workers \ {w} : run'[v] = run[v]
    BY <1>7, <1>j DEF SelectDue, Run, Idle
  <2> QED  BY <1>7, <1>r, <2>1, <2>2, RunsAgreeKept DEF SelectDue
<1>8. ASSUME NEW w \in Workers, NEW j \in Jobs, StartJob(w, j)
      PROVE OutcomeIsReal' /\ RunsAgree'
  <2>1. OutcomeIsReal'
    BY <1>8, <1>j, <1>r DEF StartJob, OutcomeIsReal, RetryJob
  <2>2. run'[w].pc # "finish" /\ \A v \in Workers \ {w} : run'[v] = run[v]
    BY <1>8, <1>j DEF StartJob, Run
  <2> QED  BY <1>8, <1>r, <2>1, <2>2, RunsAgreeKept DEF StartJob
<1>9. ASSUME NEW w \in Workers, HandlerResolves(w) PROVE OutcomeIsReal' /\ RunsAgree'
  <2>1. OutcomeIsReal'
    BY <1>9, <1>r DEF HandlerResolves, OutcomeIsReal
  <2>2. /\ run'[w].ok /\ run'[w].cur = run[w].cur
        /\ \A v \in Workers \ {w} : run'[v] = run[v]
    BY <1>9, <1>j DEF HandlerResolves, Run
  <2>3. done \subseteq done' /\ run'[w].cur \in done' /\ exhausted' = exhausted
    BY <1>9, <2>2 DEF HandlerResolves
  <2> QED  BY <1>r, <2>1, <2>2, <2>3 DEF RunsAgree, LastAttempt
<1>10. ASSUME NEW w \in Workers, HandlerThrows(w) PROVE OutcomeIsReal' /\ RunsAgree'
  <2>1. OutcomeIsReal'
    BY <1>10, <1>r DEF HandlerThrows, OutcomeIsReal
  <2>2. /\ ~run'[w].ok /\ run'[w].cur = run[w].cur /\ run'[w].snap = run[w].snap
        /\ \A v \in Workers \ {w} : run'[v] = run[v]
    BY <1>10, <1>j DEF HandlerThrows, Run
  <2>3. /\ exhausted \subseteq exhausted' /\ done' = done
        /\ LastAttempt(w) => run[w].cur \in exhausted'
    BY <1>10, <2>2 DEF HandlerThrows, LastAttempt
  <2> QED  BY <1>r, <2>1, <2>2, <2>3 DEF RunsAgree, LastAttempt
<1>11. ASSUME NEW w \in Workers, NoHandler(w) PROVE OutcomeIsReal' /\ RunsAgree'
  <2>1. run[w].cur \in Jobs
    BY <1>11, <1>t DEF NoHandler, TypeInv, CurIsJob
  <2>2. OutcomeIsReal'
    BY <1>11, <1>j, <1>r, <2>1 DEF NoHandler, updateJob, OutcomeIsReal, RetryJob
  <2> QED  BY <1>11, <1>t, <1>r, <2>1, <2>2, NextRowTyped, RunsAgreeKept DEF NoHandler
<1>12. ASSUME NEW w \in Workers, FinishSucceeded(w) PROVE OutcomeIsReal' /\ RunsAgree'
  <2>1. run[w].cur \in Jobs
    BY <1>12, <1>t DEF FinishSucceeded, TypeInv, CurIsJob
  <2>2. OutcomeIsReal'
    BY <1>12, <1>j, <1>r, <2>1
       DEF FinishSucceeded, updateJob, OutcomeIsReal, RunsAgree, RetryJob
  <2> QED  BY <1>12, <1>t, <1>r, <2>1, <2>2, NextRowTyped, RunsAgreeKept DEF FinishSucceeded
<1>13. ASSUME NEW w \in Workers, FinishFailed(w) PROVE OutcomeIsReal' /\ RunsAgree'
  <2>1. run[w].cur \in Jobs
    BY <1>13, <1>t DEF FinishFailed, TypeInv, CurIsJob
  <2>2. OutcomeIsReal'
    BY <1>13, <1>j, <1>r, <2>1
       DEF FinishFailed, updateJob, OutcomeIsReal, RunsAgree, RetryJob
  <2> QED  BY <1>13, <1>t, <1>r, <2>1, <2>2, NextRowTyped, RunsAgreeKept DEF FinishFailed
<1>14. ASSUME NEW w \in Workers, FinishBackoff(w) PROVE OutcomeIsReal' /\ RunsAgree'
  <2>1. run[w].cur \in Jobs
    BY <1>14, <1>t DEF FinishBackoff, TypeInv, CurIsJob
  <2>2. OutcomeIsReal'
    BY <1>14, <1>j, <1>r, <2>1 DEF FinishBackoff, OutcomeIsReal, RetryJob
  <2> QED  BY <1>14, <1>t, <1>r, <2>1, <2>2, NextRowTyped, RunsAgreeKept DEF FinishBackoff
<1>15. ASSUME NEW w \in Workers, NEW j \in Jobs, ManualRetry(w, j)
       PROVE OutcomeIsReal' /\ RunsAgree'
  <2>1. OutcomeIsReal'
    BY <1>15, <1>r DEF ManualRetry, OutcomeIsReal
  <2>2. run'[w].pc # "finish" /\ \A v \in Workers \ {w} : run'[v] = run[v]
    BY <1>15, <1>j DEF ManualRetry, Run, Idle
  <2> QED  BY <1>15, <1>r, <2>1, <2>2, RunsAgreeKept DEF ManualRetry
<1>16. ASSUME NEW w \in Workers, ReclaimSelectFails(w) PROVE OutcomeIsReal' /\ RunsAgree'
  <2>1. OutcomeIsReal'
    BY <1>16, <1>r DEF ReclaimSelectFails, OutcomeIsReal
  <2>2. run'[w].pc # "finish" /\ \A v \in Workers \ {w} : run'[v] = run[v]
    BY <1>16, <1>j DEF ReclaimSelectFails, Run
  <2> QED  BY <1>16, <1>r, <2>1, <2>2, RunsAgreeKept DEF ReclaimSelectFails
<1>17. ASSUME NEW w \in Workers, SelectFails(w) \/ ManualUpdateFails(w)
       PROVE OutcomeIsReal' /\ RunsAgree'
  <2>1. OutcomeIsReal'
    BY <1>17, <1>r DEF SelectFails, ManualUpdateFails, OutcomeIsReal
  <2>2. run'[w].pc # "finish" /\ \A v \in Workers \ {w} : run'[v] = run[v]
    BY <1>17, <1>j DEF SelectFails, ManualUpdateFails, Idle
  <2> QED  BY <1>17, <1>r, <2>1, <2>2, RunsAgreeKept DEF SelectFails, ManualUpdateFails
<1>18. ASSUME Crash PROVE OutcomeIsReal' /\ RunsAgree'
  BY <1>18, <1>r DEF Crash, OutcomeIsReal, RunsAgree, Idle
<1> QED
  BY <1>1, <1>2, <1>3, <1>4, <1>5, <1>6, <1>7, <1>8, <1>9, <1>10, <1>11, <1>12, <1>13, <1>14,
     <1>15, <1>16, <1>17, <1>18 DEF Next, WorkerStep

\* However many polls and forced retries overlap and whatever crashes, a row
\* that says succeeded or failed tells what really happened to its handler.
THEOREM OutcomesAreReal == Spec => []OutcomeIsReal
<1>1. Init => OutcomeInv
  BY TypeInvInit DEF Init, OutcomeInv, OutcomeIsReal, RunsAgree, Idle
<1>2. OutcomeInv => OutcomeIsReal
  BY DEF OutcomeInv
<1> QED  BY <1>1, <1>2, OutcomeInvNext, PTL DEF Spec

\* ---------------------------------------------------------------------------
\* When no two calls of the service overlap, for any jobs and limits: the
\* attempts stay within their budget, work that was done is not repeated
\* without a fault, and the table behaves like RetryJob.

\* One more attempt would still be within the budget.
NotOver(j) == job[j].attempts + 1 <= MaxAttempts + faults + manual

\* Rows the next poll may take, or reclaim, have an attempt left; a row that is
\* not there yet has none behind it.
RowsInBudget ==
    \A j \in Jobs :
        /\ job[j].status = "absent" => job[j].attempts = 0
        /\ job[j].attempts <= MaxAttempts + faults + manual
        /\ job[j].status = "pending" => NotOver(j)
        /\ job[j].status = "processing" /\ ~InFlight(j) => NotOver(j)

\* What a call read is still what the table says.
CallInStep(w) ==
    /\ run[w].pc \notin {"handler", "finish"} => run[w].cur = NoJob
    /\ run[w].pc # "finish" => ~run[w].ok
    /\ run[w].pc = "idle" => run[w].todo = {}
    /\ run[w].pc = "reclaim" => \A j \in run[w].todo : job[j].status = "processing"
    /\ run[w].pc \in {"batch", "handler", "finish"} =>
          \A j \in run[w].todo : /\ job[j].status \in {"pending", "failed"}
                                 /\ run[w].snap[j] = job[j].attempts
                                 /\ NotOver(j)
    /\ run[w].pc \in {"handler", "finish"} =>
          /\ run[w].cur \notin run[w].todo
          /\ job[run[w].cur].status = "processing"
          /\ job[run[w].cur].attempts = run[w].snap[run[w].cur] + 1
    /\ run[w].pc = "finish" => run[w].cur \in Handled

SerialInv ==
    /\ TypeInv
    /\ RowsInBudget
    /\ \A w \in Workers : CallInStep(w)
    /\ RerunOnlyAfterFault

\* With one call the questions about "some call" are about that call.
LEMMA OnlyCall ==
  ASSUME Serial, NEW w \in Workers
  PROVE  /\ \A v \in Workers : v = w
         /\ \A j : InFlight(j) <=> run[w].cur = j
         /\ \A j : InFlight(j)' <=> run'[w].cur = j
  BY DEF Serial, InFlight

\* What NextRow leaves of the call.
LEMMA NextRowFields ==
  ASSUME TypeInv, NEW w \in Workers, run[w].cur \in Jobs, NextRow(w)
  PROVE  /\ run[w].todo = {} => run'[w] = Idle
         /\ run[w].todo # {} =>
              /\ run'[w].pc = "batch" /\ run'[w].cur = NoJob /\ ~run'[w].ok
              /\ run'[w].todo = run[w].todo
              /\ \A j \in Jobs \ {run[w].cur} : run'[w].snap[j] = run[w].snap[j]
<1>1. run[w] \in Run
  BY DEF TypeInv, TypeOK
<1> QED  BY <1>1 DEF NextRow, TypeInv, TypeOK, Run

\* What the last write of processJob needs to keep SerialInv: it changes the
\* status of the current row only, and pays for a row it leaves pending.
LEMMA LastWriteKeeps ==
  ASSUME Serial, SerialInv, NEW w \in Workers, run[w].pc \in {"handler", "finish"},
         NextRow(w), UNCHANGED <<done, exhausted, faults, manual>>,
         job' \in [Jobs -> RetryJob],
         \A j \in Jobs \ {run[w].cur} : job'[j] = job[j],
         job'[run[w].cur].attempts = job[run[w].cur].attempts,
         job'[run[w].cur].status \in {"pending", "succeeded", "failed"},
         job'[run[w].cur].status = "pending" => NotOver(run[w].cur),
         run[w].ok => job'[run[w].cur].status = "succeeded"
  PROVE  RowsInBudget' /\ CallInStep(w)' /\ RerunOnlyAfterFault'
<1> DEFINE c == run[w].cur
<1>1. c \in Jobs /\ c \notin run[w].todo /\ run[w] \in Run /\ run[w].todo \subseteq Jobs
  BY DEF SerialInv, TypeInv, TypeOK, CurIsJob, CallInStep, Run
<1>2. /\ run[w].todo = {} => run'[w] = Idle
      /\ run[w].todo # {} =>
           /\ run'[w].pc = "batch" /\ run'[w].cur = NoJob /\ ~run'[w].ok
           /\ run'[w].todo = run[w].todo
           /\ \A j \in Jobs \ {c} : run'[w].snap[j] = run[w].snap[j]
  BY <1>1, NextRowFields DEF SerialInv
<1>3. run'[w].cur = NoJob
  BY <1>2 DEF Idle
<1>4. RowsInBudget'
  <2> SUFFICES ASSUME NEW j \in Jobs
               PROVE  /\ job'[j].status = "absent" => job'[j].attempts = 0
                      /\ job'[j].attempts <= MaxAttempts + faults' + manual'
                      /\ job'[j].status = "pending" => NotOver(j)'
                      /\ job'[j].status = "processing" /\ ~InFlight(j)' => NotOver(j)'
    BY DEF RowsInBudget
  <2>1. CASE j = c
    BY <2>1, <1>1 DEF SerialInv, RowsInBudget, NotOver
  <2>2. CASE j # c
    BY <2>2, OnlyCall DEF SerialInv, RowsInBudget, NotOver
  <2> QED  BY <2>1, <2>2
<1>5. CallInStep(w)'
  <2>1. CASE run[w].todo = {}
    BY <2>1, <1>2 DEF CallInStep, Idle
  <2>2. CASE run[w].todo # {}
    <3>1. \A j \in run'[w].todo : /\ job'[j].status \in {"pending", "failed"}
                                  /\ run'[w].snap[j] = job'[j].attempts
                                  /\ NotOver(j)'
      BY <2>2, <1>1, <1>2 DEF SerialInv, CallInStep, NotOver
    <3> QED  BY <2>2, <1>2, <3>1 DEF CallInStep
  <2> QED  BY <2>1, <2>2
<1>6. RerunOnlyAfterFault'
  <2> SUFFICES ASSUME NEW j \in done', ~(faults' > 0) PROVE job'[j].status = "succeeded"
    BY DEF RerunOnlyAfterFault
  <2>0. j \in done /\ j \in Jobs /\ ~(faults > 0)
    BY DEF SerialInv, TypeInv, TypeOK
  <2>1. job[j].status = "succeeded" \/ (run[w].cur = j /\ run[w].ok)
    BY <2>0, OnlyCall DEF SerialInv, RerunOnlyAfterFault
  <2>2. job[c].status = "processing"
    BY DEF SerialInv, CallInStep
  <2> QED  BY <2>0, <2>1, <2>2
<1> QED  BY <1>4, <1>5, <1>6

LEMMA SerialInvInit == Init => SerialInv
  BY TypeInvInit, QueueAssumption
     DEF Init, SerialInv, RowsInBudget, CallInStep, RerunOnlyAfterFault, NotOver, Idle

LEMMA SerialInvNext == Serial /\ SerialInv /\ [Next]_vars => SerialInv'
<1> SUFFICES ASSUME Serial, SerialInv, [Next]_vars PROVE SerialInv'
  OBVIOUS
<1> USE QueueAssumption
<1>t. TypeInv /\ TypeInv'
  BY TypeInvNext DEF SerialInv
<1>j. /\ job \in [Jobs -> RetryJob] /\ job' \in [Jobs -> RetryJob]
      /\ run \in [Workers -> Run] /\ \A w \in Workers : run[w] \in Run
      /\ \A k \in Jobs : job[k] \in RetryJob /\ job[k].attempts \in Nat
      /\ done \subseteq Jobs
      /\ faults \in Nat /\ manual \in Nat
  BY <1>t DEF TypeInv, TypeOK, RetryJob
<1>s. RowsInBudget /\ RerunOnlyAfterFault /\ \A w \in Workers : CallInStep(w)
  BY DEF SerialInv
\* It is enough to look at the call that moves.
<1>w. ASSUME NEW w \in Workers, RowsInBudget', CallInStep(w)', RerunOnlyAfterFault'
      PROVE  SerialInv'
  BY <1>t, <1>w, OnlyCall DEF SerialInv
<1>1. CASE UNCHANGED vars
  <2>1. RowsInBudget' /\ RerunOnlyAfterFault'
    BY <1>1, <1>s DEF vars, RowsInBudget, RerunOnlyAfterFault, NotOver, InFlight
  <2>2. \A w \in Workers : CallInStep(w)'
    BY <1>1, <1>s DEF vars, CallInStep, NotOver
  <2> QED  BY <2>1, <2>2, <1>t DEF SerialInv
<1>2. ASSUME NEW k \in Jobs, Enqueue(k) \/ BackoffElapses(k) \/ GoesStale(k) PROVE SerialInv'
  <2>1. /\ \A j \in Jobs \ {k} : job'[j] = job[j]
        /\ run' = run /\ done' = done /\ faults' = faults /\ manual' = manual
    BY <1>2, <1>j DEF Enqueue, BackoffElapses, GoesStale
  <2>2. \/ job'[k].status = job[k].status /\ job'[k].attempts = job[k].attempts
        \/ job[k].status = "absent" /\ job'[k].status = "pending" /\ job'[k].attempts = 0
    BY <1>2, <1>j DEF Enqueue, BackoffElapses, GoesStale, RetryJob
  <2>3. RowsInBudget'
    BY <2>1, <2>2, <1>s, <1>j DEF RowsInBudget, NotOver, InFlight
  <2>4. RerunOnlyAfterFault'
    BY <2>1, <2>2, <1>s, <1>j DEF RerunOnlyAfterFault
  <2>5. ASSUME NEW w \in Workers PROVE CallInStep(w)'
    <3>1. CallInStep(w) /\ run[w].todo \subseteq Jobs
      BY <1>s, <1>j DEF Run
    <3>2. run[w].pc \in {"handler", "finish"} => run[w].cur \in Jobs
      BY <1>t DEF TypeInv, CurIsJob
    <3>3. \A j \in Jobs : job[j].status # "absent" =>
             job'[j].status = job[j].status /\ job'[j].attempts = job[j].attempts
      BY <2>1, <2>2
    <3> QED  BY <2>1, <3>1, <3>2, <3>3 DEF CallInStep, NotOver
  <2> QED  BY <1>t, <2>3, <2>4, <2>5 DEF SerialInv
<1>3. ASSUME NEW w \in Workers, ReclaimSelect(w) PROVE SerialInv'
  <2>1. /\ run'[w].pc = "reclaim" /\ run'[w].cur = run[w].cur /\ run'[w].ok = run[w].ok
        /\ run'[w].todo = {j \in Jobs : job[j].status = "processing" /\ job[j].stale}
        /\ job' = job /\ done' = done /\ faults' = faults /\ manual' = manual
        /\ run[w].pc = "idle"
    BY <1>3, <1>j DEF ReclaimSelect, Run
  <2>2. RowsInBudget'
    BY <2>1, <1>s, <1>j, OnlyCall DEF RowsInBudget, NotOver
  <2>3. CallInStep(w)'
    BY <2>1, <1>s DEF CallInStep
  <2>4. RerunOnlyAfterFault'
    BY <2>1, <1>s, OnlyCall DEF RerunOnlyAfterFault
  <2> QED  BY <2>2, <2>3, <2>4, <1>w
<1>4. ASSUME NEW w \in Workers, NEW k \in Jobs, ReclaimJob(w, k) PROVE SerialInv'
  <2>1. /\ run'[w].pc = "reclaim" /\ run'[w].cur = run[w].cur /\ run'[w].ok = run[w].ok
        /\ run'[w].todo = run[w].todo \ {k}
        /\ done' = done /\ faults' = faults /\ manual' = manual
        /\ run[w].pc = "reclaim" /\ k \in run[w].todo /\ run[w].todo \subseteq Jobs
    BY <1>4, <1>j DEF ReclaimJob, Run
  <2>2. /\ \A j \in Jobs \ {k} : job'[j] = job[j]
        /\ job'[k].status = "pending" /\ job'[k].attempts = job[k].attempts
    BY <1>4, <1>j DEF ReclaimJob, updateJob, RetryJob
  <2>3. run[w].cur = NoJob /\ ~run[w].ok /\ job[k].status = "processing"
    BY <2>1, <1>s DEF CallInStep
  <2>4. RowsInBudget'
    BY <2>1, <2>2, <2>3, <1>s, <1>j, OnlyCall DEF RowsInBudget, NotOver
  <2>5. CallInStep(w)'
    BY <2>1, <2>2, <2>3, <1>s DEF CallInStep
  <2>6. RerunOnlyAfterFault'
    BY <2>1, <2>2, <2>3, <1>s, <1>j, OnlyCall DEF RerunOnlyAfterFault
  <2> QED  BY <2>4, <2>5, <2>6, <1>w
<1>5. ASSUME NEW w \in Workers, SelectDue(w) PROVE SerialInv'
  <2>1. PICK batch \in SUBSET Due :
           run' = [run EXCEPT ![w] =
                IF batch = {} THEN Idle
                ELSE [@ EXCEPT !.pc = "batch",
                               !.todo = batch,
                               !.snap = [j \in Jobs |-> IF j \in batch
                                                        THEN job[j].attempts ELSE 0]]]
    BY <1>5 DEF SelectDue
  <2>2. /\ job' = job /\ done' = done /\ faults' = faults /\ manual' = manual
        /\ run[w].pc = "reclaim" /\ run[w].cur = NoJob /\ ~run[w].ok
    BY <1>5, <1>s DEF SelectDue, CallInStep
  <2>3. /\ run'[w].cur = NoJob /\ ~run'[w].ok
        /\ batch = {} => run'[w].pc = "idle" /\ run'[w].todo = {}
        /\ batch # {} => /\ run'[w].pc = "batch" /\ run'[w].todo = batch
                         /\ \A j \in batch : run'[w].snap[j] = job[j].attempts
    BY <2>1, <2>2, <1>j DEF Run, Idle, Due
  <2>4. \A j \in batch : j \in Jobs /\ job[j].status = "pending" /\ NotOver(j)
    BY <1>s DEF Due, RowsInBudget
  <2>5. RowsInBudget'
    BY <2>2, <2>3, <1>s, OnlyCall DEF RowsInBudget, NotOver
  <2>6. CallInStep(w)'
    BY <2>2, <2>3, <2>4 DEF CallInStep, NotOver
  <2>7. RerunOnlyAfterFault'
    BY <2>2, <2>3, <1>s, OnlyCall DEF RerunOnlyAfterFault
  <2> QED  BY <2>5, <2>6, <2>7, <1>w
<1>6. ASSUME NEW w \in Workers, NEW k \in Jobs, StartJob(w, k) PROVE SerialInv'
  <2>1. /\ run'[w].pc = "handler" /\ run'[w].cur = k /\ run'[w].ok = run[w].ok
        /\ run'[w].todo = run[w].todo \ {k} /\ run'[w].snap = run[w].snap
        /\ done' = done /\ faults' = faults /\ manual' = manual
        /\ run[w].pc = "batch" /\ k \in run[w].todo /\ run[w].todo \subseteq Jobs
    BY <1>6, <1>j DEF StartJob, Run
  <2>2. /\ run[w].cur = NoJob /\ ~run[w].ok
        /\ \A j \in run[w].todo : /\ job[j].status \in {"pending", "failed"}
                                  /\ run[w].snap[j] = job[j].attempts
                                  /\ NotOver(j)
    BY <2>1, <1>s DEF CallInStep
  <2>3. /\ \A j \in Jobs \ {k} : job'[j] = job[j]
        /\ job'[k].status = "processing" /\ job'[k].attempts = run[w].snap[k] + 1
    BY <1>6, <1>j DEF StartJob, RetryJob
  <2>4. RowsInBudget'
    BY <2>1, <2>2, <2>3, <1>s, <1>j, OnlyCall DEF RowsInBudget, NotOver
  <2>5. CallInStep(w)'
    BY <2>1, <2>2, <2>3 DEF CallInStep, NotOver
  <2>6. RerunOnlyAfterFault'
    BY <2>1, <2>2, <2>3, <1>s, <1>j, OnlyCall DEF RerunOnlyAfterFault
  <2> QED  BY <2>4, <2>5, <2>6, <1>w
<1>7. ASSUME NEW w \in Workers, HandlerResolves(w) \/ HandlerThrows(w) PROVE SerialInv'
  <2>1. /\ run'[w].pc = "finish" /\ run'[w].cur = run[w].cur
        /\ run'[w].todo = run[w].todo /\ run'[w].snap = run[w].snap
        /\ job' = job /\ faults' = faults /\ manual' = manual
        /\ run[w].pc = "handler" /\ run[w].cur \in Handled
        /\ \/ run'[w].ok /\ done' = done \cup {run[w].cur}
           \/ ~run'[w].ok /\ done' = done
    BY <1>7, <1>j DEF HandlerResolves, HandlerThrows, Run
  <2>2. ~run[w].ok
    BY <2>1, <1>s DEF CallInStep
  <2>3. RowsInBudget'
    BY <2>1, <1>s, OnlyCall DEF RowsInBudget, NotOver
  <2>4. CallInStep(w)'
    BY <2>1, <1>s DEF CallInStep, NotOver
  <2>5. RerunOnlyAfterFault'
    BY <2>1, <2>2, <1>s, OnlyCall DEF RerunOnlyAfterFault
  <2> QED  BY <2>3, <2>4, <2>5, <1>w
<1>8. ASSUME NEW w \in Workers,
             NoHandler(w) \/ FinishSucceeded(w) \/ FinishFailed(w) \/ FinishBackoff(w)
      PROVE SerialInv'
  <2>1. /\ run[w].pc \in {"handler", "finish"} /\ NextRow(w)
        /\ UNCHANGED <<done, exhausted, faults, manual>>
    BY <1>8 DEF NoHandler, FinishSucceeded, FinishFailed, FinishBackoff
  <2>2. run[w].cur \in Jobs
    BY <2>1, <1>t DEF TypeInv, CurIsJob
  <2>3. /\ \A j \in Jobs \ {run[w].cur} : job'[j] = job[j]
        /\ job'[run[w].cur].attempts = job[run[w].cur].attempts
        /\ job'[run[w].cur].status \in {"pending", "succeeded", "failed"}
        /\ job'[run[w].cur].status = "pending" => FinishBackoff(w)
    BY <1>8, <2>2, <1>j
       DEF NoHandler, FinishSucceeded, FinishFailed, FinishBackoff, updateJob, RetryJob
  <2>4. FinishBackoff(w) => NotOver(run[w].cur)
    BY <2>2, <1>s, <1>j DEF FinishBackoff, CallInStep, LastAttempt, NotOver, Run
  <2>5. run[w].ok => job'[run[w].cur].status = "succeeded"
    BY <1>8, <2>2, <1>j, <1>s
       DEF NoHandler, FinishSucceeded, FinishFailed, FinishBackoff, updateJob, RetryJob,
           CallInStep
  <2> QED  BY <2>1, <2>3, <2>4, <2>5, <1>j, <1>w, LastWriteKeeps
<1>9. ASSUME NEW w \in Workers, NEW k \in Jobs, ManualRetry(w, k) PROVE SerialInv'
  <2>1. /\ run'[w].pc = "batch" /\ run'[w].cur = NoJob /\ ~run'[w].ok
        /\ run'[w].todo = {k} /\ run'[w].snap[k] = job[k].attempts
        /\ job' = job /\ done' = done /\ faults' = faults /\ manual' = manual + 1
        /\ run[w].pc = "idle" /\ job[k].status \in {"pending", "failed"}
    BY <1>9, <1>j DEF ManualRetry, Idle, NoSnap
  <2>2. run[w].cur = NoJob /\ ~run[w].ok
    BY <2>1, <1>s DEF CallInStep
  <2>3. \A j \in Jobs : job[j].attempts <= MaxAttempts + faults + manual /\ NotOver(j)'
    BY <2>1, <1>s, <1>j DEF RowsInBudget, NotOver
  <2>4. RowsInBudget'
    BY <2>1, <2>3, <1>s, <1>j DEF RowsInBudget
  <2>5. CallInStep(w)'
    BY <2>1, <2>3 DEF CallInStep
  <2>6. RerunOnlyAfterFault'
    BY <2>1, <2>2, <1>s, OnlyCall DEF RerunOnlyAfterFault
  <2> QED  BY <2>4, <2>5, <2>6, <1>w
<1>10. ASSUME NEW w \in Workers, ReclaimSelectFails(w) PROVE SerialInv'
  <2>1. /\ run'[w].pc = "reclaim" /\ run'[w].cur = run[w].cur /\ run'[w].ok = run[w].ok
        /\ run'[w].todo = run[w].todo
        /\ job' = job /\ faults' = faults + 1 /\ manual' = manual /\ run[w].pc = "idle"
    BY <1>10, <1>j DEF ReclaimSelectFails, Run
  <2>2. RowsInBudget'
    BY <2>1, <1>s, <1>j DEF RowsInBudget, NotOver
  <2>3. CallInStep(w)'
    BY <2>1, <1>s DEF CallInStep
  <2>4. RerunOnlyAfterFault'
    BY <2>1, <1>j DEF RerunOnlyAfterFault
  <2> QED  BY <2>2, <2>3, <2>4, <1>w
<1>11. ASSUME Crash \/ \E w \in Workers : SelectFails(w) \/ ManualUpdateFails(w) PROVE SerialInv'
  <2>1. /\ \A w \in Workers : run'[w] = Idle
        /\ job' = job /\ faults' = faults + 1 /\ manual' = manual
    BY <1>11, <1>j, OnlyCall DEF Crash, SelectFails, ManualUpdateFails
  <2>2. RowsInBudget'
    BY <2>1, <1>s, <1>j DEF RowsInBudget, NotOver
  <2>3. \A w \in Workers : CallInStep(w)'
    BY <2>1 DEF CallInStep, Idle
  <2>4. RerunOnlyAfterFault'
    BY <2>1, <1>j DEF RerunOnlyAfterFault
  <2> QED  BY <1>t, <2>2, <2>3, <2>4 DEF SerialInv
<1> QED
  BY <1>1, <1>2, <1>3, <1>4, <1>5, <1>6, <1>7, <1>8, <1>9, <1>10, <1>11 DEF Next, WorkerStep

LEMMA SerialInvariant == ASSUME Serial PROVE Spec => []SerialInv
<1>1. SerialInv /\ [Next]_vars => SerialInv'
  BY SerialInvNext
<1> QED  BY <1>1, SerialInvInit, PTL DEF Spec

\* With one call in flight at a time no job is attempted more often than
\* max_attempts, the faults and the forced retries account for.
THEOREM AttemptsBudgeted == ASSUME Serial PROVE Spec => []AttemptBudget
<1>1. SerialInv => AttemptBudget
  BY DEF SerialInv, RowsInBudget, AttemptBudget
<1> QED  BY <1>1, SerialInvariant, PTL

\* With one call in flight at a time, work that was done is repeated only when a
\* fault kept its outcome from being recorded.
THEOREM RerunsNeedFaults == ASSUME Serial PROVE Spec => []RerunOnlyAfterFault
<1>1. SerialInv => RerunOnlyAfterFault
  BY DEF SerialInv
<1> QED  BY <1>1, SerialInvariant, PTL
----
(***************************************************************************)
(* Refinement.  The table's status and attempts columns, read as the state *)
(* of RetryJob: every write of processJob is one of its steps.             *)
(***************************************************************************)
LEMMA JobInit == Init => JobSpec!Init
  BY DEF Init, JobSpec!Init

\* A write of row k that is a step of RetryJob.
LEMMA RowStep ==
  ASSUME NEW k \in Jobs, job \in [Jobs -> RetryJob], job' \in [Jobs -> RetryJob],
         \A j \in Jobs \ {k} : job'[j] = job[j]
  PROVE  /\ [j \in Jobs |-> job[j].status]' =
              [[j \in Jobs |-> job[j].status] EXCEPT ![k] = job'[k].status]
         /\ [j \in Jobs |-> job[j].attempts]' =
              [[j \in Jobs |-> job[j].attempts] EXCEPT ![k] = job'[k].attempts]
         /\ job'[k].attempts = job[k].attempts =>
              [j \in Jobs |-> job[j].attempts]' = [j \in Jobs |-> job[j].attempts]
  OBVIOUS

LEMMA JobStep ==
  ASSUME Serial, SerialInv, SerialInv', [Next]_vars
  PROVE  [JobSpec!Next]_(JobSpec!vars)
<1> USE QueueAssumption
<1>j. /\ job \in [Jobs -> RetryJob] /\ job' \in [Jobs -> RetryJob]
      /\ run \in [Workers -> Run] /\ \A w \in Workers : run[w] \in Run
  BY DEF SerialInv, TypeInv, TypeOK
<1>s. \A w \in Workers : CallInStep(w)
  BY DEF SerialInv
<1>2. ASSUME NEW k \in Jobs, Enqueue(k) PROVE JobSpec!Submit(k)
  <2>1. /\ \A j \in Jobs \ {k} : job'[j] = job[j]
        /\ job[k].status = "absent" /\ job'[k].attempts = job[k].attempts
        /\ job'[k].status = "pending"
    BY <1>2, <1>j DEF Enqueue, SerialInv, RowsInBudget
  <2> QED  BY <1>j, <2>1, RowStep DEF JobSpec!Submit
<1>3. ASSUME NEW w \in Workers, NEW k \in Jobs, ReclaimJob(w, k) PROVE JobSpec!Requeue(k)
  <2>1. /\ \A j \in Jobs \ {k} : job'[j] = job[j]
        /\ job[k].status = "processing" /\ job'[k].attempts = job[k].attempts
        /\ job'[k].status = "pending"
    BY <1>3, <1>j, <1>s DEF ReclaimJob, updateJob, RetryJob, CallInStep
  <2> QED  BY <1>j, <2>1, RowStep DEF JobSpec!Requeue
<1>4. ASSUME NEW w \in Workers, NEW k \in Jobs, StartJob(w, k) PROVE JobSpec!Begin(k)
  <2>1. /\ \A j \in Jobs \ {k} : job'[j] = job[j]
        /\ job[k].status \in {"pending", "failed"} /\ job'[k].attempts = job[k].attempts + 1
        /\ job'[k].status = "processing"
    BY <1>4, <1>j, <1>s DEF StartJob, RetryJob, CallInStep
  <2> QED  BY <1>j, <2>1, RowStep DEF JobSpec!Begin
\* The last write of processJob.
<1>5. ASSUME NEW w \in Workers, NEW k \in Jobs, k = run[w].cur,
             NoHandler(w) \/ FinishSucceeded(w) \/ FinishFailed(w) \/ FinishBackoff(w)
      PROVE  JobSpec!Succeed(k) \/ JobSpec!GiveUp(k) \/ JobSpec!Requeue(k)
  <2>1. /\ \A j \in Jobs \ {k} : job'[j] = job[j]
        /\ job'[k].attempts = job[k].attempts
    BY <1>5, <1>j DEF NoHandler, FinishSucceeded, FinishFailed, FinishBackoff, updateJob, RetryJob
  <2>2. job[k].status = "processing" /\ job[k].attempts = run[w].snap[k] + 1
    BY <1>5, <1>s DEF NoHandler, FinishSucceeded, FinishFailed, FinishBackoff, CallInStep
  <2>3. CASE NoHandler(w)
    <3>1. job'[k].status = "failed" /\ k \notin Handled
      BY <1>5, <2>3, <1>j DEF NoHandler, updateJob, RetryJob
    <3> QED  BY <1>j, <2>1, <2>2, <3>1, RowStep DEF JobSpec!GiveUp
  <2>4. CASE FinishSucceeded(w)
    <3>1. job'[k].status = "succeeded" /\ k \in Handled
      BY <1>5, <2>4, <1>j, <1>s DEF FinishSucceeded, updateJob, RetryJob, CallInStep
    <3> QED  BY <1>j, <2>1, <2>2, <3>1, RowStep DEF JobSpec!Succeed
  <2>5. CASE FinishFailed(w)
    <3>1. job'[k].status = "failed" /\ job[k].attempts >= MaxAttempts
      BY <1>5, <2>2, <2>5, <1>j DEF FinishFailed, LastAttempt, updateJob, RetryJob
    <3> QED  BY <1>j, <2>1, <2>2, <3>1, RowStep DEF JobSpec!GiveUp
  <2>6. CASE FinishBackoff(w)
    <3>1. job'[k].status = "pending"
      BY <1>5, <2>6, <1>j DEF FinishBackoff, RetryJob
    <3> QED  BY <1>j, <2>1, <2>2, <3>1, RowStep DEF JobSpec!Requeue
  <2> QED  BY <1>5, <2>3, <2>4, <2>5, <2>6
\* The steps that leave status and attempts alone.
<1>6. ASSUME \/ \E k \in Jobs : BackoffElapses(k) \/ GoesStale(k)
             \/ \E w \in Workers : \/ ReclaimSelect(w) \/ SelectDue(w)
                                   \/ HandlerResolves(w) \/ HandlerThrows(w)
                                   \/ ReclaimSelectFails(w) \/ SelectFails(w)
                                   \/ ManualUpdateFails(w)
                                   \/ \E k \in Jobs : ManualRetry(w, k)
             \/ Crash
             \/ UNCHANGED vars
      PROVE  UNCHANGED JobSpec!vars
  <2>1. CASE \E k \in Jobs : BackoffElapses(k) \/ GoesStale(k)
    <3>1. \A j \in Jobs : job'[j].status = job[j].status /\ job'[j].attempts = job[j].attempts
      BY <2>1, <1>j DEF BackoffElapses, GoesStale, RetryJob
    <3> QED  BY <3>1 DEF JobSpec!vars
  <2>2. CASE job' = job
    BY <2>2 DEF JobSpec!vars
  <2> QED
    BY <1>6, <2>1, <2>2 DEF ReclaimSelect, SelectDue, HandlerResolves, HandlerThrows,
       ReclaimSelectFails, SelectFails, ManualUpdateFails, ManualRetry, Crash, vars
<1>7. \A w \in Workers : NoHandler(w) \/ FinishSucceeded(w) \/ FinishFailed(w) \/ FinishBackoff(w)
                           => run[w].cur \in Jobs
  BY DEF SerialInv, TypeInv, CurIsJob, NoHandler, FinishSucceeded, FinishFailed, FinishBackoff
<1> QED
  BY <1>2, <1>3, <1>4, <1>5, <1>6, <1>7 DEF Next, WorkerStep, JobSpec!Next

\* With one call in flight at a time the retry_jobs table behaves like RetryJob:
\* a succeeded job is final, a job is given up only when its attempts are used
\* up or nobody handles it, and attempts are numbered one by one.
THEOREM QueueImplementsRetryJob == ASSUME Serial PROVE Spec => ImplementsRetryJob
<1>1. SerialInv /\ SerialInv' /\ [Next]_vars => [JobSpec!Next]_(JobSpec!vars)
  BY JobStep
<1> QED  BY <1>1, JobInit, SerialInvariant, PTL DEF Spec, ImplementsRetryJob, JobSpec!Spec
====
