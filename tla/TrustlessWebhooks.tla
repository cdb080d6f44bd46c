---- MODULE TrustlessWebhooks ----
(***************************************************************************)
(* Events of Trustless Work applied to the agreement,                      *)
(* src/webhooks/webhooks.service.ts.  handleEvent enqueues a job of the    *)
(* persistent retry queue, whose promise RetryJob is used here in place of *)
(* RetryQueue: no job is run twice at once, no administrator.  The job's   *)
(* handler takes a request slot next to the handlers of Agreements.        *)
(***************************************************************************)
EXTENDS Agreements

CONSTANTS Events,       \* payloads; the idempotency key is a hash of all of it
          MaxAttempts   \* RETRY_QUEUE_MAX_ATTEMPTS

ASSUME EventsAssumption ==
    /\ Events \subseteq Subjects
    /\ \A e \in Events : e.action \in {"status_update", "milestone_update"}
    /\ MaxAttempts \in Nat \ {0}

VARIABLES jobStatus, jobAttempts,   \* retry_jobs
          rejected                  \* history: events refused as illegal transitions

webhookVars == <<jobStatus, jobAttempts, rejected>>

Queue == INSTANCE RetryJob WITH Jobs <- Events, Handled <- Events,
                                status <- jobStatus, attempts <- jobAttempts

WebhooksInit == Queue!Init /\ rejected = {}

\* A second delivery has the same key and adds nothing.
handleEvent(e) ==
    /\ Queue!Submit(e)
    /\ UNCHANGED <<agreementVars, rejected>>

processEvent(r, e) ==
    /\ Free(r, "processEvent")
    /\ jobStatus[e] = "pending"
    /\ Queue!Begin(e)
    /\ Suspend(r, [Idle EXCEPT !.op = "processEvent", !.pc = "event_read", !.about = e])
    /\ UNCHANGED <<agreement, seen, faults, rejected>>

\* The handler resolves, and processJob's next await records it.
Resolve(r) == Goto(r, "event_ack") /\ UNCHANGED <<jobStatus, jobAttempts>>

EventAck(r) ==
    /\ req[r].pc = "event_ack"
    /\ Queue!Succeed(req[r].about)
    /\ Return(r)
    /\ UNCHANGED <<agreement, seen, faults, rejected>>

\* The handler throws: the job is retried, or given up.
Throw(r) ==
    /\ Return(r)
    /\ IF jobAttempts[req[r].about] >= MaxAttempts
       THEN Queue!GiveUp(req[r].about)
       ELSE Queue!Requeue(req[r].about)

\* The row whose contract_id is the event's.
Found == Exists /\ agreement.contract

(***************************************************************************)
(* applyStatusUpdate                                                       *)
(***************************************************************************)

\* A bug to catch: the status is applied whatever the row says.
StatusEventReadUnvalidated(r) ==
    /\ req[r].pc = "event_read"
    /\ req[r].about.action = "status_update"
    /\ Suspend(r, [req[r] EXCEPT !.pc = "event_write", !.to = req[r].about.to])
    /\ UNCHANGED <<webhookVars, agreement, seen, faults>>

\* A missing row is not noticed yet: only a row that is there is validated.
StatusEventRead(r) ==
    /\ req[r].pc = "event_read"
    /\ req[r].about.action = "status_update"
    /\ IF Found /\ ~L!validateTransition(agreement.status, req[r].about.to)
       THEN /\ Resolve(r)
            /\ rejected' = rejected \cup {req[r].about}
       ELSE /\ Suspend(r, [req[r] EXCEPT !.pc = "event_write", !.to = req[r].about.to])
            /\ UNCHANGED webhookVars
    /\ UNCHANGED <<agreement, seen, faults>>

\* The update skips a row that has the status already.
StatusEventWrite(r) ==
    /\ req[r].pc = "event_write"
    /\ req[r].about.action = "status_update"
    /\ IF Found /\ agreement.status # req[r].to
       THEN WriteStatus(req[r].to) /\ Resolve(r)
       ELSE UNCHANGED <<agreement, seen, jobStatus, jobAttempts>> /\ Goto(r, "event_check")
    /\ UNCHANGED <<faults, rejected>>

\* A bug to catch: an event for an unknown contract is dropped, as
\* applyMilestoneUpdate does.
StatusEventCheckDropsUnknown(r) ==
    /\ req[r].pc = "event_check"
    /\ Resolve(r)
    /\ UNCHANGED <<agreement, seen, faults, rejected>>

\* Why was nothing updated?  A row that is there now is taken for one that had
\* the status; a row that is not there makes the handler throw.
StatusEventCheck(r) ==
    /\ req[r].pc = "event_check"
    /\ IF Found THEN Resolve(r) ELSE Throw(r)
    /\ UNCHANGED <<agreement, seen, faults, rejected>>

(***************************************************************************)
(* applyMilestoneUpdate: read the array, change one entry, write it back   *)
(***************************************************************************)

\* Trustless Work's own words ("completed") are not a status and leave the
\* entry alone; the array is written back all the same.
normalizeMilestoneStatus(raw, current) ==
    IF raw \in L!MILESTONE_STATUSES THEN raw ELSE current

MilestoneEventRead(r) ==
    /\ req[r].pc = "event_read"
    /\ req[r].about.action = "milestone_update"
    /\ IF Found /\ req[r].about.index \in Milestones
       THEN /\ Suspend(r, [req[r] EXCEPT
                   !.pc = "event_write",
                   !.milestones = [agreement.milestones EXCEPT
                       ![req[r].about.index] = normalizeMilestoneStatus(req[r].about.to, @)]])
            /\ UNCHANGED <<jobStatus, jobAttempts>>
       ELSE Resolve(r)
    /\ UNCHANGED <<agreement, seen, faults, rejected>>

MilestoneEventWrite(r) ==
    /\ req[r].pc = "event_write"
    /\ req[r].about.action = "milestone_update"
    /\ agreement' = IF Found THEN [agreement EXCEPT !.milestones = req[r].milestones]
                    ELSE agreement
    /\ Resolve(r)
    /\ UNCHANGED <<seen, faults, rejected>>

\* A database call of the handler fails: it throws and the queue retries, but
\* the error of applyMilestoneUpdate's read reads as an unknown contract.
EventFails(r) ==
    /\ req[r].pc \in {"event_read", "event_write", "event_check"}
    /\ Fault
    /\ IF req[r].pc = "event_read" /\ req[r].about.action = "milestone_update"
       THEN Resolve(r) ELSE Throw(r)
    /\ UNCHANGED <<agreement, seen, rejected>>

\* The process died while the handler ran; the queue reclaims the stale row.
ReclaimEvent(e) ==
    /\ jobStatus[e] = "processing"
    /\ \A r \in Reqs : req[r].about # e
    /\ Queue!Requeue(e)
    /\ UNCHANGED <<agreementVars, rejected>>

WebhooksNext ==
    \/ \E e \in Events : handleEvent(e) \/ ReclaimEvent(e)
    \/ \E r \in Reqs :
          \/ \E e \in Events : processEvent(r, e)
          \/ StatusEventRead(r)
          \/ StatusEventWrite(r)
          \/ StatusEventCheck(r)
          \/ EventAck(r)
          \/ MilestoneEventRead(r)
          \/ MilestoneEventWrite(r)
          \/ EventFails(r)
====
