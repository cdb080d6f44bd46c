---- MODULE AgreementSync ----
(***************************************************************************)
(* The sync engine, src/agreements/sync/agreement-sync.service.ts: compare *)
(* the agreement with its escrow at Trustless Work and pull what is ahead. *)
(* It runs on POST /agreements/:id/sync and /reconcile and from jobs that  *)
(* creating, linking and milestone updates enqueue, hence at any time.     *)
(* What Trustless Work answers is unconstrained.                           *)
(***************************************************************************)
EXTENDS Agreements

TW_STATUSES == {"created", "funded", "active", "completed", "cancelled", "disputed"}

TW_TO_THALOS_STATUS(tw) == IF tw = "created" THEN "pending" ELSE tw

\* Position in statusOrder, as indexOf gives it.
statusOrder(status) ==
    CASE status = "pending"   -> 0
      [] status = "funded"    -> 1
      [] status = "active"    -> 2
      [] status = "in_review" -> 3
      [] status = "completed" -> 4
      [] OTHER                -> -1

\* A bug to catch: the comparison is the wrong way round.
PullsBehind(tw, current) == tw # current /\ statusOrder(tw) <= statusOrder(current)

\* Same position, different status: Trustless Work wins.
Pulls(tw, current) == tw # current /\ statusOrder(tw) >= statusOrder(current)

\* doReconcile goes on after doSync unless the statuses matched or it failed.
SyncDone(r) == IF req[r].op = "reconcile" THEN Goto(r, "reconcile_read") ELSE Return(r)

\* The status that was read waits in `to`.  Without a contract there is nothing
\* to fetch.
SyncRead(r, op) ==
    /\ op \in {"sync", "reconcile"}
    /\ Free(r, op)
    /\ Exists
    /\ agreement.contract \/ op = "reconcile"
    /\ Suspend(r, [Idle EXCEPT !.op = op,
                               !.pc = IF agreement.contract THEN "sync_fetch"
                                      ELSE "reconcile_read",
                               !.to = agreement.status])
    /\ UNCHANGED <<agreement, seen, faults>>

SyncFetch(r, tw) ==
    /\ req[r].pc = "sync_fetch"
    /\ LET mapped == TW_TO_THALOS_STATUS(tw) IN
       IF Pulls(mapped, req[r].to)
       THEN Suspend(r, [req[r] EXCEPT !.pc = "sync_write", !.to = mapped])
       ELSE IF mapped = req[r].to THEN Return(r) ELSE SyncDone(r)
    /\ UNCHANGED <<agreement, seen, faults>>

\* No escrow, or no answer.
SyncFetchFails(r) ==
    /\ req[r].pc \in {"sync_fetch", "reconcile_read"}
    /\ Return(r)
    /\ UNCHANGED <<agreement, seen, faults>>

\* The status alone: no transition is validated, no timestamp written.  The
\* participants the escrow names are added.
SyncWrite(r, hasParties) ==
    /\ req[r].pc = "sync_write"
    /\ IF Exists
       THEN /\ agreement' = [agreement EXCEPT !.status = req[r].to,
                                              !.participants = @ \/ hasParties]
            /\ seen' = seen \cup {req[r].to}
       ELSE UNCHANGED <<agreement, seen>>
    /\ SyncDone(r)
    /\ UNCHANGED faults

TWMilestone == [approved : BOOLEAN, released : BOOLEAN, rejected : BOOLEAN]

\* Flags come before the free text "rejected".
milestoneStatusFromTrustless(m, escrowReleased) ==
    IF escrowReleased \/ m.released THEN "released"
    ELSE IF m.approved THEN "approved"
    ELSE IF m.rejected THEN "rejected"
    ELSE "pending"

\* The milestones both sides have, the first n, take the status of the escrow.
ReconcileRead(r, tw, escrowReleased, n) ==
    /\ req[r].pc = "reconcile_read"
    /\ IF Exists /\ agreement.contract
       THEN Suspend(r, [req[r] EXCEPT
                !.pc = "reconcile_write",
                !.milestones = [i \in Milestones |->
                    IF i <= n THEN milestoneStatusFromTrustless(tw[i], escrowReleased)
                    ELSE agreement.milestones[i]]])
       ELSE Return(r)
    /\ UNCHANGED <<agreement, seen, faults>>

ReconcileWrite(r) ==
    /\ req[r].pc = "reconcile_write"
    /\ agreement' = IF Exists THEN [agreement EXCEPT !.milestones = req[r].milestones]
                    ELSE agreement
    /\ Return(r)
    /\ UNCHANGED <<seen, faults>>

SyncNext ==
    \E r \in Reqs :
        \/ \E op \in {"sync", "reconcile"} : SyncRead(r, op)
        \/ \E tw \in TW_STATUSES : SyncFetch(r, tw)
        \/ SyncFetchFails(r)
        \/ \E hasParties \in BOOLEAN : SyncWrite(r, hasParties)
        \/ \E tw \in [Milestones -> TWMilestone], escrowReleased \in BOOLEAN,
              n \in Milestones \cup {0} : ReconcileRead(r, tw, escrowReleased, n)
        \/ ReconcileWrite(r)
====
