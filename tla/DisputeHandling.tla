---- MODULE DisputeHandling ----
(***************************************************************************)
(* Disputes on the agreement, src/disputes/disputes.service.ts, next to    *)
(* the handlers of Agreements.  A dispute has a row and a status of its    *)
(* own; the agreement follows through applyStatusChange, in a later step   *)
(* that may be refused or never come.                                      *)
(***************************************************************************)
EXTENDS Agreements, FiniteSets

CONSTANTS Disputes,        \* bound: the rows of `disputes` that may be inserted
          MaxResolutions   \* bound: rows of dispute_resolutions for one dispute

ASSUME DisputesAssumption ==
    /\ Disputes \subseteq Subjects
    /\ MaxResolutions \in Nat

VARIABLE dispute   \* the rows of `disputes`, with their resolutions counted

disputeVars == <<agreementVars, dispute>>

DisputeStatus == {"none", "open", "under_review", "resolved", "cancelled"}

\* unread, a history: it was inserted after a select that told nothing.
Dispute == [status : DisputeStatus, resolver : BOOLEAN, resolutions : 0..MaxResolutions,
            unread : BOOLEAN]

DisputesInit ==
    dispute = [d \in Disputes |-> [status |-> "none", resolver |-> FALSE, resolutions |-> 0,
                                   unread |-> FALSE]]

ActiveDisputes == {d \in Disputes : dispute[d].status \in {"open", "under_review"}}

(***************************************************************************)
(* openDispute                                                             *)
(***************************************************************************)

\* A bug to catch: only a dispute nobody reviews yet counts as open.
OpenDisputeCheckIgnoresReview(r) ==
    /\ Free(r, "openDispute")
    /\ Exists
    /\ \A d \in Disputes : dispute[d].status # "open"
    /\ Suspend(r, [Idle EXCEPT !.op = "openDispute", !.pc = "dispute_insert"])
    /\ UNCHANGED <<agreement, seen, faults, dispute>>

\* The check takes only data: it is empty when there is no active dispute, and
\* when there are several, on which maybeSingle fails.
OpenDisputeCheck(r) ==
    /\ Free(r, "openDispute")
    /\ Exists
    /\ Cardinality(ActiveDisputes) # 1
    /\ Suspend(r, [Idle EXCEPT !.op = "openDispute",
                               !.pc = IF ActiveDisputes = {} THEN "dispute_insert"
                                                             ELSE "dispute_insert_unread"])
    /\ UNCHANGED <<agreement, seen, faults, dispute>>

\* Nor is there data when the select fails: the dispute is inserted all the same.
OpenDisputeCheckFails(r) ==
    /\ Free(r, "openDispute")
    /\ Exists
    /\ Fault
    /\ Suspend(r, [Idle EXCEPT !.op = "openDispute", !.pc = "dispute_insert_unread"])
    /\ UNCHANGED <<agreement, seen, dispute>>

\* The agreement's status is only looked at by applyStatusChange, afterwards.
OpenDisputeInsert(r, d) ==
    /\ req[r].pc \in {"dispute_insert", "dispute_insert_unread"}
    /\ dispute[d].status = "none"
    /\ dispute' = [dispute EXCEPT ![d].status = "open",
                                  ![d].unread = (req[r].pc = "dispute_insert_unread")]
    /\ Suspend(r, [req[r] EXCEPT !.pc = "apply_read", !.to = "disputed", !.enforce = TRUE,
                                 !.about = d])
    /\ UNCHANGED <<agreement, seen, faults>>

(***************************************************************************)
(* assignResolver                                                          *)
(***************************************************************************)
\* A bug to catch: a resolver is assigned to a dispute that is over.
AssignResolverReadAnyStatus(r, d) ==
    /\ Free(r, "assignResolver")
    /\ dispute[d].status # "none"
    /\ Exists
    /\ Suspend(r, [Idle EXCEPT !.op = "assignResolver", !.pc = "resolver_write", !.about = d])
    /\ UNCHANGED <<agreement, seen, faults, dispute>>

AssignResolverRead(r, d) ==
    /\ Free(r, "assignResolver")
    /\ dispute[d].status = "open"
    /\ Exists
    /\ Suspend(r, [Idle EXCEPT !.op = "assignResolver", !.pc = "resolver_write", !.about = d])
    /\ UNCHANGED <<agreement, seen, faults, dispute>>

AssignResolverWrite(r) ==
    /\ req[r].pc = "resolver_write"
    /\ dispute' = [dispute EXCEPT ![req[r].about].status = "under_review",
                                  ![req[r].about].resolver = TRUE]
    /\ Return(r)
    /\ UNCHANGED <<agreement, seen, faults>>

(***************************************************************************)
(* resolveDispute: the resolution, then the dispute, then the agreement    *)
(***************************************************************************)

\* A bug to catch: a resolved dispute can be resolved again.
ResolveDisputeReadAnyStatus(r, d) ==
    /\ Free(r, "resolveDispute")
    /\ dispute[d].resolver
    /\ Suspend(r, [Idle EXCEPT !.op = "resolveDispute", !.pc = "resolution_insert",
                               !.about = d])
    /\ UNCHANGED <<agreement, seen, faults, dispute>>

\* Not only a dispute under review: a cancelled one passes too.
ResolveDisputeRead(r, d) ==
    /\ Free(r, "resolveDispute")
    /\ dispute[d].status # "resolved"
    /\ dispute[d].resolver
    /\ Suspend(r, [Idle EXCEPT !.op = "resolveDispute", !.pc = "resolution_insert",
                               !.about = d])
    /\ UNCHANGED <<agreement, seen, faults, dispute>>

ResolutionInsert(r) ==
    /\ req[r].pc = "resolution_insert"
    /\ dispute[req[r].about].resolutions < MaxResolutions
    /\ dispute' = [dispute EXCEPT ![req[r].about].resolutions = @ + 1]
    /\ Goto(r, "resolve_mark")
    /\ UNCHANGED <<agreement, seen, faults>>

ResolvedNext(r) ==
    Suspend(r, [req[r] EXCEPT !.pc = "apply_read", !.to = "resolved", !.enforce = TRUE])

ResolveMark(r) ==
    /\ req[r].pc = "resolve_mark"
    /\ dispute' = [dispute EXCEPT ![req[r].about].status = "resolved"]
    /\ ResolvedNext(r)
    /\ UNCHANGED <<agreement, seen, faults>>

\* The error of this update is not looked at: the agreement is resolved all the
\* same.
ResolveMarkFails(r) ==
    /\ req[r].pc = "resolve_mark"
    /\ Fault
    /\ ResolvedNext(r)
    /\ UNCHANGED <<agreement, seen, dispute>>

(***************************************************************************)
(* cancelDispute: the dispute first, then the agreement back to active     *)
(***************************************************************************)
CancelDisputeRead(r, d) ==
    /\ Free(r, "cancelDispute")
    /\ dispute[d].status \notin {"none", "resolved"}
    /\ Suspend(r, [Idle EXCEPT !.op = "cancelDispute", !.pc = "cancel_mark", !.about = d])
    /\ UNCHANGED <<agreement, seen, faults, dispute>>

\* A bug to catch: the dispute gets the spelling of another service.
CancelDisputeMarkMisspelt(r) ==
    /\ req[r].pc = "cancel_mark"
    /\ dispute' = [dispute EXCEPT ![req[r].about].status = "withdrawn"]
    /\ Goto(r, "cancel_check")
    /\ UNCHANGED <<agreement, seen, faults>>

CancelDisputeMark(r) ==
    /\ req[r].pc = "cancel_mark"
    /\ dispute' = [dispute EXCEPT ![req[r].about].status = "cancelled"]
    /\ Goto(r, "cancel_check")
    /\ UNCHANGED <<agreement, seen, faults>>

\* A bug to catch: whatever the agreement is doing, it becomes active.
CancelDisputeCheckSkipped(r) ==
    /\ req[r].pc = "cancel_check"
    /\ Suspend(r, [req[r] EXCEPT !.pc = "apply_read", !.to = "active"])
    /\ UNCHANGED <<agreement, seen, faults, dispute>>

\* Validated here; applyStatusChange reads again and does not validate.
CancelDisputeCheck(r) ==
    /\ req[r].pc = "cancel_check"
    /\ IF L!validateTransition(agreement.status, "active")
       THEN Suspend(r, [req[r] EXCEPT !.pc = "apply_read", !.to = "active"])
       ELSE Return(r)
    /\ UNCHANGED <<agreement, seen, faults, dispute>>

DisputesNext ==
    \E r \in Reqs :
        \/ OpenDisputeCheck(r)
        \/ OpenDisputeCheckFails(r)
        \/ \E d \in Disputes : \/ OpenDisputeInsert(r, d)
                               \/ AssignResolverRead(r, d)
                               \/ ResolveDisputeRead(r, d)
                               \/ CancelDisputeRead(r, d)
        \/ AssignResolverWrite(r)
        \/ ResolutionInsert(r)
        \/ ResolveMark(r)
        \/ ResolveMarkFails(r)
        \/ CancelDisputeMark(r)
        \/ CancelDisputeCheck(r)

ClientsNext == (AgreementsNext /\ UNCHANGED dispute) \/ DisputesNext

ClientsInit == AgreementsInit /\ DisputesInit

ClientsSpec == ClientsInit /\ [][ClientsNext]_disputeVars
----
(***************************************************************************)
(* Properties                                                              *)
(***************************************************************************)

\* The rows, the handlers in flight and the histories keep their shape.
TypeOK ==
    /\ agreement \in Agreement
    /\ req \in [Reqs -> Request]
    /\ seen \subseteq Statuses
    /\ faults \in 0..MaxFaults
    /\ dispute \in [Disputes -> Dispute]

AllIdle == \A r \in Reqs : req[r].pc = "idle"

\* One handler at a time, each of which may fail anywhere, changes the status
\* only along AGREEMENT_TRANSITIONS, and deletes the row only before it is used.
ImplementsLifecycle == L!LifecycleSpec

\* However the handlers of clients and disputes overlap, a status is written
\* only if it was declared as a successor of one the row has had by then: a
\* write may come too late, but never with a status that nobody validated.
ReachedLegally ==
    [][agreement'.status # agreement.status =>
         \/ agreement.status = "none" /\ agreement'.status = "pending"
         \/ agreement'.status = "deleted"
         \/ \E from \in seen : agreement'.status \in L!AGREEMENT_TRANSITIONS[from]
      ]_disputeVars

\* The lifecycle says of completed, resolved and cancelled that they "accept
\* none": no handler of a client gives such an agreement another status.
TerminalAcceptsNone ==
    [][agreement.status \in L!TERMINAL_STATUSES
         => agreement'.status \in {agreement.status, "deleted"}]_disputeVars

\* However the handlers overlap, a row that says completed or resolved has its
\* completed_at and one that was ever funded has its funded_at.
SettledIsStamped ==
    /\ agreement.status \in {"completed", "resolved"} => agreement.completed_at
    /\ "funded" \in seen => agreement.funded_at

\* openDispute says "There is already an open dispute for this agreement" to
\* whoever opens a second one: no two are open or under review at once.
OneActiveDispute == Cardinality(ActiveDisputes) <= 1

\* With one handler at a time a second active dispute is there only because a
\* select that should have found the first one failed: at most one was opened
\* upon an answer, and none beside it while no call has failed.
OneCheckedDispute ==
    /\ Cardinality({d \in ActiveDisputes : ~dispute[d].unread}) <= 1
    /\ faults = 0 => OneActiveDispute

\* With one handler at a time a dispute gets a second resolution only when a
\* fault came between the first one and the update that marks it resolved.
ResolutionBudget == \A d \in Disputes : dispute[d].resolutions <= 1 + faults

\* With one handler at a time a resolved dispute stays resolved and a withdrawn
\* one is never open or under review again, although every handler writes by id
\* what it decided earlier.  Its resolver may still resolve a withdrawn dispute:
\* resolveDispute refuses only a resolved one.
DisputeEndsOnce ==
    [][\A d \in Disputes :
         /\ dispute[d].status = "resolved" => dispute'[d].status = "resolved"
         /\ dispute[d].status = "cancelled" => dispute'[d].status \in {"cancelled", "resolved"}
      ]_disputeVars

\* Without faults a create whose participants cannot be inserted leaves no
\* agreement behind: at rest every agreement has its participants.
NoAgreementWithoutParties ==
    faults = 0 /\ AllIdle /\ Exists => agreement.participants

\* With one handler at a time an agreement becomes completed only while every
\* milestone is approved or released.
CompletionNeedsMilestones ==
    [][agreement.status # "completed" /\ agreement'.status = "completed"
         => L!milestonesSatisfyCompletion(agreement.milestones)]_disputeVars

\* cancelDispute says "dispute cancelled -> agreement back to active": the
\* status it overwrites is disputed.
WithdrawalReopensDisputed ==
    [][\A r \in Reqs :
         /\ req[r].op = "cancelDispute"
         /\ req[r].pc = "apply_write"
         /\ req'[r].pc = "idle"
         /\ agreement'.status # agreement.status
         => agreement.status = "disputed"]_disputeVars
====
