---- MODULE EscrowPlatformProofs ----
(***************************************************************************)
(* Proofs about all writers of the agreement together: for any payloads of *)
(* Trustless Work, whatever statuses they name, any answers of its API,    *)
(* and any number of disputes, milestones, attempts and faults; with one   *)
(* request slot, but for the last part.                                    *)
(***************************************************************************)
EXTENDS EscrowPlatform, DisputeHandlingProofs

EventPcs == {"event_read", "event_write", "event_check", "event_ack"}

SyncPcs == {"sync_fetch", "sync_write", "reconcile_read", "reconcile_write"}

SyncOf == {"sync", "reconcile"}

\* The status of an event is not looked at before it is known to be applied.
AnyStatus == RowStatus \cup {e.to : e \in Events}

PlatformAgreement == [status : AnyStatus, contract : BOOLEAN, participants : BOOLEAN,
                      funded_at : BOOLEAN, completed_at : BOOLEAN,
                      milestones : MilestoneArray]

PlatformRequest == Held(AnyStatus)

JobStatus == {"absent", "pending", "processing", "succeeded", "failed"}

PlatformTypeOK ==
    /\ agreement \in PlatformAgreement
    /\ req \in [Reqs -> PlatformRequest]
    /\ jobStatus \in [Events -> JobStatus]

\* The job's handler knows of the row what it will write or report.
EventKnows(q) ==
    /\ q.op = "processEvent" <=> q.pc \in EventPcs
    /\ q.pc \in EventPcs => q.about \in Events
    /\ q.pc = "event_write" /\ q.about.action = "status_update"
       => /\ q.to = q.about.to
          /\ Found => L!validateTransition(agreement.status, q.to)
    /\ q.pc = "event_check" /\ Found => agreement.status = q.about.to
    /\ q.pc = "event_ack" /\ q.about.action = "status_update"
       => q.about \in rejected \/ q.about.to \in seen

\* The sync holds the status it read, then one that is not behind it.
SyncKnows(q) ==
    /\ q.op \in SyncOf <=> q.pc \in SyncPcs
    /\ q.pc = "sync_fetch" => q.to = agreement.status
    /\ q.pc = "sync_write" => statusOrder(q.to) >= statusOrder(agreement.status)

PlatformInv ==
    /\ PlatformTypeOK
    /\ StatusWasSeen
    /\ \A r \in Reqs : EventKnows(req[r]) /\ SyncKnows(req[r])
    /\ AcknowledgedMeansApplied

(***************************************************************************)
(* Rows and slots                                                          *)
(***************************************************************************)

\* A row that changed keeps its shape, and its history what it had.
RowKept ==
    /\ agreement' \in PlatformAgreement
    /\ StatusWasSeen'
    /\ seen \subseteq seen'

\* A slot that neither a job nor a sync uses.
ClientSlot(q) ==
    /\ q \in PlatformRequest
    /\ q.pc \notin EventPcs \cup SyncPcs
    /\ q.op \notin {"processEvent"} \cup SyncOf

ClientMoves == \E r \in Reqs : \E new : ClientSlot(new) /\ req' = [req EXCEPT ![r] = new]

LEMMA IdleIsClientSlot == ClientSlot(Idle)
  BY DEF ClientSlot, Idle, PlatformRequest, Held, AnyStatus, RowStatus, Pcs, NoMilestones,
         MilestoneArray, L!MILESTONE_STATUSES, EventPcs, SyncPcs, SyncOf

LEMMA RowUnchanged ==
  ASSUME PlatformInv, UNCHANGED <<agreement, seen>> PROVE RowKept
  BY DEF PlatformInv, PlatformTypeOK, RowKept, StatusWasSeen, Exists

LEMMA StatusWritten ==
  ASSUME PlatformInv, NEW to \in AnyStatus, WriteStatus(to)
  PROVE  RowKept /\ agreement'.status = to /\ to \in seen'
<1>1. agreement' \in PlatformAgreement /\ agreement'.status = to
  BY DEF PlatformInv, PlatformTypeOK, PlatformAgreement, WriteStatus
<1> QED  BY <1>1 DEF RowKept, StatusWasSeen, WriteStatus

\* The step of one slot, which holds `new` from then on.
LEMMA PlatformSlotStep ==
  ASSUME OneAtATime, PlatformInv, NEW r \in Reqs, NEW new \in PlatformRequest,
         req' = [req EXCEPT ![r] = new], RowKept,
         EventKnows(req[r])', SyncKnows(req[r])',
         jobStatus' \in [Events -> JobStatus],
         AcknowledgedMeansApplied'
  PROVE  PlatformInv'
<1>1. PlatformTypeOK'
  BY DEF PlatformInv, PlatformTypeOK, RowKept
<1>2. \A s \in Reqs : (EventKnows(req[s]) /\ SyncKnows(req[s]))'
  BY DEF OneAtATime
<1> QED  BY <1>1, <1>2 DEF PlatformInv, RowKept

LEMMA ClientStep ==
  ASSUME OneAtATime, PlatformInv, RowKept,
         ClientMoves,
         UNCHANGED webhookVars
  PROVE  PlatformInv'
<1> PICK r \in Reqs : \E new : ClientSlot(new) /\ req' = [req EXCEPT ![r] = new]
  BY DEF ClientMoves
<1> PICK new : ClientSlot(new) /\ req' = [req EXCEPT ![r] = new]
  OBVIOUS
<1>0. req'[r] = new
  BY DEF PlatformInv, PlatformTypeOK
<1>1. EventKnows(req[r])' /\ SyncKnows(req[r])' /\ new \in PlatformRequest
  BY <1>0 DEF ClientSlot, EventKnows, SyncKnows, EventPcs, SyncPcs
<1>2. AcknowledgedMeansApplied'
  BY DEF PlatformInv, AcknowledgedMeansApplied, webhookVars, RowKept
<1>3. jobStatus' \in [Events -> JobStatus]
  BY DEF PlatformInv, PlatformTypeOK, webhookVars
<1> QED  BY <1>1, <1>2, <1>3, PlatformSlotStep

\* A client's handler goes on.
LEMMA ClientGoes ==
  ASSUME PlatformInv, NEW r \in Reqs, req[r].pc \notin EventPcs \cup SyncPcs
  PROVE  ClientSlot(req[r])
  BY DEF PlatformInv, PlatformTypeOK, EventKnows, SyncKnows, ClientSlot

LEMMA ClientReturns ==
  ASSUME NEW r \in Reqs, Return(r)
  PROVE  ClientMoves
  BY IdleIsClientSlot DEF Return, ClientMoves

LEMMA ClientSuspends ==
  ASSUME NEW r \in Reqs, NEW new, ClientSlot(new), Suspend(r, new)
  PROVE  ClientMoves
  BY DEF Suspend, ClientMoves

LEMMA ClientContinues ==
  ASSUME PlatformInv, NEW r \in Reqs, NEW pc \in Pcs \ (EventPcs \cup SyncPcs), Goto(r, pc),
         req[r].pc \notin EventPcs \cup SyncPcs
  PROVE  ClientMoves
<1>1. ClientSlot([req[r] EXCEPT !.pc = pc])
  BY ClientGoes DEF ClientSlot, PlatformRequest, Held
<1> QED  BY <1>1 DEF Goto, ClientMoves

LEMMA AgreementsRow ==
  ASSUME PlatformInv, AgreementsNext PROVE RowKept
<1>t. /\ agreement \in PlatformAgreement /\ req \in [Reqs -> PlatformRequest]
      /\ Statuses \subseteq AnyStatus /\ {"pending", "deleted"} \subseteq AnyStatus
      /\ "deleted" \notin Statuses
  BY DEF PlatformInv, PlatformTypeOK, AnyStatus, RowStatus, Statuses, L!AGREEMENT_STATUSES
<1>1. ASSUME NEW r \in Reqs, UpdateStatusWrite(r) \/ ApplyWrite(r) PROVE RowKept
  <2>1. req[r].to \in AnyStatus
    BY <1>t DEF PlatformRequest, Held
  <2> QED  BY <1>1, <2>1, StatusWritten, RowUnchanged DEF UpdateStatusWrite, ApplyWrite
<1>2. ASSUME NEW r \in Reqs, NEW withContract \in BOOLEAN, NEW milestones \in MilestoneArray,
             CreateInsert(r, withContract, milestones)
      PROVE  RowKept
  <2>1. agreement' \in PlatformAgreement /\ agreement'.status = "pending"
    BY <1>2, <1>t DEF CreateInsert, PlatformAgreement
  <2> QED  BY <1>2, <2>1 DEF CreateInsert, RowKept, StatusWasSeen
<1>3. ASSUME agreement' \in PlatformAgreement, UNCHANGED seen,
             agreement'.status = agreement.status \/ agreement'.status = "deleted"
      PROVE  RowKept
  BY <1>3, <1>t DEF RowKept, PlatformInv, StatusWasSeen, Exists
<1>4. ASSUME NEW r \in Reqs, CreateParticipants(r) PROVE RowKept
  BY <1>3, <1>4, <1>t DEF CreateParticipants, PlatformAgreement
<1>5. ASSUME NEW r \in Reqs, CreateUndo(r) PROVE RowKept
  BY <1>3, <1>5, <1>t DEF CreateUndo, PlatformAgreement
<1>6. ASSUME NEW r \in Reqs, LinkContractWrite(r) PROVE RowKept
  BY <1>3, <1>6, <1>t DEF LinkContractWrite, PlatformAgreement
<1>7. ASSUME NEW r \in Reqs, UpdateMilestoneWrite(r) PROVE RowKept
  <2>1. req[r].milestones \in MilestoneArray
    BY <1>t DEF PlatformRequest, Held
  <2> QED  BY <1>3, <1>7, <1>t, <2>1 DEF UpdateMilestoneWrite, PlatformAgreement
<1> QED
  BY <1>1, <1>2, <1>4, <1>5, <1>6, <1>7, RowUnchanged
     DEF AgreementsNext, CreateParticipantsFail, LinkContractValidate, UpdateStatusRead,
         ApplyRead, UpdateMilestoneRead, Abort

LEMMA AgreementsSlot ==
  ASSUME PlatformInv, AgreementsNext
  PROVE  ClientMoves
<1>t. /\ agreement \in PlatformAgreement /\ req \in [Reqs -> PlatformRequest]
      /\ Statuses \subseteq AnyStatus
  BY DEF PlatformInv, PlatformTypeOK, AnyStatus, RowStatus
<1>1. ASSUME NEW r \in Reqs, NEW withContract \in BOOLEAN, NEW milestones \in MilestoneArray,
             CreateInsert(r, withContract, milestones)
      PROVE  ClientMoves
  <2>1. ClientSlot([Idle EXCEPT !.op = "create", !.pc = "create_participants"])
    BY <1>1, IdleIsClientSlot
       DEF CreateInsert, Free, ClientSlot, PlatformRequest, Held, Pcs, EventPcs, SyncPcs, SyncOf
  <2> QED  BY ClientSuspends, <1>1, <2>1 DEF CreateInsert
<1>2. ASSUME NEW r \in Reqs, LinkContractValidate(r) PROVE ClientMoves
  <2>1. ClientSlot([Idle EXCEPT !.op = "linkContract", !.pc = "link_write"])
    BY <1>2, IdleIsClientSlot
       DEF LinkContractValidate, Free, ClientSlot, PlatformRequest, Held, Pcs, EventPcs, SyncPcs, SyncOf
  <2> QED  BY ClientSuspends, <1>2, <2>1 DEF LinkContractValidate
<1>3. ASSUME NEW r \in Reqs, NEW to \in Statuses, UpdateStatusRead(r, to) PROVE ClientMoves
  <2>1. ClientSlot([Idle EXCEPT !.op = "updateStatus", !.pc = "status_write", !.to = to])
    BY <1>3, <1>t, IdleIsClientSlot
       DEF UpdateStatusRead, Free, ClientSlot, PlatformRequest, Held, Pcs, EventPcs, SyncPcs, SyncOf
  <2> QED  BY ClientSuspends, <1>3, <2>1 DEF UpdateStatusRead
<1>4. ASSUME NEW r \in Reqs, NEW i \in Milestones, NEW to \in L!MILESTONE_STATUSES,
             UpdateMilestoneRead(r, i, to)
      PROVE  ClientMoves
  <2>1. [agreement.milestones EXCEPT ![i] = to] \in MilestoneArray
    BY <1>t DEF PlatformAgreement, MilestoneArray
  <2>2. ClientSlot([Idle EXCEPT !.op = "updateMilestone", !.pc = "milestone_write",
                                !.milestones = [agreement.milestones EXCEPT ![i] = to]])
    BY <1>4, <2>1, IdleIsClientSlot
       DEF UpdateMilestoneRead, Free, ClientSlot, PlatformRequest, Held, Pcs, EventPcs, SyncPcs, SyncOf
  <2> QED  BY ClientSuspends, <1>4, <2>2 DEF UpdateMilestoneRead
<1>5. ASSUME NEW r \in Reqs, CreateParticipantsFail(r) PROVE ClientMoves
  BY ClientContinues, <1>5 DEF CreateParticipantsFail, Pcs, EventPcs, SyncPcs
<1>6. ASSUME NEW r \in Reqs, ApplyRead(r) PROVE ClientMoves
  BY ClientContinues, ClientReturns, <1>6 DEF ApplyRead, Pcs, EventPcs, SyncPcs
<1> QED
  BY ClientReturns, <1>1, <1>2, <1>3, <1>4, <1>5, <1>6
     DEF AgreementsNext, CreateParticipants, CreateUndo, LinkContractWrite,
         UpdateStatusWrite, ApplyWrite, UpdateMilestoneWrite, Abort

LEMMA DisputesSlot ==
  ASSUME PlatformInv, DisputesNext
  PROVE  ClientMoves
<1>t. /\ req \in [Reqs -> PlatformRequest]
      /\ {"disputed", "resolved", "active"} \subseteq AnyStatus
      /\ Disputes \subseteq Subjects
  BY DisputesAssumption
     DEF PlatformInv, PlatformTypeOK, AnyStatus, RowStatus, Statuses, L!AGREEMENT_STATUSES
<1>1. ASSUME NEW r \in Reqs, OpenDisputeCheck(r) PROVE ClientMoves
  <2>1. ClientSlot([Idle EXCEPT !.op = "openDispute",
                                !.pc = IF ActiveDisputes = {} THEN "dispute_insert"
                                                              ELSE "dispute_insert_unread"])
    BY <1>1, IdleIsClientSlot
       DEF OpenDisputeCheck, Free, ClientSlot, PlatformRequest, Held, Pcs, EventPcs, SyncPcs, SyncOf
  <2> QED  BY ClientSuspends, <1>1, <2>1 DEF OpenDisputeCheck
<1>2. ASSUME NEW r \in Reqs, NEW d \in Disputes, OpenDisputeInsert(r, d) PROVE ClientMoves
  <2>1. ClientSlot([req[r] EXCEPT !.pc = "apply_read", !.to = "disputed", !.enforce = TRUE,
                                  !.about = d])
    BY ZenonT(60), <1>2, <1>t, ClientGoes
       DEF OpenDisputeInsert, ClientSlot, PlatformRequest, Held, Pcs, EventPcs, SyncPcs
  <2> QED  BY ClientSuspends, <1>2, <2>1 DEF OpenDisputeInsert
<1>3. ASSUME NEW r \in Reqs, NEW d \in Disputes, AssignResolverRead(r, d) PROVE ClientMoves
  <2>1. ClientSlot([Idle EXCEPT !.op = "assignResolver", !.pc = "resolver_write", !.about = d])
    BY <1>3, <1>t, IdleIsClientSlot
       DEF AssignResolverRead, Free, ClientSlot, PlatformRequest, Held, Pcs, EventPcs, SyncPcs, SyncOf
  <2> QED  BY ClientSuspends, <1>3, <2>1 DEF AssignResolverRead
<1>4. ASSUME NEW r \in Reqs, NEW d \in Disputes, ResolveDisputeRead(r, d) PROVE ClientMoves
  <2>1. ClientSlot([Idle EXCEPT !.op = "resolveDispute", !.pc = "resolution_insert", !.about = d])
    BY <1>4, <1>t, IdleIsClientSlot
       DEF ResolveDisputeRead, Free, ClientSlot, PlatformRequest, Held, Pcs, EventPcs, SyncPcs, SyncOf
  <2> QED  BY ClientSuspends, <1>4, <2>1 DEF ResolveDisputeRead
<1>5. ASSUME NEW r \in Reqs, NEW d \in Disputes, CancelDisputeRead(r, d) PROVE ClientMoves
  <2>1. ClientSlot([Idle EXCEPT !.op = "cancelDispute", !.pc = "cancel_mark", !.about = d])
    BY <1>5, <1>t, IdleIsClientSlot
       DEF CancelDisputeRead, Free, ClientSlot, PlatformRequest, Held, Pcs, EventPcs, SyncPcs, SyncOf
  <2> QED  BY ClientSuspends, <1>5, <2>1 DEF CancelDisputeRead
<1>6. ASSUME NEW r \in Reqs, ResolveMark(r) \/ ResolveMarkFails(r) PROVE ClientMoves
  <2>1. ClientSlot([req[r] EXCEPT !.pc = "apply_read", !.to = "resolved", !.enforce = TRUE])
    BY ZenonT(60), <1>6, <1>t, ClientGoes
       DEF ResolveMark, ResolveMarkFails, ClientSlot, PlatformRequest, Held, Pcs, EventPcs, SyncPcs
  <2> QED  BY ClientSuspends, <1>6, <2>1 DEF ResolveMark, ResolveMarkFails, ResolvedNext
<1>7. ASSUME NEW r \in Reqs, CancelDisputeCheck(r) PROVE ClientMoves
  <2>1. ClientSlot([req[r] EXCEPT !.pc = "apply_read", !.to = "active"])
    BY ZenonT(60), <1>7, <1>t, ClientGoes
       DEF CancelDisputeCheck, ClientSlot, PlatformRequest, Held, Pcs, EventPcs, SyncPcs
  <2> QED  BY ClientSuspends, ClientReturns, <1>7, <2>1 DEF CancelDisputeCheck
<1>8. ASSUME NEW r \in Reqs, ResolutionInsert(r) \/ CancelDisputeMark(r) PROVE ClientMoves
  BY ClientContinues, <1>8 DEF ResolutionInsert, CancelDisputeMark, Pcs, EventPcs, SyncPcs
<1>9. ASSUME NEW r \in Reqs, OpenDisputeCheckFails(r) PROVE ClientMoves
  <2>1. ClientSlot([Idle EXCEPT !.op = "openDispute", !.pc = "dispute_insert_unread"])
    BY <1>9, IdleIsClientSlot
       DEF OpenDisputeCheckFails, Free, ClientSlot, PlatformRequest, Held, Pcs, EventPcs, SyncPcs,
           SyncOf
  <2> QED  BY ClientSuspends, <1>9, <2>1 DEF OpenDisputeCheckFails
<1> QED
  BY ClientReturns, <1>1, <1>2, <1>3, <1>4, <1>5, <1>6, <1>7, <1>8, <1>9
     DEF DisputesNext, AssignResolverWrite

(***************************************************************************)
(* Webhooks                                                                *)
(***************************************************************************)

\* The queue's step, if any, ends no job but one whose event is dealt with.
JobsKept ==
    /\ jobStatus' \in [Events -> JobStatus]
    /\ rejected \subseteq rejected'
    /\ \A e \in Events : jobStatus'[e] = "succeeded" /\ e.action = "status_update"
         => jobStatus[e] = "succeeded" \/ e \in rejected \/ e.to \in seen

LEMMA JobsUnchanged ==
  ASSUME PlatformInv, UNCHANGED jobStatus, rejected \subseteq rejected' PROVE JobsKept
  BY DEF PlatformInv, PlatformTypeOK, JobsKept

LEMMA JobsUnfinished ==
  ASSUME PlatformInv, UNCHANGED rejected, NEW e,
         Queue!Submit(e) \/ Queue!Begin(e) \/ Queue!Requeue(e) \/ Queue!GiveUp(e)
  PROVE  JobsKept
<1>1. PICK new \in {"pending", "processing", "failed"} : jobStatus' = [jobStatus EXCEPT ![e] = new]
  BY DEF Queue!Submit, Queue!Begin, Queue!Requeue, Queue!GiveUp
<1> QED  BY <1>1 DEF PlatformInv, PlatformTypeOK, JobsKept, JobStatus

LEMMA EventSlot ==
  ASSUME OneAtATime, PlatformInv, JobsKept, RowKept, NEW r \in Reqs, NEW new \in PlatformRequest,
         req' = [req EXCEPT ![r] = new], EventKnows(req[r])', SyncKnows(req[r])'
  PROVE  PlatformInv'
<1>1. AcknowledgedMeansApplied'
  BY DEF PlatformInv, AcknowledgedMeansApplied, JobsKept, RowKept
<1> QED  BY <1>1, PlatformSlotStep DEF JobsKept

LEMMA EventReturns ==
  ASSUME OneAtATime, PlatformInv, JobsKept, RowKept, NEW r \in Reqs, Return(r)
  PROVE  PlatformInv'
<1>0. req'[r] = Idle
  BY DEF Return, PlatformInv, PlatformTypeOK
<1>1. Idle \in PlatformRequest /\ EventKnows(req[r])' /\ SyncKnows(req[r])'
  BY <1>0, IdleIsClientSlot DEF ClientSlot, EventKnows, SyncKnows, EventPcs, SyncPcs
<1> QED  BY <1>1, EventSlot DEF Return

\* The handler resolves, of an event that was refused or applied.
LEMMA EventResolves ==
  ASSUME OneAtATime, PlatformInv, JobsKept, RowKept, NEW r \in Reqs, Goto(r, "event_ack"),
         req[r].pc \in EventPcs,
         \/ req[r].about.action # "status_update"
         \/ req[r].about \in rejected'
         \/ req[r].about.to \in seen'
  PROVE  PlatformInv'
<1> DEFINE new == [req[r] EXCEPT !.pc = "event_ack"]
<1>1. /\ req[r] \in PlatformRequest /\ req[r].about \in Events
      /\ req[r].op = "processEvent"
  BY DEF PlatformInv, PlatformTypeOK, EventKnows
<1>2. /\ new \in PlatformRequest /\ new.pc = "event_ack" /\ new.about = req[r].about
      /\ new.op = "processEvent"
  BY <1>1 DEF PlatformRequest, Held, Pcs
<1>3. req' = [req EXCEPT ![r] = new] /\ req'[r] = new
  BY DEF Goto, PlatformInv, PlatformTypeOK
<1> HIDE DEF new
<1>4. EventKnows(req[r])' /\ SyncKnows(req[r])'
  BY <1>1, <1>2, <1>3 DEF EventKnows, SyncKnows, EventPcs, SyncPcs, SyncOf
<1> QED  BY <1>2, <1>3, <1>4, EventSlot

LEMMA EventThrows ==
  ASSUME OneAtATime, PlatformInv, RowKept, NEW r \in Reqs, Throw(r), UNCHANGED rejected
  PROVE  PlatformInv'
  BY JobsUnfinished, EventReturns DEF Throw

LEMMA WebhooksStep ==
  ASSUME OneAtATime, PlatformInv, WebhooksNext PROVE PlatformInv'
<1>t. /\ agreement \in PlatformAgreement /\ req \in [Reqs -> PlatformRequest]
      /\ \A r \in Reqs : EventKnows(req[r]) /\ SyncKnows(req[r])
      /\ StatusWasSeen
  BY DEF PlatformInv, PlatformTypeOK
<1>1. ASSUME NEW e \in Events, handleEvent(e) \/ ReclaimEvent(e) PROVE PlatformInv'
  <2>1. JobsKept /\ RowKept
    BY <1>1, JobsUnfinished, RowUnchanged DEF handleEvent, ReclaimEvent, agreementVars
  <2>2. UNCHANGED <<agreement, req, seen, rejected>>
    BY <1>1 DEF handleEvent, ReclaimEvent, agreementVars
  <2>3. \A r \in Reqs : (EventKnows(req[r]) /\ SyncKnows(req[r]))'
    BY <1>t, <2>2 DEF EventKnows, SyncKnows, Found, Exists
  <2>4. PlatformTypeOK' /\ AcknowledgedMeansApplied'
    BY <2>1, <2>2 DEF PlatformInv, PlatformTypeOK, JobsKept, AcknowledgedMeansApplied
  <2> QED  BY <2>1, <2>3, <2>4 DEF PlatformInv, RowKept
<1>2. ASSUME NEW r \in Reqs, NEW e \in Events, processEvent(r, e) PROVE PlatformInv'
  <2> DEFINE new == [Idle EXCEPT !.op = "processEvent", !.pc = "event_read", !.about = e]
  <2>1. /\ new \in PlatformRequest /\ new.pc = "event_read" /\ new.op = "processEvent"
        /\ new.about = e
    BY <1>2, IdleIsClientSlot, EventsAssumption
       DEF processEvent, Free, ClientSlot, PlatformRequest, Held, Pcs
  <2>2. req' = [req EXCEPT ![r] = new] /\ req'[r] = new
    BY <1>2, <1>t DEF processEvent, Suspend
  <2>3. JobsKept /\ RowKept
    BY <1>2, JobsUnfinished, RowUnchanged DEF processEvent
  <2> HIDE DEF new
  <2>4. EventKnows(req[r])' /\ SyncKnows(req[r])'
    BY <2>1, <2>2 DEF EventKnows, SyncKnows, EventPcs, SyncPcs, SyncOf
  <2> QED  BY <2>1, <2>2, <2>3, <2>4, EventSlot
<1>3. ASSUME NEW r \in Reqs, StatusEventRead(r) PROVE PlatformInv'
  <2>0. RowKept /\ req[r].about \in Events /\ req[r] \in PlatformRequest
    BY <1>3, <1>t, RowUnchanged DEF StatusEventRead, EventKnows, EventPcs
  <2>1. CASE Found /\ ~L!validateTransition(agreement.status, req[r].about.to)
    <3>1. JobsKept /\ req[r].about \in rejected'
      BY <1>3, <2>1, JobsUnchanged DEF StatusEventRead, Resolve
    <3> QED
      BY <1>3, <2>0, <2>1, <3>1, EventResolves DEF StatusEventRead, Resolve, EventPcs
  <2>2. CASE ~(Found /\ ~L!validateTransition(agreement.status, req[r].about.to))
    <3> DEFINE new == [req[r] EXCEPT !.pc = "event_write", !.to = req[r].about.to]
    <3>1. req[r].about.to \in AnyStatus
      BY <2>0 DEF AnyStatus
    <3>2. /\ new \in PlatformRequest /\ new.pc = "event_write" /\ new.op = req[r].op
          /\ new.about = req[r].about /\ new.to = req[r].about.to
      BY <2>0, <3>1 DEF PlatformRequest, Held, Pcs
    <3>3. req' = [req EXCEPT ![r] = new] /\ req'[r] = new /\ JobsKept
      BY <1>3, <1>t, <2>2, JobsUnchanged DEF StatusEventRead, Suspend, webhookVars
    <3>4. req[r].op = "processEvent" /\ UNCHANGED agreement
      BY <1>3, <1>t DEF StatusEventRead, EventKnows, EventPcs
    <3> HIDE DEF new
    <3>5. EventKnows(req[r])' /\ SyncKnows(req[r])'
      BY <1>t, <2>0, <2>2, <3>2, <3>3, <3>4
         DEF EventKnows, SyncKnows, EventPcs, SyncPcs, SyncOf, Found, Exists
    <3> QED  BY <2>0, <3>2, <3>3, <3>5, EventSlot
  <2> QED  BY <2>1, <2>2
<1>4. ASSUME NEW r \in Reqs, StatusEventWrite(r) PROVE PlatformInv'
  <2>0. /\ JobsKept /\ req[r].to = req[r].about.to /\ req[r] \in PlatformRequest
        /\ req[r].to \in AnyStatus /\ req[r].about \in Events /\ req[r].op = "processEvent"
    BY <1>4, <1>t, JobsUnchanged
       DEF StatusEventWrite, EventKnows, EventPcs, PlatformRequest, Held, Resolve
  <2>1. CASE Found /\ agreement.status # req[r].to
    <3>1. RowKept /\ req[r].to \in seen'
      BY <1>4, <2>0, <2>1, StatusWritten DEF StatusEventWrite
    <3> QED
      BY <1>4, <2>0, <2>1, <3>1, EventResolves DEF StatusEventWrite, Resolve, EventPcs
  <2>2. CASE ~(Found /\ agreement.status # req[r].to)
    <3> DEFINE new == [req[r] EXCEPT !.pc = "event_check"]
    <3>1. /\ new \in PlatformRequest /\ new.pc = "event_check" /\ new.op = req[r].op
          /\ new.about = req[r].about
      BY <2>0 DEF PlatformRequest, Held, Pcs
    <3>2. req' = [req EXCEPT ![r] = new] /\ req'[r] = new /\ RowKept /\ UNCHANGED agreement
      BY <1>4, <1>t, <2>2, RowUnchanged DEF StatusEventWrite, Goto
    <3> HIDE DEF new
    <3>3. EventKnows(req[r])' /\ SyncKnows(req[r])'
      BY <2>0, <2>2, <3>1, <3>2
         DEF EventKnows, SyncKnows, EventPcs, SyncPcs, SyncOf, Found, Exists
    <3> QED  BY <2>0, <3>1, <3>2, <3>3, EventSlot
  <2> QED  BY <2>1, <2>2
<1>5. ASSUME NEW r \in Reqs, StatusEventCheck(r) PROVE PlatformInv'
  <2>0. RowKept
    BY <1>5, RowUnchanged DEF StatusEventCheck
  <2>1. CASE Found
    <3>1. JobsKept
      BY <1>5, <2>1, JobsUnchanged DEF StatusEventCheck, Resolve
    <3>2. req[r].about.to \in seen'
      BY <1>5, <1>t, <2>1 DEF StatusEventCheck, EventKnows, StatusWasSeen, Found
    <3> QED
      BY <1>5, <2>0, <2>1, <3>1, <3>2, EventResolves DEF StatusEventCheck, Resolve, EventPcs
  <2>2. CASE ~Found
    BY <1>5, <2>0, <2>2, EventThrows DEF StatusEventCheck
  <2> QED  BY <2>1, <2>2
<1>6. ASSUME NEW r \in Reqs, EventAck(r) PROVE PlatformInv'
  <2>1. RowKept /\ req[r].about \in Events
    BY <1>6, <1>t, RowUnchanged DEF EventAck, EventKnows, EventPcs
  <2>2. JobsKept
    BY <1>6, <1>t, <2>1
       DEF EventAck, EventKnows, Queue!Succeed, JobsKept, JobStatus, PlatformInv, PlatformTypeOK
  <2> QED  BY <1>6, <2>1, <2>2, EventReturns DEF EventAck
<1>7. ASSUME NEW r \in Reqs, MilestoneEventRead(r) PROVE PlatformInv'
  <2>0. /\ RowKept /\ JobsKept /\ req[r] \in PlatformRequest /\ req[r].about \in Events
        /\ req[r].op = "processEvent" /\ UNCHANGED agreement
    BY <1>7, <1>t, RowUnchanged, JobsUnchanged DEF MilestoneEventRead, EventKnows, EventPcs, Resolve
  <2>1. CASE Found /\ req[r].about.index \in Milestones
    <3> DEFINE array == [agreement.milestones EXCEPT
                           ![req[r].about.index] = normalizeMilestoneStatus(req[r].about.to, @)]
               new == [req[r] EXCEPT !.pc = "event_write", !.milestones = array]
    <3>1. array \in MilestoneArray
      BY <1>t, <2>1 DEF PlatformAgreement, MilestoneArray, normalizeMilestoneStatus
    <3>2. req' = [req EXCEPT ![r] = new] /\ req'[r] = new
      BY <1>7, <1>t, <2>1 DEF MilestoneEventRead, Suspend
    <3> HIDE DEF array
    <3>3. /\ new \in PlatformRequest /\ new.pc = "event_write" /\ new.op = req[r].op
          /\ new.about = req[r].about
      BY <2>0, <3>1 DEF PlatformRequest, Held, Pcs
    <3> HIDE DEF new
    <3>4. EventKnows(req[r])' /\ SyncKnows(req[r])'
      BY <1>7, <2>0, <3>2, <3>3
         DEF MilestoneEventRead, EventKnows, SyncKnows, EventPcs, SyncPcs, SyncOf
    <3> QED  BY <2>0, <3>2, <3>3, <3>4, EventSlot
  <2>2. CASE ~(Found /\ req[r].about.index \in Milestones)
    BY <1>7, <2>0, <2>2, EventResolves DEF MilestoneEventRead, Resolve, EventPcs
  <2> QED  BY <2>1, <2>2
<1>8. ASSUME NEW r \in Reqs, MilestoneEventWrite(r) PROVE PlatformInv'
  <2>1. agreement' \in PlatformAgreement /\ agreement'.status = agreement.status
    BY <1>8, <1>t DEF MilestoneEventWrite, PlatformAgreement, PlatformRequest, Held
  <2>2. RowKept /\ JobsKept
    BY <1>8, <1>t, <2>1, JobsUnchanged
       DEF MilestoneEventWrite, Resolve, RowKept, StatusWasSeen, Exists
  <2> QED  BY <1>8, <2>2, EventResolves DEF MilestoneEventWrite, Resolve, EventPcs
<1>9. ASSUME NEW r \in Reqs, EventFails(r) PROVE PlatformInv'
  <2>0. RowKept
    BY <1>9, RowUnchanged DEF EventFails
  <2>1. CASE req[r].pc = "event_read" /\ req[r].about.action = "milestone_update"
    <3>1. JobsKept
      BY <1>9, <2>1, JobsUnchanged DEF EventFails, Resolve
    <3> QED  BY <1>9, <2>0, <2>1, <3>1, EventResolves DEF EventFails, Resolve, EventPcs
  <2>2. CASE ~(req[r].pc = "event_read" /\ req[r].about.action = "milestone_update")
    BY <1>9, <2>0, <2>2, EventThrows DEF EventFails
  <2> QED  BY <2>1, <2>2
<1> QED
  BY <1>1, <1>2, <1>3, <1>4, <1>5, <1>6, <1>7, <1>8, <1>9 DEF WebhooksNext

(***************************************************************************)
(* Sync                                                                    *)
(***************************************************************************)

LEMMA SyncSlot ==
  ASSUME OneAtATime, PlatformInv, RowKept, NEW r \in Reqs, NEW new \in PlatformRequest,
         req' = [req EXCEPT ![r] = new], EventKnows(req[r])', SyncKnows(req[r])',
         UNCHANGED webhookVars
  PROVE  PlatformInv'
<1>1. JobsKept
  BY JobsUnchanged DEF webhookVars
<1> QED  BY <1>1, EventSlot

LEMMA SyncReturns ==
  ASSUME OneAtATime, PlatformInv, RowKept, NEW r \in Reqs, Return(r), UNCHANGED webhookVars
  PROVE  PlatformInv'
  BY EventReturns, JobsUnchanged DEF webhookVars

\* The reconcile goes on with the milestones; of the status it knows nothing more.
LEMMA SyncEnds ==
  ASSUME OneAtATime, PlatformInv, RowKept, NEW r \in Reqs, SyncDone(r),
         req[r].pc \in SyncPcs, UNCHANGED webhookVars
  PROVE  PlatformInv'
<1>1. CASE req[r].op = "reconcile"
  <2> DEFINE new == [req[r] EXCEPT !.pc = "reconcile_read"]
  <2>1. /\ new \in PlatformRequest /\ new.pc = "reconcile_read" /\ new.op = "reconcile"
    BY <1>1 DEF PlatformInv, PlatformTypeOK, PlatformRequest, Held, Pcs
  <2>2. req' = [req EXCEPT ![r] = new] /\ req'[r] = new
    BY <1>1 DEF SyncDone, Goto, PlatformInv, PlatformTypeOK
  <2> HIDE DEF new
  <2>3. EventKnows(req[r])' /\ SyncKnows(req[r])'
    BY <2>1, <2>2 DEF EventKnows, SyncKnows, EventPcs, SyncPcs, SyncOf
  <2> QED  BY <2>1, <2>2, <2>3, SyncSlot
<1>2. CASE req[r].op # "reconcile"
  BY <1>2, SyncReturns DEF SyncDone
<1> QED  BY <1>1, <1>2

LEMMA SyncStep ==
  ASSUME OneAtATime, PlatformInv, SyncNext, UNCHANGED webhookVars PROVE PlatformInv'
<1>t. /\ agreement \in PlatformAgreement /\ req \in [Reqs -> PlatformRequest]
      /\ \A r \in Reqs : EventKnows(req[r]) /\ SyncKnows(req[r])
      /\ StatusWasSeen
  BY DEF PlatformInv, PlatformTypeOK
<1>1. ASSUME NEW r \in Reqs, NEW op \in SyncOf, SyncRead(r, op) PROVE PlatformInv'
  <2> DEFINE pc == IF agreement.contract THEN "sync_fetch" ELSE "reconcile_read"
             new == [Idle EXCEPT !.op = op, !.pc = pc, !.to = agreement.status]
  <2>1. pc \in {"sync_fetch", "reconcile_read"} /\ op \in Ops /\ agreement.status \in AnyStatus
    BY <1>1, <1>t DEF SyncRead, Free, PlatformAgreement
  <2>2. req' = [req EXCEPT ![r] = new] /\ req'[r] = new /\ RowKept /\ UNCHANGED agreement
    BY <1>1, <1>t, RowUnchanged DEF SyncRead, Suspend
  <2> HIDE DEF pc
  <2>3. new \in PlatformRequest /\ new.op = op /\ new.pc = pc /\ new.to = agreement.status
    BY <2>1, IdleIsClientSlot DEF ClientSlot, PlatformRequest, Held, Pcs
  <2> HIDE DEF new
  <2>4. EventKnows(req[r])' /\ SyncKnows(req[r])'
    BY <2>1, <2>2, <2>3 DEF EventKnows, SyncKnows, EventPcs, SyncPcs, SyncOf
  <2> QED  BY <2>2, <2>3, <2>4, SyncSlot
<1>2. ASSUME NEW r \in Reqs, NEW tw \in TW_STATUSES, SyncFetch(r, tw) PROVE PlatformInv'
  <2> DEFINE mapped == TW_TO_THALOS_STATUS(tw)
             new == [req[r] EXCEPT !.pc = "sync_write", !.to = mapped]
  <2>0. RowKept /\ UNCHANGED agreement /\ req[r].pc = "sync_fetch" /\ req[r] \in PlatformRequest
    BY <1>2, <1>t, RowUnchanged DEF SyncFetch
  <2>1. mapped \in AnyStatus
    BY DEF TW_TO_THALOS_STATUS, TW_STATUSES, AnyStatus, RowStatus, Statuses, L!AGREEMENT_STATUSES
  <2>2. CASE Pulls(mapped, req[r].to)
    <3>1. req' = [req EXCEPT ![r] = new] /\ req'[r] = new
      BY <1>2, <1>t, <2>2 DEF SyncFetch, Suspend
    <3>2. statusOrder(mapped) >= statusOrder(agreement.status) /\ req[r].op \in SyncOf
      BY <1>t, <2>0, <2>2 DEF Pulls, SyncKnows, SyncPcs
    <3> HIDE DEF mapped
    <3>3. new \in PlatformRequest /\ new.op = req[r].op /\ new.pc = "sync_write" /\ new.to = mapped
      BY <2>0, <2>1 DEF PlatformRequest, Held, Pcs
    <3> HIDE DEF new
    <3>4. EventKnows(req[r])' /\ SyncKnows(req[r])'
      BY <2>0, <3>1, <3>2, <3>3 DEF EventKnows, SyncKnows, EventPcs, SyncPcs, SyncOf, statusOrder
    <3> QED  BY <2>0, <3>1, <3>3, <3>4, SyncSlot
  <2>3. CASE ~Pulls(mapped, req[r].to)
    BY <1>2, <2>0, <2>3, SyncReturns, SyncEnds DEF SyncFetch, SyncPcs
  <2> QED  BY <2>2, <2>3
<1>3. ASSUME NEW r \in Reqs, SyncFetchFails(r) PROVE PlatformInv'
  BY <1>3, RowUnchanged, SyncReturns DEF SyncFetchFails
<1>4. ASSUME NEW r \in Reqs, NEW hasParties \in BOOLEAN, SyncWrite(r, hasParties)
      PROVE  PlatformInv'
  <2>1. CASE Exists
    <3>1. agreement' \in PlatformAgreement /\ agreement'.status = req[r].to
      BY <1>4, <1>t, <2>1 DEF SyncWrite, PlatformAgreement, PlatformRequest, Held
    <3>2. RowKept
      BY <1>4, <2>1, <3>1 DEF SyncWrite, RowKept, StatusWasSeen
    <3> QED  BY <1>4, <3>2, SyncEnds DEF SyncWrite, SyncPcs
  <2>2. CASE ~Exists
    BY <1>4, <2>2, RowUnchanged, SyncEnds DEF SyncWrite, SyncPcs
  <2> QED  BY <2>1, <2>2
<1>5. ASSUME NEW r \in Reqs, NEW tw \in [Milestones -> TWMilestone],
             NEW escrowReleased \in BOOLEAN, NEW n \in Milestones \cup {0},
             ReconcileRead(r, tw, escrowReleased, n)
      PROVE  PlatformInv'
  <2> DEFINE array == [i \in Milestones |->
                         IF i <= n THEN milestoneStatusFromTrustless(tw[i], escrowReleased)
                         ELSE agreement.milestones[i]]
             new == [req[r] EXCEPT !.pc = "reconcile_write", !.milestones = array]
  <2>0. RowKept /\ req[r].pc = "reconcile_read" /\ req[r] \in PlatformRequest
    BY <1>5, <1>t, RowUnchanged DEF ReconcileRead
  <2>1. array \in MilestoneArray
    BY <1>t DEF PlatformAgreement, MilestoneArray, milestoneStatusFromTrustless,
                L!MILESTONE_STATUSES
  <2>2. CASE Exists /\ agreement.contract
    <3>1. req' = [req EXCEPT ![r] = new] /\ req'[r] = new
      BY <1>5, <1>t, <2>2 DEF ReconcileRead, Suspend
    <3> HIDE DEF array
    <3>2. new \in PlatformRequest /\ new.op = req[r].op /\ new.pc = "reconcile_write"
      BY <2>0, <2>1 DEF PlatformRequest, Held, Pcs
    <3> HIDE DEF new
    <3>3. EventKnows(req[r])' /\ SyncKnows(req[r])'
      BY <1>t, <2>0, <3>1, <3>2 DEF EventKnows, SyncKnows, EventPcs, SyncPcs, SyncOf
    <3> QED  BY <2>0, <3>1, <3>2, <3>3, SyncSlot
  <2>3. CASE ~(Exists /\ agreement.contract)
    BY <1>5, <2>0, <2>3, SyncReturns DEF ReconcileRead
  <2> QED  BY <2>2, <2>3
<1>6. ASSUME NEW r \in Reqs, ReconcileWrite(r) PROVE PlatformInv'
  <2>1. agreement' \in PlatformAgreement /\ agreement'.status = agreement.status
    BY <1>6, <1>t DEF ReconcileWrite, PlatformAgreement, PlatformRequest, Held
  <2>2. RowKept
    BY <1>6, <1>t, <2>1 DEF ReconcileWrite, RowKept, StatusWasSeen, Exists
  <2> QED  BY <1>6, <2>2, SyncReturns DEF ReconcileWrite
<1> QED
  BY <1>1, <1>2, <1>3, <1>4, <1>5, <1>6 DEF SyncNext, SyncOf

(***************************************************************************)
(* The invariant, and what follows from it                                 *)
(***************************************************************************)

LEMMA PlatformInvInit == PlatformInit => PlatformInv
<1> SUFFICES ASSUME PlatformInit PROVE PlatformInv
  OBVIOUS
<1>1. PlatformTypeOK
  BY IdleIsClientSlot
     DEF PlatformInit, AgreementsInit, WebhooksInit, Queue!Init, PlatformTypeOK, JobStatus,
         PlatformAgreement, ClientSlot, AnyStatus, RowStatus, NoMilestones, MilestoneArray,
         L!MILESTONE_STATUSES
<1>2. \A r \in Reqs : EventKnows(req[r]) /\ SyncKnows(req[r])
  BY IdleIsClientSlot DEF PlatformInit, AgreementsInit, ClientSlot, EventKnows, SyncKnows, EventPcs,
                          SyncPcs
<1>3. StatusWasSeen
  BY DEF PlatformInit, AgreementsInit, StatusWasSeen, Exists, Statuses, L!AGREEMENT_STATUSES
<1>4. AcknowledgedMeansApplied
  BY DEF PlatformInit, WebhooksInit, Queue!Init, AcknowledgedMeansApplied
<1> QED  BY <1>1, <1>2, <1>3, <1>4 DEF PlatformInv

LEMMA DisputesRow ==
  ASSUME PlatformInv, DisputesNext PROVE RowKept
<1>1. UNCHANGED <<agreement, seen>>
  BY DEF DisputesNext, OpenDisputeCheck, OpenDisputeCheckFails, OpenDisputeInsert, AssignResolverRead,
         AssignResolverWrite, ResolveDisputeRead, ResolutionInsert, ResolveMark,
         ResolveMarkFails, CancelDisputeRead, CancelDisputeMark, CancelDisputeCheck
<1> QED  BY <1>1, RowUnchanged

LEMMA PlatformInvNext ==
  ASSUME OneAtATime PROVE PlatformInv /\ [PlatformNext]_platformVars => PlatformInv'
<1> SUFFICES ASSUME PlatformInv, [PlatformNext]_platformVars PROVE PlatformInv'
  OBVIOUS
<1>1. CASE UNCHANGED platformVars
  BY <1>1 DEF platformVars, agreementVars, webhookVars, PlatformInv, PlatformTypeOK,
              StatusWasSeen, EventKnows, SyncKnows, AcknowledgedMeansApplied, Found, Exists
<1>2. CASE AgreementsNext /\ UNCHANGED webhookVars
  BY <1>2, AgreementsRow, AgreementsSlot, ClientStep
<1>3. CASE DisputesNext /\ UNCHANGED webhookVars
  BY <1>3, DisputesRow, DisputesSlot, ClientStep
<1>4. CASE WebhooksNext
  BY <1>4, WebhooksStep
<1>5. CASE SyncNext /\ UNCHANGED webhookVars
  BY <1>5, SyncStep
<1> QED  BY <1>1, <1>2, <1>3, <1>4, <1>5 DEF PlatformNext

LEMMA PlatformInvAlways ==
  ASSUME OneAtATime PROVE PlatformSpec => []PlatformInv
  BY PlatformInvInit, PlatformInvNext, PTL DEF PlatformSpec

\* With one request slot, whatever events arrive and however often their jobs
\* are retried, a status event is acknowledged only after it was refused or its
\* status was reached.
THEOREM AcknowledgedEventsAreApplied ==
  ASSUME OneAtATime PROVE PlatformSpec => []AcknowledgedMeansApplied
<1>1. PlatformInv => AcknowledgedMeansApplied
  BY DEF PlatformInv
<1> QED  BY <1>1, PlatformInvAlways, PTL

\* While the slot runs a job or a sync, a client's or dispute's handler does not
\* touch the row.
LEMMA ClientsKeepOut ==
  ASSUME OneAtATime, PlatformInv, AgreementsNext \/ DisputesNext, NEW r \in Reqs,
         req[r].op \in {"processEvent"} \cup SyncOf
  PROVE  UNCHANGED agreement
<1>1. req[r].pc \in EventPcs \cup SyncPcs
  BY DEF PlatformInv, EventKnows, SyncKnows
<1>2. CASE AgreementsNext
  BY <1>1, <1>2
     DEF OneAtATime, AgreementsNext, CreateInsert, Free, CreateParticipants,
         CreateParticipantsFail, CreateUndo, LinkContractValidate, LinkContractWrite,
         UpdateStatusRead, UpdateStatusWrite, ApplyRead, ApplyWrite, UpdateMilestoneRead,
         UpdateMilestoneWrite, Abort, EventPcs, SyncPcs
<1>3. CASE DisputesNext
  BY <1>3 DEF DisputesNext, OpenDisputeCheck, OpenDisputeCheckFails, OpenDisputeInsert, AssignResolverRead,
              AssignResolverWrite, ResolveDisputeRead, ResolutionInsert, ResolveMark,
              ResolveMarkFails, CancelDisputeRead, CancelDisputeMark, CancelDisputeCheck
<1> QED  BY <1>2, <1>3

\* With one request slot an event moves the agreement only along a declared
\* transition, whatever status it names.
THEOREM EventsMoveLegally ==
  ASSUME OneAtATime PROVE PlatformSpec => WebhooksMoveLegally
<1> DEFINE Legally ==
        \A r \in Reqs :
         /\ req[r].op = "processEvent" /\ req'[r] # req[r]
         /\ agreement'.status # agreement.status
         => L!validateTransition(agreement.status, agreement'.status)
<1>1. ASSUME PlatformInv, PlatformNext PROVE Legally
  <2> SUFFICES ASSUME NEW r \in Reqs, req[r].op = "processEvent",
                      agreement'.status # agreement.status
               PROVE  L!validateTransition(agreement.status, agreement'.status)
    OBVIOUS
  <2>t. /\ agreement \in PlatformAgreement
        /\ EventKnows(req[r]) /\ SyncKnows(req[r])
    BY <1>1 DEF PlatformInv, PlatformTypeOK
  <2>1. WebhooksNext
    <3>1. ~SyncNext
      BY <2>t DEF EventKnows, EventPcs, OneAtATime, SyncNext, SyncRead, Free, SyncFetch,
                  SyncFetchFails, SyncWrite, ReconcileRead, ReconcileWrite
    <3> QED  BY <1>1, <3>1, ClientsKeepOut DEF PlatformNext
  <2>2. StatusEventWrite(r) \/ MilestoneEventWrite(r)
    BY <2>1 DEF OneAtATime, WebhooksNext, handleEvent, ReclaimEvent, agreementVars, processEvent,
                StatusEventRead, StatusEventCheck, EventAck, MilestoneEventRead, EventFails
  <2>3. CASE StatusEventWrite(r)
    <3>1. Found /\ agreement'.status = req[r].to
      BY <2>t, <2>3 DEF StatusEventWrite, WriteStatus, PlatformAgreement
    <3> QED  BY <2>t, <2>3, <3>1 DEF StatusEventWrite, EventKnows
  <2>4. CASE MilestoneEventWrite(r)
    BY <2>t, <2>4 DEF MilestoneEventWrite, PlatformAgreement
  <2> QED  BY <2>2, <2>3, <2>4
<1>2. PlatformInv /\ [PlatformNext]_platformVars => [Legally]_platformVars
  BY <1>1
<1>3. PlatformSpec => [][Legally]_platformVars
  BY <1>2, PlatformInvAlways, PTL DEF PlatformSpec
<1> QED  BY <1>3 DEF WebhooksMoveLegally

\* With one request slot a sync never takes the agreement back, whatever
\* Trustless Work answers.
THEOREM SyncsPullForward ==
  ASSUME OneAtATime PROVE PlatformSpec => PullsForward
<1> DEFINE Forward ==
        \A r \in Reqs : req[r].op \in {"sync", "reconcile"} =>
         statusOrder(agreement'.status) >= statusOrder(agreement.status)
<1>1. ASSUME PlatformInv, PlatformNext PROVE Forward
  <2> SUFFICES ASSUME NEW r \in Reqs, req[r].op \in SyncOf
               PROVE  statusOrder(agreement'.status) >= statusOrder(agreement.status)
    BY DEF SyncOf
  <2>t. /\ agreement \in PlatformAgreement
        /\ EventKnows(req[r]) /\ SyncKnows(req[r])
    BY <1>1 DEF PlatformInv, PlatformTypeOK
  <2>0. agreement'.status = agreement.status
          => statusOrder(agreement'.status) >= statusOrder(agreement.status)
    BY DEF statusOrder
  <2>1. CASE WebhooksNext
    <3>1. UNCHANGED agreement
      BY <2>1, <2>t
         DEF SyncKnows, SyncPcs, OneAtATime, WebhooksNext, handleEvent, ReclaimEvent,
             agreementVars, processEvent, StatusEventRead, StatusEventWrite, StatusEventCheck,
             EventAck, MilestoneEventRead, MilestoneEventWrite, EventFails
    <3> QED  BY <2>0, <3>1
  <2>2. CASE AgreementsNext \/ DisputesNext
    BY <1>1, <2>0, <2>2, ClientsKeepOut
  <2>3. CASE SyncNext
    <3>1. ASSUME NEW hasParties \in BOOLEAN, SyncWrite(r, hasParties), Exists
          PROVE  statusOrder(agreement'.status) >= statusOrder(agreement.status)
      BY <2>t, <3>1 DEF SyncWrite, SyncKnows, PlatformAgreement
    <3>2. CASE ReconcileWrite(r)
      BY <2>t, <2>0, <3>2 DEF ReconcileWrite, PlatformAgreement
    <3>3. CASE UNCHANGED agreement
      BY <2>0, <3>3
    <3> QED
      BY <2>3, <3>1, <3>2, <3>3
         DEF OneAtATime, SyncNext, SyncRead, SyncFetch, SyncFetchFails, SyncWrite, ReconcileRead
  <2> QED  BY <1>1, <2>1, <2>2, <2>3 DEF PlatformNext
<1>2. PlatformInv /\ [PlatformNext]_platformVars => [Forward]_platformVars
  BY <1>1
<1>3. PlatformSpec => [][Forward]_platformVars
  BY <1>2, PlatformInvAlways, PTL DEF PlatformSpec
<1> QED  BY <1>3 DEF PullsForward

(***************************************************************************)
(* The disputes, among all writers: events and syncs change the agreement  *)
(* under them, but not the disputes.                                       *)
(***************************************************************************)

LEMMA WebhooksLeaveBooks ==
  ASSUME OneAtATime, PlatformInv, BooksInv, WebhooksNext, UNCHANGED dispute
  PROVE  BooksInv'
<1>t. req \in [Reqs -> Held(AnyStatus)] /\ faults \in Nat
  BY DEF PlatformInv, PlatformTypeOK, PlatformRequest, BooksInv
<1>1. ASSUME NEW e \in Events, handleEvent(e) \/ ReclaimEvent(e) PROVE BooksInv'
  BY <1>1, BooksStay DEF handleEvent, ReclaimEvent, agreementVars
<1>2. ASSUME NEW r \in Reqs, req'[r].pc \notin DisputePcs, req[r].pc # "resolve_mark",
             UNCHANGED faults \/ Fault
      PROVE  BooksInv'
  <2>1. faults' \in Nat /\ faults' >= faults
    BY <1>t, <1>2 DEF Fault
  <2> QED  BY <1>2, <2>1, BooksApart DEF BooksLeft
<1>3. ASSUME NEW r \in Reqs, NEW new, Suspend(r, new) PROVE req'[r] = new
  BY <1>t, <1>3 DEF Suspend
<1>4. ASSUME NEW r \in Reqs, NEW pc, Goto(r, pc) PROVE req'[r].pc = pc
  BY <1>t, <1>4 DEF Goto, Held
<1>5. ASSUME NEW r \in Reqs, Return(r) PROVE req'[r].pc = "idle"
  BY <1>t, <1>5, IdleDecides DEF Return
<1>6. ASSUME NEW r \in Reqs, NEW e \in Events, processEvent(r, e) PROVE BooksInv'
  <2>1. req'[r].pc = "event_read"
    BY <1>3, <1>6 DEF processEvent, Idle
  <2> QED  BY <1>2, <1>6, <2>1 DEF processEvent, Free, DisputePcs
<1>7. ASSUME NEW r \in Reqs, StatusEventRead(r) PROVE BooksInv'
  <2>1. req'[r].pc \in {"event_ack", "event_write"}
    BY ZenonT(60), <1>t, <1>3, <1>4, <1>7 DEF StatusEventRead, Resolve, Held
  <2> QED  BY <1>2, <1>7, <2>1 DEF StatusEventRead, DisputePcs
<1>8. ASSUME NEW r \in Reqs, StatusEventWrite(r) PROVE BooksInv'
  <2>1. req'[r].pc \in {"event_ack", "event_check"}
    BY <1>4, <1>8 DEF StatusEventWrite, Resolve
  <2> QED  BY <1>2, <1>8, <2>1 DEF StatusEventWrite, DisputePcs
<1>9. ASSUME NEW r \in Reqs, StatusEventCheck(r) PROVE BooksInv'
  <2>1. req'[r].pc \in {"event_ack", "idle"}
    BY <1>4, <1>5, <1>9 DEF StatusEventCheck, Resolve, Throw
  <2> QED  BY <1>2, <1>9, <2>1 DEF StatusEventCheck, DisputePcs
<1>10. ASSUME NEW r \in Reqs, EventAck(r) PROVE BooksInv'
  BY <1>2, <1>5, <1>10 DEF EventAck, DisputePcs
<1>11. ASSUME NEW r \in Reqs, MilestoneEventRead(r) PROVE BooksInv'
  <2>1. ASSUME NEW array,
               Suspend(r, [req[r] EXCEPT !.pc = "event_write", !.milestones = array])
        PROVE  req'[r].pc = "event_write"
    BY ZenonT(60), <1>t, <1>3, <2>1 DEF Held
  <2>2. req'[r].pc \in {"event_ack", "event_write"}
    BY <1>4, <1>11, <2>1 DEF MilestoneEventRead, Resolve
  <2> QED  BY <1>2, <1>11, <2>2 DEF MilestoneEventRead, DisputePcs
<1>12. ASSUME NEW r \in Reqs, MilestoneEventWrite(r) PROVE BooksInv'
  BY <1>2, <1>4, <1>12 DEF MilestoneEventWrite, Resolve, DisputePcs
<1>13. ASSUME NEW r \in Reqs, EventFails(r) PROVE BooksInv'
  <2>1. req'[r].pc \in {"event_ack", "idle"}
    BY <1>4, <1>5, <1>13 DEF EventFails, Resolve, Throw
  <2> QED  BY <1>2, <1>13, <2>1 DEF EventFails, DisputePcs
<1> QED
  BY <1>1, <1>6, <1>7, <1>8, <1>9, <1>10, <1>11, <1>12, <1>13 DEF WebhooksNext

LEMMA SyncsLeaveBooks ==
  ASSUME OneAtATime, PlatformInv, BooksInv, SyncNext, UNCHANGED dispute
  PROVE  BooksInv'
<1>t. req \in [Reqs -> Held(AnyStatus)] /\ faults \in Nat
  BY DEF PlatformInv, PlatformTypeOK, PlatformRequest, BooksInv
<1>1. ASSUME NEW r \in Reqs, req'[r].pc \in {"idle"} \cup SyncPcs,
             req[r].pc \in {"idle"} \cup SyncPcs, UNCHANGED faults
      PROVE  BooksInv'
  <2>1. req'[r].pc \notin DisputePcs /\ req[r].pc # "resolve_mark"
    BY <1>1 DEF SyncPcs, DisputePcs
  <2> QED  BY <1>t, <1>1, <2>1, BooksApart DEF BooksLeft
<1>2. ASSUME NEW r \in Reqs, NEW new, Suspend(r, new) PROVE req'[r] = new
  BY <1>t, <1>2 DEF Suspend
<1>3. ASSUME NEW r \in Reqs, Return(r) PROVE req'[r].pc = "idle"
  BY <1>t, <1>3, IdleDecides DEF Return
<1>4. ASSUME NEW r \in Reqs, SyncDone(r) PROVE req'[r].pc \in {"idle", "reconcile_read"}
  <2>1. ASSUME Goto(r, "reconcile_read") PROVE req'[r].pc = "reconcile_read"
    BY <1>t, <2>1 DEF Goto, Held
  <2> QED  BY <1>3, <1>4, <2>1 DEF SyncDone
<1>5. ASSUME NEW r \in Reqs, NEW op \in SyncOf, SyncRead(r, op) PROVE BooksInv'
  <2> DEFINE pc == IF agreement.contract THEN "sync_fetch" ELSE "reconcile_read"
  <2>1. req'[r] = [Idle EXCEPT !.op = op, !.pc = pc, !.to = agreement.status]
    BY <1>2, <1>5 DEF SyncRead
  <2>2. pc \in SyncPcs
    BY DEF SyncPcs
  <2> HIDE DEF pc
  <2>3. req'[r].pc = pc
    BY <2>1 DEF Idle
  <2>4. req[r].pc = "idle" /\ UNCHANGED faults
    BY <1>5 DEF SyncRead, Free
  <2> QED  BY <1>1, <2>2, <2>3, <2>4
<1>6. ASSUME NEW r \in Reqs, NEW tw \in TW_STATUSES, SyncFetch(r, tw) PROVE BooksInv'
  <2>1. ASSUME NEW to, Suspend(r, [req[r] EXCEPT !.pc = "sync_write", !.to = to])
        PROVE  req'[r].pc = "sync_write"
    BY ZenonT(60), <1>t, <1>2, <2>1 DEF Held
  <2>2. req'[r].pc \in {"idle", "sync_write", "reconcile_read"}
    BY <1>3, <1>4, <1>6, <2>1 DEF SyncFetch
  <2> QED  BY <1>1, <1>6, <2>2 DEF SyncFetch, SyncPcs
<1>7. ASSUME NEW r \in Reqs, SyncFetchFails(r) PROVE BooksInv'
  BY <1>1, <1>3, <1>7 DEF SyncFetchFails, SyncPcs
<1>8. ASSUME NEW r \in Reqs, NEW hasParties \in BOOLEAN, SyncWrite(r, hasParties) PROVE BooksInv'
  BY <1>1, <1>4, <1>8 DEF SyncWrite, SyncPcs
<1>9. ASSUME NEW r \in Reqs, NEW tw \in [Milestones -> TWMilestone],
             NEW escrowReleased \in BOOLEAN, NEW n \in Milestones \cup {0},
             ReconcileRead(r, tw, escrowReleased, n)
      PROVE  BooksInv'
  <2>1. ASSUME NEW array,
               Suspend(r, [req[r] EXCEPT !.pc = "reconcile_write", !.milestones = array])
        PROVE  req'[r].pc = "reconcile_write"
    BY ZenonT(60), <1>t, <1>2, <2>1 DEF Held
  <2>2. req'[r].pc \in {"idle", "reconcile_write"}
    BY <1>3, <1>9, <2>1 DEF ReconcileRead
  <2> QED  BY <1>1, <1>9, <2>2 DEF ReconcileRead, SyncPcs
<1>10. ASSUME NEW r \in Reqs, ReconcileWrite(r) PROVE BooksInv'
  BY <1>1, <1>3, <1>10 DEF ReconcileWrite, SyncPcs
<1> QED
  BY <1>5, <1>6, <1>7, <1>8, <1>9, <1>10 DEF SyncNext, SyncOf

LEMMA PlatformBooksNext ==
  ASSUME OneAtATime
  PROVE  PlatformInv /\ BooksInv /\ [PlatformNext]_platformVars => BooksInv' /\ DisputesKept
<1> SUFFICES ASSUME PlatformInv, BooksInv, [PlatformNext]_platformVars
             PROVE  BooksInv' /\ DisputesKept
  OBVIOUS
<1>1. req \in [Reqs -> Held(AnyStatus)] /\ faults \in Nat
  BY DEF PlatformInv, PlatformTypeOK, PlatformRequest, BooksInv
<1>2. UNCHANGED dispute => DisputesKept
  BY DEF DisputesKept
<1>3. CASE UNCHANGED platformVars
  BY <1>2, <1>3, BooksStay DEF platformVars, agreementVars
<1>4. CASE AgreementsNext /\ UNCHANGED dispute
  BY <1>1, <1>2, <1>4, AgreementsLeaveBooks, BooksApart
<1>5. CASE DisputesNext
  BY <1>1, <1>5, BooksStep, BooksKept
<1>6. CASE WebhooksNext /\ UNCHANGED dispute
  BY <1>2, <1>6, WebhooksLeaveBooks
<1>7. CASE SyncNext /\ UNCHANGED dispute
  BY <1>2, <1>7, SyncsLeaveBooks
<1> QED  BY <1>3, <1>4, <1>5, <1>6, <1>7 DEF PlatformNext

LEMMA PlatformBooksAlways ==
  ASSUME OneAtATime PROVE PlatformSpec => [](PlatformInv /\ BooksInv)
<1>1. PlatformInit => BooksInv
  BY BooksInvInit DEF PlatformInit
<1> QED
  BY <1>1, PlatformInvInit, PlatformInvNext, PlatformBooksNext, PTL DEF PlatformSpec

\* With one request slot, whatever webhooks and syncs make of the agreement in
\* the meantime, at most one active dispute was opened upon an answer, and there
\* is no second one before the first call has failed.
THEOREM OneDisputeStaysActive ==
  ASSUME OneAtATime PROVE PlatformSpec => []OneCheckedDispute
  BY PlatformBooksAlways, BooksCount, PTL

\* With one request slot, whatever webhooks and syncs make of the agreement, a
\* dispute gets a further resolution only for a fault.
THEOREM ResolutionsStayBudgeted ==
  ASSUME OneAtATime PROVE PlatformSpec => []ResolutionBudget
  BY PlatformBooksAlways, BooksCount, PTL

\* With one request slot no dispute is taken back once it was resolved or
\* withdrawn, whatever status a webhook or a sync gives the agreement.
THEOREM DisputesStayEnded ==
  ASSUME OneAtATime PROVE PlatformSpec => DisputeEndsOnce
<1>1. PlatformInv /\ BooksInv /\ [PlatformNext]_platformVars => [DisputesKept]_disputeVars
  BY PlatformBooksNext
<1>2. PlatformSpec => [][DisputesKept]_disputeVars
  BY <1>1, PlatformBooksAlways, PTL DEF PlatformSpec
<1> QED  BY <1>2 DEF DisputeEndsOnce, DisputesKept

(***************************************************************************)
(* Participants, among all writers and in any number of slots.             *)
(***************************************************************************)

LEMMA WebhooksKeepParties ==
  ASSUME PartiesInv, WebhooksNext PROVE PartiesInv'
<1>t. PartiesShape
  BY DEF PartiesInv
<1>1. ASSUME NEW r \in Reqs, NEW pc, req[r].pc \notin {"create_participants", "create_undo"},
             MovesTo(r, pc), UNCHANGED agreement, UNCHANGED faults \/ Fault
      PROVE  PartiesInv'
  BY <1>t, <1>1, PartiesElsewhere, RowUntouched
<1>2. ASSUME NEW e \in Events, handleEvent(e) \/ ReclaimEvent(e) PROVE PartiesInv'
  BY <1>2, PartiesStay DEF handleEvent, ReclaimEvent, agreementVars
<1>3. ASSUME NEW r \in Reqs, NEW e \in Events, processEvent(r, e) PROVE PartiesInv'
  <2>1. MovesTo(r, "event_read")
    BY <1>t, <1>3 DEF processEvent, PartiesShape, Suspend, MovesTo, Idle
  <2> QED  BY <1>1, <1>3, <2>1 DEF processEvent, Free
<1>4. ASSUME NEW r \in Reqs, StatusEventRead(r) PROVE PartiesInv'
  <2>1. ASSUME NEW to, Suspend(r, [req[r] EXCEPT !.pc = "event_write", !.to = to])
        PROVE  MovesTo(r, "event_write")
    BY <1>t, <2>1 DEF PartiesShape, Suspend, MovesTo
  <2>2. MovesTo(r, "event_write") \/ MovesTo(r, "event_ack")
    BY <1>t, <1>4, <2>1, GotoMoves DEF StatusEventRead, Resolve
  <2> QED  BY <1>1, <1>4, <2>2 DEF StatusEventRead
<1>5. ASSUME NEW r \in Reqs, StatusEventWrite(r) PROVE PartiesInv'
  <2>1. MovesTo(r, "event_check") \/ MovesTo(r, "event_ack")
    BY <1>t, <1>5, GotoMoves DEF StatusEventWrite, Resolve
  <2>2. RowStays
    BY <1>t, <1>5, StatusLeavesRow, RowUntouched DEF StatusEventWrite, Found
  <2> QED  BY <1>5, <2>1, <2>2, PartiesElsewhere DEF StatusEventWrite
<1>6. ASSUME NEW r \in Reqs, StatusEventCheck(r) PROVE PartiesInv'
  <2>1. MovesTo(r, "idle") \/ MovesTo(r, "event_ack")
    BY <1>t, <1>6, GotoMoves, ReturnMoves DEF StatusEventCheck, Resolve, Throw
  <2> QED  BY <1>1, <1>6, <2>1 DEF StatusEventCheck
<1>7. ASSUME NEW r \in Reqs, EventAck(r) PROVE PartiesInv'
  BY <1>t, <1>1, <1>7, ReturnMoves DEF EventAck
<1>8. ASSUME NEW r \in Reqs, MilestoneEventRead(r) PROVE PartiesInv'
  <2>1. ASSUME NEW array,
               Suspend(r, [req[r] EXCEPT !.pc = "event_write", !.milestones = array])
        PROVE  MovesTo(r, "event_write")
    BY <1>t, <2>1 DEF PartiesShape, Suspend, MovesTo
  <2>2. MovesTo(r, "event_write") \/ MovesTo(r, "event_ack")
    BY <1>t, <1>8, <2>1, GotoMoves DEF MilestoneEventRead, Resolve
  <2> QED  BY <1>1, <1>8, <2>2 DEF MilestoneEventRead
<1>9. ASSUME NEW r \in Reqs, MilestoneEventWrite(r) PROVE PartiesInv'
  <2>1. MovesTo(r, "event_ack")
    BY <1>t, <1>9, GotoMoves DEF MilestoneEventWrite, Resolve
  <2>2. RowStays
    BY <1>t, <1>9 DEF MilestoneEventWrite, PartiesShape, RowStays, Exists
  <2> QED  BY <1>9, <2>1, <2>2, PartiesElsewhere DEF MilestoneEventWrite
<1>10. ASSUME NEW r \in Reqs, EventFails(r) PROVE PartiesInv'
  <2>1. MovesTo(r, "idle") \/ MovesTo(r, "event_ack")
    BY <1>t, <1>10, GotoMoves, ReturnMoves DEF EventFails, Resolve, Throw
  <2> QED  BY <1>1, <1>10, <2>1 DEF EventFails
<1> QED
  BY <1>2, <1>3, <1>4, <1>5, <1>6, <1>7, <1>8, <1>9, <1>10 DEF WebhooksNext

LEMMA SyncsKeepParties ==
  ASSUME PartiesInv, SyncNext PROVE PartiesInv'
<1>t. PartiesShape
  BY DEF PartiesInv
<1>1. ASSUME NEW r \in Reqs, NEW pc, req[r].pc \notin {"create_participants", "create_undo"},
             MovesTo(r, pc), UNCHANGED <<agreement, faults>>
      PROVE  PartiesInv'
  BY <1>t, <1>1, PartiesElsewhere, RowUntouched
<1>2. ASSUME NEW r \in Reqs, SyncDone(r)
      PROVE  MovesTo(r, "idle") \/ MovesTo(r, "reconcile_read")
  BY <1>t, <1>2, GotoMoves, ReturnMoves DEF SyncDone
<1>3. ASSUME NEW r \in Reqs, NEW op \in SyncOf, SyncRead(r, op) PROVE PartiesInv'
  <2>1. MovesTo(r, IF agreement.contract THEN "sync_fetch" ELSE "reconcile_read")
    BY <1>t, <1>3 DEF SyncRead, PartiesShape, Suspend, MovesTo, Idle
  <2> QED  BY <1>1, <1>3, <2>1 DEF SyncRead, Free
<1>4. ASSUME NEW r \in Reqs, NEW tw \in TW_STATUSES, SyncFetch(r, tw) PROVE PartiesInv'
  <2>1. ASSUME NEW to, Suspend(r, [req[r] EXCEPT !.pc = "sync_write", !.to = to])
        PROVE  MovesTo(r, "sync_write")
    BY <1>t, <2>1 DEF PartiesShape, Suspend, MovesTo
  <2>2. \E pc : MovesTo(r, pc)
    BY <1>t, <1>2, <1>4, <2>1, ReturnMoves DEF SyncFetch
  <2> QED  BY <1>1, <1>4, <2>2 DEF SyncFetch
<1>5. ASSUME NEW r \in Reqs, SyncFetchFails(r) PROVE PartiesInv'
  BY <1>t, <1>1, <1>5, ReturnMoves DEF SyncFetchFails
<1>6. ASSUME NEW r \in Reqs, NEW hasParties \in BOOLEAN, SyncWrite(r, hasParties) PROVE PartiesInv'
  <2>1. \E pc : MovesTo(r, pc)
    BY <1>2, <1>6 DEF SyncWrite
  <2>2. RowStays
    <3>1. CASE Exists
      BY <1>t, <1>6, <3>1 DEF SyncWrite, PartiesShape, RowStays
    <3>2. CASE ~Exists
      BY <1>t, <1>6, <3>2, RowUntouched DEF SyncWrite
    <3> QED  BY <3>1, <3>2
  <2> QED  BY <1>6, <2>1, <2>2, PartiesElsewhere DEF SyncWrite
<1>7. ASSUME NEW r \in Reqs, NEW tw \in [Milestones -> TWMilestone],
             NEW escrowReleased \in BOOLEAN, NEW n \in Milestones \cup {0},
             ReconcileRead(r, tw, escrowReleased, n)
      PROVE  PartiesInv'
  <2>1. ASSUME NEW array,
               Suspend(r, [req[r] EXCEPT !.pc = "reconcile_write", !.milestones = array])
        PROVE  MovesTo(r, "reconcile_write")
    BY <1>t, <2>1 DEF PartiesShape, Suspend, MovesTo
  <2>2. \E pc : MovesTo(r, pc)
    BY <1>t, <1>7, <2>1, ReturnMoves DEF ReconcileRead
  <2> QED  BY <1>1, <1>7, <2>2 DEF ReconcileRead
<1>8. ASSUME NEW r \in Reqs, ReconcileWrite(r) PROVE PartiesInv'
  <2>1. MovesTo(r, "idle")
    BY <1>t, <1>8, ReturnMoves DEF ReconcileWrite
  <2>2. RowStays
    BY <1>t, <1>8 DEF ReconcileWrite, PartiesShape, RowStays, Exists
  <2> QED  BY <1>8, <2>1, <2>2, PartiesElsewhere DEF ReconcileWrite
<1> QED
  BY <1>3, <1>4, <1>5, <1>6, <1>7, <1>8 DEF SyncNext, SyncOf

\* However requests, events and syncs overlap, an agreement at rest that lacks
\* its participants has met a failed call or a crash: no webhook or sync brings
\* back a row that create has undone.
THEOREM AgreementsStillHaveParties == PlatformSpec => []NoAgreementWithoutParties
<1>1. PartiesInv /\ [PlatformNext]_platformVars => PartiesInv'
  BY AgreementsKeepParties, DisputesKeepParties, WebhooksKeepParties, SyncsKeepParties, PartiesStay
     DEF PlatformNext, platformVars, agreementVars
<1> QED
  BY <1>1, PartiesInvInit, PartiesAtRest, PTL DEF PlatformSpec, PlatformInit
====
