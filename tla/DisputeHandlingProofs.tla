---- MODULE DisputeHandlingProofs ----
(***************************************************************************)
(* Proofs about the handlers of clients and disputes, for any number of    *)
(* requests in flight, disputes, milestones and faults; the last part is   *)
(* about one request slot, and any number of the rest.                     *)
(***************************************************************************)
EXTENDS DisputeHandling, TLAPS, FiniteSetTheorems

\* The row has had a status that declares `to` as a successor.
Legal(to) == \E from \in seen : to \in L!AGREEMENT_TRANSITIONS[from]

\* What a suspended handler knows of the status it is going to write.
WritesAreLegal ==
    \A r \in Reqs :
        \/ req[r].pc \in {"status_write", "apply_write"}
        \/ req[r].pc = "apply_read" /\ ~req[r].enforce
        => Legal(req[r].to)

StatusWasSeen == Exists => agreement.status \in seen

ClientInv == TypeOK /\ StatusWasSeen /\ WritesAreLegal /\ SettledIsStamped

LEMMA TransitionsStayInStatuses ==
  \A from \in Statuses : L!AGREEMENT_TRANSITIONS[from] \subseteq Statuses
  BY DEF Statuses, L!AGREEMENT_STATUSES, L!AGREEMENT_TRANSITIONS

LEMMA LegalIsStatus ==
  ASSUME TypeOK, NEW to, Legal(to) PROVE to \in Statuses
  BY TransitionsStayInStatuses DEF Legal, TypeOK

LEMMA IdleIsRequest == Idle \in Request /\ Idle.pc = "idle"
  BY DEF Idle, Request, Pcs, RowStatus, NoMilestones, MilestoneArray, L!MILESTONE_STATUSES

\* What must be known of a slot before it may hold a handler in that state.
Justified(new) ==
    \/ new.pc \in {"status_write", "apply_write"}
    \/ new.pc = "apply_read" /\ ~new.enforce
    => Legal(new.to)

\* A handler moves on and the agreement stays as it is.
LEMMA SlotStep ==
  ASSUME ClientInv, NEW r \in Reqs, NEW new \in Request, Justified(new),
         req' = [req EXCEPT ![r] = new], UNCHANGED <<agreement, seen>>,
         faults' \in 0..MaxFaults, dispute' \in [Disputes -> Dispute]
  PROVE  ClientInv'
<1>1. TypeOK'
  BY DEF ClientInv, TypeOK
<1>2. StatusWasSeen' /\ SettledIsStamped'
  BY DEF ClientInv, StatusWasSeen, SettledIsStamped, Exists
<1>3. WritesAreLegal'
  BY DEF ClientInv, TypeOK, WritesAreLegal, Justified, Legal
<1> QED  BY <1>1, <1>2, <1>3 DEF ClientInv

\* A handler writes something else than the status, and returns.
LEMMA RowStep ==
  ASSUME ClientInv, NEW r \in Reqs, Return(r), UNCHANGED <<seen, faults, dispute>>,
         agreement' \in Agreement,
         agreement'.status = agreement.status \/ agreement'.status = "deleted",
         agreement'.funded_at = agreement.funded_at,
         agreement'.completed_at = agreement.completed_at
  PROVE  ClientInv'
<1>1. req' \in [Reqs -> Request] /\ WritesAreLegal'
  BY IdleIsRequest DEF Return, ClientInv, TypeOK, WritesAreLegal, Legal
<1>2. TypeOK'
  BY <1>1 DEF ClientInv, TypeOK
<1>3. StatusWasSeen' /\ SettledIsStamped'
  BY DEF ClientInv, StatusWasSeen, SettledIsStamped, Exists, Statuses, L!AGREEMENT_STATUSES
<1> QED  BY <1>1, <1>2, <1>3 DEF ClientInv

\* A handler writes the status it holds, and returns.
LEMMA StatusStep ==
  ASSUME ClientInv, NEW r \in Reqs, req[r].pc \in {"status_write", "apply_write"},
         IF Exists THEN WriteStatus(req[r].to) ELSE UNCHANGED <<agreement, seen>>,
         Return(r), UNCHANGED <<faults, dispute>>
  PROVE  ClientInv'
<1>1. Legal(req[r].to) /\ req[r].to \in Statuses
  BY LegalIsStatus DEF ClientInv, WritesAreLegal
<1>2. seen \subseteq seen' /\ seen' \subseteq Statuses
  BY <1>1 DEF ClientInv, TypeOK, WriteStatus
<1>3. req' \in [Reqs -> Request] /\ WritesAreLegal'
  BY <1>2, IdleIsRequest DEF Return, ClientInv, TypeOK, WritesAreLegal, Legal
<1>4. agreement' \in Agreement
  BY <1>1 DEF ClientInv, TypeOK, WriteStatus, Agreement, RowStatus
<1>5. StatusWasSeen'
  BY DEF ClientInv, TypeOK, StatusWasSeen, WriteStatus, Exists, Agreement
<1>6. SettledIsStamped'
  BY DEF ClientInv, TypeOK, SettledIsStamped, WriteStatus, Agreement
<1> QED  BY <1>2, <1>3, <1>4, <1>5, <1>6 DEF ClientInv, TypeOK

LEMMA ClientInvInit == ClientsInit => ClientInv
<1> SUFFICES ASSUME AgreementsInit, DisputesInit PROVE ClientInv
  BY DEF ClientsInit
<1> USE AgreementsAssumption, DisputesAssumption
<1>1. agreement \in Agreement /\ agreement.status = "none"
  BY DEF AgreementsInit, Agreement, RowStatus, NoMilestones, MilestoneArray, L!MILESTONE_STATUSES
<1>2. req \in [Reqs -> Request] /\ \A r \in Reqs : req[r].pc = "idle"
  BY IdleIsRequest DEF AgreementsInit
<1>3. dispute \in [Disputes -> Dispute]
  BY DEF DisputesInit, Dispute, DisputeStatus
<1>4. ~Exists
  BY <1>1 DEF Exists, Statuses, L!AGREEMENT_STATUSES
<1> QED
  BY <1>1, <1>2, <1>3, <1>4
     DEF AgreementsInit, ClientInv, TypeOK, StatusWasSeen, WritesAreLegal, SettledIsStamped

LEMMA AgreementsStep ==
  ASSUME ClientInv, AgreementsNext, UNCHANGED dispute PROVE ClientInv'
<1> USE AgreementsAssumption
<1>t. /\ agreement \in Agreement /\ req \in [Reqs -> Request] /\ faults \in 0..MaxFaults
      /\ dispute \in [Disputes -> Dispute] /\ seen \subseteq Statuses
  BY DEF ClientInv, TypeOK
<1> PICK r \in Reqs :
        \/ \E withContract \in BOOLEAN, milestones \in MilestoneArray :
              CreateInsert(r, withContract, milestones)
        \/ CreateParticipants(r)
        \/ CreateParticipantsFail(r)
        \/ CreateUndo(r)
        \/ LinkContractValidate(r)
        \/ LinkContractWrite(r)
        \/ \E to \in Statuses : UpdateStatusRead(r, to)
        \/ UpdateStatusWrite(r)
        \/ ApplyRead(r)
        \/ ApplyWrite(r)
        \/ \E i \in Milestones, to \in L!MILESTONE_STATUSES : UpdateMilestoneRead(r, i, to)
        \/ UpdateMilestoneWrite(r)
        \/ Abort(r)
  BY DEF AgreementsNext
<1>r. req[r] \in Request
  BY <1>t
<1>1. ASSUME NEW withContract \in BOOLEAN, NEW milestones \in MilestoneArray,
             CreateInsert(r, withContract, milestones)
      PROVE  ClientInv'
  <2>1. agreement' \in Agreement /\ agreement'.status = "pending"
    BY <1>1, <1>t DEF CreateInsert, Agreement, RowStatus, Statuses, L!AGREEMENT_STATUSES
  <2>2. [Idle EXCEPT !.op = "create", !.pc = "create_participants"] \in Request
    BY <1>1, IdleIsRequest DEF CreateInsert, Free, Request, Pcs
  <2>3. req' \in [Reqs -> Request] /\ WritesAreLegal'
    <3>1. req' = [req EXCEPT ![r] = [Idle EXCEPT !.op = "create", !.pc = "create_participants"]]
      BY <1>1 DEF CreateInsert, Suspend
    <3>2. req'[r].pc = "create_participants"
      BY <3>1, <1>t DEF Idle
    <3> QED  BY <1>1, <1>t, <2>2, <3>1, <3>2 DEF CreateInsert, ClientInv, WritesAreLegal, Legal
  <2>4. TypeOK' /\ StatusWasSeen'
    <3>1. seen' = seen \cup {"pending"} /\ UNCHANGED faults
      BY <1>1 DEF CreateInsert
    <3>2. seen' \subseteq Statuses
      BY <1>t, <3>1 DEF Statuses, L!AGREEMENT_STATUSES
    <3> QED  BY <1>t, <2>1, <2>3, <3>1, <3>2 DEF TypeOK, StatusWasSeen
  <2>5. SettledIsStamped'
    BY <1>1, <1>t, <2>1 DEF CreateInsert, ClientInv, SettledIsStamped, Agreement
  <2> QED  BY <2>3, <2>4, <2>5 DEF ClientInv
<1>2. CASE CreateParticipants(r)
  BY <1>2, <1>t, RowStep DEF CreateParticipants, Agreement
<1>3. CASE CreateParticipantsFail(r)
  <2> DEFINE new == [req[r] EXCEPT !.pc = "create_undo"]
  <2>1. new \in Request /\ Justified(new)
    BY <1>r DEF Request, Pcs, Justified
  <2>2. req' = [req EXCEPT ![r] = new]
    BY <1>3 DEF CreateParticipantsFail, Goto
  <2> HIDE DEF new
  <2> QED  BY <1>3, <1>t, <2>1, <2>2, SlotStep DEF CreateParticipantsFail
<1>4. CASE CreateUndo(r)
  BY <1>4, <1>t, RowStep DEF CreateUndo, Agreement, RowStatus
<1>5. CASE LinkContractValidate(r)
  <2> DEFINE new == [Idle EXCEPT !.op = "linkContract", !.pc = "link_write"]
  <2>1. new \in Request /\ Justified(new)
    BY <1>5, IdleIsRequest DEF LinkContractValidate, Free, Request, Pcs, Justified
  <2>2. req' = [req EXCEPT ![r] = new]
    BY <1>5 DEF LinkContractValidate, Suspend
  <2> HIDE DEF new
  <2> QED  BY <1>5, <1>t, <2>1, <2>2, SlotStep DEF LinkContractValidate
<1>6. CASE LinkContractWrite(r)
  BY <1>6, <1>t, RowStep DEF LinkContractWrite, Agreement
<1>7. ASSUME NEW to \in Statuses, UpdateStatusRead(r, to) PROVE ClientInv'
  <2> DEFINE new == [Idle EXCEPT !.op = "updateStatus", !.pc = "status_write", !.to = to]
  <2>1. new \in Request /\ new.to = to
    BY <1>7, IdleIsRequest DEF UpdateStatusRead, Free, Request, Pcs, RowStatus
  <2>2. Legal(to)
    BY <1>7 DEF UpdateStatusRead, L!validateTransition, Legal, ClientInv, StatusWasSeen
  <2>3. req' = [req EXCEPT ![r] = new]
    BY <1>7 DEF UpdateStatusRead, Suspend
  <2> HIDE DEF new
  <2>4. Justified(new)
    BY <2>1, <2>2 DEF Justified
  <2> QED  BY <1>7, <1>t, <2>1, <2>3, <2>4, SlotStep DEF UpdateStatusRead
<1>8. CASE UpdateStatusWrite(r)
  BY <1>8, StatusStep DEF UpdateStatusWrite
<1>9. CASE ApplyRead(r)
  <2>1. CASE Exists /\ (req[r].enforce => L!validateTransition(agreement.status, req[r].to))
    <3> DEFINE new == [req[r] EXCEPT !.pc = "apply_write"]
    <3>1. new \in Request /\ new.to = req[r].to
      BY <1>r DEF Request, Pcs
    <3>2. Legal(req[r].to)
      BY <1>9, <1>r, <2>1
         DEF ApplyRead, L!validateTransition, Legal, ClientInv, StatusWasSeen, WritesAreLegal, Request
    <3>3. req' = [req EXCEPT ![r] = new]
      BY <1>9, <2>1 DEF ApplyRead, Goto
    <3> HIDE DEF new
    <3>4. Justified(new)
      BY <3>1, <3>2 DEF Justified
    <3> QED  BY <1>9, <1>t, <3>1, <3>3, <3>4, SlotStep DEF ApplyRead
  <2>2. CASE ~(Exists /\ (req[r].enforce => L!validateTransition(agreement.status, req[r].to)))
    BY <1>9, <1>t, <2>2, RowStep DEF ApplyRead
  <2> QED  BY <2>1, <2>2
<1>10. CASE ApplyWrite(r)
  BY <1>10, StatusStep DEF ApplyWrite
<1>11. ASSUME NEW i \in Milestones, NEW to \in L!MILESTONE_STATUSES, UpdateMilestoneRead(r, i, to)
       PROVE  ClientInv'
  <2> DEFINE new == [Idle EXCEPT !.op = "updateMilestone", !.pc = "milestone_write",
                                 !.milestones = [agreement.milestones EXCEPT ![i] = to]]
  <2>1. [agreement.milestones EXCEPT ![i] = to] \in MilestoneArray
    BY <1>t DEF Agreement, MilestoneArray
  <2>2. new \in Request /\ Justified(new)
    BY <1>11, <2>1, IdleIsRequest DEF UpdateMilestoneRead, Free, Request, Pcs, Justified
  <2>3. req' = [req EXCEPT ![r] = new]
    BY <1>11 DEF UpdateMilestoneRead, Suspend
  <2> HIDE DEF new
  <2> QED  BY <1>11, <1>t, <2>2, <2>3, SlotStep DEF UpdateMilestoneRead
<1>12. CASE UpdateMilestoneWrite(r)
  BY <1>12, <1>t, <1>r, RowStep DEF UpdateMilestoneWrite, Agreement, Request
<1>13. CASE Abort(r)
  <2>1. Justified(Idle)
    BY IdleIsRequest DEF Justified
  <2>2. faults' \in 0..MaxFaults
    BY <1>13, <1>t DEF Abort, Fault
  <2> QED  BY <1>13, <1>t, <2>1, <2>2, IdleIsRequest, SlotStep DEF Abort, Return
<1> QED
  BY <1>1, <1>2, <1>3, <1>4, <1>5, <1>6, <1>7, <1>8, <1>9, <1>10, <1>11, <1>12, <1>13

LEMMA DisputesStep ==
  ASSUME ClientInv, DisputesNext PROVE ClientInv'
<1> USE AgreementsAssumption, DisputesAssumption
<1>t. /\ agreement \in Agreement /\ req \in [Reqs -> Request] /\ faults \in 0..MaxFaults
      /\ dispute \in [Disputes -> Dispute] /\ seen \subseteq Statuses
  BY DEF ClientInv, TypeOK
<1> PICK r \in Reqs :
        \/ OpenDisputeCheck(r)
        \/ OpenDisputeCheckFails(r)
        \/ \E d \in Disputes : \/ OpenDisputeInsert(r, d)
                               \/ AssignResolverRead(r, d)
                               \/ ResolveDisputeRead(r, d)
                               \/ CancelDisputeRead(r, d)
        \/ AssignResolverWrite(r)
        \/ ResolutionInsert(r)
        \/ ResolveMark(r)
        \/ ResolveMarkFails(r)
        \/ CancelDisputeMark(r)
        \/ CancelDisputeCheck(r)
  BY DEF DisputesNext
<1>r. req[r] \in Request
  BY <1>t
<1>1. CASE OpenDisputeCheck(r)
  <2> DEFINE new == [Idle EXCEPT !.op = "openDispute",
                                 !.pc = IF ActiveDisputes = {} THEN "dispute_insert"
                                                               ELSE "dispute_insert_unread"]
  <2>1. new \in Request /\ Justified(new)
    BY <1>1, <1>r, IdleIsRequest DEF OpenDisputeCheck, Request, Pcs, Justified, Free
  <2>2. req' = [req EXCEPT ![r] = new]
    BY <1>1 DEF OpenDisputeCheck, Suspend
  <2> HIDE DEF new
  <2> QED  BY <1>1, <1>t, <2>1, <2>2, SlotStep DEF OpenDisputeCheck
<1>2. ASSUME NEW d \in Disputes, OpenDisputeInsert(r, d) PROVE ClientInv'
  <2> DEFINE new == [req[r] EXCEPT !.pc = "apply_read", !.to = "disputed",
                                   !.enforce = TRUE, !.about = d]
  <2>1. new \in Request /\ Justified(new)
    BY <1>2, <1>r, IdleIsRequest DEF OpenDisputeInsert, Request, Pcs, Justified, RowStatus, Statuses, L!AGREEMENT_STATUSES
  <2>2. req' = [req EXCEPT ![r] = new]
    BY <1>2 DEF OpenDisputeInsert, Suspend
  <2>3. dispute' \in [Disputes -> Dispute]
    BY <1>2, <1>t DEF OpenDisputeInsert, Dispute, DisputeStatus
  <2> HIDE DEF new
  <2> QED  BY <1>2, <1>t, <2>1, <2>2, <2>3, SlotStep DEF OpenDisputeInsert
<1>3. ASSUME NEW d \in Disputes, AssignResolverRead(r, d) PROVE ClientInv'
  <2> DEFINE new == [Idle EXCEPT !.op = "assignResolver", !.pc = "resolver_write", !.about = d]
  <2>1. new \in Request /\ Justified(new)
    BY <1>3, <1>r, IdleIsRequest DEF AssignResolverRead, Request, Pcs, Justified, Free
  <2>2. req' = [req EXCEPT ![r] = new]
    BY <1>3 DEF AssignResolverRead, Suspend
  <2> HIDE DEF new
  <2> QED  BY <1>3, <1>t, <2>1, <2>2, SlotStep DEF AssignResolverRead
<1>4. ASSUME NEW d \in Disputes, ResolveDisputeRead(r, d) PROVE ClientInv'
  <2> DEFINE new == [Idle EXCEPT !.op = "resolveDispute", !.pc = "resolution_insert", !.about = d]
  <2>1. new \in Request /\ Justified(new)
    BY <1>4, <1>r, IdleIsRequest DEF ResolveDisputeRead, Request, Pcs, Justified, Free
  <2>2. req' = [req EXCEPT ![r] = new]
    BY <1>4 DEF ResolveDisputeRead, Suspend
  <2> HIDE DEF new
  <2> QED  BY <1>4, <1>t, <2>1, <2>2, SlotStep DEF ResolveDisputeRead
<1>5. ASSUME NEW d \in Disputes, CancelDisputeRead(r, d) PROVE ClientInv'
  <2> DEFINE new == [Idle EXCEPT !.op = "cancelDispute", !.pc = "cancel_mark", !.about = d]
  <2>1. new \in Request /\ Justified(new)
    BY <1>5, <1>r, IdleIsRequest DEF CancelDisputeRead, Request, Pcs, Justified, Free
  <2>2. req' = [req EXCEPT ![r] = new]
    BY <1>5 DEF CancelDisputeRead, Suspend
  <2> HIDE DEF new
  <2> QED  BY <1>5, <1>t, <2>1, <2>2, SlotStep DEF CancelDisputeRead
<1>6. CASE AssignResolverWrite(r)
  <2>1. Justified(Idle)
    BY IdleIsRequest DEF Justified
  <2>2. dispute' \in [Disputes -> Dispute]
    BY <1>6, <1>t DEF AssignResolverWrite, Dispute, DisputeStatus
  <2> QED  BY <1>6, <1>t, <2>1, <2>2, IdleIsRequest, SlotStep DEF AssignResolverWrite, Return
<1>7. CASE ResolutionInsert(r)
  <2> DEFINE new == [req[r] EXCEPT !.pc = "resolve_mark"]
  <2>1. new \in Request /\ Justified(new)
    BY <1>7, <1>r, IdleIsRequest DEF ResolutionInsert, Request, Pcs, Justified
  <2>2. req' = [req EXCEPT ![r] = new]
    BY <1>7 DEF ResolutionInsert, Goto
  <2>3. dispute' \in [Disputes -> Dispute]
    <3>1. \A d \in Disputes : /\ dispute[d] \in Dispute
                             /\ dispute[d].resolutions < MaxResolutions =>
                                  [dispute[d] EXCEPT !.resolutions = @ + 1] \in Dispute
      BY <1>t DEF Dispute
    <3> QED  BY <1>7, <1>t, <3>1 DEF ResolutionInsert
  <2> HIDE DEF new
  <2> QED  BY <1>7, <1>t, <2>1, <2>2, <2>3, SlotStep DEF ResolutionInsert
<1>8. CASE ResolveMark(r)
  <2> DEFINE new == [req[r] EXCEPT !.pc = "apply_read", !.to = "resolved", !.enforce = TRUE]
  <2>1. new \in Request /\ Justified(new)
    BY <1>8, <1>r, IdleIsRequest DEF ResolveMark, Request, Pcs, Justified, RowStatus, Statuses, L!AGREEMENT_STATUSES
  <2>2. req' = [req EXCEPT ![r] = new]
    BY <1>8 DEF ResolveMark, ResolvedNext, Suspend
  <2>3. dispute' \in [Disputes -> Dispute]
    BY <1>8, <1>t DEF ResolveMark, Dispute, DisputeStatus
  <2> HIDE DEF new
  <2> QED  BY <1>8, <1>t, <2>1, <2>2, <2>3, SlotStep DEF ResolveMark
<1>9. CASE ResolveMarkFails(r)
  <2> DEFINE new == [req[r] EXCEPT !.pc = "apply_read", !.to = "resolved", !.enforce = TRUE]
  <2>1. new \in Request /\ Justified(new)
    BY <1>r DEF Request, Pcs, Justified, RowStatus, Statuses, L!AGREEMENT_STATUSES
  <2>2. req' = [req EXCEPT ![r] = new]
    BY <1>9 DEF ResolveMarkFails, ResolvedNext, Suspend
  <2>3. faults' \in 0..MaxFaults
    BY <1>9, <1>t DEF ResolveMarkFails, Fault
  <2> HIDE DEF new
  <2> QED  BY <1>9, <1>t, <2>1, <2>2, <2>3, SlotStep DEF ResolveMarkFails
<1>10. CASE CancelDisputeMark(r)
  <2> DEFINE new == [req[r] EXCEPT !.pc = "cancel_check"]
  <2>1. new \in Request /\ Justified(new)
    BY <1>10, <1>r, IdleIsRequest DEF CancelDisputeMark, Request, Pcs, Justified
  <2>2. req' = [req EXCEPT ![r] = new]
    BY <1>10 DEF CancelDisputeMark, Goto
  <2>3. dispute' \in [Disputes -> Dispute]
    BY <1>10, <1>t DEF CancelDisputeMark, Dispute, DisputeStatus
  <2> HIDE DEF new
  <2> QED  BY <1>10, <1>t, <2>1, <2>2, <2>3, SlotStep DEF CancelDisputeMark
<1>11. CASE CancelDisputeCheck(r)
  <2>1. CASE L!validateTransition(agreement.status, "active")
    <3> DEFINE new == [req[r] EXCEPT !.pc = "apply_read", !.to = "active"]
    <3>1. new \in Request /\ new.to = "active"
      BY <1>r DEF Request, Pcs, RowStatus, Statuses, L!AGREEMENT_STATUSES
    <3>2. Legal("active")
      BY <2>1 DEF L!validateTransition, Legal, ClientInv, StatusWasSeen, Exists, Statuses
    <3>3. req' = [req EXCEPT ![r] = new]
      BY <1>11, <2>1 DEF CancelDisputeCheck, Suspend
    <3> HIDE DEF new
    <3>4. Justified(new)
      BY <3>1, <3>2 DEF Justified
    <3> QED  BY <1>11, <1>t, <3>1, <3>3, <3>4, SlotStep DEF CancelDisputeCheck
  <2>2. CASE ~L!validateTransition(agreement.status, "active")
    BY <1>11, <1>t, <2>2, RowStep DEF CancelDisputeCheck
  <2> QED  BY <2>1, <2>2
<1>12. CASE OpenDisputeCheckFails(r)
  <2> DEFINE new == [Idle EXCEPT !.op = "openDispute", !.pc = "dispute_insert_unread"]
  <2>1. new \in Request /\ Justified(new)
    BY <1>12, <1>r, IdleIsRequest DEF OpenDisputeCheckFails, Request, Pcs, Justified, Free
  <2>2. req' = [req EXCEPT ![r] = new]
    BY <1>12 DEF OpenDisputeCheckFails, Suspend
  <2>3. faults' \in 0..MaxFaults
    BY <1>12, <1>t DEF OpenDisputeCheckFails, Fault
  <2> HIDE DEF new
  <2> QED  BY <1>12, <1>t, <2>1, <2>2, <2>3, SlotStep DEF OpenDisputeCheckFails
<1> QED
  BY <1>1, <1>2, <1>3, <1>4, <1>5, <1>6, <1>7, <1>8, <1>9, <1>10, <1>11, <1>12

LEMMA ClientInvNext == ClientInv /\ [ClientsNext]_disputeVars => ClientInv'
<1> SUFFICES ASSUME ClientInv, [ClientsNext]_disputeVars PROVE ClientInv'
  OBVIOUS
<1>1. CASE UNCHANGED disputeVars
  BY <1>1 DEF disputeVars, agreementVars, ClientInv, TypeOK, StatusWasSeen, WritesAreLegal,
              SettledIsStamped, Legal, Exists
<1> QED  BY <1>1, AgreementsStep, DisputesStep DEF ClientsNext

\* The rows of agreements and disputes and the suspended handlers keep their
\* shape, however many requests overlap.
THEOREM ClientTypeCorrect == ClientsSpec => []TypeOK
<1>1. ClientInv => TypeOK
  BY DEF ClientInv
<1> QED  BY <1>1, ClientInvInit, ClientInvNext, PTL DEF ClientsSpec

\* However many requests overlap, completed and resolved agreements carry their
\* completed_at, and agreements that were ever funded their funded_at.
THEOREM SettledAreStamped == ClientsSpec => []SettledIsStamped
<1>1. ClientInv => SettledIsStamped
  BY DEF ClientInv
<1> QED  BY <1>1, ClientInvInit, ClientInvNext, PTL DEF ClientsSpec

\* However many requests overlap, no handler of clients or disputes writes a
\* status that is not a declared successor of one the agreement has had.
THEOREM StatusesReachedLegally == ClientsSpec => ReachedLegally
<1> DEFINE Declared ==
        agreement'.status # agreement.status =>
         \/ agreement.status = "none" /\ agreement'.status = "pending"
         \/ agreement'.status = "deleted"
         \/ \E from \in seen : agreement'.status \in L!AGREEMENT_TRANSITIONS[from]
<1>1. ASSUME ClientInv, AgreementsNext PROVE Declared
  <2>t. agreement \in Agreement
    BY <1>1 DEF ClientInv, TypeOK
  <2>1. ASSUME NEW r \in Reqs, req[r].pc \in {"status_write", "apply_write"},
               IF Exists THEN WriteStatus(req[r].to) ELSE UNCHANGED <<agreement, seen>>
        PROVE  Declared
    BY <1>1, <2>t, <2>1 DEF ClientInv, WritesAreLegal, Legal, WriteStatus, Agreement
  <2>2. ASSUME NEW r \in Reqs, NEW withContract \in BOOLEAN, NEW milestones \in MilestoneArray,
               CreateInsert(r, withContract, milestones)
        PROVE  Declared
    BY <2>t, <2>2 DEF CreateInsert, Agreement
  <2>3. ASSUME NEW r \in Reqs,
               CreateParticipants(r) \/ CreateUndo(r) \/ LinkContractWrite(r)
                 \/ UpdateMilestoneWrite(r)
        PROVE  Declared
    BY <2>t, <2>3
       DEF CreateParticipants, CreateUndo, LinkContractWrite, UpdateMilestoneWrite, Agreement
  <2>4. ASSUME UNCHANGED agreement PROVE Declared
    BY <2>4
  <2> HIDE DEF Declared
  <2> QED
    BY <1>1, <2>1, <2>2, <2>3, <2>4
       DEF AgreementsNext, CreateParticipantsFail, LinkContractValidate, UpdateStatusRead,
           UpdateStatusWrite, ApplyRead, ApplyWrite, UpdateMilestoneRead, Abort
<1>2. ASSUME DisputesNext PROVE UNCHANGED agreement
  BY <1>2 DEF DisputesNext, OpenDisputeCheck, OpenDisputeCheckFails, OpenDisputeInsert, AssignResolverRead,
              AssignResolverWrite, ResolveDisputeRead, ResolutionInsert, ResolveMark,
              ResolveMarkFails, CancelDisputeRead, CancelDisputeMark, CancelDisputeCheck
<1>3. ClientInv /\ [ClientsNext]_disputeVars => [Declared]_disputeVars
  BY <1>1, <1>2 DEF ClientsNext
<1>4. ClientsSpec => [][Declared]_disputeVars
  BY <1>3, ClientInvInit, ClientInvNext, PTL DEF ClientsSpec
<1> QED  BY <1>4 DEF ReachedLegally
----
(***************************************************************************)
(* One request slot: what a handler decided before an await is still true  *)
(* when it writes.                                                         *)
(***************************************************************************)
OneAtATime == \A r, s \in Reqs : r = s

\* What the handler in r decided about the agreement before it waited is still
\* true.
StillDecided(r) ==
    /\ req[r].pc \in {"create_participants", "create_undo"} => agreement.status = "pending"
    /\ \/ req[r].pc \in {"status_write", "apply_write"}
       \/ req[r].pc = "apply_read" /\ ~req[r].enforce
       => L!validateTransition(agreement.status, req[r].to)
    /\ req[r].pc = "status_write" /\ req[r].to = "completed"
       => L!milestonesSatisfyCompletion(agreement.milestones)
    /\ req[r].pc \in {"apply_read", "apply_write"} => req[r].to # "completed"

\* So is what it decided about the disputes.
DisputeDecided(r) ==
    /\ req[r].pc = "dispute_insert" => ActiveDisputes = {}
    /\ req[r].pc = "dispute_insert_unread" => faults > 0
    /\ req[r].pc = "resolver_write" => dispute[req[r].about].status = "open"
    /\ req[r].pc \in {"resolution_insert", "resolve_mark"}
       => dispute[req[r].about].status # "resolved"
    /\ req[r].pc = "cancel_mark" => dispute[req[r].about].status \notin {"none", "resolved"}
    /\ req[r].pc \in {"resolver_write", "resolution_insert", "resolve_mark", "cancel_mark"}
       => req[r].about \in Disputes

\* Where a handler holds a decision about the disputes.
DisputePcs == {"dispute_insert", "dispute_insert_unread", "resolver_write", "resolution_insert",
               "resolve_mark", "cancel_mark"}

\* A resolution without the update that marks it has cost a fault, unless the
\* handler is about to mark it.
ResolutionsPaid ==
    \A d \in Disputes :
        /\ dispute[d].resolutions <= 1 + faults
        /\ \/ dispute[d].status = "resolved"
           \/ \E r \in Reqs : req[r].pc = "resolve_mark" /\ req[r].about = d
           \/ dispute[d].resolutions <= faults

\* The active disputes that were opened upon an answer.
CheckedDisputes == {d \in ActiveDisputes : ~dispute[d].unread}

OneIsActive == \A d, e \in CheckedDisputes : d = e

UnreadIsPaid == faults = 0 => \A d \in Disputes : ~dispute[d].unread

DisputesInOrder == OneIsActive /\ UnreadIsPaid /\ ResolutionsPaid

\* What holds of the disputes, whatever becomes of the agreement.
BooksInv ==
    /\ dispute \in [Disputes -> Dispute] /\ faults \in Nat
    /\ DisputesInOrder
    /\ \A r \in Reqs : DisputeDecided(r)

SerialInv ==
    /\ ClientInv
    /\ BooksInv
    /\ \A r \in Reqs : StillDecided(r)

\* Slots that may hold a status of S.
Held(S) == [op : {"none"} \cup Ops, pc : Pcs, to : S, enforce : BOOLEAN,
            about : Subjects \cup {Nothing}, milestones : MilestoneArray]

LEMMA AtMostOne ==
  ASSUME NEW S, \A d, e \in S : d = e
  PROVE  /\ Cardinality(S) <= 1
         /\ Cardinality(S) # 1 => S = {}
<1>1. CASE S = {}
  BY <1>1, FS_EmptySet
<1>2. ASSUME NEW d \in S PROVE Cardinality(S) = 1
  <2>1. S = {d}
    OBVIOUS
  <2> QED  BY <2>1, FS_Singleton
<1> QED  BY <1>1, <1>2

\* Several active disputes make the check fail, and one of them came of a fault.
LEMMA ChecksArePaid ==
  ASSUME OneIsActive, UnreadIsPaid, faults \in Nat, Cardinality(ActiveDisputes) # 1,
         ActiveDisputes # {}
  PROVE  faults > 0
<1>1. faults = 0 => CheckedDisputes = ActiveDisputes
  BY DEF UnreadIsPaid, CheckedDisputes, ActiveDisputes
<1> QED  BY <1>1, AtMostOne DEF OneIsActive

\* A handler that returns has nothing left to decide about.
LEMMA ReturnDecides ==
  ASSUME ClientInv, NEW r \in Reqs, Return(r) PROVE StillDecided(r)'
<1>1. req'[r] = Idle
  BY DEF Return, ClientInv, TypeOK
<1> QED  BY <1>1, IdleIsRequest DEF StillDecided

\* One that starts, or goes on, holds what it was given.
LEMMA SlotHolds ==
  ASSUME ClientInv, NEW r \in Reqs, NEW new, Suspend(r, new) PROVE req'[r] = new
  BY DEF Suspend, ClientInv, TypeOK

LEMMA AgreementsStillDecided ==
  ASSUME OneAtATime, SerialInv, AgreementsNext, UNCHANGED dispute
  PROVE  \A s \in Reqs : StillDecided(s)'
<1> PICK r \in Reqs :
        \/ \E withContract \in BOOLEAN, milestones \in MilestoneArray :
              CreateInsert(r, withContract, milestones)
        \/ CreateParticipants(r)
        \/ CreateParticipantsFail(r)
        \/ CreateUndo(r)
        \/ LinkContractValidate(r)
        \/ LinkContractWrite(r)
        \/ \E to \in Statuses : UpdateStatusRead(r, to)
        \/ UpdateStatusWrite(r)
        \/ ApplyRead(r)
        \/ ApplyWrite(r)
        \/ \E i \in Milestones, to \in L!MILESTONE_STATUSES : UpdateMilestoneRead(r, i, to)
        \/ UpdateMilestoneWrite(r)
        \/ Abort(r)
  BY DEF AgreementsNext
<1>i. ClientInv /\ StillDecided(r) /\ agreement \in Agreement /\ req[r] \in Request
  BY DEF SerialInv, ClientInv, TypeOK
<1> SUFFICES StillDecided(r)'
  BY DEF OneAtATime
<1>1. CASE Return(r)
  BY <1>1, <1>i, ReturnDecides
<1>2. ASSUME NEW withContract \in BOOLEAN, NEW milestones \in MilestoneArray,
             CreateInsert(r, withContract, milestones)
      PROVE  StillDecided(r)'
  <2>1. req'[r].pc = "create_participants"
    BY <1>2, <1>i, SlotHolds DEF CreateInsert, Idle
  <2>2. agreement'.status = "pending"
    BY <1>2, <1>i DEF CreateInsert, Agreement
  <2> QED  BY <2>1, <2>2 DEF StillDecided
<1>3. CASE CreateParticipantsFail(r)
  <2>1. req'[r].pc = "create_undo" /\ UNCHANGED agreement
    BY <1>3, <1>i DEF CreateParticipantsFail, Goto, ClientInv, TypeOK, Request
  <2>2. agreement.status = "pending"
    BY <1>3, <1>i DEF CreateParticipantsFail, StillDecided
  <2> QED  BY <2>1, <2>2 DEF StillDecided
<1>4. CASE LinkContractValidate(r)
  <2>1. req'[r].pc = "link_write"
    BY <1>4, <1>i, SlotHolds DEF LinkContractValidate, Idle
  <2> QED  BY <2>1 DEF StillDecided
<1>5. ASSUME NEW to \in Statuses, UpdateStatusRead(r, to) PROVE StillDecided(r)'
  <2>1. req'[r].pc = "status_write" /\ req'[r].to = to /\ UNCHANGED agreement
    BY <1>5, <1>i, SlotHolds DEF UpdateStatusRead, Idle
  <2> QED  BY <1>5, <2>1 DEF UpdateStatusRead, StillDecided
<1>6. CASE ApplyRead(r) /\ ~Return(r)
  <2>1. /\ req'[r].pc = "apply_write" /\ req'[r].to = req[r].to /\ UNCHANGED agreement
        /\ req[r].enforce => L!validateTransition(agreement.status, req[r].to)
    BY <1>6, <1>i DEF ApplyRead, Goto, ClientInv, TypeOK, Request
  <2>2. L!validateTransition(agreement.status, req[r].to) /\ req[r].to # "completed"
    BY <1>6, <1>i, <2>1 DEF ApplyRead, StillDecided, Request
  <2> QED  BY <2>1, <2>2 DEF StillDecided
<1>7. ASSUME NEW i \in Milestones, NEW to \in L!MILESTONE_STATUSES, UpdateMilestoneRead(r, i, to)
      PROVE  StillDecided(r)'
  <2>1. req'[r].pc = "milestone_write"
    BY <1>7, <1>i, SlotHolds DEF UpdateMilestoneRead, Idle
  <2> QED  BY <2>1 DEF StillDecided
<1> QED
  BY <1>1, <1>2, <1>3, <1>4, <1>5, <1>6, <1>7
     DEF CreateParticipants, CreateUndo, LinkContractWrite, UpdateStatusWrite, ApplyWrite,
         UpdateMilestoneWrite, Abort

LEMMA DisputesStillDecided ==
  ASSUME OneAtATime, SerialInv, DisputesNext
  PROVE  \A s \in Reqs : StillDecided(s)'
<1> PICK r \in Reqs :
        \/ OpenDisputeCheck(r)
        \/ OpenDisputeCheckFails(r)
        \/ \E d \in Disputes : \/ OpenDisputeInsert(r, d)
                               \/ AssignResolverRead(r, d)
                               \/ ResolveDisputeRead(r, d)
                               \/ CancelDisputeRead(r, d)
        \/ AssignResolverWrite(r)
        \/ ResolutionInsert(r)
        \/ ResolveMark(r)
        \/ ResolveMarkFails(r)
        \/ CancelDisputeMark(r)
        \/ CancelDisputeCheck(r)
  BY DEF DisputesNext
<1>i. /\ ClientInv /\ agreement \in Agreement /\ req[r] \in Request
      /\ req \in [Reqs -> Request]
  BY DEF SerialInv, ClientInv, TypeOK
<1> SUFFICES StillDecided(r)'
  BY DEF OneAtATime
<1>1. CASE Return(r)
  BY <1>1, <1>i, ReturnDecides
<1>2. CASE req'[r].pc \in DisputePcs \cup {"cancel_check"}
  BY <1>2 DEF StillDecided, DisputePcs
<1>3. ASSUME NEW d \in Disputes, OpenDisputeInsert(r, d) PROVE StillDecided(r)'
  <2>1. req'[r].pc = "apply_read" /\ req'[r].to = "disputed" /\ req'[r].enforce
    BY ZenonT(60), <1>3, <1>i, SlotHolds DEF OpenDisputeInsert, Request
  <2> QED  BY <2>1 DEF StillDecided
<1>4. ASSUME NEW d \in Disputes,
             AssignResolverRead(r, d) \/ ResolveDisputeRead(r, d) \/ CancelDisputeRead(r, d)
      PROVE  req'[r].pc \in DisputePcs
  BY ZenonT(60), <1>4, <1>i, SlotHolds
     DEF AssignResolverRead, ResolveDisputeRead, CancelDisputeRead, Idle, DisputePcs
<1>5. CASE OpenDisputeCheck(r) \/ OpenDisputeCheckFails(r)
  <2>1. req'[r].pc \in {"dispute_insert", "dispute_insert_unread"}
    BY <1>5, <1>i, SlotHolds DEF OpenDisputeCheck, OpenDisputeCheckFails, Idle
  <2> QED  BY <1>2, <2>1 DEF DisputePcs
<1>6. CASE ResolutionInsert(r) \/ CancelDisputeMark(r)
  BY <1>2, <1>6, <1>i DEF ResolutionInsert, CancelDisputeMark, Goto, Request, DisputePcs
<1>7. CASE ResolvedNext(r)
  <2>1. req'[r].pc = "apply_read" /\ req'[r].to = "resolved" /\ req'[r].enforce
    BY <1>7, <1>i, SlotHolds DEF ResolvedNext, Request
  <2> QED  BY <2>1 DEF StillDecided
<1>8. CASE CancelDisputeCheck(r) /\ ~Return(r)
  <2>1. /\ Suspend(r, [req[r] EXCEPT !.pc = "apply_read", !.to = "active"])
        /\ L!validateTransition(agreement.status, "active") /\ UNCHANGED agreement
    BY <1>8 DEF CancelDisputeCheck
  <2>2. req'[r].pc = "apply_read" /\ req'[r].to = "active"
    BY ZenonT(60), <1>i, <2>1, SlotHolds DEF Request
  <2> QED  BY <2>1, <2>2 DEF StillDecided
<1> QED
  BY <1>1, <1>2, <1>3, <1>4, <1>5, <1>6, <1>7, <1>8
     DEF AssignResolverWrite, ResolveMark, ResolveMarkFails

\* A slot whose handler holds no decision about the disputes.
LEMMA NothingDecided ==
  ASSUME NEW r \in Reqs, req[r].pc \notin DisputePcs PROVE DisputeDecided(r)
  BY DEF DisputeDecided, DisputePcs

LEMMA IdleDecides == Idle.pc = "idle" /\ Idle.pc \notin DisputePcs
  BY DEF Idle, DisputePcs

LEMMA DisputesDecided ==
  ASSUME OneAtATime, BooksInv, NEW S, req \in [Reqs -> Held(S)], DisputesNext
  PROVE  \A s \in Reqs : DisputeDecided(s)'
<1> PICK r \in Reqs :
        \/ OpenDisputeCheck(r)
        \/ OpenDisputeCheckFails(r)
        \/ \E d \in Disputes : \/ OpenDisputeInsert(r, d)
                               \/ AssignResolverRead(r, d)
                               \/ ResolveDisputeRead(r, d)
                               \/ CancelDisputeRead(r, d)
        \/ AssignResolverWrite(r)
        \/ ResolutionInsert(r)
        \/ ResolveMark(r)
        \/ ResolveMarkFails(r)
        \/ CancelDisputeMark(r)
        \/ CancelDisputeCheck(r)
  BY DEF DisputesNext
<1>i. /\ DisputeDecided(r) /\ req[r] \in Held(S) /\ dispute \in [Disputes -> Dispute]
  BY DEF BooksInv
<1>s. \A new : Suspend(r, new) => req'[r] = new
  BY DEF Suspend
<1> SUFFICES DisputeDecided(r)'
  BY DEF OneAtATime
<1>1. CASE Return(r)
  <2>1. req'[r].pc \notin DisputePcs
    BY <1>1, IdleDecides DEF Return
  <2> QED  BY <2>1 DEF DisputeDecided, DisputePcs
<1>2. CASE OpenDisputeCheck(r)
  <2>1. /\ req'[r].pc = IF ActiveDisputes = {} THEN "dispute_insert"
                                               ELSE "dispute_insert_unread"
        /\ UNCHANGED <<faults, dispute>>
    BY <1>2, <1>s DEF OpenDisputeCheck, Idle
  <2>2. ActiveDisputes = {} \/ faults > 0
    BY <1>2, ChecksArePaid DEF OpenDisputeCheck, BooksInv, DisputesInOrder
  <2> QED  BY <2>1, <2>2 DEF DisputeDecided, ActiveDisputes
<1>3. CASE req'[r].pc \in {"apply_read", "cancel_check"}
  BY <1>3 DEF DisputeDecided
<1>4. ASSUME NEW d \in Disputes, AssignResolverRead(r, d) PROVE DisputeDecided(r)'
  <2>1. req'[r].pc = "resolver_write" /\ req'[r].about = d /\ UNCHANGED dispute
    BY <1>4, <1>s DEF AssignResolverRead, Idle
  <2> QED  BY <1>4, <2>1 DEF DisputeDecided, AssignResolverRead
<1>5. ASSUME NEW d \in Disputes, ResolveDisputeRead(r, d) PROVE DisputeDecided(r)'
  <2>1. req'[r].pc = "resolution_insert" /\ req'[r].about = d /\ UNCHANGED dispute
    BY ZenonT(60), <1>5, <1>s DEF ResolveDisputeRead, Idle
  <2> QED  BY <1>5, <2>1 DEF DisputeDecided, ResolveDisputeRead
<1>6. ASSUME NEW d \in Disputes, CancelDisputeRead(r, d) PROVE DisputeDecided(r)'
  <2>1. req'[r].pc = "cancel_mark" /\ req'[r].about = d /\ UNCHANGED dispute
    BY <1>6, <1>s DEF CancelDisputeRead, Idle
  <2> QED  BY <1>6, <2>1 DEF DisputeDecided, CancelDisputeRead
<1>7. CASE ResolutionInsert(r)
  <2>1. req'[r].pc = "resolve_mark" /\ req'[r].about = req[r].about
    BY <1>7, <1>i DEF ResolutionInsert, Goto, Held
  <2>2. req[r].about \in Disputes /\ dispute[req[r].about].status # "resolved"
    BY <1>7, <1>i DEF ResolutionInsert, DisputeDecided
  <2>3. dispute'[req[r].about].status = dispute[req[r].about].status
    BY <1>7, <1>i, <2>2 DEF ResolutionInsert, Dispute
  <2> QED  BY <2>1, <2>2, <2>3 DEF DisputeDecided
<1>8. CASE ResolvedNext(r)
  BY ZenonT(60), <1>3, <1>8, <1>i, <1>s DEF ResolvedNext, Held
<1>9. ASSUME NEW d \in Disputes, OpenDisputeInsert(r, d) PROVE DisputeDecided(r)'
  BY ZenonT(60), <1>3, <1>9, <1>i, <1>s DEF OpenDisputeInsert, Held
<1>10. CASE CancelDisputeMark(r)
  BY <1>3, <1>10, <1>i DEF CancelDisputeMark, Goto, Held
<1>11. CASE CancelDisputeCheck(r)
  BY <1>1, <1>3, <1>11, <1>i, <1>s DEF CancelDisputeCheck, Held
<1>12. CASE OpenDisputeCheckFails(r)
  <2>1. req'[r].pc = "dispute_insert_unread"
    BY <1>12, <1>s DEF OpenDisputeCheckFails, Idle
  <2>2. faults' > 0
    BY <1>12 DEF OpenDisputeCheckFails, Fault, BooksInv
  <2> QED  BY <2>1, <2>2 DEF DisputeDecided
<1> QED
  BY <1>1, <1>2, <1>4, <1>5, <1>6, <1>7, <1>8, <1>9, <1>10, <1>11, <1>12
     DEF AssignResolverWrite, ResolveMark, ResolveMarkFails

\* Steps that leave the disputes alone pay for nothing they have not paid for.
LEMMA PaidUnchanged ==
  ASSUME OneAtATime, BooksInv, UNCHANGED dispute, NEW r \in Reqs,
         faults' \in Nat, faults' >= faults,
         req[r].pc = "resolve_mark" => faults' = faults + 1
  PROVE  DisputesInOrder'
<1>1. OneIsActive' /\ UnreadIsPaid'
  BY DEF BooksInv, DisputesInOrder, OneIsActive, UnreadIsPaid, CheckedDisputes, ActiveDisputes
<1>2. ASSUME NEW d \in Disputes
      PROVE  /\ dispute[d].resolutions <= 1 + faults'
             /\ dispute[d].status = "resolved" \/ dispute[d].resolutions <= faults'
  <2>1. dispute[d].resolutions \in Nat
    BY DisputesAssumption DEF BooksInv, Dispute
  <2> QED  BY <2>1 DEF BooksInv, DisputesInOrder, ResolutionsPaid, OneAtATime
<1> QED  BY <1>1, <1>2 DEF DisputesInOrder, ResolutionsPaid

\* What the row of d may become.
Admitted(d, new) ==
    /\ new.status \in {"open", "under_review"} /\ ~new.unread => CheckedDisputes \subseteq {d}
    /\ new.unread => faults > 0

\* It may stay active, or cease to be.
LEMMA AdmittedAgain ==
  ASSUME BooksInv, NEW d \in Disputes, NEW new \in Dispute, new.unread = dispute[d].unread,
         \/ new.status \notin {"open", "under_review"}
         \/ dispute[d].status \in {"open", "under_review"}
  PROVE  Admitted(d, new)
  BY DEF Admitted, BooksInv, DisputesInOrder, OneIsActive, UnreadIsPaid, CheckedDisputes,
         ActiveDisputes

\* A handler rewrites the dispute it is about, and pays for what it leaves.
LEMMA PaidChanged ==
  ASSUME OneAtATime, BooksInv, NEW r \in Reqs, NEW d \in Disputes, NEW new \in Dispute,
         dispute' = [dispute EXCEPT ![d] = new], UNCHANGED faults,
         req[r].pc = "resolve_mark" => req[r].about = d,
         Admitted(d, new),
         new.resolutions <= 1 + faults,
         \/ new.status = "resolved"
         \/ req'[r].pc = "resolve_mark" /\ req'[r].about = d
         \/ new.resolutions <= faults
  PROVE  DisputesInOrder'
<1>1. /\ dispute'[d] = new
      /\ \A e \in Disputes \ {d} : dispute'[e] = dispute[e]
  BY DEF BooksInv
<1>2. OneIsActive' /\ UnreadIsPaid'
  BY <1>1 DEF BooksInv, DisputesInOrder, OneIsActive, UnreadIsPaid, CheckedDisputes,
              ActiveDisputes, Admitted
<1>3. ASSUME NEW e \in Disputes \ {d}
      PROVE  /\ dispute[e].resolutions <= 1 + faults
             /\ dispute[e].status = "resolved" \/ dispute[e].resolutions <= faults
  BY DEF BooksInv, DisputesInOrder, ResolutionsPaid, OneAtATime
<1> QED  BY <1>1, <1>2, <1>3 DEF DisputesInOrder, ResolutionsPaid

LEMMA DisputesPaid ==
  ASSUME OneAtATime, BooksInv, NEW S, req \in [Reqs -> Held(S)], DisputesNext
  PROVE  DisputesInOrder'
<1>t. /\ faults \in Nat /\ dispute \in [Disputes -> Dispute] /\ req \in [Reqs -> Held(S)]
      /\ \A d \in Disputes : dispute[d].resolutions \in Nat
  BY AgreementsAssumption, DisputesAssumption DEF BooksInv, Dispute
<1>1. ASSUME NEW r \in Reqs, req[r].pc # "resolve_mark", UNCHANGED <<faults, dispute>>
      PROVE  DisputesInOrder'
  BY <1>1, <1>t, PaidUnchanged
<1>2. ASSUME NEW r \in Reqs, ResolveMarkFails(r) PROVE DisputesInOrder'
  BY <1>2, <1>t, PaidUnchanged DEF ResolveMarkFails, Fault
<1>3. ASSUME NEW r \in Reqs, NEW d \in Disputes, req[r].pc # "resolve_mark", UNCHANGED faults,
             NEW new \in Dispute, dispute' = [dispute EXCEPT ![d] = new],
             Admitted(d, new),
             new.resolutions = dispute[d].resolutions, dispute[d].status # "resolved"
      PROVE  DisputesInOrder'
  <2>1. dispute[d].resolutions <= faults
    BY <1>3 DEF BooksInv, DisputesInOrder, ResolutionsPaid, OneAtATime
  <2>2. new.resolutions <= faults /\ new.resolutions <= 1 + faults
    BY <1>3, <1>t, <2>1
  <2> QED  BY <1>3, <2>2, PaidChanged
<1>4. ASSUME NEW r \in Reqs, NEW d \in Disputes, OpenDisputeInsert(r, d)
      PROVE  DisputesInOrder'
  <2> DEFINE unread == (req[r].pc = "dispute_insert_unread")
             new == [dispute[d] EXCEPT !.status = "open", !.unread = unread]
  <2>1. /\ new \in Dispute /\ new.status = "open" /\ new.unread = unread
        /\ new.resolutions = dispute[d].resolutions
    BY <1>t DEF Dispute, DisputeStatus
  <2>2. /\ dispute[d].status # "resolved" /\ req[r].pc # "resolve_mark"
        /\ IF unread THEN faults > 0 ELSE ActiveDisputes = {}
    BY <1>4 DEF OpenDisputeInsert, BooksInv, DisputeDecided
  <2>3. dispute' = [dispute EXCEPT ![d] = new] /\ UNCHANGED faults
    BY <1>4, <1>t DEF OpenDisputeInsert, Dispute
  <2> HIDE DEF new
  <2>4. Admitted(d, new)
    BY <2>1, <2>2 DEF Admitted, CheckedDisputes
  <2> QED  BY <1>3, <2>1, <2>2, <2>3, <2>4
<1>5. ASSUME NEW r \in Reqs, AssignResolverWrite(r) PROVE DisputesInOrder'
  <2> DEFINE d == req[r].about
             new == [dispute[d] EXCEPT !.status = "under_review", !.resolver = TRUE]
  <2>1. d \in Disputes /\ dispute[d].status = "open" /\ req[r].pc # "resolve_mark"
    BY <1>5 DEF AssignResolverWrite, BooksInv, DisputeDecided
  <2>2. /\ new \in Dispute /\ new.resolutions = dispute[d].resolutions
        /\ new.unread = dispute[d].unread
    BY <1>t, <2>1 DEF Dispute, DisputeStatus
  <2>3. Admitted(d, new)
    BY <2>1, <2>2, AdmittedAgain
  <2>4. dispute' = [dispute EXCEPT ![d] = new] /\ UNCHANGED faults
    BY <1>5, <1>t, <2>1 DEF AssignResolverWrite
  <2> HIDE DEF new
  <2> QED  BY <1>3, <2>1, <2>2, <2>3, <2>4
<1>6. ASSUME NEW r \in Reqs, ResolutionInsert(r) PROVE DisputesInOrder'
  <2> DEFINE d == req[r].about
             new == [dispute[d] EXCEPT !.resolutions = @ + 1]
  <2>1. d \in Disputes /\ dispute[d].status # "resolved" /\ req[r].pc = "resolution_insert"
    BY <1>6 DEF ResolutionInsert, BooksInv, DisputeDecided
  <2>2. /\ new \in Dispute /\ new.resolutions = dispute[d].resolutions + 1
        /\ new.status = dispute[d].status /\ new.unread = dispute[d].unread
    BY <1>6, <1>t, <2>1, DisputesAssumption DEF ResolutionInsert, Dispute
  <2>3. Admitted(d, new)
    BY <2>1, <2>2, AdmittedAgain
  <2>4. dispute[d].resolutions <= faults
    BY <2>1 DEF BooksInv, DisputesInOrder, ResolutionsPaid, OneAtATime
  <2>5. dispute' = [dispute EXCEPT ![d] = new] /\ UNCHANGED faults
    BY <1>6 DEF ResolutionInsert
  <2>6. req'[r].pc = "resolve_mark" /\ req'[r].about = d
    BY <1>6, <1>t DEF ResolutionInsert, Goto, Held
  <2>7. new.resolutions <= 1 + faults
    BY <1>t, <2>1, <2>2, <2>4
  <2> HIDE DEF new
  <2> QED  BY <2>1, <2>2, <2>3, <2>5, <2>6, <2>7, PaidChanged
<1>7. ASSUME NEW r \in Reqs, ResolveMark(r) PROVE DisputesInOrder'
  <2> DEFINE d == req[r].about
             new == [dispute[d] EXCEPT !.status = "resolved"]
  <2>1. d \in Disputes
    BY <1>7 DEF ResolveMark, BooksInv, DisputeDecided
  <2>2. /\ new \in Dispute /\ new.status = "resolved" /\ new.unread = dispute[d].unread
        /\ new.resolutions = dispute[d].resolutions
    BY <1>t, <2>1 DEF Dispute, DisputeStatus
  <2>3. dispute' = [dispute EXCEPT ![d] = new] /\ UNCHANGED faults
    BY <1>7 DEF ResolveMark
  <2>4. new.resolutions <= 1 + faults
    BY <2>1, <2>2 DEF BooksInv, DisputesInOrder, ResolutionsPaid
  <2> HIDE DEF new
  <2>5. Admitted(d, new)
    BY <2>1, <2>2, AdmittedAgain
  <2> QED  BY <2>1, <2>2, <2>3, <2>4, <2>5, PaidChanged
<1>8. ASSUME NEW r \in Reqs, CancelDisputeMark(r) PROVE DisputesInOrder'
  <2> DEFINE d == req[r].about
             new == [dispute[d] EXCEPT !.status = "cancelled"]
  <2>1. d \in Disputes /\ dispute[d].status # "resolved" /\ req[r].pc # "resolve_mark"
    BY <1>8 DEF CancelDisputeMark, BooksInv, DisputeDecided
  <2>2. /\ new \in Dispute /\ new.status = "cancelled" /\ new.unread = dispute[d].unread
        /\ new.resolutions = dispute[d].resolutions
    BY <1>t, <2>1 DEF Dispute, DisputeStatus
  <2>3. dispute' = [dispute EXCEPT ![d] = new] /\ UNCHANGED faults
    BY <1>8 DEF CancelDisputeMark
  <2> HIDE DEF new
  <2>4. Admitted(d, new)
    BY <2>1, <2>2, AdmittedAgain
  <2> QED  BY <1>3, <2>1, <2>2, <2>3, <2>4
<1>9. ASSUME NEW r \in Reqs, OpenDisputeCheckFails(r) PROVE DisputesInOrder'
  BY <1>9, <1>t, PaidUnchanged DEF OpenDisputeCheckFails, Free, Fault
<1> QED
  BY <1>1, <1>2, <1>4, <1>5, <1>6, <1>7, <1>8, <1>9
     DEF DisputesNext, OpenDisputeCheck, Free, AssignResolverRead, ResolveDisputeRead,
         CancelDisputeRead, CancelDisputeCheck

\* The handlers of the disputes keep them so.
LEMMA BooksStep ==
  ASSUME OneAtATime, BooksInv, NEW S, req \in [Reqs -> Held(S)], DisputesNext
  PROVE  BooksInv'
<1>t. dispute \in [Disputes -> Dispute] /\ faults \in Nat
  BY DEF BooksInv
<1>1. faults' \in Nat
  <2>1. ASSUME NEW r \in Reqs, ResolveMarkFails(r) \/ OpenDisputeCheckFails(r)
        PROVE  faults' \in Nat
    BY <1>t, <2>1 DEF ResolveMarkFails, OpenDisputeCheckFails, Fault
  <2>2. ASSUME UNCHANGED faults PROVE faults' \in Nat
    BY <1>t, <2>2
  <2> QED
    BY <2>1, <2>2
       DEF DisputesNext, OpenDisputeCheck, OpenDisputeInsert, AssignResolverRead,
           AssignResolverWrite, ResolveDisputeRead, ResolutionInsert, ResolveMark,
           CancelDisputeRead, CancelDisputeMark, CancelDisputeCheck
<1>2. dispute' \in [Disputes -> Dispute]
  <2>1. ASSUME NEW r \in Reqs, NEW d \in Disputes, OpenDisputeInsert(r, d)
        PROVE  dispute' \in [Disputes -> Dispute]
    BY <1>t, <2>1 DEF OpenDisputeInsert, Dispute, DisputeStatus
  <2>2. ASSUME NEW r \in Reqs, AssignResolverWrite(r) PROVE dispute' \in [Disputes -> Dispute]
    BY <1>t, <2>2 DEF AssignResolverWrite, Dispute, DisputeStatus
  <2>3. ASSUME NEW r \in Reqs, ResolutionInsert(r) PROVE dispute' \in [Disputes -> Dispute]
    <3> DEFINE d == req[r].about
               new == [dispute[d] EXCEPT !.resolutions = @ + 1]
    <3>1. d \in Disputes /\ dispute[d].resolutions < MaxResolutions
      BY <2>3 DEF ResolutionInsert, BooksInv, DisputeDecided
    <3>2. new \in Dispute
      BY <1>t, <3>1, DisputesAssumption DEF Dispute
    <3>3. dispute' = [dispute EXCEPT ![d] = new]
      BY <2>3 DEF ResolutionInsert
    <3> HIDE DEF new
    <3> QED  BY <1>t, <3>2, <3>3
  <2>4. ASSUME NEW r \in Reqs, ResolveMark(r) \/ CancelDisputeMark(r)
        PROVE  dispute' \in [Disputes -> Dispute]
    BY <1>t, <2>4 DEF ResolveMark, CancelDisputeMark, Dispute, DisputeStatus
  <2> QED
    BY <1>t, <2>1, <2>2, <2>3, <2>4
       DEF DisputesNext, OpenDisputeCheck, OpenDisputeCheckFails, AssignResolverRead,
           ResolveDisputeRead, ResolveMarkFails, CancelDisputeRead, CancelDisputeCheck
<1> QED  BY <1>1, <1>2, DisputesDecided, DisputesPaid DEF BooksInv

\* Whoever else moves the slot on does nothing to the disputes, and only a fault
\* keeps a resolution from being marked.
BooksLeft ==
    /\ UNCHANGED dispute
    /\ faults' \in Nat /\ faults' >= faults
    /\ \E r \in Reqs : /\ req'[r].pc \notin DisputePcs
                       /\ req[r].pc = "resolve_mark" => faults' = faults + 1

LEMMA BooksApart ==
  ASSUME OneAtATime, BooksInv, BooksLeft PROVE BooksInv'
<1> PICK r \in Reqs : /\ req'[r].pc \notin DisputePcs
                      /\ req[r].pc = "resolve_mark" => faults' = faults + 1
  BY DEF BooksLeft
<1>1. DisputesInOrder'
  BY PaidUnchanged DEF BooksLeft
<1>2. \A s \in Reqs : DisputeDecided(s)'
  BY DEF OneAtATime, DisputeDecided, DisputePcs
<1> QED  BY <1>1, <1>2 DEF BooksInv, BooksLeft

LEMMA BooksStay ==
  ASSUME BooksInv, UNCHANGED <<dispute, faults, req>> PROVE BooksInv'
  BY DEF BooksInv, DisputesInOrder, OneIsActive, UnreadIsPaid, CheckedDisputes, ActiveDisputes,
         ResolutionsPaid, DisputeDecided

\* The handlers of the agreement are such others.
LEMMA AgreementsLeaveBooks ==
  ASSUME NEW S, req \in [Reqs -> Held(S)], faults \in Nat, AgreementsNext, UNCHANGED dispute
  PROVE  BooksLeft
<1> PICK r \in Reqs :
        \/ \E withContract \in BOOLEAN, milestones \in MilestoneArray :
              CreateInsert(r, withContract, milestones)
        \/ CreateParticipants(r)
        \/ CreateParticipantsFail(r)
        \/ CreateUndo(r)
        \/ LinkContractValidate(r)
        \/ LinkContractWrite(r)
        \/ \E to \in Statuses : UpdateStatusRead(r, to)
        \/ UpdateStatusWrite(r)
        \/ ApplyRead(r)
        \/ ApplyWrite(r)
        \/ \E i \in Milestones, to \in L!MILESTONE_STATUSES : UpdateMilestoneRead(r, i, to)
        \/ UpdateMilestoneWrite(r)
        \/ Abort(r)
  BY DEF AgreementsNext
<1>1. \/ req[r].pc # "resolve_mark" /\ UNCHANGED faults
      \/ faults' = faults + 1
  BY DEF CreateInsert, Free, CreateParticipants, CreateParticipantsFail, CreateUndo,
         LinkContractValidate, LinkContractWrite, UpdateStatusRead, UpdateStatusWrite, ApplyRead,
         ApplyWrite, UpdateMilestoneRead, UpdateMilestoneWrite, Abort, Fault
<1>s. \A new : Suspend(r, new) => req'[r] = new
  BY DEF Suspend
<1>2. ASSUME NEW pc, Goto(r, pc) PROVE req'[r].pc = pc
  BY <1>2 DEF Goto, Held
<1>3. ASSUME Return(r) PROVE req'[r].pc = "idle"
  BY <1>3, IdleDecides DEF Return
<1>4. ASSUME NEW withContract \in BOOLEAN, NEW milestones \in MilestoneArray,
             CreateInsert(r, withContract, milestones)
      PROVE  req'[r].pc = "create_participants"
  BY <1>4, <1>s DEF CreateInsert, Idle
<1>5. ASSUME LinkContractValidate(r) PROVE req'[r].pc = "link_write"
  BY <1>5, <1>s DEF LinkContractValidate, Idle
<1>6. ASSUME NEW to \in Statuses, UpdateStatusRead(r, to) PROVE req'[r].pc = "status_write"
  BY <1>6, <1>s DEF UpdateStatusRead, Idle
<1>7. ASSUME NEW i \in Milestones, NEW to \in L!MILESTONE_STATUSES, UpdateMilestoneRead(r, i, to)
      PROVE  req'[r].pc = "milestone_write"
  BY <1>7, <1>s DEF UpdateMilestoneRead, Idle
<1>8. req'[r].pc \in {"idle", "create_participants", "create_undo", "link_write", "status_write",
                      "apply_write", "milestone_write"}
  BY <1>2, <1>3, <1>4, <1>5, <1>6, <1>7
     DEF CreateParticipants, CreateParticipantsFail, CreateUndo, LinkContractWrite,
         UpdateStatusWrite, ApplyRead, ApplyWrite, UpdateMilestoneWrite, Abort
<1> QED  BY <1>1, <1>8 DEF BooksLeft, DisputePcs

\* The step takes no dispute back that was resolved or withdrawn.
DisputesKept ==
    \A d \in Disputes :
        /\ dispute[d].status = "resolved" => dispute'[d].status = "resolved"
        /\ dispute[d].status = "cancelled" => dispute'[d].status \in {"cancelled", "resolved"}

LEMMA BooksKept ==
  ASSUME BooksInv, DisputesNext PROVE DisputesKept
<1>t. dispute \in [Disputes -> Dispute] /\ \A r \in Reqs : DisputeDecided(r)
  BY DEF BooksInv
<1>1. ASSUME UNCHANGED dispute PROVE DisputesKept
  BY <1>1 DEF DisputesKept
<1>2. ASSUME NEW r \in Reqs, NEW d \in Disputes, OpenDisputeInsert(r, d) PROVE DisputesKept
  BY <1>t, <1>2 DEF OpenDisputeInsert, Dispute, DisputesKept
<1>3. ASSUME NEW r \in Reqs, AssignResolverWrite(r) PROVE DisputesKept
  BY <1>t, <1>3 DEF AssignResolverWrite, Dispute, DisputeDecided, DisputesKept
<1>4. ASSUME NEW r \in Reqs, ResolutionInsert(r) PROVE DisputesKept
  BY <1>t, <1>4 DEF ResolutionInsert, Dispute, DisputesKept
<1>5. ASSUME NEW r \in Reqs, ResolveMark(r) PROVE DisputesKept
  BY <1>t, <1>5 DEF ResolveMark, Dispute, DisputesKept
<1>6. ASSUME NEW r \in Reqs, CancelDisputeMark(r) PROVE DisputesKept
  BY <1>t, <1>6 DEF CancelDisputeMark, Dispute, DisputeDecided, DisputesKept
<1> QED
  BY <1>1, <1>2, <1>3, <1>4, <1>5, <1>6
     DEF DisputesNext, OpenDisputeCheck, OpenDisputeCheckFails, AssignResolverRead,
         ResolveDisputeRead, ResolveMarkFails, CancelDisputeRead, CancelDisputeCheck

LEMMA BooksInvInit == DisputesInit /\ AgreementsInit => BooksInv
<1> SUFFICES ASSUME DisputesInit, AgreementsInit PROVE BooksInv
  OBVIOUS
<1>1. dispute \in [Disputes -> Dispute]
  BY DisputesAssumption DEF DisputesInit, Dispute, DisputeStatus
<1>2. DisputesInOrder
  BY DEF DisputesInit, AgreementsInit, DisputesInOrder, OneIsActive, UnreadIsPaid,
         CheckedDisputes, ActiveDisputes, ResolutionsPaid
<1>3. \A r \in Reqs : DisputeDecided(r)
  BY IdleDecides DEF AgreementsInit, DisputeDecided, DisputePcs
<1> QED  BY <1>1, <1>2, <1>3 DEF BooksInv, AgreementsInit

LEMMA BooksCount == BooksInv => OneCheckedDispute /\ ResolutionBudget
<1> SUFFICES ASSUME BooksInv PROVE OneCheckedDispute /\ ResolutionBudget
  OBVIOUS
<1>1. Cardinality(CheckedDisputes) <= 1
  BY AtMostOne DEF BooksInv, DisputesInOrder, OneIsActive
<1>2. faults = 0 => CheckedDisputes = ActiveDisputes
  BY DEF BooksInv, DisputesInOrder, UnreadIsPaid, CheckedDisputes, ActiveDisputes
<1>3. OneCheckedDispute
  BY <1>1, <1>2 DEF OneCheckedDispute, OneActiveDispute, CheckedDisputes
<1> QED  BY <1>3 DEF BooksInv, DisputesInOrder, ResolutionsPaid, ResolutionBudget

LEMMA SerialInvInit == ClientsInit => SerialInv
<1> SUFFICES ASSUME ClientsInit PROVE SerialInv
  OBVIOUS
<1>1. ClientInv /\ BooksInv
  BY ClientInvInit, BooksInvInit DEF ClientsInit
<1>2. \A r \in Reqs : StillDecided(r)
  BY IdleIsRequest DEF ClientsInit, AgreementsInit, StillDecided
<1> QED  BY <1>1, <1>2 DEF SerialInv

LEMMA SerialInvNext == OneAtATime /\ SerialInv /\ [ClientsNext]_disputeVars => SerialInv'
<1> SUFFICES ASSUME OneAtATime, SerialInv, [ClientsNext]_disputeVars PROVE SerialInv'
  OBVIOUS
<1>1. ClientInv' /\ BooksInv /\ faults \in Nat
  BY ClientInvNext DEF SerialInv, BooksInv
<1>2. req \in [Reqs -> Held(RowStatus)]
  BY DEF SerialInv, ClientInv, TypeOK, Request, Held
<1>3. CASE UNCHANGED disputeVars
  BY <1>1, <1>3, BooksStay DEF disputeVars, agreementVars, SerialInv, StillDecided
<1>4. CASE AgreementsNext /\ UNCHANGED dispute
  BY <1>1, <1>2, <1>4, AgreementsStillDecided, AgreementsLeaveBooks, BooksApart DEF SerialInv
<1>5. CASE DisputesNext
  BY <1>1, <1>2, <1>5, DisputesStillDecided, BooksStep DEF SerialInv
<1> QED  BY <1>3, <1>4, <1>5 DEF ClientsNext

LEMMA SerialInvAlways ==
  ASSUME OneAtATime PROVE ClientsSpec => []SerialInv
  BY SerialInvInit, SerialInvNext, PTL DEF ClientsSpec

\* With one request slot, however many disputes there are and wherever their
\* handlers fail, no two active disputes were opened upon an answer, and there
\* are not two at all before the first call has failed.
THEOREM OneDisputeIsActive ==
  ASSUME OneAtATime PROVE ClientsSpec => []OneCheckedDispute
<1>1. SerialInv => OneCheckedDispute
  BY BooksCount DEF SerialInv
<1> QED  BY <1>1, SerialInvAlways, PTL

\* With one request slot a dispute never has more resolutions than one and the
\* failed updates that should have marked it resolved.
THEOREM ResolutionsAreBudgeted ==
  ASSUME OneAtATime PROVE ClientsSpec => []ResolutionBudget
<1>1. SerialInv => ResolutionBudget
  BY BooksCount DEF SerialInv
<1> QED  BY <1>1, SerialInvAlways, PTL

\* With one request slot a dispute that is resolved stays so, and one that was
\* withdrawn is at most resolved.
THEOREM DisputesEndOnce ==
  ASSUME OneAtATime PROVE ClientsSpec => DisputeEndsOnce
<1>1. SerialInv /\ [ClientsNext]_disputeVars => [DisputesKept]_disputeVars
  BY BooksKept DEF SerialInv, ClientsNext, DisputesKept
<1>2. ClientsSpec => [][DisputesKept]_disputeVars
  BY <1>1, SerialInvAlways, PTL DEF ClientsSpec
<1> QED  BY <1>2 DEF DisputeEndsOnce, DisputesKept

\* What one step may do to the status, and what it knew when it did.
StatusChange ==
    \/ L!Create
    \/ L!Delete
    \/ /\ L!Transition
       /\ agreement'.status = "completed" => L!milestonesSatisfyCompletion(agreement.milestones)
    \/ UNCHANGED agreement.status

LEMMA StatusChanges ==
  ASSUME OneAtATime, SerialInv, [ClientsNext]_disputeVars PROVE StatusChange
<1>t. agreement \in Agreement
  BY DEF SerialInv, ClientInv, TypeOK
<1>1. ASSUME NEW r \in Reqs, NEW withContract \in BOOLEAN, NEW milestones \in MilestoneArray,
             CreateInsert(r, withContract, milestones)
      PROVE  L!Create
  BY <1>1, <1>t DEF CreateInsert, Agreement, L!Create
<1>2. ASSUME NEW r \in Reqs, CreateUndo(r) PROVE L!Delete
  BY <1>2, <1>t DEF CreateUndo, Agreement, L!Delete, SerialInv, StillDecided
<1>3. ASSUME NEW r \in Reqs, UpdateStatusWrite(r) \/ ApplyWrite(r) PROVE StatusChange
  <2>1. CASE Exists
    <3>1. /\ L!validateTransition(agreement.status, req[r].to)
          /\ req[r].to = "completed" => L!milestonesSatisfyCompletion(agreement.milestones)
      BY <1>3 DEF UpdateStatusWrite, ApplyWrite, SerialInv, StillDecided
    <3>2. agreement'.status = req[r].to
      BY <1>3, <1>t, <2>1 DEF UpdateStatusWrite, ApplyWrite, WriteStatus, Agreement
    <3> QED  BY <3>1, <3>2 DEF L!validateTransition, L!Transition, StatusChange
  <2>2. CASE ~Exists
    BY <1>3, <2>2 DEF UpdateStatusWrite, ApplyWrite, StatusChange
  <2> QED  BY <2>1, <2>2
<1>4. ASSUME NEW r \in Reqs,
             CreateParticipants(r) \/ LinkContractWrite(r) \/ UpdateMilestoneWrite(r)
      PROVE  UNCHANGED agreement.status
  BY <1>4, <1>t DEF CreateParticipants, LinkContractWrite, UpdateMilestoneWrite, Agreement
<1>5. ASSUME DisputesNext PROVE UNCHANGED agreement
  BY <1>5 DEF DisputesNext, OpenDisputeCheck, OpenDisputeCheckFails, OpenDisputeInsert, AssignResolverRead,
              AssignResolverWrite, ResolveDisputeRead, ResolutionInsert, ResolveMark,
              ResolveMarkFails, CancelDisputeRead, CancelDisputeMark, CancelDisputeCheck
<1>6. CASE UNCHANGED agreement
  BY <1>6 DEF StatusChange
<1> QED
  BY <1>1, <1>2, <1>3, <1>4, <1>5, <1>6
     DEF ClientsNext, AgreementsNext, CreateParticipantsFail, LinkContractValidate,
         UpdateStatusRead, ApplyRead, UpdateMilestoneRead, Abort, disputeVars, agreementVars,
         StatusChange

\* With one request slot the clients and disputes implement AgreementLifecycle:
\* each status they write is a declared successor of the one it replaces, and
\* the row is deleted only while it is pending, wherever the handlers fail.
THEOREM ClientsImplementLifecycle ==
  ASSUME OneAtATime PROVE ClientsSpec => ImplementsLifecycle
<1>1. ClientsInit => agreement.status = "none"
  BY DEF ClientsInit, AgreementsInit
<1>2. SerialInv /\ [ClientsNext]_disputeVars => [L!LifecycleNext]_(agreement.status)
  BY StatusChanges DEF StatusChange, L!LifecycleNext
<1> QED
  BY <1>1, <1>2, SerialInvAlways, PTL DEF ClientsSpec, ImplementsLifecycle, L!LifecycleSpec

\* With one request slot no agreement is completed while a milestone is neither
\* approved nor released.
THEOREM CompletionHasMilestones ==
  ASSUME OneAtATime PROVE ClientsSpec => CompletionNeedsMilestones
<1> DEFINE Covered ==
        agreement.status # "completed" /\ agreement'.status = "completed"
            => L!milestonesSatisfyCompletion(agreement.milestones)
<1>1. SerialInv /\ [ClientsNext]_disputeVars => [Covered]_disputeVars
  BY StatusChanges DEF StatusChange, L!Create, L!Delete
<1>2. ClientsSpec => [][Covered]_disputeVars
  BY <1>1, SerialInvAlways, PTL DEF ClientsSpec
<1> QED  BY <1>2 DEF CompletionNeedsMilestones

----
(***************************************************************************)
(* Participants, whatever overlaps.                                        *)
(***************************************************************************)

\* The columns and slots this is about are there, whatever they hold.
PartiesShape ==
    /\ {"status", "participants"} \subseteq DOMAIN agreement
    /\ DOMAIN req = Reqs /\ \A r \in Reqs : "pc" \in DOMAIN req[r]
    /\ faults \in Nat

\* A row without its participants is still being created, or a call has failed.
PartiesOrUndo ==
    faults = 0 /\ Exists /\ ~agreement.participants
        => \E r \in Reqs : req[r].pc \in {"create_participants", "create_undo"}

PartiesInv == PartiesShape /\ PartiesOrUndo

\* The handler in r, and no other, goes on to pc.
MovesTo(r, pc) ==
    /\ DOMAIN req' = Reqs
    /\ \A s \in Reqs \ {r} : req'[s] = req[s]
    /\ "pc" \in DOMAIN req'[r] /\ req'[r].pc = pc

\* The row neither comes into being nor loses its participants.
RowStays ==
    /\ {"status", "participants"} \subseteq DOMAIN agreement'
    /\ Exists' => Exists
    /\ agreement.participants => agreement'.participants

LEMMA SuspendMoves ==
  ASSUME PartiesShape, NEW r \in Reqs, NEW new, "pc" \in DOMAIN new, Suspend(r, new)
  PROVE  MovesTo(r, new.pc)
  BY DEF PartiesShape, Suspend, MovesTo

LEMMA GotoMoves ==
  ASSUME PartiesShape, NEW r \in Reqs, NEW pc, Goto(r, pc)
  PROVE  MovesTo(r, pc)
  BY DEF PartiesShape, Goto, MovesTo

LEMMA ReturnMoves ==
  ASSUME PartiesShape, NEW r \in Reqs, Return(r)
  PROVE  MovesTo(r, "idle")
  BY DEF PartiesShape, Return, MovesTo, Idle

LEMMA RowUntouched == ASSUME PartiesShape, UNCHANGED agreement PROVE RowStays
  BY DEF PartiesShape, RowStays, Exists

LEMMA StatusLeavesRow ==
  ASSUME PartiesShape, Exists, NEW to, WriteStatus(to) PROVE RowStays
  BY DEF PartiesShape, WriteStatus, RowStays

\* A handler that is not creating the agreement.
LEMMA PartiesElsewhere ==
  ASSUME PartiesInv, NEW r \in Reqs, req[r].pc \notin {"create_participants", "create_undo"},
         NEW pc, MovesTo(r, pc), RowStays, UNCHANGED faults \/ Fault
  PROVE  PartiesInv'
<1>1. PartiesShape'
  BY DEF PartiesInv, PartiesShape, MovesTo, RowStays, Fault
<1>2. faults' = 0 => faults = 0
  BY DEF PartiesInv, PartiesShape, Fault
<1>3. \A s \in Reqs : req[s].pc \in {"create_participants", "create_undo"} => req'[s] = req[s]
  BY DEF MovesTo
<1>4. PartiesOrUndo'
  BY <1>2, <1>3 DEF PartiesInv, PartiesOrUndo, RowStays
<1> QED  BY <1>1, <1>4 DEF PartiesInv

LEMMA PartiesStay ==
  ASSUME PartiesInv, UNCHANGED <<agreement, req, faults>> PROVE PartiesInv'
  BY DEF PartiesInv, PartiesShape, PartiesOrUndo, Exists

LEMMA AgreementsKeepParties ==
  ASSUME PartiesInv, AgreementsNext PROVE PartiesInv'
<1>t. PartiesShape
  BY DEF PartiesInv
<1>1. ASSUME NEW r \in Reqs, NEW withContract \in BOOLEAN, NEW milestones \in MilestoneArray,
             CreateInsert(r, withContract, milestones)
      PROVE  PartiesInv'
  <2>1. MovesTo(r, "create_participants")
    BY <1>1, <1>t DEF CreateInsert, PartiesShape, Suspend, MovesTo, Idle
  <2>2. {"status", "participants"} \subseteq DOMAIN agreement' /\ UNCHANGED faults
    BY <1>1, <1>t DEF CreateInsert, PartiesShape
  <2> QED  BY <1>t, <2>1, <2>2 DEF PartiesInv, PartiesShape, PartiesOrUndo, MovesTo
<1>2. ASSUME NEW r \in Reqs, CreateParticipants(r) PROVE PartiesInv'
  <2>1. MovesTo(r, "idle") /\ UNCHANGED faults
    BY <1>2, <1>t, ReturnMoves DEF CreateParticipants
  <2>2. {"status", "participants"} \subseteq DOMAIN agreement' /\ agreement'.participants
    BY <1>2, <1>t DEF CreateParticipants, PartiesShape
  <2> QED  BY <1>t, <2>1, <2>2 DEF PartiesInv, PartiesShape, PartiesOrUndo, MovesTo
<1>3. ASSUME NEW r \in Reqs, CreateParticipantsFail(r) PROVE PartiesInv'
  <2>1. MovesTo(r, "create_undo") /\ UNCHANGED <<agreement, faults>>
    BY <1>3, <1>t, GotoMoves DEF CreateParticipantsFail
  <2> QED  BY <1>t, <2>1 DEF PartiesInv, PartiesShape, PartiesOrUndo, MovesTo
<1>4. ASSUME NEW r \in Reqs, CreateUndo(r) PROVE PartiesInv'
  <2>1. MovesTo(r, "idle") /\ UNCHANGED faults
    BY <1>4, <1>t, ReturnMoves DEF CreateUndo
  <2>2. {"status", "participants"} \subseteq DOMAIN agreement' /\ agreement'.status = "deleted"
    BY <1>4, <1>t DEF CreateUndo, PartiesShape
  <2>3. ~Exists'
    BY <2>2 DEF Exists, Statuses, L!AGREEMENT_STATUSES
  <2> QED  BY <1>t, <2>1, <2>2, <2>3 DEF PartiesInv, PartiesShape, PartiesOrUndo, MovesTo
<1>5. ASSUME NEW r \in Reqs,
             LinkContractWrite(r) \/ UpdateStatusWrite(r) \/ ApplyWrite(r)
               \/ UpdateMilestoneWrite(r)
      PROVE  PartiesInv'
  <2>1. MovesTo(r, "idle") /\ UNCHANGED faults
    BY <1>5, <1>t, ReturnMoves
       DEF LinkContractWrite, UpdateStatusWrite, ApplyWrite, UpdateMilestoneWrite
  <2>2. ASSUME LinkContractWrite(r) \/ UpdateMilestoneWrite(r) PROVE RowStays
    BY <1>t, <2>2 DEF LinkContractWrite, UpdateMilestoneWrite, PartiesShape, RowStays, Exists
  <2>3. ASSUME UpdateStatusWrite(r) \/ ApplyWrite(r) PROVE RowStays
    BY <1>t, <2>3, StatusLeavesRow, RowUntouched DEF UpdateStatusWrite, ApplyWrite
  <2>4. req[r].pc \notin {"create_participants", "create_undo"}
    BY <1>5 DEF LinkContractWrite, UpdateStatusWrite, ApplyWrite, UpdateMilestoneWrite
  <2> QED  BY <1>5, <2>1, <2>2, <2>3, <2>4, PartiesElsewhere
<1>6. ASSUME NEW r \in Reqs, NEW pc, req[r].pc \notin {"create_participants", "create_undo"},
             MovesTo(r, pc), UNCHANGED <<agreement, faults>>
      PROVE  PartiesInv'
  BY <1>t, <1>6, PartiesElsewhere, RowUntouched
<1>7. ASSUME NEW r \in Reqs, LinkContractValidate(r) PROVE PartiesInv'
  <2>1. MovesTo(r, "link_write")
    BY <1>t, <1>7 DEF LinkContractValidate, PartiesShape, Suspend, MovesTo, Idle
  <2> QED  BY <1>6, <1>7, <2>1 DEF LinkContractValidate, Free
<1>8. ASSUME NEW r \in Reqs, NEW to \in Statuses, UpdateStatusRead(r, to) PROVE PartiesInv'
  <2>1. MovesTo(r, "status_write")
    BY <1>t, <1>8 DEF UpdateStatusRead, PartiesShape, Suspend, MovesTo, Idle
  <2> QED  BY <1>6, <1>8, <2>1 DEF UpdateStatusRead, Free
<1>9. ASSUME NEW r \in Reqs, ApplyRead(r) PROVE PartiesInv'
  BY <1>t, <1>6, <1>9, GotoMoves, ReturnMoves DEF ApplyRead
<1>10. ASSUME NEW r \in Reqs, NEW i \in Milestones, NEW to \in L!MILESTONE_STATUSES,
              UpdateMilestoneRead(r, i, to)
       PROVE  PartiesInv'
  <2>1. MovesTo(r, "milestone_write")
    BY <1>t, <1>10 DEF UpdateMilestoneRead, PartiesShape, Suspend, MovesTo, Idle
  <2> QED  BY <1>6, <1>10, <2>1 DEF UpdateMilestoneRead, Free
<1>11. ASSUME NEW r \in Reqs, Abort(r) PROVE PartiesInv'
  <2>1. MovesTo(r, "idle") /\ RowStays
    BY <1>t, <1>11, ReturnMoves, RowUntouched DEF Abort
  <2>2. faults' \in Nat /\ faults' # 0
    BY <1>t, <1>11 DEF Abort, Fault, PartiesShape
  <2> QED  BY <1>t, <2>1, <2>2 DEF PartiesInv, PartiesShape, PartiesOrUndo, MovesTo, RowStays
<1> QED
  BY <1>1, <1>2, <1>3, <1>4, <1>5, <1>7, <1>8, <1>9, <1>10, <1>11 DEF AgreementsNext

LEMMA DisputesKeepParties ==
  ASSUME PartiesInv, DisputesNext PROVE PartiesInv'
<1>t. PartiesShape
  BY DEF PartiesInv
<1>1. ASSUME NEW r \in Reqs, NEW pc, req[r].pc \notin {"create_participants", "create_undo"},
             MovesTo(r, pc), UNCHANGED agreement, UNCHANGED faults \/ Fault
      PROVE  PartiesInv'
  BY <1>t, <1>1, PartiesElsewhere, RowUntouched
<1>2. ASSUME NEW r \in Reqs, OpenDisputeCheck(r) PROVE PartiesInv'
  <2>1. MovesTo(r, IF ActiveDisputes = {} THEN "dispute_insert" ELSE "dispute_insert_unread")
    BY <1>t, <1>2 DEF OpenDisputeCheck, PartiesShape, Suspend, MovesTo, Idle
  <2> QED  BY <1>1, <1>2, <2>1 DEF OpenDisputeCheck, Free
<1>3. ASSUME NEW r \in Reqs, NEW d \in Disputes, OpenDisputeInsert(r, d) PROVE PartiesInv'
  <2>1. MovesTo(r, "apply_read")
    BY <1>t, <1>3 DEF OpenDisputeInsert, PartiesShape, Suspend, MovesTo
  <2> QED  BY <1>1, <1>3, <2>1 DEF OpenDisputeInsert
<1>4. ASSUME NEW r \in Reqs, NEW d \in Disputes, AssignResolverRead(r, d) PROVE PartiesInv'
  <2>1. MovesTo(r, "resolver_write")
    BY <1>t, <1>4 DEF AssignResolverRead, PartiesShape, Suspend, MovesTo, Idle
  <2> QED  BY <1>1, <1>4, <2>1 DEF AssignResolverRead, Free
<1>5. ASSUME NEW r \in Reqs, NEW d \in Disputes, ResolveDisputeRead(r, d) PROVE PartiesInv'
  <2>1. MovesTo(r, "resolution_insert")
    BY <1>t, <1>5 DEF ResolveDisputeRead, PartiesShape, Suspend, MovesTo, Idle
  <2> QED  BY <1>1, <1>5, <2>1 DEF ResolveDisputeRead, Free
<1>6. ASSUME NEW r \in Reqs, NEW d \in Disputes, CancelDisputeRead(r, d) PROVE PartiesInv'
  <2>1. MovesTo(r, "cancel_mark")
    BY <1>t, <1>6 DEF CancelDisputeRead, PartiesShape, Suspend, MovesTo, Idle
  <2> QED  BY <1>1, <1>6, <2>1 DEF CancelDisputeRead, Free
<1>7. ASSUME NEW r \in Reqs, ResolveMark(r) \/ ResolveMarkFails(r) PROVE PartiesInv'
  <2>1. MovesTo(r, "apply_read")
    BY <1>t, <1>7
       DEF ResolveMark, ResolveMarkFails, ResolvedNext, PartiesShape, Suspend, MovesTo
  <2> QED  BY <1>1, <1>7, <2>1 DEF ResolveMark, ResolveMarkFails
<1>8. ASSUME NEW r \in Reqs, CancelDisputeCheck(r) PROVE PartiesInv'
  <2>1. MovesTo(r, "apply_read") \/ MovesTo(r, "idle")
    BY <1>t, <1>8, ReturnMoves DEF CancelDisputeCheck, PartiesShape, Suspend, MovesTo
  <2> QED  BY <1>1, <1>8, <2>1 DEF CancelDisputeCheck
<1>9. ASSUME NEW r \in Reqs, AssignResolverWrite(r) PROVE PartiesInv'
  BY <1>t, <1>1, <1>9, ReturnMoves DEF AssignResolverWrite
<1>10. ASSUME NEW r \in Reqs, ResolutionInsert(r) PROVE PartiesInv'
  BY <1>t, <1>1, <1>10, GotoMoves DEF ResolutionInsert
<1>11. ASSUME NEW r \in Reqs, CancelDisputeMark(r) PROVE PartiesInv'
  BY <1>t, <1>1, <1>11, GotoMoves DEF CancelDisputeMark
<1>12. ASSUME NEW r \in Reqs, OpenDisputeCheckFails(r) PROVE PartiesInv'
  <2>1. MovesTo(r, "dispute_insert_unread")
    BY <1>t, <1>12 DEF OpenDisputeCheckFails, PartiesShape, Suspend, MovesTo, Idle
  <2> QED  BY <1>1, <1>12, <2>1 DEF OpenDisputeCheckFails, Free
<1> QED
  BY <1>2, <1>3, <1>4, <1>5, <1>6, <1>7, <1>8, <1>9, <1>10, <1>11, <1>12 DEF DisputesNext

LEMMA PartiesInvInit == AgreementsInit => PartiesInv
  BY DEF PartiesInv, PartiesShape, AgreementsInit, Idle, PartiesOrUndo, Exists, Statuses,
         L!AGREEMENT_STATUSES

LEMMA PartiesAtRest == PartiesInv => NoAgreementWithoutParties
  BY DEF PartiesInv, PartiesOrUndo, NoAgreementWithoutParties, AllIdle

\* However many handlers overlap, an agreement at rest that lacks its
\* participants has met a failed call or a crash.
THEOREM AgreementsHaveParties == ClientsSpec => []NoAgreementWithoutParties
<1>1. PartiesInv /\ [ClientsNext]_disputeVars => PartiesInv'
  BY AgreementsKeepParties, DisputesKeepParties, PartiesStay
     DEF ClientsNext, disputeVars, agreementVars
<1> QED
  BY <1>1, PartiesInvInit, PartiesAtRest, PTL DEF ClientsSpec, ClientsInit
====
