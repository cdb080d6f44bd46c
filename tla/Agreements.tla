---- MODULE Agreements ----
(***************************************************************************)
(* One agreement and the handlers that change it,                          *)
(* src/agreements/agreements.service.ts.                                   *)
(*                                                                         *)
(* A handler reads the row, awaits, and later writes by id alone, with no  *)
(* condition on what it read.  Each handler in flight occupies a request   *)
(* slot; what it read is kept there until it writes.  Access and wallet    *)
(* checks come first and read nothing that changes here: the callers       *)
(* modelled are the ones that pass them.                                   *)
(***************************************************************************)
EXTENDS Integers

CONSTANTS Reqs,          \* requests in flight at once
          Ops,           \* the handlers called in this instance
          Milestones,    \* indexes of agreements.milestones
          Subjects,      \* the rows of other tables a handler may be about
          MaxFaults,     \* bound: faults of a behaviour
          Nothing

ASSUME AgreementsAssumption ==
    /\ Nothing \notin Subjects
    /\ MaxFaults \in Nat

VARIABLES
    agreement,   \* the row: status, contract_id, participants, timestamps, milestones
    req,         \* the handlers in flight
    seen,        \* history: every status the row has had
    faults       \* history: crashes and failed database calls so far

agreementVars == <<agreement, req, seen, faults>>

L == INSTANCE AgreementLifecycle WITH status <- agreement.status

Statuses == L!AGREEMENT_STATUSES

RowStatus == Statuses \cup {"none", "deleted"}

MilestoneArray == [Milestones -> L!MILESTONE_STATUSES]

Agreement == [status       : RowStatus,
              contract     : BOOLEAN,    \* contract_id is set
              participants : BOOLEAN,    \* agreement_participants has its rows
              funded_at    : BOOLEAN,
              completed_at : BOOLEAN,
              milestones   : MilestoneArray]

\* Where a handler is suspended.  The last two lines are those of disputes,
\* webhooks and sync, which use the same slots.
Pcs == {"idle", "create_participants", "create_undo", "link_write",
        "status_write", "milestone_write", "apply_read", "apply_write",
        "dispute_insert", "dispute_insert_unread", "resolver_write", "resolution_insert",
        "resolve_mark", "cancel_mark", "cancel_check", "event_read", "event_write",
        "event_check", "event_ack", "sync_fetch", "sync_write", "reconcile_read", "reconcile_write"}

NoMilestones == [i \in Milestones |-> "pending"]

\* to: the status to write; enforce: options.enforceTransition; about: the
\* dispute or the event; milestones: the array to write.
Idle == [op |-> "none", pc |-> "idle", to |-> "none", enforce |-> FALSE,
         about |-> Nothing, milestones |-> NoMilestones]

Request == [op : {"none"} \cup Ops, pc : Pcs, to : RowStatus, enforce : BOOLEAN,
            about : Subjects \cup {Nothing}, milestones : MilestoneArray]

Exists == agreement.status \in Statuses

Free(r, op) == op \in Ops /\ req[r].pc = "idle"

Suspend(r, new) == req' = [req EXCEPT ![r] = new]

Goto(r, pc) == req' = [req EXCEPT ![r].pc = pc]

Return(r) == req' = [req EXCEPT ![r] = Idle]

AgreementsInit ==
    /\ agreement = [status |-> "none", contract |-> FALSE, participants |-> FALSE,
                    funded_at |-> FALSE, completed_at |-> FALSE,
                    milestones |-> NoMilestones]
    /\ req = [r \in Reqs |-> Idle]
    /\ seen = {}
    /\ faults = 0

Fault == faults < MaxFaults /\ faults' = faults + 1

(***************************************************************************)
(* The update every status change ends in: the status, and the timestamp   *)
(* that goes with it.  Neither the old status nor anything else is checked *)
(* by the database.                                                        *)
(***************************************************************************)

\* A bug to catch: only completed stamps completed_at.
WriteStatusForgetsResolved(to) ==
    /\ agreement' = [agreement EXCEPT !.status = to,
                                      !.funded_at = @ \/ to = "funded",
                                      !.completed_at = @ \/ to = "completed"]
    /\ seen' = seen \cup {to}

WriteStatus(to) ==
    /\ agreement' = [agreement EXCEPT !.status = to,
                                      !.funded_at = @ \/ to = "funded",
                                      !.completed_at = @ \/ to \in {"completed", "resolved"}]
    /\ seen' = seen \cup {to}

(***************************************************************************)
(* create                                                                  *)
(***************************************************************************)
CreateInsert(r, withContract, milestones) ==
    /\ Free(r, "create")
    /\ agreement.status = "none"
    /\ agreement' = [agreement EXCEPT !.status = "pending", !.contract = withContract,
                                      !.milestones = milestones]
    /\ seen' = seen \cup {"pending"}
    /\ Suspend(r, [Idle EXCEPT !.op = "create", !.pc = "create_participants"])
    /\ UNCHANGED faults

\* The activity rows, the created event and the enqueued sync follow; a sync
\* may be requested at any time, so no step of its own stands for that one.
CreateParticipants(r) ==
    /\ req[r].pc = "create_participants"
    /\ agreement' = [agreement EXCEPT !.participants = TRUE]
    /\ Return(r)
    /\ UNCHANGED <<seen, faults>>

CreateParticipantsFail(r) ==
    /\ req[r].pc = "create_participants"
    /\ Goto(r, "create_undo")
    /\ UNCHANGED <<agreement, seen, faults>>

\* A bug to catch: the row is left behind.
CreateUndoSkipped(r) ==
    /\ req[r].pc = "create_undo"
    /\ Return(r)
    /\ UNCHANGED <<agreement, seen, faults>>

CreateUndo(r) ==
    /\ req[r].pc = "create_undo"
    /\ agreement' = [agreement EXCEPT !.status = "deleted"]
    /\ Return(r)
    /\ UNCHANGED <<seen, faults>>

(***************************************************************************)
(* linkContract: Trustless Work must know the contract.                    *)
(***************************************************************************)
LinkContractValidate(r) ==
    /\ Free(r, "linkContract")
    /\ Exists
    /\ Suspend(r, [Idle EXCEPT !.op = "linkContract", !.pc = "link_write"])
    /\ UNCHANGED <<agreement, seen, faults>>

LinkContractWrite(r) ==
    /\ req[r].pc = "link_write"
    /\ agreement' = IF Exists THEN [agreement EXCEPT !.contract = TRUE] ELSE agreement
    /\ Return(r)
    /\ UNCHANGED <<seen, faults>>

(***************************************************************************)
(* updateStatus                                                            *)
(***************************************************************************)

\* A bug to catch: the milestones are not looked at.
UpdateStatusReadSkipsMilestones(r, to) ==
    /\ Free(r, "updateStatus")
    /\ Exists
    /\ L!validateTransition(agreement.status, to)
    /\ Suspend(r, [Idle EXCEPT !.op = "updateStatus", !.pc = "status_write", !.to = to])
    /\ UNCHANGED <<agreement, seen, faults>>

UpdateStatusRead(r, to) ==
    /\ Free(r, "updateStatus")
    /\ Exists
    /\ L!validateTransition(agreement.status, to)
    /\ to = "completed" => L!milestonesSatisfyCompletion(agreement.milestones)
    /\ Suspend(r, [Idle EXCEPT !.op = "updateStatus", !.pc = "status_write", !.to = to])
    /\ UNCHANGED <<agreement, seen, faults>>

\* The activity row, the events and the fire-and-forget syncStatusTransition,
\* which only logs and emits, follow.  An update by id of a deleted row is no
\* error and changes nothing.
UpdateStatusWrite(r) ==
    /\ req[r].pc = "status_write"
    /\ IF Exists THEN WriteStatus(req[r].to) ELSE UNCHANGED <<agreement, seen>>
    /\ Return(r)
    /\ UNCHANGED faults

(***************************************************************************)
(* applyStatusChange, for other services: read, optionally validate, write *)
(***************************************************************************)

\* A bug to catch: the read no longer guards the write.
ApplyReadUnvalidated(r) ==
    /\ req[r].pc = "apply_read"
    /\ IF Exists THEN Goto(r, "apply_write") ELSE Return(r)
    /\ UNCHANGED <<agreement, seen, faults>>

ApplyRead(r) ==
    /\ req[r].pc = "apply_read"
    /\ IF Exists /\ (req[r].enforce => L!validateTransition(agreement.status, req[r].to))
       THEN Goto(r, "apply_write")
       ELSE Return(r)
    /\ UNCHANGED <<agreement, seen, faults>>

ApplyWrite(r) ==
    /\ req[r].pc = "apply_write"
    /\ IF Exists THEN WriteStatus(req[r].to) ELSE UNCHANGED <<agreement, seen>>
    /\ Return(r)
    /\ UNCHANGED faults

(***************************************************************************)
(* updateMilestone: the whole array is read, changed in memory and written *)
(* back.  There is no machine for milestone statuses.                      *)
(***************************************************************************)
UpdateMilestoneRead(r, i, to) ==
    /\ Free(r, "updateMilestone")
    /\ Exists
    /\ Suspend(r, [Idle EXCEPT !.op = "updateMilestone", !.pc = "milestone_write",
                               !.milestones = [agreement.milestones EXCEPT ![i] = to]])
    /\ UNCHANGED <<agreement, seen, faults>>

UpdateMilestoneWrite(r) ==
    /\ req[r].pc = "milestone_write"
    /\ agreement' = IF Exists THEN [agreement EXCEPT !.milestones = req[r].milestones]
                    ELSE agreement
    /\ Return(r)
    /\ UNCHANGED <<seen, faults>>

\* The process dies, or a database call fails and the handler returns its
\* error (the delete that undoes a create included, whose error is ignored):
\* what was written stays, the rest of the handler does not happen.
Abort(r) ==
    /\ req[r].pc # "idle"
    /\ Fault
    /\ Return(r)
    /\ UNCHANGED <<agreement, seen>>

AgreementsNext ==
    \E r \in Reqs :
        \/ \E withContract \in BOOLEAN, milestones \in MilestoneArray :
              CreateInsert(r, withContract, milestones)
        \/ CreateParticipants(r)
        \/ CreateParticipantsFail(r)
        \/ CreateUndo(r)
        \/ LinkContractValidate(r)
        \/ LinkContractWrite(r)
        \/ \E to \in Statuses : UpdateStatusRead(r, to)
        \/ UpdateStatusWrite(r)
        \/ ApplyRead(r)
        \/ ApplyWrite(r)
        \/ \E i \in Milestones, to \in L!MILESTONE_STATUSES : UpdateMilestoneRead(r, i, to)
        \/ UpdateMilestoneWrite(r)
        \/ Abort(r)
====
