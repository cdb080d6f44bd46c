---- MODULE MCEscrowPlatform ----
(* Instances of EscrowPlatform for TLC. *)
EXTENDS EscrowPlatform, TLC

WebhookOps == {"create", "linkContract", "updateStatus", "processEvent"}

SyncOps == {"create", "updateStatus", "sync"}

\* Every kind of writer; updateStatus is checked with the other clients.
PlatformOps == {"create", "linkContract", "updateMilestone", "openDispute", "cancelDispute",
                "processEvent", "sync", "reconcile"}

Funded == [action |-> "status_update", to |-> "funded"]

Cancelled == [action |-> "status_update", to |-> "cancelled"]

Approved == [action |-> "milestone_update", to |-> "approved", index |-> 1]

Completed == [action |-> "status_update", to |-> "completed"]

FundedEvent == {Funded}

CompletedEvent == {Completed}

MixedEvents == {Cancelled, Approved}

MixedSubjects == MixedEvents \cup Disputes

\* Request slots are interchangeable.
Symmetry == Permutations(Reqs)
====
