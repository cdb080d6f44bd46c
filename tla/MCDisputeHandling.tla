---- MODULE MCDisputeHandling ----
(* Instances of DisputeHandling for TLC. *)
EXTENDS DisputeHandling, TLC

ClientOps == {"create", "linkContract", "updateStatus", "updateMilestone",
              "openDispute", "assignResolver", "resolveDispute", "cancelDispute"}

\* The handlers that write a status.
StatusOps == ClientOps \ {"linkContract", "updateMilestone"}

\* Request slots, and disputes, are interchangeable.
Symmetry == Permutations(Reqs) \cup Permutations(Disputes)
====
