---- MODULE AgreementLifecycle ----
(***************************************************************************)
(* The agreement status machine: the vocabulary, the declared transitions  *)
(* and, as a specification, what they promise of one row of `agreements`.  *)
(* The transition map exists twice in the code, with the same content:     *)
(* agreement-lifecycle.ts and agreement-validation.service.ts.             *)
(***************************************************************************)

AGREEMENT_STATUSES ==
    {"draft", "pending", "funded", "active", "in_review", "completed",
     "disputed", "resolved", "cancelled"}

AGREEMENT_TRANSITIONS ==
    [draft     |-> {"pending", "cancelled"},
     pending   |-> {"funded", "active", "cancelled"},
     funded    |-> {"active", "cancelled"},
     active    |-> {"in_review", "disputed", "cancelled"},
     in_review |-> {"completed", "active", "disputed"},
     disputed  |-> {"resolved", "active"},
     completed |-> {},
     resolved  |-> {},
     cancelled |-> {}]

TERMINAL_STATUSES == {"completed", "resolved", "cancelled"}

\* validateTransition of both modules: unknown statuses and undeclared
\* transitions, from a status to itself among them, are refused.
validateTransition(from, to) ==
    /\ from \in AGREEMENT_STATUSES
    /\ to \in AGREEMENT_TRANSITIONS[from]

MILESTONE_STATUSES == {"pending", "approved", "released", "rejected"}

COMPLETED_MILESTONE_STATUSES == {"approved", "released"}

milestonesSatisfyCompletion(milestones) ==
    \A i \in DOMAIN milestones : milestones[i] \in COMPLETED_MILESTONE_STATUSES

----
VARIABLE status   \* agreements.status, "none" while there is no row

\* create inserts the row as pending; its participants may fail to insert, and
\* the row is then deleted again.
Create == status = "none" /\ status' = "pending"

Delete == status = "pending" /\ status' = "deleted"

Transition == /\ status \in AGREEMENT_STATUSES
              /\ status' \in AGREEMENT_TRANSITIONS[status]

LifecycleNext == Create \/ Delete \/ Transition

LifecycleSpec == status = "none" /\ [][LifecycleNext]_status
====
