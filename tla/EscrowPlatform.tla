---- MODULE EscrowPlatform ----
(***************************************************************************)
(* Everything that writes the agreement: clients, disputes, the webhooks   *)
(* of Trustless Work and the sync engine, on one row and in shared slots.  *)
(***************************************************************************)
EXTENDS DisputeHandling, TrustlessWebhooks, AgreementSync

platformVars == <<agreementVars, dispute, webhookVars>>

PlatformInit == AgreementsInit /\ DisputesInit /\ WebhooksInit

PlatformNext ==
    \/ AgreementsNext /\ UNCHANGED <<dispute, webhookVars>>
    \/ DisputesNext /\ UNCHANGED webhookVars
    \/ WebhooksNext /\ UNCHANGED dispute
    \/ SyncNext /\ UNCHANGED <<dispute, webhookVars>>

PlatformSpec == PlatformInit /\ [][PlatformNext]_platformVars
----
(***************************************************************************)
(* Properties                                                              *)
(***************************************************************************)

\* An event may come before its contract is linked, twice, or while the process
\* dies.  With one handler at a time a status event whose job succeeded was
\* either refused as an illegal transition or the agreement has had the status
\* it reported.  applyStatusUpdate says so of an event it applies nothing for:
\* "Idempotent duplicate: agreement ... already has status".
AcknowledgedMeansApplied ==
    \A e \in Events :
        e.action = "status_update" /\ jobStatus[e] = "succeeded"
            => e \in rejected \/ e.to \in seen

\* With one handler at a time a webhook takes the agreement along a declared
\* transition, although a missing row is not validated and a contract may be
\* linked between two attempts at its job, or while it is retried.
WebhooksMoveLegally ==
    [][\A r \in Reqs :
         /\ req[r].op = "processEvent" /\ req'[r] # req[r]
         /\ agreement'.status # agreement.status
         => L!validateTransition(agreement.status, agreement'.status)]_platformVars

\* With one handler at a time a sync never takes the agreement back along
\* pending, funded, active, in_review, completed, whatever Trustless Work says
\* and whatever was linked or disputed in between.
PullsForward ==
    [][\A r \in Reqs : req[r].op \in {"sync", "reconcile"} =>
         statusOrder(agreement'.status) >= statusOrder(agreement.status)]_platformVars

\* docs/agreement-lifecycle.md: "terminal statuses (completed, resolved,
\* cancelled) accept none".
TerminalIsFinal ==
    [][agreement.status \in L!TERMINAL_STATUSES
         => agreement'.status = agreement.status]_platformVars
====
