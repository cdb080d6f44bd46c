---- MODULE IdentityVerification ----
(***************************************************************************)
(* KYC of users (src/kyc, src/identity-providers), KYB of organizations    *)
(* (src/kyb) and the compliance status both are reported as                *)
(* (src/verification).                                                     *)
(*                                                                         *)
(* The identity provider is external: it opens sessions, says words about  *)
(* them, and its webhooks tell any of those words, in any order, late,     *)
(* twice or never.  History counters record what KYB has promised.         *)
(***************************************************************************)
EXTENDS Accounts

CONSTANTS Organizations,
          Deployments,   \* the provider configured now and the one of the next deployment
          MaxSessions,   \* bound: KYC sessions opened at the providers
          MaxWords       \* bound: words the providers say in all

VARIABLES deployment,
          sessions,        \* the provider's: who they are for and what it has said
          verifications,   \* by subject (user or organization) and provider
          kyb,             \* kyb_verifications, by organization
          ledger           \* history: KYB sessions opened and verdicts announced

kycVars == <<deployment, sessions, verifications>>

kybVars == <<kyb, ledger>>

identityVars == <<kycVars, kybVars>>

KycProviders == {"sumsub", "persona", "veriff", "synaps", "stripe", "alloy"}

Subjects == Users \cup Organizations

SessionIds == 1..MaxSessions

(***************************************************************************)
(* What the words of each provider mean, to its getStatus and to its       *)
(* processWebhook; any other word means in_review.                         *)
(***************************************************************************)
SumsubWords == [GREEN |-> "verified", RED |-> "rejected"]

PersonaWords == [pending |-> "pending", in_review |-> "in_review", approved |-> "verified",
                 rejected |-> "rejected", expired |-> "expired"]

SynapsWords == [pending |-> "pending", in_review |-> "in_review", approved |-> "verified",
                rejected |-> "rejected", expired |-> "expired"]

VeriffWords == [pending |-> "pending", in_progress |-> "in_review", completed |-> "verified",
                failed |-> "rejected", expired |-> "expired"]

StripeWords == [requires_input |-> "pending", processing |-> "in_review",
                verified |-> "verified", unverified |-> "rejected", expired |-> "expired"]

AlloyWords == [pending |-> "pending", running |-> "in_review", complete |-> "verified",
               error |-> "rejected", expired |-> "expired"]

PROVIDER_MAP == [sumsub |-> SumsubWords, persona |-> PersonaWords, veriff |-> VeriffWords,
                 synaps |-> SynapsWords, stripe |-> StripeWords, alloy |-> AlloyWords]

Words == UNION {DOMAIN PROVIDER_MAP[p] : p \in KycProviders}

\* A session at a provider, and a row of kyb_verifications.
Session == [user : Users, provider : KycProviders, said : SUBSET Words]

KybRow == [requested_by : Users, verified_at : BOOLEAN,
           status : {"pending", "in_review", "verified", "rejected"}]

ASSUME IdentityAssumption ==
    /\ MaxSessions \in Nat
    /\ MaxWords \in Nat
    /\ Deployments \subseteq [now : KycProviders, next : KycProviders]
    /\ Nothing \notin Session \cup KybRow

KycStatusOf(p, word) ==
    IF word \in DOMAIN PROVIDER_MAP[p] THEN PROVIDER_MAP[p][word] ELSE "in_review"

mapProviderStatus(status) == IF status = "in_review" THEN "pending" ELSE status

\* The field of the payload that names the session.  Only the ones who
\* agree on it can read each other's webhooks.
SessionField == [sumsub |-> "applicantId", persona |-> "inquiryId", veriff |-> "sessionId",
                 synaps |-> "sessionId", stripe |-> "object.id", alloy |-> "evaluation_id"]

\* Sumsub is asked about the user's own id, the others about a session of theirs.
ReferenceOf(s) ==
    IF sessions[s].provider = "sumsub"
    THEN [user |-> sessions[s].user, session |-> 0]
    ELSE [user |-> Nothing, session |-> s]

IdentityInit ==
    /\ deployment \in Deployments
    /\ sessions = [s \in SessionIds |-> Nothing]
    /\ verifications = [x \in Subjects |-> [p \in KycProviders |-> Nothing]]
    /\ kyb = [o \in Organizations |-> Nothing]
    /\ ledger = [o \in Organizations |-> [opened |-> 0, verified |-> 0, rejected |-> 0]]

(***************************************************************************)
(* The provider.                                                           *)
(***************************************************************************)
Opens(s, u) ==
    /\ sessions[s] = Nothing
    /\ \A t \in 1..(s - 1) : sessions[t] # Nothing
    /\ sessions' = [sessions EXCEPT ![s] =
                      [user |-> u, provider |-> deployment.now, said |-> {}]]

\* POST /identity-providers/session: a session no row knows of.
OpenDirectly(s, u) ==
    /\ Opens(s, u)
    /\ UNCHANGED <<deployment, verifications, kybVars, accountVars, callVars>>

WordsSaid ==
    {sw \in SessionIds \X Words :
       sessions[sw[1]] # Nothing /\ sw[2] \in sessions[sw[1]].said}

Says(s, word) ==
    /\ sessions[s] # Nothing
    /\ word \in DOMAIN PROVIDER_MAP[sessions[s].provider] \ sessions[s].said
    /\ Cardinality(WordsSaid) < MaxWords
    /\ sessions' = [sessions EXCEPT ![s].said = @ \cup {word}]
    /\ UNCHANGED <<deployment, verifications, kybVars, accountVars, callVars>>

\* IDENTITY_PROVIDER is changed between two deployments.
Redeploy ==
    /\ AllIdle
    /\ deployment' = [deployment EXCEPT !.now = deployment.next]
    /\ UNCHANGED <<sessions, verifications, kybVars, accountVars, callVars>>

(***************************************************************************)
(* KYC.                                                                    *)
(***************************************************************************)
RETRYABLE_STATUSES == {"rejected", "expired", "unverified"}

\* A live or verified row is returned as it is.
KycCreateRead(r, u) ==
    LET row == verifications[u][deployment.now]
    IN /\ row # Nothing => row.status \in RETRYABLE_STATUSES
       /\ sessions[MaxSessions] = Nothing
       /\ Begin(r, [pc |-> "kyc_open", user |-> u, exists |-> (row # Nothing)])
       /\ UNCHANGED <<identityVars, accountVars>>

KycOpen(r) ==
    /\ At(r, "kyc_open")
    /\ \E s \in SessionIds :
         /\ Opens(s, call[r].user)
         /\ Await(r, [pc |-> "kyc_write", user |-> call[r].user, exists |-> call[r].exists,
                      session |-> s])
    /\ UNCHANGED <<deployment, verifications, kybVars, accountVars>>

\* No provider reports a status with a new session, so it starts as pending.
\* An insert that comes second violates the unique index and returns the row.
KycWrite(r) ==
    /\ At(r, "kyc_write")
    /\ LET u == call[r].user
       IN verifications' =
            IF call[r].exists \/ verifications[u][deployment.now] = Nothing
            THEN [verifications EXCEPT ![u][deployment.now] =
                    [reference |-> ReferenceOf(call[r].session),
                     status    |-> mapProviderStatus("pending"),
                     verified_at |-> FALSE]]
            ELSE verifications
    /\ Done(r)
    /\ UNCHANGED <<deployment, sessions, kybVars, accountVars>>

\* A bug to catch: the webhook is taken for the user, not for the session.
WebhookByUser(s, word) ==
    /\ <<s, word>> \in WordsSaid
    /\ LET u == sessions[s].user
           p == deployment.now
           status == mapProviderStatus(KycStatusOf(p, word))
       IN verifications' = IF verifications[u][p] = Nothing THEN verifications
                           ELSE [verifications EXCEPT ![u][p].status = status,
                                                      ![u][p].verified_at = (status = "verified")]
    /\ UNCHANGED <<deployment, sessions, kybVars, accountVars, callVars>>

\* processWebhook and handleWebhookProcessed: one update, by reference,
\* whatever the row says.
Webhook(s, word) ==
    /\ <<s, word>> \in WordsSaid
    /\ SessionField[sessions[s].provider] = SessionField[deployment.now]
    /\ LET status == mapProviderStatus(KycStatusOf(deployment.now, word))
       IN verifications' =
            [x \in Subjects |-> [p \in KycProviders |->
               IF verifications[x][p] # Nothing /\ verifications[x][p].reference = ReferenceOf(s)
               THEN [verifications[x][p] EXCEPT !.status = status,
                                                !.verified_at = (status = "verified")]
               ELSE verifications[x][p]]]
    /\ UNCHANGED <<deployment, sessions, kybVars, accountVars, callVars>>

KycDies(r) == Dies(r) /\ UNCHANGED <<identityVars, accountVars>>

KycNext ==
    \/ \E u \in load.users, s \in SessionIds : OpenDirectly(s, u)
    \/ \E s \in SessionIds : \E word \in Words :
         Says(s, word) \/ Webhook(s, word)
    \/ Redeploy
    \/ \E r \in Reqs :
         \/ \E u \in load.users : KycCreateRead(r, u)
         \/ KycOpen(r) \/ KycWrite(r) \/ KycDies(r)

(***************************************************************************)
(* KYB, with the manual provider: a session starts as pending and moves    *)
(* through review only.                                                    *)
(***************************************************************************)
FINALIZED_STATUSES == {"verified", "rejected"}

KybCreateRead(r, u, o) ==
    /\ kyb[o] # Nothing => kyb[o].requested_by = u /\ kyb[o].status = "rejected"
    /\ Begin(r, [pc |-> "kyb_open", user |-> u, org |-> o, exists |-> (kyb[o] # Nothing)])
    /\ UNCHANGED <<identityVars, accountVars>>

KybOpen(r) ==
    /\ At(r, "kyb_open")
    /\ ledger' = [ledger EXCEPT ![call[r].org].opened = @ + 1]
    /\ Await(r, [call[r] EXCEPT !.pc = "kyb_write"])
    /\ UNCHANGED <<kycVars, kyb, accountVars>>

\* The update keeps requested_by; a second insert returns the row that won.
KybWrite(r) ==
    /\ At(r, "kyb_write")
    /\ LET o == call[r].org
       IN kyb' = IF call[r].exists
                 THEN [kyb EXCEPT ![o].status = "pending", ![o].verified_at = FALSE]
                 ELSE IF kyb[o] = Nothing
                 THEN [kyb EXCEPT ![o] = [requested_by |-> call[r].user, status |-> "pending",
                                          verified_at |-> FALSE]]
                 ELSE kyb
    /\ Done(r)
    /\ UNCHANGED <<kycVars, ledger, accountVars>>

\* A bug to catch: a verdict is given again.
KybReviewReadAgain(r, u, o, status) ==
    /\ isAdmin(u)
    /\ kyb[o] # Nothing
    /\ Begin(r, [pc |-> "kyb_review", org |-> o, status |-> status])
    /\ UNCHANGED <<identityVars, accountVars>>

KybReviewRead(r, u, o, status) ==
    /\ isAdmin(u)
    /\ kyb[o] # Nothing
    /\ kyb[o].status \notin FINALIZED_STATUSES
    /\ Begin(r, [pc |-> "kyb_review", org |-> o, status |-> status])
    /\ UNCHANGED <<identityVars, accountVars>>

\* The update and the event that announces a verdict.
KybReviewWrite(r) ==
    /\ At(r, "kyb_review")
    /\ LET o == call[r].org
           status == call[r].status
       IN /\ kyb' = [kyb EXCEPT ![o].status = status,
                                ![o].verified_at = (status = "verified")]
          /\ ledger' = IF status \in FINALIZED_STATUSES
                       THEN [ledger EXCEPT ![o][status] = @ + 1]
                       ELSE ledger
    /\ Done(r)
    /\ UNCHANGED <<kycVars, accountVars>>

KybDies(r) == Dies(r) /\ UNCHANGED <<identityVars, accountVars>>

KybNext ==
    \/ \E r \in Reqs, u \in load.users, o \in Organizations :
         \/ KybCreateRead(r, u, o)
         \/ \E status \in {"in_review", "verified", "rejected"} : KybReviewRead(r, u, o, status)
    \/ \E r \in Reqs, u \in load.users, a \in ActiveAddresses :
         SetUserRoleRead(r, u, a) /\ UNCHANGED identityVars
    \/ \E r \in Reqs :
         \/ KybOpen(r) \/ KybWrite(r) \/ KybReviewWrite(r) \/ KybDies(r)
         \/ SetUserRoleWrite(r) /\ UNCHANGED identityVars

(***************************************************************************)
(* The compliance status.  No code writes expires_at or a level, so no     *)
(* row has expired by itself and all are of the same level.                *)
(***************************************************************************)
RowStatuses(x) ==
    {verifications[x][p].status : p \in {q \in KycProviders : verifications[x][q] # Nothing}}

aggregate(x) ==
    CASE "verified" \in RowStatuses(x) -> "verified"
      [] "verified" \notin RowStatuses(x) /\ "pending" \in RowStatuses(x) -> "pending"
      [] RowStatuses(x) \subseteq {"expired", "rejected"} /\ "expired" \in RowStatuses(x) -> "expired"
      [] RowStatuses(x) = {"rejected"} -> "rejected"
      [] OTHER -> "unverified"

(***************************************************************************)
(* Properties.                                                             *)
(***************************************************************************)
SaidOf(x, p) ==
    {mapProviderStatus(KycStatusOf(p, word)) :
       word \in UNION {sessions[s].said :
                  s \in {t \in SessionIds : /\ sessions[t] # Nothing
                                            /\ sessions[t].user = x
                                            /\ sessions[t].provider = p
                                            /\ ReferenceOf(t) = verifications[x][p].reference}}}

\* However sessions, retries, deployments and late, repeated or reordered
\* webhooks mix, a row in verifications is pending or says what its provider
\* has said of the very session it refers to, for the very user; verified_at
\* follows.  So no user is reported as verified without such a verdict.
StatusIsTheSessions ==
    \A x \in Users :
        /\ \A p \in KycProviders : verifications[x][p] # Nothing =>
              /\ verifications[x][p].status \in {"pending"} \cup SaidOf(x, p)
              /\ verifications[x][p].verified_at = (verifications[x][p].status = "verified")
        /\ aggregate(x) = "verified" => \E p \in KycProviders :
              verifications[x][p] # Nothing /\ "verified" \in SaidOf(x, p)

\* When requests do not overlap, each KYB session gets at most one verdict,
\* an organization is announced as verified once, and a new session is
\* opened only for a rejected one or one lost to a fault.
OneVerdictPerSession ==
    Serial => \A o \in Organizations :
        /\ ledger[o].verified + ledger[o].rejected <= ledger[o].opened
        /\ ledger[o].opened <= 1 + ledger[o].rejected + faults
        /\ ledger[o].verified <= 1

\* An organization that KYB has verified is reported as verified.
KybIsReported ==
    \A o \in Organizations :
        (kyb[o] # Nothing /\ kyb[o].status = "verified") => aggregate(o) = "verified"
====
