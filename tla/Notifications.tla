---- MODULE Notifications ----
(***************************************************************************)
(* Mails about agreements and the log of them,                             *)
(* src/notifications/notifications.service.ts, its listener and its        *)
(* controller.                                                             *)
(*                                                                         *)
(* A notice is a call of the service, numbered as it is served; nobody     *)
(* waits for it when it comes from the event bus, so that notices overlap  *)
(* and die with the process.  The mail provider is external.  An address   *)
(* stands for the email of its profile; templates are left out.            *)
(***************************************************************************)
EXTENDS Accounts

CONSTANT MaxNotices    \* bound: notices in all

ASSUME NoticesAssumption ==
    /\ MaxNotices \in Nat
    /\ \A l \in Loads : l.service = "notifications" => l.requests <= MaxNotices

VARIABLES mailer,      \* RESEND_API_KEY is set
          members,     \* wallets in agreement_participants
          mailable,    \* wallets whose profile has an email
          outbox,      \* history: who the provider has mailed, by notice
          logs         \* notification_logs: [status, recipient], by notice

noticeVars == <<mailer, members, mailable, outbox, logs>>

Notices == 1..MaxNotices

AGREEMENT_EVENTS == {"created", "funded", "completed", "evidence_submitted", "milestone_approved",
                     "milestone_released", "dispute_opened", "dispute_resolved"}

DISPUTE_EVENTS == {"dispute_opened", "dispute_resolved"}

NoticesInit ==
    /\ mailer \in BOOLEAN
    /\ members = {CHOOSE a \in Addresses : a \in ActiveAddresses \/ ActiveAddresses = {}}
    /\ mailable = members
    /\ outbox = [n \in Notices |-> {}]
    /\ logs = [n \in Notices |-> {}]

\* Sync adds participants, and users edit their profiles.
MemberJoins(a) ==
    /\ a \notin members
    /\ members' = members \cup {a}
    /\ UNCHANGED <<mailer, mailable, outbox, logs, accountVars, callVars>>

EmailChanges(a) ==
    /\ mailable' = IF a \in mailable THEN mailable \ {a} ELSE mailable \cup {a}
    /\ UNCHANGED <<mailer, members, outbox, logs, accountVars, callVars>>

(***************************************************************************)
(* Where notices come from.                                                *)
(***************************************************************************)

\* The bus.  Whoever submitted the evidence is not told about it; dispute
\* events bring only ids, and the agreement is looked up first.
OnEvent(r, event, submitter) ==
    /\ Begin(r, [pc |-> IF event \in DISPUTE_EVENTS THEN "find_agreement" ELSE "read_participants",
                 notice |-> served + 1,
                 excluded |-> IF event = "evidence_submitted" THEN submitter ELSE Nothing])
    /\ UNCHANGED <<noticeVars, accountVars>>

\* The internal endpoints exclude nobody; a custom notice names its wallets.
OnRequest(r) ==
    /\ Begin(r, [pc |-> "read_participants", notice |-> served + 1, excluded |-> Nothing])
    /\ UNCHANGED <<noticeVars, accountVars>>

sendCustomNotification(r, wallets) ==
    /\ wallets # {}
    /\ Begin(r, [pc |-> "read_email", notice |-> served + 1, todo |-> wallets, emails |-> {}])
    /\ UNCHANGED <<noticeVars, accountVars>>

\* An agreement that cannot be read ends the notice without a row (NoticeDies).
FindAgreement(r) ==
    /\ At(r, "find_agreement")
    /\ Await(r, [call[r] EXCEPT !.pc = "read_participants"])
    /\ UNCHANGED <<noticeVars, accountVars>>

(***************************************************************************)
(* Whom to mail.                                                           *)
(***************************************************************************)
ToRecord(c, status) ==
    [pc |-> "record", notice |-> c.notice, emails |-> c.emails, status |-> status]

\* sendEmail up to its first await: without a key nothing is sent.
sendEmail(c) ==
    IF mailer THEN [c EXCEPT !.pc = "send"] ELSE ToRecord(c, "skipped")

\* A bug to catch: nobody to mail is not worth a row.
notifyForgets(c) == IF c.emails = {} THEN Idle ELSE sendEmail(c)

\* What every notify function ends in.
notify(c) == IF c.emails = {} THEN ToRecord(c, "skipped") ELSE sendEmail(c)

getParticipantEmails(r) ==
    /\ At(r, "read_participants")
    /\ LET todo == members \ {call[r].excluded}
           c == [pc |-> "read_email", notice |-> call[r].notice, todo |-> todo, emails |-> {}]
       IN Await(r, IF todo = {} THEN notify(c) ELSE c)
    /\ UNCHANGED <<noticeVars, accountVars>>

\* A read that fails counts as nobody.
ReadParticipantsFails(r) ==
    /\ At(r, "read_participants")
    /\ faults < MaxFaults
    /\ faults' = faults + 1
    /\ call' = [call EXCEPT ![r] = notify([pc |-> "read_email", notice |-> call[r].notice,
                                           todo |-> {}, emails |-> {}])]
    /\ UNCHANGED <<load, served, noticeVars, accountVars>>

\* An email that cannot be read counts as none, as one the user removes does.
getEmailForWallet(r) ==
    /\ At(r, "read_email")
    /\ \E a \in call[r].todo :
         LET c == [call[r] EXCEPT !.todo = @ \ {a},
                                  !.emails = IF a \in mailable THEN @ \cup {a} ELSE @]
         IN Await(r, IF c.todo = {} THEN notify(c) ELSE c)
    /\ UNCHANGED <<noticeVars, accountVars>>

(***************************************************************************)
(* The provider and the log.                                               *)
(***************************************************************************)
SendAccepted(r) ==
    /\ At(r, "send")
    /\ outbox' = [outbox EXCEPT ![call[r].notice] = call[r].emails]
    /\ Await(r, ToRecord(call[r], "sent"))
    /\ UNCHANGED <<mailer, members, mailable, logs, accountVars>>

SendRefused(r) ==
    /\ At(r, "send")
    /\ Await(r, ToRecord(call[r], "failed"))
    /\ UNCHANGED <<noticeVars, accountVars>>

\* The mail goes out and the answer is lost.
SendAnswerLost(r) ==
    /\ At(r, "send")
    /\ faults < MaxFaults
    /\ faults' = faults + 1
    /\ outbox' = [outbox EXCEPT ![call[r].notice] = call[r].emails]
    /\ call' = [call EXCEPT ![r] = ToRecord(call[r], "failed")]
    /\ UNCHANGED <<load, served, mailer, members, mailable, logs, accountVars>>

Rows(c) ==
    [status : {c.status}, recipient : IF c.emails = {} THEN {Nothing} ELSE c.emails]

\* An insert that fails is dropped (NoticeDies).
recordNotification(r) ==
    /\ At(r, "record")
    /\ logs' = [logs EXCEPT ![call[r].notice] = @ \cup Rows(call[r])]
    /\ Done(r)
    /\ UNCHANGED <<mailer, members, mailable, outbox, accountVars>>

NoticeDies(r) == Dies(r) /\ UNCHANGED <<noticeVars, accountVars>>

NotificationsNext ==
    \/ \E a \in ActiveAddresses : MemberJoins(a) \/ EmailChanges(a)
    \/ \E r \in Reqs :
         \/ \E event \in AGREEMENT_EVENTS, a \in ActiveAddresses : OnEvent(r, event, a)
         \/ OnRequest(r)
         \/ \E ws \in SUBSET ActiveAddresses : sendCustomNotification(r, ws)
         \/ FindAgreement(r) \/ getParticipantEmails(r) \/ ReadParticipantsFails(r)
         \/ getEmailForWallet(r)
         \/ SendAccepted(r) \/ SendRefused(r) \/ SendAnswerLost(r)
         \/ recordNotification(r) \/ NoticeDies(r)

(***************************************************************************)
(* Properties.                                                             *)
(***************************************************************************)
LoggedAsSent(n) == {row.recipient : row \in {l \in logs[n] : l.status = "sent"}}

\* "Are the emails going out?" is a query: whatever is logged as sent has been
\* mailed, and once the notices are over each one that left no row, and each
\* one whose mails differ from the rows that say sent, has cost a failed call
\* or a crash.
LogTellsTheTruth ==
    /\ \A n \in Notices : LoggedAsSent(n) \subseteq outbox[n]
    /\ (AllIdle /\ Serves("notifications")) =>
        Cardinality({n \in 1..served : logs[n] = {} \/ outbox[n] # LoggedAsSent(n)}) <= faults
====
